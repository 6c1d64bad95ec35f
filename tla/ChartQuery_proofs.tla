-------------------------- MODULE ChartQuery_proofs --------------------------
(***************************************************************************)
(* What order the queries of a chart keep: a request that is not the last  *)
(* is about to be aborted, and only until then can its answer take the     *)
(* place of a newer one.                                                   *)
(***************************************************************************)
EXTENDS ChartQuery, TLAPS

\* The last query sent is the one whose controller the entry has.
LastIsHeld ==
  /\ entry.controller \in {0, issued}
  /\ \A r \in aborting : entry.controller = 0 \/ r < entry.controller
  /\ \A q \in Queries : request[q] # "none" => q <= issued

\* A request that may still write an answer is the last, or will be aborted.
OthersAbort ==
  \A q \in Queries :
    request[q] \in {"sent", "parsing"} => q = entry.controller \/ q \in aborting \cup orphans

NoWaits == ~ gaq => \A q \in Queries : request[q] # "async"

\* A chart that was removed holds no controller, whatever came late.
RemovedIsIdle == ~ inLayout => entry.controller = 0

IInv == TypeOK /\ LastIsHeld /\ OthersAbort /\ NoWaits /\ RemovedIsIdle
-----------------------------------------------------------------------------
Statuses == {"none", "loading", "success", "failed", "stopped"}
Entries(n) ==
  [present : BOOLEAN, triggerQuery : BOOLEAN, status : Statuses,
   controller : 0..n, response : 0..n]

LEMMA EntryTypes ==
  ASSUME NEW n \in Nat
  PROVE  /\ Absent \in Entries(n) /\ NewChart \in Entries(n)
         /\ \A e \in Entries(n), t \in BOOLEAN, s \in Statuses, c \in 0..n :
              [e EXCEPT !.triggerQuery = t, !.status = s, !.controller = c] \in Entries(n)
         /\ \A e \in Entries(n), s \in Statuses, r \in 0..n :
              [e EXCEPT !.present = TRUE, !.status = s, !.response = r] \in Entries(n)
         /\ Entries(n) \subseteq Entries(n + 1)
<1>1. Absent \in Entries(n)
  BY DEF Absent, Entries, Statuses
<1>6. NewChart \in Entries(n)
  BY <1>1 DEF NewChart, Entries, Statuses
<1>2. \A e \in Entries(n), t \in BOOLEAN, s \in Statuses, c \in 0..n :
        [e EXCEPT !.triggerQuery = t, !.status = s, !.controller = c] \in Entries(n)
  BY DEF Entries
<1>3. \A e \in Entries(n), s \in Statuses, r \in 0..n :
        [e EXCEPT !.present = TRUE, !.status = s, !.response = r] \in Entries(n)
  BY DEF Entries
<1>4. 0..n \subseteq 0..(n + 1)
  OBVIOUS
<1>5. Entries(n) \subseteq Entries(n + 1)
  BY <1>4 DEF Entries
<1> QED BY <1>1, <1>2, <1>3, <1>5, <1>6

LEMMA IssuedIsNat == TypeOK => issued \in Nat /\ issued <= MaxQueries
BY QueryAssumption DEF TypeOK

LEMMA InitIInv ==
  ASSUME Init
  PROVE  IInv
<1>1. entry \in Entries(issued)
  BY EntryTypes DEF Init
<1>2. TypeOK
  BY <1>1, QueryAssumption DEF Init, TypeOK, Entries, Statuses, Request
<1>3. entry.controller = 0
  BY DEF Init, NewChart, Absent
<1> QED BY <1>2, <1>3
DEF Init, IInv, LastIsHeld, OthersAbort, NoWaits, RemovedIsIdle, Queries

\* The layout's chart comes and goes, or is asked to query again.
LEMMA ChartKeepsIInv ==
  ASSUME IInv, RemoveChart \/ AddChart \/ TriggerQuery
  PROVE  IInv'
<1>1. CASE RemoveChart
  <2>1. TypeOK'
    <3>1. entry' \in Entries(issued')
      BY <1>1, EntryTypes, IssuedIsNat DEF RemoveChart, IInv
    <3>2. \A q \in Queries : InFlight(q) => q \in 1..issued
      BY DEF IInv, TypeOK, LastIsHeld, InFlight, Queries
    <3>3. orphans' \subseteq 1..issued /\ removals' \in Nat
      <4>1. removals' \in Nat
        BY <1>1 DEF RemoveChart, IInv, TypeOK
      <4>2. orphans \subseteq 1..issued
        BY DEF IInv, TypeOK
      <4>3. orphans' = orphans \cup {q \in Queries : InFlight(q)}
        BY <1>1 DEF RemoveChart
      <4>4. SUFFICES ASSUME NEW q \in orphans' PROVE q \in 1..issued
        BY <4>1
      <4> QED BY <3>2, <4>2, <4>3, Zenon
    <3> QED BY <1>1, <3>1, <3>3 DEF IInv, TypeOK, RemoveChart, Entries, Statuses
  <2>2. OthersAbort'
    BY <1>1 DEF IInv, OthersAbort, RemoveChart, InFlight
  <2> QED BY <1>1, <2>1, <2>2
      DEF IInv, LastIsHeld, NoWaits, RemovedIsIdle, RemoveChart, Absent
<1>2. CASE AddChart
  <2>1. TypeOK'
    <3>1. entry' \in Entries(issued')
      BY <1>2, EntryTypes, IssuedIsNat DEF AddChart, IInv
    <3> QED BY <1>2, <3>1 DEF IInv, TypeOK, AddChart, Entries, Statuses
  <2>2. OthersAbort'
    BY <1>2 DEF IInv, OthersAbort, RemovedIsIdle, AddChart, Queries
  <2> QED BY <1>2, <2>1, <2>2
      DEF IInv, LastIsHeld, NoWaits, RemovedIsIdle, AddChart, Absent, NewChart
<1>3. CASE TriggerQuery
  BY <1>3 DEF IInv, TypeOK, LastIsHeld, OthersAbort, NoWaits, RemovedIsIdle, TriggerQuery
<1> QED BY <1>1, <1>2, <1>3

\* The query that is superseded is the only one not about to be aborted yet.
LEMMA ExploreJsonKeepsIInv ==
  ASSUME IInv, inLayout, ExploreJson
  PROVE  IInv'
<1> DEFINE q == issued + 1
<1>1. /\ q \in Queries /\ issued \in Nat /\ issued' = q
      /\ entry' = Started(q)
      /\ request' = [request EXCEPT ![q] = "sent"]
      /\ aborting' = aborting \cup ({entry.controller} \ {0})
      /\ UNCHANGED <<gaq, inLayout, orphans, removals>>
  BY QueryAssumption DEF IInv, TypeOK, ExploreJson, Queries
<1>2. entry'.controller = q /\ request'[q] = "sent"
  BY <1>1 DEF IInv, TypeOK, Started
<1>3. \A p \in Queries : p # q => request'[p] = request[p]
  BY <1>1 DEF IInv, TypeOK
<1>4. TypeOK'
  <2>1. entry' \in [present : BOOLEAN, triggerQuery : BOOLEAN,
                    status : {"none", "loading", "success", "failed", "stopped"},
                    controller : 0..issued', response : 0..issued']
    <3>1. entry \in Entries(issued + 1) /\ q \in 0..(issued + 1)
      <4>1. entry \in Entries(issued)
        BY DEF IInv, TypeOK, Entries, Statuses
      <4>2. issued \in Nat
        BY IssuedIsNat DEF IInv
      <4>3. Entries(issued) \subseteq Entries(issued + 1)
        BY <4>2, EntryTypes
      <4> QED BY <4>1, <4>2, <4>3
    <3> QED BY <1>1, <3>1 DEF Started, Entries, Statuses
  <2>2. request' \in [Queries -> Request]
    BY <1>1 DEF IInv, TypeOK, Request
  <2>3. aborting' \subseteq 1..issued' /\ orphans' \subseteq 1..issued'
    <3>1. entry.controller \in 0..issued
      BY DEF IInv, TypeOK
    <3>2. aborting \subseteq 1..issued /\ orphans \subseteq 1..issued
      BY DEF IInv, TypeOK
    <3>3. 1..issued \subseteq 1..(issued + 1) /\ 1..(issued + 1) \subseteq Int
      BY <1>1
    <3>4. \A c \in 0..issued : c # 0 => c \in 1..(issued + 1)
      BY <1>1
    <3> QED BY <1>1, <3>1, <3>2, <3>3, <3>4
  <2> QED BY <1>1, <2>1, <2>2, <2>3 DEF IInv, TypeOK, Queries
<1>5. LastIsHeld'
  <2>1. \A r \in aborting' : r < q
    BY <1>1 DEF IInv, TypeOK
  <2>2. \A p \in Queries : request'[p] # "none" => p <= issued'
    BY <1>1, <1>3 DEF IInv, LastIsHeld, Queries
  <2> QED BY <1>1, <1>2, <2>1, <2>2 DEF LastIsHeld
<1>6. OthersAbort'
  BY <1>1, <1>2, <1>3 DEF IInv, OthersAbort, Queries
<1>8. NoWaits' /\ RemovedIsIdle'
  BY <1>1, <1>2, <1>3 DEF IInv, NoWaits, RemovedIsIdle
<1> QED BY <1>4, <1>5, <1>6, <1>8 DEF IInv

\* Aborting a request, by its timer or by the user.
LEMMA AbortKeepsIInv ==
  ASSUME IInv, NEW q \in Queries, AbortTimer(q) \/ (OnStop /\ q = entry.controller)
  PROVE  IInv'
<1>1. /\ request' = [request EXCEPT ![q] = Aborted(q)]
      /\ aborting' \in {aborting, aborting \ {q}}
      /\ UNCHANGED <<gaq, inLayout, entry, issued, orphans, removals>>
  BY DEF AbortTimer, OnStop
<1>3. /\ Aborted(q) \in Request
      /\ Aborted(q) \notin {"sent", "parsing"}
      /\ Aborted(q) \in {"async", "answered"} <=> request[q] \in {"async", "answered"}
      /\ Aborted(q) # "none" => request[q] # "none"
      /\ Aborted(q) = "answered" <=> request[q] = "answered"
      /\ Aborted(q) = "async" <=> request[q] = "async"
  BY DEF IInv, TypeOK, Aborted, Request
<1>4. /\ request'[q] = Aborted(q)
      /\ \A p \in Queries : p # q => request'[p] = request[p]
  BY <1>1 DEF IInv, TypeOK
<1>5. TypeOK'
  BY <1>1, <1>3 DEF IInv, TypeOK
<1>6. LastIsHeld'
  BY <1>1, <1>3, <1>4 DEF IInv, LastIsHeld
<1>7. OthersAbort'
  BY <1>1, <1>3, <1>4 DEF IInv, OthersAbort
<1>8. NoWaits' /\ RemovedIsIdle'
  BY <1>1, <1>3, <1>4 DEF IInv, NoWaits, RemovedIsIdle
<1> QED BY <1>5, <1>6, <1>7, <1>8 DEF IInv

\* A response that waits, or whose error body is read or breaks.
LEMMA BecomesKeepsIInv ==
  ASSUME IInv, NEW q \in Queries, Accepted(q) \/ ErrorResponds(q) \/ ErrorBodyBreaks(q)
  PROVE  IInv'
<1>1. PICK at \in {"async", "parsing", "lost"} :
        /\ Becomes(q, at)
        /\ at = "async" => gaq /\ Responds(q)
        /\ at = "parsing" => ~ gaq /\ Responds(q)
        /\ request[q] \in {"sent", "parsing"}
  BY DEF Accepted, ErrorResponds, ErrorBodyBreaks, Responds
<1>2. /\ request' = [request EXCEPT ![q] = at]
      /\ UNCHANGED <<gaq, inLayout, entry, issued, aborting, orphans, removals>>
  BY <1>1 DEF Becomes
<1>3. request'[q] = at /\ \A p \in Queries : p # q => request'[p] = request[p]
  BY <1>2 DEF IInv, TypeOK
<1>4. TypeOK' /\ LastIsHeld'
  BY <1>1, <1>2, <1>3 DEF IInv, TypeOK, Request, LastIsHeld
<1>5. OthersAbort' /\ NoWaits' /\ RemovedIsIdle'
  BY <1>1, <1>2, <1>3 DEF IInv, OthersAbort, NoWaits, RemovedIsIdle
<1> QED BY <1>4, <1>5 DEF IInv

\* A response that writes to the entry: the last query's, an orphan's, or the
\* 'stopped' of an aborted one, which leaves the answer alone.
LEMMA DispatchKeepsIInv ==
  ASSUME IInv, NEW q \in Queries,
         Succeeds(q) \/ AsyncEnds(q) \/ Fails(q) \/ ErrorParsed(q) \/ AbortError(q)
  PROVE  IInv'
<1>1. PICK status \in {"success", "failed", "stopped"}, last \in {"answered", "stopped"} :
        /\ Dispatch(q, status, last)
        /\ last = "answered" => Responds(q) \/ request[q] \in {"async", "parsing"}
        /\ last = "stopped" => request[q] = "aborted"
        /\ status = "stopped" \/ gaq \/ last = "answered"
        /\ status = "stopped" => last = "stopped"
        /\ request[q] # "none"
  BY DEF Succeeds, AsyncEnds, Fails, ErrorParsed, AbortError, Responds
<1>2. /\ entry' = [entry EXCEPT !.present = TRUE, !.status = status,
                                !.response = IF status = "stopped" THEN @ ELSE q]
      /\ request' = [request EXCEPT ![q] = last]
      /\ UNCHANGED <<gaq, inLayout, issued, aborting, orphans, removals>>
  BY <1>1 DEF Dispatch
<1>3. request'[q] = last /\ \A p \in Queries : p # q => request'[p] = request[p]
  BY <1>2 DEF IInv, TypeOK
<1>4. entry'.controller = entry.controller
  BY <1>2 DEF IInv, TypeOK
<1>5. q \in 1..issued
  BY <1>1 DEF IInv, LastIsHeld, Queries, TypeOK
<1>6. TypeOK'
  <2>1. entry' \in [present : BOOLEAN, triggerQuery : BOOLEAN,
                    status : {"none", "loading", "success", "failed", "stopped"},
                    controller : 0..issued', response : 0..issued']
    <3>1. entry \in Entries(issued) /\ q \in 0..issued /\ issued' = issued
      BY <1>2, <1>5 DEF IInv, TypeOK, Entries, Statuses
    <3> QED BY <1>2, <3>1 DEF Entries, Statuses
  <2> QED BY <1>2, <2>1 DEF IInv, TypeOK, Request
<1>7. LastIsHeld' /\ OthersAbort' /\ NoWaits' /\ RemovedIsIdle'
  BY <1>1, <1>2, <1>3, <1>4 DEF IInv, LastIsHeld, OthersAbort, NoWaits, RemovedIsIdle
<1> QED BY <1>6, <1>7 DEF IInv
-----------------------------------------------------------------------------
LEMMA NextKeepsIInv == IInv /\ [Next]_vars => IInv'
<1> SUFFICES ASSUME IInv, [Next]_vars PROVE IInv'
  OBVIOUS
<1>1. CASE RemoveChart \/ AddChart \/ TriggerQuery
  BY <1>1, ChartKeepsIInv
<1>2. CASE RunQuery \/ RefreshChart
  BY <1>2, ExploreJsonKeepsIInv DEF RunQuery, RefreshChart
<1>3. CASE OnStop
  <2>1. entry.controller \in Queries
    BY <1>3, QueryAssumption DEF OnStop, IInv, TypeOK, Queries
  <2> QED BY <1>3, <2>1, AbortKeepsIInv
<1>4. ASSUME NEW q \in Queries, AbortTimer(q) PROVE IInv'
  BY <1>4, AbortKeepsIInv
<1>5. ASSUME NEW q \in Queries, Response(q) PROVE IInv'
  BY <1>5, BecomesKeepsIInv, DispatchKeepsIInv DEF Response
<1>6. CASE UNCHANGED vars
  BY <1>6 DEF vars, IInv, TypeOK, LastIsHeld, OthersAbort, NoWaits, RemovedIsIdle
<1> QED BY <1>1, <1>2, <1>3, <1>4, <1>5, <1>6 DEF Next

THEOREM Invariance == Spec => []IInv
<1>1. Init => IInv
  BY InitIInv
<1> QED BY <1>1, NextKeepsIInv, PTL DEF Spec

\* The store's entry, the requests and the timers stay within their types.
THEOREM TypeCorrect == Spec => []TypeOK
<1>1. IInv => TypeOK
  BY DEF IInv
<1> QED BY <1>1, Invariance, PTL

\* Only a response writes an answer, and one older than the entry's is not the
\* last query's.
LEMMA AnswersAdvance ==
  ASSUME IInv, Next, ~ gaq, entry'.response \in 1..(entry.response - 1)
  PROVE  entry'.response \in aborting \cup orphans
<1>1. entry.response \in 0..issued /\ issued \in Nat
  BY IssuedIsNat DEF IInv, TypeOK
<1>a. entry'.response # entry.response /\ entry'.response # 0
  BY <1>1
<1>2. PICK q \in Queries :
        Succeeds(q) \/ AsyncEnds(q) \/ Fails(q) \/ ErrorParsed(q) \/ AbortError(q)
  <2>1. CASE RemoveChart \/ AddChart
    <3>1. Absent.response = 0 /\ NewChart.response = 0
      BY DEF NewChart, Absent
    <3> QED BY <1>a, <2>1, <3>1 DEF RemoveChart, AddChart
  <2>2. CASE TriggerQuery \/ RunQuery \/ RefreshChart
    <3>1. TriggerQuery => entry'.response = entry.response
      BY DEF TriggerQuery, IInv, TypeOK
    <3>2. ExploreJson => entry'.response = entry.response
      BY DEF ExploreJson, Started, IInv, TypeOK
    <3> QED BY <1>a, <2>2, <3>1, <3>2 DEF RunQuery, RefreshChart
  <2>3. CASE OnStop \/ \E q \in Queries : AbortTimer(q)
    BY <1>a, <2>3 DEF OnStop, AbortTimer
  <2>4. CASE \E q \in Queries : Accepted(q) \/ ErrorResponds(q) \/ ErrorBodyBreaks(q)
    BY <1>a, <2>4 DEF Accepted, ErrorResponds, ErrorBodyBreaks, Becomes
  <2> QED BY <2>1, <2>2, <2>3, <2>4 DEF Next, Response
<1>3. request[q] \in {"sent", "parsing"} /\ entry'.response = q
  <2>1. ~ AsyncEnds(q)
    BY DEF AsyncEnds, IInv, NoWaits
  <2>2. ~ AbortError(q)
    <3>1. AbortError(q) => Dispatch(q, "stopped", "stopped")
      BY DEF AbortError
    <3>2. Dispatch(q, "stopped", "stopped") => entry'.response = entry.response
      BY DEF Dispatch, IInv, TypeOK
    <3> QED BY <1>a, <3>1, <3>2
  <2> QED BY <1>2, <2>1, <2>2
      DEF Succeeds, Fails, ErrorParsed, Responds, Dispatch, IInv, TypeOK
<1>4. q # entry.controller
  BY <1>1, <1>3 DEF IInv, LastIsHeld, Queries
<1> QED BY <1>3, <1>4 DEF IInv, OthersAbort

\* For any number of queries, removals and overtakings: an older answer replaces
\* a newer one only while its abort is pending, or if it was in flight when the
\* chart was removed (chartAction.js:426-434).
THEOREM AnswersNeverGoBack == Spec => NeverGoesBack
<1>1. IInv /\ [Next]_vars
      => [(~ gaq /\ entry'.response \in 1..(entry.response - 1))
            => entry'.response \in aborting \cup orphans]_vars
  BY AnswersAdvance
<1> QED BY <1>1, Invariance, PTL DEF Spec, NeverGoesBack

\* No superseded request of a chart is left running (chartAction.js:410-434).
THEOREM NoneForgotten == Spec => []InFlightIsKnown
<1>1. IInv => InFlightIsKnown
  BY DEF IInv, OthersAbort, InFlightIsKnown
<1> QED BY <1>1, Invariance, PTL
=============================================================================
