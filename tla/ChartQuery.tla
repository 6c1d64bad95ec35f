------------------------------ MODULE ChartQuery ------------------------------
(***************************************************************************)
(* The queries of one chart of a dashboard or of Explore                   *)
(* (superset-frontend, src/components/Chart): its entry in the store, the  *)
(* requests sent for it and the AbortController of the last, which the next*)
(* query aborts from a timer.  A query is numbered; "its answer" is the    *)
(* data or the error the entry's queriesResponse then holds.  The states   *)
(* 'success' and 'rendered' are not told apart.                            *)
(***************************************************************************)
EXTENDS Integers

CONSTANTS MaxQueries, MaxRemovals   \* bounds

ASSUME QueryAssumption == MaxQueries \in Nat \ {0} /\ MaxRemovals \in Nat

VARIABLES
  gaq,        \* the feature flag GlobalAsyncQueries, fixed
  inLayout,   \* the layout has the chart, so its component is mounted
  entry,      \* charts[key]
  issued,     \* the number of queries so far
  request,    \* request[q], see Request
  aborting,   \* queries whose controller a pending timer will abort
  orphans,    \* history: queries in flight when the entry was removed
  removals

vars == <<gaq, inLayout, entry, issued, request, aborting, orphans, removals>>

Queries == 1..MaxQueries

\* "sent", or about to be; "async": a 202, waiting for its event; "parsing": the
\* body of an error is being read; "aborted": its AbortError is on the way; the
\* others are final.
Request == {"none", "sent", "async", "parsing", "aborted", "answered", "stopped", "lost"}

Absent == [present |-> FALSE, triggerQuery |-> FALSE, status |-> "none",
           controller |-> 0, response |-> 0]
NewChart == [Absent EXCEPT !.present = TRUE, !.triggerQuery = TRUE, !.status = "loading"]

TypeOK ==
  /\ gaq \in BOOLEAN /\ inLayout \in BOOLEAN
  /\ entry \in [present : BOOLEAN, triggerQuery : BOOLEAN,
                status : {"none", "loading", "success", "failed", "stopped"},
                controller : 0..issued, response : 0..issued]
  /\ issued \in 0..MaxQueries
  /\ request \in [Queries -> Request]
  /\ aborting \subseteq 1..issued /\ orphans \subseteq 1..issued
  /\ removals \in Nat

Init ==
  /\ gaq \in BOOLEAN
  /\ inLayout = TRUE /\ entry = NewChart
  /\ issued = 0 /\ request = [q \in Queries |-> "none"]
  /\ aborting = {} /\ orphans = {} /\ removals = 0

-----------------------------------------------------------------------------
\* The bound leaves room for the query a triggered chart is about to make.
Room == issued + (IF entry.triggerQuery THEN 1 ELSE 0) < MaxQueries

InFlight(q) == request[q] \in {"sent", "async", "parsing", "aborted"}

\* What an abort does to a request: fetch rejects, an error body can no longer
\* be read (getClientErrorObject then never resolves), and waitForAsyncData,
\* which has no signal, goes on.
Aborted(q) ==
  CASE request[q] = "sent" -> "aborted"
    [] request[q] = "parsing" -> "lost"
    [] OTHER -> request[q]

\* The dashboard's user removes the chart or adds it, again or by undo
\* (componentDidUpdate); nothing is aborted.
RemoveChart ==
  /\ inLayout /\ removals < MaxRemovals
  /\ inLayout' = FALSE /\ entry' = Absent
  /\ orphans' = orphans \cup {q \in Queries : InFlight(q)}
  /\ removals' = removals + 1
  /\ UNCHANGED <<gaq, issued, request, aborting>>

AddChart ==
  /\ ~ inLayout /\ issued < MaxQueries
  /\ inLayout' = TRUE /\ entry' = NewChart
  /\ UNCHANGED <<gaq, issued, request, aborting, orphans, removals>>

\* A filter, the Run button, an OAuth2 redirect.
TriggerQuery ==
  /\ inLayout /\ Room
  /\ entry' = [entry EXCEPT !.triggerQuery = TRUE, !.status = "loading"]
  /\ UNCHANGED <<gaq, inLayout, issued, request, aborting, orphans, removals>>

Started(q) == [entry EXCEPT !.triggerQuery = FALSE, !.status = "loading", !.controller = q]

\* Mutants: the previous query is not aborted; the test that there is one is
\* dropped.
ExploreJsonAlone ==
  LET q == issued + 1
  IN /\ issued < MaxQueries /\ issued' = q
     /\ entry' = Started(q)
     /\ request' = [request EXCEPT ![q] = "sent"]
     /\ UNCHANGED <<gaq, inLayout, aborting, orphans, removals>>
ExploreJsonUnchecked ==
  LET q == issued + 1
  IN /\ issued < MaxQueries /\ issued' = q
     /\ entry' = Started(q)
     /\ request' = [request EXCEPT ![q] = "sent"]
     /\ aborting' = aborting \cup {entry.controller}
     /\ UNCHANGED <<gaq, inLayout, orphans, removals>>

ExploreJson ==
  LET q == issued + 1
  IN /\ issued < MaxQueries /\ issued' = q
     /\ entry' = Started(q)
     /\ request' = [request EXCEPT ![q] = "sent"]
     /\ aborting' = aborting \cup ({entry.controller} \ {0})
     /\ UNCHANGED <<gaq, inLayout, orphans, removals>>

\* componentDidMount and componentDidUpdate of a chart that was triggered.
RunQuery == inLayout /\ entry.triggerQuery /\ ExploreJson

\* The refresh of the chart or the dashboard; nothing before its first query.
RefreshChart == inLayout /\ entry.controller # 0 /\ Room /\ ExploreJson

\* setTimeout(() => prevController.abort(), 0)
AbortTimer(q) ==
  /\ q \in aborting
  /\ aborting' = aborting \ {q}
  /\ request' = [request EXCEPT ![q] = Aborted(q)]
  /\ UNCHANGED <<gaq, inLayout, entry, issued, orphans, removals>>

\* Explore's Stop button.
OnStop ==
  /\ inLayout /\ entry.controller # 0 /\ entry.status = "loading"
  /\ request' = [request EXCEPT ![entry.controller] = Aborted(entry.controller)]
  /\ UNCHANGED <<gaq, inLayout, entry, issued, aborting, orphans, removals>>

-----------------------------------------------------------------------------
\* Nothing orders a response and the timer that would abort the request: a query
\* may even end before anything is sent, when its payload cannot be built.
Responds(q) == request[q] = "sent"

\* The reducer writes to charts[key], whether there is such an entry or not.
Dispatch(q, status, last) ==
  /\ entry' = [entry EXCEPT !.present = TRUE, !.status = status,
                            !.response = IF status = "stopped" THEN @ ELSE q]
  /\ request' = [request EXCEPT ![q] = last]
  /\ UNCHANGED <<gaq, inLayout, issued, aborting, orphans, removals>>

Becomes(q, at) ==
  /\ request' = [request EXCEPT ![q] = at]
  /\ UNCHANGED <<gaq, inLayout, entry, issued, aborting, orphans, removals>>

Succeeds(q) == Responds(q) /\ Dispatch(q, "success", "answered")

\* A 202 of GlobalAsyncQueries, and the end of waitForAsyncData.
Accepted(q) == gaq /\ Responds(q) /\ Becomes(q, "async")
AsyncEnds(q) ==
  /\ request[q] = "async"
  /\ \E status \in {"success", "failed"} : Dispatch(q, status, "answered")

\* A payload that cannot be built, a timeout or a network error; with
\* GlobalAsyncQueries any error.
Fails(q) == Responds(q) /\ Dispatch(q, "failed", "answered")

\* The server answered with an error, whose body getClientErrorObject reads.
ErrorResponds(q) == ~ gaq /\ Responds(q) /\ Becomes(q, "parsing")
ErrorParsed(q) == request[q] = "parsing" /\ Dispatch(q, "failed", "answered")
ErrorBodyBreaks(q) == request[q] = "parsing" /\ Becomes(q, "lost")

\* Mutants: an AbortError is taken for an error of the query; it is swallowed.
AbortErrorShown(q) == request[q] = "aborted" /\ Dispatch(q, "failed", "stopped")
AbortErrorSilent(q) == request[q] = "aborted" /\ Becomes(q, "stopped")

\* The AbortError reaches the catch, at once or after the retries of fetch-retry.
AbortError(q) ==
  /\ request[q] = "aborted"
  /\ Dispatch(q, IF gaq THEN "failed" ELSE "stopped", "stopped")

Response(q) ==
  \/ Succeeds(q) \/ Accepted(q) \/ AsyncEnds(q) \/ Fails(q)
  \/ ErrorResponds(q) \/ ErrorParsed(q) \/ ErrorBodyBreaks(q) \/ AbortError(q)

Next ==
  \/ RemoveChart \/ AddChart \/ TriggerQuery \/ RunQuery \/ RefreshChart \/ OnStop
  \/ \E q \in Queries : AbortTimer(q) \/ Response(q)

\* Mounted components update, timers fire and requests end.
Fairness ==
  /\ WF_vars(RunQuery)
  /\ \A q \in Queries : WF_vars(AbortTimer(q)) /\ WF_vars(Response(q))

Spec == Init /\ [][Next]_vars /\ Fairness
-----------------------------------------------------------------------------
\* However queries overtake one another, an older answer replaces a newer one
\* only while the timer that aborts its query is still pending (chartAction.js:
\* 426-434), or if the query was in flight when the chart was removed.  Not so
\* with GlobalAsyncQueries, whose waits are not aborted.
NeverGoesBack ==
  [][(~ gaq /\ entry'.response \in 1..(entry.response - 1))
       => entry'.response \in aborting \cup orphans]_vars

\* Every request that may still be answered can be stopped by the user, or is
\* about to be aborted; superseded queries do not pile up on the server.
InFlightIsKnown ==
  \A q \in Queries :
    request[q] = "sent" => q = entry.controller \/ q \in aborting \cup orphans

\* A chart does not stay in the state 'loading', whether its query is answered,
\* fails, is stopped or superseded, unless the body of an error cannot be read.
LoadingEnds ==
  (inLayout /\ entry.status = "loading")
    ~> (~ inLayout \/ entry.status # "loading" \/ \E q \in Queries : request[q] = "lost")
=============================================================================
