-------------------------- MODULE EventRelay_proofs --------------------------
(***************************************************************************)
(* LiveNoGap for any number of events, tabs, channels, drops, failures and *)
(* restarts, whatever workers publish concurrently.  The argument: ids in  *)
(* the global stream only grow, so a reply of the XREAD stays a prefix of  *)
(* what lies beyond the cursor until it is handled, and moving the cursor  *)
(* to its last id skips nothing.  That needs "from" to be the cursor, so it*)
(* says nothing of connections made while the cursor is '$'.               *)
(* CatchUp for any number of the same: the ids of an event published alone *)
(* lie between those of the events before it and of those after it, however*)
(* these were published (InOrder), and an event that is due is in a pending*)
(* replay, on the wire, or still to be read, and in the last case nothing  *)
(* younger overtook it (OnItsWay).                                         *)
(***************************************************************************)
EXTENDS EventRelay, TLAPS

\* The ids of the global stream are bounded by the last one generated.
IdsGenerated == cursor <= fLast /\ \A e \in Events : fid[e] <= fLast

\* A read that started with a position reads on from it ...
ReadsFromCursor == phase # "queued" /\ cursor # Latest => from = cursor

\* ... and its reply stays a prefix of what lies beyond.
BatchIsPrefix ==
  phase = "replied" =>
    \A e \in batch : /\ fid[e] > from
                     /\ \A d \in FullAfter(from) \ batch : fid[e] < fid[d]

JoinedBeforeCursor == \A t \in Tabs : conn[t] => joinedAt[t] <= cursor

IInv ==
  /\ TypeOK /\ IdsGenerated /\ ReadsFromCursor /\ BatchIsPrefix
  /\ JoinedBeforeCursor /\ LiveNoGap

-----------------------------------------------------------------------------
LEMMA IdArithmetic ==
  ASSUME NEW m \in Nat PROVE m * IdsPerMs \in Nat
BY StreamAssumption

LEMMA NewIdGrows ==
  ASSUME NEW last \in Nat, now \in Nat
  PROVE  NewId(last) \in Nat /\ NewId(last) > last
<1>1. now * IdsPerMs \in Nat
  BY IdArithmetic
<1> QED BY <1>1 DEF NewId

\* What is written to a tab is a set of entries of its channel.
LEMMA SentType ==
  ASSUME TypeOK, NEW entries \in SUBSET Entry
  PROVE  Sent(entries) \in [Tabs -> Seq(SUBSET Entry)]
<1>1. ASSUME NEW t \in Tabs,
             NEW mine \in SUBSET Entry
      PROVE  Append(wire[t], mine) \in Seq(SUBSET Entry)
  BY DEF TypeOK
<1> QED BY <1>1 DEF Sent, TypeOK

\* What is left of the oldest batch on the wire.
LEMMA RestIsWire ==
  ASSUME NEW S, NEW rest \in S
  PROVE  (IF rest = {} THEN <<>> ELSE <<rest>>) \in Seq(S)
<1>1. <<>> \in Seq(S) /\ <<rest>> \in Seq(S)
  OBVIOUS
<1> QED BY <1>1

\* Every variable keeps its type (index.ts:146-157 for the server's state).
THEOREM TypeCorrect == Spec => []TypeOK
<1>1. ASSUME Init PROVE TypeOK
  <2>1. lastId \in [Tabs -> Nat]
    <3>1. FirstIds \subseteq Nat
      BY StreamAssumption
    <3> QED BY <1>1, <3>1 DEF Init
  <2>2. WarmId \in Nat
    BY StreamAssumption
  <2> QED BY <1>1, <2>1, <2>2 DEF Init, TypeOK
<1>2. TypeOK /\ [Next]_vars => TypeOK'
  <2> SUFFICES ASSUME TypeOK, [Next]_vars PROVE TypeOK'
    OBVIOUS
  <2> USE StreamAssumption
  <2>1. CASE UNCHANGED vars
    BY <2>1 DEF TypeOK, vars, streams, redis, tabs, budget, ours
  <2>2. ASSUME NEW e \in Events, PublishScoped(e) PROVE TypeOK'
    <3>1. NewId(sLast[EventChannel[e]]) \in Nat
      BY NewIdGrows DEF TypeOK
    <3>2. muddled' \in SUBSET Events
      BY <2>2 DEF TypeOK, PublishScoped, Company, HalfPublished
    <3> QED BY <2>2, <3>1, <3>2 DEF TypeOK, PublishScoped, redis, tabs, budget
  <2>3. ASSUME NEW e \in Events, PublishFull(e) PROVE TypeOK'
    <3>1. NewId(fLast) \in Nat
      BY NewIdGrows DEF TypeOK
    <3> QED BY <2>3, <3>1 DEF TypeOK, PublishFull, redis, tabs, budget, ours
  <2>4. CASE ClockTicks
    BY <2>4 DEF TypeOK, ClockTicks, redis, tabs, budget, ours
  <2>5. CASE ReadStarts
    BY <2>5 DEF TypeOK, ReadStarts, streams, tabs, budget, ours
  <2>6. CASE ReadReturns
    BY <2>6 DEF TypeOK, ReadReturns, FullAfter, streams, tabs, budget, ours
  <2>7. CASE HandleRead
    <3>1. {[id |-> fid[e], ev |-> e] : e \in batch} \in SUBSET Entry
      BY DEF TypeOK, Entry
    <3>2. wire' \in [Tabs -> Seq(SUBSET Entry)]
      BY <2>7, <3>1, SentType DEF HandleRead
    <3>3. cursor' \in Nat
      BY <2>7 DEF HandleRead, TypeOK
    <3>4. /\ phase' = "queued" /\ batch' = {} /\ ahead' = behind /\ behind' = <<>>
          /\ UNCHANGED <<streams, from, conn, joinedAt, lastId, seen, ours, budget>>
      BY <2>7 DEF HandleRead
    <3> QED BY <3>2, <3>3, <3>4 DEF TypeOK, streams, budget, ours
  <2>8. CASE HandleRange
    <3> DEFINE entries == {[id |-> sid[e], ev |-> e] :
                 e \in {d \in Scoped(Head(ahead).channel) :
                          sid[d] \in Head(ahead).start..Head(ahead).end}}
    <3>1. entries \in SUBSET Entry
      BY DEF TypeOK, Entry, Scoped
    <3>2. wire' \in [Tabs -> Seq(SUBSET Entry)]
      BY <2>8, <3>1, SentType DEF HandleRange
    <3>3. ahead' \in Seq(Replay)
      BY <2>8 DEF HandleRange, TypeOK
    <3> QED BY <2>8, <3>2, <3>3 DEF TypeOK, HandleRange, streams, budget, ours
  <2>9. CASE ReadFails
    BY <2>9 DEF TypeOK, ReadFails, streams, tabs, ours
  <2>10. CASE RangeFails
    <3>1. ahead' \in Seq(Replay)
      BY <2>10 DEF RangeFails, TypeOK
    <3>2. owed' \in [Tabs -> SUBSET Events]
      BY <2>10 DEF RangeFails, TypeOK
    <3> QED BY <2>10, <3>1, <3>2 DEF TypeOK, RangeFails, streams, tabs
  <2>11. ASSUME NEW t \in Tabs, Connect(t) PROVE TypeOK'
    <3>1. endId \in Nat /\ incrementId(lastId[t]) \in Nat
      BY IdArithmetic DEF endId, NoEnd, incrementId, TypeOK
    <3>2. [channel |-> TabChannel[t], start |-> incrementId(lastId[t]),
           end |-> endId] \in Replay
      BY <3>1 DEF TypeOK, Replay
    <3>3. behind' \in Seq(Replay)
      BY <2>11, <3>2 DEF Connect, TypeOK
    <3> QED BY <2>11, <3>3 DEF TypeOK, Connect, streams, budget, ours
  <2>12. ASSUME NEW t \in Tabs, Receive(t) PROVE TypeOK'
    <3>1. PICK x \in Head(wire[t]) :
            LET rest == Head(wire[t]) \ {x}
            IN /\ \A y \in rest : x.id < y.id
               /\ wire' = [wire EXCEPT ![t] =
                             (IF rest = {} THEN <<>> ELSE <<rest>>) \o Tail(@)]
               /\ lastId' = [lastId EXCEPT ![t] = x.id]
               /\ seen' = [seen EXCEPT ![t] = @ \cup {x.ev}]
      BY <2>12 DEF Receive
    <3>2. wire[t] \in Seq(SUBSET Entry) /\ wire[t] # <<>>
      BY <2>12 DEF Receive, TypeOK
    <3>3. Head(wire[t]) \in SUBSET Entry /\ Tail(wire[t]) \in Seq(SUBSET Entry)
      BY <3>2
    <3>4. x.id \in Nat /\ x.ev \in Events
      BY <3>3 DEF Entry
    <3> DEFINE rest == Head(wire[t]) \ {x}
               left == (IF rest = {} THEN <<>> ELSE <<rest>>) \o Tail(wire[t])
    <3>5. wire' \in [Tabs -> Seq(SUBSET Entry)]
      <4>1. rest \in SUBSET Entry
        BY <3>3
      <4>2. (IF rest = {} THEN <<>> ELSE <<rest>>) \in Seq(SUBSET Entry)
        BY <4>1, RestIsWire
      <4>3. left \in Seq(SUBSET Entry)
        BY <3>3, <4>2
      <4>4. wire' = [wire EXCEPT ![t] = left]
        BY <3>1
      <4> QED BY <4>3, <4>4 DEF TypeOK
    <3>6. /\ lastId' \in [Tabs -> Nat] /\ seen' \in [Tabs -> SUBSET Events]
      BY <3>1, <3>4 DEF TypeOK
    <3> HIDE DEF rest, left
    <3> QED BY <2>12, <3>5, <3>6 DEF TypeOK, Receive, streams, redis, budget, ours
  <2>13. ASSUME NEW t \in Tabs, Drop(t) PROVE TypeOK'
    <3>1. owed' \in [Tabs -> SUBSET Events] /\ UNCHANGED muddled
      BY <2>13 DEF Drop, TypeOK
    <3>2. conn' \in [Tabs -> BOOLEAN] /\ drops' \in Nat
      BY <2>13 DEF Drop, TypeOK
    <3>3. wire' \in [Tabs -> Seq(SUBSET Entry)]
      <4>1. <<>> \in Seq(SUBSET Entry)
        OBVIOUS
      <4> QED BY <2>13, <4>1 DEF Drop, TypeOK
    <3>4. UNCHANGED <<streams, cursor, redis, joinedAt, lastId, seen, failures, restarts>>
      BY <2>13 DEF Drop
    <3> QED BY <3>1, <3>2, <3>3, <3>4 DEF TypeOK, streams, redis
  <2>14. CASE Restart
    BY <2>14 DEF TypeOK, Restart, Latest, streams, ours
  <2> QED BY <2>1, <2>2, <2>3, <2>4, <2>5, <2>6, <2>7, <2>8, <2>9, <2>10,
             <2>11, <2>12, <2>13, <2>14 DEF Next
<1> QED BY <1>1, <1>2, PTL DEF Spec

-----------------------------------------------------------------------------
LEMMA CarriedAppend ==
  ASSUME NEW w \in Seq(SUBSET Entry), NEW mine \in SUBSET Entry
  PROVE  Carried(Append(w, mine)) = Carried(w) \cup {e \in Events : \E x \in mine : x.ev = e}
<1> DEFINE v == Append(w, mine)
<1>1. /\ DOMAIN v = DOMAIN w \cup {Len(w) + 1}
      /\ v[Len(w) + 1] = mine /\ \A i \in DOMAIN w : v[i] = w[i]
  OBVIOUS
<1> HIDE DEF v
<1>2. Carried(v) = Carried(w) \cup {e \in Events : \E x \in mine : x.ev = e}
  BY <1>1 DEF Carried
<1> QED BY <1>2 DEF v

\* Receiving the oldest entry takes nothing else off the wire.
LEMMA CarriedReceive ==
  ASSUME NEW w \in Seq(SUBSET Entry), w # <<>>, NEW x \in Head(w),
         NEW v, v = (IF Head(w) \ {x} = {} THEN <<>> ELSE <<Head(w) \ {x}>>) \o Tail(w)
  PROVE  Carried(w) \subseteq {x.ev} \cup Carried(v)
<1> SUFFICES ASSUME NEW i \in DOMAIN w, NEW y \in w[i]
             PROVE  y = x \/ \E j \in DOMAIN v : y \in v[j]
  BY ZenonT(30) DEF Carried
<1>1. CASE i = 1 /\ y # x
  <2> DEFINE rest == Head(w) \ {x}
  <2>1. y \in rest
    BY <1>1
  <2>2. v = <<rest>> \o Tail(w) /\ Tail(w) \in Seq(SUBSET Entry)
    BY <2>1
  <2>3. 1 \in DOMAIN v /\ v[1] = rest
    <3> HIDE DEF rest
    <3> QED BY <2>2
  <2> QED BY <2>1, <2>3
<1>2. CASE i # 1
  <2>1. i - 1 \in DOMAIN Tail(w) /\ Tail(w)[i - 1] = w[i]
    BY <1>2
  <2>2. CASE Head(w) \ {x} = {}
    <3>1. v = Tail(w)
      BY <2>2
    <3> QED BY <2>1, <3>1
  <2>3. CASE Head(w) \ {x} # {}
    <3> DEFINE rest == Head(w) \ {x}
    <3>1. v = <<rest>> \o Tail(w) /\ Tail(w) \in Seq(SUBSET Entry)
      BY <2>3
    <3>2. i \in DOMAIN v /\ v[i] = Tail(w)[i - 1]
      <4> HIDE DEF rest
      <4> QED BY <1>2, <2>1, <3>1
    <3> QED BY <2>1, <3>2
  <2> QED BY <2>2, <2>3
<1> QED BY <1>1, <1>2

\* A send keeps what is on the wire and puts its entries on it.
LEMMA SentCarries ==
  ASSUME TypeOK, NEW entries \in SUBSET Entry, wire' = Sent(entries), NEW t \in Tabs
  PROVE  /\ InFlight(t) \subseteq InFlight(t)'
         /\ conn[t] => \A x \in entries :
              EventChannel[x.ev] = TabChannel[t] => x.ev \in InFlight(t)'
<1> DEFINE mine == {x \in entries : EventChannel[x.ev] = TabChannel[t]}
<1>1. wire'[t] = IF conn[t] /\ mine # {} THEN Append(wire[t], mine) ELSE wire[t]
  BY DEF Sent
<1>2. wire[t] \in Seq(SUBSET Entry) /\ mine \in SUBSET Entry
  BY DEF TypeOK
<1>3. Carried(Append(wire[t], mine)) =
        Carried(wire[t]) \cup {e \in Events : \E x \in mine : x.ev = e}
  BY <1>2, CarriedAppend
<1>4. \A x \in entries : x.ev \in Events
  BY DEF Entry
<1> QED BY <1>1, <1>3, <1>4 DEF InFlight

LEMMA InductiveStep == IInv /\ TypeOK' /\ [Next]_vars => IInv'
<1> SUFFICES ASSUME IInv, TypeOK', [Next]_vars PROVE IInv'
  OBVIOUS
<1> USE StreamAssumption DEF IInv
<1>1. CASE UNCHANGED vars
  BY <1>1 DEF vars, streams, redis, tabs, budget, IdsGenerated, ReadsFromCursor,
     BatchIsPrefix, FullAfter, JoinedBeforeCursor, LiveNoGap, LiveFor, InFlight
<1>2. ASSUME NEW e \in Events, PublishScoped(e) PROVE IInv'
  BY <1>2 DEF PublishScoped, redis, tabs, budget, IdsGenerated, ReadsFromCursor,
     BatchIsPrefix, FullAfter, JoinedBeforeCursor, LiveNoGap, LiveFor, InFlight
<1>3. ASSUME NEW e \in Events, PublishFull(e) PROVE IInv'
  <2>1. fLast' > fLast /\ fLast \in Nat /\ fLast' \in Nat
    BY <1>3, NewIdGrows DEF PublishFull, TypeOK
  <2>2. \A d \in Events : fid'[d] = IF d = e THEN fLast' ELSE fid[d]
    BY <1>3 DEF PublishFull, TypeOK
  <2>3. UNCHANGED <<cursor, redis, tabs>>
    BY <1>3 DEF PublishFull
  <2>4. IdsGenerated'
    <3>1. cursor' <= fLast'
      BY <2>1, <2>3 DEF IdsGenerated, TypeOK
    <3>2. \A d \in Events : fid[d] \in Nat /\ fid[d] <= fLast
      BY DEF IdsGenerated, TypeOK
    <3> QED BY <2>1, <2>2, <3>1, <3>2 DEF IdsGenerated
  <2>5. BatchIsPrefix'
    <3> SUFFICES ASSUME phase = "replied", NEW b \in batch
                 PROVE  /\ fid'[b] > from
                        /\ \A d \in FullAfter(from)' \ batch : fid'[b] < fid'[d]
      BY <2>3 DEF BatchIsPrefix, redis
    <3>1. fid[b] > from /\ fid[b] <= fLast /\ b \in Events
      BY DEF BatchIsPrefix, IdsGenerated, TypeOK
    <3>2. b # e
      BY <1>3, <3>1 DEF PublishFull, HalfPublished, TypeOK
    <3>3. fid'[b] = fid[b] /\ fid[b] < fLast' /\ fid[b] \in Nat
      <4>1. fid[b] \in Nat
        BY <3>1 DEF TypeOK
      <4>2. fid'[b] = fid[b]
        BY <2>2, <3>1, <3>2
      <4> QED BY <2>1, <3>1, <4>1, <4>2
    <3>4. ASSUME NEW d \in FullAfter(from)' \ batch PROVE fid'[b] < fid'[d]
      <4>1. CASE d = e
        BY <2>2, <3>3, <4>1
      <4>2. CASE d # e
        <5>1. d \in FullAfter(from) \ batch /\ fid'[d] = fid[d]
          BY <2>2, <2>3, <4>2 DEF FullAfter, redis
        <5> QED BY <3>3, <5>1 DEF BatchIsPrefix
      <4> QED BY <4>1, <4>2
    <3> QED BY <3>1, <3>3, <3>4
  <2>6. \A t \in Tabs : LiveFor(t)' = LiveFor(t)
    <3>1. fid[e] = 0
      BY <1>3 DEF PublishFull, HalfPublished
    <3>2. ~ fid'[e] <= cursor
      <4>1. cursor \in Nat /\ cursor <= fLast /\ fid'[e] = fLast'
        BY <2>2 DEF IdsGenerated, TypeOK
      <4> QED BY <2>1, <4>1
    <3>3. \A t \in Tabs : ~ joinedAt[t] < fid[e]
      <4>1. \A t \in Tabs : joinedAt[t] \in Nat
        BY DEF TypeOK
      <4> QED BY <3>1, <4>1
    <3>4. \A t \in Tabs, d \in Events :
            joinedAt[t] < fid'[d] /\ fid'[d] <= cursor
              <=> joinedAt[t] < fid[d] /\ fid[d] <= cursor
      BY <2>2, <3>2, <3>3
    <3> QED BY <2>3, <3>4 DEF LiveFor, tabs
  <2>7. LiveNoGap'
    BY <2>3, <2>6 DEF LiveNoGap, InFlight, tabs
  <2> QED BY <2>3, <2>4, <2>5, <2>7 DEF ReadsFromCursor, JoinedBeforeCursor, redis, tabs
<1>4. CASE ClockTicks
  BY <1>4 DEF ClockTicks, redis, tabs, budget, IdsGenerated, ReadsFromCursor,
     BatchIsPrefix, FullAfter, JoinedBeforeCursor, LiveNoGap, LiveFor, InFlight
<1>5. CASE ReadStarts
  BY <1>5 DEF ReadStarts, streams, tabs, budget, IdsGenerated, ReadsFromCursor,
     BatchIsPrefix, FullAfter, JoinedBeforeCursor, LiveNoGap, LiveFor, InFlight
<1>6. CASE ReadReturns
  <2>1. BatchIsPrefix'
    BY <1>6 DEF ReadReturns, BatchIsPrefix, FullAfter, streams
  <2> QED BY <1>6, <2>1 DEF ReadReturns, streams, tabs, budget, IdsGenerated,
             ReadsFromCursor, JoinedBeforeCursor, LiveNoGap, LiveFor, InFlight
<1>7. CASE HandleRead
  <2> DEFINE entries == {[id |-> fid[e], ev |-> e] : e \in batch}
  <2>1. UNCHANGED <<streams, from, conn, joinedAt, seen>> /\ phase' = "queued"
    BY <1>7 DEF HandleRead
  <2>2. entries \in SUBSET Entry /\ wire' = Sent(entries)
    BY <1>7 DEF HandleRead, TypeOK, Entry
  <2>3. \/ batch = {} /\ cursor' = cursor
        \/ \E last \in batch : cursor' = fid[last] /\ \A e \in batch : fid[e] <= fid[last]
    BY <1>7 DEF HandleRead
  <2>4. cursor # Latest => from = cursor
    BY <1>7 DEF HandleRead, ReadsFromCursor
  <2>5. cursor' >= cursor
    BY <1>7, <2>3, <2>4 DEF HandleRead, BatchIsPrefix, TypeOK, Latest
  <2>6. IdsGenerated'
    BY <2>1, <2>3 DEF IdsGenerated, streams, TypeOK
  <2>7. JoinedBeforeCursor'
    <3>1. cursor \in Nat /\ cursor' \in Nat /\ joinedAt \in [Tabs -> Nat]
      BY DEF TypeOK
    <3> QED BY <2>1, <2>5, <3>1 DEF JoinedBeforeCursor
  <2>8. LiveNoGap'
    <3> SUFFICES ASSUME NEW t \in Tabs, conn[t], joinedAt[t] # Latest,
                        NEW e \in LiveFor(t)'
                 PROVE  e \in seen[t] \cup InFlight(t)'
      BY <2>1 DEF LiveNoGap
    <3>1. /\ e \in Events /\ EventChannel[e] = TabChannel[t]
          /\ joinedAt[t] < fid[e] /\ fid[e] <= cursor'
      BY <2>1 DEF LiveFor, streams
    <3>2. /\ InFlight(t) \subseteq InFlight(t)'
          /\ \A x \in entries : EventChannel[x.ev] = TabChannel[t] => x.ev \in InFlight(t)'
      BY <2>2, SentCarries
    <3>3. cursor # Latest
      <4>1. joinedAt[t] \in Nat /\ cursor \in Nat /\ joinedAt[t] <= cursor
        BY DEF JoinedBeforeCursor, TypeOK
      <4> QED BY <4>1 DEF Latest
    <3> /\ fid[e] \in Nat /\ cursor \in Nat /\ cursor' \in Nat
        /\ batch \in SUBSET Events /\ \A d \in Events : fid[d] \in Nat
      BY <3>1 DEF TypeOK
    <3>4. CASE fid[e] <= cursor
      BY <3>1, <3>2, <3>4 DEF LiveNoGap, LiveFor
    <3>5. CASE fid[e] > cursor
      <4>1. PICK last \in batch : fid[e] <= fid[last]
        BY <2>3, <3>1, <3>5
      <4>2. e \in FullAfter(from)
        BY <2>4, <3>1, <3>3, <3>5 DEF FullAfter
      <4>3. e \in batch
        <5>1. e \notin batch => fid[last] < fid[e]
          BY <1>7, <4>2 DEF HandleRead, BatchIsPrefix
        <5> QED BY <4>1, <5>1
      <4>4. [id |-> fid[e], ev |-> e] \in entries
        BY <4>3
      <4> QED BY <3>1, <3>2, <4>4
    <3> QED BY <3>4, <3>5
  <2> QED BY <2>1, <2>6, <2>7, <2>8 DEF ReadsFromCursor, BatchIsPrefix
<1>8. CASE HandleRange
  <2> DEFINE entries == {[id |-> sid[e], ev |-> e] :
               e \in {d \in Scoped(Head(ahead).channel) :
                        sid[d] \in Head(ahead).start..Head(ahead).end}}
  <2>1. UNCHANGED <<streams, cursor, phase, from, batch, conn, joinedAt, seen>>
    BY <1>8 DEF HandleRange
  <2>2. entries \in SUBSET Entry
    BY DEF TypeOK, Entry, Scoped
  <2>3. wire' = Sent(entries)
    BY <1>8 DEF HandleRange
  <2>4. \A t \in Tabs : InFlight(t) \subseteq InFlight(t)'
    BY <2>2, <2>3, SentCarries
  <2>5. LiveNoGap'
    BY <2>1, <2>4 DEF LiveNoGap, LiveFor, streams
  <2> QED BY <2>1, <2>5 DEF IdsGenerated, ReadsFromCursor, BatchIsPrefix,
             FullAfter, JoinedBeforeCursor, streams
<1>9. CASE ReadFails
  BY <1>9 DEF ReadFails, streams, tabs, IdsGenerated, ReadsFromCursor,
     BatchIsPrefix, FullAfter, JoinedBeforeCursor, LiveNoGap, LiveFor, InFlight
<1>10. CASE RangeFails
  BY <1>10 DEF RangeFails, streams, tabs, IdsGenerated, ReadsFromCursor,
     BatchIsPrefix, FullAfter, JoinedBeforeCursor, LiveNoGap, LiveFor, InFlight
<1>11. ASSUME NEW t \in Tabs, Connect(t) PROVE IInv'
  <2>1. UNCHANGED <<streams, cursor, phase, from, batch, wire, seen>>
    BY <1>11 DEF Connect
  <2>2. \A u \in Tabs : u # t => conn'[u] = conn[u] /\ joinedAt'[u] = joinedAt[u]
    BY <1>11 DEF Connect, TypeOK
  <2>3. joinedAt'[t] = cursor
    BY <1>11 DEF Connect, TypeOK
  <2>4. LiveFor(t)' = {}
    <3>1. cursor \in Nat /\ \A e \in Events : fid[e] \in Nat
      BY DEF TypeOK
    <3>2. \A e \in Events : ~ (cursor < fid[e] /\ fid[e] <= cursor)
      BY <3>1
    <3> QED BY <2>1, <2>3, <3>2 DEF LiveFor, streams
  <2>5. \A u \in Tabs : u # t => LiveFor(u)' = LiveFor(u)
    BY <2>1, <2>2 DEF LiveFor, streams
  <2>6. LiveNoGap'
    BY <2>1, <2>2, <2>4, <2>5 DEF LiveNoGap, InFlight
  <2>7. JoinedBeforeCursor'
    <3>1. cursor <= cursor
      BY DEF TypeOK
    <3> QED BY <2>1, <2>2, <2>3, <3>1 DEF JoinedBeforeCursor
  <2> QED BY <2>1, <2>6, <2>7
          DEF IdsGenerated, ReadsFromCursor, BatchIsPrefix, FullAfter, streams
<1>12. ASSUME NEW t \in Tabs, Receive(t) PROVE IInv'
  <2>1. UNCHANGED <<streams, cursor, redis, conn, joinedAt>>
    BY <1>12 DEF Receive
  <2>2. PICK x \in Head(wire[t]) :
          /\ wire' = [wire EXCEPT ![t] =
                (IF Head(wire[t]) \ {x} = {} THEN <<>> ELSE <<Head(wire[t]) \ {x}>>)
                \o Tail(@)]
          /\ seen' = [seen EXCEPT ![t] = @ \cup {x.ev}]
    BY <1>12 DEF Receive
  <2>3. wire[t] \in Seq(SUBSET Entry) /\ wire[t] # <<>>
    BY <1>12 DEF Receive, TypeOK
  <2>4. InFlight(t) \subseteq {x.ev} \cup InFlight(t)'
    <3>1. wire'[t] = (IF Head(wire[t]) \ {x} = {} THEN <<>>
                      ELSE <<Head(wire[t]) \ {x}>>) \o Tail(wire[t])
      BY <2>2 DEF TypeOK
    <3>2. Carried(wire[t]) \subseteq {x.ev} \cup Carried(wire'[t])
      BY <2>2, <2>3, <3>1, CarriedReceive
    <3> QED BY <3>2 DEF InFlight
  <2>5. \A u \in Tabs : u # t => seen'[u] = seen[u] /\ wire'[u] = wire[u]
    BY <2>2 DEF TypeOK
  <2>6. seen'[t] = seen[t] \cup {x.ev}
    BY <2>2 DEF TypeOK
  <2>7. \A u \in Tabs : seen[u] \cup InFlight(u) \subseteq seen'[u] \cup InFlight(u)'
    BY <2>4, <2>5, <2>6 DEF InFlight
  <2>8. LiveNoGap'
    BY <2>1, <2>7 DEF LiveNoGap, LiveFor, streams
  <2> QED BY <2>1, <2>8 DEF IdsGenerated, ReadsFromCursor, BatchIsPrefix,
             FullAfter, JoinedBeforeCursor, streams, redis
<1>13. ASSUME NEW t \in Tabs, Drop(t) PROVE IInv'
  <2>1. UNCHANGED <<streams, cursor, redis, joinedAt, seen>>
    BY <1>13 DEF Drop
  <2>2. \A u \in Tabs : conn'[u] => u # t /\ conn[u] /\ wire'[u] = wire[u]
    BY <1>13 DEF Drop, TypeOK
  <2>3. LiveNoGap'
    BY <2>1, <2>2 DEF LiveNoGap, LiveFor, InFlight, streams
  <2> QED BY <2>1, <2>2, <2>3 DEF IdsGenerated, ReadsFromCursor, BatchIsPrefix,
             FullAfter, JoinedBeforeCursor, streams, redis
<1>14. CASE Restart
  BY <1>14 DEF Restart, Latest, streams, TypeOK, IdsGenerated, ReadsFromCursor,
     BatchIsPrefix, JoinedBeforeCursor, LiveNoGap
<1> QED BY <1>1, <1>2, <1>3, <1>4, <1>5, <1>6, <1>7, <1>8, <1>9, <1>10,
           <1>11, <1>12, <1>13, <1>14 DEF Next

LEMMA InductiveInvariant == Spec => []IInv
<1>1. ASSUME Init, TypeOK PROVE IInv
  <2>1. \A t \in Tabs : conn[t] = FALSE
    BY <1>1 DEF Init
  <2> QED BY <1>1, <2>1, StreamAssumption DEF IInv, Init, TypeOK, IdsGenerated,
          ReadsFromCursor, BatchIsPrefix, JoinedBeforeCursor, LiveNoGap
<1> QED BY <1>1, TypeCorrect, InductiveStep, PTL DEF Spec

\* A tab that stays connected misses nothing the server has read past, however
\* publishers interleave and reads are cut short, time out or fail.
THEOREM LiveStreamHasNoGap == Spec => []LiveNoGap
BY InductiveInvariant, PTL DEF IInv

-----------------------------------------------------------------------------
\* The replays asked for and not answered, and the entries sent to a tab.
Asked == {ahead[i] : i \in DOMAIN ahead} \cup {behind[i] : i \in DOMAIN behind}
Written(w) == UNION {w[i] : i \in DOMAIN w}
OnWire(t) == Written(wire[t])
Awaits(t, e) == e \in Due(t) \ seen[t] /\ \A x \in OnWire(t) : x.ev # e

\* An event a pending replay will bring, and one the followed stream will.
Covered(e) == \E r \in Asked : r.channel = EventChannel[e] /\ sid[e] \in r.start..r.end
Coming(e) == cursor # Latest /\ (fid[e] = 0 \/ fid[e] > cursor)

\* The ids of an event published alone lie between those of the events before
\* it and of those after it.
ThisMs == now * IdsPerMs
Parted(d, e) ==
  /\ sid[d] # sid[e]
  /\ sid[d] < sid[e] => /\ fid[d] # 0 /\ fid[d] < sid[e]
                        /\ fid[e] # 0 => fid[d] < fid[e]
InOrder ==
  /\ now \in 1..(MaxMs + 1)
  /\ \A e \in Events :
       /\ sid[e] # 0 => IdsPerMs <= sid[e] /\ sid[e] <= sLast[EventChannel[e]]
       /\ fid[e] # 0 => sid[e] # 0
       /\ e \notin muddled => sid[e] <= ThisMs /\ (fid[e] # 0 => sid[e] <= fid[e])
  /\ \A d, e \in Events :
       d # e /\ sid[d] # 0 /\ sid[e] # 0 /\ (d \notin muddled \/ e \notin muddled) => Parted(d, e)

RangeEnds ==
  /\ phase # "queued" => ahead = <<>>
  /\ \A r \in Asked : r.end = NoEnd \/ (cursor # Latest /\ r.end <= cursor)

OwedOfChannel ==
  \A t \in Tabs : \A e \in owed[t] :
    EventChannel[e] = TabChannel[t] /\ sid[e] # 0 /\ lastId[t] # 0

\* Where the ids on the wire, of the tabs and of the replays come from.
EntriesArePublished ==
  \A t \in Tabs : \A x \in OnWire(t) :
    sid[x.ev] # 0 /\ x.id # 0 /\ x.id \in {sid[x.ev], fid[x.ev]}
LastIsSeen ==
  \A t \in Tabs :
    \/ lastId[t] < IdsPerMs
    \/ \E d \in seen[t] : sid[d] # 0 /\ lastId[t] \in {sid[d], fid[d]}
Known(id) == id < IdsPerMs \/ \E d \in Events : id \in {sid[d], fid[d]}
StartsAreKnown == \A r \in Asked : Known(r.start - 1)

Observed(id) ==
  \/ \E t \in Tabs : id = lastId[t] \/ \E x \in OnWire(t) : id = x.id
  \/ \E r \in Asked : r.start = id + 1

\* While the cursor is '$', what anyone has seen is behind the read that is
\* under way, or the first event it will find ...
FirstAfter(e) ==
  \A d \in Events \ {e} : fid[d] <= from \/ (fid[e] # 0 /\ fid[e] < fid[d])
ObservedIsRead ==
  cursor = Latest /\ phase # "queued" =>
    \A id \in Nat : Observed(id) =>
      \A e \in Events \ muddled : sid[e] # 0 /\ sid[e] <= id =>
        (fid[e] # 0 /\ fid[e] <= from) \/ FirstAfter(e)

\* ... so a replay asked then, which has no end, begins no later than what is
\* still to be read, and cannot send an event without those before it.
RangesReachBack ==
  cursor # Latest => \A r \in Asked : r.end > cursor =>
    \A e \in Events \ muddled : sid[e] # 0 /\ Coming(e) => r.start <= sid[e]

\* What is due to a tab without a connection is younger than its last id ...
Offline ==
  \A t \in Tabs : ~ conn[t] =>
    wire[t] = <<>> /\ \A e \in Due(t) \ seen[t] : lastId[t] < sid[e]

\* ... and to a connected one, on its way: nothing younger overtook it unless a
\* pending replay brings it.
OnItsWay ==
  \A t \in Tabs, e \in Events : conn[t] /\ Awaits(t, e) =>
    Covered(e) \/ (Coming(e) /\ lastId[t] < sid[e] /\ \A x \in OnWire(t) : x.id < sid[e])

CatchInv ==
  /\ InOrder /\ RangeEnds /\ OwedOfChannel /\ EntriesArePublished /\ LastIsSeen
  /\ StartsAreKnown /\ ObservedIsRead /\ RangesReachBack /\ Offline /\ OnItsWay

-----------------------------------------------------------------------------
LEMMA ThisMsBounds ==
  ASSUME now \in 1..(MaxMs + 1)
  PROVE  /\ ThisMs \in Nat /\ NoEnd \in Nat
         /\ IdsPerMs <= ThisMs /\ ThisMs <= NoEnd
<1>1. PICK d \in Nat : MaxMs + 1 = now + d
  <2>1. MaxMs + 1 - now \in Nat /\ MaxMs + 1 = now + (MaxMs + 1 - now)
    BY StreamAssumption
  <2> QED BY <2>1
<1>2. PICK k \in Nat : now = k + 1
  <2>1. now - 1 \in Nat /\ now = (now - 1) + 1
    BY StreamAssumption
  <2> QED BY <2>1
<1>3. /\ k * IdsPerMs \in Nat /\ now * IdsPerMs \in Nat /\ d * IdsPerMs \in Nat
      /\ now * IdsPerMs = k * IdsPerMs + IdsPerMs
      /\ (MaxMs + 1) * IdsPerMs = now * IdsPerMs + d * IdsPerMs
  BY <1>1, <1>2, StreamAssumption
<1> QED BY <1>3, StreamAssumption DEF ThisMs, NoEnd

\* What a send puts on the wire of a tab ...
LEMMA SentOnWire ==
  ASSUME TypeOK, NEW entries \in SUBSET Entry, wire' = Sent(entries), NEW t \in Tabs
  PROVE  /\ OnWire(t)' = OnWire(t) \cup
                (IF conn[t] THEN {x \in entries : EventChannel[x.ev] = TabChannel[t]} ELSE {})
         /\ ~ conn[t] => wire'[t] = wire[t]
<1> DEFINE mine == {x \in entries : EventChannel[x.ev] = TabChannel[t]}
           w == wire[t]
           v == Append(w, mine)
<1>1. wire'[t] = IF conn[t] /\ mine # {} THEN v ELSE w
  BY DEF Sent
<1>2. Written(v) = Written(w) \cup mine
  <2>1. w \in Seq(SUBSET Entry) /\ mine \in SUBSET Entry
    BY DEF TypeOK
  <2>2. /\ DOMAIN v = DOMAIN w \cup {Len(w) + 1}
        /\ v[Len(w) + 1] = mine /\ \A i \in DOMAIN w : v[i] = w[i]
    <3> HIDE DEF w, mine
    <3> QED BY <2>1
  <2> HIDE DEF v, w, mine
  <2> QED BY <2>2 DEF Written
<1>3. mine = {} => Written(w) = Written(w) \cup mine
  OBVIOUS
<1> HIDE DEF v, mine
<1>4. OnWire(t) = Written(w) /\ OnWire(t)' = Written(wire'[t])
  BY DEF OnWire
<1>5. OnWire(t)' = OnWire(t) \cup (IF conn[t] THEN mine ELSE {})
  BY <1>1, <1>2, <1>3, <1>4
<1> QED BY <1>1, <1>5 DEF mine

\* ... and a tab takes off it.
LEMMA ReceivedOffWire ==
  ASSUME TypeOK, NEW t \in Tabs, Receive(t)
  PROVE  /\ wire[t] # <<>>
         /\ \A u \in Tabs \ {t} : /\ wire'[u] = wire[u] /\ lastId'[u] = lastId[u]
                                  /\ seen'[u] = seen[u] /\ OnWire(u)' = OnWire(u)
         /\ \E x \in OnWire(t) :
              /\ lastId'[t] = x.id /\ seen'[t] = seen[t] \cup {x.ev}
              /\ OnWire(t)' \subseteq OnWire(t) /\ OnWire(t) \subseteq OnWire(t)' \cup {x}
<1>1. PICK x \in Head(wire[t]) :
        /\ wire' = [wire EXCEPT ![t] =
              (IF Head(wire[t]) \ {x} = {} THEN <<>> ELSE <<Head(wire[t]) \ {x}>>) \o Tail(@)]
        /\ lastId' = [lastId EXCEPT ![t] = x.id]
        /\ seen' = [seen EXCEPT ![t] = @ \cup {x.ev}]
  BY DEF Receive
<1> DEFINE w == wire[t]
           rest == Head(w) \ {x}
           v == (IF rest = {} THEN <<>> ELSE <<rest>>) \o Tail(w)
<1>2. w \in Seq(SUBSET Entry) /\ w # <<>>
  BY DEF TypeOK, Receive
<1>3. wire'[t] = v /\ lastId'[t] = x.id /\ seen'[t] = seen[t] \cup {x.ev}
  BY <1>1 DEF TypeOK
<1>4. \A u \in Tabs \ {t} : wire'[u] = wire[u] /\ lastId'[u] = lastId[u] /\ seen'[u] = seen[u]
  BY <1>1 DEF TypeOK
<1>5. Written(w) = Head(w) \cup Written(Tail(w))
  <2>1. /\ 1 \in DOMAIN w /\ w[1] = Head(w)
        /\ \A i \in DOMAIN w : i # 1 => i - 1 \in DOMAIN Tail(w) /\ Tail(w)[i - 1] = w[i]
        /\ \A j \in DOMAIN Tail(w) : j + 1 \in DOMAIN w /\ Tail(w)[j] = w[j + 1]
    <3> HIDE DEF w
    <3> QED BY <1>2
  <2> HIDE DEF w
  <2>2. Head(w) \subseteq Written(w)
    BY <2>1 DEF Written
  <2>3. Written(Tail(w)) \subseteq Written(w)
    BY <2>1 DEF Written
  <2>4. Written(w) \subseteq Head(w) \cup Written(Tail(w))
    <3> SUFFICES ASSUME NEW i \in DOMAIN w, NEW y \in w[i]
                 PROVE  y \in Head(w) \/ \E j \in DOMAIN Tail(w) : y \in Tail(w)[j]
      BY DEF Written
    <3> QED BY <2>1
  <2> QED BY <2>2, <2>3, <2>4
<1>6. Written(v) = rest \cup Written(Tail(w))
  <2>1. CASE rest = {}
    <3>1. Tail(w) \in Seq(SUBSET Entry)
      BY <1>2
    <3>2. v = Tail(w)
      BY <2>1, <3>1
    <3> QED BY <2>1, <3>2
  <2>2. CASE rest # {}
    <3> DEFINE tl == Tail(w)
               u == <<rest>> \o tl
    <3>0. v = u
      <4> HIDE DEF rest, w
      <4> QED BY <2>2
    <3>1. tl \in Seq(SUBSET Entry)
      BY <1>2
    <3>2. /\ 1 \in DOMAIN u /\ u[1] = rest
          /\ \A i \in DOMAIN u : i # 1 => i - 1 \in DOMAIN tl /\ u[i] = tl[i - 1]
          /\ \A j \in DOMAIN tl : j + 1 \in DOMAIN u /\ u[j + 1] = tl[j]
      <4> HIDE DEF tl, rest
      <4> QED BY <3>1
    <3> HIDE DEF u, tl, rest
    <3>3. rest \subseteq Written(u) /\ Written(tl) \subseteq Written(u)
      BY <3>2 DEF Written
    <3>4. Written(u) \subseteq rest \cup Written(tl)
      <4> SUFFICES ASSUME NEW i \in DOMAIN u, NEW y \in u[i]
                   PROVE  y \in rest \/ \E j \in DOMAIN tl : y \in tl[j]
        BY DEF Written
      <4> QED BY <3>2
    <3>5. Written(u) = rest \cup Written(tl)
      BY <3>3, <3>4
    <3> QED BY <3>0, <3>5 DEF tl
  <2> QED BY <2>1, <2>2
<1>7. OnWire(t) = Written(w) /\ OnWire(t)' = Written(v)
  BY <1>3 DEF OnWire
<1>8. x \in OnWire(t) /\ OnWire(t)' \subseteq OnWire(t) /\ OnWire(t) \subseteq OnWire(t)' \cup {x}
  <2>1. x \in Head(w)
    BY <1>1
  <2> HIDE DEF w, v
  <2> QED BY <1>5, <1>6, <1>7, <2>1
<1>9. \A u \in Tabs \ {t} : OnWire(u)' = OnWire(u)
  BY <1>4 DEF OnWire
<1> QED BY <1>2, <1>3, <1>4, <1>8, <1>9

\* Answering or losing the first replay, moving them up, and asking for one.
LEMMA AskedPops ==
  ASSUME TypeOK, ahead # <<>>, ahead' = Tail(ahead), behind' = behind
  PROVE  /\ Head(ahead) \in Asked /\ Head(ahead) \in Replay
         /\ Asked' \subseteq Asked /\ Asked \subseteq Asked' \cup {Head(ahead)}
<1>1. ahead \in Seq(Replay)
  BY DEF TypeOK
<1>2. /\ 1 \in DOMAIN ahead /\ ahead[1] = Head(ahead) /\ Head(ahead) \in Replay
      /\ \A i \in DOMAIN ahead : i # 1 => i - 1 \in DOMAIN Tail(ahead) /\ Tail(ahead)[i - 1] = ahead[i]
      /\ \A j \in DOMAIN Tail(ahead) : j + 1 \in DOMAIN ahead /\ Tail(ahead)[j] = ahead[j + 1]
  BY <1>1
<1>3. Asked \subseteq Asked' \cup {Head(ahead)}
  <2> SUFFICES ASSUME NEW i \in DOMAIN ahead
               PROVE  ahead[i] = Head(ahead) \/ \E j \in DOMAIN ahead' : ahead[i] = ahead'[j]
    BY DEF Asked
  <2> QED BY <1>2
<1>4. Asked' \subseteq Asked
  <2> SUFFICES ASSUME NEW j \in DOMAIN ahead'
               PROVE  \E i \in DOMAIN ahead : ahead[i] = ahead'[j]
    BY DEF Asked
  <2> QED BY <1>2
<1> QED BY <1>2, <1>3, <1>4 DEF Asked

LEMMA AskedMoves ==
  ASSUME ahead = <<>>, ahead' = behind, behind' = <<>>
  PROVE  Asked' = Asked
BY DEF Asked

LEMMA AskedGrows ==
  ASSUME TypeOK, NEW r \in Replay, ahead' = ahead, behind' = Append(behind, r)
  PROVE  Asked' = Asked \cup {r}
<1> DEFINE v == Append(behind, r)
<1>1. /\ DOMAIN v = DOMAIN behind \cup {Len(behind) + 1}
      /\ v[Len(behind) + 1] = r /\ \A i \in DOMAIN behind : v[i] = behind[i]
  BY DEF TypeOK
<1>2. behind' = v
  OBVIOUS
<1> HIDE DEF v
<1> QED BY <1>1, <1>2 DEF Asked

LEMMA AskedType == ASSUME TypeOK PROVE Asked \subseteq Replay
<1>1. ahead \in Seq(Replay) /\ behind \in Seq(Replay)
  BY DEF TypeOK
<1> QED BY <1>1 DEF Asked

LEMMA OnWireType == ASSUME TypeOK, NEW t \in Tabs PROVE OnWire(t) \subseteq Entry
<1>1. wire[t] \in Seq(SUBSET Entry)
  BY DEF TypeOK
<1>2. \A i \in DOMAIN wire[t] : wire[t][i] \subseteq Entry
  BY <1>1
<1> QED BY <1>2 DEF OnWire, Written

\* Whatever a tab or a replay names is an id that was given.
LEMMA ObservedIsKnown ==
  ASSUME TypeOK, CatchInv, NEW id \in Nat, Observed(id)
  PROVE  Known(id)
<1>1. ASSUME NEW t \in Tabs, id = lastId[t] PROVE Known(id)
  BY <1>1 DEF CatchInv, LastIsSeen, Known, TypeOK
<1>2. ASSUME NEW t \in Tabs, NEW x \in OnWire(t), id = x.id PROVE Known(id)
  <2>1. x.ev \in Events
    BY OnWireType DEF Entry
  <2> QED BY <1>2, <2>1 DEF CatchInv, EntriesArePublished, Known
<1>3. ASSUME NEW r \in Asked, r.start = id + 1 PROVE Known(id)
  <2>1. r.start - 1 = id
    BY <1>3
  <2> QED BY <1>3, <2>1 DEF CatchInv, StartsAreKnown
<1> QED BY <1>1, <1>2, <1>3 DEF Observed

\* A replay asked for by then, and nothing given by now, reaches the fresh millisecond.
LEMMA FreshIds ==
  ASSUME IInv, CatchInv, Alone
  PROVE  /\ \A e \in Events : sid[e] < ThisMs /\ fid[e] < ThisMs
         /\ \A id \in Nat : Observed(id) => id < ThisMs
         /\ \A r \in Asked : r.start <= ThisMs
<1>1. ThisMs \in Nat /\ IdsPerMs <= ThisMs /\ 0 < ThisMs
  BY ThisMsBounds, StreamAssumption DEF CatchInv, InOrder
<1>2. ASSUME NEW e \in Events PROVE sid[e] < ThisMs /\ fid[e] < ThisMs
  <2>1. EventChannel[e] \in Channels
    BY StreamAssumption
  <2>2. /\ sid[e] \in Nat /\ fid[e] \in Nat /\ fLast \in Nat /\ fid[e] <= fLast
        /\ sLast[EventChannel[e]] \in Nat
    BY <2>1 DEF IInv, TypeOK, IdsGenerated
  <2>3. fLast < ThisMs /\ sLast[EventChannel[e]] < ThisMs
    BY <2>1 DEF Alone, ThisMs
  <2>4. sid[e] # 0 => sid[e] <= sLast[EventChannel[e]]
    BY DEF CatchInv, InOrder
  <2> QED BY <1>1, <2>2, <2>3, <2>4
<1>3. ASSUME NEW id \in Nat, Observed(id) PROVE id < ThisMs
  <2>1. Known(id)
    BY <1>3, ObservedIsKnown DEF IInv
  <2>2. CASE id < IdsPerMs
    BY <1>1, <2>2, StreamAssumption
  <2>3. CASE \E d \in Events : id \in {sid[d], fid[d]}
    BY <1>2, <2>3
  <2> QED BY <2>1, <2>2, <2>3 DEF Known
<1>4. ASSUME NEW r \in Asked PROVE r.start <= ThisMs
  <2>1. r.start \in Nat
    BY AskedType DEF IInv, Replay
  <2>2. CASE r.start = 0
    BY <1>1, <2>2
  <2>3. CASE r.start # 0
    <3>1. r.start - 1 \in Nat /\ r.start = (r.start - 1) + 1
      BY <2>1, <2>3
    <3>2. Observed(r.start - 1)
      BY <3>1 DEF Observed
    <3>3. r.start - 1 < ThisMs
      BY <1>3, <3>1, <3>2
    <3> QED BY <1>1, <2>1, <3>3
  <2> QED BY <2>2, <2>3
<1> QED BY <1>2, <1>3, <1>4

LEMMA CatchPublishScoped ==
  ASSUME IInv, CatchInv, NEW e \in Events, PublishScoped(e)
  PROVE  CatchInv'
<1> USE StreamAssumption
<1>1. /\ UNCHANGED <<now, fid, fLast, cursor, phase, from, ahead, behind, conn, wire,
                     lastId, seen>>
      /\ sid[e] = 0 /\ muddled \subseteq muddled'
      /\ \A t \in Tabs : \A d \in owed'[t] :
           d \in owed[t] \/ (d = e /\ lastId[t] # 0 /\ cursor # Latest /\ TabChannel[t] = EventChannel[e])
  BY DEF PublishScoped, redis, tabs, IInv, TypeOK
<1>2. /\ ThisMs \in Nat /\ IdsPerMs <= ThisMs /\ 0 < ThisMs /\ ThisMs' = ThisMs
  BY <1>1, ThisMsBounds DEF CatchInv, InOrder, ThisMs
<1>3. /\ \A d \in Events : sid[d] \in Nat /\ fid[d] \in Nat
      /\ \A c \in Channels : sLast[c] \in Nat
      /\ fid[e] = 0
  BY <1>1 DEF IInv, TypeOK, CatchInv, InOrder
<1>4. /\ \A d \in Events \ {e} : sid'[d] = sid[d]
      /\ sid'[e] \in Nat /\ ThisMs <= sid'[e] /\ sLast'[EventChannel[e]] = sid'[e]
      /\ \A c \in Channels : sLast[c] <= sLast'[c]
  <2> DEFINE c == EventChannel[e]
  <2>1. c \in Channels /\ sLast[c] \in Nat
    BY <1>3
  <2>2. NewId(sLast[c]) \in Nat /\ ThisMs <= NewId(sLast[c]) /\ sLast[c] < NewId(sLast[c])
    BY <1>2, <2>1 DEF NewId, ThisMs
  <2>3. /\ sid' = [sid EXCEPT ![e] = NewId(sLast[c])]
        /\ sLast' = [sLast EXCEPT ![c] = NewId(sLast[c])]
    BY DEF PublishScoped
  <2> HIDE DEF c
  <2> QED BY <1>3, <2>1, <2>2, <2>3 DEF IInv, TypeOK, c
<1>5. ASSUME e \notin muddled'
      PROVE  /\ Alone /\ sid'[e] = ThisMs
             /\ \A d \in Events : sid[d] < ThisMs /\ fid[d] < ThisMs
             /\ \A id \in Nat : Observed(id) => id < ThisMs
             /\ \A r \in Asked : r.start <= ThisMs
  <2>1. Alone
    BY <1>5 DEF PublishScoped
  <2>2. EventChannel[e] \in Channels /\ NewId(sLast[EventChannel[e]]) = ThisMs
    BY <2>1 DEF Alone, NewId, ThisMs
  <2>3. sid'[e] = ThisMs
    BY <2>2 DEF PublishScoped, IInv, TypeOK
  <2> QED BY <2>1, <2>3, FreshIds
<1>6. ASSUME NEW d \in Events \ {e}, sid[d] # 0, d \notin muddled' \/ e \notin muddled'
      PROVE  fid[d] # 0 /\ sid[d] < ThisMs /\ fid[d] < ThisMs
  <2>1. CASE Alone
    BY <1>6, <2>1, FreshIds DEF Alone, HalfPublished
  <2>2. CASE ~ Alone
    <3>1. d \notin Company
      BY <1>6, <2>2 DEF PublishScoped
    <3> QED BY <1>2, <1>3, <1>6, <3>1 DEF Company, HalfPublished, ThisMs
  <2> QED BY <2>1, <2>2
<1>7. /\ Asked' = Asked /\ \A t \in Tabs : OnWire(t)' = OnWire(t)
      /\ \A id : Observed(id)' <=> Observed(id)
      /\ \A d : Coming(d)' <=> Coming(d)
      /\ \A t \in Tabs : \A d \in Due(t)' : d \in Due(t) \/ (d = e /\ e \notin muddled')
  <2>1. /\ Asked' = Asked /\ \A t \in Tabs : OnWire(t)' = OnWire(t)
    BY <1>1 DEF Asked, OnWire
  <2> QED BY <1>1, <2>1 DEF Observed, Coming, Due
<1>8. InOrder'
  <2>1. now' \in 1..(MaxMs + 1)
    BY <1>1 DEF CatchInv, InOrder
  <2>2. ASSUME NEW d \in Events
        PROVE  /\ sid'[d] # 0 => IdsPerMs <= sid'[d] /\ sid'[d] <= sLast'[EventChannel[d]]
               /\ fid'[d] # 0 => sid'[d] # 0
               /\ d \notin muddled' => sid'[d] <= ThisMs' /\ (fid'[d] # 0 => sid'[d] <= fid'[d])
    <3>1. CASE d = e
      BY <1>1, <1>2, <1>3, <1>4, <1>5, <3>1
    <3>2. CASE d # e
      <4>1. EventChannel[d] \in Channels /\ sid'[d] = sid[d] /\ fid'[d] = fid[d]
        BY <1>1, <1>4, <3>2
      <4>2. sLast[EventChannel[d]] <= sLast'[EventChannel[d]] /\ sLast[EventChannel[d]] \in Nat
            /\ sLast'[EventChannel[d]] \in Nat
        BY <1>3, <1>4, <4>1 DEF PublishScoped, IInv, TypeOK
      <4> QED BY <1>1, <1>2, <1>3, <4>1, <4>2 DEF CatchInv, InOrder
    <3> QED BY <3>1, <3>2
  <2>3. ASSUME NEW d \in Events, NEW f \in Events, d # f, sid'[d] # 0, sid'[f] # 0,
               d \notin muddled' \/ f \notin muddled'
        PROVE  Parted(d, f)'
    <3>1. CASE d = e
      BY <1>2, <1>3, <1>4, <1>6, <2>3, <3>1 DEF Parted
    <3>2. CASE f = e
      BY <1>1, <1>2, <1>3, <1>4, <1>6, <2>3, <3>2 DEF Parted
    <3>3. CASE d # e /\ f # e
      BY <1>1, <1>4, <2>3, <3>3 DEF CatchInv, InOrder, Parted
    <3> QED BY <3>1, <3>2, <3>3
  <2> QED BY <2>1, <2>2, <2>3 DEF InOrder
<1>9. RangeEnds'
  BY <1>1, <1>7 DEF CatchInv, RangeEnds
<1>10. OwedOfChannel'
  <2>1. sid'[e] # 0
    BY <1>2, <1>4
  <2>2. \A t \in Tabs : owed[t] \subseteq Events
    BY DEF IInv, TypeOK
  <2>3. ASSUME NEW t \in Tabs, NEW d \in owed'[t]
        PROVE  EventChannel[d] = TabChannel[t] /\ sid'[d] # 0 /\ lastId[t] # 0
    <3>1. CASE d = e /\ lastId[t] # 0 /\ TabChannel[t] = EventChannel[e]
      BY <2>1, <3>1
    <3>2. CASE d \in owed[t]
      <4>1. EventChannel[d] = TabChannel[t] /\ sid[d] # 0 /\ lastId[t] # 0
        BY <3>2 DEF CatchInv, OwedOfChannel
      <4> QED BY <1>1, <1>4, <2>2, <3>2, <4>1
    <3> QED BY <1>1, <3>1, <3>2
  <2> QED BY <1>1, <2>3 DEF OwedOfChannel
<1>11. EntriesArePublished'
  <2> SUFFICES ASSUME NEW t \in Tabs, NEW x \in OnWire(t)
               PROVE  sid'[x.ev] # 0 /\ x.id # 0 /\ x.id \in {sid'[x.ev], fid[x.ev]}
    BY <1>1, <1>7 DEF EntriesArePublished
  <2>1. x.ev \in Events
    BY OnWireType DEF IInv, Entry
  <2>2. sid[x.ev] # 0 /\ x.id # 0 /\ x.id \in {sid[x.ev], fid[x.ev]}
    BY DEF CatchInv, EntriesArePublished
  <2> QED BY <1>1, <1>4, <2>1, <2>2
<1>12. LastIsSeen'
  <2> SUFFICES ASSUME NEW t \in Tabs, NEW d \in seen[t], sid[d] # 0, lastId[t] \in {sid[d], fid[d]}
               PROVE  sid'[d] # 0 /\ lastId[t] \in {sid'[d], fid[d]}
    BY <1>1 DEF CatchInv, LastIsSeen
  <2>1. d \in Events
    BY DEF IInv, TypeOK
  <2> QED BY <1>1, <1>4, <2>1
<1>13. StartsAreKnown'
  <2> SUFFICES ASSUME NEW id, Known(id) PROVE Known(id)'
    BY <1>7 DEF CatchInv, StartsAreKnown
  <2>1. ASSUME NEW d \in Events, id \in {sid[d], fid[d]} PROVE id < IdsPerMs \/ id \in {sid'[d], fid'[d]}
    BY <1>1, <1>4, <2>1
  <2> QED BY <2>1 DEF Known
<1>14. ObservedIsRead'
  <2> SUFFICES ASSUME cursor = Latest, phase # "queued", NEW id \in Nat, Observed(id),
                      NEW d \in Events \ muddled', sid'[d] # 0, sid'[d] <= id
               PROVE  (fid[d] # 0 /\ fid[d] <= from) \/ FirstAfter(d)
    BY <1>1, <1>7 DEF ObservedIsRead, FirstAfter
  <2>1. d # e
    BY <1>2, <1>5
  <2> QED BY <1>1, <1>4, <2>1 DEF CatchInv, ObservedIsRead
<1>15. RangesReachBack'
  <2> SUFFICES ASSUME cursor # Latest, NEW r \in Asked, r.end > cursor,
                      NEW d \in Events \ muddled', sid'[d] # 0, Coming(d)
               PROVE  r.start <= sid'[d]
    BY <1>1, <1>7 DEF RangesReachBack
  <2> QED BY <1>1, <1>4, <1>5 DEF CatchInv, RangesReachBack
<1>16. Offline'
  <2> SUFFICES ASSUME NEW t \in Tabs, ~ conn[t]
               PROVE  wire[t] = <<>> /\ \A d \in Due(t)' \ seen[t] : lastId[t] < sid'[d]
    BY <1>1 DEF Offline
  <2>1. wire[t] = <<>>
    BY DEF CatchInv, Offline
  <2>2. ASSUME NEW d \in Due(t)' \ seen[t] PROVE lastId[t] < sid'[d]
    <3>1. CASE d = e /\ e \notin muddled'
      <4>1. lastId[t] \in Nat /\ Observed(lastId[t])
        BY DEF IInv, TypeOK, Observed
      <4> QED BY <1>5, <3>1, <4>1
    <3>2. CASE d \in Due(t)
      <4>1. sid[d] # 0 /\ d \in Events /\ lastId[t] < sid[d]
        BY <3>2 DEF CatchInv, Offline, OwedOfChannel, Due, IInv, TypeOK
      <4> QED BY <1>1, <1>4, <4>1
    <3> QED BY <1>7, <3>1, <3>2
  <2> QED BY <2>1, <2>2
<1>17. OnItsWay'
  <2> SUFFICES ASSUME NEW t \in Tabs, NEW d \in Events, conn[t], Awaits(t, d)'
               PROVE  \/ Covered(d)'
                      \/ Coming(d) /\ lastId[t] < sid'[d] /\ \A x \in OnWire(t) : x.id < sid'[d]
    BY <1>1, <1>7 DEF OnItsWay
  <2>1. CASE d = e
    <3>1. e \notin muddled' /\ e \notin owed[t] /\ e \in owed'[t]
      BY <1>1, <2>1 DEF CatchInv, OwedOfChannel, Awaits, Due
    <3>2. Coming(e)
      BY <1>1, <1>3, <3>1 DEF Coming
    <3>3. lastId[t] \in Nat /\ \A x \in OnWire(t) : x.id \in Nat
      BY OnWireType DEF IInv, TypeOK, Entry
    <3>4. lastId[t] < ThisMs /\ \A x \in OnWire(t) : x.id < ThisMs
      BY <1>5, <3>1, <3>3 DEF Observed
    <3> QED BY <1>5, <2>1, <3>1, <3>2, <3>4
  <2>2. CASE d # e
    <3>1. Awaits(t, d)
      BY <1>1, <1>7, <2>2 DEF Awaits
    <3>2. Covered(d)' <=> Covered(d)
      BY <1>4, <1>7, <2>2 DEF Covered
    <3> QED BY <1>4, <2>2, <3>1, <3>2 DEF CatchInv, OnItsWay
  <2> QED BY <2>1, <2>2
<1> QED BY <1>8, <1>9, <1>10, <1>11, <1>12, <1>13, <1>14, <1>15, <1>16, <1>17 DEF CatchInv

LEMMA CatchPublishFull ==
  ASSUME IInv, CatchInv, NEW e \in Events, PublishFull(e)
  PROVE  CatchInv'
<1> USE StreamAssumption
<1>1. /\ UNCHANGED <<now, sid, sLast, cursor, phase, from, ahead, behind, conn, wire,
                     lastId, seen, owed, muddled>>
      /\ sid[e] # 0 /\ fid[e] = 0
  BY DEF PublishFull, HalfPublished, redis, tabs, ours
<1>2. /\ ThisMs \in Nat /\ IdsPerMs <= ThisMs /\ 0 < ThisMs /\ ThisMs' = ThisMs
  BY <1>1, ThisMsBounds DEF CatchInv, InOrder, ThisMs
<1>3. /\ fid'[e] = fLast' /\ \A d \in Events \ {e} : fid'[d] = fid[d]
      /\ fLast' \in Nat /\ ThisMs <= fLast' /\ fLast < fLast' /\ fLast \in Nat
  <2>1. fLast \in Nat /\ fid \in [Events -> Nat]
    BY DEF IInv, TypeOK
  <2> QED BY <1>2, <2>1 DEF PublishFull, NewId, ThisMs
<1>4. /\ \A d \in Events : sid[d] \in Nat /\ fid[d] \in Nat /\ fid[d] < fLast'
      /\ cursor \in Nat /\ cursor < fLast'
  <2>1. /\ \A d \in Events : sid[d] \in Nat /\ fid[d] \in Nat /\ fid[d] <= fLast
        /\ cursor \in Nat /\ cursor <= fLast
    BY DEF IInv, TypeOK, IdsGenerated
  <2> QED BY <1>3, <2>1
<1>5. /\ Asked' = Asked /\ \A t \in Tabs : OnWire(t)' = OnWire(t)
      /\ \A id : Observed(id)' <=> Observed(id)
      /\ \A d : Covered(d)' <=> Covered(d)
      /\ \A t \in Tabs : Due(t)' = Due(t)
      /\ \A t \in Tabs, d \in Events : Awaits(t, d)' <=> Awaits(t, d)
      /\ \A d \in Events : Coming(d)' <=> Coming(d)
  <2>1. /\ Asked' = Asked /\ \A t \in Tabs : OnWire(t)' = OnWire(t)
    BY <1>1 DEF Asked, OnWire
  <2>2. \A d \in Events : Coming(d)' <=> Coming(d)
    BY <1>1, <1>3, <1>4 DEF Coming
  <2> QED BY <1>1, <2>1, <2>2 DEF Observed, Covered, Awaits, Due
<1>6. ASSUME NEW d \in Events, d # e, sid[d] # 0, d \notin muddled \/ e \notin muddled
      PROVE  fid[d] # 0 /\ sid[d] < sid[e]
  BY <1>1, <1>4, <1>6 DEF CatchInv, InOrder, Parted
<1>7. InOrder'
  <2>1. now' \in 1..(MaxMs + 1)
    BY <1>1 DEF CatchInv, InOrder
  <2>2. ASSUME NEW d \in Events
        PROVE  /\ sid'[d] # 0 => IdsPerMs <= sid'[d] /\ sid'[d] <= sLast'[EventChannel[d]]
               /\ fid'[d] # 0 => sid'[d] # 0
               /\ d \notin muddled' => sid'[d] <= ThisMs' /\ (fid'[d] # 0 => sid'[d] <= fid'[d])
    BY <1>1, <1>2, <1>3, <1>4 DEF CatchInv, InOrder
  <2>3. ASSUME NEW d \in Events, NEW f \in Events, d # f, sid'[d] # 0, sid'[f] # 0,
               d \notin muddled' \/ f \notin muddled'
        PROVE  Parted(d, f)'
    <3>1. Parted(d, f)
      BY <1>1, <2>3 DEF CatchInv, InOrder
    <3>2. CASE d = e
      BY <1>1, <1>3, <1>4, <1>6, <2>3, <3>1, <3>2 DEF Parted
    <3>3. CASE d # e
      BY <1>1, <1>3, <1>4, <2>3, <3>1, <3>3 DEF Parted
    <3> QED BY <3>2, <3>3
  <2> QED BY <2>1, <2>2, <2>3 DEF InOrder
<1>8. RangeEnds' /\ OwedOfChannel' /\ Offline'
  BY <1>1, <1>5 DEF CatchInv, RangeEnds, OwedOfChannel, Offline
<1>9. EntriesArePublished'
  <2> SUFFICES ASSUME NEW t \in Tabs, NEW x \in OnWire(t)
               PROVE  sid[x.ev] # 0 /\ x.id # 0 /\ x.id \in {sid[x.ev], fid'[x.ev]}
    BY <1>1, <1>5 DEF EntriesArePublished
  <2>1. x.ev \in Events
    BY OnWireType DEF IInv, Entry
  <2>2. sid[x.ev] # 0 /\ x.id # 0 /\ x.id \in {sid[x.ev], fid[x.ev]}
    BY DEF CatchInv, EntriesArePublished
  <2> QED BY <1>1, <1>3, <2>1, <2>2
<1>10. LastIsSeen'
  <2> SUFFICES ASSUME NEW t \in Tabs, NEW d \in seen[t], sid[d] # 0, lastId[t] \in {sid[d], fid[d]}
               PROVE  lastId[t] < IdsPerMs \/ lastId[t] \in {sid[d], fid'[d]}
    BY <1>1 DEF CatchInv, LastIsSeen
  <2>1. d \in Events
    BY DEF IInv, TypeOK
  <2> QED BY <1>1, <1>3, <2>1
<1>11. StartsAreKnown'
  <2> SUFFICES ASSUME NEW id, Known(id) PROVE Known(id)'
    BY <1>5 DEF CatchInv, StartsAreKnown
  <2>1. ASSUME NEW d \in Events, id \in {sid[d], fid[d]} PROVE id < IdsPerMs \/ id \in {sid'[d], fid'[d]}
    BY <1>1, <1>3, <2>1
  <2> QED BY <2>1 DEF Known
<1>12. ObservedIsRead'
  <2> SUFFICES ASSUME cursor = Latest, phase # "queued", NEW id \in Nat, Observed(id),
                      NEW d \in Events \ muddled, sid[d] # 0, sid[d] <= id
               PROVE  (fid'[d] # 0 /\ fid'[d] <= from) \/ FirstAfter(d)'
    BY <1>1, <1>5 DEF ObservedIsRead
  <2>1. (fid[d] # 0 /\ fid[d] <= from) \/ FirstAfter(d)
    BY DEF CatchInv, ObservedIsRead
  <2>2. CASE d = e
    BY <1>1, <1>3, <2>1, <2>2 DEF FirstAfter
  <2>3. CASE d # e
    <3>1. fid'[d] = fid[d] /\ fid[d] # 0 /\ fid[d] < fid'[e]
      BY <1>3, <1>4, <1>6, <2>3
    <3>2. FirstAfter(d) => FirstAfter(d)'
      BY <1>1, <1>3, <3>1 DEF FirstAfter
    <3> QED BY <2>1, <3>1, <3>2
  <2> QED BY <2>2, <2>3
<1>13. RangesReachBack'
  BY <1>1, <1>5 DEF CatchInv, RangesReachBack
<1>14. OnItsWay'
  BY <1>1, <1>5 DEF CatchInv, OnItsWay
<1> QED BY <1>7, <1>8, <1>9, <1>10, <1>11, <1>12, <1>13, <1>14 DEF CatchInv

\* The steps that leave the ids, the replays and the tabs alone.
LEMMA CatchElsewhere ==
  ASSUME IInv, CatchInv,
         UNCHANGED vars \/ ClockTicks \/ ReadStarts \/ ReadReturns
  PROVE  CatchInv'
<1> USE StreamAssumption
<1>1. UNCHANGED <<sid, fid, sLast, fLast, cursor, ahead, behind, conn, wire, lastId, seen, owed,
                  muddled>>
  BY DEF vars, ClockTicks, ReadStarts, ReadReturns, streams, redis, tabs, ours
<1>2. /\ Asked' = Asked /\ \A t \in Tabs : OnWire(t)' = OnWire(t)
      /\ \A id : Observed(id)' <=> Observed(id)
      /\ \A d : Covered(d)' <=> Covered(d)
      /\ \A t : Due(t)' = Due(t)
      /\ \A t, d : Awaits(t, d)' <=> Awaits(t, d)
      /\ \A d : Coming(d)' <=> Coming(d)
  <2>1. /\ Asked' = Asked /\ \A t : OnWire(t)' = OnWire(t)
    BY <1>1 DEF Asked, OnWire
  <2> QED BY <1>1, <2>1 DEF Observed, Covered, Awaits, Coming, Due
<1>3. InOrder'
  <2>1. now' \in 1..(MaxMs + 1) /\ ThisMs \in Nat /\ ThisMs' \in Nat /\ ThisMs <= ThisMs'
    <3>1. CASE now' = now
      BY <3>1, ThisMsBounds DEF CatchInv, InOrder, ThisMs
    <3>2. CASE ClockTicks
      <4>1. now \in 1..(MaxMs + 1) /\ now < MaxMs /\ now' = now + 1
        BY <3>2 DEF ClockTicks, CatchInv, InOrder
      <4>2. now * IdsPerMs \in Nat /\ (now + 1) * IdsPerMs = now * IdsPerMs + IdsPerMs
        BY <4>1
      <4> QED BY <4>1, <4>2 DEF ThisMs
    <3> QED BY <3>1, <3>2 DEF vars, ReadStarts, ReadReturns, streams
  <2>2. fLast \in Nat /\ \A d \in Events : sid[d] \in Nat
    BY DEF IInv, TypeOK
  <2> QED BY <1>1, <2>1, <2>2 DEF CatchInv, InOrder, Parted
<1>4. RangeEnds'
  <2>1. phase' # "queued" => ahead' = <<>>
    BY <1>1 DEF vars, ClockTicks, ReadStarts, ReadReturns, redis, CatchInv, RangeEnds
  <2> QED BY <1>1, <1>2, <2>1 DEF CatchInv, RangeEnds
<1>5. OwedOfChannel' /\ EntriesArePublished' /\ LastIsSeen' /\ Offline'
  BY <1>1, <1>2 DEF CatchInv, OwedOfChannel, EntriesArePublished, LastIsSeen, Offline
<1>6. StartsAreKnown' /\ RangesReachBack' /\ OnItsWay'
  BY <1>1, <1>2 DEF CatchInv, StartsAreKnown, Known, RangesReachBack, OnItsWay
<1>7. ObservedIsRead'
  <2>1. CASE ReadStarts
    <3>1. cursor' = Latest => from' = fLast
      BY <2>1 DEF ReadStarts
    <3>2. \A d \in Events : fid'[d] <= fLast
      BY <1>1 DEF IInv, IdsGenerated
    <3> QED BY <3>1, <3>2 DEF ObservedIsRead, FirstAfter
  <2>2. CASE ~ ReadStarts
    <3>1. from' = from /\ (phase' # "queued" => phase # "queued")
      BY <2>2 DEF vars, ClockTicks, ReadReturns, redis
    <3> QED BY <1>1, <1>2, <3>1 DEF CatchInv, ObservedIsRead, FirstAfter
  <2> QED BY <2>1, <2>2
<1> QED BY <1>3, <1>4, <1>5, <1>6, <1>7 DEF CatchInv

LEMMA CatchHandleRead ==
  ASSUME IInv, CatchInv, HandleRead
  PROVE  CatchInv'
<1> USE StreamAssumption
<1> DEFINE entries == {[id |-> fid[e], ev |-> e] : e \in batch}
<1>1. /\ UNCHANGED <<now, sid, fid, sLast, fLast, from, conn, lastId, seen, owed, muddled>>
      /\ phase = "replied" /\ phase' = "queued"
      /\ ahead' = behind /\ behind' = <<>> /\ wire' = Sent(entries)
      /\ \/ batch = {} /\ cursor' = cursor
         \/ \E last \in batch : cursor' = fid[last] /\ \A e \in batch : fid[e] <= fid[last]
  BY DEF HandleRead, streams, ours
<1>2. /\ entries \in SUBSET Entry /\ batch \subseteq Events /\ from \in Nat /\ cursor \in Nat
      /\ \A e \in Events : sid[e] \in Nat /\ fid[e] \in Nat
      /\ \A t \in Tabs : owed[t] \subseteq Events /\ lastId[t] \in Nat
  BY DEF IInv, TypeOK, Entry
<1>3. \A e \in batch : /\ fid[e] > from /\ fid[e] # 0 /\ sid[e] # 0
                       /\ \A d \in FullAfter(from) \ batch : fid[e] < fid[d]
  BY <1>1, <1>2 DEF IInv, BatchIsPrefix, CatchInv, InOrder
<1>4. cursor # Latest => from = cursor
  BY <1>1 DEF IInv, ReadsFromCursor
<1>5. cursor' \in Nat /\ cursor <= cursor' /\ (cursor # Latest => cursor' # Latest)
  BY <1>1, <1>2, <1>3, <1>4 DEF Latest
<1>6. Asked' = Asked
  BY <1>1, AskedMoves DEF CatchInv, RangeEnds
<1>7. \A t \in Tabs :
        /\ OnWire(t)' = OnWire(t) \cup
             (IF conn[t] THEN {x \in entries : EventChannel[x.ev] = TabChannel[t]} ELSE {})
        /\ ~ conn[t] => wire'[t] = wire[t]
  BY <1>1, <1>2, SentOnWire DEF IInv
<1>8. InOrder' /\ OwedOfChannel' /\ LastIsSeen' /\ StartsAreKnown' /\ ObservedIsRead'
  BY <1>1, <1>6 DEF CatchInv, InOrder, Parted, ThisMs, OwedOfChannel, LastIsSeen, StartsAreKnown, Known,
     ObservedIsRead
<1>9. RangeEnds'
  <2>1. \A r \in Asked : r.end \in Nat
    BY AskedType DEF IInv, Replay
  <2> QED BY <1>1, <1>2, <1>5, <1>6, <2>1 DEF CatchInv, RangeEnds
<1>10. EntriesArePublished'
  <2> SUFFICES ASSUME NEW t \in Tabs, NEW x \in OnWire(t)'
               PROVE  sid[x.ev] # 0 /\ x.id # 0 /\ x.id \in {sid[x.ev], fid[x.ev]}
    BY <1>1 DEF EntriesArePublished
  <2>1. CASE x \in OnWire(t)
    BY <2>1 DEF CatchInv, EntriesArePublished
  <2>2. CASE x \in entries
    BY <1>3, <2>2
  <2> QED BY <1>7, <2>1, <2>2
<1>11. RangesReachBack'
  <2> SUFFICES ASSUME cursor' # Latest, NEW r \in Asked, r.end > cursor',
                      NEW e \in Events \ muddled, sid[e] # 0, fid[e] = 0 \/ fid[e] > cursor'
               PROVE  r.start <= sid[e]
    BY <1>1, <1>6 DEF RangesReachBack, Coming
  <2>1. r.start \in Nat /\ r.end \in Nat
    BY AskedType DEF IInv, Replay
  <2>2. CASE cursor # Latest
    <3>1. r.end > cursor /\ Coming(e)
      BY <1>2, <1>5, <2>1, <2>2 DEF Coming
    <3> QED BY <2>2, <3>1 DEF CatchInv, RangesReachBack
  <2>3. CASE cursor = Latest
    <3>1. PICK last \in batch : cursor' = fid[last]
      BY <1>1, <2>3
    <3> SUFFICES ASSUME ~ r.start <= sid[e] PROVE FALSE
      OBVIOUS
    <3>2. r.start - 1 \in Nat /\ r.start = (r.start - 1) + 1 /\ sid[e] <= r.start - 1
      BY <1>2, <2>1
    <3>3. Observed(r.start - 1)
      BY <3>2 DEF Observed
    <3>4. (fid[e] # 0 /\ fid[e] <= from) \/ FirstAfter(e)
      BY <1>1, <2>3, <3>2, <3>3 DEF CatchInv, ObservedIsRead
    <3>5. last \in Events /\ fid[last] > from
      BY <1>2, <1>3
    <3> QED BY <1>2, <3>1, <3>4, <3>5 DEF FirstAfter
  <2> QED BY <2>2, <2>3
<1>12. Offline'
  BY <1>1, <1>7 DEF CatchInv, Offline, Due
<1>13. OnItsWay'
  <2> SUFFICES ASSUME NEW t \in Tabs, NEW e \in Events, conn[t], Awaits(t, e)'
               PROVE  \/ Covered(e)
                      \/ /\ Coming(e)' /\ lastId[t] < sid[e]
                         /\ \A x \in OnWire(t)' : x.id < sid[e]
    BY <1>1, <1>6 DEF OnItsWay, Covered
  <2>1. Awaits(t, e)
    BY <1>1, <1>7 DEF Awaits, Due
  <2> SUFFICES ASSUME ~ Covered(e)
               PROVE  /\ Coming(e)' /\ lastId[t] < sid[e] /\ \A x \in OnWire(t)' : x.id < sid[e]
    OBVIOUS
  <2>2. Coming(e) /\ lastId[t] < sid[e] /\ \A x \in OnWire(t) : x.id < sid[e]
    BY <2>1 DEF CatchInv, OnItsWay
  <2>3. e \notin batch
    <3> SUFFICES ASSUME e \in batch PROVE FALSE
      OBVIOUS
    <3> DEFINE x == [id |-> fid[e], ev |-> e]
    <3>1. x \in entries /\ x.ev = e
      OBVIOUS
    <3>2. EventChannel[e] = TabChannel[t]
      BY <2>1 DEF Awaits, Due, CatchInv, OwedOfChannel
    <3>3. x \in OnWire(t)'
      BY <1>7, <3>1, <3>2
    <3> QED BY <3>1, <3>3 DEF Awaits, Due
  <2>4. sid[e] # 0 /\ e \notin muddled
    BY <2>1 DEF Awaits, Due, CatchInv, OwedOfChannel
  <2>5. CASE batch = {}
    BY <1>1, <1>7, <2>2, <2>5 DEF Coming
  <2>6. CASE batch # {}
    <3>1. PICK last \in batch : cursor' = fid[last] /\ \A d \in batch : fid[d] <= fid[last]
      BY <1>1, <2>6
    <3>2. cursor # Latest /\ from = cursor
      BY <1>4, <2>2 DEF Coming
    <3>3. fid[e] # 0 => \A d \in batch : fid[d] < fid[e]
      <4>1. fid[e] # 0 => e \in FullAfter(from) \ batch
        BY <2>2, <2>3, <3>2 DEF Coming, FullAfter
      <4> QED BY <1>3, <4>1
    <3>4. Coming(e)'
      BY <1>1, <1>5, <3>1, <3>2, <3>3 DEF Coming
    <3>5. ASSUME NEW d \in batch PROVE fid[d] < sid[e]
      <4>1. d \in Events /\ d # e /\ sid[d] # 0 /\ fid[d] # 0
        BY <1>2, <1>3, <2>3 DEF CatchInv, InOrder, Parted
      <4>2. sid[d] < sid[e] \/ sid[e] < sid[d]
        BY <1>2, <2>4, <4>1 DEF CatchInv, InOrder, Parted
      <4>3. CASE sid[d] < sid[e]
        BY <2>4, <4>1, <4>3 DEF CatchInv, InOrder, Parted
      <4>4. CASE sid[e] < sid[d]
        <5>1. fid[e] # 0 /\ fid[e] < fid[d]
          BY <2>4, <4>1, <4>4 DEF CatchInv, InOrder, Parted
        <5> QED BY <1>2, <3>3, <4>1, <5>1
      <4> QED BY <4>2, <4>3, <4>4
    <3>6. \A x \in OnWire(t)' : x.id < sid[e]
      BY <1>7, <2>2, <3>5
    <3> QED BY <2>2, <3>4, <3>6
  <2> QED BY <2>5, <2>6
<1> QED BY <1>8, <1>9, <1>10, <1>11, <1>12, <1>13 DEF CatchInv

LEMMA CatchHandleRange ==
  ASSUME IInv, CatchInv, HandleRange
  PROVE  CatchInv'
<1> USE StreamAssumption
<1> DEFINE r == Head(ahead)
           asked == {d \in Scoped(r.channel) : sid[d] \in r.start..r.end}
           entries == {[id |-> sid[e], ev |-> e] : e \in asked}
<1>1. /\ UNCHANGED <<now, sid, fid, sLast, fLast, cursor, phase, from, behind, conn, lastId,
                     seen, owed, muddled>>
      /\ ahead # <<>> /\ ahead' = Tail(ahead) /\ wire' = Sent(entries)
  BY DEF HandleRange, streams, ours
<1>2. /\ entries \in SUBSET Entry
      /\ \A e \in Events : sid[e] \in Nat /\ fid[e] \in Nat
      /\ asked \subseteq Events /\ \A e \in asked : EventChannel[e] = r.channel /\ sid[e] # 0
      /\ cursor \in Nat
  BY DEF IInv, TypeOK, Entry, Scoped
<1>3. /\ r \in Asked /\ r \in Replay /\ Asked' \subseteq Asked
      /\ Asked \subseteq Asked' \cup {r}
  BY <1>1, AskedPops DEF IInv
<1>4. \A t \in Tabs :
        /\ OnWire(t)' = OnWire(t) \cup
             (IF conn[t] THEN {x \in entries : EventChannel[x.ev] = TabChannel[t]} ELSE {})
        /\ ~ conn[t] => wire'[t] = wire[t]
  BY <1>1, <1>2, SentOnWire DEF IInv
<1>5. phase = "queued"
  BY <1>1 DEF CatchInv, RangeEnds
<1>6. InOrder' /\ OwedOfChannel' /\ LastIsSeen' /\ ObservedIsRead'
  BY <1>1, <1>5 DEF CatchInv, InOrder, Parted, ThisMs, OwedOfChannel, LastIsSeen, ObservedIsRead
<1>7. RangeEnds' /\ StartsAreKnown' /\ RangesReachBack'
  BY <1>1, <1>3, <1>5 DEF CatchInv, RangeEnds, StartsAreKnown, Known, RangesReachBack, Coming
<1>8. EntriesArePublished'
  <2> SUFFICES ASSUME NEW t \in Tabs, NEW x \in OnWire(t)'
               PROVE  sid[x.ev] # 0 /\ x.id # 0 /\ x.id \in {sid[x.ev], fid[x.ev]}
    BY <1>1 DEF EntriesArePublished
  <2>1. CASE x \in OnWire(t)
    BY <2>1 DEF CatchInv, EntriesArePublished
  <2>2. CASE x \in entries
    BY <1>2, <2>2
  <2> QED BY <1>4, <2>1, <2>2
<1>9. Offline'
  BY <1>1, <1>4 DEF CatchInv, Offline, Due
<1>10. OnItsWay'
  <2> SUFFICES ASSUME NEW t \in Tabs, NEW e \in Events, conn[t], Awaits(t, e)', ~ Covered(e)'
               PROVE  /\ Coming(e) /\ lastId[t] < sid[e]
                      /\ \A x \in OnWire(t)' : x.id < sid[e]
    BY <1>1 DEF OnItsWay, Coming
  <2>1. Awaits(t, e) /\ EventChannel[e] = TabChannel[t] /\ sid[e] # 0 /\ e \notin muddled
    BY <1>1, <1>4 DEF Awaits, Due, CatchInv, OwedOfChannel
  <2>2. ~ (r.channel = EventChannel[e] /\ sid[e] \in r.start..r.end)
    <3> SUFFICES ASSUME r.channel = EventChannel[e], sid[e] \in r.start..r.end PROVE FALSE
      OBVIOUS
    <3> DEFINE x == [id |-> sid[e], ev |-> e]
    <3>1. x \in entries /\ x.ev = e
      BY <2>1 DEF Scoped
    <3>2. x \in OnWire(t)'
      BY <1>4, <2>1, <3>1
    <3> QED BY <3>1, <3>2 DEF Awaits, Due
  <2>3. ~ Covered(e)
    BY <1>1, <1>3, <2>2 DEF Covered
  <2>4. Coming(e) /\ lastId[t] < sid[e] /\ \A x \in OnWire(t) : x.id < sid[e]
    BY <2>1, <2>3 DEF CatchInv, OnItsWay
  <2>5. ASSUME NEW d \in asked, EventChannel[d] = TabChannel[t] PROVE sid[d] < sid[e]
    <3>1. r.channel = EventChannel[e] /\ d \in Events /\ sid[d] \in r.start..r.end
      BY <1>2, <2>1, <2>5
    <3>2. r.start \in Nat /\ r.end \in Nat
      BY <1>3 DEF Replay
    <3> SUFFICES ASSUME ~ sid[d] < sid[e] PROVE FALSE
      OBVIOUS
    <3>3. sid[e] < r.start
      BY <1>2, <2>2, <3>1, <3>2
    <3>4. sid[e] < sid[d] /\ sid[d] <= r.end /\ d # e
      BY <1>2, <3>1, <3>2, <3>3
    <3>5. r.end <= cursor
      <4>1. cursor # Latest
        BY <2>4 DEF Coming
      <4> QED BY <1>2, <1>3, <2>1, <2>4, <3>2, <3>3, <4>1 DEF CatchInv, RangesReachBack
    <3>6. fid[e] # 0 /\ fid[e] < sid[d]
      BY <1>2, <2>1, <3>1, <3>4 DEF CatchInv, InOrder, Parted
    <3> QED BY <1>2, <2>4, <3>1, <3>2, <3>4, <3>5, <3>6 DEF Coming
  <2> QED BY <1>4, <2>4, <2>5
<1> QED BY <1>6, <1>7, <1>8, <1>9, <1>10 DEF CatchInv

LEMMA CatchFailures ==
  ASSUME IInv, CatchInv, ReadFails \/ RangeFails
  PROVE  CatchInv'
<1>1. UNCHANGED <<now, sid, fid, sLast, fLast, cursor, from, conn, wire, lastId, seen, muddled>>
  BY DEF ReadFails, RangeFails, streams, tabs, ours
<1>2. \A t \in Tabs : OnWire(t)' = OnWire(t)
  BY <1>1 DEF OnWire
<1>3. /\ Asked' \subseteq Asked
      /\ \A t \in Tabs : owed'[t] \subseteq owed[t]
      /\ phase' # "queued" => phase # "queued" /\ ahead' = <<>>
      /\ \A t \in Tabs : \A e \in owed'[t] : Covered(e) /\ sid[e] # 0 => Covered(e)'
  <2>1. CASE ReadFails
    <3>1. ahead = <<>> /\ phase' = "queued" /\ owed' = owed
      BY <2>1 DEF ReadFails, CatchInv, RangeEnds, ours
    <3>2. Asked' = Asked
      BY <2>1, <3>1, AskedMoves DEF ReadFails
    <3> QED BY <1>1, <3>1, <3>2 DEF Covered
  <2>2. CASE RangeFails
    <3> DEFINE r == Head(ahead)
               lost == {e \in Scoped(r.channel) : sid[e] \in r.start..r.end}
    <3>1. /\ ahead # <<>> /\ ahead' = Tail(ahead) /\ behind' = behind /\ phase' = phase
          /\ owed' = [t \in Tabs |-> owed[t] \ lost]
      BY <2>2 DEF RangeFails
    <3>2. Asked' \subseteq Asked /\ Asked \subseteq Asked' \cup {r}
      BY <3>1, AskedPops DEF IInv
    <3>3. phase = "queued"
      BY <3>1 DEF CatchInv, RangeEnds
    <3>4. \A t \in Tabs : owed'[t] = owed[t] \ lost /\ owed[t] \subseteq Events
      BY <3>1 DEF IInv, TypeOK
    <3>5. ASSUME NEW e \in Events, e \notin lost, Covered(e), sid[e] # 0 PROVE Covered(e)'
      BY <1>1, <3>2, <3>5 DEF Covered, Scoped
    <3>6. \A t \in Tabs : \A e \in owed'[t] : Covered(e) /\ sid[e] # 0 => Covered(e)'
      BY <3>4, <3>5
    <3> HIDE DEF lost
    <3> QED BY <3>1, <3>2, <3>3, <3>4, <3>6
  <2> QED BY <2>1, <2>2
<1>4. InOrder' /\ EntriesArePublished' /\ LastIsSeen'
  BY <1>1, <1>2 DEF CatchInv, InOrder, Parted, ThisMs, EntriesArePublished, LastIsSeen
<1>5. RangeEnds' /\ StartsAreKnown' /\ RangesReachBack'
  BY <1>1, <1>3 DEF CatchInv, RangeEnds, StartsAreKnown, Known, RangesReachBack, Coming
<1>6. OwedOfChannel' /\ Offline'
  BY <1>1, <1>3 DEF CatchInv, OwedOfChannel, Offline, Due
<1>7. ObservedIsRead'
  <2>1. \A id : Observed(id)' => Observed(id)
    BY <1>1, <1>2, <1>3 DEF Observed
  <2> QED BY <1>1, <1>3, <2>1 DEF CatchInv, ObservedIsRead, FirstAfter
<1>8. OnItsWay'
  <2> SUFFICES ASSUME NEW t \in Tabs, NEW e \in Events, conn[t], Awaits(t, e)', ~ Covered(e)'
               PROVE  Coming(e) /\ lastId[t] < sid[e] /\ \A x \in OnWire(t) : x.id < sid[e]
    BY <1>1, <1>2 DEF OnItsWay, Coming
  <2>1. Awaits(t, e) /\ sid[e] # 0 /\ e \in owed'[t]
    BY <1>1, <1>2, <1>3 DEF Awaits, Due, CatchInv, OwedOfChannel
  <2>2. ~ Covered(e)
    BY <1>3, <2>1
  <2> QED BY <2>1, <2>2 DEF CatchInv, OnItsWay
<1> QED BY <1>4, <1>5, <1>6, <1>7, <1>8 DEF CatchInv

LEMMA CatchConnect ==
  ASSUME IInv, CatchInv, NEW t \in Tabs, Connect(t)
  PROVE  CatchInv'
<1> USE StreamAssumption
<1> DEFINE r == [channel |-> TabChannel[t], start |-> incrementId(lastId[t]), end |-> endId]
<1>1. /\ UNCHANGED <<now, sid, fid, sLast, fLast, cursor, phase, from, ahead, wire, lastId,
                     seen, owed, muddled>>
      /\ ~ conn[t] /\ \A u \in Tabs : conn'[u] = (conn[u] \/ u = t)
      /\ behind' = IF lastId[t] = 0 THEN behind ELSE Append(behind, r)
  BY DEF Connect, streams, ours, IInv, TypeOK
<1>2. /\ ThisMs <= NoEnd /\ NoEnd \in Nat /\ ThisMs \in Nat
  BY ThisMsBounds DEF CatchInv, InOrder, Parted
<1>3. /\ r \in Replay /\ r.start = lastId[t] + 1 /\ r.channel = TabChannel[t]
      /\ r.end = IF cursor = Latest THEN NoEnd ELSE cursor
      /\ cursor \in Nat /\ lastId[t] \in Nat
  BY <1>2 DEF Replay, IInv, TypeOK, incrementId, endId
<1> HIDE DEF r
<1>4. Asked' = IF lastId[t] = 0 THEN Asked ELSE Asked \cup {r}
  <2>1. CASE lastId[t] = 0
    BY <1>1, <2>1 DEF Asked
  <2>2. CASE lastId[t] # 0
    BY <1>1, <1>3, <2>2, AskedGrows DEF IInv
  <2> QED BY <2>1, <2>2
<1>5. \A u \in Tabs : OnWire(u)' = OnWire(u)
  BY <1>1 DEF OnWire
<1>6. OnWire(t) = {} /\ \A e \in Due(t) \ seen[t] : lastId[t] < sid[e]
  BY <1>1 DEF CatchInv, Offline, Due, OnWire, Written
<1>7. InOrder' /\ OwedOfChannel' /\ EntriesArePublished' /\ LastIsSeen' /\ Offline'
  <2>1. InOrder' /\ OwedOfChannel' /\ LastIsSeen'
    BY <1>1 DEF CatchInv, InOrder, Parted, ThisMs, OwedOfChannel, LastIsSeen
  <2>2. EntriesArePublished'
    BY <1>1, <1>5 DEF CatchInv, EntriesArePublished
  <2>3. Offline'
    BY <1>1 DEF CatchInv, Offline, Due
  <2> QED BY <2>1, <2>2, <2>3
<1>8. RangeEnds'
  BY <1>1, <1>3, <1>4 DEF CatchInv, RangeEnds
<1>9. StartsAreKnown'
  <2>1. Known(lastId[t])
    BY <1>3, ObservedIsKnown DEF IInv, Observed
  <2>2. r.start - 1 = lastId[t]
    BY <1>3
  <2> QED BY <1>1, <1>4, <2>1, <2>2 DEF CatchInv, StartsAreKnown, Known
<1>10. ObservedIsRead'
  <2>1. ASSUME NEW id \in Nat, Observed(id)' PROVE Observed(id)
    <3>1. r.start = id + 1 => id = lastId[t]
      BY <1>3
    <3> QED BY <1>1, <1>4, <1>5, <2>1, <3>1 DEF Observed
  <2> QED BY <1>1, <2>1 DEF CatchInv, ObservedIsRead, FirstAfter
<1>11. RangesReachBack'
  BY <1>1, <1>3, <1>4 DEF CatchInv, RangesReachBack, Coming
<1>12. OnItsWay'
  <2> SUFFICES ASSUME NEW u \in Tabs, NEW e \in Events, conn'[u], Awaits(u, e)', ~ Covered(e)'
               PROVE  Coming(e) /\ lastId[u] < sid[e] /\ \A x \in OnWire(u) : x.id < sid[e]
    BY <1>1, <1>5 DEF OnItsWay, Coming
  <2>1. Awaits(u, e) /\ ~ Covered(e)
    BY <1>1, <1>4, <1>5 DEF Awaits, Due, Covered
  <2>2. CASE u # t
    BY <1>1, <2>1, <2>2 DEF CatchInv, OnItsWay
  <2>3. CASE u = t
    <3>1. /\ lastId[t] < sid[e] /\ EventChannel[e] = TabChannel[t] /\ lastId[t] # 0
          /\ sid[e] \in Nat /\ fid[e] \in Nat /\ sid[e] # 0 /\ e \notin muddled
      BY <1>6, <2>1, <2>3 DEF Awaits, Due, CatchInv, OwedOfChannel, IInv, TypeOK
    <3>2. r \in Asked' /\ r.start <= sid[e]
      BY <1>3, <1>4, <3>1
    <3>3. ~ sid[e] <= r.end
      BY <1>1, <1>2, <1>3, <3>1, <3>2 DEF Covered
    <3>4. sid[e] <= NoEnd
      BY <1>2, <3>1 DEF CatchInv, InOrder, Parted
    <3>5. cursor # Latest /\ cursor < sid[e]
      BY <1>3, <3>1, <3>3, <3>4
    <3>6. Coming(e)
      BY <1>3, <3>1, <3>5 DEF Coming, CatchInv, InOrder
    <3> QED BY <1>6, <2>3, <3>1, <3>6
  <2> QED BY <2>2, <2>3
<1> QED BY <1>7, <1>8, <1>9, <1>10, <1>11, <1>12 DEF CatchInv

LEMMA CatchReceive ==
  ASSUME IInv, CatchInv, NEW t \in Tabs, Receive(t)
  PROVE  CatchInv'
<1>1. UNCHANGED <<now, sid, fid, sLast, fLast, cursor, phase, from, ahead, behind, conn, owed,
                  muddled>>
  BY DEF Receive, streams, redis, ours
<1>2. /\ wire[t] # <<>>
      /\ \A u \in Tabs \ {t} : /\ wire'[u] = wire[u] /\ lastId'[u] = lastId[u]
                               /\ seen'[u] = seen[u] /\ OnWire(u)' = OnWire(u)
  BY ReceivedOffWire DEF IInv
<1>3. PICK x \in OnWire(t) :
        /\ lastId'[t] = x.id /\ seen'[t] = seen[t] \cup {x.ev}
        /\ OnWire(t)' \subseteq OnWire(t) /\ OnWire(t) \subseteq OnWire(t)' \cup {x}
  BY ReceivedOffWire DEF IInv
<1>4. conn[t] /\ Asked' = Asked
  BY <1>1, <1>2 DEF CatchInv, Offline, Due, Asked
<1>5. sid[x.ev] # 0 /\ x.id # 0 /\ x.id \in {sid[x.ev], fid[x.ev]}
  BY DEF CatchInv, EntriesArePublished
<1>6. InOrder' /\ RangeEnds' /\ StartsAreKnown' /\ RangesReachBack'
  BY <1>1, <1>4 DEF CatchInv, InOrder, Parted, ThisMs, RangeEnds, StartsAreKnown, Known,
     RangesReachBack, Coming
<1>7. OwedOfChannel'
  BY <1>1, <1>2, <1>3, <1>5 DEF CatchInv, OwedOfChannel
<1>8. EntriesArePublished' /\ Offline'
  BY <1>1, <1>2, <1>3, <1>4 DEF CatchInv, EntriesArePublished, Offline, Due
<1>9. LastIsSeen'
  BY <1>1, <1>2, <1>3, <1>5 DEF CatchInv, LastIsSeen
<1>10. ObservedIsRead'
  <2>1. ASSUME NEW id, Observed(id)' PROVE Observed(id)
    BY <1>2, <1>3, <1>4, <2>1 DEF Observed
  <2> QED BY <1>1, <2>1 DEF CatchInv, ObservedIsRead, FirstAfter
<1>11. OnItsWay'
  <2> SUFFICES ASSUME NEW u \in Tabs, NEW e \in Events, conn[u], Awaits(u, e)', ~ Covered(e)
               PROVE  Coming(e) /\ lastId'[u] < sid[e] /\ \A y \in OnWire(u)' : y.id < sid[e]
    BY <1>1, <1>4 DEF OnItsWay, Coming, Covered
  <2>1. Awaits(u, e)
    BY <1>1, <1>2, <1>3 DEF Awaits, Due
  <2>2. Coming(e) /\ lastId[u] < sid[e] /\ \A y \in OnWire(u) : y.id < sid[e]
    BY <2>1 DEF CatchInv, OnItsWay
  <2> QED BY <1>2, <1>3, <2>2
<1> QED BY <1>6, <1>7, <1>8, <1>9, <1>10, <1>11 DEF CatchInv

\* A connection that breaks when no replay is under way has nothing due behind
\* the tab's last id ...
LEMMA CalmIsSafe ==
  ASSUME IInv, CatchInv, NEW t \in Tabs, conn[t], Calm(t), NEW e \in Due(t) \ seen[t]
  PROVE  lastId[t] < sid[e]
<1>1. /\ e \in Events /\ e \notin muddled /\ lastId[t] \in Nat /\ seen[t] \subseteq Events
      /\ sid[e] # 0 /\ \A d \in Events : sid[d] \in Nat /\ fid[d] \in Nat
  BY DEF IInv, TypeOK, CatchInv, OwedOfChannel, Due
<1>2. Asked = {} /\ \A x \in OnWire(t) : lastId[t] < x.id
  BY DEF Calm, Asked, OnWire, Written
<1>3. CASE Awaits(t, e)
  <2>1. ~ Covered(e)
    BY <1>2 DEF Covered
  <2> QED BY <1>1, <1>3, <2>1 DEF CatchInv, OnItsWay
<1>4. CASE ~ Awaits(t, e)
  <2>1. PICK x \in OnWire(t) : x.ev = e
    BY <1>4 DEF Awaits
  <2>2. lastId[t] < x.id /\ x.id \in {sid[e], fid[e]}
    BY <1>2, <2>1 DEF CatchInv, EntriesArePublished
  <2>3. CASE lastId[t] < IdsPerMs
    BY <1>1, <2>3, StreamAssumption DEF CatchInv, InOrder
  <2>4. CASE /\ ~ lastId[t] < IdsPerMs
             /\ \E d \in seen[t] : sid[d] # 0 /\ lastId[t] \in {sid[d], fid[d]}
    <3>1. PICK d \in seen[t] : sid[d] # 0 /\ lastId[t] \in {sid[d], fid[d]}
      BY <2>4
    <3>2. d \in Events /\ lastId[t] # 0
      BY <1>1, <2>4, StreamAssumption
    <3>3. CASE d = e
      BY <1>1, <2>2, <3>1, <3>2, <3>3 DEF CatchInv, InOrder
    <3>4. CASE d # e
      <4>1. Parted(d, e) /\ Parted(e, d)
        BY <1>1, <3>1, <3>2, <3>4 DEF CatchInv, InOrder
      <4>2. fid[e] # 0 => sid[e] <= fid[e]
        BY <1>1 DEF CatchInv, InOrder
      <4>3. CASE sid[d] < sid[e]
        BY <1>1, <3>1, <3>2, <4>1, <4>3 DEF Parted
      <4>4. CASE sid[e] < sid[d]
        <5>1. fid[e] # 0 /\ fid[e] < sid[d] /\ (fid[d] # 0 => fid[e] < fid[d])
          BY <4>1, <4>4 DEF Parted
        <5> QED BY <1>1, <2>2, <3>1, <3>2, <4>2, <5>1
      <4> QED BY <1>1, <3>2, <4>1, <4>3, <4>4 DEF Parted
    <3> QED BY <3>3, <3>4
  <2> QED BY <2>3, <2>4 DEF CatchInv, LastIsSeen
<1> QED BY <1>3, <1>4

\* ... and when one is, it takes what it still has to bring with it.
LEMMA BreakIsSafe ==
  ASSUME IInv, CatchInv, NEW t \in Tabs, NEW e \in Due(t) \ seen[t], e \notin UnderWay(t)
  PROVE  lastId[t] < sid[e]
<1>1. CASE ~ conn[t]
  BY <1>1 DEF CatchInv, Offline
<1>2. CASE conn[t] /\ Calm(t)
  BY <1>2, CalmIsSafe
<1>3. CASE conn[t] /\ ~ Calm(t)
  <2>1. e \in Events /\ sid[e] # 0 /\ EventChannel[e] = TabChannel[t]
    BY DEF IInv, TypeOK, CatchInv, OwedOfChannel, Due
  <2>2. Awaits(t, e)
    <3>1. e \notin InFlight(t)
      BY <1>3 DEF UnderWay
    <3> QED BY <2>1, <3>1 DEF InFlight, Carried, Awaits, OnWire, Written
  <2>3. ~ Covered(e)
    <3> SUFFICES ASSUME NEW r \in Asked, r.channel = TabChannel[t], sid[e] \in r.start..r.end
                 PROVE  FALSE
      BY <2>1 DEF Covered
    <3>1. \E q \in {ahead, behind} : \E i \in DOMAIN q : q[i] = r
      BY DEF Asked
    <3> QED BY <1>3, <2>1, <3>1 DEF UnderWay, Scoped
  <2> QED BY <1>3, <2>1, <2>2, <2>3 DEF CatchInv, OnItsWay
<1> QED BY <1>1, <1>2, <1>3

LEMMA CatchDrop ==
  ASSUME IInv, CatchInv, NEW t \in Tabs, Drop(t)
  PROVE  CatchInv'
<1>1. /\ UNCHANGED <<now, sid, fid, sLast, fLast, cursor, phase, from, ahead, behind, lastId,
                     seen, muddled>>
      /\ conn[t]
      /\ \A u \in Tabs : conn'[u] = (conn[u] /\ u # t)
      /\ wire'[t] = <<>> /\ \A u \in Tabs \ {t} : wire'[u] = wire[u]
      /\ owed'[t] = owed[t] \ UnderWay(t) /\ \A u \in Tabs \ {t} : owed'[u] = owed[u]
  BY DEF Drop, streams, redis, IInv, TypeOK
<1>2. OnWire(t)' = {} /\ \A u \in Tabs \ {t} : OnWire(u)' = OnWire(u)
  BY <1>1 DEF OnWire, Written
<1>3. /\ Asked' = Asked
      /\ Due(t)' = Due(t) \ UnderWay(t) /\ \A u \in Tabs \ {t} : Due(u)' = Due(u)
  BY <1>1 DEF Asked, Due
<1>4. InOrder' /\ RangeEnds' /\ StartsAreKnown' /\ RangesReachBack'
  BY <1>1, <1>3 DEF CatchInv, InOrder, Parted, ThisMs, RangeEnds, StartsAreKnown, Known,
     RangesReachBack, Coming
<1>5. OwedOfChannel' /\ EntriesArePublished' /\ LastIsSeen'
  BY <1>1, <1>2 DEF CatchInv, OwedOfChannel, EntriesArePublished, LastIsSeen
<1>6. ObservedIsRead'
  <2>1. ASSUME NEW id, Observed(id)' PROVE Observed(id)
    BY <1>1, <1>2, <1>3, <2>1 DEF Observed
  <2> QED BY <1>1, <2>1 DEF CatchInv, ObservedIsRead, FirstAfter
<1>7. Offline'
  <2>1. ASSUME NEW e \in Due(t)' \ seen[t] PROVE lastId[t] < sid[e]
    <3>1. e \in Due(t) \ seen[t] /\ e \notin UnderWay(t)
      BY <1>3
    <3> QED BY <3>1, BreakIsSafe
  <2>2. ASSUME NEW u \in Tabs \ {t}, ~ conn[u]
        PROVE  wire[u] = <<>> /\ \A e \in Due(u) \ seen[u] : lastId[u] < sid[e]
    BY <2>2 DEF CatchInv, Offline
  <2> QED BY <1>1, <1>3, <2>1, <2>2 DEF Offline
<1>8. OnItsWay'
  <2> SUFFICES ASSUME NEW u \in Tabs \ {t}, NEW e \in Events, conn[u], Awaits(u, e)'
               PROVE  \/ Covered(e)
                      \/ Coming(e) /\ lastId[u] < sid[e] /\ \A x \in OnWire(u) : x.id < sid[e]
    BY <1>1, <1>2, <1>3 DEF OnItsWay, Covered, Coming
  <2>1. Awaits(u, e)
    BY <1>1, <1>2, <1>3 DEF Awaits
  <2> QED BY <2>1 DEF CatchInv, OnItsWay
<1> QED BY <1>4, <1>5, <1>6, <1>7, <1>8 DEF CatchInv

LEMMA CatchRestart ==
  ASSUME IInv, CatchInv, Restart
  PROVE  CatchInv'
<1>1. /\ UNCHANGED <<now, sid, fid, sLast, fLast, lastId, seen, muddled>>
      /\ cursor' = Latest /\ phase' = "queued" /\ ahead' = <<>> /\ behind' = <<>>
      /\ \A t \in Tabs : ~ conn'[t] /\ wire'[t] = <<>> /\ owed'[t] = owed[t] \ UnderWay(t)
  BY DEF Restart, streams
<1>2. /\ Asked' = {} /\ \A t \in Tabs : OnWire(t)' = {}
      /\ \A t \in Tabs : Due(t)' = Due(t) \ UnderWay(t)
  BY <1>1 DEF Asked, OnWire, Written, Due
<1>3. InOrder' /\ OwedOfChannel' /\ LastIsSeen'
  BY <1>1 DEF CatchInv, InOrder, Parted, ThisMs, OwedOfChannel, LastIsSeen
<1>4. RangeEnds' /\ EntriesArePublished' /\ StartsAreKnown' /\ ObservedIsRead' /\ RangesReachBack'
  BY <1>1, <1>2 DEF RangeEnds, EntriesArePublished, StartsAreKnown, ObservedIsRead, RangesReachBack
<1>5. Offline'
  BY <1>1, <1>2, BreakIsSafe DEF Offline
<1>6. OnItsWay'
  BY <1>1 DEF OnItsWay
<1> QED BY <1>3, <1>4, <1>5, <1>6 DEF CatchInv

LEMMA CatchStep ==
  ASSUME IInv, CatchInv, [Next]_vars
  PROVE  CatchInv'
BY CatchPublishScoped, CatchPublishFull, CatchElsewhere, CatchHandleRead, CatchHandleRange,
   CatchFailures, CatchConnect, CatchReceive, CatchDrop, CatchRestart DEF Next

LEMMA CatchInit == Init /\ TypeOK => CatchInv
<1> SUFFICES ASSUME Init, TypeOK PROVE CatchInv
  OBVIOUS
<1> USE StreamAssumption DEF Init
<1>1. Asked = {} /\ \A t \in Tabs : OnWire(t) = {}
  BY DEF Asked, OnWire, Written
<1>2. InOrder
  <2>1. now = 1 /\ 1 \in 1..(MaxMs + 1) /\ 1 * IdsPerMs = IdsPerMs
    OBVIOUS
  <2> QED BY <2>1 DEF InOrder, ThisMs
<1>3. \A t \in Tabs : lastId[t] < IdsPerMs
  <2>1. \A i \in FirstIds : i < IdsPerMs
    OBVIOUS
  <2>2. \A t \in Tabs : lastId[t] \in FirstIds
    OBVIOUS
  <2> QED BY <2>1, <2>2
<1>4. \A t \in Tabs : Due(t) = {}
  BY DEF Due
<1> QED BY <1>1, <1>2, <1>3, <1>4 DEF CatchInv, RangeEnds, OwedOfChannel, EntriesArePublished,
           LastIsSeen, StartsAreKnown, ObservedIsRead, RangesReachBack, Offline, OnItsWay

\* README.md:36 for any number of events, tabs, channels, drops, failed commands
\* and restarts, whatever workers publish meanwhile: when all is quiet, a tab that
\* lost its connection has every event that was published alone, unless the replay
\* with it failed or broke off.
THEOREM DroppedTabsCatchUp == Spec => []CatchUp
<1>1. IInv /\ CatchInv => CatchUp
  <2> SUFFICES ASSUME IInv, CatchInv, Settled, NEW t \in Tabs, conn[t], NEW e \in Due(t),
                      e \notin seen[t]
               PROVE  FALSE
    BY DEF CatchUp
  <2>1. Asked = {} /\ OnWire(t) = {}
    BY DEF Settled, CatchInv, RangeEnds, Asked, OnWire, Written
  <2>2. e \in Events /\ sid[e] # 0 /\ fid[e] # 0
    BY DEF IInv, TypeOK, CatchInv, OwedOfChannel, Due, Settled, HalfPublished
  <2>3. Coming(e)
    BY <2>1, <2>2 DEF Awaits, Due, Covered, CatchInv, OnItsWay
  <2>4. e \in FullAfter(from)
    BY <2>2, <2>3 DEF Coming, FullAfter, Settled, IInv, ReadsFromCursor
  <2> QED BY <2>4 DEF Settled
<1>2. IInv /\ CatchInv /\ [Next]_vars => CatchInv'
  BY CatchStep
<1> QED BY <1>1, <1>2, CatchInit, TypeCorrect, InductiveInvariant, PTL DEF Spec
=============================================================================
