----------------------------- MODULE EventRelay -----------------------------
(***************************************************************************)
(* How a job's event travels from a Celery worker to the browser tabs of   *)
(* its user over websockets: update_job adds it to the stream of its       *)
(* channel and then to the global stream (two XADDs), the websocket server *)
(* follows the global stream with a blocking XREAD and sends what it reads *)
(* to the open sockets of the channel, and a tab that reconnects with the  *)
(* last id it saw gets a range of its channel's stream replayed.           *)
(* The server has one Redis connection: an XRANGE queues behind the XREAD  *)
(* that is blocking, and its answer is handled after that read's.          *)
(***************************************************************************)
EXTENDS Integers, Sequences

CONSTANTS
  Events, Tabs, Channels,
  EventChannel, TabChannel,
  IdsPerMs,     \* an id ms-seq is the number ms * IdsPerMs + seq; more than
                \* the entries a stream can get, so that seq stays below it
  WarmId,       \* 0, or the id in the global stream the server has read already
  FirstIds,     \* last_async_event_id of a fresh tab (localStorage), 0 for none
  MaxMs, MaxDrops, MaxFailures, MaxRestarts   \* bounds

Latest == 0   \* lastFirehoseId = '$'; every real id is larger
NoEnd == (MaxMs + 1) * IdsPerMs   \* the range end '+'

ASSUME StreamAssumption ==
  /\ EventChannel \in [Events -> Channels] /\ TabChannel \in [Tabs -> Channels]
  /\ IdsPerMs \in Nat \ {0} /\ MaxMs \in Nat
  /\ WarmId \in 0..(IdsPerMs - 1) /\ FirstIds \subseteq 0..(IdsPerMs - 1)

VARIABLES
  now,       \* Redis's clock in ms
  sid, fid,  \* sid[e], fid[e]: the id of e in its channel's and the global stream, or 0
  sLast, fLast,  \* the last ids generated in each channel's and the global stream
  cursor,    \* lastFirehoseId
  phase,     \* the XREAD: "queued" at Redis, "blocked" there, or "replied"
  from,      \* the id a blocked XREAD reads after ('$' is resolved by Redis)
  batch,     \* the events of its reply
  ahead,     \* XRANGEs queued before the XREAD
  behind,    \* XRANGEs queued after it
  conn,      \* conn[t]: the tab's websocket is open at both ends
  joinedAt,  \* joinedAt[t]: lastFirehoseId when it connected
  wire,      \* wire[t]: the batches of entries sent to the tab, not yet received
  lastId,    \* lastId[t]: lastReceivedEventId, 0 for null
  seen,      \* history: the events the tab received
  owed,      \* history: events whose publishing began when the tab had a lastId and
             \* the server a position, less those of a replay that failed or was
             \* under way when the connection broke
  muddled,   \* history: events published together with others
  drops, failures, restarts

streams == <<now, sid, fid, sLast, fLast>>
redis == <<phase, from, batch, ahead, behind>>
tabs == <<conn, joinedAt, wire, lastId, seen>>
budget == <<drops, failures, restarts>>
ours == <<owed, muddled>>
vars == <<streams, cursor, redis, tabs, ours, budget>>

Entry == [id : Nat, ev : Events]
Replay == [channel : Channels, start : Nat, end : Nat]

TypeOK ==
  /\ now \in Nat /\ sid \in [Events -> Nat] /\ fid \in [Events -> Nat]
  /\ sLast \in [Channels -> Nat] /\ fLast \in Nat
  /\ cursor \in Nat
  /\ phase \in {"queued", "blocked", "replied"} /\ from \in Nat
  /\ batch \in SUBSET Events /\ ahead \in Seq(Replay) /\ behind \in Seq(Replay)
  /\ conn \in [Tabs -> BOOLEAN] /\ joinedAt \in [Tabs -> Nat]
  /\ wire \in [Tabs -> Seq(SUBSET Entry)]
  /\ lastId \in [Tabs -> Nat]
  /\ seen \in [Tabs -> SUBSET Events] /\ owed \in [Tabs -> SUBSET Events]
  /\ muddled \in SUBSET Events
  /\ drops \in Nat /\ failures \in Nat /\ restarts \in Nat

Init ==
  /\ now = 1
  /\ sid = [e \in Events |-> 0] /\ fid = [e \in Events |-> 0]
  /\ sLast = [c \in Channels |-> 0] /\ fLast = WarmId
  /\ cursor = WarmId
  /\ phase = "queued" /\ from = 0 /\ batch = {} /\ ahead = <<>> /\ behind = <<>>
  /\ conn = [t \in Tabs |-> FALSE] /\ joinedAt = [t \in Tabs |-> 0]
  /\ wire = [t \in Tabs |-> <<>>]
  /\ lastId \in [Tabs -> FirstIds]
  /\ seen = [t \in Tabs |-> {}] /\ owed = [t \in Tabs |-> {}] /\ muddled = {}
  /\ drops = 0 /\ failures = 0 /\ restarts = 0

-----------------------------------------------------------------------------
\* The id XADD '*' gives after an entry with id last: the clock's, or last's
\* with the next sequence number while the clock has not passed it.
NewId(last) == IF last < now * IdsPerMs THEN now * IdsPerMs ELSE last + 1

incrementId(id) == id + 1

\* Mutant: the range stops before the last event read from the global stream.
endIdExclusive == IF cursor = Latest THEN NoEnd ELSE cursor - 1

endId == IF cursor = Latest THEN NoEnd ELSE cursor

Scoped(c) == {e \in Events : EventChannel[e] = c /\ sid[e] # 0}
FullAfter(id) == {e \in Events : fid[e] > id}
HalfPublished == {e \in Events : sid[e] # 0 /\ fid[e] = 0}

\* Nobody else is publishing, and no id of this millisecond has been given.
Alone == /\ HalfPublished = {} /\ fLast < now * IdsPerMs
         /\ \A c \in Channels : sLast[c] < now * IdsPerMs
Company == HalfPublished
           \cup {d \in Events : sid[d] >= now * IdsPerMs \/ fid[d] >= now * IdsPerMs}

\* update_job's first XADD ...
PublishScoped(e) ==
  /\ sid[e] = 0
  /\ sid' = [sid EXCEPT ![e] = NewId(sLast[EventChannel[e]])]
  /\ sLast' = [sLast EXCEPT ![EventChannel[e]] = NewId(@)]
  /\ owed' = [t \in Tabs |->
                IF /\ lastId[t] # 0 /\ cursor # Latest
                   /\ TabChannel[t] = EventChannel[e]
                THEN owed[t] \cup {e} ELSE owed[t]]
  /\ muddled' = IF Alone THEN muddled ELSE muddled \cup Company \cup {e}
  /\ UNCHANGED <<now, fid, fLast, cursor, redis, tabs, budget>>

\* ... and its second; other workers may publish in between.
PublishFull(e) ==
  /\ e \in HalfPublished
  /\ fLast' = NewId(fLast)
  /\ fid' = [fid EXCEPT ![e] = fLast']
  /\ UNCHANGED <<now, sid, sLast, cursor, redis, tabs, ours, budget>>

ClockTicks ==
  /\ now < MaxMs
  /\ now' = now + 1
  /\ UNCHANGED <<sid, fid, sLast, fLast, cursor, redis, tabs, ours, budget>>

-----------------------------------------------------------------------------
\* Mutant: every XREAD asks for '$', lastFirehoseId is not kept.
ReadStartsAtEnd ==
  /\ phase = "queued" /\ ahead = <<>>
  /\ phase' = "blocked"
  /\ from' = fLast
  /\ UNCHANGED <<streams, cursor, batch, ahead, behind, tabs, ours, budget>>

\* Redis reaches the XREAD once the ranges before it are answered.
ReadStarts ==
  /\ phase = "queued" /\ ahead = <<>>
  /\ phase' = "blocked"
  /\ from' = IF cursor = Latest THEN fLast ELSE cursor
  /\ UNCHANGED <<streams, cursor, batch, ahead, behind, tabs, ours, budget>>

\* It returns entries after "from", oldest first; the COUNT, or having been
\* woken by the first of them, may cut it short.  BLOCK ends an idle one.
ReadReturns ==
  /\ phase = "blocked"
  /\ phase' = "replied"
  /\ batch' \in SUBSET FullAfter(from)
  /\ batch' = {} <=> FullAfter(from) = {}
  /\ \A e \in batch' : \A d \in FullAfter(from) \ batch' : fid[e] < fid[d]
  /\ UNCHANGED <<streams, cursor, from, ahead, behind, tabs, ours, budget>>

\* processStreamResults writes each entry to the open sockets of its channel.
Sent(entries) ==
  [t \in Tabs |->
     LET mine == {x \in entries : EventChannel[x.ev] = TabChannel[t]}
     IN IF conn[t] /\ mine # {} THEN Append(wire[t], mine) ELSE wire[t]]

\* Mutant: the loop returns, instead of continuing, when BLOCK ended the read.
HandleReadOnce ==
  /\ phase = "replied"
  /\ wire' = Sent({[id |-> fid[e], ev |-> e] : e \in batch})
  /\ IF batch = {} THEN UNCHANGED cursor
     ELSE \E last \in batch : /\ \A e \in batch : fid[e] <= fid[last]
                              /\ cursor' = fid[last]
  /\ phase' = (IF batch = {} THEN "ended" ELSE "queued") /\ batch' = {}
  /\ ahead' = behind /\ behind' = <<>>
  /\ UNCHANGED <<streams, from, conn, joinedAt, lastId, seen, ours, budget>>

\* The listener runs, the cursor moves to the last id read and the loop issues
\* the next XREAD, behind the ranges asked for meanwhile.
HandleRead ==
  /\ phase = "replied"
  /\ wire' = Sent({[id |-> fid[e], ev |-> e] : e \in batch})
  /\ IF batch = {} THEN UNCHANGED cursor
     ELSE \E last \in batch : /\ \A e \in batch : fid[e] <= fid[last]
                              /\ cursor' = fid[last]
  /\ phase' = "queued" /\ batch' = {}
  /\ ahead' = behind /\ behind' = <<>>
  /\ UNCHANGED <<streams, from, conn, joinedAt, lastId, seen, ours, budget>>

\* The answer of a replay goes to every open socket of the channel.
HandleRange ==
  /\ ahead # <<>>
  /\ LET r == Head(ahead)
     IN wire' = Sent({[id |-> sid[e], ev |-> e] :
                        e \in {d \in Scoped(r.channel) : sid[d] \in r.start..r.end}})
  /\ ahead' = Tail(ahead)
  /\ UNCHANGED <<streams, cursor, phase, from, batch, behind, conn, joinedAt,
                 lastId, seen, ours, budget>>

\* A command rejects: the loop logs it and reads again after the same id ...
ReadFails ==
  /\ phase = "blocked" /\ failures < MaxFailures
  /\ phase' = "queued" /\ ahead' = behind /\ behind' = <<>>
  /\ failures' = failures + 1
  /\ UNCHANGED <<streams, cursor, from, batch, tabs, ours, drops, restarts>>

\* ... while a failed replay is logged and forgotten: what it held is owed no more.
RangeFails ==
  /\ ahead # <<>> /\ failures < MaxFailures
  /\ LET r == Head(ahead)
         lost == {e \in Scoped(r.channel) : sid[e] \in r.start..r.end}
     IN owed' = [t \in Tabs |-> owed[t] \ lost]
  /\ ahead' = Tail(ahead)
  /\ failures' = failures + 1
  /\ UNCHANGED <<streams, cursor, phase, from, batch, behind, tabs, muddled, drops, restarts>>

-----------------------------------------------------------------------------
\* wsConnect in the tab and wsConnection in the server.
Connect(t) ==
  /\ ~ conn[t]
  /\ conn' = [conn EXCEPT ![t] = TRUE]
  /\ joinedAt' = [joinedAt EXCEPT ![t] = cursor]
  /\ behind' = IF lastId[t] = 0 THEN behind
               ELSE Append(behind, [channel |-> TabChannel[t],
                                    start |-> incrementId(lastId[t]),
                                    end |-> endId])
  /\ UNCHANGED <<streams, cursor, phase, from, batch, ahead, wire, lastId, seen,
                 ours, budget>>

\* The message handler; entries arrive in the order they were written.
Receive(t) ==
  /\ wire[t] # <<>>
  /\ \E x \in Head(wire[t]) :
       LET rest == Head(wire[t]) \ {x}
       IN /\ \A y \in rest : x.id < y.id
          /\ wire' = [wire EXCEPT ![t] = (IF rest = {} THEN <<>> ELSE <<rest>>)
                                         \o Tail(@)]
          /\ lastId' = [lastId EXCEPT ![t] = x.id]
          /\ seen' = [seen EXCEPT ![t] = @ \cup {x.ev}]
  /\ UNCHANGED <<streams, cursor, redis, conn, joinedAt, ours, budget>>

Carried(w) == {e \in Events : \E i \in DOMAIN w : \E x \in w[i] : x.ev = e}
InFlight(t) == Carried(wire[t])

\* Entries in the wire come in the order of their ids, and no replay is pending.
Calm(t) ==
  /\ ahead = <<>> /\ behind = <<>>
  /\ \A i \in DOMAIN wire[t] : \A x \in wire[t][i] :
       /\ lastId[t] < x.id
       /\ \A j \in 1..(i - 1) : \A y \in wire[t][j] : y.id < x.id

\* What is lost if the connection breaks now: younger entries overtook a replay, so
\* that the last id has passed what it still has to bring.
UnderWay(t) ==
  IF conn[t] /\ ~ Calm(t)
  THEN InFlight(t) \cup {e \in Scoped(TabChannel[t]) :
                           \E q \in {ahead, behind} : \E i \in DOMAIN q :
                             /\ q[i].channel = TabChannel[t]
                             /\ sid[e] \in q[i].start..q[i].end}
  ELSE {}

\* The connection breaks; what was written and not received is lost.
Drop(t) ==
  /\ conn[t] /\ drops < MaxDrops
  /\ conn' = [conn EXCEPT ![t] = FALSE]
  /\ wire' = [wire EXCEPT ![t] = <<>>]
  /\ owed' = [owed EXCEPT ![t] = @ \ UnderWay(t)]
  /\ drops' = drops + 1
  /\ UNCHANGED <<streams, cursor, redis, joinedAt, lastId, seen, muddled,
                 failures, restarts>>

\* The server process restarts: registries, cursor and pending replays go.
Restart ==
  /\ restarts < MaxRestarts
  /\ restarts' = restarts + 1
  /\ cursor' = Latest
  /\ phase' = "queued" /\ from' = 0 /\ batch' = {} /\ ahead' = <<>> /\ behind' = <<>>
  /\ conn' = [t \in Tabs |-> FALSE]
  /\ wire' = [t \in Tabs |-> <<>>]
  /\ owed' = [t \in Tabs |-> owed[t] \ UnderWay(t)]
  /\ UNCHANGED <<streams, joinedAt, lastId, seen, muddled, drops, failures>>

Next ==
  \/ \E e \in Events : PublishScoped(e) \/ PublishFull(e)
  \/ ClockTicks
  \/ ReadStarts \/ ReadReturns \/ HandleRead \/ HandleRange
  \/ ReadFails \/ RangeFails
  \/ \E t \in Tabs : Connect(t) \/ Receive(t) \/ Drop(t)
  \/ Restart

\* A worker that made the first XADD makes the second; Redis, the event loop of
\* the server and the tabs make progress, and a tab reconnects after a drop.
Fairness ==
  /\ \A e \in Events : WF_vars(PublishFull(e))
  /\ WF_vars(ReadStarts) /\ WF_vars(ReadReturns)
  /\ WF_vars(HandleRead) /\ WF_vars(HandleRange)
  /\ \A t \in Tabs : WF_vars(Connect(t)) /\ WF_vars(Receive(t))

Spec == Init /\ [][Next]_vars /\ Fairness
-----------------------------------------------------------------------------
LiveFor(t) == {e \in Events : /\ EventChannel[e] = TabChannel[t]
                              /\ joinedAt[t] < fid[e] /\ fid[e] <= cursor}

\* The global stream is followed without a gap: a tab that stayed connected
\* since the server had a position has received, or will from the socket, every
\* event of its channel the server has passed, whatever reads were cut short,
\* timed out or failed (subscribeToGlobalStream, index.ts:233-264).
LiveNoGap ==
  \A t \in Tabs : conn[t] /\ joinedAt[t] # Latest => LiveFor(t) \subseteq seen[t] \cup InFlight(t)

Settled ==
  /\ phase = "blocked" /\ FullAfter(from) = {} /\ HalfPublished = {}
  /\ behind = <<>>
  /\ \A t \in Tabs : wire[t] = <<>>

\* Events published one at a time, each in a millisecond of its own.
Due(t) == owed[t] \ muddled

\* When all is quiet a connected tab has every event it is due, however connections
\* dropped, reads failed, the server restarted, and whatever other workers
\* published in between (index.ts:300-366, async_query_manager.py:295-310).
CatchUp == Settled => \A t \in Tabs : conn[t] => Due(t) \subseteq seen[t]

\* README.md:36: dropped connections "can catch up by reading from the
\* channel-specific stream", whoever published the events.
CatchUpAlways == Settled => \A t \in Tabs : conn[t] => owed[t] \subseteq seen[t]

\* The same as a promise: every event due to a tab is received in the end, unless
\* the one replay that would have brought it fails or breaks off.
DueDelivered ==
  \A t \in Tabs, e \in Events : e \in Due(t) ~> e \in seen[t] \/ e \notin Due(t)
=============================================================================
