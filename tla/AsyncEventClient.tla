-------------------------- MODULE AsyncEventClient --------------------------
(***************************************************************************)
(* The frontend's async event middleware in one browser tab                *)
(* (superset-frontend, src/middleware/asyncEvent.ts): promises that wait   *)
(* for their job's event, the polling loop over the channel's stream, the  *)
(* websocket with its reconnects, and the retries of events that came      *)
(* before their listener.  The stream is the channel's: it also carries    *)
(* events of jobs other tabs of the user asked for.  An entry's id is its  *)
(* position, lastReceivedEventId 0 is null, time is counted in RETRY_DELAY.*)
(***************************************************************************)
EXTENDS Integers, Sequences, SequencesExt

CONSTANTS
  Jobs, OwnJobs,      \* OwnJobs are asked for by this tab
  Transports,         \* the values of GLOBAL_ASYNC_QUERIES_TRANSPORT to consider
  MaxRetries,         \* MAX_RETRIES
  PollDelay,          \* GLOBAL_ASYNC_QUERIES_POLLING_DELAY
  MaxEventCount,      \* what one poll returns at most
  WsMaxRetries, WsErrorDelay,  \* wsConnectMaxRetries, wsConnectErrorDelay
  ResponseLag,        \* bound: the 202 with the job id arrives within this time
  MaxEvents, MaxPollFailures, MaxDrops  \* bounds, MaxEvents[t] with transport t

ASSUME ClientAssumption ==
  /\ OwnJobs \subseteq Jobs
  /\ Transports \subseteq {"polling", "ws"}
  /\ MaxRetries \in Nat \ {0} /\ PollDelay \in Nat \ {0}
  /\ MaxEventCount \in Nat \ {0}
  /\ WsMaxRetries \in Nat /\ WsErrorDelay \in Nat \ {0} /\ ResponseLag \in Nat

VARIABLES
  transport,  \* "polling" or "ws", fixed by init
  stream,     \* the channel's stream: a sequence of [job, status]
  promise,    \* promise[j]: "none", "asked" (the POST is out), "waiting", settled
  lag,        \* lag[j]: time the POST has been out
  client,     \* what processEvents reads and writes, see Client below
  received,   \* history: the entries processEvents has been given
  since,      \* history: since[j]: time since an event of j first came, or -1
  poll,       \* the polling loop: [at |-> "off" / "timer" / "out", n |-> ...]
  ws,         \* the websocket: [at |-> ..., tries |-> ..., due |-> ..., pos |-> ...]
  failures, drops

budget == <<failures, drops>>
vars == <<transport, stream, promise, lag, client, received, since, poll, ws, budget>>

Status == {"done", "error"}
Settled == {"resolved", "rejected"}

\* listeners: listenersByJobId; fetching[j]: cached-data requests in flight;
\* failed: the promises an error event rejects; retries: retriesByJobId;
\* timers: the retry timeouts [entry, due]; lastId: lastReceivedEventId.
Client ==
  [listeners : SUBSET OwnJobs, fetching : [OwnJobs -> Nat],
   failed : SUBSET OwnJobs, retries : [Jobs -> 0..MaxRetries],
   timers : Seq([entry : Nat, due : Nat]), lastId : Nat]

TypeOK ==
  /\ transport \in Transports
  /\ stream \in Seq([job : Jobs, status : Status])
  /\ promise \in [OwnJobs -> {"none", "asked", "waiting"} \cup Settled]
  /\ lag \in [OwnJobs -> 0..ResponseLag]
  /\ client \in Client
  /\ received \subseteq DOMAIN stream
  /\ since \in [Jobs -> -1..(MaxRetries * MaxRetries)]
  /\ poll \in [at : {"off", "timer", "out"}, n : Nat]
  /\ ws \in [at : {"off", "connecting", "open", "closed", "gaveup"},
             tries : Nat, due : Nat, pos : Nat]

Init ==
  /\ transport \in Transports
  /\ stream = <<>>
  /\ promise = [j \in OwnJobs |-> "none"] /\ lag = [j \in OwnJobs |-> 0]
  /\ client = [listeners |-> {}, fetching |-> [j \in OwnJobs |-> 0], failed |-> {},
               retries |-> [j \in Jobs |-> 0], timers |-> <<>>, lastId |-> 0]
  /\ received = {} /\ since = [j \in Jobs |-> -1]
  /\ poll = [at |-> IF transport = "polling" THEN "timer" ELSE "off", n |-> 0]
  /\ ws = [at |-> IF transport = "ws" THEN "connecting" ELSE "off",
           tries |-> 0, due |-> 0, pos |-> 0]
  /\ failures = 0 /\ drops = 0

-----------------------------------------------------------------------------
\* Mutant: removeListener is called in the DONE case only.
CallListenerKept(c, j, status) ==
  IF status = "done" THEN [c EXCEPT !.fetching[j] = @ + 1]
  ELSE [c EXCEPT !.failed = @ \cup {j}]

\* The listener waitForAsyncData registered: a done event starts a fetch and
\* leaves the listener in place until it returns, an error event rejects.
CallListener(c, j, status) ==
  IF status = "done" THEN [c EXCEPT !.fetching[j] = @ + 1]
  ELSE [c EXCEPT !.failed = @ \cup {j}, !.listeners = @ \ {j}]

\* Mutants: <= for <; RETRY_DELAY not multiplied; no retry at all; retries of
\* an entry that never end.
ScheduleRetryOnceMore(c, i, j) ==
  IF c.retries[j] <= MaxRetries
  THEN [c EXCEPT !.retries[j] = @ + 1,
                 !.timers = Append(@, [entry |-> i, due |-> c.retries[j] + 1])]
  ELSE [c EXCEPT !.retries[j] = 0]
ScheduleRetryEvenly(c, i, j) ==
  IF c.retries[j] < MaxRetries
  THEN [c EXCEPT !.retries[j] = @ + 1, !.timers = Append(@, [entry |-> i, due |-> 1])]
  ELSE [c EXCEPT !.retries[j] = 0]
ScheduleRetryNever(c, i, j) == c
ScheduleRetryForever(c, i, j) ==
  IF \E k \in DOMAIN c.timers : c.timers[k].entry = i THEN c
  ELSE [c EXCEPT !.timers = Append(@, [entry |-> i, due |-> 1])]

\* No listener: try again later, at most MaxRetries times per job.
ScheduleRetry(c, i, j) ==
  IF c.retries[j] < MaxRetries
  THEN [c EXCEPT !.retries[j] = @ + 1,
                 !.timers = Append(@, [entry |-> i, due |-> c.retries[j] + 1])]
  ELSE [c EXCEPT !.retries[j] = 0]

\* One round of processEvents; setLastId is called on retries too.
ProcessEvent(c, i) ==
  LET j == stream[i].job
      handled == IF j \in c.listeners
                 THEN [CallListener(c, j, stream[i].status) EXCEPT !.retries[j] = 0]
                 ELSE ScheduleRetry(c, i, j)
  IN [handled EXCEPT !.lastId = i]

\* processEvents on the entries es, with c the state it starts from.
ProcessEvents(c, es) ==
  LET after == FoldLeft(ProcessEvent, c, es)
  IN /\ client' = [after EXCEPT !.failed = {}]
     /\ promise' = [j \in OwnJobs |->
          IF promise[j] = "waiting" /\ j \in after.failed THEN "rejected" ELSE promise[j]]
     /\ received' = received \cup ToSet(es)
     /\ since' = [j \in Jobs |->
          IF since[j] = -1 /\ \E i \in ToSet(es) : stream[i].job = j THEN 0 ELSE since[j]]

-----------------------------------------------------------------------------
\* The server side: a job that was asked for ends in the channel's stream once
\* (AsyncQueryManager has the cases where it does not).
Publish(j, status) ==
  /\ Len(stream) < MaxEvents[transport]
  /\ j \in OwnJobs => promise[j] # "none"
  /\ \A i \in DOMAIN stream : stream[i].job # j
  /\ stream' = Append(stream, [job |-> j, status |-> status])
  /\ UNCHANGED <<transport, promise, lag, client, received, since, poll, ws, budget>>

Ask(j) ==
  /\ promise[j] = "none"
  /\ promise' = [promise EXCEPT ![j] = "asked"]
  /\ UNCHANGED <<transport, stream, lag, client, received, since, poll, ws, budget>>

\* The 202: waitForAsyncData registers the listener.
WaitForAsyncData(j) ==
  /\ promise[j] = "asked"
  /\ promise' = [promise EXCEPT ![j] = "waiting"]
  /\ client' = [client EXCEPT !.listeners = @ \cup {j}]
  /\ UNCHANGED <<transport, stream, lag, received, since, poll, ws, budget>>

\* fetchCachedData returns; the first outcome settles the promise.
FetchReturns(j, outcome) ==
  /\ client.fetching[j] > 0
  /\ client' = [client EXCEPT !.fetching[j] = @ - 1, !.listeners = @ \ {j}]
  /\ promise' = [promise EXCEPT ![j] = IF @ = "waiting" THEN outcome ELSE @]
  /\ UNCHANGED <<transport, stream, lag, received, since, poll, ws, budget>>

\* A retry timeout fires.
RetryFires(k) ==
  /\ client.timers[k].due = 0
  /\ ProcessEvents([client EXCEPT !.timers = RemoveAt(@, k)], <<client.timers[k].entry>>)
  /\ UNCHANGED <<transport, stream, lag, poll, ws, budget>>

-----------------------------------------------------------------------------
Rearmed == IF transport = "polling" THEN [at |-> "timer", n |-> PollDelay]
                                    ELSE [at |-> "off", n |-> 0]

\* Mutants: the id is incremented once more; the timer is not armed again when
\* there was nothing to ask for.
LoadEventsPast ==
  IF client.listeners = {} THEN Rearmed ELSE [at |-> "out", n |-> client.lastId + 1]
LoadEventsStops ==
  IF client.listeners = {} THEN [at |-> "off", n |-> 0]
  ELSE [at |-> "out", n |-> client.lastId]

\* loadEventsFromApi asks from the last id, if any listener is registered ...
LoadEvents == IF client.listeners = {} THEN Rearmed ELSE [at |-> "out", n |-> client.lastId]

PollStarts ==
  /\ poll = [at |-> "timer", n |-> 0]
  /\ poll' = LoadEvents
  /\ UNCHANGED <<transport, stream, promise, lag, client, received, since, ws, budget>>

\* The api answers with what follows the id, as much as read_events returns.
events(lastId) ==
  LET upTo == IF Len(stream) < lastId + MaxEventCount THEN Len(stream)
                                                      ELSE lastId + MaxEventCount
  IN [i \in 1..(upTo - lastId) |-> lastId + i]

\* ... processes them and arms the timer again.
PollReturns ==
  /\ poll.at = "out"
  /\ ProcessEvents(client, events(poll.n))
  /\ poll' = Rearmed
  /\ UNCHANGED <<transport, stream, lag, ws, budget>>

PollFails ==
  /\ poll.at = "out" /\ failures < MaxPollFailures
  /\ failures' = failures + 1
  /\ poll' = Rearmed
  /\ UNCHANGED <<transport, stream, promise, lag, client, received, since, ws, drops>>

-----------------------------------------------------------------------------
\* The server replays what follows the url's last_id, or starts with what comes
\* next if there is none.
WsOpens ==
  /\ ws.at = "connecting"
  /\ ws' = [at |-> "open", tries |-> 0, due |-> 0,
            pos |-> IF ws.pos = 0 THEN Len(stream) ELSE ws.pos]
  /\ UNCHANGED <<transport, stream, promise, lag, client, received, since, poll, budget>>

WsMessage ==
  /\ ws.at = "open" /\ ws.pos < Len(stream)
  /\ ws' = [ws EXCEPT !.pos = @ + 1]
  /\ ProcessEvents(client, <<ws.pos + 1>>)
  /\ UNCHANGED <<transport, stream, lag, poll, budget>>

\* The connection breaks, or is refused.
WsCloses ==
  /\ ws.at \in {"connecting", "open"} /\ drops < MaxDrops
  /\ drops' = drops + 1
  /\ ws' = [ws EXCEPT !.at = "closed", !.due = WsErrorDelay, !.pos = 0]
  /\ UNCHANGED <<transport, stream, promise, lag, client, received, since, poll, failures>>

\* After wsConnectErrorDelay: connect again from the last id, or call
\* loadEventsFromApi.
WsRetries ==
  /\ ws.at = "closed" /\ ws.due = 0
  /\ ws' = [ws EXCEPT !.at = IF ws.tries < WsMaxRetries THEN "connecting" ELSE "gaveup",
                      !.tries = @ + 1, !.pos = client.lastId]
  /\ poll' = IF ws.tries < WsMaxRetries THEN poll ELSE LoadEvents
  /\ UNCHANGED <<transport, stream, promise, lag, client, received, since, budget>>

-----------------------------------------------------------------------------
Due == \/ \E k \in DOMAIN client.timers : client.timers[k].due = 0
       \/ poll = [at |-> "timer", n |-> 0]
       \/ ws.at = "closed" /\ ws.due = 0
       \/ \E j \in OwnJobs : promise[j] = "asked" /\ lag[j] = ResponseLag

Less(n) == IF n > 0 THEN n - 1 ELSE 0

Sooner(timer) == [timer EXCEPT !.due = Less(@)]

Tick ==
  /\ ~ Due
  /\ client' = [client EXCEPT !.timers = [k \in DOMAIN @ |-> Sooner(@[k])]]
  /\ poll' = IF poll.at = "timer" THEN [poll EXCEPT !.n = Less(@)] ELSE poll
  /\ ws' = [ws EXCEPT !.due = Less(@)]
  /\ lag' = [j \in OwnJobs |-> IF promise[j] = "asked" THEN lag[j] + 1 ELSE lag[j]]
  /\ since' = [j \in Jobs |-> IF since[j] \in 0..(MaxRetries * MaxRetries - 1)
                              THEN since[j] + 1 ELSE since[j]]
  /\ UNCHANGED <<transport, stream, promise, received, budget>>

Next ==
  \/ \E j \in Jobs, status \in Status : Publish(j, status)
  \/ \E j \in OwnJobs : Ask(j) \/ WaitForAsyncData(j)
  \/ \E j \in OwnJobs, outcome \in Settled : FetchReturns(j, outcome)
  \/ \E k \in DOMAIN client.timers : RetryFires(k)
  \/ PollStarts \/ PollReturns \/ PollFails
  \/ WsOpens \/ WsMessage \/ WsCloses \/ WsRetries
  \/ Tick

\* The event loop runs what is due, requests are answered, time passes and a
\* connection attempt ends.
Fairness ==
  /\ \A j \in OwnJobs : WF_vars(WaitForAsyncData(j))
  /\ \A j \in OwnJobs : WF_vars(\E outcome \in Settled : FetchReturns(j, outcome))
  /\ WF_vars(\E k \in DOMAIN client.timers : RetryFires(k))
  /\ WF_vars(PollStarts) /\ WF_vars(PollReturns)
  /\ WF_vars(WsOpens) /\ WF_vars(WsMessage) /\ WF_vars(WsRetries)
  /\ WF_vars(Tick)

Spec == Init /\ [][Next]_vars /\ Fairness
-----------------------------------------------------------------------------
EventsOf(j) == {i \in DOMAIN stream : stream[i].job = j}

\* Polling skips nothing: every entry up to the last id has been processed,
\* although retries move the last id back (setLastId, asyncEvent.ts:134-141).
PollCursorSound == transport = "polling" => 1..client.lastId \subseteq received

Retrying(j) == \E k \in DOMAIN client.timers : stream[client.timers[k].entry].job = j

\* A job whose event came is not given up while its listener may still come:
\* the retries last MaxRetries * (MaxRetries + 1) / 2 delays, however the
\* counter they share per job is used up by duplicates (asyncEvent.ts:143-167).
AbandonedLate ==
  \A j \in Jobs :
    EventsOf(j) \cap received # {} /\ j \in OwnJobs /\ promise[j] = "asked"
      => Retrying(j) \/ 2 * since[j] >= MaxRetries * (MaxRetries + 1)

\* A registered listener whose event is in the stream still has it coming: in a
\* poll, in a retry, or its data are being fetched.
NotForgotten ==
  transport = "polling" =>
    \A j \in client.listeners :
      EventsOf(j) # {} =>
        \/ client.fetching[j] > 0 \/ Retrying(j)
        \/ \E i \in EventsOf(j) : i > client.lastId
        \/ poll.at = "out" /\ \E i \in EventsOf(j) : i > poll.n

\* Polling goes on only for promises that wait: no listener is left behind.
ListenersArePending ==
  \A j \in client.listeners : promise[j] = "waiting" \/ client.fetching[j] > 0

\* With polling a promise whose job has ended is settled.
Settles ==
  \A j \in OwnJobs :
    (transport = "polling" /\ promise[j] = "waiting" /\ EventsOf(j) # {})
      ~> promise[j] \in Settled

\* Events of jobs nobody here waits for are not processed for ever, although
\* each retry moves the last id back and makes the next poll read them again.
RetriesDieOut == <>[](client.timers = <<>>)

\* asyncEvent.ts:208 "WebSocket not available, falling back to async polling":
\* after the fallback, a promise whose job has ended is settled.
FallbackPolls ==
  \A j \in OwnJobs :
    (ws.at = "gaveup" /\ promise[j] = "waiting" /\ EventsOf(j) # {})
      ~> promise[j] \in Settled
=============================================================================
