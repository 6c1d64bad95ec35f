------------------------------- MODULE SqlLab -------------------------------
(***************************************************************************)
(* The browser's side of the same query (superset-frontend/src/SqlLab):    *)
(* the entry of the query in the store, altered by the answer of the       *)
(* execute request, by the answers of the poll for updated queries         *)
(* (QueryAutoRefresh), by the fetch of the stored results (ResultSet), and *)
(* by the answer of the stop request, in whatever order they come.         *)
(***************************************************************************)
EXTENDS SqlExecution

CONSTANT MaxUpsets   \* bound on polls that fail and changes of tab

ASSUME BoundAssumption == MaxUpsets \in Nat

VARIABLES
  shown,     \* state of the query in the store, "absent" if it is not there
  data,      \* the store has its results
  key,       \* the store has its resultsKey
  mounted,   \* its tab is the active one: a ResultSet shows the query
  poll,      \* GET /query/updated_since: at, and what it read of the row
  fetches,   \* GET /sqllab/results in flight, of a query shown as stopped or not
  reported,  \* failedQueries has the query
  aged,      \* it was started MAX_QUERY_AGE_TO_POLL ago, six hours
  upsets     \* polls that failed and changes of tab

client == <<shown, data, key, mounted, poll, fetches, reported, aged, upsets>>
vars == <<server, client>>

Live == {"pending", "running"}
\* Mutant: a running query is not polled for.
isQueryRunningPending == shown \in {"pending", "fetching"}

isQueryRunning == shown \in Live \cup {"fetching"}
Idle == [at |-> "idle", status |-> "none", key |-> FALSE]

Shown == (Statuses \ {"none"}) \cup {"absent", "fetching"}

ClientTypeOK ==
  /\ shown \in Shown
  /\ data \in BOOLEAN /\ key \in BOOLEAN /\ mounted \in BOOLEAN 
  /\ reported \in BOOLEAN /\ aged \in BOOLEAN
  /\ poll \in [at : {"idle", "sent", "answered"}, status : Statuses, key : BOOLEAN]
  /\ fetches \in [{"stopped", "other"} -> Nat]
  /\ upsets \in 0..MaxUpsets

TypeOK == ServerTypeOK /\ ClientTypeOK

\* START_QUERY.
Init ==
  /\ ServerInit
  /\ shown = IF mode.async THEN "pending" ELSE "running"
  /\ data = FALSE /\ key = FALSE /\ mounted = TRUE /\ poll = Idle
  /\ fetches = [s \in {"stopped", "other"} |-> 0]
  /\ reported = FALSE /\ aged = FALSE /\ upsets = 0

-----------------------------------------------------------------------------
\* REQUEST_QUERY_RESULTS and its request, of a query whose state was s.
fetchQueryResults(s) ==
  /\ shown' = "fetching"
  /\ fetches' = [fetches EXCEPT ![IF s = "stopped" THEN s ELSE "other"] = @ + 1]

\* The query gets this state and this key; a ResultSet fetches by a new key.
Alter(state, newKey) ==
  /\ key' = newKey
  /\ IF mounted /\ newKey /\ ~ key
     THEN fetchQueryResults(state)
     ELSE shown' = state /\ UNCHANGED fetches

Server(e, s) ==
  /\ execute' = e /\ stop' = s
  /\ UNCHANGED <<mode, row, worker, killed, stopped, late>>

\* Mutant: an answer is ignored when the query no longer runs.
ExecuteAnsweredInTime ==
  /\ execute = "answered" /\ Server("over", stop)
  /\ IF worker.outcome = "success" /\ ~ mode.async /\ shown \in Live
     THEN data' = TRUE /\ Alter("success", key \/ mode.stores)
     ELSE UNCHANGED <<shown, data, key, fetches>>
  /\ UNCHANGED <<stops, mounted, poll, reported, aged, upsets>>

\* The answer has a resultsKey even if the results could not be stored.
ExecuteAnswered ==
  /\ execute = "answered" /\ Server("over", stop)
  /\ IF worker.outcome = "success" /\ ~ mode.async
     THEN data' = TRUE /\ Alter("success", key \/ mode.stores)
     ELSE UNCHANGED <<shown, data, key, fetches>>
  /\ UNCHANGED <<stops, mounted, poll, reported, aged, upsets>>

\* An error, or no answer: the request may still be being served.
ExecuteFails ==
  /\ execute \in {"answered", "error"} /\ Server("over", stop)
  /\ shown' = "failed"
  /\ UNCHANGED <<stops, data, key, mounted, poll, fetches, reported, aged, upsets>>

-----------------------------------------------------------------------------
checkForRefresh ==
  /\ isQueryRunning /\ ~ aged /\ poll.at = "idle"
  /\ poll' = [Idle EXCEPT !.at = "sent"]
  /\ UNCHANGED <<server, shown, data, key, mounted, fetches, reported, aged, upsets>>

updated_since ==
  /\ poll.at = "sent"
  /\ poll' = [at |-> "answered", status |-> row.status, key |-> row.key]
  /\ UNCHANGED <<server, shown, data, key, mounted, fetches, reported, aged, upsets>>

PollFails ==
  /\ poll.at # "idle" /\ upsets < MaxUpsets
  /\ poll' = Idle /\ upsets' = upsets + 1
  /\ UNCHANGED <<server, shown, data, key, mounted, fetches, reported, aged>>

Refreshed ==
  IF poll.status = "success" /\ shown \in {"fetching", "success", "running"}
  THEN shown ELSE poll.status

\* REFRESH_QUERIES; then QUERY_FAILED, once, for a database with async queries.
refreshQueries ==
  /\ poll.at = "answered" /\ poll.status # "none"
  /\ poll' = Idle
  /\ IF mode.async /\ poll.status = "failed" /\ ~ reported
     THEN /\ reported' = TRUE /\ shown' = "failed"
          /\ key' = IF shown \in {"stopped", "failed"} THEN key ELSE poll.key
          /\ UNCHANGED fetches
     ELSE /\ IF shown \in {"stopped", "failed"}
             THEN UNCHANGED <<shown, key, fetches>>
             ELSE Alter(Refreshed, poll.key)
          /\ UNCHANGED reported
  /\ UNCHANGED <<server, data, mounted, aged, upsets>>

\* CLEAR_INACTIVE_QUERIES: a query that was started some seconds ago and made no
\* progress is dropped, and one with results gets their state.
ClearInactive ==
  shown' \in {IF key /\ data /\ shown # "absent" THEN "success" ELSE shown}
             \cup (IF shown \in Live THEN {"absent"} ELSE {})

\* The poll found no row yet.
clearInactiveQueries ==
  /\ poll.at = "answered" /\ poll.status = "none"
  /\ poll' = Idle /\ ClearInactive
  /\ UNCHANGED <<server, data, key, mounted, fetches, reported, aged, upsets>>

\* Six hours have passed: the interval polls no more.  It clears the inactive
\* queries once (cleanInactiveRequestRef), and had done so before this query was
\* started unless the tabs had just been opened.
QueryAges ==
  /\ isQueryRunning /\ ~ aged /\ aged' = TRUE
  /\ UNCHANGED shown \/ ClearInactive
  /\ UNCHANGED <<server, data, key, mounted, poll, fetches, reported, upsets>>

-----------------------------------------------------------------------------
\* Its query is the one of the request: what QUERY_SUCCESS and QUERY_FAILED ask
\* of the state is about the state at the time, and QUERY_SUCCESS asks for
\* QueryState.STOPPED, which no state is.
FetchSucceeds ==
  \E s \in DOMAIN fetches :
    /\ fetches[s] > 0 /\ row.key
    /\ data' = TRUE /\ key' = TRUE
    /\ IF mounted /\ ~ key
       THEN /\ shown' = "fetching"
            /\ fetches' = [fetches EXCEPT ![s] = @ - 1, !["other"] = @ + 1]
       ELSE shown' = "success" /\ fetches' = [fetches EXCEPT ![s] = @ - 1]
    /\ UNCHANGED <<server, mounted, poll, reported, aged, upsets>>

FetchFails ==
  \E s \in DOMAIN fetches :
    /\ fetches[s] > 0 /\ fetches' = [fetches EXCEPT ![s] = @ - 1]
    /\ shown' = IF s = "stopped" THEN shown ELSE "failed"
    /\ UNCHANGED <<server, data, key, mounted, poll, reported, aged, upsets>>

\* Another tab is shown, or this one again.
SwitchTab ==
  /\ upsets < MaxUpsets /\ upsets' = upsets + 1
  /\ mounted' = ~ mounted
  /\ IF ~ mounted /\ key THEN fetchQueryResults(shown) ELSE UNCHANGED <<shown, fetches>>
  /\ UNCHANGED <<server, data, key, poll, reported, aged>>

postStopQuery ==
  /\ shown \in Live /\ mounted /\ stop = "none" /\ stops < MaxStops
  /\ Server(execute, "sent") /\ stops' = stops + 1
  /\ UNCHANGED client

\* STOP_QUERY, or a toast: refused, or the answer was lost.
StopAnswered ==
  /\ stop \in {"ok", "error"} /\ Server(execute, "none")
  /\ \/ stop = "ok" /\ shown' = "stopped" /\ data' = FALSE
     \/ UNCHANGED <<shown, data>>
  /\ UNCHANGED <<stops, key, mounted, poll, fetches, reported, aged, upsets>>

Answers == ExecuteAnswered \/ ExecuteFails
Polls == checkForRefresh \/ updated_since \/ refreshQueries \/ clearInactiveQueries
Fetches == FetchSucceeds \/ FetchFails

Next ==
  \/ ServerNext /\ UNCHANGED client
  \/ Answers \/ Polls \/ PollFails \/ QueryAges \/ Fetches
  \/ SwitchTab \/ postStopQuery \/ StopAnswered

Spec ==
  /\ Init /\ [][Next]_vars
  /\ WF_vars(Execution /\ UNCHANGED client) /\ WF_vars(Answers)
  /\ WF_vars(Polls) /\ WF_vars(Fetches)

-----------------------------------------------------------------------------
\* An async query that its tab shows as done has its results: polls that come late
\* or early and fetches that overtake each other never leave an empty success
\* behind.  (The results of an async CTAS are not stored.)
SuccessHasResults == mode.async /\ mode.stores /\ shown = "success" /\ mounted => data

\* So does one that ran in the request, once that was answered.  (Results that were
\* to be stored and could not be are lost if a stop came late.)
AnswerHasResults ==
  /\ ~ mode.async /\ execute = "over" /\ row.key = mode.stores
  /\ shown = "success" /\ mounted
  => data

\* A stop that is committed once the worker runs the query is seen before the
\* next block: of the script's statements at most one more is begun.
AtMostOneMore == stopped => late <= 1

\* An async query whose results are stored does not run in its tab forever, unless
\* its worker dies or it is six hours old, when its tab asks no more: what becomes
\* of it then, the soft time limit of its task included, is not shown
\* (QueryAutoRefresh/index.tsx:54-63).
Concludes ==
  mode.async /\ mode.stores /\ shown \in Live
    ~> shown \in {"success", "failed", "stopped", "absent"} \/ ~ mounted
       \/ worker.at = "dead" \/ aged

\* What the comment on QUERY_SUCCESS says: a query that succeeds shortly after it
\* was stopped stays stopped.
StoppedStays == [][stopped /\ shown = "stopped" => shown' # "success"]_vars
=============================================================================
