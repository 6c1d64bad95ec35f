---------------------------- MODULE SqlLab_proofs ----------------------------
(***************************************************************************)
(* Proofs about SqlLab, for every number of blocks, every set of engines   *)
(* and every bound.  The server's steps keep ServerInv and the browser's   *)
(* keep the types; neither touches what the other's part is about, but for *)
(* the two requests the browser answers and sends.                         *)
(***************************************************************************)
EXTENDS SqlLab, TLAPS

NotStarted == execute = "sent" => worker.at = "none"

\* The blocks are counted from 1, and the last one ends the loop.
BlocksLeft ==
  worker.at \in {"none", "queued", "begun", "checking", "cleared", "executing"}
    => worker.block <= Blocks

\* The row says STOPPED from the commit until the worker returns, so that only the
\* block that was cleared before the commit can still begin.
StopSeen ==
  IF stopped
  THEN /\ worker.at \notin {"none", "queued"}
       /\ late <= 1
       /\ worker.at = "cleared" => late = 0
       /\ worker.at \in {"begun", "checking", "cleared", "executing"}
            => row.status = "stopped"
  ELSE late = 0

ServerInv == ServerTypeOK /\ NotStarted /\ BlocksLeft /\ StopSeen

\* Of an async query with stored results: they are there when the row says SUCCESS,
\* and not before its worker returned; a poll reads no less; a tab that shows the
\* query fetches them as soon as it has the key.
RowHasKey ==
  /\ row.key => worker.at = "done" /\ row.status \notin {"none", "pending", "running"}
  /\ row.status = "success" => row.key

PollHasKey ==
  poll.at = "answered" => /\ poll.key => poll.status \notin {"none", "pending", "running"}
                          /\ poll.status = "success" => poll.key

TabFetches ==
  /\ shown \in {"pending", "running", "absent"} /\ mounted => ~ key
  /\ shown = "success" /\ ~ data => key /\ ~ mounted

ResultsInv == mode.async /\ mode.stores => RowHasKey /\ PollHasKey /\ TabFetches

\* Of a query run in the request: its row changes no more once the worker returned,
\* but for a stop and an answer found too large; a poll reads no other results than
\* it has; a tab shows a success without data only until the answer comes.
RowIsSettled ==
  /\ row.key => mode.stores /\ row.status \notin {"none", "pending", "running"}
  /\ row.key \/ row.status = "success" => worker.outcome \in {"success", "failed"}
  /\ worker.outcome # "none" <=> worker.at = "done"
  /\ execute # "submitted" /\ (execute = "answered" => worker.outcome \in {"success", "stopped"})
  /\ execute \in {"error", "over"} => worker.at \in {"none", "done"}

PollIsOld ==
  poll.at = "answered" =>
    /\ poll.key => row.key /\ poll.status \notin {"none", "pending", "running"}
    /\ poll.status = "success" => /\ worker.outcome \in {"success", "failed"}
                                  /\ poll.key = row.key

TabHasAnswer ==
  /\ shown \in {"pending", "running", "absent"} /\ mounted => ~ key
  /\ shown = "success" \/ data => worker.outcome \in {"success", "failed"}
  /\ shown = "success" /\ ~ data /\ row.key => key /\ ~ mounted

NothingToFetch ==
  ~ mode.stores => ~ key /\ shown # "fetching" /\ \A s \in DOMAIN fetches : fetches[s] = 0

AnswerIsTaken ==
  ~ mode.stores /\ execute = "over" /\ ~ data
    => shown \in {"stopped", "failed"} \/ worker.outcome = "stopped"

AnswerInv ==
  ~ mode.async =>
    RowIsSettled /\ PollIsOld /\ TabHasAnswer /\ NothingToFetch /\ AnswerIsTaken

IInv == ClientTypeOK /\ ServerInv
-----------------------------------------------------------------------------
\* A worker's task stays one when it goes on, returns, or ends a block.
LEMMA TaskGoes ==
  ASSUME NEW w \in Task, NEW to \in Steps
  PROVE  [w EXCEPT !.at = to] \in Task
BY DEF Task

LEMMA TaskReturns ==
  ASSUME NEW w \in Task, NEW to \in Steps, NEW out \in Outcomes
  PROVE  [w EXCEPT !.at = to, !.outcome = out] \in Task
BY DEF Task

LEMMA TaskCounts ==
  ASSUME NEW w \in Task, NEW to \in Steps, w.block <= Blocks
  PROVE  [w EXCEPT !.block = @ + 1, !.at = to] \in Task
<1>1. w.block + 1 \in 1..(Blocks + 1)
  BY ExecutionAssumption DEF Task
<1> QED
  BY <1>1 DEF Task

\* A step of the server keeps the types, as long as blocks are left and the
\* blocks begun after a stop are few.
LEMMA ServerKeepsTypes ==
  ASSUME ServerInv, ServerNext
  PROVE  ServerTypeOK'
<1> USE DEF ServerInv, ServerTypeOK
<1>a. worker' \in Task
  <2>1. /\ {"none", "queued", "begun", "checking", "cleared"} \subseteq Steps
        /\ {"executing", "failing", "executed", "done", "dead"} \subseteq Steps
        /\ {"none", "success", "failed", "stopped"} \subseteq Outcomes
    BY DEF Steps, Outcomes
  <2>2. CASE UNCHANGED worker
    BY <2>2
  <2>3. CASE \E to \in Steps : worker' = [worker EXCEPT !.at = to]
    BY <2>3, TaskGoes
  <2>4. CASE \E out \in Outcomes : Return(out)
    <3>1. "done" \in Steps
      BY <2>1
    <3>2. PICK out \in Outcomes : worker' = [worker EXCEPT !.at = "done", !.outcome = out]
      BY <2>4 DEF Return
    <3>3. [worker EXCEPT !.at = "done", !.outcome = out] \in Task
      BY <3>1, TaskReturns
    <3> QED
      BY <3>2, <3>3
  <2>5. CASE BlockSucceeds
    <3>1. worker.block <= Blocks
      BY <2>5 DEF BlockSucceeds, BlocksLeft
    <3> QED
      BY <2>1, <2>5, <3>1, TaskCounts DEF BlockSucceeds, NextBlock
  <2>6. \/ UNCHANGED worker
        \/ \E to \in Steps : worker' = [worker EXCEPT !.at = to]
        \/ \E out \in Outcomes : Return(out)
        \/ BlockSucceeds
    <3>1. ServerNext => \/ UNCHANGED worker
                        \/ Submit \/ SetRunning \/ Connect \/ ExecuteBlock \/ WorkerDies
                        \/ Reject \/ CheckStopped \/ BlockFails \/ handle_query_error
                        \/ Finish \/ FinishFails \/ AnswerTooLarge \/ BlockSucceeds
      BY DEF ServerNext, Execution, CreateQuery, Refuse, AnswerAsync, AnswerSync,
             StopChecks, Cancel, CommitStopped, CursorCancels
    <3>2. Submit \/ SetRunning \/ Connect \/ ExecuteBlock \/ WorkerDies
            => \E to \in Steps : worker' = [worker EXCEPT !.at = to]
      BY <2>1 DEF Submit, SetRunning, Connect, ExecuteBlock, WorkerDies, Worker
    <3>3. Reject \/ handle_query_error \/ Finish \/ FinishFails \/ AnswerTooLarge
            => \E out \in Outcomes : Return(out)
      BY <2>1 DEF Reject, handle_query_error, Finish, FinishFails, AnswerTooLarge
    <3>4. CheckStopped \/ BlockFails
            => \/ \E to \in Steps : worker' = [worker EXCEPT !.at = to]
               \/ \E out \in Outcomes : Return(out)
      BY <2>1 DEF CheckStopped, BlockFails, Worker
    <3> QED
      BY <3>1, <3>2, <3>3, <3>4
  <2> QED
    BY <2>2, <2>3, <2>4, <2>5, <2>6
<1>b. row' \in Row
  BY ZenonT(60) DEF Row, Statuses, ServerNext, Execution, CreateQuery, Refuse, Submit, AnswerAsync,
     AnswerSync, SetRunning, Reject, Connect, CheckStopped, ExecuteBlock, BlockSucceeds,
     BlockFails, handle_query_error, Finish, FinishFails, AnswerTooLarge, StopChecks,
     Cancel, CommitStopped, CursorCancels, WorkerDies
<1>c. late' \in 0..Blocks
  <2>1. late' = late \/ ExecuteBlock
    BY ZenonT(60) DEF ServerNext, Execution, CreateQuery, Refuse, Submit, AnswerAsync,
       AnswerSync, SetRunning, Reject, Connect, CheckStopped, BlockSucceeds,
       BlockFails, handle_query_error, Finish, FinishFails, AnswerTooLarge,
       StopChecks, Cancel, CommitStopped, CursorCancels, WorkerDies
  <2>2. ExecuteBlock => late' = late \/ (late = 0 /\ late' = 1)
    BY DEF StopSeen, ExecuteBlock, Worker
  <2> QED
    BY <2>1, <2>2, ExecutionAssumption
<1>d. (/\ mode \in [async : BOOLEAN, stores : BOOLEAN, engine : Engines]
       /\ execute \in {"sent", "created", "submitted", "answered", "error", "over"}
       /\ killed \in BOOLEAN
       /\ stop \in {"none", "sent", "checked", "cancelled", "ok", "error"}
       /\ stops \in 0..MaxStops
       /\ stopped \in BOOLEAN)'
  BY ZenonT(60) DEF ServerNext, Execution, CreateQuery, Refuse, Submit, AnswerAsync,
     AnswerSync, SetRunning, Reject, Connect, CheckStopped, ExecuteBlock, BlockSucceeds,
     BlockFails, handle_query_error, Finish, FinishFails, AnswerTooLarge, StopChecks,
     Cancel, CommitStopped, CursorCancels, WorkerDies, Stop
<1> QED
  BY <1>a, <1>b, <1>c, <1>d

\* A step of the server keeps the order of its worker's steps, and what a stop means.
LEMMA ServerKeepsOrder ==
  ASSUME ServerInv, ServerNext
  PROVE  (NotStarted /\ BlocksLeft /\ StopSeen)'
<1> USE ExecutionAssumption
    DEF ServerInv, ServerTypeOK, NotStarted, BlocksLeft, StopSeen, Row, Task
<1>1. CASE CreateQuery
  BY <1>1 DEF CreateQuery
<1>2. CASE Refuse
  BY <1>2 DEF Refuse
<1>3. CASE Submit
  BY <1>3 DEF Submit
<1>4. CASE AnswerAsync
  BY <1>4 DEF AnswerAsync
<1>5. CASE AnswerSync
  BY <1>5 DEF AnswerSync
<1>6. CASE SetRunning
  BY <1>6 DEF SetRunning, Worker
<1>7. CASE Reject
  BY <1>7 DEF Reject, Return
<1>8. CASE Connect
  BY <1>8 DEF Connect, Worker
<1>9. CASE CheckStopped
  BY <1>9 DEF CheckStopped, Worker, Return
<1>10. CASE ExecuteBlock
  BY <1>10 DEF ExecuteBlock, Worker
<1>11. CASE BlockSucceeds
  BY <1>11 DEF BlockSucceeds, NextBlock
<1>12. CASE BlockFails
  BY <1>12 DEF BlockFails, Worker, Return
<1>13. CASE handle_query_error
  BY <1>13 DEF handle_query_error, Return
<1>14. CASE Finish
  BY <1>14 DEF Finish, Return
<1>15. CASE FinishFails
  BY <1>15 DEF FinishFails, Return
<1>16. CASE AnswerTooLarge
  BY <1>16 DEF AnswerTooLarge, Return
<1>17. CASE StopChecks
  BY <1>17 DEF StopChecks, Stop
<1>18. CASE Cancel
  BY <1>18 DEF Cancel, Stop
<1>19. CASE CommitStopped
  BY <1>19 DEF CommitStopped, Stop
<1>20. CASE CursorCancels
  BY <1>20 DEF CursorCancels
<1>21. CASE WorkerDies
  BY <1>21 DEF WorkerDies, Worker
<1> QED
  BY <1>1, <1>2, <1>3, <1>4, <1>5, <1>6, <1>7, <1>8, <1>9, <1>10, <1>11,
     <1>12, <1>13, <1>14, <1>15, <1>16, <1>17, <1>18, <1>19, <1>20, <1>21
  DEF ServerNext, Execution

LEMMA InitIInv == Init => IInv
<1> SUFFICES ASSUME Init PROVE IInv
  OBVIOUS
<1> USE ExecutionAssumption, BoundAssumption DEF Init, ServerInit
<1>1. row \in Row /\ worker \in Task
  BY DEF Row, Statuses, Task, Steps, Outcomes
<1>2. ServerTypeOK
  <2>1. stops \in 0..MaxStops /\ late \in 0..Blocks
    OBVIOUS
  <2> QED
    BY ONLY <1>1, <2>1, Init DEF Init, ServerInit, ServerTypeOK
<1>3. ClientTypeOK
  <2>1. upsets \in 0..MaxUpsets
    OBVIOUS
  <2>2. fetches \in [{"stopped", "other"} -> Nat]
    OBVIOUS
  <2>3. poll \in [at : {"idle", "sent", "answered"}, status : Statuses, key : BOOLEAN]
    BY DEF Idle, Statuses
  <2>4. shown \in Shown
    BY DEF Shown, Statuses
  <2> QED
    BY <2>1, <2>2, <2>3, <2>4 DEF ClientTypeOK
<1>4. NotStarted /\ BlocksLeft /\ StopSeen
  BY DEF NotStarted, BlocksLeft, StopSeen
<1> QED
  BY <1>2, <1>3, <1>4 DEF IInv, ServerInv

\* The browser's steps change no more of the server than its two requests.
LEMMA BrowserKeepsServer ==
  ASSUME ServerInv, UNCHANGED server \/ Answers \/ postStopQuery \/ StopAnswered
  PROVE  ServerInv'
<1> USE DEF ServerInv, NotStarted, BlocksLeft, StopSeen, ServerTypeOK, Row, Server
<1>1. CASE UNCHANGED server
  BY <1>1 DEF server
<1>2. CASE Answers
  BY <1>2 DEF Answers, ExecuteAnswered, ExecuteFails
<1>3. CASE postStopQuery
  BY <1>3, ExecutionAssumption DEF postStopQuery
<1>4. CASE StopAnswered
  BY <1>4 DEF StopAnswered
<1> QED
  BY <1>1, <1>2, <1>3, <1>4

LEMMA AlterTypes ==
  ASSUME ClientTypeOK, NEW state \in Shown, NEW newKey \in BOOLEAN, Alter(state, newKey)
  PROVE  shown' \in Shown /\ key' \in BOOLEAN /\ fetches' \in [{"stopped", "other"} -> Nat]
BY DEF ClientTypeOK, Alter, fetchQueryResults, Shown

LEMMA BrowserKeepsTypes ==
  ASSUME IInv, Next
  PROVE  ClientTypeOK'
<1> USE BoundAssumption DEF IInv, ServerInv, ServerTypeOK, ClientTypeOK, Shown, Statuses,
        Row, client
<1>1. CASE ServerNext /\ UNCHANGED client
  BY <1>1
<1>2. CASE ExecuteAnswered
  <2>1. CASE Alter("success", key \/ mode.stores)
    <3>1. "success" \in Shown /\ (key \/ mode.stores) \in BOOLEAN
      OBVIOUS
    <3>2. shown' \in Shown /\ key' \in BOOLEAN /\ fetches' \in [{"stopped", "other"} -> Nat]
      BY <2>1, <3>1, AlterTypes
    <3> QED
      BY ONLY <1>2, <3>2, ClientTypeOK DEF ExecuteAnswered, ClientTypeOK
  <2>2. CASE UNCHANGED <<shown, data, key, fetches>>
    BY ONLY <1>2, <2>2, ClientTypeOK DEF ExecuteAnswered, ClientTypeOK
  <2> QED
    BY <1>2, <2>1, <2>2 DEF ExecuteAnswered
<1>3. CASE ExecuteFails
  BY <1>3 DEF ExecuteFails
<1>4. CASE checkForRefresh
  BY <1>4 DEF checkForRefresh, Idle
<1>5. CASE updated_since
  BY <1>5 DEF updated_since
<1>6. CASE refreshQueries
  <2>1. /\ poll' \in [at : {"idle", "sent", "answered"}, status : Statuses, key : BOOLEAN]
        /\ Refreshed \in Shown /\ poll.key \in BOOLEAN
    BY <1>6 DEF refreshQueries, Refreshed, Idle
  <2>2. CASE Alter(Refreshed, poll.key) /\ UNCHANGED reported
    <3>1. shown' \in Shown /\ key' \in BOOLEAN /\ fetches' \in [{"stopped", "other"} -> Nat]
      BY <2>1, <2>2, AlterTypes
    <3> QED
      BY ONLY <1>6, <2>1, <2>2, <3>1, ClientTypeOK DEF refreshQueries, ClientTypeOK
  <2>3. CASE UNCHANGED <<shown, key, fetches, reported>>
    BY ONLY <1>6, <2>1, <2>3, ClientTypeOK DEF refreshQueries, ClientTypeOK
  <2>4. CASE /\ shown' = "failed" /\ key' \in {key, poll.key} /\ UNCHANGED fetches
             /\ reported' = TRUE
    <3>1. shown' \in Shown /\ key' \in BOOLEAN
      BY <2>1, <2>4
    <3> QED
      BY ONLY <1>6, <2>1, <2>4, <3>1, ClientTypeOK DEF refreshQueries, ClientTypeOK
  <2> QED
    BY <1>6, <2>2, <2>3, <2>4 DEF refreshQueries
<1>7. CASE clearInactiveQueries
  BY <1>7 DEF clearInactiveQueries, ClearInactive, Live, Idle
<1>14. CASE QueryAges
  <2>1. shown' \in Shown
    BY <1>14 DEF QueryAges, ClearInactive
  <2> QED
    BY ONLY <1>14, <2>1, ClientTypeOK DEF QueryAges, ClientTypeOK
<1>8. CASE PollFails
  BY <1>8 DEF PollFails, Idle
<1>9. CASE FetchSucceeds
  BY <1>9 DEF FetchSucceeds
<1>10. CASE FetchFails
  BY <1>10 DEF FetchFails
<1>11. CASE SwitchTab
  BY <1>11 DEF SwitchTab, fetchQueryResults
<1>12. CASE postStopQuery
  BY <1>12 DEF postStopQuery
<1>13. CASE StopAnswered
  <2>1. shown' \in Shown /\ data' \in BOOLEAN
    BY <1>13 DEF StopAnswered
  <2> QED
    BY ONLY <1>13, <2>1, ClientTypeOK DEF StopAnswered, ClientTypeOK
<1> QED
  BY <1>1, <1>2, <1>3, <1>4, <1>5, <1>6, <1>7, <1>8, <1>9, <1>10, <1>11, <1>12, <1>13,
     <1>14
  DEF Next, Answers, Polls, Fetches

LEMMA NextKeepsIInv ==
  ASSUME IInv, [Next]_vars
  PROVE  IInv'
<1>1. CASE UNCHANGED vars
  <2>1. ClientTypeOK'
    BY <1>1 DEF IInv, ClientTypeOK, vars, client
  <2>2. ServerInv'
    BY <1>1, BrowserKeepsServer DEF IInv, vars
  <2> QED
    BY <2>1, <2>2 DEF IInv
<1>2. CASE Next
  <2>1. ClientTypeOK'
    BY <1>2, BrowserKeepsTypes
  <2>2. ServerNext \/ UNCHANGED server \/ Answers \/ postStopQuery \/ StopAnswered
    BY <1>2 DEF Next, Polls, Fetches, PollFails, QueryAges, SwitchTab, checkForRefresh, updated_since,
       refreshQueries, clearInactiveQueries, FetchSucceeds, FetchFails
  <2>3. ServerInv'
    BY <2>2, ServerKeepsTypes, ServerKeepsOrder, BrowserKeepsServer DEF IInv, ServerInv
  <2> QED
    BY <2>1, <2>3 DEF IInv
<1> QED
  BY <1>1, <1>2

-----------------------------------------------------------------------------
LEMMA InitResultsInv == Init => ResultsInv
BY DEF Init, ServerInit, ResultsInv, RowHasKey, PollHasKey, TabFetches, Idle

LEMMA ServerKeepsRowHasKey ==
  ASSUME ServerInv, RowHasKey, mode.async, mode.stores, ServerNext
  PROVE  RowHasKey'
<1> USE DEF ServerInv, ServerTypeOK, NotStarted, RowHasKey, Row, Task
<1>1. CASE CreateQuery \/ Submit \/ AnswerAsync \/ AnswerSync \/ Refuse
  BY <1>1 DEF CreateQuery, Submit, AnswerAsync, AnswerSync, Refuse
<1>2. CASE SetRunning \/ Connect \/ ExecuteBlock
  BY <1>2 DEF SetRunning, Connect, ExecuteBlock, Worker
<1>3. CASE Reject \/ handle_query_error \/ FinishFails \/ AnswerTooLarge
  BY <1>3 DEF Reject, handle_query_error, FinishFails, AnswerTooLarge, Return
<1>4. CASE CheckStopped \/ BlockFails
  <2>1. CASE CheckStopped
    BY <2>1 DEF CheckStopped, Worker, Return
  <2>2. CASE BlockFails
    BY <2>2 DEF BlockFails, Worker, Return
  <2> QED
    BY <1>4, <2>1, <2>2
<1>5. CASE BlockSucceeds
  BY <1>5 DEF BlockSucceeds
<1>8. CASE WorkerDies
  BY <1>8 DEF WorkerDies, Worker
<1>6. CASE Finish
  BY <1>6 DEF Finish, Return
<1>7. CASE StopChecks \/ Cancel \/ CommitStopped \/ CursorCancels
  BY <1>7 DEF StopChecks, Cancel, CommitStopped, CursorCancels
<1> QED
  BY <1>1, <1>2, <1>3, <1>4, <1>5, <1>6, <1>7, <1>8 DEF ServerNext, Execution

\* The mode of a query is fixed, and only the server's steps alter its row.
LEMMA RestOfNext ==
  ASSUME [Next]_vars
  PROVE  mode' = mode /\ (ServerNext \/ UNCHANGED <<row, worker>>)
<1>1. ServerNext => mode' = mode
  BY DEF ServerNext, Execution, CreateQuery, Refuse, Submit, AnswerAsync,
     AnswerSync, SetRunning, Reject, Connect, CheckStopped, ExecuteBlock, BlockSucceeds,
     BlockFails, handle_query_error, Finish, FinishFails, AnswerTooLarge, StopChecks,
     Cancel, CommitStopped, CursorCancels, WorkerDies
<1> QED
  BY <1>1 DEF Next, vars, server, Answers, Polls, Fetches, ExecuteAnswered, ExecuteFails,
     checkForRefresh, updated_since, refreshQueries, clearInactiveQueries, PollFails, QueryAges,
     FetchSucceeds, FetchFails, SwitchTab, postStopQuery, StopAnswered, Server

\* What a poll brings leaves no success behind that has neither results nor a fetch.
LEMMA RefreshKeepsTabFetches ==
  ASSUME ClientTypeOK, PollHasKey, TabFetches, refreshQueries
  PROVE  TabFetches'
<1> USE DEF refreshQueries, TabFetches, PollHasKey, ClientTypeOK
<1>1. CASE shown' = "failed"
  BY <1>1
<1>2. CASE shown \in {"stopped", "failed"} /\ UNCHANGED <<shown, key>>
  BY <1>2
<1>3. CASE shown \notin {"stopped", "failed"} /\ Alter(Refreshed, poll.key)
  <2>1. CASE shown' = "fetching"
    BY <2>1
  <2>2. CASE key' = poll.key /\ shown' = Refreshed /\ ~ (mounted /\ poll.key /\ ~ key)
    BY <1>3, <2>2 DEF Refreshed, Shown, Statuses
  <2> QED
    BY <1>3, <2>1, <2>2 DEF Alter, fetchQueryResults
<1> QED
  BY <1>1, <1>2, <1>3

LEMMA NextKeepsResultsInv ==
  ASSUME IInv, ResultsInv, [Next]_vars
  PROVE  ResultsInv'
<1> SUFFICES ASSUME mode.async, mode.stores
             PROVE  (RowHasKey /\ PollHasKey /\ TabFetches)'
  BY RestOfNext DEF ResultsInv
<1>a. RowHasKey /\ PollHasKey /\ TabFetches
  BY DEF ResultsInv
<1>1. RowHasKey'
  BY <1>a, RestOfNext, ServerKeepsRowHasKey DEF IInv, RowHasKey
<1>2. PollHasKey'
  <2>1. CASE updated_since
    BY <1>a, <2>1 DEF updated_since, RowHasKey, PollHasKey, IInv, ServerInv, ServerTypeOK, Row
  <2>2. CASE poll' = poll \/ poll'.at # "answered"
    BY <1>a, <2>2 DEF PollHasKey
  <2>3. updated_since \/ poll' = poll \/ poll'.at # "answered"
    BY DEF Next, vars, client, Answers, Polls, Fetches, ExecuteAnswered, ExecuteFails,
       checkForRefresh, refreshQueries, clearInactiveQueries, PollFails, QueryAges, Idle,
       FetchSucceeds, FetchFails, SwitchTab, postStopQuery, StopAnswered
  <2> QED
    BY <2>1, <2>2, <2>3
<1>3. TabFetches'
  <2> USE <1>a DEF TabFetches
  <2>1. CASE UNCHANGED vars \/ UNCHANGED client \/ checkForRefresh \/ updated_since \/ PollFails
    BY <2>1 DEF vars, client, checkForRefresh, updated_since, PollFails
  <2>2. CASE Answers
    BY <2>2 DEF Answers, ExecuteAnswered, ExecuteFails
  <2>3. CASE refreshQueries
    BY <2>3, RefreshKeepsTabFetches DEF IInv
  <2>4. CASE clearInactiveQueries \/ QueryAges
    BY <2>4 DEF clearInactiveQueries, QueryAges, ClearInactive, Live
  <2>5. CASE FetchSucceeds \/ FetchFails
    BY <2>5 DEF FetchSucceeds, FetchFails
  <2>6. CASE SwitchTab
    BY <2>6 DEF SwitchTab, fetchQueryResults
  <2>7. CASE StopAnswered
    BY <2>7 DEF StopAnswered
  <2> QED
    BY <2>1, <2>2, <2>3, <2>4, <2>5, <2>6, <2>7 DEF Next, Polls, Fetches, postStopQuery
<1> QED
  BY <1>1, <1>2, <1>3

-----------------------------------------------------------------------------
LEMMA InitAnswerInv == Init => AnswerInv
BY DEF Init, ServerInit, AnswerInv, RowIsSettled, PollIsOld, TabHasAnswer, NothingToFetch,
   AnswerIsTaken, Idle

\* What a step of the server leaves as it was of a query run in the request: once its
\* worker returned, its results, and its outcome unless the answer is too large.
LEMMA ServerSettles ==
  ASSUME ServerInv, RowIsSettled, ~ mode.async, ServerNext
  PROVE  /\ RowIsSettled'
         /\ worker.outcome # "none" => row'.key = row.key
         /\ worker.outcome \in {"success", "failed"} => worker'.outcome \in {"success", "failed"}
         /\ worker.outcome = "stopped" => worker'.outcome = "stopped"
         /\ execute' = "over" => execute = "over"
         /\ execute = "over" => UNCHANGED worker
<1> USE DEF ServerInv, ServerTypeOK, NotStarted, RowIsSettled, Row, Task
<1>1. CASE CreateQuery \/ Submit \/ AnswerAsync \/ AnswerSync \/ Refuse
  BY <1>1 DEF CreateQuery, Submit, AnswerAsync, AnswerSync, Refuse, Outcomes
<1>2. CASE SetRunning \/ Connect \/ ExecuteBlock \/ WorkerDies
  BY <1>2 DEF SetRunning, Connect, ExecuteBlock, WorkerDies, Worker
<1>3. CASE Reject \/ handle_query_error \/ FinishFails \/ AnswerTooLarge
  BY <1>3 DEF Reject, handle_query_error, FinishFails, AnswerTooLarge, Return
<1>4. CASE CheckStopped \/ BlockFails
  <2>1. CASE CheckStopped
    BY <2>1 DEF CheckStopped, Worker, Return
  <2>2. CASE BlockFails
    BY <2>2 DEF BlockFails, Worker, Return
  <2> QED
    BY <1>4, <2>1, <2>2
<1>5. CASE BlockSucceeds
  BY <1>5 DEF BlockSucceeds, NextBlock
<1>6. CASE Finish
  <2>1. PICK written \in {TRUE, FALSE} :
          (written => mode.stores) /\ row' = [row EXCEPT !.status = "success", !.key = written]
    BY <1>6 DEF Finish
  <2>2. /\ worker.at = "executed" /\ worker' = [worker EXCEPT !.at = "done", !.outcome = "success"]
        /\ UNCHANGED <<mode, execute>>
    BY <1>6 DEF Finish, Return
  <2> QED
    BY <2>1, <2>2
<1>7. CASE StopChecks \/ Cancel \/ CommitStopped \/ CursorCancels
  BY <1>7 DEF StopChecks, Cancel, CommitStopped, CursorCancels
<1> QED
  BY <1>1, <1>2, <1>3, <1>4, <1>5, <1>6, <1>7 DEF ServerNext, Execution

\* The polls of a query run in the request.
LEMMA RefreshKeepsAnswer ==
  ASSUME ClientTypeOK, RowIsSettled, PollIsOld, TabHasAnswer, NothingToFetch, AnswerIsTaken,
         refreshQueries
  PROVE  (TabHasAnswer /\ NothingToFetch /\ AnswerIsTaken)'
<1> USE DEF refreshQueries, RowIsSettled, PollIsOld, TabHasAnswer, NothingToFetch,
        AnswerIsTaken, ClientTypeOK
<1>0. UNCHANGED <<mode, row, worker, execute>>
  BY DEF server
<1>1. CASE shown' = "failed" /\ UNCHANGED fetches
  <2>1. key' \in {key, poll.key} /\ UNCHANGED <<data, mounted>>
    BY <1>1 DEF Alter, fetchQueryResults
  <2> QED
    BY ONLY <1>0, <1>1, <2>1, PollIsOld, RowIsSettled, TabHasAnswer, NothingToFetch,
            poll.at = "answered"
    DEF PollIsOld, RowIsSettled, TabHasAnswer, NothingToFetch, AnswerIsTaken
<1>2. CASE shown \in {"stopped", "failed"} /\ UNCHANGED <<shown, key, fetches>>
  BY <1>0, <1>2
<1>3. CASE shown \notin {"stopped", "failed"} /\ Alter(Refreshed, poll.key)
  <2>1. CASE mounted /\ poll.key /\ ~ key
    <3>1. shown' = "fetching" /\ mode.stores
      BY <1>3, <2>1 DEF Alter, fetchQueryResults
    <3> QED
      BY <1>0, <3>1
  <2>2. CASE ~ (mounted /\ poll.key /\ ~ key)
    <3>1. key' = poll.key /\ shown' = Refreshed /\ UNCHANGED fetches
      BY <1>3, <2>2 DEF Alter
    <3>2. Refreshed = IF poll.status = "success" /\ shown \in {"fetching", "success", "running"}
                      THEN shown ELSE poll.status
      BY DEF Refreshed
    <3>3. TabHasAnswer'
      BY <1>0, <1>3, <2>2, <3>1, <3>2 DEF Shown, Statuses
    <3>4. NothingToFetch'
      BY <1>0, <1>3, <3>1, <3>2 DEF Statuses
    <3>5. AnswerIsTaken'
      BY <1>0, <1>3, <3>1, <3>2
    <3> QED
      BY <3>3, <3>4, <3>5
  <2> QED
    BY <2>1, <2>2
<1> QED
  BY <1>1, <1>2, <1>3

LEMMA NextKeepsAnswerInv ==
  ASSUME IInv, AnswerInv, [Next]_vars
  PROVE  AnswerInv'
<1> SUFFICES ASSUME ~ mode.async
             PROVE  (RowIsSettled /\ PollIsOld /\ TabHasAnswer /\ NothingToFetch
                     /\ AnswerIsTaken)'
  BY RestOfNext DEF AnswerInv
<1>a. ClientTypeOK /\ ServerInv /\ mode' = mode
  BY RestOfNext DEF IInv
<1>b. RowIsSettled /\ PollIsOld /\ TabHasAnswer /\ NothingToFetch /\ AnswerIsTaken
  BY DEF AnswerInv
<1> USE <1>a, <1>b DEF RowIsSettled, PollIsOld, TabHasAnswer, NothingToFetch, AnswerIsTaken
<1>1. CASE ServerNext /\ UNCHANGED client
  BY <1>1, ServerSettles DEF client
<1>2. CASE ExecuteAnswered
  <2>1. CASE worker.outcome = "success"
    <3>1. Alter("success", key \/ mode.stores) /\ data' = TRUE
      BY <1>2, <2>1 DEF ExecuteAnswered
    <3> QED
      BY <1>2, <2>1, <3>1 DEF ExecuteAnswered, Server, Alter, fetchQueryResults, ClientTypeOK
  <2>2. CASE worker.outcome = "stopped"
    BY <1>2, <2>2 DEF ExecuteAnswered, Server
  <2> QED
    BY <1>2, <2>1, <2>2 DEF ExecuteAnswered
<1>3. CASE ExecuteFails
  BY <1>3 DEF ExecuteFails, Server
<1>4. CASE checkForRefresh \/ PollFails \/ UNCHANGED vars
  BY <1>4 DEF checkForRefresh, PollFails, vars, client, server, Idle
<1>5. CASE updated_since
  BY <1>5 DEF updated_since, server, ServerInv, ServerTypeOK, Row
<1>6. CASE refreshQueries
  <2>1. (TabHasAnswer /\ NothingToFetch /\ AnswerIsTaken)'
    BY <1>6, RefreshKeepsAnswer
  <2>2. (RowIsSettled /\ PollIsOld)'
    BY <1>6 DEF refreshQueries, server, Idle
  <2> QED
    BY <2>1, <2>2
<1>7. CASE clearInactiveQueries \/ QueryAges
  <2>1. /\ ClearInactive \/ UNCHANGED shown
        /\ poll' = poll \/ poll'.at # "answered"
        /\ UNCHANGED <<mode, row, execute, worker, data, key, mounted, fetches>>
    BY <1>7 DEF clearInactiveQueries, QueryAges, server, Idle
  <2>2. TabHasAnswer'
    BY <2>1 DEF ClearInactive, Live
  <2>3. NothingToFetch' /\ AnswerIsTaken'
    BY <2>1 DEF ClearInactive, Live
  <2>4. RowIsSettled' /\ PollIsOld'
    BY <2>1
  <2> QED
    BY <2>2, <2>3, <2>4
<1>8. CASE FetchSucceeds
  BY <1>8 DEF FetchSucceeds, server, ClientTypeOK
<1>9. CASE FetchFails
  BY <1>9 DEF FetchFails, server, ClientTypeOK
<1>10. CASE SwitchTab
  BY <1>10 DEF SwitchTab, fetchQueryResults, server
<1>11. CASE postStopQuery
  BY <1>11 DEF postStopQuery, client, Server
<1>12. CASE StopAnswered
  BY <1>12 DEF StopAnswered, Server
<1> QED
  BY <1>1, <1>2, <1>3, <1>4, <1>5, <1>6, <1>7, <1>8, <1>9, <1>10, <1>11, <1>12
  DEF Next, Answers, Polls, Fetches

-----------------------------------------------------------------------------
\* The types of TypeOK, the order of the worker's steps, and what a committed stop
\* means for them, hold in every reachable state (sql_lab.py:373-669).
THEOREM Invariance == Spec => []IInv
<1> QED
  BY InitIInv, NextKeepsIInv, PTL DEF Spec

\* Every variable of the server and of the browser keeps its type.
THEOREM TypeCorrect == Spec => []TypeOK
<1>1. IInv => TypeOK
  BY DEF IInv, ServerInv, TypeOK
<1> QED
  BY <1>1, Invariance, PTL

\* However many blocks the script has, whatever the engine and however often the
\* user stops it: once a stop is committed while the worker runs the query, at most
\* the block it had been cleared for is begun (sql_lab.py:471-475).
THEOREM StopsAreHonoured == Spec => []AtMostOneMore
<1>1. IInv => AtMostOneMore
  BY DEF IInv, ServerInv, StopSeen, AtMostOneMore
<1> QED
  BY <1>1, Invariance, PTL

\* However polls, fetches, stops and changes of tab interleave, an async query with
\* stored results is never shown as done without them
\* (SqlLab/reducers/sqlLab.js:684-741, components/ResultSet/index.tsx:266-274).
THEOREM SuccessIsShown == Spec => []SuccessHasResults
<1>1. ResultsInv => SuccessHasResults
  BY DEF ResultsInv, TabFetches, SuccessHasResults
<1>2. Spec => []ResultsInv
  BY InitResultsInv, NextKeepsResultsInv, Invariance, PTL DEF Spec
<1> QED
  BY <1>1, <1>2, PTL

\* A query that ran in the request and is shown as done has its data once that was
\* answered, however late polls, stops and fetches come in between, unless results
\* that should be stored were not (SqlLab/reducers/sqlLab.js:684-741).
THEOREM AnswerIsShown == Spec => []AnswerHasResults
<1>1. AnswerInv => AnswerHasResults
  BY DEF AnswerInv, RowIsSettled, TabHasAnswer, AnswerIsTaken, AnswerHasResults
<1>2. Spec => []AnswerInv
  BY InitAnswerInv, NextKeepsAnswerInv, Invariance, PTL DEF Spec
<1> QED
  BY <1>1, <1>2, PTL

=============================================================================
