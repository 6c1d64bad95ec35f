----------------------------- MODULE SqlExecution -----------------------------
(***************************************************************************)
(* The server's side of one SQL Lab query (superset: commands/sql_lab,     *)
(* sqllab/sql_json_executer, sql_lab.py, daos/query.py): the execute       *)
(* request creates its row and runs it, in the request or on a Celery      *)
(* worker; the worker runs its statements block by block; a stop request   *)
(* cancels the running statement at the engine and sets STOPPED.  The three*)
(* share nothing but the row, each in transactions of its own.             *)
(***************************************************************************)
EXTENDS Integers

CONSTANTS
  Blocks,     \* statements of the script, run one by one
  Engines,    \* how the database engine is told to cancel: by a "key" the worker
              \* stores, an "implicit" check of the row by the cursor, or "none"
  MaxStops    \* bound

ASSUME ExecutionAssumption == Blocks \in Nat \ {0} /\ MaxStops \in Nat

VARIABLES
  mode,     \* fixed: run async, results stored (not a CTAS), the engine
  row,      \* the row of the query in the metadata database, see Row
  execute,  \* POST /sqllab/execute
  worker,   \* at: its step; block: the statement it is at; outcome: what it returned
  killed,   \* the engine cancelled the statement that is running
  stop,     \* POST /query/stop
  stops,
  stopped,  \* history: a stop was committed after RUNNING was
  late      \* history: blocks started since

server == <<mode, row, execute, worker, killed, stop, stops, stopped, late>>

Statuses == {"none", "pending", "running", "success", "failed", "stopped"}
Row == [status : Statuses, key : BOOLEAN, cancelKey : BOOLEAN]   \* key: results_key
Steps == {"none", "queued", "begun", "checking", "cleared", "executing", "failing",
          "executed", "done", "dead"}
Outcomes == {"none", "success", "failed", "stopped"}
Task == [at : Steps, block : 1..(Blocks + 1), outcome : Outcomes]

ServerTypeOK ==
  /\ mode \in [async : BOOLEAN, stores : BOOLEAN, engine : Engines]
  /\ row \in Row
  /\ execute \in {"sent", "created", "submitted", "answered", "error", "over"}
  /\ worker \in Task
  /\ killed \in BOOLEAN
  /\ stop \in {"none", "sent", "checked", "cancelled", "ok", "error"}
  /\ stops \in 0..MaxStops
  /\ stopped \in BOOLEAN /\ late \in 0..Blocks

ServerInit ==
  /\ mode \in [async : BOOLEAN, stores : BOOLEAN, engine : Engines]
  /\ row = [status |-> "none", key |-> FALSE, cancelKey |-> FALSE]
  /\ execute = "sent"
  /\ worker = [at |-> "none", block |-> 1, outcome |-> "none"]
  /\ killed = FALSE /\ stop = "none" /\ stops = 0 /\ stopped = FALSE /\ late = 0

-----------------------------------------------------------------------------
\* _save_new_query commits the row, so that a worker can read it.
CreateQuery ==
  /\ execute = "sent"
  /\ execute' = "created" /\ row' = [row EXCEPT !.status = "pending"]
  /\ UNCHANGED <<mode, worker, killed, stop, stops, stopped, late>>

\* Refused before there is a row, or after: access, rendering, the broker.  The
\* FAILED that is then set is rolled back with the transaction of run().
Refuse ==
  /\ execute \in {"sent", "created"} /\ worker.at = "none"
  /\ execute' = "error"
  /\ UNCHANGED <<mode, row, worker, killed, stop, stops, stopped, late>>

\* The Celery task, or the call of the same function in the request.
Submit ==
  /\ execute = "created" /\ worker.at = "none"
  /\ execute' = IF mode.async THEN "submitted" ELSE "created"
  /\ worker' = [worker EXCEPT !.at = "queued"]
  /\ UNCHANGED <<mode, row, killed, stop, stops, stopped, late>>

\* save_metadata rewrites extra_json from what the request read before it
\* submitted the task: a cancel key stored meanwhile is lost.
AnswerAsync ==
  /\ execute = "submitted"
  /\ execute' = "answered" /\ row' = [row EXCEPT !.cancelKey = FALSE]
  /\ UNCHANGED <<mode, worker, killed, stop, stops, stopped, late>>

AnswerSync ==
  /\ execute = "created" /\ worker.at = "done"
  /\ execute' = IF worker.outcome = "failed" THEN "error" ELSE "answered"
  /\ UNCHANGED <<mode, row, worker, killed, stop, stops, stopped, late>>

-----------------------------------------------------------------------------
Worker(from, to) == worker.at = from /\ worker' = [worker EXCEPT !.at = to]

Return(outcome) == worker' = [worker EXCEPT !.at = "done", !.outcome = outcome]

\* Whatever the row's status was by now.
SetRunning ==
  /\ Worker("queued", "begun")
  /\ row' = [row EXCEPT !.status = "running"]
  /\ UNCHANGED <<mode, execute, killed, stop, stops, stopped, late>>

\* The script is refused, or there is no connection (get_sql_results).
Reject ==
  /\ worker.at = "begun" /\ Return("failed")
  /\ row' = [row EXCEPT !.status = "failed"]
  /\ UNCHANGED <<mode, execute, killed, stop, stops, stopped, late>>

Connect ==
  /\ Worker("begun", "checking")
  /\ row' = [row EXCEPT !.cancelKey = @ \/ mode.engine = "key"]
  /\ UNCHANGED <<mode, execute, killed, stop, stops, stopped, late>>

\* Mutant: whether the query was stopped is looked at before the first block only.
CheckStoppedOnce ==
  /\ worker.at = "checking"
  /\ IF row.status = "stopped" /\ worker.block = 1
     THEN Return("stopped") ELSE Worker("checking", "cleared")
  /\ UNCHANGED <<mode, row, execute, killed, stop, stops, stopped, late>>

CheckStopped ==
  /\ worker.at = "checking"
  /\ IF row.status = "stopped" THEN Return("stopped") ELSE Worker("checking", "cleared")
  /\ UNCHANGED <<mode, row, execute, killed, stop, stops, stopped, late>>

ExecuteBlock ==
  /\ Worker("cleared", "executing")
  /\ killed' = FALSE
  /\ late' = IF stopped THEN late + 1 ELSE late
  /\ UNCHANGED <<mode, row, execute, stop, stops, stopped>>

NextBlock(last) ==
  worker' = [worker EXCEPT !.block = @ + 1,
                           !.at = IF worker.block = last THEN "executed" ELSE "checking"]

\* Mutant: the loop over the blocks goes one too far.
BlockSucceedsLate ==
  /\ worker.at = "executing" /\ ~ killed /\ NextBlock(Blocks + 1)
  /\ UNCHANGED <<mode, row, execute, killed, stop, stops, stopped, late>>

BlockSucceeds ==
  /\ worker.at = "executing" /\ ~ killed /\ NextBlock(Blocks)
  /\ UNCHANGED <<mode, row, execute, killed, stop, stops, stopped, late>>

\* An error of the statement or its kill, upon which the row is read again; the
\* soft time limit of a Celery task does without.
BlockFails ==
  /\ worker.at = "executing"
  /\ \/ row.status = "stopped" /\ Return("stopped")
     \/ (row.status # "stopped" \/ mode.async) /\ Worker("executing", "failing")
  /\ UNCHANGED <<mode, row, execute, killed, stop, stops, stopped, late>>

handle_query_error ==
  /\ worker.at = "failing" /\ Return("failed")
  /\ row' = [row EXCEPT !.status = "failed"]
  /\ UNCHANGED <<mode, execute, killed, stop, stops, stopped, late>>

\* Mutant: a failed write of the results is not told from a done one.
FinishUnstored ==
  /\ worker.at = "executed" /\ Return("success")
  /\ \E written \in IF mode.stores THEN BOOLEAN ELSE {FALSE} :
       row' = [row EXCEPT !.status = "success", !.key = written]
  /\ UNCHANGED <<mode, execute, killed, stop, stops, stopped, late>>

\* One commit for SUCCESS and results_key.  Only a query run in the request does
\* without the stored results.
Finish ==
  /\ worker.at = "executed" /\ Return("success")
  /\ \E written \in IF mode.stores THEN {TRUE, mode.async} ELSE {FALSE} :
       row' = [row EXCEPT !.status = "success", !.key = written]
  /\ UNCHANGED <<mode, execute, killed, stop, stops, stopped, late>>

\* The results are too large, or not written and nobody else has them.
FinishFails ==
  /\ worker.at = "executed" /\ mode.stores /\ Return("failed")
  /\ row' = [row EXCEPT !.status = "failed"]
  /\ UNCHANGED <<mode, execute, killed, stop, stops, stopped, late>>

\* The answer itself is too large, found when the row says SUCCESS.
AnswerTooLarge ==
  /\ worker.at = "done" /\ worker.outcome = "success"
  /\ ~ mode.async /\ execute = "created"
  /\ Return("failed") /\ row' = [row EXCEPT !.status = "failed"]
  /\ UNCHANGED <<mode, execute, killed, stop, stops, stopped, late>>

\* Celery kills the worker of a task past its hard limit, or it dies; nobody looks
\* after its row.
WorkerDies ==
  /\ mode.async
  /\ \E at \in {"begun", "checking", "cleared", "executing", "failing", "executed"} :
       Worker(at, "dead")
  /\ UNCHANGED <<mode, row, execute, killed, stop, stops, stopped, late>>

-----------------------------------------------------------------------------
Stop(from, to) == stop = from /\ stop' = to

\* QueryDAO.stop_query of a query that is complete does nothing and says OK.
StopChecks ==
  /\ \/ row.status \in {"failed", "success"} /\ Stop("sent", "ok")
     \/ row.status \in {"pending", "running", "stopped"} /\ Stop("sent", "checked")
     \/ row.status = "none" /\ Stop("sent", "error")
  /\ UNCHANGED <<mode, row, execute, worker, killed, stops, stopped, late>>

\* cancel_query: the statement that is running at the engine, if one is.
Cancel ==
  /\ \/ mode.engine = "implicit" /\ Stop("checked", "cancelled") /\ UNCHANGED killed
     \/ /\ mode.engine = "key" /\ row.cancelKey /\ Stop("checked", "cancelled")
        /\ killed' = (killed \/ worker.at = "executing")
     \/ mode.engine # "implicit" /\ Stop("checked", "error") /\ UNCHANGED killed
  /\ UNCHANGED <<mode, row, execute, worker, stops, stopped, late>>

\* Committed with the log entry of the request; the status is not read again.
CommitStopped ==
  /\ Stop("cancelled", "ok")
  /\ row' = [row EXCEPT !.status = "stopped"]
  /\ stopped' = (stopped \/ worker.at \notin {"none", "queued"})
  /\ UNCHANGED <<mode, execute, worker, killed, stops, late>>

\* handle_cursor of an engine with implicit cancel finds the row stopped.
CursorCancels ==
  /\ mode.engine = "implicit" /\ row.status = "stopped"
  /\ worker.at = "executing" /\ ~ killed /\ killed' = TRUE
  /\ UNCHANGED <<mode, row, execute, worker, stop, stops, stopped, late>>

Execution ==
  \/ CreateQuery \/ Submit \/ AnswerAsync \/ AnswerSync
  \/ SetRunning \/ Connect \/ CheckStopped \/ ExecuteBlock \/ BlockSucceeds
  \/ BlockFails \/ handle_query_error \/ Finish \/ FinishFails
  \/ CursorCancels

ServerNext ==
  \/ Execution \/ Refuse \/ Reject \/ AnswerTooLarge \/ WorkerDies
  \/ StopChecks \/ Cancel \/ CommitStopped
=============================================================================
