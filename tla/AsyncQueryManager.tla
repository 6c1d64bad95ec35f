------------------------- MODULE AsyncQueryManager -------------------------
(***************************************************************************)
(* The server side of an asynchronous chart query: the web app hands the   *)
(* job to Celery (async_query_manager.py submit_*_job), a worker runs the  *)
(* query, caches the result and announces the outcome with update_job      *)
(* (tasks/async_queries.py).  update_job is two XADDs, to the channel's    *)
(* stream and to the global one, and each can fail; the task can meet its  *)
(* soft time limit at any point and the worker can die.                    *)
(***************************************************************************)
EXTENDS Integers, FiniteSets

CONSTANTS
  Jobs,
  AcksLate,     \* CeleryConfig.task_acks_late: a dead worker's task runs again
  MaxXaddFailures, MaxCrashes   \* bounds

ASSUME ManagerAssumption == AcksLate \in BOOLEAN

VARIABLES
  task,      \* task[j]: where its Celery task is, see Stages
  cached,    \* the jobs whose result is in the cache
  refused,   \* history: the jobs whose last result the cache would not take
  scoped, full,   \* events in the channels' streams and in the global stream: a
                  \* set of [job, status, n], n distinguishing repeated ones
  count,     \* count[j]: events of j added to its channel's stream
  xaddFailures, crashes

cache == <<cached, refused>>
vars == <<task, cache, scoped, full, count, xaddFailures, crashes>>

\* "done1" and "done2" are before update_job(DONE)'s XADDs, "error1" and
\* "error2" before update_job(ERROR)'s.
Running == {"running", "done1", "done2", "error1", "error2"}
Over == {"ended", "userless", "timedout", "lost"}
Stages == {"new", "queued"} \cup Running \cup Over
Event == [job : Jobs, status : {"done", "error"}, n : Nat]

TypeOK ==
  /\ task \in [Jobs -> Stages] /\ cached \subseteq Jobs /\ refused \subseteq Jobs
  /\ scoped \subseteq Event /\ full \subseteq Event
  /\ count \in [Jobs -> Nat] /\ xaddFailures \in Nat /\ crashes \in Nat

Init ==
  /\ task = [j \in Jobs |-> "new"] /\ cached = {} /\ refused = {}
  /\ scoped = {} /\ full = {} /\ count = [j \in Jobs |-> 0]
  /\ xaddFailures = 0 /\ crashes = 0

Goes(j, here, there) ==
  /\ task[j] = here
  /\ task' = [task EXCEPT ![j] = there]

-----------------------------------------------------------------------------
\* init_job and delay(); a worker takes the task later.
SubmitJob(j) ==
  /\ Goes(j, "new", "queued")
  /\ UNCHANGED <<cache, scoped, full, count, xaddFailures, crashes>>

StartTask(j) ==
  /\ Goes(j, "queued", "running")
  /\ UNCHANGED <<cache, scoped, full, count, xaddFailures, crashes>>

\* _load_user_from_job_metadata raises (the metadata database fails, a guest token
\* has expired).  It is called outside the try: the task ends and nothing is announced.
StartFails(j) ==
  /\ Goes(j, "queued", "userless")
  /\ UNCHANGED <<cache, scoped, full, count, xaddFailures, crashes>>

\* Mutant: the result is not written before it is announced.
QuerySucceedsUncached(j) ==
  /\ Goes(j, "running", "done1")
  /\ UNCHANGED <<cache, scoped, full, count, xaddFailures, crashes>>

\* It only logs when the cache raises.
set_and_log_cache(j) ==
  \/ cached' = cached \cup {j} /\ refused' = refused \ {j}
  \/ refused' = refused \cup {j} /\ UNCHANGED cached

\* command.run(cache=True), or get_payload, ends in set_and_log_cache; the task
\* goes on whatever came of it.
QuerySucceeds(j) ==
  /\ Goes(j, "running", "done1")
  /\ set_and_log_cache(j)
  /\ UNCHANGED <<scoped, full, count, xaddFailures, crashes>>

\* Mutant: the except clause raises before it announces the error.
QueryFailsSilently(j) ==
  /\ Goes(j, "running", "ended")
  /\ UNCHANGED <<cache, scoped, full, count, xaddFailures, crashes>>

QueryFails(j) ==
  /\ Goes(j, "running", "error1")
  /\ UNCHANGED <<cache, scoped, full, count, xaddFailures, crashes>>

\* Mutant: a failure of the first XADD is passed over.
AddScopedIgnored(j, first, second, status) ==
  /\ Goes(j, first, second)
  /\ UNCHANGED <<cache, scoped, full, count, xaddFailures, crashes>>

\* update_job's first XADD, for the outcome of that stage ...
AddScoped(j, first, second, status) ==
  /\ Goes(j, first, second)
  /\ scoped' = scoped \cup {[job |-> j, status |-> status, n |-> count[j]]}
  /\ count' = [count EXCEPT ![j] = @ + 1]
  /\ UNCHANGED <<cache, full, xaddFailures, crashes>>

\* Mutant: the task goes on to announce ERROR after it announced DONE.
AddFullGoesOn(j, second, status) ==
  /\ Goes(j, second, IF status = "done" THEN "error1" ELSE "ended")
  /\ full' = full \cup {[job |-> j, status |-> status, n |-> count[j] - 1]}
  /\ UNCHANGED <<cache, scoped, count, xaddFailures, crashes>>

\* ... and its second, of the same event.
AddFull(j, second, status) ==
  /\ Goes(j, second, "ended")
  /\ full' = full \cup {[job |-> j, status |-> status, n |-> count[j] - 1]}
  /\ UNCHANGED <<cache, scoped, count, xaddFailures, crashes>>

UpdateJob(j) ==
  \/ AddScoped(j, "done1", "done2", "done") \/ AddFull(j, "done2", "done")
  \/ AddScoped(j, "error1", "error2", "error") \/ AddFull(j, "error2", "error")

\* An XADD raises: while announcing DONE the except clause announces ERROR
\* instead, whichever XADD it was; while announcing ERROR the task fails.
UpdateJobFails(j) ==
  /\ xaddFailures < MaxXaddFailures
  /\ \/ \E stage \in {"done1", "done2"} : Goes(j, stage, "error1")
     \/ \E stage \in {"error1", "error2"} : Goes(j, stage, "ended")
  /\ xaddFailures' = xaddFailures + 1
  /\ UNCHANGED <<cache, scoped, full, count, crashes>>

\* SoftTimeLimitExceeded is logged and raised again, nothing is announced.
SoftTimeLimit(j) ==
  /\ \E stage \in Running : Goes(j, stage, "timedout")
  /\ UNCHANGED <<cache, scoped, full, count, xaddFailures, crashes>>

WorkerDies(j) ==
  /\ crashes < MaxCrashes
  /\ \E stage \in Running : Goes(j, stage, IF AcksLate THEN "queued" ELSE "lost")
  /\ crashes' = crashes + 1
  /\ UNCHANGED <<cache, scoped, full, count, xaddFailures>>

\* Cached results expire; the time between caching and announcing is shorter.
CacheExpires(j) ==
  /\ task[j] \notin {"done1", "done2"} /\ j \in cached
  /\ cached' = cached \ {j}
  /\ UNCHANGED <<task, refused, scoped, full, count, xaddFailures, crashes>>

Next ==
  \E j \in Jobs :
    \/ SubmitJob(j) \/ StartTask(j) \/ StartFails(j)
    \/ QuerySucceeds(j) \/ QueryFails(j) \/ UpdateJob(j) \/ UpdateJobFails(j)
    \/ SoftTimeLimit(j) \/ WorkerDies(j) \/ CacheExpires(j)

\* Workers take queued tasks, queries end and Redis answers.
Fairness ==
  \A j \in Jobs : /\ WF_vars(StartTask(j) \/ StartFails(j))
                  /\ WF_vars(QuerySucceeds(j) \/ QueryFails(j))
                  /\ WF_vars(UpdateJob(j))

Spec == Init /\ [][Next]_vars /\ Fairness
-----------------------------------------------------------------------------
\* What the websocket server can send live, a client that lost it can replay:
\* the global stream holds nothing its channel's stream does not.
ReplayCovers == full \subseteq scoped

\* The event that says done never overtakes the result it points to: it enters
\* a stream only once the result was written to the cache, or refused by it,
\* also when the task runs again (tasks/async_queries.py:95-102).
DoneFollowsCaching ==
  [][\A e \in (scoped' \ scoped) \cup (full' \ full) :
       e.status = "done" => e.job \in cached \cup refused]_vars

\* A job announces one outcome, and only a failed XADD or a task that ran
\* again after its worker died adds one more.
OutcomesAccounted ==
  \A j \in Jobs : count[j] <= 1 + xaddFailures + crashes

Announced(j) == {e \in scoped : e.job = j}

\* A job that was submitted is announced, unless its user could not be loaded, its
\* soft time limit or a dead worker ended it, or Redis failed: the browser waits for
\* ever only then (tasks/async_queries.py:90-115).
EveryJobAnnounced ==
  \A j \in Jobs : task[j] = "queued" ~>
    Announced(j) # {} \/ task[j] \in {"userless", "timedout", "lost"} \/ xaddFailures > 0
=============================================================================
