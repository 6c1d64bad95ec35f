---------------------- MODULE AsyncQueryManager_proofs ----------------------
(***************************************************************************)
(* The invariants of AsyncQueryManager for any set of jobs and any number  *)
(* of failed XADDs and dead workers.                                       *)
(***************************************************************************)
EXTENDS AsyncQueryManager, TLAPS

\* Between the two XADDs the event is in its channel's stream, under the
\* number the second XADD repeats.
SecondRepeatsFirst ==
  \A j \in Jobs :
    /\ task[j] = "done2" =>
         count[j] > 0 /\ [job |-> j, status |-> "done", n |-> count[j] - 1] \in scoped
    /\ task[j] = "error2" =>
         count[j] > 0 /\ [job |-> j, status |-> "error", n |-> count[j] - 1] \in scoped

\* A task about to announce DONE has cached its result, or tried to.
CachedBeforeAnnounced ==
  \A j \in Jobs : task[j] \in {"done1", "done2"} => j \in cached \cup refused

\* The event a task may still add counts as one.
Pending(j) == IF task[j] \in {"done2", "error2"} \cup Over THEN 0 ELSE 1
Allowance == \A j \in Jobs : count[j] + Pending(j) <= 1 + xaddFailures + crashes

IInv ==
  /\ TypeOK /\ ReplayCovers /\ SecondRepeatsFirst
  /\ CachedBeforeAnnounced /\ Allowance

-----------------------------------------------------------------------------
\* The first XADD of update_job, for the outcome a stage announces.
LEMMA AddScopedStep ==
  ASSUME IInv, NEW j \in Jobs, NEW first, NEW second, NEW status,
         AddScoped(j, first, second, status),
         \/ first = "done1" /\ second = "done2" /\ status = "done"
         \/ first = "error1" /\ second = "error2" /\ status = "error"
  PROVE  IInv'
<1> USE DEF IInv, TypeOK, Stages, Running, Over, Goes, AddScoped, cache
<1>1. TypeOK'
  BY DEF Event
<1>2. ReplayCovers'
  BY DEF ReplayCovers
<1>3. SecondRepeatsFirst'
  <2> SUFFICES ASSUME NEW k \in Jobs
               PROVE  /\ task'[k] = "done2" => count'[k] > 0
                           /\ [job |-> k, status |-> "done", n |-> count'[k] - 1] \in scoped'
                      /\ task'[k] = "error2" => count'[k] > 0
                           /\ [job |-> k, status |-> "error", n |-> count'[k] - 1] \in scoped'
    BY DEF SecondRepeatsFirst
  <2>1. CASE k = j
    <3>1. count'[k] = count[k] + 1 /\ count'[k] > 0 /\ count'[k] - 1 = count[k]
      BY <2>1
    <3> QED BY <2>1, <3>1
  <2>2. CASE k # j
    BY <2>2 DEF SecondRepeatsFirst
  <2> QED BY <2>1, <2>2
<1>4. CachedBeforeAnnounced'
  BY DEF CachedBeforeAnnounced, cache
<1>5. Allowance'
  BY DEF Allowance, Pending
<1> QED BY <1>1, <1>2, <1>3, <1>4, <1>5 DEF IInv

\* The second XADD repeats an event of the channel's stream.
LEMMA AddFullStep ==
  ASSUME IInv, NEW j \in Jobs, NEW second, NEW status, AddFull(j, second, status),
         \/ second = "done2" /\ status = "done"
         \/ second = "error2" /\ status = "error"
  PROVE  IInv'
<1> USE DEF IInv, TypeOK, Stages, Running, Over, Goes, AddFull, cache
<1> DEFINE event == [job |-> j, status |-> status, n |-> count[j] - 1]
<1>1. event \in scoped
  BY DEF SecondRepeatsFirst
<1>2. ReplayCovers'
  BY <1>1 DEF ReplayCovers
<1>3. TypeOK'
  BY <1>1
<1>4. SecondRepeatsFirst' /\ CachedBeforeAnnounced'
  BY DEF SecondRepeatsFirst, CachedBeforeAnnounced, cache
<1>5. Allowance'
  BY DEF Allowance, Pending
<1> QED BY <1>2, <1>3, <1>4, <1>5 DEF IInv

\* An action that adds nothing to a stream, moving one task.
LEMMA QuietStep ==
  ASSUME IInv, NEW j \in Jobs,
         \/ SubmitJob(j) \/ StartTask(j) \/ StartFails(j)
         \/ QuerySucceeds(j) \/ QueryFails(j) \/ UpdateJobFails(j) \/ SoftTimeLimit(j) \/ WorkerDies(j) \/ CacheExpires(j)
  PROVE  IInv'
<1> USE DEF IInv, TypeOK, Stages, Running, Over, Goes, SubmitJob, StartTask, StartFails,
    QuerySucceeds, set_and_log_cache, QueryFails, UpdateJobFails, SoftTimeLimit, WorkerDies, CacheExpires,
    cache
<1>1. TypeOK'
  OBVIOUS
<1>2. ReplayCovers'
  BY DEF ReplayCovers
<1>3. SecondRepeatsFirst'
  BY DEF SecondRepeatsFirst
<1>4. CachedBeforeAnnounced'
  BY DEF CachedBeforeAnnounced
<1>5. Allowance'
  BY DEF Allowance, Pending
<1> QED BY <1>1, <1>2, <1>3, <1>4, <1>5 DEF IInv

\* IInv holds in every reachable state: the argument of the theorems below.
LEMMA InductiveInvariant == Spec => []IInv
<1>1. Init => IInv
  <2> SUFFICES ASSUME Init PROVE IInv
    OBVIOUS
  <2> USE DEF Init
  <2>1. TypeOK
    BY DEF TypeOK, Stages
  <2>2. ReplayCovers /\ SecondRepeatsFirst /\ CachedBeforeAnnounced
    BY DEF ReplayCovers, SecondRepeatsFirst, CachedBeforeAnnounced
  <2>3. Allowance
    BY DEF Allowance, Pending, Over
  <2> QED BY <2>1, <2>2, <2>3 DEF IInv
<1>2. IInv /\ [Next]_vars => IInv'
  <2> SUFFICES ASSUME IInv, [Next]_vars PROVE IInv'
    OBVIOUS
  <2>1. CASE UNCHANGED vars
    BY <2>1 DEF vars, cache, IInv, TypeOK, ReplayCovers, SecondRepeatsFirst,
       CachedBeforeAnnounced, Allowance, Pending
  <2>2. ASSUME NEW j \in Jobs, UpdateJob(j) PROVE IInv'
    <3>1. CASE AddScoped(j, "done1", "done2", "done")
      BY <3>1, AddScopedStep
    <3>2. CASE AddFull(j, "done2", "done")
      BY <3>2, AddFullStep
    <3>3. CASE AddScoped(j, "error1", "error2", "error")
      BY <3>3, AddScopedStep
    <3>4. CASE AddFull(j, "error2", "error")
      BY <3>4, AddFullStep
    <3> QED BY <2>2, <3>1, <3>2, <3>3, <3>4 DEF UpdateJob
  <2> QED BY <2>1, <2>2, QuietStep DEF Next
<1> QED BY <1>1, <1>2, PTL DEF Spec

-----------------------------------------------------------------------------
\* Stages, streams and counters keep their types (tasks/async_queries.py).
THEOREM TypeCorrect == Spec => []TypeOK
<1>1. IInv => TypeOK
  BY DEF IInv
<1> QED BY <1>1, InductiveInvariant, PTL

\* Whatever fails between update_job's two XADDs, the global stream never holds
\* an event that its channel's stream lacks (async_query_manager.py update_job).
THEOREM ReplayAlwaysCovers == Spec => []ReplayCovers
<1>1. IInv => ReplayCovers
  BY DEF IInv
<1> QED BY <1>1, InductiveInvariant, PTL

\* No step adds a done event to a stream before its result was written, or
\* refused, through failed XADDs, dead workers and tasks that run again
\* (tasks/async_queries.py).
THEOREM DoneAlwaysFollowsCaching == Spec => DoneFollowsCaching
<1> DEFINE Follows == \A e \in (scoped' \ scoped) \cup (full' \ full) :
                        e.status = "done" => e.job \in cached \cup refused
<1>1. IInv /\ [Next]_vars => [Follows]_vars
  <2> SUFFICES ASSUME IInv, Next PROVE Follows
    BY DEF vars
  <2>1. ASSUME NEW j \in Jobs, UpdateJob(j) PROVE Follows
    BY <2>1 DEF UpdateJob, AddScoped, AddFull, Goes, IInv, CachedBeforeAnnounced
  <2>2. ASSUME NEW j \in Jobs,
               SubmitJob(j) \/ StartTask(j) \/ StartFails(j) \/ QuerySucceeds(j) \/ QueryFails(j)
               \/ UpdateJobFails(j) \/ SoftTimeLimit(j) \/ WorkerDies(j) \/ CacheExpires(j)
        PROVE  Follows
    BY <2>2 DEF SubmitJob, StartTask, StartFails, QuerySucceeds, set_and_log_cache, QueryFails, UpdateJobFails,
       SoftTimeLimit, WorkerDies, CacheExpires
  <2> QED BY <2>1, <2>2 DEF Next
<1> QED BY <1>1, InductiveInvariant, PTL DEF Spec, DoneFollowsCaching

\* Every announcement beyond a job's first is paid for by a failed XADD or a
\* dead worker (the except clauses of tasks/async_queries.py).
THEOREM OutcomesAreAccounted == Spec => []OutcomesAccounted
<1>1. IInv => OutcomesAccounted
  BY DEF IInv, TypeOK, Allowance, Pending, OutcomesAccounted
<1> QED BY <1>1, InductiveInvariant, PTL
=============================================================================
