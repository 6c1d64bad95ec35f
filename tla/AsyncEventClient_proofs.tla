---------------------- MODULE AsyncEventClient_proofs ----------------------
(***************************************************************************)
(* Proofs about AsyncEventClient, for every set of jobs, either transport, *)
(* and every delay and bound.                                              *)
(***************************************************************************)
EXTENDS AsyncEventClient, SequenceTheorems, WellFoundedInduction,
        TLAPS

\* The entries that have a retry coming, and whether a job has one.
Entries(c) == {c.timers[k].entry : k \in DOMAIN c.timers}
HasTimer(c, j) == \E k \in DOMAIN c.timers : stream[c.timers[k].entry].job = j

-----------------------------------------------------------------------------
LEMMA Least ==
  ASSUME NEW S \in SUBSET Nat, S # {}
  PROVE  \E m \in S : \A n \in S : m <= n
<1> DEFINE R == OpToRel(<, Nat)
<1>1. IsWellFoundedOn(R, Nat)
  BY NatLessThanWellFounded
<1>2. PICK m \in S : \A n \in S : <<n, m>> \notin R
  <2> HIDE DEF R
  <2> QED
    BY <1>1, WFMin
<1>3. \A x, y \in Nat : x < y => <<x, y>> \in R
  BY DEF OpToRel
<1>4. ASSUME NEW n \in S PROVE m <= n
  <2> HIDE DEF R
  <2>1. m \in Nat /\ n \in Nat
    OBVIOUS
  <2>2. ~ (n < m)
    BY <1>2, <1>3, <2>1
  <2> QED
    BY <2>1, <2>2
<1> QED
  BY <1>4

\* Induction, for a set of naturals.
LEMMA Induction ==
  ASSUME NEW S, 0 \in S, \A n \in Nat : n \in S => n + 1 \in S
  PROVE  Nat \subseteq S
<1> SUFFICES ASSUME Nat \ S # {} PROVE FALSE
  OBVIOUS
<1>1. PICK m \in Nat \ S : \A n \in Nat \ S : m <= n
  BY Least
<1>2. m # 0 /\ m - 1 \in Nat /\ m - 1 < m /\ (m - 1) + 1 = m
  BY <1>1
<1>3. m - 1 \in S
  BY <1>1, <1>2
<1> QED
  BY <1>1, <1>2, <1>3

IterOf(g, c, es, D) ==
  g = [s \in SUBSET D |->
         IF s = {} THEN c ELSE ProcessEvent(g[s \ {Max(s)}], es[Max(s)])]

LEMMA FoldIsIter ==
  ASSUME NEW c, NEW es
  PROVE  FoldLeft(ProcessEvent, c, es) = (CHOOSE g : IterOf(g, c, es, DOMAIN es))[DOMAIN es]
BY DEF FoldLeft, MapThenFoldSet, IterOf

LEMMA MaxIsTop ==
  ASSUME NEW m \in Nat, NEW s \in SUBSET (1..m), m \in s
  PROVE  Max(s) = m
<1>1. \A x \in s : x \in Nat /\ x <= m
  OBVIOUS
<1>2. \A y \in s : m >= y
  BY <1>1
<1>3. \A x \in s : (\A y \in s : x >= y) => x = m
  BY <1>1
<1> QED
  BY <1>2, <1>3 DEF Max

\* The functions that the fold over the first m elements is defined by.
LEMMA IterExtends ==
  ASSUME NEW c, NEW es, NEW m \in Nat, NEW g, IterOf(g, c, es, 1..m)
  PROVE  \E h : IterOf(h, c, es, 1..(m + 1))
<1> DEFINE D == SUBSET (1..(m + 1))
           h == [s \in D |-> IF m + 1 \in s THEN ProcessEvent(g[s \ {m + 1}], es[m + 1])
                             ELSE g[s]]
<1>1. \A s \in D : m + 1 \notin s => s \in SUBSET (1..m)
  OBVIOUS
<1>2. \A s \in D : m + 1 \in s => s \ {m + 1} \in SUBSET (1..m)
  OBVIOUS
<1>3. ASSUME NEW s \in D
      PROVE  h[s] = IF s = {} THEN c ELSE ProcessEvent(h[s \ {Max(s)}], es[Max(s)])
  <2>1. CASE m + 1 \in s
    <3>1. Max(s) = m + 1
      BY <2>1, MaxIsTop
    <3>2. h[s \ {m + 1}] = g[s \ {m + 1}]
      OBVIOUS
    <3> QED
      BY <2>1, <3>1, <3>2
  <2>2. CASE m + 1 \notin s
    <3>1. h[s] = g[s]
      BY <2>2
    <3>2. g[s] = IF s = {} THEN c ELSE ProcessEvent(g[s \ {Max(s)}], es[Max(s)])
      BY <1>1, <2>2 DEF IterOf
    <3>3. h[s \ {Max(s)}] = g[s \ {Max(s)}]
      BY <2>2
    <3> QED
      BY <3>1, <3>2, <3>3
  <2> QED
    BY <2>1, <2>2
<1>4. h = [s \in D |-> h[s]]
  OBVIOUS
<1> HIDE DEF h
<1>5. h = [s \in D |-> IF s = {} THEN c ELSE ProcessEvent(h[s \ {Max(s)}], es[Max(s)])]
  BY <1>3, <1>4
<1> QED
  BY <1>5 DEF IterOf

LEMMA IterExists ==
  ASSUME NEW c, NEW es
  PROVE  \A m \in Nat : \E g : IterOf(g, c, es, 1..m)
<1> DEFINE S == {m \in Nat : \E g : IterOf(g, c, es, 1..m)}
<1>1. 0 \in S
  <2>1. SUBSET (1..0) = {{}}
    <3>1. 1..0 = {}
      OBVIOUS
    <3> QED
      BY <3>1
  <2>2. IterOf([s \in {{}} |-> c], c, es, 1..0)
    BY <2>1 DEF IterOf
  <2> QED
    BY <2>2
<1>2. \A m \in Nat : m \in S => m + 1 \in S
  BY IterExtends
<1> HIDE DEF S
<1>3. Nat \subseteq S
  BY <1>1, <1>2, Induction
<1> QED
  BY <1>3 DEF S

\* A fold goes through states, one for each element.
Run(run, c, es) ==
  run[0] = c /\ \A k \in 1..Len(es) : run[k] = ProcessEvent(run[k - 1], es[k])

LEMMA FoldRuns ==
  ASSUME NEW c, NEW es, Len(es) \in Nat, DOMAIN es = 1..Len(es)
  PROVE  \E run : Run(run, c, es) /\ FoldLeft(ProcessEvent, c, es) = run[Len(es)]
<1> DEFINE n == Len(es)
           g == CHOOSE f : IterOf(f, c, es, 1..n)
           run == [k \in 0..n |-> g[1..k]]
<1>1. IterOf(g, c, es, 1..n)
  BY IterExists
<1>2. FoldLeft(ProcessEvent, c, es) = g[1..n]
  BY FoldIsIter
<1> HIDE DEF g
<1>3. ASSUME NEW s \in SUBSET (1..n)
      PROVE  g[s] = IF s = {} THEN c ELSE ProcessEvent(g[s \ {Max(s)}], es[Max(s)])
  BY <1>1 DEF IterOf
<1>4. run[0] = c
  <2>1. 1..0 = {} /\ {} \in SUBSET (1..n) /\ 0 \in 0..n
    OBVIOUS
  <2>2. run[0] = g[{}]
    BY <2>1
  <2> QED
    BY <1>3, <2>1, <2>2
<1>5. ASSUME NEW k \in 1..n
      PROVE  run[k] = ProcessEvent(run[k - 1], es[k])
  <2>1. 1..k \in SUBSET (1..n) /\ 1..k # {} /\ k \in Nat /\ k \in 1..k
    <3>1. k \in Nat /\ k \in 1..k /\ k <= n
      BY <1>5
    <3>2. \A i \in 1..k : i \in 1..n
      BY <3>1
    <3> QED
      BY <3>1, <3>2
  <2>2. Max(1..k) = k
    BY <2>1, MaxIsTop
  <2>3. (1..k) \ {k} = 1..(k - 1)
    BY <2>1
  <2>4. k \in 0..n /\ k - 1 \in 0..n
    OBVIOUS
  <2>5. g[1..k] = ProcessEvent(g[(1..k) \ {Max(1..k)}], es[Max(1..k)])
    BY <1>3, <2>1
  <2> QED
    BY <2>2, <2>3, <2>4, <2>5
<1>6. run[n] = g[1..n]
  OBVIOUS
<1> HIDE DEF run
<1> QED
  BY <1>2, <1>4, <1>5, <1>6 DEF Run

-----------------------------------------------------------------------------
(***************************************************************************)
(* What one event does to the client, field by field.                      *)
(***************************************************************************)
StreamOK == stream \in Seq([job : Jobs, status : Status])

Takes(c, d, j) ==
  /\ j \in c.listeners
  /\ d.listeners = c.listeners /\ d.failed = c.failed /\ d.timers = c.timers
  /\ d.fetching = [c.fetching EXCEPT ![j] = @ + 1]
  /\ d.retries = [c.retries EXCEPT ![j] = 0]

Rejects(c, d, j) ==
  /\ j \in c.listeners
  /\ d.listeners = c.listeners \ {j} /\ d.failed = c.failed \cup {j}
  /\ d.timers = c.timers /\ d.fetching = c.fetching
  /\ d.retries = [c.retries EXCEPT ![j] = 0]

Delays(c, d, j, i) ==
  /\ j \notin c.listeners /\ c.retries[j] < MaxRetries
  /\ d.listeners = c.listeners /\ d.failed = c.failed /\ d.fetching = c.fetching
  /\ d.timers = Append(c.timers, [entry |-> i, due |-> c.retries[j] + 1])
  /\ d.retries = [c.retries EXCEPT ![j] = @ + 1]

GivesUp(c, d, j) ==
  /\ j \notin c.listeners /\ c.retries[j] >= MaxRetries
  /\ d.listeners = c.listeners /\ d.failed = c.failed /\ d.fetching = c.fetching
  /\ d.timers = c.timers
  /\ d.retries = [c.retries EXCEPT ![j] = 0]

LEMMA ClientFields ==
  ASSUME NEW c \in Client
  PROVE  /\ c.listeners \in SUBSET OwnJobs /\ c.failed \in SUBSET OwnJobs
         /\ c.fetching \in [OwnJobs -> Nat] /\ c.retries \in [Jobs -> 0..MaxRetries]
         /\ c.timers \in Seq([entry : Nat, due : Nat]) /\ c.lastId \in Nat
         /\ c = [listeners |-> c.listeners, fetching |-> c.fetching, failed |-> c.failed,
                 retries |-> c.retries, timers |-> c.timers, lastId |-> c.lastId]
BY DEF Client

\* An entry of the stream.
LEMMA StreamEntry ==
  ASSUME StreamOK, NEW i \in DOMAIN stream
  PROVE  /\ i \in Nat /\ i \in 1..Len(stream) /\ Len(stream) \in Nat
         /\ stream[i].job \in Jobs /\ stream[i].status \in Status
<1> DEFINE E == [job : Jobs, status : Status]
<1>1. stream \in Seq(E)
  BY DEF StreamOK
<1> HIDE DEF E
<1>2. Len(stream) \in Nat /\ DOMAIN stream = 1..Len(stream)
  BY <1>1
<1>3. i \in 1..Len(stream) /\ i \in Nat
  BY <1>2
<1>4. stream[i] \in E
  BY <1>1, <1>3, ElementOfSeq
<1> QED
  BY <1>2, <1>3, <1>4 DEF E

\* The client is a record: ProcessEvent on its fields.
LEMMA EventRecord ==
  ASSUME NEW c \in Client, NEW i, NEW j, j = stream[i].job
  PROVE  /\ j \in c.listeners /\ stream[i].status = "done" =>
              ProcessEvent(c, i) =
                [listeners |-> c.listeners, fetching |-> [c.fetching EXCEPT ![j] = @ + 1],
                 failed |-> c.failed, retries |-> [c.retries EXCEPT ![j] = 0],
                 timers |-> c.timers, lastId |-> i]
         /\ j \in c.listeners /\ stream[i].status # "done" =>
              ProcessEvent(c, i) =
                [listeners |-> c.listeners \ {j}, fetching |-> c.fetching,
                 failed |-> c.failed \cup {j}, retries |-> [c.retries EXCEPT ![j] = 0],
                 timers |-> c.timers, lastId |-> i]
         /\ j \notin c.listeners /\ c.retries[j] < MaxRetries =>
              ProcessEvent(c, i) =
                [listeners |-> c.listeners, fetching |-> c.fetching, failed |-> c.failed,
                 retries |-> [c.retries EXCEPT ![j] = @ + 1],
                 timers |-> Append(c.timers, [entry |-> i, due |-> c.retries[j] + 1]),
                 lastId |-> i]
         /\ j \notin c.listeners /\ ~ (c.retries[j] < MaxRetries) =>
              ProcessEvent(c, i) =
                [listeners |-> c.listeners, fetching |-> c.fetching, failed |-> c.failed,
                 retries |-> [c.retries EXCEPT ![j] = 0], timers |-> c.timers, lastId |-> i]
<1> DEFINE l == c.listeners
           f == c.fetching
           x == c.failed
           r == c.retries
           t == c.timers
           n == c.lastId
           d == ProcessEvent(c, i)
           call == CallListener(c, j, stream[i].status)
           sr == ScheduleRetry(c, i, j)
           r2 == [r EXCEPT ![j] = @ + 1]
           t2 == Append(t, [entry |-> i, due |-> r[j] + 1])
<1>0. c = [listeners |-> l, fetching |-> f, failed |-> x,
           retries |-> r, timers |-> t, lastId |-> n]
  BY ClientFields
<1>3. ASSUME j \notin l
      PROVE  d = [sr EXCEPT !.lastId = i]
  BY <1>3, Zenon DEF ProcessEvent
<1>4. ASSUME j \notin l, r[j] < MaxRetries
      PROVE  sr = [listeners |-> l, fetching |-> f, failed |-> x,
                   retries |-> r2, timers |-> t2, lastId |-> n]
  BY <1>0, <1>4 DEF ScheduleRetry
<1>1. ASSUME j \in l, stream[i].status = "done"
      PROVE  d = [listeners |-> l, fetching |-> [f EXCEPT ![j] = @ + 1], failed |-> x,
                  retries |-> [r EXCEPT ![j] = 0], timers |-> t, lastId |-> i]
  <2>1. call = [listeners |-> l, fetching |-> [f EXCEPT ![j] = @ + 1], failed |-> x,
                retries |-> r, timers |-> t, lastId |-> n]
    BY <1>0, <1>1 DEF CallListener
  <2>2. d = [[call EXCEPT !.retries[j] = 0] EXCEPT !.lastId = i]
    BY <1>1, Zenon DEF ProcessEvent
  <2> HIDE DEF call, d, l, f, x, r, t, n
  <2> QED
    BY <2>1, <2>2
<1>2. ASSUME j \in l, stream[i].status # "done"
      PROVE  d = [listeners |-> l \ {j}, fetching |-> f, failed |-> x \cup {j},
                  retries |-> [r EXCEPT ![j] = 0], timers |-> t, lastId |-> i]
  <2>1. call = [listeners |-> l \ {j}, fetching |-> f, failed |-> x \cup {j},
                retries |-> r, timers |-> t, lastId |-> n]
    BY <1>0, <1>2 DEF CallListener
  <2>2. d = [[call EXCEPT !.retries[j] = 0] EXCEPT !.lastId = i]
    BY <1>2, Zenon DEF ProcessEvent
  <2> HIDE DEF call, d, l, f, x, r, t, n
  <2> QED
    BY <2>1, <2>2
<1>5. ASSUME j \notin l, ~ (r[j] < MaxRetries)
      PROVE  sr = [listeners |-> l, fetching |-> f, failed |-> x,
                   retries |-> [r EXCEPT ![j] = 0], timers |-> t, lastId |-> n]
  BY <1>0, <1>5 DEF ScheduleRetry
<1>6. ASSUME j \notin l, r[j] < MaxRetries
      PROVE  d = [listeners |-> l, fetching |-> f, failed |-> x,
                  retries |-> r2, timers |-> t2, lastId |-> i]
  <2> HIDE DEF d, sr, l, f, x, r, t, n, r2, t2
  <2> QED
    BY <1>3, <1>4, <1>6
<1>7. ASSUME j \notin l, ~ (r[j] < MaxRetries)
      PROVE  d = [listeners |-> l, fetching |-> f, failed |-> x,
                  retries |-> [r EXCEPT ![j] = 0], timers |-> t, lastId |-> i]
  <2> HIDE DEF d, sr, l, f, x, r, t, n
  <2> QED
    BY <1>3, <1>5, <1>7
<1> QED
  BY <1>1, <1>2, <1>6, <1>7, Zenon

LEMMA EventEffect ==
  ASSUME NEW c \in Client, NEW i \in DOMAIN stream, StreamOK,
         NEW j, j = stream[i].job, NEW d, d = ProcessEvent(c, i)
  PROVE  /\ d \in Client /\ d.lastId = i
         /\ Takes(c, d, j) \/ Rejects(c, d, j) \/ Delays(c, d, j, i) \/ GivesUp(c, d, j)
<1> DEFINE
           r0 == [c.retries EXCEPT ![j] = 0]
           r1 == [c.retries EXCEPT ![j] = @ + 1]
           f1 == [c.fetching EXCEPT ![j] = @ + 1]
           t1 == Append(c.timers, [entry |-> i, due |-> c.retries[j] + 1])
<1>1. /\ c.listeners \in SUBSET OwnJobs /\ c.failed \in SUBSET OwnJobs
      /\ c.fetching \in [OwnJobs -> Nat] /\ c.retries \in [Jobs -> 0..MaxRetries]
      /\ c.timers \in Seq([entry : Nat, due : Nat]) /\ c.lastId \in Nat
      /\ c = [listeners |-> c.listeners, fetching |-> c.fetching, failed |-> c.failed,
              retries |-> c.retries, timers |-> c.timers, lastId |-> c.lastId]
  BY ClientFields
<1>e. /\ j \in c.listeners /\ stream[i].status = "done" =>
           d = [listeners |-> c.listeners, fetching |-> f1, failed |-> c.failed,
                retries |-> r0, timers |-> c.timers, lastId |-> i]
      /\ j \in c.listeners /\ stream[i].status # "done" =>
           d = [listeners |-> c.listeners \ {j}, fetching |-> c.fetching,
                failed |-> c.failed \cup {j}, retries |-> r0, timers |-> c.timers,
                lastId |-> i]
      /\ j \notin c.listeners /\ c.retries[j] < MaxRetries =>
           d = [listeners |-> c.listeners, fetching |-> c.fetching, failed |-> c.failed,
                retries |-> r1, timers |-> t1, lastId |-> i]
      /\ j \notin c.listeners /\ ~ (c.retries[j] < MaxRetries) =>
           d = [listeners |-> c.listeners, fetching |-> c.fetching, failed |-> c.failed,
                retries |-> r0, timers |-> c.timers, lastId |-> i]
  BY EventRecord, ZenonT(60)
<1>2. j \in Jobs /\ i \in Nat /\ MaxRetries \in Nat /\ c.retries[j] \in 0..MaxRetries
  <2>1. j \in Jobs /\ i \in Nat
    BY StreamEntry
  <2>2. MaxRetries \in Nat
    BY ClientAssumption
  <2> QED
    BY <1>1, <2>1, <2>2
<1>3. r0 \in [Jobs -> 0..MaxRetries]
  BY <1>1, <1>2
<1>4. j \in c.listeners => f1 \in [OwnJobs -> Nat] /\ j \in OwnJobs
  BY <1>1
<1>5. c.retries[j] < MaxRetries => r1 \in [Jobs -> 0..MaxRetries]
  BY <1>1, <1>2
<1>6. t1 \in Seq([entry : Nat, due : Nat])
  <2>1. [entry |-> i, due |-> c.retries[j] + 1] \in [entry : Nat, due : Nat]
    BY <1>2
  <2> QED
    BY <1>1, <2>1
<1>7. CASE j \in c.listeners /\ stream[i].status = "done"
  <2>1. d = [listeners |-> c.listeners, fetching |-> f1, failed |-> c.failed,
             retries |-> r0, timers |-> c.timers, lastId |-> i]
    BY <1>e, <1>7
  <2> HIDE DEF r0, f1
  <2>2. d \in Client
    BY <1>1, <1>2, <1>3, <1>4, <1>7, <2>1 DEF Client
  <2>3. Takes(c, d, j) /\ d.lastId = i
    BY <1>7, <2>1 DEF Takes, f1, r0
  <2> QED
    BY <2>2, <2>3
<1>8. CASE j \in c.listeners /\ stream[i].status # "done"
  <2>1. d = [listeners |-> c.listeners \ {j}, fetching |-> c.fetching,
             failed |-> c.failed \cup {j}, retries |-> r0, timers |-> c.timers, lastId |-> i]
    BY <1>e, <1>8
  <2> HIDE DEF r0
  <2>2. d \in Client
    BY <1>1, <1>2, <1>3, <1>4, <1>8, <2>1 DEF Client
  <2>3. Rejects(c, d, j) /\ d.lastId = i
    BY <1>8, <2>1 DEF Rejects, r0
  <2> QED
    BY <2>2, <2>3
<1>9. CASE j \notin c.listeners /\ c.retries[j] < MaxRetries
  <2>1. d = [listeners |-> c.listeners, fetching |-> c.fetching, failed |-> c.failed,
             retries |-> r1, timers |-> t1, lastId |-> i]
    BY <1>e, <1>9
  <2> HIDE DEF r1, t1
  <2>2. d \in Client
    BY <1>1, <1>2, <1>5, <1>6, <1>9, <2>1 DEF Client
  <2>3. Delays(c, d, j, i) /\ d.lastId = i
    BY <1>9, <2>1 DEF Delays, r1, t1
  <2> QED
    BY <2>2, <2>3
<1>10. CASE j \notin c.listeners /\ ~ (c.retries[j] < MaxRetries)
  <2>1. d = [listeners |-> c.listeners, fetching |-> c.fetching, failed |-> c.failed,
             retries |-> r0, timers |-> c.timers, lastId |-> i]
    BY <1>e, <1>10
  <2>4. c.retries[j] >= MaxRetries
    BY <1>2, <1>10
  <2> HIDE DEF r0
  <2>2. d \in Client
    BY <1>1, <1>2, <1>3, <2>1 DEF Client
  <2>3. GivesUp(c, d, j) /\ d.lastId = i
    BY <1>10, <2>1, <2>4 DEF GivesUp, r0
  <2> QED
    BY <2>2, <2>3
<1> QED
  BY <1>7, <1>8, <1>9, <1>10
-----------------------------------------------------------------------------
(***************************************************************************)
(* What the first k of the entries es do to the client c, that has become  *)
(* r: listeners only leave, and those that are left and were called have a *)
(* fetch out; every retry that was coming still is.                        *)
(***************************************************************************)
Kept(c, r, es, k) ==
  /\ r \in Client
  /\ r.listeners \subseteq c.listeners /\ r.failed \subseteq c.listeners
  /\ r.listeners \cap r.failed = {}
  /\ \A j \in OwnJobs : r.fetching[j] >= c.fetching[j]
  /\ \A j \in OwnJobs : j \notin c.listeners => r.fetching[j] = c.fetching[j]
  /\ \A l \in 1..k : stream[es[l]].job \in r.listeners => r.fetching[stream[es[l]].job] > 0
  /\ Entries(c) \subseteq Entries(r)
  /\ Entries(r) \subseteq Entries(c) \cup {es[l] : l \in 1..k}
  /\ r.lastId = IF k = 0 THEN c.lastId ELSE es[k]
  /\ \A j \in Jobs : (\A l \in 1..k : stream[es[l]].job # j) => r.retries[j] = c.retries[j]

LEMMA KeptStep ==
  ASSUME StreamOK, NEW c \in Client, NEW r, NEW d, NEW es, NEW k \in Nat,
         es[k + 1] \in DOMAIN stream, Kept(c, r, es, k),
         d = ProcessEvent(r, es[k + 1])
  PROVE  Kept(c, d, es, k + 1)
<1> DEFINE i == es[k + 1]
           j == stream[i].job
<1>1. r \in Client /\ i \in DOMAIN stream
  BY DEF Kept
<1> HIDE DEF i
<1>2. j \in Jobs
  BY <1>1, StreamEntry
<1> HIDE DEF j
<1>3. /\ d \in Client /\ d.lastId = i
      /\ Takes(r, d, j) \/ Rejects(r, d, j) \/ Delays(r, d, j, i) \/ GivesUp(r, d, j)
  BY <1>1, EventEffect DEF i, j
<1>4. /\ d.fetching \in [OwnJobs -> Nat] /\ r.fetching \in [OwnJobs -> Nat]
      /\ c.fetching \in [OwnJobs -> Nat] /\ r.retries \in [Jobs -> 0..MaxRetries]
      /\ r.listeners \subseteq OwnJobs /\ r.timers \in Seq([entry : Nat, due : Nat])
  BY <1>1, <1>3, ClientFields
<1>5. d.listeners \subseteq c.listeners /\ d.failed \subseteq c.listeners
  BY <1>3 DEF Kept, Takes, Rejects, Delays, GivesUp
<1>6. d.listeners \cap d.failed = {}
  BY <1>3 DEF Kept, Takes, Rejects, Delays, GivesUp
<1>7. /\ \A q \in OwnJobs : d.fetching[q] >= r.fetching[q]
      /\ \A q \in OwnJobs : q \notin r.listeners => d.fetching[q] = r.fetching[q]
      /\ j \in d.listeners => d.fetching[j] > 0
  <2>1. CASE Takes(r, d, j)
    BY <2>1, <1>4 DEF Takes
  <2>2. CASE Rejects(r, d, j)
    BY <2>2, <1>4 DEF Rejects
  <2>3. CASE Delays(r, d, j, i)
    BY <2>3, <1>4 DEF Delays
  <2>4. CASE GivesUp(r, d, j)
    BY <2>4, <1>4 DEF GivesUp
  <2> QED
    BY <1>3, <2>1, <2>2, <2>3, <2>4
<1>8. \A q \in OwnJobs : d.fetching[q] >= c.fetching[q]
  <2> TAKE q \in OwnJobs
  <2>1. r.fetching[q] >= c.fetching[q] /\ d.fetching[q] >= r.fetching[q]
    BY <1>7 DEF Kept
  <2>2. r.fetching[q] \in Nat /\ d.fetching[q] \in Nat /\ c.fetching[q] \in Nat
    BY <1>4
  <2> QED
    BY <2>1, <2>2
<1>9. \A q \in OwnJobs : q \notin c.listeners => d.fetching[q] = c.fetching[q]
  BY <1>7 DEF Kept
<1>10. \A l \in 1..(k + 1) : stream[es[l]].job \in d.listeners =>
                             d.fetching[stream[es[l]].job] > 0
  <2> SUFFICES ASSUME NEW l \in 1..(k + 1), stream[es[l]].job \in d.listeners
               PROVE  d.fetching[stream[es[l]].job] > 0
    OBVIOUS
  <2>1. CASE l = k + 1
    BY <1>7, <2>1 DEF i, j
  <2>2. CASE l # k + 1
    <3> DEFINE q == stream[es[l]].job
    <3>1. l \in 1..k
      BY <2>2
    <3>2. q \in d.listeners /\ q \in r.listeners /\ q \in OwnJobs
      BY <1>3, <1>4 DEF Takes, Rejects, Delays, GivesUp
    <3>3. r.fetching[q] > 0
      BY <3>1, <3>2 DEF Kept
    <3> HIDE DEF q
    <3>4. r.fetching[q] \in Nat /\ d.fetching[q] \in Nat /\ d.fetching[q] >= r.fetching[q]
      BY <1>4, <1>7, <3>2
    <3>5. d.fetching[q] > 0
      BY <3>3, <3>4
    <3> QED
      BY <3>5 DEF q
  <2> QED
    BY <2>1, <2>2
<1>11. Entries(r) \subseteq Entries(d) /\ Entries(d) \subseteq Entries(r) \cup {i}
  <2>1. CASE d.timers = r.timers
    BY <2>1 DEF Entries
  <2>2. CASE Delays(r, d, j, i)
    <3> DEFINE t == [entry |-> i, due |-> r.retries[j] + 1]
               n == Len(r.timers)
    <3>1. d.timers = Append(r.timers, t) /\ t.entry = i
      BY <2>2 DEF Delays
    <3> HIDE DEF t
    <3>2. /\ DOMAIN d.timers = 1..(n + 1) /\ n \in Nat /\ DOMAIN r.timers = 1..n
          /\ \A m \in 1..n : d.timers[m] = r.timers[m]
          /\ d.timers[n + 1] = t
      BY <1>4, <3>1
    <3> HIDE DEF n
    <3>3. \A m \in 1..(n + 1) : m \in 1..n \/ m = n + 1
      BY <3>2
    <3>4. \A m \in 1..n : m \in 1..(n + 1)
      BY <3>2
    <3> QED
      BY <3>1, <3>2, <3>3, <3>4, Zenon DEF Entries
  <2> QED
    BY <1>3, <2>1, <2>2 DEF Takes, Rejects, GivesUp
<1>12. /\ Entries(c) \subseteq Entries(d)
       /\ Entries(d) \subseteq Entries(c) \cup {es[l] : l \in 1..(k + 1)}
  <2>1. 1..k \subseteq 1..(k + 1) /\ k + 1 \in 1..(k + 1)
    OBVIOUS
  <2>2. {es[l] : l \in 1..k} \cup {i} \subseteq {es[l] : l \in 1..(k + 1)}
    BY <2>1 DEF i
  <2>3. /\ Entries(c) \subseteq Entries(r)
        /\ Entries(r) \subseteq Entries(c) \cup {es[l] : l \in 1..k}
    BY DEF Kept
  <2> QED
    BY <1>11, <2>2, <2>3
<1>13. d.lastId = IF k + 1 = 0 THEN c.lastId ELSE es[k + 1]
  BY <1>3 DEF i
<1>14. \A q \in Jobs : (\A l \in 1..(k + 1) : stream[es[l]].job # q) =>
                       d.retries[q] = c.retries[q]
  <2> SUFFICES ASSUME NEW q \in Jobs, \A l \in 1..(k + 1) : stream[es[l]].job # q
               PROVE  d.retries[q] = c.retries[q]
    OBVIOUS
  <2>1. q # j
    <3>1. k + 1 \in 1..(k + 1)
      OBVIOUS
    <3> QED
      BY <3>1 DEF i, j
  <2>2. r.retries[q] = c.retries[q]
    <3>1. \A l \in 1..k : l \in 1..(k + 1)
      OBVIOUS
    <3> QED
      BY <3>1 DEF Kept
  <2>3. d.retries[q] = r.retries[q]
    BY <1>3, <1>4, <2>1 DEF Takes, Rejects, Delays, GivesUp
  <2> QED
    BY <2>2, <2>3
<1> QED
  BY <1>3, <1>5, <1>6, <1>8, <1>9, <1>10, <1>12, <1>13, <1>14 DEF Kept

LEMMA KeptThroughout ==
  ASSUME StreamOK, NEW c \in Client, c.failed = {}, NEW es,
         Len(es) \in Nat, \A l \in 1..Len(es) : es[l] \in DOMAIN stream,
         NEW run, Run(run, c, es)
  PROVE  \A k \in 0..Len(es) : Kept(c, run[k], es, k)
<1> DEFINE S == {k \in Nat : k <= Len(es) => Kept(c, run[k], es, k)}
<1>1. 0 \in S
  <2>1. run[0] = c
    BY DEF Run
  <2>2. c.fetching \in [OwnJobs -> Nat]
    BY ClientFields
  <2>3. \A j \in OwnJobs : c.fetching[j] >= c.fetching[j]
    BY <2>2
  <2> QED
    BY <2>1, <2>3 DEF Kept
<1>2. ASSUME NEW k \in Nat, k \in S PROVE k + 1 \in S
  <2> SUFFICES ASSUME k + 1 <= Len(es) PROVE Kept(c, run[k + 1], es, k + 1)
    OBVIOUS
  <2>1. k + 1 \in 1..Len(es) /\ k <= Len(es) /\ (k + 1) - 1 = k
    OBVIOUS
  <2>2. Kept(c, run[k], es, k)
    BY <1>2, <2>1
  <2>3. run[k + 1] = ProcessEvent(run[k], es[k + 1])
    BY <2>1 DEF Run
  <2> HIDE DEF S
  <2> QED
    BY <2>1, <2>2, <2>3, KeptStep
<1> HIDE DEF S
<1>3. Nat \subseteq S
  BY <1>1, <1>2, Induction
<1> QED
  BY <1>3 DEF S
-----------------------------------------------------------------------------
(***************************************************************************)
(* The invariant.                                                          *)
(***************************************************************************)
\* What is in a poll, a retry or the last id is in the stream.
InRange ==
  /\ client.lastId <= Len(stream)
  /\ poll.at = "out" => poll.n <= Len(stream)
  /\ Entries(client) \subseteq received
  /\ client.failed = {}

\* With polling whatever the last id is or is about to be has been read up to:
\* a retry moves the last id to its entry, so the entries of the retries count.
Cursor ==
  transport = "polling" =>
    /\ ws.at = "off"
    /\ 1..client.lastId \subseteq received
    /\ poll.at = "out" => 1..poll.n \subseteq received
    /\ \A i \in Entries(client) : 1..i \subseteq received

\* Until the 202 nobody listens for the job or fetches its data.
Registered ==
  \A j \in OwnJobs :
    /\ promise[j] \in {"none", "asked"} => j \notin client.listeners /\ client.fetching[j] = 0
    /\ promise[j] = "none" => EventsOf(j) = {}

\* An event of a job cannot be older than the POST that asked for it.
Seen ==
  \A j \in Jobs :
    /\ (since[j] # -1) <=> (EventsOf(j) \cap received # {})
    /\ since[j] = -1 => client.retries[j] = 0
    /\ j \in OwnJobs /\ promise[j] = "asked" => since[j] <= lag[j]

IInv ==
  TypeOK /\ InRange /\ Cursor /\ Registered /\ Seen /\ ListenersArePending

-----------------------------------------------------------------------------
\* The three steps that call processEvents, with the client c they start from.
Reads(es) == {es[l] : l \in 1..Len(es)}

Processing(c, es) ==
  /\ c \in Client /\ c.failed = {} /\ c.listeners = client.listeners
  /\ c.fetching = client.fetching /\ c.retries = client.retries
  /\ c.lastId = client.lastId /\ Entries(c) \subseteq Entries(client)
  /\ Len(es) \in Nat /\ DOMAIN es = 1..Len(es) /\ Reads(es) \subseteq DOMAIN stream
  /\ transport = "polling" => \A i \in Reads(es) : 1..i \subseteq received \cup Reads(es)
  /\ poll' = poll \/ poll' = Rearmed
  /\ ProcessEvents(c, es)
  /\ UNCHANGED <<transport, stream, lag, budget>>

LEMMA RemoveOne ==
  ASSUME NEW S, NEW q \in Seq(S), NEW k \in DOMAIN q
  PROVE  /\ RemoveAt(q, k) \in Seq(S)
         /\ Len(q) \in Nat /\ k \in 1..Len(q) /\ Len(q) - 1 \in Nat
         /\ DOMAIN RemoveAt(q, k) = 1..(Len(q) - 1)
         /\ Len(RemoveAt(q, k)) = Len(q) - 1
         /\ \A i \in 1..(Len(q) - 1) :
              RemoveAt(q, k)[i] = IF i < k THEN q[i] ELSE q[i + 1]
<1> DEFINE n == Len(q)
           left == SubSeq(q, 1, k - 1)
           right == SubSeq(q, k + 1, n)
<1>1. n \in Nat /\ k \in 1..n /\ k \in Nat /\ n - 1 \in Nat
  BY LenProperties
<1>2. /\ left \in Seq(S) /\ Len(left) = k - 1
      /\ \A i \in 1..(k - 1) : left[i] = q[i]
  <2>1. \A i \in 1..(k - 1) : i \in 1..n
    BY <1>1
  <2>2. \A i \in 1..(k - 1) : q[i] \in S
    BY <2>1, ElementOfSeq
  <2> QED
    BY <1>1, <2>2, SubSeqProperties
<1>3. /\ right \in Seq(S) /\ Len(right) = n - k
      /\ \A i \in 1..(n - k) : right[i] = q[k + i]
  BY <1>1, SubSeqProperties
<1> HIDE DEF left, right, n
<1>4. RemoveAt(q, k) = left \o right
  BY DEF RemoveAt, left, right, n
<1>5. /\ left \o right \in Seq(S) /\ Len(left \o right) = n - 1
      /\ DOMAIN (left \o right) = 1..(n - 1)
      /\ \A i \in 1..(n - 1) :
           (left \o right)[i] = IF i <= k - 1 THEN left[i] ELSE right[i - (k - 1)]
  <2> DEFINE s == left \o right
  <2>1. /\ s \in Seq(S) /\ Len(s) = Len(left) + Len(right)
        /\ \A i \in 1..(Len(left) + Len(right)) :
             s[i] = IF i <= Len(left) THEN left[i] ELSE right[i - Len(left)]
    BY <1>2, <1>3, ConcatProperties
  <2>2. Len(left) + Len(right) = n - 1
    BY <1>1, <1>2, <1>3
  <2> HIDE DEF s
  <2>3. DOMAIN s = 1..(n - 1)
    BY <2>1, <2>2
  <2> QED
    BY <1>2, <2>1, <2>2, <2>3 DEF s
<1>6. ASSUME NEW i \in 1..(n - 1)
      PROVE  (left \o right)[i] = IF i < k THEN q[i] ELSE q[i + 1]
  <2>1. CASE i < k
    BY <1>1, <1>2, <1>5, <2>1
  <2>2. CASE ~ (i < k)
    <3> DEFINE m == i - (k - 1)
    <3>1. m \in 1..(n - k) /\ k + m = i + 1 /\ ~ (i <= k - 1)
      BY <1>1, <2>2
    <3>2. (left \o right)[i] = right[m]
      BY <1>5, <3>1
    <3> HIDE DEF m
    <3>3. right[m] = q[k + m]
      BY <1>3, <3>1
    <3> QED
      BY <2>2, <3>1, <3>2, <3>3
  <2> QED
    BY <2>1, <2>2
<1> QED
  BY <1>1, <1>4, <1>5, <1>6 DEF n

\* What processEvents leaves behind when it ends with the client after.
Leaves(c, es, after) ==
  /\ Kept(c, after, es, Len(es))
  /\ client' \in Client /\ client'.failed = {}
  /\ client'.listeners = after.listeners /\ client'.fetching = after.fetching
  /\ client'.retries = after.retries /\ client'.timers = after.timers
  /\ client'.lastId = after.lastId
  /\ promise' = [j \in OwnJobs |->
       IF promise[j] = "waiting" /\ j \in after.failed THEN "rejected" ELSE promise[j]]
  /\ received' = received \cup Reads(es)
  /\ since' = [j \in Jobs |->
       IF since[j] = -1 /\ \E i \in Reads(es) : stream[i].job = j THEN 0 ELSE since[j]]

LEMMA ProcessingEffect ==
  ASSUME StreamOK, NEW c, NEW es, Processing(c, es)
  PROVE  \E run : /\ Run(run, c, es) /\ \A k \in 0..Len(es) : Kept(c, run[k], es, k)
                  /\ Leaves(c, es, run[Len(es)])
<1>1. PICK run : Run(run, c, es) /\ FoldLeft(ProcessEvent, c, es) = run[Len(es)]
  BY FoldRuns DEF Processing
<1> DEFINE after == run[Len(es)]
<1>2. \A k \in 0..Len(es) : Kept(c, run[k], es, k)
  <2>1. \A l \in 1..Len(es) : es[l] \in DOMAIN stream
    BY DEF Processing, Reads
  <2> QED
    BY <1>1, <2>1, KeptThroughout DEF Processing
<1>3. Kept(c, after, es, Len(es))
  <2>1. Len(es) \in 0..Len(es)
    BY DEF Processing
  <2> QED
    BY <1>2, <2>1
<1>4. after \in Client
  BY <1>3 DEF Kept
<1>5. ToSet(es) = Reads(es)
  BY DEF ToSet, Reads, Processing
<1>6. ProcessEvents(c, es)
  BY DEF Processing
<1> HIDE DEF after
<1>7. FoldLeft(ProcessEvent, c, es) = after
  BY <1>1 DEF after
<1>8. /\ client' = [after EXCEPT !.failed = {}]
      /\ promise' = [j \in OwnJobs |->
           IF promise[j] = "waiting" /\ j \in after.failed
           THEN "rejected" ELSE promise[j]]
      /\ received' = received \cup Reads(es)
      /\ since' = [j \in Jobs |->
           IF since[j] = -1 /\ \E i \in Reads(es) : stream[i].job = j
           THEN 0 ELSE since[j]]
  BY <1>5, <1>6, <1>7, Zenon DEF ProcessEvents
<1>9. client' = [listeners |-> after.listeners, fetching |-> after.fetching,
                 failed |-> {}, retries |-> after.retries, timers |-> after.timers,
                 lastId |-> after.lastId]
  <2> DEFINE l == after.listeners
             f == after.fetching
             x == after.failed
             r == after.retries
             t == after.timers
             n == after.lastId
  <2>1. after = [listeners |-> l, fetching |-> f, failed |-> x,
                 retries |-> r, timers |-> t, lastId |-> n]
    BY <1>4, ClientFields
  <2>2. client' = [after EXCEPT !.failed = {}]
    BY <1>8
  <2> HIDE DEF l, f, x, r, t, n
  <2>3. client' = [listeners |-> l, fetching |-> f, failed |-> {},
                   retries |-> r, timers |-> t, lastId |-> n]
    BY <2>1, <2>2
  <2> QED
    BY <2>3 DEF l, f, r, t, n
<1>10. /\ client'.failed = {}
       /\ client'.listeners = after.listeners /\ client'.fetching = after.fetching
       /\ client'.retries = after.retries /\ client'.timers = after.timers
       /\ client'.lastId = after.lastId
  BY <1>9
<1>11. client' \in Client
  BY <1>4, <1>9, ClientFields DEF Client
<1> QED
  <2>1. Leaves(c, es, after)
    BY <1>3, <1>8, <1>10, <1>11 DEF Leaves
  <2> QED
    BY <1>1, <1>2, <2>1 DEF after
\* The constants, one by one.
LEMMA Constants ==
  /\ OwnJobs \subseteq Jobs /\ MaxRetries \in Nat /\ MaxRetries # 0
  /\ PollDelay \in Nat /\ MaxEventCount \in Nat /\ MaxEventCount # 0
  /\ WsErrorDelay \in Nat /\ ResponseLag \in Nat
BY ClientAssumption

LEMMA RangeOfStream ==
  ASSUME TypeOK
  PROVE  StreamOK /\ Len(stream) \in Nat /\ DOMAIN stream = 1..Len(stream)
BY DEF TypeOK, StreamOK

Without(k) == [client EXCEPT !.timers = RemoveAt(@, k)]

LEMMA TimersWithout ==
  ASSUME TypeOK, NEW k \in DOMAIN client.timers
  PROVE  /\ Without(k) \in Client /\ Without(k).failed = client.failed
         /\ Without(k).listeners = client.listeners
         /\ Without(k).fetching = client.fetching /\ Without(k).retries = client.retries
         /\ Without(k).lastId = client.lastId
         /\ Without(k).timers = RemoveAt(client.timers, k)
         /\ Entries(Without(k)) \subseteq Entries(client)
<1> DEFINE l == client.listeners
           f == client.fetching
           x == client.failed
           r == client.retries
           t == client.timers
           n == client.lastId
           u == RemoveAt(t, k)
<1>1. /\ l \in SUBSET OwnJobs /\ x \in SUBSET OwnJobs /\ f \in [OwnJobs -> Nat]
      /\ r \in [Jobs -> 0..MaxRetries] /\ t \in Seq([entry : Nat, due : Nat])
      /\ n \in Nat
      /\ client = [listeners |-> l, fetching |-> f, failed |-> x,
                   retries |-> r, timers |-> t, lastId |-> n]
  BY ClientFields DEF TypeOK
<1>2. Without(k) = [client EXCEPT !.timers = u]
  BY DEF Without
<1>3. /\ u \in Seq([entry : Nat, due : Nat]) /\ DOMAIN u = 1..(Len(t) - 1)
      /\ Len(t) \in Nat /\ DOMAIN t = 1..Len(t)
      /\ \A i \in 1..(Len(t) - 1) : u[i] = IF i < k THEN t[i] ELSE t[i + 1]
  <2> DEFINE E == [entry : Nat, due : Nat]
  <2>1. k \in DOMAIN t /\ t \in Seq(E)
    BY <1>1
  <2> HIDE DEF t, E
  <2>2. DOMAIN t = 1..Len(t)
    BY <2>1
  <2>3. /\ u \in Seq(E) /\ DOMAIN u = 1..(Len(t) - 1) /\ Len(t) \in Nat
        /\ \A i \in 1..(Len(t) - 1) : u[i] = IF i < k THEN t[i] ELSE t[i + 1]
    BY <2>1, RemoveOne
  <2> QED
    BY <2>2, <2>3 DEF E
<1>4. \A i \in DOMAIN u : \E m \in DOMAIN t : u[i].entry = t[m].entry
  <2> HIDE DEF u, t
  <2> TAKE i \in DOMAIN u
  <2>1. i \in 1..(Len(t) - 1) /\ Len(t) \in Nat
    BY <1>3
  <2>2. i \in 1..Len(t) /\ i + 1 \in 1..Len(t)
    BY <2>1
  <2>3. u[i] = t[i] \/ u[i] = t[i + 1]
    BY <1>3, <2>1
  <2>4. i \in DOMAIN t /\ i + 1 \in DOMAIN t
    BY <1>3, <2>2
  <2> QED
    BY <2>3, <2>4
<1> HIDE DEF l, f, x, r, t, n, u
<1>5. Without(k) = [listeners |-> l, fetching |-> f, failed |-> x,
                    retries |-> r, timers |-> u, lastId |-> n]
  BY <1>1, <1>2
<1>6. Without(k) \in Client
  BY <1>1, <1>3, <1>5 DEF Client
<1>7. Entries(Without(k)) \subseteq Entries(client)
  <2>1. Without(k).timers = u /\ client.timers = t
    BY <1>5 DEF t
  <2> QED
    BY <1>4, <2>1 DEF Entries
<1> QED
  BY <1>5, <1>6, <1>7 DEF l, f, x, r, t, n, u

LEMMA RetryProcesses ==
  ASSUME IInv, NEW k \in DOMAIN client.timers, RetryFires(k)
  PROVE  Processing(Without(k), <<client.timers[k].entry>>)
<1> DEFINE e == client.timers[k].entry
           es == <<e>>
<1>1. e \in Entries(client) /\ e \in received /\ e \in DOMAIN stream
  BY DEF Entries, IInv, InRange, TypeOK
<1>2. transport = "polling" => 1..e \subseteq received
  BY <1>1 DEF IInv, Cursor
<1> HIDE DEF e
<1>3. Len(es) = 1 /\ DOMAIN es = 1..1 /\ es[1] = e /\ 1..1 = {1}
  OBVIOUS
<1> HIDE DEF es
<1>4. Reads(es) = {e}
  BY <1>3 DEF Reads
<1>5. ProcessEvents(Without(k), es)
  BY DEF RetryFires, Without, es, e
<1>6. /\ Without(k) \in Client /\ Without(k).failed = {}
      /\ Without(k).listeners = client.listeners
      /\ Without(k).fetching = client.fetching /\ Without(k).retries = client.retries
      /\ Without(k).lastId = client.lastId
      /\ Entries(Without(k)) \subseteq Entries(client)
  BY TimersWithout DEF IInv, InRange
<1>7. poll' = poll /\ UNCHANGED <<transport, stream, lag, budget>>
  BY DEF RetryFires
<1>8. Processing(Without(k), es)
  BY <1>1, <1>2, <1>3, <1>4, <1>5, <1>6, <1>7 DEF Processing
<1> QED
  BY <1>8 DEF es, e

LEMMA EventsAfter ==
  ASSUME TypeOK, NEW n \in Nat, n <= Len(stream)
  PROVE  \E len \in Nat :
           /\ Len(events(n)) = len /\ DOMAIN events(n) = 1..len
           /\ n + len <= Len(stream)
           /\ \A l \in 1..len : events(n)[l] = n + l
           /\ Reads(events(n)) = (n + 1)..(n + len)
<1> DEFINE upTo == IF Len(stream) < n + MaxEventCount THEN Len(stream)
                                                      ELSE n + MaxEventCount
           len == upTo - n
<1>1. len \in Nat /\ n + len <= Len(stream)
  BY RangeOfStream, Constants
<1>2. events(n) = [l \in 1..len |-> n + l]
  BY DEF events
<1> HIDE DEF len
<1>3. Len(events(n)) = len /\ DOMAIN events(n) = 1..len
  BY <1>1, <1>2
<1>4. \A l \in 1..len : events(n)[l] = n + l
  BY <1>2
<1>5. Reads(events(n)) = (n + 1)..(n + len)
  <2>1. \A i \in (n + 1)..(n + len) : i - n \in 1..len /\ n + (i - n) = i
    BY <1>1
  <2>2. Reads(events(n)) = {n + l : l \in 1..len}
    BY <1>3, <1>4 DEF Reads
  <2>3. \A l \in 1..len : n + l \in (n + 1)..(n + len)
    BY <1>1
  <2> QED
    BY <2>1, <2>2, <2>3
<1> QED
  BY <1>1, <1>3, <1>4, <1>5

LEMMA PollProcesses ==
  ASSUME IInv, PollReturns
  PROVE  Processing(client, events(poll.n))
<1> DEFINE n == poll.n
           es == events(n)
<1>1. n \in Nat /\ n <= Len(stream)
  BY DEF PollReturns, IInv, TypeOK, InRange
<1>2. PICK len \in Nat :
        /\ Len(es) = len /\ DOMAIN es = 1..len
        /\ n + len <= Len(stream)
        /\ Reads(es) = (n + 1)..(n + len)
  BY <1>1, EventsAfter DEF IInv
<1>3. Len(stream) \in Nat /\ DOMAIN stream = 1..Len(stream)
  BY RangeOfStream DEF IInv
<1>4. transport = "polling" => 1..n \subseteq received
  BY DEF IInv, Cursor, PollReturns
<1>5. client \in Client /\ client.failed = {}
  BY DEF IInv, TypeOK, InRange
<1>6. ProcessEvents(client, es) /\ UNCHANGED <<transport, stream, lag, budget>>
      /\ poll' = Rearmed
  BY DEF PollReturns
<1> HIDE DEF n, es
<1>7. Reads(es) \subseteq DOMAIN stream
  BY <1>1, <1>2, <1>3
<1>8. transport = "polling" => \A i \in Reads(es) : 1..i \subseteq received \cup Reads(es)
  BY <1>1, <1>2, <1>4
<1>9. Processing(client, es)
  BY <1>2, <1>5, <1>6, <1>7, <1>8 DEF Processing
<1> QED
  BY <1>9 DEF n, es

LEMMA WsProcesses ==
  ASSUME IInv, WsMessage
  PROVE  Processing(client, <<ws.pos + 1>>)
<1> DEFINE e == ws.pos + 1
           es == <<e>>
<1>1. e \in DOMAIN stream
  <2>1. ws.pos \in Nat /\ ws.pos < Len(stream)
    BY DEF WsMessage, IInv, TypeOK
  <2>2. Len(stream) \in Nat /\ DOMAIN stream = 1..Len(stream)
    BY RangeOfStream DEF IInv
  <2> QED
    BY <2>1, <2>2
<1>2. transport # "polling"
  BY DEF WsMessage, IInv, Cursor
<1>3. client \in Client /\ client.failed = {}
  BY DEF IInv, TypeOK, InRange
<1>4. ProcessEvents(client, es) /\ UNCHANGED <<transport, stream, lag, budget>>
      /\ poll' = poll
  BY DEF WsMessage
<1> HIDE DEF e
<1>5. Len(es) = 1 /\ DOMAIN es = 1..1 /\ es[1] = e /\ 1..1 = {1}
  OBVIOUS
<1> HIDE DEF es
<1>6. Reads(es) = {e}
  BY <1>5 DEF Reads
<1>7. Processing(client, es)
  BY <1>1, <1>2, <1>3, <1>4, <1>5, <1>6 DEF Processing
<1> QED
  BY <1>7 DEF es, e

-----------------------------------------------------------------------------
(***************************************************************************)
(* A call of processEvents keeps the invariant.                            *)
(***************************************************************************)
LEMMA RearmedType ==
  ASSUME TypeOK
  PROVE  Rearmed \in [at : {"off", "timer", "out"}, n : Nat] /\ Rearmed.at # "out"
BY Constants DEF Rearmed

LEMMA ProcessingKeeps ==
  ASSUME IInv, NEW c, NEW es, Processing(c, es)
  PROVE  /\ client' \in Client /\ client'.failed = {}
         /\ promise' \in [OwnJobs -> {"none", "asked", "waiting"} \cup Settled]
         /\ since' \in [Jobs -> -1..(MaxRetries * MaxRetries)]
         /\ received' \subseteq DOMAIN stream
         /\ poll' \in [at : {"off", "timer", "out"}, n : Nat]
         /\ InRange' /\ Registered' /\ Seen' /\ ListenersArePending'
         /\ transport = "polling" =>
              /\ 1..client'.lastId \subseteq received'
              /\ poll'.at = "out" => 1..poll'.n \subseteq received'
              /\ \A i \in Entries(client)' : 1..i \subseteq received'
<1>s. StreamOK /\ Len(stream) \in Nat /\ DOMAIN stream = 1..Len(stream)
  BY RangeOfStream DEF IInv
<1>0. PICK run : Leaves(c, es, run[Len(es)])
  BY <1>s, ProcessingEffect
<1> DEFINE after == run[Len(es)]
<1> HIDE DEF after
<1>1. /\ Kept(c, after, es, Len(es))
      /\ client' \in Client /\ client'.failed = {}
      /\ client'.listeners = after.listeners /\ client'.fetching = after.fetching
      /\ client'.retries = after.retries /\ client'.timers = after.timers
      /\ client'.lastId = after.lastId
      /\ promise' = [j \in OwnJobs |->
           IF promise[j] = "waiting" /\ j \in after.failed THEN "rejected" ELSE promise[j]]
      /\ received' = received \cup Reads(es)
      /\ since' = [j \in Jobs |->
           IF since[j] = -1 /\ \E i \in Reads(es) : stream[i].job = j THEN 0 ELSE since[j]]
  BY <1>0 DEF Leaves, after
<1>2. /\ c \in Client /\ c.failed = {} /\ c.listeners = client.listeners
      /\ c.fetching = client.fetching /\ c.retries = client.retries
      /\ c.lastId = client.lastId /\ Entries(c) \subseteq Entries(client)
      /\ Len(es) \in Nat /\ DOMAIN es = 1..Len(es) /\ Reads(es) \subseteq DOMAIN stream
      /\ transport = "polling" => \A i \in Reads(es) : 1..i \subseteq received \cup Reads(es)
      /\ poll' = poll \/ poll' = Rearmed
      /\ UNCHANGED <<transport, stream, lag, budget>>
  BY DEF Processing
<1>3. /\ client.listeners \in SUBSET OwnJobs /\ client.fetching \in [OwnJobs -> Nat]
      /\ after.fetching \in [OwnJobs -> Nat]
  BY <1>1, <1>2, ClientFields
<1>4. promise' \in [OwnJobs -> {"none", "asked", "waiting"} \cup Settled]
  BY <1>1 DEF IInv, TypeOK, Settled
<1>5. since' \in [Jobs -> -1..(MaxRetries * MaxRetries)]
  <2>1. since \in [Jobs -> -1..(MaxRetries * MaxRetries)]
    BY DEF IInv, TypeOK
  <2>2. 0 \in -1..(MaxRetries * MaxRetries)
    <3> DEFINE q == MaxRetries * MaxRetries
    <3>1. q \in Int /\ q >= 0
      BY Constants
    <3> HIDE DEF q
    <3> QED
      BY <3>1 DEF q
  <2> DEFINE T == -1..(MaxRetries * MaxRetries)
  <2> HIDE DEF T
  <2> QED
    BY <1>1, <2>1, <2>2 DEF T
<1>6. received' \subseteq DOMAIN stream
  BY <1>1, <1>2 DEF IInv, TypeOK
<1>7. poll' \in [at : {"off", "timer", "out"}, n : Nat]
  BY <1>2, RearmedType DEF IInv, TypeOK
<1>8. Entries(client)' = Entries(after)
  BY <1>1 DEF Entries
<1>9. Entries(after) \subseteq Entries(client) \cup Reads(es)
  BY <1>1, <1>2 DEF Kept, Reads
<1>10. InRange'
  <2>1. client'.lastId <= Len(stream)
    <3>1. CASE Len(es) = 0
      BY <1>1, <1>2, <3>1 DEF Kept, IInv, InRange
    <3>2. CASE Len(es) # 0
      <4>1. after.lastId = es[Len(es)] /\ Len(es) \in 1..Len(es)
        BY <1>1, <1>2, <3>2 DEF Kept
      <4>2. after.lastId \in Reads(es)
        BY <4>1 DEF Reads
      <4> QED
        BY <1>1, <1>2, <1>s, <4>2
    <3> QED
      BY <3>1, <3>2
  <2>2. poll'.at = "out" => poll'.n <= Len(stream)
    BY <1>2, RearmedType DEF IInv, InRange
  <2>3. Entries(client)' \subseteq received'
    BY <1>1, <1>8, <1>9 DEF IInv, InRange
  <2> QED
    BY <1>1, <1>2, <2>1, <2>2, <2>3 DEF InRange
<1>11. ListenersArePending'
  <2> SUFFICES ASSUME NEW j \in after.listeners
               PROVE  promise'[j] = "waiting" \/ client'.fetching[j] > 0
    BY <1>1 DEF ListenersArePending
  <2>1. j \in client.listeners /\ j \in OwnJobs /\ j \notin after.failed
    BY <1>1, <1>2, <1>3 DEF Kept
  <2>2. promise[j] = "waiting" \/ client.fetching[j] > 0
    BY <2>1 DEF IInv, ListenersArePending
  <2>3. promise[j] = "waiting" => promise'[j] = "waiting"
    BY <1>1, <2>1
  <2>4. after.fetching[j] >= client.fetching[j]
    BY <1>1, <1>2, <2>1 DEF Kept
  <2>5. after.fetching[j] \in Nat /\ client.fetching[j] \in Nat
    BY <1>3, <2>1
  <2> QED
    BY <1>1, <2>2, <2>3, <2>4, <2>5
<1>12. \A j \in Jobs : EventsOf(j)' = EventsOf(j)
  BY <1>2 DEF EventsOf
<1>13. Registered'
  <2> SUFFICES ASSUME NEW j \in OwnJobs
               PROVE  /\ promise'[j] \in {"none", "asked"} =>
                           j \notin client'.listeners /\ client'.fetching[j] = 0
                      /\ promise'[j] = "none" => EventsOf(j)' = {}
    BY DEF Registered
  <2>1. promise'[j] \in {"none", "asked"} => promise'[j] = promise[j]
    BY <1>1
  <2>2. ASSUME promise[j] \in {"none", "asked"}
        PROVE  j \notin after.listeners /\ after.fetching[j] = 0
    <3>1. j \notin client.listeners /\ client.fetching[j] = 0
      BY <2>2 DEF IInv, Registered
    <3> QED
      BY <1>1, <1>2, <3>1 DEF Kept
  <2>3. promise[j] = "none" => EventsOf(j) = {}
    BY DEF IInv, Registered
  <2>4. EventsOf(j)' = EventsOf(j)
    BY <1>12, Constants
  <2> QED
    BY <1>1, <2>1, <2>2, <2>3, <2>4
<1>14. Seen'
  <2> SUFFICES ASSUME NEW j \in Jobs
               PROVE  /\ (since'[j] # -1) <=> (EventsOf(j)' \cap received' # {})
                      /\ since'[j] = -1 => client'.retries[j] = 0
                      /\ j \in OwnJobs /\ promise'[j] = "asked" => since'[j] <= lag'[j]
    BY DEF Seen
  <2>1. /\ (since[j] # -1) <=> (EventsOf(j) \cap received # {})
        /\ since[j] = -1 => client.retries[j] = 0
        /\ j \in OwnJobs /\ promise[j] = "asked" => since[j] <= lag[j]
    BY DEF IInv, Seen
  <2>2. since'[j] = IF since[j] = -1 /\ \E i \in Reads(es) : stream[i].job = j
                    THEN 0 ELSE since[j]
    BY <1>1
  <2>3. EventsOf(j)' = EventsOf(j)
    BY <1>12
  <2>4. (EventsOf(j) \cap Reads(es) # {}) <=> (\E i \in Reads(es) : stream[i].job = j)
    BY <1>2 DEF EventsOf
  <2>5. (since'[j] # -1) <=> (EventsOf(j)' \cap received' # {})
    BY <1>1, <2>1, <2>2, <2>3, <2>4
  <2>6. ASSUME since'[j] = -1 PROVE client'.retries[j] = 0
    <3>1. since[j] = -1 /\ ~ \E i \in Reads(es) : stream[i].job = j
      BY <2>2, <2>6
    <3>2. \A l \in 1..Len(es) : stream[es[l]].job # j
      BY <3>1 DEF Reads
    <3>3. after.retries[j] = c.retries[j]
      BY <1>1, <3>2 DEF Kept
    <3> QED
      BY <1>1, <1>2, <2>1, <3>1, <3>3
  <2>7. ASSUME j \in OwnJobs, promise'[j] = "asked" PROVE since'[j] <= lag'[j]
    <3>1. promise[j] = "asked"
      BY <1>1, <2>7
    <3>2. lag[j] \in Nat /\ lag' = lag
      BY <1>2, <2>7, Constants DEF IInv, TypeOK
    <3> QED
      BY <2>1, <2>2, <2>7, <3>1, <3>2
  <2> QED
    BY <2>5, <2>6, <2>7
<1>15. ASSUME transport = "polling"
       PROVE  /\ 1..client'.lastId \subseteq received'
              /\ poll'.at = "out" => 1..poll'.n \subseteq received'
              /\ \A i \in Entries(client)' : 1..i \subseteq received'
  <2>1. /\ 1..client.lastId \subseteq received
        /\ poll.at = "out" => 1..poll.n \subseteq received
        /\ \A i \in Entries(client) : 1..i \subseteq received
    BY <1>15 DEF IInv, Cursor
  <2>2. \A i \in Reads(es) : 1..i \subseteq received'
    BY <1>1, <1>2, <1>15
  <2>3. 1..client'.lastId \subseteq received'
    <3>1. CASE Len(es) = 0
      BY <1>1, <1>2, <2>1, <3>1 DEF Kept
    <3>2. CASE Len(es) # 0
      <4>1. after.lastId = es[Len(es)] /\ Len(es) \in 1..Len(es)
        BY <1>1, <1>2, <3>2 DEF Kept
      <4>2. after.lastId \in Reads(es)
        BY <4>1 DEF Reads
      <4> QED
        BY <1>1, <2>2, <4>2
    <3> QED
      BY <3>1, <3>2
  <2>4. poll'.at = "out" => 1..poll'.n \subseteq received'
    BY <1>1, <1>2, <2>1, RearmedType DEF IInv
  <2>5. \A i \in Entries(client)' : 1..i \subseteq received'
    BY <1>1, <1>8, <1>9, <2>1, <2>2
  <2> QED
    BY <2>3, <2>4, <2>5
<1> QED
  BY <1>1, <1>4, <1>5, <1>6, <1>7, <1>10, <1>11, <1>13, <1>14, <1>15

LEMMA InitIInv == Init => IInv
<1> SUFFICES ASSUME Init PROVE IInv
  OBVIOUS
<1>1. client \in Client /\ Entries(client) = {}
  BY Constants DEF Init, Client, Entries
<1>2. stream = <<>> /\ DOMAIN stream = {} /\ Len(stream) = 0
  BY DEF Init
<1>3. since \in [Jobs -> -1..(MaxRetries * MaxRetries)]
  <2> DEFINE q == MaxRetries * MaxRetries
  <2>1. q \in Int /\ q >= 0
    BY Constants
  <2> HIDE DEF q
  <2>2. -1 \in -1..q
    BY <2>1
  <2> QED
    BY <2>2 DEF Init, q
<1>4. stream \in Seq([job : Jobs, status : Status])
  BY <1>2
<1>5. TypeOK
  BY <1>1, <1>2, <1>3, <1>4, Constants DEF Init, TypeOK
<1>a. client.lastId = 0 /\ client.failed = {} /\ poll.at # "out"
      /\ (transport = "polling" => ws.at = "off") /\ 1..0 = {}
  BY DEF Init
<1>6. InRange
  BY <1>1, <1>2, <1>a DEF InRange
<1>7. Cursor
  BY <1>1, <1>a DEF Cursor
<1>8. \A j \in Jobs : EventsOf(j) = {}
  BY <1>2 DEF EventsOf
<1>9. Registered
  BY <1>8, Constants DEF Init, Registered
<1>10. Seen
  BY <1>8, Constants DEF Init, Seen
<1>11. ListenersArePending
  BY DEF Init, ListenersArePending
<1> QED
  BY <1>5, <1>6, <1>7, <1>9, <1>10, <1>11 DEF IInv

LEMMA PublishKeepsIInv ==
  ASSUME IInv, NEW j \in Jobs, NEW status \in Status, Publish(j, status)
  PROVE  IInv'
<1> DEFINE e == [job |-> j, status |-> status]
           n == Len(stream)
<1>1. /\ stream' = Append(stream, e) /\ (j \in OwnJobs => promise[j] # "none")
      /\ UNCHANGED <<transport, promise, lag, client, received, since, poll, ws, budget>>
  BY DEF Publish
<1>2. n \in Nat /\ DOMAIN stream = 1..n /\ stream \in Seq([job : Jobs, status : Status])
  BY RangeOfStream DEF IInv, TypeOK
<1>3. /\ stream' \in Seq([job : Jobs, status : Status])
      /\ Len(stream') = n + 1 /\ DOMAIN stream' = 1..(n + 1)
      /\ \A i \in 1..n : stream'[i] = stream[i]
      /\ stream'[n + 1] = e
  <2> DEFINE E == [job : Jobs, status : Status]
  <2>1. e \in E
    OBVIOUS
  <2> HIDE DEF e, E
  <2>2. stream \in Seq(E)
    BY <1>2 DEF E
  <2>3. /\ stream' \in Seq(E)
        /\ Len(stream') = n + 1 /\ DOMAIN stream' = 1..(n + 1)
        /\ \A i \in 1..n : stream'[i] = stream[i]
        /\ stream'[n + 1] = e
    BY <1>1, <1>2, <2>1, <2>2
  <2> QED
    BY <2>3 DEF E
<1> HIDE DEF n
<1>4. received \subseteq 1..n
  BY <1>2 DEF IInv, TypeOK
<1>5. \A q \in Jobs : EventsOf(q)' \cap received = EventsOf(q) \cap received
  BY <1>2, <1>3, <1>4 DEF EventsOf
<1>6. \A q \in Jobs : q # j => EventsOf(q)' = EventsOf(q)
  <2> SUFFICES ASSUME NEW q \in Jobs, q # j, NEW i \in 1..(n + 1)
               PROVE  stream'[i].job = q <=> i \in 1..n /\ stream[i].job = q
    BY <1>2, <1>3 DEF EventsOf
  <2>1. CASE i = n + 1
    BY <1>2, <1>3, <2>1
  <2>2. CASE i # n + 1
    BY <1>2, <1>3, <2>2
  <2> QED
    BY <2>1, <2>2
<1>7. TypeOK'
  <2>1. received' \subseteq DOMAIN stream'
    BY <1>1, <1>2, <1>3, <1>4
  <2> QED
    BY <1>1, <1>3, <2>1 DEF IInv, TypeOK
<1>8. InRange'
  <2>1. client.lastId \in Nat /\ poll.n \in Nat
    BY ClientFields DEF IInv, TypeOK
  <2>2. Entries(client)' = Entries(client)
    BY <1>1 DEF Entries
  <2> QED
    BY <1>1, <1>2, <1>3, <2>1, <2>2 DEF IInv, InRange, n
<1>9. Cursor'
  BY <1>1 DEF IInv, Cursor, Entries
<1>10. Registered'
  BY <1>1, <1>6, Constants DEF IInv, Registered
<1>11. Seen'
  BY <1>1, <1>5 DEF IInv, Seen
<1>12. ListenersArePending'
  BY <1>1 DEF IInv, ListenersArePending
<1> QED
  BY <1>7, <1>8, <1>9, <1>10, <1>11, <1>12 DEF IInv

LEMMA AskKeepsIInv ==
  ASSUME IInv, NEW j \in OwnJobs, Ask(j)
  PROVE  IInv'
<1>1. /\ promise[j] = "none" /\ promise' = [promise EXCEPT ![j] = "asked"]
      /\ UNCHANGED <<transport, stream, lag, client, received, since, poll, ws, budget>>
  BY DEF Ask
<1>2. promise \in [OwnJobs -> {"none", "asked", "waiting"} \cup Settled]
  BY DEF IInv, TypeOK
<1>3. TypeOK'
  BY <1>1, <1>2 DEF IInv, TypeOK
<1>4. InRange' /\ Cursor'
  BY <1>1 DEF IInv, InRange, Cursor, Entries
<1>5. \A q \in Jobs : EventsOf(q)' = EventsOf(q)
  BY <1>1 DEF EventsOf
<1>6. Registered'
  BY <1>1, <1>2, <1>5, Constants DEF IInv, Registered
<1>7. Seen'
  <2>1. since[j] = -1 /\ lag[j] \in Nat
    BY <1>1, Constants DEF IInv, Registered, Seen, TypeOK
  <2>2. since[j] <= lag[j]
    BY <2>1
  <2> QED
    BY <1>1, <1>2, <1>5, <2>2 DEF IInv, Seen
<1>8. ListenersArePending'
  <2> SUFFICES ASSUME NEW q \in client.listeners
               PROVE  promise'[q] = "waiting" \/ client.fetching[q] > 0
    BY <1>1 DEF ListenersArePending
  <2>1. q \in OwnJobs /\ q # j
    BY <1>1, ClientFields DEF IInv, TypeOK, Registered
  <2> QED
    BY <1>1, <1>2, <2>1 DEF IInv, ListenersArePending
<1> QED
  BY <1>3, <1>4, <1>6, <1>7, <1>8 DEF IInv

\* A client in which one field is another.
LEMMA ClientUpdate ==
  ASSUME NEW c \in Client,
         NEW l \in SUBSET OwnJobs, NEW f \in [OwnJobs -> Nat],
         NEW t \in Seq([entry : Nat, due : Nat])
  PROVE  /\ [c EXCEPT !.listeners = l] \in Client
         /\ [c EXCEPT !.listeners = l].listeners = l
         /\ [c EXCEPT !.listeners = l].fetching = c.fetching
         /\ [c EXCEPT !.fetching = f, !.listeners = l] \in Client
         /\ [c EXCEPT !.fetching = f, !.listeners = l].listeners = l
         /\ [c EXCEPT !.fetching = f, !.listeners = l].fetching = f
         /\ \A d \in {[c EXCEPT !.listeners = l], [c EXCEPT !.fetching = f, !.listeners = l]} :
              /\ d.failed = c.failed /\ d.retries = c.retries
              /\ d.timers = c.timers /\ d.lastId = c.lastId
         /\ [c EXCEPT !.timers = t] \in Client
         /\ [c EXCEPT !.timers = t].listeners = c.listeners
         /\ [c EXCEPT !.timers = t].fetching = c.fetching
         /\ [c EXCEPT !.timers = t].failed = c.failed
         /\ [c EXCEPT !.timers = t].retries = c.retries
         /\ [c EXCEPT !.timers = t].lastId = c.lastId
         /\ [c EXCEPT !.timers = t].timers = t
BY DEF Client

LEMMA WaitForAsyncDataKeepsIInv ==
  ASSUME IInv, NEW j \in OwnJobs, WaitForAsyncData(j)
  PROVE  IInv'
<1> DEFINE l == client.listeners \cup {j}
<1>1. /\ promise[j] = "asked" /\ promise' = [promise EXCEPT ![j] = "waiting"]
      /\ client' = [client EXCEPT !.listeners = l]
      /\ UNCHANGED <<transport, stream, lag, received, since, poll, ws, budget>>
  BY DEF WaitForAsyncData
<1>2. promise \in [OwnJobs -> {"none", "asked", "waiting"} \cup Settled]
      /\ client \in Client
  BY DEF IInv, TypeOK
<1>3. l \in SUBSET OwnJobs /\ client.listeners \subseteq OwnJobs
  BY <1>2, ClientFields
<1> HIDE DEF l
<1>4. /\ client' \in Client /\ client'.listeners = l
      /\ client'.fetching = client.fetching /\ client'.failed = client.failed
      /\ client'.retries = client.retries /\ client'.timers = client.timers
      /\ client'.lastId = client.lastId
  BY <1>1, <1>2, <1>3, ClientUpdate DEF Client
<1>5. Entries(client)' = Entries(client)
  BY <1>4 DEF Entries
<1>6. \A q \in Jobs : EventsOf(q)' = EventsOf(q)
  BY <1>1 DEF EventsOf
<1>7. TypeOK'
  BY <1>1, <1>2, <1>4 DEF IInv, TypeOK
<1>8. InRange' /\ Cursor'
  BY <1>1, <1>4, <1>5 DEF IInv, InRange, Cursor
<1>9. Registered'
  BY <1>1, <1>2, <1>4, <1>6, Constants DEF IInv, Registered, l
<1>10. Seen'
  BY <1>1, <1>2, <1>4, <1>6 DEF IInv, Seen
<1>11. ListenersArePending'
  BY <1>1, <1>2, <1>3, <1>4 DEF IInv, ListenersArePending, l
<1> QED
  BY <1>7, <1>8, <1>9, <1>10, <1>11 DEF IInv

LEMMA FetchReturnsKeepsIInv ==
  ASSUME IInv, NEW j \in OwnJobs, NEW outcome \in Settled, FetchReturns(j, outcome)
  PROVE  IInv'
<1> DEFINE l == client.listeners \ {j}
           f == [client.fetching EXCEPT ![j] = @ - 1]
<1>1. /\ client.fetching[j] > 0
      /\ promise' = [promise EXCEPT ![j] = IF @ = "waiting" THEN outcome ELSE @]
      /\ client' = [client EXCEPT !.fetching = f, !.listeners = l]
      /\ UNCHANGED <<transport, stream, lag, received, since, poll, ws, budget>>
  BY DEF FetchReturns
<1>2. promise \in [OwnJobs -> {"none", "asked", "waiting"} \cup Settled]
      /\ client \in Client
  BY DEF IInv, TypeOK
<1>3. l \in SUBSET OwnJobs /\ client.listeners \subseteq OwnJobs
      /\ client.fetching \in [OwnJobs -> Nat]
  BY <1>2, ClientFields
<1>4. f \in [OwnJobs -> Nat]
  <2>1. client.fetching[j] - 1 \in Nat
    BY <1>1, <1>3
  <2> QED
    BY <1>3, <2>1
<1> HIDE DEF l, f
<1>5. /\ client' \in Client /\ client'.listeners = l /\ client'.fetching = f
      /\ client'.failed = client.failed
      /\ client'.retries = client.retries /\ client'.timers = client.timers
      /\ client'.lastId = client.lastId
  BY <1>1, <1>2, <1>3, <1>4, ClientUpdate DEF Client
<1>6. Entries(client)' = Entries(client)
  BY <1>5 DEF Entries
<1>7. \A q \in Jobs : EventsOf(q)' = EventsOf(q)
  BY <1>1 DEF EventsOf
<1>8. promise[j] \notin {"none", "asked"} /\ promise'[j] \notin {"none", "asked"}
  BY <1>1, <1>2 DEF IInv, Registered, Settled
<1>9. /\ promise' \in [OwnJobs -> {"none", "asked", "waiting"} \cup Settled]
      /\ \A q \in OwnJobs : q # j => promise'[q] = promise[q] /\ f[q] = client.fetching[q]
  BY <1>1, <1>2, <1>3 DEF f
<1>10. TypeOK'
  BY <1>1, <1>5, <1>9 DEF IInv, TypeOK
<1>11. InRange' /\ Cursor'
  BY <1>1, <1>5, <1>6 DEF IInv, InRange, Cursor
<1>12. Registered'
  BY <1>5, <1>7, <1>8, <1>9, Constants DEF IInv, Registered, l
<1>13. Seen'
  BY <1>1, <1>5, <1>7, <1>8, <1>9 DEF IInv, Seen
<1>14. ListenersArePending'
  BY <1>3, <1>5, <1>9 DEF IInv, ListenersArePending, l
<1> QED
  BY <1>10, <1>11, <1>12, <1>13, <1>14 DEF IInv

LEMMA LoadEventsType ==
  ASSUME TypeOK
  PROVE  /\ LoadEvents \in [at : {"off", "timer", "out"}, n : Nat]
         /\ LoadEvents.at = "out" => LoadEvents.n = client.lastId
<1>1. client.lastId \in Nat
  BY ClientFields DEF TypeOK
<1> QED
  BY <1>1, RearmedType DEF LoadEvents

\* The steps that change only the polling loop and the websocket.
LEMMA QuietKeepsIInv ==
  ASSUME IInv, UNCHANGED <<transport, stream, promise, lag, client, received, since>>,
         poll' \in [at : {"off", "timer", "out"}, n : Nat],
         poll'.at = "out" =>
           poll'.n = client.lastId \/ (poll.at = "out" /\ poll'.n = poll.n),
         ws' \in [at : {"off", "connecting", "open", "closed", "gaveup"},
                  tries : Nat, due : Nat, pos : Nat],
         ws.at = "off" => ws' = ws
  PROVE  IInv'
<1>1. Entries(client)' = Entries(client) /\ \A q \in Jobs : EventsOf(q)' = EventsOf(q)
  BY DEF Entries, EventsOf
<1>2. TypeOK'
  BY DEF IInv, TypeOK
<1>3. InRange'
  BY <1>1 DEF IInv, InRange
<1>4. Cursor'
  BY <1>1 DEF IInv, Cursor
<1>5. Registered'
  BY <1>1, Constants DEF IInv, Registered
<1>6. Seen'
  BY <1>1 DEF IInv, Seen
<1>7. ListenersArePending'
  BY DEF IInv, ListenersArePending
<1> QED
  BY <1>2, <1>3, <1>4, <1>5, <1>6, <1>7 DEF IInv

LEMMA PollKeepsIInv ==
  ASSUME IInv, PollStarts \/ PollFails
  PROVE  IInv'
<1>1. UNCHANGED <<transport, stream, promise, lag, client, received, since, ws>>
  BY DEF PollStarts, PollFails
<1>2. /\ poll' \in [at : {"off", "timer", "out"}, n : Nat]
      /\ poll'.at = "out" => poll'.n = client.lastId
  BY LoadEventsType, RearmedType DEF IInv, PollStarts, PollFails
<1>3. ws \in [at : {"off", "connecting", "open", "closed", "gaveup"},
              tries : Nat, due : Nat, pos : Nat]
  BY DEF IInv, TypeOK
<1>4. /\ ws' = ws
      /\ ws' \in [at : {"off", "connecting", "open", "closed", "gaveup"},
                   tries : Nat, due : Nat, pos : Nat]
  BY <1>1, <1>3
<1> HIDE DEF IInv
<1> QED
  BY <1>1, <1>2, <1>4, QuietKeepsIInv

LEMMA WsKeepsIInv ==
  ASSUME IInv, WsOpens \/ WsCloses \/ WsRetries
  PROVE  IInv'
<1> DEFINE W == [at : {"off", "connecting", "open", "closed", "gaveup"},
                 tries : Nat, due : Nat, pos : Nat]
<1>1. UNCHANGED <<transport, stream, promise, lag, client, received, since>>
  BY DEF WsOpens, WsCloses, WsRetries
<1>2. ws \in W /\ Len(stream) \in Nat /\ client.lastId \in Nat
  BY RangeOfStream, ClientFields DEF IInv, TypeOK
<1>3. poll \in [at : {"off", "timer", "out"}, n : Nat]
  BY DEF IInv, TypeOK
<1>4. /\ poll' \in [at : {"off", "timer", "out"}, n : Nat]
      /\ poll'.at = "out" =>
           poll'.n = client.lastId \/ (poll.at = "out" /\ poll'.n = poll.n)
  <2>1. poll' = poll \/ poll' = LoadEvents
    BY DEF WsOpens, WsCloses, WsRetries
  <2>2. /\ LoadEvents \in [at : {"off", "timer", "out"}, n : Nat]
        /\ LoadEvents.at = "out" => LoadEvents.n = client.lastId
    BY LoadEventsType DEF IInv
  <2> QED
    BY <1>3, <2>1, <2>2
<1>5. ws.at # "off"
  BY DEF WsOpens, WsCloses, WsRetries
<1>6. ws' \in W
  <2>1. CASE WsOpens
    BY <1>2, <2>1 DEF WsOpens
  <2>2. CASE WsCloses
    BY <1>2, <2>2, Constants DEF WsCloses
  <2>3. CASE WsRetries
    <3>1. ws' = [ws EXCEPT !.at = IF ws.tries < WsMaxRetries THEN "connecting" ELSE "gaveup",
                           !.tries = @ + 1, !.pos = client.lastId]
      BY <2>3 DEF WsRetries
    <3>2. ws.tries + 1 \in Nat
      BY <1>2
    <3> QED
      BY <1>2, <3>1, <3>2
  <2> QED
    BY <2>1, <2>2, <2>3
<1> QED
  BY <1>1, <1>4, <1>5, <1>6, QuietKeepsIInv

\* The steps that call processEvents.
LEMMA ProcessingKeepsIInv ==
  ASSUME IInv,
         (\E k \in DOMAIN client.timers : RetryFires(k)) \/ PollReturns \/ WsMessage
  PROVE  IInv'
<1>1. PICK c, es : Processing(c, es)
  BY RetryProcesses, PollProcesses, WsProcesses
<1>2. UNCHANGED <<transport, stream, lag>>
  BY <1>1 DEF Processing
<1>3. /\ client' \in Client /\ client'.failed = {}
      /\ promise' \in [OwnJobs -> {"none", "asked", "waiting"} \cup Settled]
      /\ since' \in [Jobs -> -1..(MaxRetries * MaxRetries)]
      /\ received' \subseteq DOMAIN stream
      /\ poll' \in [at : {"off", "timer", "out"}, n : Nat]
      /\ InRange' /\ Registered' /\ Seen' /\ ListenersArePending'
      /\ transport = "polling" =>
           /\ 1..client'.lastId \subseteq received'
           /\ poll'.at = "out" => 1..poll'.n \subseteq received'
           /\ \A i \in Entries(client)' : 1..i \subseteq received'
  BY <1>1, ProcessingKeeps
<1>4. /\ ws' \in [at : {"off", "connecting", "open", "closed", "gaveup"},
                   tries : Nat, due : Nat, pos : Nat]
      /\ ws.at = "off" => ws' = ws
  <2>1. ws \in [at : {"off", "connecting", "open", "closed", "gaveup"},
                tries : Nat, due : Nat, pos : Nat]
    BY DEF IInv, TypeOK
  <2>2. CASE ws' = ws
    BY <2>1, <2>2
  <2>3. CASE WsMessage
    BY <2>1, <2>3 DEF WsMessage
  <2> QED
    BY <2>2, <2>3 DEF RetryFires, PollReturns
<1>5. TypeOK'
  BY <1>2, <1>3, <1>4 DEF IInv, TypeOK
<1>6. Cursor'
  BY <1>2, <1>3, <1>4 DEF IInv, Cursor
<1> QED
  BY <1>3, <1>5, <1>6 DEF IInv

\* What a tick does to the retries that are coming.
LEMMA TickTimers ==
  ASSUME TypeOK, Tick
  PROVE  /\ client' \in Client /\ client'.listeners = client.listeners
         /\ client'.fetching = client.fetching /\ client'.failed = client.failed
         /\ client'.retries = client.retries /\ client'.lastId = client.lastId
         /\ DOMAIN client'.timers = DOMAIN client.timers
         /\ Len(client'.timers) = Len(client.timers)
         /\ \A k \in DOMAIN client.timers :
              /\ client'.timers[k].entry = client.timers[k].entry
              /\ client.timers[k].due > 0
              /\ client'.timers[k].due = client.timers[k].due - 1
<1> DEFINE T == [entry : Nat, due : Nat]
           t == client.timers
           u == [k \in DOMAIN t |-> Sooner(t[k])]
<1>1. client \in Client /\ t \in Seq(T)
  BY ClientFields DEF TypeOK
<1>2. client' = [client EXCEPT !.timers = u]
  BY Zenon DEF Tick
<1>3. /\ Len(t) \in Nat /\ DOMAIN t = 1..Len(t)
      /\ \A k \in DOMAIN t : t[k] \in T
  <2> HIDE DEF t, T
  <2>1. Len(t) \in Nat /\ DOMAIN t = 1..Len(t)
    BY <1>1
  <2> QED
    BY <1>1, <2>1, ElementOfSeq
<1>4. \A k \in DOMAIN t : t[k].due # 0
  BY DEF Tick, Due
<1>5. ASSUME NEW k \in DOMAIN t
      PROVE  /\ u[k] \in T /\ u[k].entry = t[k].entry /\ t[k].due > 0
             /\ u[k].due = t[k].due - 1
  <2>1. t[k] \in T /\ t[k].due # 0
    BY <1>3, <1>4
  <2>2. u[k] = Sooner(t[k])
    OBVIOUS
  <2> HIDE DEF t, u
  <2> QED
    BY <2>1, <2>2 DEF Sooner, Less
<1>6. DOMAIN u = DOMAIN t /\ u = [k \in DOMAIN t |-> u[k]]
  OBVIOUS
<1> HIDE DEF t, u, T
<1>7. u \in Seq(T) /\ Len(u) = Len(t)
  BY <1>3, <1>5, <1>6
<1>8. /\ client' \in Client /\ client'.listeners = client.listeners
      /\ client'.fetching = client.fetching /\ client'.failed = client.failed
      /\ client'.retries = client.retries /\ client'.lastId = client.lastId
      /\ client'.timers = u
  BY <1>1, <1>2, <1>7 DEF Client, T
<1> QED
  BY <1>5, <1>6, <1>7, <1>8 DEF t

LEMMA TickKeepsIInv ==
  ASSUME IInv, Tick
  PROVE  IInv'
<1>1. UNCHANGED <<transport, stream, promise, received>>
  BY DEF Tick
<1>2. /\ client' \in Client /\ client'.listeners = client.listeners
      /\ client'.fetching = client.fetching /\ client'.failed = client.failed
      /\ client'.retries = client.retries /\ client'.lastId = client.lastId
      /\ Entries(client)' = Entries(client)
  <2>1. TypeOK
    BY DEF IInv
  <2> QED
    BY <2>1, TickTimers DEF Entries
<1>3. \A q \in Jobs : EventsOf(q)' = EventsOf(q)
  BY <1>1 DEF EventsOf
<1>4. /\ poll' \in [at : {"off", "timer", "out"}, n : Nat] /\ poll'.at = poll.at
      /\ poll.at = "out" => poll' = poll
  <2>1. poll \in [at : {"off", "timer", "out"}, n : Nat]
    BY DEF IInv, TypeOK
  <2>2. poll' = IF poll.at = "timer" THEN [poll EXCEPT !.n = Less(@)] ELSE poll
    BY DEF Tick
  <2> QED
    BY <2>1, <2>2 DEF Less
<1>5. /\ ws' \in [at : {"off", "connecting", "open", "closed", "gaveup"},
                   tries : Nat, due : Nat, pos : Nat]
      /\ ws'.at = ws.at
  <2>1. ws \in [at : {"off", "connecting", "open", "closed", "gaveup"},
                tries : Nat, due : Nat, pos : Nat]
    BY DEF IInv, TypeOK
  <2>2. ws' = [ws EXCEPT !.due = Less(@)]
    BY DEF Tick
  <2> QED
    BY <2>1, <2>2 DEF Less
<1>6. /\ lag' \in [OwnJobs -> 0..ResponseLag]
      /\ \A j \in OwnJobs : promise[j] = "asked" => lag'[j] = lag[j] + 1
  <2>1. lag \in [OwnJobs -> 0..ResponseLag]
    BY DEF IInv, TypeOK
  <2>2. lag' = [j \in OwnJobs |-> IF promise[j] = "asked" THEN lag[j] + 1 ELSE lag[j]]
    BY DEF Tick
  <2>3. \A j \in OwnJobs : promise[j] = "asked" => lag[j] # ResponseLag
    BY DEF Tick, Due
  <2> QED
    BY <2>1, <2>2, <2>3, Constants
<1>7. /\ since' \in [Jobs -> -1..(MaxRetries * MaxRetries)]
      /\ \A j \in Jobs : ((since[j] = -1) <=> (since'[j] = -1))
                          /\ since'[j] <= since[j] + 1
  <2> DEFINE q == MaxRetries * MaxRetries
  <2>1. since \in [Jobs -> -1..q]
    BY DEF IInv, TypeOK
  <2>2. since' = [j \in Jobs |-> IF since[j] \in 0..(q - 1) THEN since[j] + 1 ELSE since[j]]
    BY DEF Tick
  <2>3. q \in Int
    BY Constants
  <2> HIDE DEF q
  <2>4. ASSUME NEW j \in Jobs
        PROVE  /\ since'[j] \in -1..q /\ ((since[j] = -1) <=> (since'[j] = -1))
               /\ since'[j] <= since[j] + 1
    <3>1. since[j] \in -1..q
           /\ since'[j] = IF since[j] \in 0..(q - 1) THEN since[j] + 1 ELSE since[j]
      BY <2>1, <2>2
    <3> QED
      BY <2>3, <3>1
  <2>5. since' \in [Jobs -> -1..q]
    BY <2>2, <2>4
  <2> QED
    BY <2>4, <2>5 DEF q
<1>8. TypeOK'
  BY <1>1, <1>2, <1>4, <1>5, <1>6, <1>7 DEF IInv, TypeOK
<1>9. InRange'
  BY <1>1, <1>2, <1>4 DEF IInv, InRange
<1>10. Cursor'
  BY <1>1, <1>2, <1>4, <1>5 DEF IInv, Cursor
<1>11. Registered'
  BY <1>1, <1>2, <1>3, Constants DEF IInv, Registered
<1>12. Seen'
  <2> SUFFICES ASSUME NEW j \in Jobs
               PROVE  /\ (since'[j] # -1) <=> (EventsOf(j)' \cap received' # {})
                      /\ since'[j] = -1 => client'.retries[j] = 0
                      /\ j \in OwnJobs /\ promise'[j] = "asked" => since'[j] <= lag'[j]
    BY DEF Seen
  <2>1. /\ (since[j] # -1) <=> (EventsOf(j) \cap received # {})
        /\ since[j] = -1 => client.retries[j] = 0
        /\ j \in OwnJobs /\ promise[j] = "asked" => since[j] <= lag[j]
    BY DEF IInv, Seen
  <2>2. ASSUME j \in OwnJobs, promise'[j] = "asked" PROVE since'[j] <= lag'[j]
    <3>1. since[j] <= lag[j] /\ lag'[j] = lag[j] + 1 /\ since'[j] <= since[j] + 1
      <4>1. promise[j] = "asked"
        BY <1>1, <2>2
      <4>2. lag'[j] = lag[j] + 1
        BY <1>6, <2>2, <4>1
      <4>3. since'[j] <= since[j] + 1
        BY <1>7
      <4> QED
        BY <2>1, <2>2, <4>1, <4>2, <4>3
    <3>2. since[j] \in Int /\ since'[j] \in Int
      <4> DEFINE q == MaxRetries * MaxRetries
      <4>1. since \in [Jobs -> -1..q] /\ since' \in [Jobs -> -1..q]
        BY <1>7 DEF IInv, TypeOK
      <4> HIDE DEF q
      <4> QED
        BY <4>1
    <3>3. lag[j] \in Nat
      BY <2>2 DEF IInv, TypeOK
    <3> QED
      BY <3>1, <3>2, <3>3
  <2>3. ((since[j] = -1) <=> (since'[j] = -1))
    BY <1>7
  <2>4. EventsOf(j)' \cap received' = EventsOf(j) \cap received
    BY <1>1, <1>3
  <2>5. client'.retries[j] = client.retries[j]
    BY <1>2
  <2> QED
    BY <2>1, <2>2, <2>3, <2>4, <2>5
<1>13. ListenersArePending'
  BY <1>1, <1>2 DEF IInv, ListenersArePending
<1> QED
  BY <1>8, <1>9, <1>10, <1>11, <1>12, <1>13 DEF IInv

LEMMA NextKeepsIInv == IInv /\ [Next]_vars => IInv'
<1> SUFFICES ASSUME IInv, [Next]_vars PROVE IInv'
  OBVIOUS
<1>1. CASE UNCHANGED vars
  <2>1. UNCHANGED <<transport, stream, promise, lag, client, received, since, poll, ws>>
    BY <1>1 DEF vars
  <2>2. /\ poll \in [at : {"off", "timer", "out"}, n : Nat]
        /\ ws \in [at : {"off", "connecting", "open", "closed", "gaveup"},
                   tries : Nat, due : Nat, pos : Nat]
    BY DEF IInv, TypeOK
  <2> QED
    BY <2>1, <2>2, QuietKeepsIInv
<1>2. CASE Next
  BY <1>2, PublishKeepsIInv, AskKeepsIInv, WaitForAsyncDataKeepsIInv,
     FetchReturnsKeepsIInv, ProcessingKeepsIInv, PollKeepsIInv, WsKeepsIInv,
     TickKeepsIInv DEF Next
<1> QED
  BY <1>1, <1>2

\* The invariant the theorems below follow from, with either transport.
THEOREM Invariance == Spec => []IInv
<1>1. Spec => Init /\ [][Next]_vars
  BY DEF Spec
<1> QED
  BY <1>1, InitIInv, NextKeepsIInv, PTL

\* The type invariant: no step puts a value of another kind into a variable,
\* and what was processed is in the stream (asyncEvent.ts:117-193).
THEOREM TypeCorrect == Spec => []TypeOK
<1>1. IInv => TypeOK
  BY DEF IInv
<1> QED
  BY <1>1, Invariance, PTL

\* Polling goes on only for promises that wait, or whose data are on the way:
\* no listener is left behind (asyncEvent.ts:92-118).
THEOREM NoListenerLeftBehind == Spec => []ListenersArePending
<1>1. IInv => ListenersArePending
  BY DEF IInv
<1> QED
  BY <1>1, Invariance, PTL

\* Polling skips nothing: every entry up to the last id has been processed,
\* although each retry moves the last id back (asyncEvent.ts:134-141).
THEOREM PollingSkipsNothing == Spec => []PollCursorSound
<1>1. IInv => PollCursorSound
  BY DEF IInv, Cursor, PollCursorSound
<1> QED
  BY <1>1, Invariance, PTL

-----------------------------------------------------------------------------
(***************************************************************************)
(* Sums: T is w[1] + ... + w[n], by its partial sums.                      *)
(***************************************************************************)
Partial(P, w, n) ==
  /\ P \in [0..n -> Int] /\ P[0] = 0
  /\ \A k \in 1..n : P[k] = P[k - 1] + w[k]

Adds(w, n, T) == \E P : Partial(P, w, n) /\ P[n] = T

LEMMA AddsAgree ==
  ASSUME NEW w, NEW v, NEW n \in Nat, NEW T, Adds(w, n, T),
         \A k \in 1..n : w[k] = v[k]
  PROVE  Adds(v, n, T)
BY DEF Adds, Partial

LEMMA AddsNothing ==
  ASSUME NEW w, NEW n \in Nat, \A k \in 1..n : w[k] = 0
  PROVE  Adds(w, n, 0)
<1> DEFINE P == [k \in 0..n |-> 0]
<1>1. Partial(P, w, n) /\ P[n] = 0
  BY DEF Partial
<1> QED
  BY <1>1 DEF Adds

LEMMA AddsToNothing ==
  ASSUME NEW w, NEW n \in Nat, NEW T, Adds(w, n, T), \A k \in 1..n : w[k] = 0
  PROVE  T = 0
<1>1. PICK P : Partial(P, w, n) /\ P[n] = T
  BY DEF Adds
<1> DEFINE S == {k \in Nat : k <= n => P[k] = 0}
<1>2. 0 \in S
  BY <1>1 DEF Partial
<1>3. ASSUME NEW k \in Nat, k \in S PROVE k + 1 \in S
  <2> SUFFICES ASSUME k + 1 <= n PROVE P[k + 1] = 0
    OBVIOUS
  <2>1. k + 1 \in 1..n /\ (k + 1) - 1 = k /\ k <= n
    OBVIOUS
  <2>2. P[k] = 0
    BY <1>3, <2>1
  <2>3. P[k + 1] = P[(k + 1) - 1] + w[k + 1]
    BY <1>1, <2>1 DEF Partial
  <2> QED
    BY <2>1, <2>2, <2>3
<1> HIDE DEF S
<1>4. Nat \subseteq S
  BY <1>2, <1>3, Induction
<1>5. n \in S
  BY <1>4
<1> QED
  BY <1>1, <1>5 DEF S

LEMMA AddsOneMore ==
  ASSUME NEW w, NEW v, NEW n \in Nat, NEW T, Adds(w, n, T), NEW x \in Int,
         \A k \in 1..n : v[k] = w[k], v[n + 1] = x
  PROVE  T \in Int /\ Adds(v, n + 1, T + x)
<1>1. PICK P : Partial(P, w, n) /\ P[n] = T
  BY DEF Adds
<1> DEFINE Q == [k \in 0..(n + 1) |-> IF k <= n THEN P[k] ELSE T + x]
<1>2. T \in Int
  <2>1. n \in 0..n
    OBVIOUS
  <2> QED
    BY <1>1, <2>1 DEF Partial
<1>3. Q \in [0..(n + 1) -> Int] /\ Q[0] = 0 /\ Q[n + 1] = T + x
  BY <1>1, <1>2 DEF Partial
<1>4. ASSUME NEW k \in 1..(n + 1) PROVE Q[k] = Q[k - 1] + v[k]
  <2>1. CASE k = n + 1
    <3>1. Q[k] = T + x /\ Q[k - 1] = P[n]
      BY <2>1
    <3> QED
      BY <1>1, <2>1, <3>1
  <2>2. CASE k # n + 1
    <3>1. k \in 1..n
      BY <2>2
    <3>2. Q[k] = P[k] /\ Q[k - 1] = P[k - 1]
      BY <3>1
    <3>3. P[k] = P[k - 1] + w[k]
      BY <1>1, <3>1 DEF Partial
    <3> QED
      BY <3>1, <3>2, <3>3
  <2> QED
    BY <2>1, <2>2
<1> HIDE DEF Q
<1>5. Partial(Q, v, n + 1)
  BY <1>3, <1>4 DEF Partial
<1> QED
  BY <1>2, <1>3, <1>5 DEF Adds

LEMMA AddsOneLess ==
  ASSUME NEW w, NEW v, NEW n \in Nat, NEW T, Adds(w, n, T), NEW k \in 1..n,
         \A i \in 1..n : w[i] \in Int,
         \A i \in 1..(n - 1) : v[i] = IF i < k THEN w[i] ELSE w[i + 1]
  PROVE  T \in Int /\ Adds(v, n - 1, T - w[k])
<1>1. PICK P : Partial(P, w, n) /\ P[n] = T
  BY DEF Adds
<1> DEFINE x == w[k]
           Q == [i \in 0..(n - 1) |-> IF i < k THEN P[i] ELSE P[i + 1] - x]
<1>2. T \in Int /\ x \in Int /\ \A i \in 0..n : P[i] \in Int
  <2>1. n \in 0..n
    OBVIOUS
  <2> QED
    BY <1>1, <2>1 DEF Partial
<1>3. \A i \in 1..n : P[i] = P[i - 1] + w[i]
  BY <1>1 DEF Partial
<1> HIDE DEF x
<1>4. Q \in [0..(n - 1) -> Int]
  <2>1. \A i \in 0..(n - 1) : i \in 0..n /\ i + 1 \in 0..n
    OBVIOUS
  <2> QED
    BY <1>2, <2>1
<1>5. Q[0] = 0
  BY <1>1 DEF Partial
<1>6. Q[n - 1] = T - x
  <2>1. CASE k = n
    <3>1. Q[n - 1] = P[n - 1] /\ P[n] = P[n - 1] + x
      BY <1>3, <2>1 DEF x
    <3>2. n - 1 \in 0..n
      OBVIOUS
    <3>3. P[n - 1] \in Int
      BY <1>2, <3>2
    <3> QED
      BY <1>1, <1>2, <3>1, <3>3
  <2>2. CASE k # n
    <3>1. ~ (n - 1 < k) /\ n - 1 \in 0..(n - 1) /\ (n - 1) + 1 = n
      BY <2>2
    <3> QED
      BY <1>1, <3>1
  <2> QED
    BY <2>1, <2>2
<1>7. ASSUME NEW i \in 1..(n - 1) PROVE Q[i] = Q[i - 1] + v[i]
  <2>0. i \in 0..(n - 1) /\ i - 1 \in 0..(n - 1) /\ i \in 1..n /\ i + 1 \in 1..n
         /\ (i + 1) - 1 = i /\ (i - 1) + 1 = i /\ i \in 0..n /\ i - 1 \in 0..n
         /\ i + 1 \in 0..n
    OBVIOUS
  <2>1. /\ P[i] = P[i - 1] + w[i] /\ P[i + 1] = P[i] + w[i + 1]
        /\ P[i] \in Int /\ P[i - 1] \in Int /\ P[i + 1] \in Int
        /\ w[i] \in Int /\ w[i + 1] \in Int
    <3>1. P[i + 1] = P[(i + 1) - 1] + w[i + 1]
      BY <1>3, <2>0
    <3> QED
      BY <1>2, <1>3, <2>0, <3>1
  <2>2. /\ Q[i] = IF i < k THEN P[i] ELSE P[i + 1] - x
        /\ Q[i - 1] = IF i - 1 < k THEN P[i - 1] ELSE P[(i - 1) + 1] - x
    BY <2>0
  <2> HIDE DEF Q
  <2>3. CASE i < k
    BY <2>0, <2>1, <2>2, <2>3
  <2>4. CASE i = k
    <3>1. Q[i] = P[i + 1] - x /\ Q[i - 1] = P[i - 1] /\ v[i] = w[i + 1] /\ w[i] = x
      BY <2>2, <2>4 DEF x
    <3> QED
      BY <1>2, <2>1, <3>1
  <2>5. CASE i > k
    <3>1. Q[i] = P[i + 1] - x /\ Q[i - 1] = P[i] - x /\ v[i] = w[i + 1]
      BY <2>0, <2>2, <2>5
    <3> QED
      BY <1>2, <2>1, <3>1
  <2> QED
    BY <2>3, <2>4, <2>5
<1> HIDE DEF Q
<1>8. Partial(Q, v, n - 1)
  BY <1>4, <1>5, <1>7 DEF Partial
<1> QED
  BY <1>2, <1>6, <1>8 DEF Adds, x

-----------------------------------------------------------------------------
(***************************************************************************)
(* How long a job is retried.  Its event is e delays old; a retry that     *)
(* fires when the event is e + due old has a weight of e + due.  Tri(r) is *)
(* twice the time the first r retries wait; r retries that follow each     *)
(* other without a reset leave weights of at least Tri(r) / 2, and each    *)
(* reset at MaxRetries leaves Tri(MaxRetries) / 2 - e more.  b: the last   *)
(* round has ended; otherwise a retry of the job has just fired.           *)
(***************************************************************************)
Tri(r) == r * (r + 1)

Weights(c, j, e) ==
  [k \in DOMAIN c.timers |->
     IF stream[c.timers[k].entry].job = j THEN e + c.timers[k].due ELSE 0]

Enough(r, e, T, b) ==
  \/ Tri(MaxRetries) - 2 * e + Tri(r) <= 2 * T + (IF b THEN 0 ELSE 2 * e)
  \/ Tri(r) <= 2 * T + (IF b THEN 0 ELSE 2 * e) /\ (b => r >= 1)

BackedBy(c, j, e, b) ==
  \E T \in Int : /\ Adds(Weights(c, j, e), Len(c.timers), T)
                /\ Enough(c.retries[j], e, T, b)

LEMMA TriSteps ==
  /\ Tri(0) = 0
  /\ \A r \in Nat : Tri(r) \in Nat /\ Tri(r + 1) = Tri(r) + 2 * (r + 1)
  /\ \A r \in Nat : r >= 1 => Tri(r) >= 2
<1>1. Tri(0) = 0
  BY DEF Tri
<1>2. ASSUME NEW r \in Nat
      PROVE  /\ Tri(r) \in Nat /\ Tri(r + 1) = Tri(r) + 2 * (r + 1)
             /\ r >= 1 => Tri(r) >= 2
  <2>1. r * (r + 1) \in Nat
    OBVIOUS
  <2>2. (r + 1) * ((r + 1) + 1) = r * (r + 1) + 2 * (r + 1)
    OBVIOUS
  <2>3. r >= 1 => r * (r + 1) >= 2
    <3>1. ASSUME r >= 1 PROVE r * (r + 1) >= 1 * (r + 1)
      BY <3>1
    <3>2. 1 * (r + 1) = r + 1
      OBVIOUS
    <3> QED
      BY <2>1, <3>1, <3>2
  <2> QED
    BY <2>1, <2>2, <2>3 DEF Tri
<1> QED
  BY <1>1, <1>2

LEMMA EnoughSteps ==
  ASSUME NEW r \in Nat, NEW e \in Nat, NEW T \in Int, NEW b \in BOOLEAN,
         2 * e <= Tri(MaxRetries), Enough(r, e, T, b)
  PROVE  /\ Enough(r + 1, e, T + (e + (r + 1)), TRUE)
         /\ r = MaxRetries => Enough(0, e, T, TRUE)
         /\ b => Enough(r, e, T - e, FALSE)
<1>1. /\ Tri(r) \in Nat /\ Tri(r + 1) = Tri(r) + 2 * (r + 1) /\ Tri(0) = 0
      /\ Tri(MaxRetries) \in Nat
  BY TriSteps, Constants
<1>2. Enough(r + 1, e, T + (e + (r + 1)), TRUE)
  BY <1>1 DEF Enough
<1>3. r = MaxRetries => Enough(0, e, T, TRUE)
  BY <1>1 DEF Enough
<1>4. b => Enough(r, e, T - e, FALSE)
  BY <1>1 DEF Enough
<1> QED
  BY <1>2, <1>3, <1>4

LEMMA WeightsType ==
  ASSUME NEW c \in Client, NEW j, NEW e \in Nat
  PROVE  /\ Len(c.timers) \in Nat /\ DOMAIN c.timers = 1..Len(c.timers)
         /\ \A k \in 1..Len(c.timers) :
              /\ Weights(c, j, e)[k] \in Int
              /\ c.timers[k].due \in Nat /\ c.timers[k].entry \in Nat
              /\ Weights(c, j, e)[k] = IF stream[c.timers[k].entry].job = j
                                       THEN e + c.timers[k].due ELSE 0
<1> DEFINE t == c.timers
<1>1. t \in Seq([entry : Nat, due : Nat])
  BY ClientFields
<1>2. /\ Len(t) \in Nat /\ DOMAIN t = 1..Len(t)
      /\ \A k \in 1..Len(t) : t[k] \in [entry : Nat, due : Nat]
  <2> HIDE DEF t
  <2>1. Len(t) \in Nat /\ DOMAIN t = 1..Len(t)
    BY <1>1
  <2> QED
    BY <1>1, <2>1, ElementOfSeq
<1> QED
  BY <1>2 DEF Weights

\* One round of processEvents for a job nobody here waits for yet.
LEMMA BackedEvent ==
  ASSUME StreamOK, NEW c \in Client, NEW i \in DOMAIN stream, NEW j \in Jobs,
         j \notin c.listeners, NEW e \in Nat, 2 * e <= Tri(MaxRetries),
         NEW b \in BOOLEAN, BackedBy(c, j, e, b), NEW d, d = ProcessEvent(c, i)
  PROVE  BackedBy(d, j, e, b \/ stream[i].job = j)
<1> DEFINE q == stream[i].job
           n == Len(c.timers)
<1>1. /\ d \in Client /\ d.lastId = i
      /\ Takes(c, d, q) \/ Rejects(c, d, q) \/ Delays(c, d, q, i) \/ GivesUp(c, d, q)
  BY EventEffect
<1>2. q \in Jobs /\ i \in Nat
  BY StreamEntry
<1>3. PICK T \in Int : Adds(Weights(c, j, e), n, T) /\ Enough(c.retries[j], e, T, b)
  BY DEF BackedBy
<1>4. /\ c.retries \in [Jobs -> 0..MaxRetries] /\ c.retries[j] \in Nat
      /\ c.retries[j] <= MaxRetries /\ MaxRetries \in Nat
      /\ c.timers \in Seq([entry : Nat, due : Nat])
  BY ClientFields, Constants
<1>5. n \in Nat
  BY WeightsType
<1>6. d.timers = c.timers => Weights(d, j, e) = Weights(c, j, e) /\ Len(d.timers) = n
  BY DEF Weights
<1>7. ASSUME Delays(c, d, q, i)
      PROVE  /\ Len(d.timers) = n + 1
             /\ Adds(Weights(d, j, e), n + 1,
                     T + (IF q = j THEN e + (c.retries[q] + 1) ELSE 0))
  <2> DEFINE t == [entry |-> i, due |-> c.retries[q] + 1]
             x == IF q = j THEN e + (c.retries[q] + 1) ELSE 0
  <2>1. d.timers = Append(c.timers, t)
    BY <1>7 DEF Delays
  <2>2. t.entry = i /\ t.due = c.retries[q] + 1 /\ c.retries[q] \in Nat
    BY <1>2, <1>4
  <2> HIDE DEF t, n
  <2>3. /\ Len(d.timers) = n + 1 /\ d.timers[n + 1] = t
        /\ \A k \in 1..n : d.timers[k] = c.timers[k]
    BY <1>4, <2>1 DEF n
  <2>4. /\ \A k \in 1..n : Weights(d, j, e)[k] = Weights(c, j, e)[k]
        /\ Weights(d, j, e)[n + 1] = x
    <3>1. \A k \in 1..(n + 1) : Weights(d, j, e)[k] =
             IF stream[d.timers[k].entry].job = j THEN e + d.timers[k].due ELSE 0
      BY <1>1, <2>3, WeightsType
    <3>2. \A k \in 1..n : Weights(c, j, e)[k] =
             IF stream[c.timers[k].entry].job = j THEN e + c.timers[k].due ELSE 0
      BY WeightsType DEF n
    <3>3. n + 1 \in 1..(n + 1) /\ \A k \in 1..n : k \in 1..(n + 1)
      BY <1>5
    <3>4. Weights(d, j, e)[n + 1] = x
      BY <2>2, <2>3, <3>1, <3>3
    <3>5. ASSUME NEW k \in 1..n
          PROVE  Weights(d, j, e)[k] = Weights(c, j, e)[k]
      <4>1. k \in 1..(n + 1) /\ d.timers[k] = c.timers[k]
        BY <2>3, <3>3
      <4> QED
        BY <3>1, <3>2, <4>1
    <3> QED
      BY <3>4, <3>5
  <2>5. x \in Int
    BY <2>2
  <2> HIDE DEF x
  <2>6. Adds(Weights(d, j, e), n + 1, T + x)
    BY <1>3, <1>5, <2>4, <2>5, AddsOneMore
  <2> QED
    BY <2>3, <2>6 DEF x
<1>8. CASE q # j
  <2>1. d.retries[j] = c.retries[j]
    BY <1>1, <1>4, <1>8 DEF Takes, Rejects, Delays, GivesUp
  <2>2. (b \/ q = j) = b
    BY <1>8
  <2>3. Adds(Weights(d, j, e), Len(d.timers), T)
    <3>1. CASE Delays(c, d, q, i)
      <4>1. T + 0 = T
        OBVIOUS
      <4> QED
        BY <1>7, <1>8, <3>1, <4>1
    <3>2. CASE d.timers = c.timers
      BY <1>3, <1>6, <3>2
    <3> QED
      BY <1>1, <3>1, <3>2 DEF Takes, Rejects, GivesUp
  <2> QED
    BY <1>3, <2>1, <2>2, <2>3 DEF BackedBy
<1>9. CASE q = j
  <2>1. (b \/ q = j) = TRUE
    BY <1>9
  <2>2. CASE Delays(c, d, q, i)
    <3> DEFINE r == c.retries[j]
    <3>1. d.retries[j] = r + 1
      BY <1>4, <1>9, <2>2 DEF Delays
    <3>2. Adds(Weights(d, j, e), Len(d.timers), T + (e + (r + 1)))
      BY <1>7, <1>9, <2>2
    <3>3. Enough(r + 1, e, T + (e + (r + 1)), TRUE)
      BY <1>3, <1>4, EnoughSteps
    <3>4. T + (e + (r + 1)) \in Int
      BY <1>4
    <3> QED
      BY <2>1, <3>1, <3>2, <3>3, <3>4 DEF BackedBy
  <2>3. CASE GivesUp(c, d, q)
    <3>1. c.retries[j] = MaxRetries /\ d.retries[j] = 0 /\ d.timers = c.timers
      BY <1>4, <1>9, <2>3 DEF GivesUp
    <3>2. Enough(0, e, T, TRUE)
      BY <1>3, <1>4, <3>1, EnoughSteps
    <3> QED
      BY <1>3, <1>6, <2>1, <3>1, <3>2 DEF BackedBy
  <2> QED
    BY <1>1, <1>9, <2>2, <2>3 DEF Takes, Rejects
<1> QED
  BY <1>8, <1>9

\* A call of processEvents for such a job.
LEMMA BackedRun ==
  ASSUME StreamOK, NEW c \in Client, NEW es, Len(es) \in Nat,
         Reads(es) \subseteq DOMAIN stream, NEW j \in Jobs, j \notin c.listeners,
         NEW e \in Nat, 2 * e <= Tri(MaxRetries), NEW b \in BOOLEAN,
         BackedBy(c, j, e, b), NEW run, Run(run, c, es),
         \A k \in 0..Len(es) : Kept(c, run[k], es, k),
         b \/ \E i \in Reads(es) : stream[i].job = j
  PROVE  BackedBy(run[Len(es)], j, e, TRUE)
<1> DEFINE n == Len(es)
           seen(k) == b \/ \E l \in 1..k : stream[es[l]].job = j
           S == {k \in Nat : k <= n => BackedBy(run[k], j, e, seen(k))}
<1>1. 0 \in S
  <2>1. run[0] = c
    BY DEF Run
  <2>2. seen(0) = b
    OBVIOUS
  <2> QED
    BY <2>1, <2>2
<1>2. ASSUME NEW k \in Nat, k \in S PROVE k + 1 \in S
  <2> SUFFICES ASSUME k + 1 <= n PROVE BackedBy(run[k + 1], j, e, seen(k + 1))
    OBVIOUS
  <2>1. k + 1 \in 1..n /\ k \in 0..n /\ k <= n /\ (k + 1) - 1 = k
    OBVIOUS
  <2>2. BackedBy(run[k], j, e, seen(k))
    BY <1>2, <2>1
  <2>3. run[k + 1] = ProcessEvent(run[k], es[k + 1])
    BY <2>1 DEF Run
  <2>4. es[k + 1] \in DOMAIN stream
    BY <2>1 DEF Reads
  <2>5. run[k] \in Client /\ j \notin run[k].listeners
    BY <2>1 DEF Kept
  <2>6. (seen(k) \/ stream[es[k + 1]].job = j) = seen(k + 1)
    <3>1. \A l \in 1..(k + 1) : l \in 1..k \/ l = k + 1
      OBVIOUS
    <3>2. k + 1 \in 1..(k + 1) /\ \A l \in 1..k : l \in 1..(k + 1)
      OBVIOUS
    <3> QED
      BY <3>1, <3>2
  <2>7. seen(k) \in BOOLEAN
    OBVIOUS
  <2> HIDE DEF seen, S
  <2> QED
    BY <2>2, <2>3, <2>4, <2>5, <2>6, <2>7, BackedEvent
<1> HIDE DEF S
<1>3. Nat \subseteq S
  BY <1>1, <1>2, Induction
<1>4. BackedBy(run[n], j, e, seen(n))
  BY <1>3 DEF S
<1>5. seen(n) = TRUE
  BY DEF Reads
<1> HIDE DEF seen
<1> QED
  BY <1>4, <1>5

\* A job whose event did not come has no retry.
LEMMA BackedFresh ==
  ASSUME NEW c \in Client, NEW j \in Jobs, c.retries[j] = 0, ~ HasTimer(c, j)
  PROVE  BackedBy(c, j, 0, FALSE)
<1> DEFINE w == Weights(c, j, 0)
           n == Len(c.timers)
<1>1. n \in Nat /\ DOMAIN c.timers = 1..n
      /\ \A k \in 1..n : w[k] = IF stream[c.timers[k].entry].job = j
                               THEN 0 + c.timers[k].due ELSE 0
  BY WeightsType
<1>2. \A k \in 1..n : w[k] = 0
  BY <1>1 DEF HasTimer
<1> HIDE DEF w, n
<1>3. Adds(w, n, 0)
  BY <1>1, <1>2, AddsNothing
<1>4. Enough(0, 0, 0, FALSE)
  BY TriSteps DEF Enough
<1>5. Enough(c.retries[j], 0, 0, FALSE)
  BY <1>4, Zenon
<1>6. 0 \in Int
  OBVIOUS
<1> QED
  BY <1>3, <1>5, <1>6, Zenon DEF BackedBy, w, n

LEMMA BackedRemove ==
  ASSUME TypeOK, NEW k \in DOMAIN client.timers, client.timers[k].due = 0,
         NEW j \in Jobs, NEW e \in Nat, 2 * e <= Tri(MaxRetries),
         BackedBy(client, j, e, TRUE)
  PROVE  BackedBy(Without(k), j, e, stream[client.timers[k].entry].job # j)
<1> DEFINE t == client.timers
           n == Len(t)
           c == Without(k)
           u == RemoveAt(t, k)
           w == Weights(client, j, e)
           v == Weights(c, j, e)
           b == stream[t[k].entry].job # j
<1>1. /\ client \in Client /\ t \in Seq([entry : Nat, due : Nat])
      /\ client.retries \in [Jobs -> 0..MaxRetries]
  BY ClientFields DEF TypeOK
<1>2. /\ n \in Nat /\ k \in 1..n /\ n - 1 \in Nat /\ Len(u) = n - 1
      /\ DOMAIN u = 1..(n - 1)
      /\ \A i \in 1..(n - 1) : u[i] = IF i < k THEN t[i] ELSE t[i + 1]
  <2> DEFINE E == [entry : Nat, due : Nat]
  <2>1. k \in DOMAIN t /\ t \in Seq(E)
    BY <1>1
  <2> HIDE DEF t, E, n, w, v, c, b
  <2> QED
    BY <2>1, RemoveOne DEF n
<1>3. c \in Client /\ c.timers = u /\ c.retries = client.retries
  BY TimersWithout
<1>4. \A i \in 1..n : /\ w[i] \in Int
                      /\ w[i] = IF stream[t[i].entry].job = j THEN e + t[i].due ELSE 0
  BY <1>1, WeightsType
<1>5. \A i \in 1..(n - 1) :
        v[i] = IF stream[u[i].entry].job = j THEN e + u[i].due ELSE 0
  <2>1. \A i \in 1..Len(c.timers) :
          v[i] = IF stream[c.timers[i].entry].job = j THEN e + c.timers[i].due ELSE 0
    <3> HIDE DEF c
    <3>1. c \in Client
      BY <1>3
    <3> HIDE DEF t, n, u, w, b
    <3> QED
      BY <3>1, WeightsType
  <2> HIDE DEF c, u, v
  <2> QED
    BY <1>2, <1>3, <2>1
<1>6. w[k] = IF b THEN 0 ELSE e
  BY <1>2, <1>4
<1>7. PICK T \in Int : Adds(w, n, T) /\ Enough(client.retries[j], e, T, TRUE)
  BY DEF BackedBy
<1> HIDE DEF t, n, c, u, w, v, b
<1>8. \A i \in 1..(n - 1) : v[i] = IF i < k THEN w[i] ELSE w[i + 1]
  <2> TAKE i \in 1..(n - 1)
  <2>1. i \in 1..n /\ i + 1 \in 1..n
    BY <1>2
  <2>2. w[i] = IF stream[t[i].entry].job = j THEN e + t[i].due ELSE 0
    BY <1>4, <2>1
  <2>3. w[i + 1] = IF stream[t[i + 1].entry].job = j THEN e + t[i + 1].due ELSE 0
    BY <1>4, <2>1
  <2>4. v[i] = IF stream[u[i].entry].job = j THEN e + u[i].due ELSE 0
    BY <1>5
  <2>5. u[i] = IF i < k THEN t[i] ELSE t[i + 1]
    BY <1>2
  <2> QED
    BY <2>2, <2>3, <2>4, <2>5
<1>9. Adds(v, n - 1, T - w[k])
  BY <1>2, <1>4, <1>7, <1>8, AddsOneLess
<1>10. c.retries[j] \in Nat /\ c.retries[j] = client.retries[j]
  BY <1>1, <1>3, Constants
<1>11. b \in BOOLEAN
  BY DEF b
<1>12. T - w[k] \in Int /\ Enough(c.retries[j], e, T - w[k], b)
  <2>1. CASE b
    <3>1. T - w[k] = T /\ b = TRUE
      BY <1>6, <1>11, <2>1
    <3> QED
      BY <1>7, <1>10, <3>1
  <2>2. CASE ~ b
    <3>1. T - w[k] = T - e /\ b = FALSE
      BY <1>6, <1>11, <2>2
    <3>2. Enough(c.retries[j], e, T - e, FALSE)
      BY <1>7, <1>10, EnoughSteps
    <3>3. T - w[k] \in Int
      BY <3>1
    <3> QED
      BY <3>1, <3>2, <3>3, Zenon
  <2> QED
    BY <2>1, <2>2
<1>13. Adds(Weights(c, j, e), Len(c.timers), T - w[k])
  BY <1>2, <1>3, <1>9 DEF v
<1>14. BackedBy(c, j, e, b)
  BY <1>12, <1>13 DEF BackedBy
<1> QED
  BY <1>14 DEF c, b, t

\* As long as there is enough, a retry is coming.
LEMMA BackedRetries ==
  ASSUME NEW c \in Client, NEW j \in Jobs, NEW e \in Nat, 2 * e < Tri(MaxRetries),
         BackedBy(c, j, e, TRUE)
  PROVE  HasTimer(c, j)
<1> SUFFICES ASSUME ~ HasTimer(c, j) PROVE FALSE
  OBVIOUS
<1> DEFINE w == Weights(c, j, e)
           n == Len(c.timers)
<1>1. n \in Nat /\ DOMAIN c.timers = 1..n
      /\ \A k \in 1..n : w[k] = IF stream[c.timers[k].entry].job = j
                               THEN e + c.timers[k].due ELSE 0
  BY WeightsType
<1>2. \A k \in 1..n : w[k] = 0
  BY <1>1 DEF HasTimer
<1>3. PICK T \in Int : Adds(w, n, T) /\ Enough(c.retries[j], e, T, TRUE)
  BY DEF BackedBy
<1> HIDE DEF w, n
<1>4. T = 0
  BY <1>1, <1>2, <1>3, AddsToNothing
<1>5. c.retries[j] \in Nat
  BY ClientFields, Constants
<1>6. /\ Tri(c.retries[j]) \in Nat /\ Tri(MaxRetries) \in Nat
      /\ c.retries[j] >= 1 => Tri(c.retries[j]) >= 2
  BY <1>5, TriSteps, Constants
<1> QED
  BY <1>3, <1>4, <1>6 DEF Enough

-----------------------------------------------------------------------------
(***************************************************************************)
(* The job of a promise whose 202 is still out is not given up early.      *)
(***************************************************************************)
Backed ==
  \A j \in OwnJobs, e \in Nat :
    promise[j] = "asked" /\ since[j] = e /\ 2 * e < Tri(MaxRetries)
      => BackedBy(client, j, e, TRUE)

LEMMA BackedCarries ==
  ASSUME TypeOK, NEW j \in Jobs, NEW e \in Nat, NEW f \in Nat, e <= f,
         BackedBy(client, j, e, TRUE), client'.retries[j] = client.retries[j],
         Len(client'.timers) = Len(client.timers),
         \A k \in 1..Len(client.timers) :
           Weights(client, j, f)'[k] = Weights(client, j, e)[k]
  PROVE  BackedBy(client, j, f, TRUE)'
<1>1. Len(client.timers) \in Nat /\ client.retries[j] \in Nat
  <2>1. client \in Client /\ 0 \in Nat /\ MaxRetries \in Nat
    BY Constants DEF TypeOK
  <2>2. Len(client.timers) \in Nat
    BY <2>1, WeightsType
  <2>3. client.retries \in [Jobs -> 0..MaxRetries]
    BY <2>1, ClientFields
  <2>4. client.retries[j] \in 0..MaxRetries
    BY <2>3
  <2> QED
    BY <2>1, <2>2, <2>4
<1>2. PICK T \in Int : /\ Adds(Weights(client, j, e), Len(client.timers), T)
                      /\ Enough(client.retries[j], e, T, TRUE)
  BY DEF BackedBy
<1>3. Adds(Weights(client, j, f)', Len(client.timers), T)
  BY <1>1, <1>2, AddsAgree
<1>4. Enough(client.retries[j], f, T, TRUE)
  <2>1. Tri(client.retries[j]) \in Nat /\ Tri(MaxRetries) \in Nat
    BY <1>1, TriSteps, Constants
  <2> QED
    BY <1>2, <2>1 DEF Enough
<1>5. Adds(Weights(client, j, f), Len(client.timers), T)'
  BY <1>3 DEF Adds, Partial
<1>6. Enough(client.retries[j], f, T, TRUE)'
  BY <1>4 DEF Enough
<1> QED
  BY <1>5, <1>6 DEF BackedBy

LEMMA NoTimerBefore ==
  ASSUME IInv, NEW j \in Jobs, since[j] = -1
  PROVE  ~ HasTimer(client, j) /\ client.retries[j] = 0
<1>1. EventsOf(j) \cap received = {} /\ client.retries[j] = 0
  BY DEF IInv, Seen
<1>2. Entries(client) \subseteq received /\ received \subseteq DOMAIN stream
  BY DEF IInv, InRange, TypeOK
<1> QED
  BY <1>1, <1>2 DEF HasTimer, Entries, EventsOf

LEMMA ProcessingKeepsBacked ==
  ASSUME IInv, Backed, NEW c, NEW es, Processing(c, es), NEW j \in OwnJobs,
         NEW e \in Nat, promise'[j] = "asked", since'[j] = e, 2 * e < Tri(MaxRetries),
         since[j] # -1 =>
           \E b \in BOOLEAN : /\ BackedBy(c, j, e, b)
                              /\ b \/ \E i \in Reads(es) : stream[i].job = j
  PROVE  BackedBy(client, j, e, TRUE)'
<1>1. StreamOK /\ j \in Jobs
  BY RangeOfStream, Constants DEF IInv
<1>2. PICK run : /\ Run(run, c, es) /\ \A k \in 0..Len(es) : Kept(c, run[k], es, k)
                 /\ Leaves(c, es, run[Len(es)])
  BY <1>1, ProcessingEffect
<1> DEFINE after == run[Len(es)]
<1>3. /\ c \in Client /\ c.listeners = client.listeners /\ c.retries = client.retries
      /\ Entries(c) \subseteq Entries(client)
      /\ Len(es) \in Nat /\ Reads(es) \subseteq DOMAIN stream /\ stream' = stream
  BY DEF Processing
<1>4. /\ client'.retries = after.retries /\ client'.timers = after.timers
      /\ promise[j] = "asked"
      /\ since'[j] = IF since[j] = -1 /\ \E i \in Reads(es) : stream[i].job = j
                    THEN 0 ELSE since[j]
  BY <1>1, <1>2 DEF Leaves
<1>5. j \notin c.listeners
  BY <1>3, <1>4 DEF IInv, Registered
<1>6. PICK b \in BOOLEAN : /\ BackedBy(c, j, e, b)
                           /\ b \/ \E i \in Reads(es) : stream[i].job = j
  <2>1. CASE since[j] # -1
    BY <2>1
  <2>2. CASE since[j] = -1
    <3>1. e = 0 /\ \E i \in Reads(es) : stream[i].job = j
      BY <1>4, <2>2
    <3>2. ~ HasTimer(client, j) /\ c.retries[j] = 0
      BY <1>1, <1>3, <2>2, NoTimerBefore
    <3>3. ~ HasTimer(c, j)
      BY <1>3, <3>2 DEF HasTimer, Entries
    <3>4. BackedBy(c, j, 0, FALSE)
      BY <1>1, <1>3, <3>2, <3>3, BackedFresh
    <3> QED
      BY <3>1, <3>4
  <2> QED
    BY <2>1, <2>2
<1>7. 2 * e <= Tri(MaxRetries)
  BY TriSteps, Constants
<1>8. BackedBy(after, j, e, TRUE)
  BY <1>1, <1>2, <1>3, <1>5, <1>6, <1>7, BackedRun
<1> HIDE DEF after
<1>9. PICK T \in Int : /\ Adds(Weights(after, j, e), Len(after.timers), T)
                      /\ Enough(after.retries[j], e, T, TRUE)
  BY <1>8 DEF BackedBy
<1>10. Weights(client, j, e)' = Weights(after, j, e)
  BY <1>3, <1>4 DEF Weights
<1>11. Adds(Weights(client, j, e), Len(client.timers), T)'
  BY <1>4, <1>9, <1>10 DEF Adds, Partial
<1>12. Enough(client.retries[j], e, T, TRUE)'
  BY <1>4, <1>9 DEF Enough
<1> QED
  BY <1>11, <1>12 DEF BackedBy

\* The steps that leave the retries and the events that came alone.
LEMMA QuietKeepsBacked ==
  ASSUME IInv, Backed, UNCHANGED since,
         client'.timers = client.timers, client'.retries = client.retries,
         \A i \in DOMAIN stream : stream'[i] = stream[i],
         \A j \in OwnJobs : promise'[j] = "asked" => promise[j] = "asked" \/ since[j] = -1
  PROVE  Backed'
<1> SUFFICES ASSUME NEW j \in OwnJobs, NEW e \in Nat, promise'[j] = "asked",
                    since'[j] = e, 2 * e < Tri(MaxRetries)
             PROVE  BackedBy(client, j, e, TRUE)'
  BY DEF Backed, Tri
<1>1. promise[j] = "asked" /\ since[j] = e /\ j \in Jobs
  BY Constants
<1>2. BackedBy(client, j, e, TRUE)
  BY <1>1 DEF Backed
<1>3. TypeOK /\ client \in Client
  BY DEF IInv, TypeOK
<1>4. \A k \in DOMAIN client.timers : client.timers[k].entry \in DOMAIN stream
  BY DEF IInv, InRange, TypeOK, Entries
<1>5. /\ DOMAIN client.timers = 1..Len(client.timers)
      /\ \A k \in 1..Len(client.timers) :
           Weights(client, j, e)'[k] = Weights(client, j, e)[k]
  <2>1. DOMAIN client.timers = 1..Len(client.timers)
    BY <1>3, WeightsType
  <2> QED
    BY <1>4, <2>1 DEF Weights
<1>6. e <= e /\ client'.retries[j] = client.retries[j]
      /\ Len(client'.timers) = Len(client.timers)
  OBVIOUS
<1> QED
  BY <1>1, <1>2, <1>3, <1>5, <1>6, BackedCarries

LEMMA ProcessingStepsKeepBacked ==
  ASSUME IInv, Backed,
         (\E k \in DOMAIN client.timers : RetryFires(k)) \/ PollReturns \/ WsMessage
  PROVE  Backed'
<1> SUFFICES ASSUME NEW j \in OwnJobs, NEW e \in Nat, promise'[j] = "asked",
                    since'[j] = e, 2 * e < Tri(MaxRetries)
             PROVE  BackedBy(client, j, e, TRUE)'
  BY DEF Backed, Tri
<1>0. j \in Jobs /\ 2 * e <= Tri(MaxRetries) /\ TypeOK
  BY TriSteps, Constants DEF IInv
<1>1. ASSUME NEW c, NEW es, Processing(c, es), since[j] # -1
      PROVE  promise[j] = "asked" /\ since[j] = e /\ BackedBy(client, j, e, TRUE)
  <2>1. PICK after : Leaves(c, es, after)
    <3>1. StreamOK
      BY RangeOfStream DEF IInv
    <3> QED
      BY <1>1, <3>1, ProcessingEffect
  <2>2. promise[j] = "asked" /\ since[j] = e
    BY <1>0, <1>1, <2>1 DEF Leaves
  <2> QED
    BY <2>2 DEF Backed
<1>2. ASSUME NEW es, Processing(client, es)
      PROVE  BackedBy(client, j, e, TRUE)'
  <2>1. since[j] # -1 =>
          \E b \in BOOLEAN : /\ BackedBy(client, j, e, b)
                             /\ b \/ \E i \in Reads(es) : stream[i].job = j
    BY <1>1, <1>2
  <2> QED
    BY <1>2, <2>1, ProcessingKeepsBacked
<1>3. ASSUME NEW k \in DOMAIN client.timers, RetryFires(k)
      PROVE  BackedBy(client, j, e, TRUE)'
  <2> DEFINE i == client.timers[k].entry
             b == stream[i].job # j
  <2>1. Processing(Without(k), <<i>>)
    BY <1>3, RetryProcesses
  <2>2. Reads(<<i>>) = {i}
    BY DEF Reads
  <2>3. ASSUME since[j] # -1 PROVE BackedBy(Without(k), j, e, b)
    <3>1. BackedBy(client, j, e, TRUE)
      BY <1>1, <2>1, <2>3
    <3>2. client.timers[k].due = 0
      BY <1>3 DEF RetryFires
    <3> QED
      BY <1>0, <3>1, <3>2, BackedRemove
  <2>4. b \/ \E m \in Reads(<<i>>) : stream[m].job = j
    BY <2>2
  <2>5. b \in BOOLEAN
    OBVIOUS
  <2> HIDE DEF b
  <2> QED
    BY <2>1, <2>3, <2>4, <2>5, ProcessingKeepsBacked
<1>4. CASE PollReturns
  BY <1>2, <1>4, PollProcesses
<1>5. CASE WsMessage
  BY <1>2, <1>5, WsProcesses
<1> QED
  BY <1>3, <1>4, <1>5

LEMMA TickKeepsBacked ==
  ASSUME IInv, Backed, Tick
  PROVE  Backed'
<1> SUFFICES ASSUME NEW j \in OwnJobs, NEW f \in Nat, promise'[j] = "asked",
                    since'[j] = f, 2 * f < Tri(MaxRetries)
             PROVE  BackedBy(client, j, f, TRUE)'
  BY DEF Backed, Tri
<1> DEFINE q == MaxRetries * MaxRetries
           e == f - 1
<1>1. j \in Jobs /\ promise[j] = "asked" /\ stream' = stream
  BY Constants DEF Tick
<1>2. q \in Nat /\ Tri(MaxRetries) = q + MaxRetries /\ MaxRetries <= q
  <2>1. MaxRetries \in Nat /\ MaxRetries >= 1
    BY Constants
  <2>2. MaxRetries * MaxRetries >= MaxRetries * 1
    BY <2>1
  <2> QED
    BY <2>1, <2>2 DEF Tri
<1>3. since[j] \in -1..q
      /\ since'[j] = IF since[j] \in 0..(q - 1) THEN since[j] + 1 ELSE since[j]
  <2>1. since \in [Jobs -> -1..q]
    BY DEF IInv, TypeOK
  <2>2. since' = [i \in Jobs |-> IF since[i] \in 0..(q - 1) THEN since[i] + 1 ELSE since[i]]
    BY DEF Tick
  <2> HIDE DEF q
  <2> QED
    BY <1>1, <2>1, <2>2
<1>4. e \in Nat /\ since[j] = e /\ 2 * e < Tri(MaxRetries) /\ e <= f
  <2>1. MaxRetries \in Nat
    BY Constants
  <2>2. since[j] \in 0..(q - 1)
    <3> HIDE DEF q
    <3> QED
      BY <1>2, <1>3, <2>1
  <2> HIDE DEF q
  <2> QED
    BY <1>2, <1>3, <2>1, <2>2
<1> HIDE DEF e, q
<1>5. BackedBy(client, j, e, TRUE)
  BY <1>1, <1>4 DEF Backed
<1>6. TypeOK /\ client \in Client
  BY DEF IInv, TypeOK
<1>7. /\ client'.retries = client.retries /\ client' \in Client
      /\ DOMAIN client'.timers = DOMAIN client.timers
      /\ Len(client'.timers) = Len(client.timers)
      /\ \A k \in DOMAIN client.timers :
           /\ client'.timers[k].entry = client.timers[k].entry
           /\ client.timers[k].due > 0
           /\ client'.timers[k].due = client.timers[k].due - 1
  BY <1>6, TickTimers
<1>8. /\ DOMAIN client.timers = 1..Len(client.timers)
      /\ \A k \in 1..Len(client.timers) :
           /\ client.timers[k].due \in Nat
           /\ Weights(client, j, e)[k] = IF stream[client.timers[k].entry].job = j
                                        THEN e + client.timers[k].due ELSE 0
  BY <1>4, <1>6, WeightsType
<1>9. \A k \in 1..Len(client.timers) :
        Weights(client, j, f)'[k] = IF stream[client.timers[k].entry].job = j
                                   THEN f + client'.timers[k].due ELSE 0
  BY <1>1, <1>7, <1>8 DEF Weights
<1>10. \A k \in 1..Len(client.timers) :
         Weights(client, j, f)'[k] = Weights(client, j, e)[k]
  <2> TAKE k \in 1..Len(client.timers)
  <2>1. f + client'.timers[k].due = e + client.timers[k].due
    <3>1. PICK d \in Nat : client.timers[k].due = d
      BY <1>8
    <3>2. client'.timers[k].due = d - 1
      BY <1>7, <1>8, <3>1
    <3>3. f + (d - 1) = e + d
      BY DEF e
    <3> QED
      BY <3>1, <3>2, <3>3
  <2> QED
    BY <1>8, <1>9, <2>1
<1>11. client'.retries[j] = client.retries[j] /\ Len(client'.timers) = Len(client.timers)
  BY <1>7
<1> QED
  BY <1>1, <1>4, <1>5, <1>6, <1>10, <1>11, BackedCarries

LEMMA NextKeepsBacked == IInv /\ Backed /\ [Next]_vars => Backed'
<1> SUFFICES ASSUME IInv, Backed, [Next]_vars PROVE Backed'
  OBVIOUS
<1>0. promise \in [OwnJobs -> {"none", "asked", "waiting"} \cup Settled]
      /\ client \in Client /\ StreamOK
  BY RangeOfStream DEF IInv, TypeOK
<1>1. CASE UNCHANGED vars
  BY <1>1, QuietKeepsBacked DEF vars
<1>2. ASSUME NEW j \in Jobs, NEW status \in Status, Publish(j, status) PROVE Backed'
  <2>1. UNCHANGED <<since, client, promise>>
        /\ stream' = Append(stream, [job |-> j, status |-> status])
    BY <1>2 DEF Publish
  <2>2. \A i \in DOMAIN stream : stream'[i] = stream[i]
    <3> DEFINE t == [job |-> j, status |-> status]
    <3>1. stream \in Seq([job : Jobs, status : Status])
      BY <1>0 DEF StreamOK
    <3> HIDE DEF t
    <3> QED
      BY <2>1, <3>1 DEF t
  <2> QED
    BY <2>1, <2>2, QuietKeepsBacked
<1>3. ASSUME NEW j \in OwnJobs, Ask(j) PROVE Backed'
  <2>1. UNCHANGED <<since, client, stream>> /\ promise[j] = "none"
        /\ promise' = [promise EXCEPT ![j] = "asked"]
    BY <1>3 DEF Ask
  <2>2. since[j] = -1
    BY <2>1, Constants DEF IInv, Registered, Seen
  <2> QED
    BY <1>0, <2>1, <2>2, QuietKeepsBacked
<1>4. ASSUME NEW j \in OwnJobs, WaitForAsyncData(j) PROVE Backed'
  <2>1. UNCHANGED <<since, stream>> /\ promise' = [promise EXCEPT ![j] = "waiting"]
        /\ client' = [client EXCEPT !.listeners = @ \cup {j}]
    BY <1>4 DEF WaitForAsyncData
  <2>2. client'.timers = client.timers /\ client'.retries = client.retries
    BY <1>0, <2>1 DEF Client
  <2>3. \A q \in OwnJobs : promise'[q] = "asked" => promise[q] = "asked"
    BY <1>0, <2>1
  <2> QED
    BY <2>1, <2>2, <2>3, QuietKeepsBacked
<1>5. ASSUME NEW j \in OwnJobs, NEW outcome \in Settled, FetchReturns(j, outcome)
      PROVE  Backed'
  <2>1. /\ UNCHANGED <<since, stream>>
        /\ promise' = [promise EXCEPT ![j] = IF @ = "waiting" THEN outcome ELSE @]
        /\ client' = [client EXCEPT !.fetching[j] = @ - 1, !.listeners = @ \ {j}]
    BY <1>5 DEF FetchReturns
  <2>2. client'.timers = client.timers /\ client'.retries = client.retries
    BY <1>0, <2>1 DEF Client
  <2>3. \A q \in OwnJobs : promise'[q] = "asked" => promise[q] = "asked"
    BY <1>0, <2>1 DEF Settled
  <2> QED
    BY <2>1, <2>2, <2>3, QuietKeepsBacked
<1>6. CASE PollStarts \/ PollFails \/ WsOpens \/ WsCloses \/ WsRetries
  <2>1. UNCHANGED <<since, client, promise, stream>>
    BY <1>6 DEF PollStarts, PollFails, WsOpens, WsCloses, WsRetries
  <2> QED
    BY <2>1, QuietKeepsBacked
<1> QED
  BY <1>1, <1>2, <1>3, <1>4, <1>5, <1>6, ProcessingStepsKeepBacked, TickKeepsBacked
  DEF Next

LEMMA BackedIsLate ==
  ASSUME IInv, Backed
  PROVE  AbandonedLate
<1> SUFFICES ASSUME NEW j \in Jobs, EventsOf(j) \cap received # {},
                    j \in OwnJobs, promise[j] = "asked",
                    2 * since[j] < MaxRetries * (MaxRetries + 1)
             PROVE  Retrying(j)
  <2>1. ASSUME NEW j \in Jobs PROVE 2 * since[j] \in Int /\ MaxRetries * (MaxRetries + 1) \in Int
    <3> DEFINE q == MaxRetries * MaxRetries
    <3>1. since \in [Jobs -> -1..q]
      BY DEF IInv, TypeOK
    <3> HIDE DEF q
    <3>2. since[j] \in Int
      BY <3>1
    <3> QED
      BY <3>2, Constants
  <2> QED
    BY <2>1 DEF AbandonedLate
<1>1. since[j] # -1 /\ client \in Client
  BY DEF IInv, Seen, TypeOK
<1>2. since[j] \in Nat
  <2> DEFINE q == MaxRetries * MaxRetries
  <2>1. since \in [Jobs -> -1..q]
    BY DEF IInv, TypeOK
  <2> HIDE DEF q
  <2> QED
    BY <1>1, <2>1
<1>3. PICK e \in Nat : since[j] = e /\ 2 * e < Tri(MaxRetries)
  BY <1>2 DEF Tri
<1>4. BackedBy(client, j, e, TRUE)
  BY <1>3 DEF Backed
<1>5. HasTimer(client, j)
  BY <1>1, <1>3, <1>4, BackedRetries
<1> QED
  BY <1>5 DEF HasTimer, Retrying

LEMMA BackedAlways == Spec => [](IInv /\ Backed)
<1>1. Init => IInv /\ Backed
  <2>1. Init => Backed
    BY DEF Init, Backed
  <2> QED
    BY <2>1, InitIInv
<1>2. IInv /\ Backed /\ [Next]_vars => (IInv /\ Backed)'
  BY NextKeepsIInv, NextKeepsBacked
<1>3. Spec => Init /\ [][Next]_vars
  BY DEF Spec
<1> QED
  BY <1>1, <1>2, <1>3, PTL

\* A job whose event came is not given up while the 202 is still out: the
\* retries last MaxRetries * (MaxRetries + 1) / 2 delays, however many
\* duplicates use up the counter of the job (asyncEvent.ts:143-167).
THEOREM RetriesLastLongEnough == Spec => []AbandonedLate
<1>1. IInv /\ Backed => AbandonedLate
  BY BackedIsLate
<1> QED
  BY <1>1, BackedAlways, PTL

-----------------------------------------------------------------------------
(***************************************************************************)
(* What came for a listener is on its way to it, if the 202 of a POST      *)
(* always arrives before the retries of its job can have ended.            *)
(***************************************************************************)
InTime == 2 * ResponseLag < MaxRetries * (MaxRetries + 1)

Held ==
  \A j \in client.listeners :
    EventsOf(j) \cap received # {} => client.fetching[j] > 0 \/ HasTimer(client, j)

LEMMA EntriesWithout ==
  ASSUME TypeOK, NEW k \in DOMAIN client.timers
  PROVE  Entries(client) \subseteq Entries(Without(k)) \cup {client.timers[k].entry}
<1> DEFINE t == client.timers
           n == Len(t)
           u == RemoveAt(t, k)
<1>1. t \in Seq([entry : Nat, due : Nat]) /\ k \in DOMAIN t
  BY ClientFields DEF TypeOK
<1>2. /\ n \in Nat /\ k \in 1..n /\ DOMAIN t = 1..n /\ DOMAIN u = 1..(n - 1)
      /\ \A i \in 1..(n - 1) : u[i] = IF i < k THEN t[i] ELSE t[i + 1]
  <2> DEFINE E == [entry : Nat, due : Nat]
  <2>0. k \in DOMAIN t /\ t \in Seq(E)
    BY <1>1
  <2> HIDE DEF t, E
  <2>1. DOMAIN t = 1..n
    BY <2>0
  <2>2. /\ n \in Nat /\ k \in 1..n /\ DOMAIN u = 1..(n - 1)
        /\ \A i \in 1..(n - 1) : u[i] = IF i < k THEN t[i] ELSE t[i + 1]
    BY <2>0, RemoveOne
  <2> QED
    BY <2>1, <2>2
<1>3. Without(k).timers = u
  BY TimersWithout
<1> HIDE DEF t, n, u
<1>4. ASSUME NEW m \in 1..n, m # k
      PROVE  \E i \in DOMAIN u : u[i] = t[m]
  <2>1. CASE m < k
    <3>1. m \in 1..(n - 1)
      BY <1>2, <2>1
    <3> QED
      BY <1>2, <2>1, <3>1
  <2>2. CASE m > k
    <3>1. m - 1 \in 1..(n - 1) /\ ~ (m - 1 < k) /\ (m - 1) + 1 = m
      BY <1>2, <2>2
    <3> QED
      BY <1>2, <3>1
  <2> QED
    BY <1>2, <1>4, <2>1, <2>2
<1>5. \A m \in 1..n : t[m].entry \in {u[i].entry : i \in DOMAIN u} \cup {t[k].entry}
  BY <1>4
<1> QED
  BY <1>2, <1>3, <1>5 DEF Entries, t

LEMMA ProcessingKeepsHeld ==
  ASSUME IInv, Held, NEW c, NEW es, Processing(c, es),
         Entries(client) \subseteq Entries(c) \cup Reads(es)
  PROVE  Held'
<1>1. StreamOK
  BY RangeOfStream DEF IInv
<1>2. PICK after : Leaves(c, es, after)
  BY <1>1, ProcessingEffect
<1>3. /\ Kept(c, after, es, Len(es)) /\ client'.timers = after.timers
      /\ client'.listeners = after.listeners /\ client'.fetching = after.fetching
      /\ received' = received \cup Reads(es)
  BY <1>2 DEF Leaves
<1>4. /\ c.listeners = client.listeners /\ c.fetching = client.fetching
      /\ stream' = stream /\ c \in Client
  BY DEF Processing
<1> SUFFICES ASSUME NEW j \in after.listeners, EventsOf(j)' \cap received' # {}
             PROVE  client'.fetching[j] > 0 \/ HasTimer(client, j)'
  BY <1>3 DEF Held
<1>5. j \in client.listeners /\ j \in OwnJobs
  BY <1>3, <1>4, ClientFields DEF Kept
<1>6. EventsOf(j)' = EventsOf(j)
  BY <1>4 DEF EventsOf
<1>7. CASE \E l \in 1..Len(es) : stream[es[l]].job = j
  BY <1>3, <1>7 DEF Kept
<1>8. CASE ~ \E l \in 1..Len(es) : stream[es[l]].job = j
  <2>1. \A i \in Reads(es) : stream[i].job # j
    BY <1>8 DEF Reads
  <2>2. EventsOf(j) \cap received # {}
    BY <1>3, <1>6, <2>1 DEF EventsOf
  <2>3. CASE client.fetching[j] > 0
    <3>1. after.fetching[j] >= client.fetching[j]
      BY <1>3, <1>4, <1>5 DEF Kept
    <3>2. after.fetching[j] \in Nat /\ client.fetching[j] \in Nat
      BY <1>3, <1>4, <1>5, ClientFields DEF Kept
    <3> QED
      BY <1>3, <2>3, <3>1, <3>2
  <2>4. CASE HasTimer(client, j)
    <3>1. PICK i \in Entries(client) : stream[i].job = j
      BY <2>4 DEF HasTimer, Entries
    <3>2. i \in Entries(after)
      BY <1>3, <2>1, <3>1 DEF Kept
    <3>3. PICK k \in DOMAIN after.timers : after.timers[k].entry = i
      BY <3>2 DEF Entries
    <3> QED
      BY <1>3, <1>4, <3>1, <3>3 DEF HasTimer
  <2> QED
    BY <1>5, <2>2, <2>3, <2>4 DEF Held
<1> QED
  BY <1>7, <1>8

LEMMA ProcessingStepsKeepHeld ==
  ASSUME IInv, Held,
         (\E k \in DOMAIN client.timers : RetryFires(k)) \/ PollReturns \/ WsMessage
  PROVE  Held'
<1>1. ASSUME NEW es, Processing(client, es) PROVE Held'
  BY <1>1, ProcessingKeepsHeld
<1>2. ASSUME NEW k \in DOMAIN client.timers, RetryFires(k) PROVE Held'
  <2> DEFINE i == client.timers[k].entry
  <2>1. Processing(Without(k), <<i>>)
    BY <1>2, RetryProcesses
  <2>2. Reads(<<i>>) = {i}
    BY DEF Reads
  <2>3. Entries(client) \subseteq Entries(Without(k)) \cup {i}
    BY EntriesWithout DEF IInv
  <2> HIDE DEF i
  <2> QED
    BY <2>1, <2>2, <2>3, ProcessingKeepsHeld
<1>3. CASE PollReturns
  BY <1>1, <1>3, PollProcesses
<1>4. CASE WsMessage
  BY <1>1, <1>4, WsProcesses
<1> QED
  BY <1>2, <1>3, <1>4

\* The 202 arrives: the retries of an event that came before it still run.
LEMMA WaitForAsyncDataKeepsHeld ==
  ASSUME InTime, IInv, Backed, Held, NEW j \in OwnJobs, WaitForAsyncData(j)
  PROVE  Held'
<1>1. /\ promise[j] = "asked" /\ UNCHANGED <<stream, received>>
      /\ client' = [client EXCEPT !.listeners = @ \cup {j}]
  BY DEF WaitForAsyncData
<1>2. client \in Client /\ j \in Jobs
  BY Constants DEF IInv, TypeOK
<1>3. /\ client'.timers = client.timers /\ client'.fetching = client.fetching
      /\ client'.listeners = client.listeners \cup {j}
  BY <1>1, <1>2 DEF Client
<1>4. ASSUME EventsOf(j) \cap received # {} PROVE HasTimer(client, j)
  <2>1. AbandonedLate
    BY BackedIsLate
  <2>2. since[j] <= lag[j] /\ lag[j] <= ResponseLag /\ lag[j] \in Nat /\ since[j] \in Int
    <3> DEFINE q == MaxRetries * MaxRetries
    <3>1. since \in [Jobs -> -1..q]
      BY DEF IInv, TypeOK
    <3> HIDE DEF q
    <3>2. since[j] \in Int
      BY <1>2, <3>1
    <3>3. lag[j] \in 0..ResponseLag /\ since[j] <= lag[j]
      BY <1>1, <1>2 DEF IInv, TypeOK, Seen
    <3> QED
      BY <3>2, <3>3, Constants
  <2>3. ~ (2 * since[j] >= MaxRetries * (MaxRetries + 1))
    <3> DEFINE W == MaxRetries * (MaxRetries + 1)
    <3>1. W \in Int /\ 2 * ResponseLag < W
      BY Constants DEF InTime
    <3> HIDE DEF W
    <3>2. ~ (2 * since[j] >= W)
      BY <2>2, <3>1, Constants
    <3> QED
      BY <3>2 DEF W
  <2>4. Retrying(j)
    BY <1>1, <1>2, <1>4, <2>1, <2>3 DEF AbandonedLate
  <2> QED
    BY <2>4 DEF Retrying, HasTimer
<1> SUFFICES ASSUME NEW q \in client'.listeners, EventsOf(q)' \cap received' # {}
             PROVE  client'.fetching[q] > 0 \/ HasTimer(client, q)'
  BY DEF Held
<1>5. EventsOf(q) \cap received # {}
  BY <1>1 DEF EventsOf
<1>6. CASE q = j
  <2>1. HasTimer(client, j)
    BY <1>4, <1>5, <1>6
  <2> QED
    BY <1>1, <1>3, <1>6, <2>1 DEF HasTimer
<1>7. CASE q # j
  <2>1. client.fetching[q] > 0 \/ HasTimer(client, q)
    BY <1>3, <1>5, <1>7 DEF Held
  <2> QED
    BY <1>1, <1>3, <2>1 DEF HasTimer
<1> QED
  BY <1>6, <1>7

\* The steps that take no listener, no fetch and no retry from a job that has
\* a listener after them.
LEMMA QuietKeepsHeld ==
  ASSUME IInv, Held, UNCHANGED received,
         DOMAIN stream \subseteq DOMAIN stream',
         \A i \in DOMAIN stream : stream'[i] = stream[i],
         client'.listeners \subseteq client.listeners,
         \A j \in client'.listeners : client'.fetching[j] = client.fetching[j],
         DOMAIN client'.timers = DOMAIN client.timers,
         \A k \in DOMAIN client.timers : client'.timers[k].entry = client.timers[k].entry
  PROVE  Held'
<1> SUFFICES ASSUME NEW j \in client'.listeners, EventsOf(j)' \cap received' # {}
             PROVE  client'.fetching[j] > 0 \/ HasTimer(client, j)'
  BY DEF Held
<1>1. received \subseteq DOMAIN stream /\ Entries(client) \subseteq received
  BY DEF IInv, TypeOK, InRange
<1>2. EventsOf(j) \cap received # {}
  BY <1>1 DEF EventsOf
<1>3. client.fetching[j] > 0 \/ HasTimer(client, j)
  BY <1>2 DEF Held
<1>4. ASSUME HasTimer(client, j) PROVE HasTimer(client, j)'
  <2>1. PICK k \in DOMAIN client.timers : stream[client.timers[k].entry].job = j
    BY <1>4 DEF HasTimer
  <2>2. client.timers[k].entry \in DOMAIN stream
    BY <1>1 DEF Entries
  <2>3. stream'[client'.timers[k].entry].job = j
    BY <2>1, <2>2
  <2> QED
    BY <2>1, <2>3 DEF HasTimer
<1> QED
  BY <1>3, <1>4

LEMMA NextKeepsHeld ==
  ASSUME InTime, IInv, Backed, Held, [Next]_vars
  PROVE  Held'
<1>0. client \in Client /\ StreamOK /\ TypeOK
  BY RangeOfStream DEF IInv, TypeOK
<1>1. CASE UNCHANGED <<client, stream, received>>
  BY <1>1, QuietKeepsHeld
<1>2. ASSUME NEW j \in Jobs, NEW status \in Status, Publish(j, status) PROVE Held'
  <2>1. UNCHANGED <<client, received>>
        /\ stream' = Append(stream, [job |-> j, status |-> status])
    BY <1>2 DEF Publish
  <2>2. DOMAIN stream \subseteq DOMAIN stream' /\ \A i \in DOMAIN stream : stream'[i] = stream[i]
    <3> DEFINE t == [job |-> j, status |-> status]
    <3>1. stream \in Seq([job : Jobs, status : Status])
      BY <1>0 DEF StreamOK
    <3> HIDE DEF t
    <3> QED
      BY <2>1, <3>1 DEF t
  <2> QED
    BY <2>1, <2>2, QuietKeepsHeld
<1>3. ASSUME NEW j \in OwnJobs, Ask(j) PROVE Held'
  BY <1>1, <1>3 DEF Ask
<1>4. ASSUME NEW j \in OwnJobs, WaitForAsyncData(j) PROVE Held'
  BY <1>4, WaitForAsyncDataKeepsHeld
<1>5. ASSUME NEW j \in OwnJobs, NEW outcome \in Settled, FetchReturns(j, outcome)
      PROVE  Held'
  <2>1. /\ UNCHANGED <<received, stream>>
        /\ client' = [client EXCEPT !.fetching[j] = @ - 1, !.listeners = @ \ {j}]
    BY <1>5 DEF FetchReturns
  <2>2. /\ client'.timers = client.timers /\ client'.listeners = client.listeners \ {j}
        /\ client'.fetching = [client.fetching EXCEPT ![j] = @ - 1]
    BY <1>0, <2>1 DEF Client
  <2>3. \A q \in client'.listeners : client'.fetching[q] = client.fetching[q]
    BY <1>0, <2>2, ClientFields
  <2> QED
    BY <2>1, <2>2, <2>3, QuietKeepsHeld
<1>6. CASE PollStarts \/ PollFails \/ WsOpens \/ WsCloses \/ WsRetries
  BY <1>1, <1>6 DEF PollStarts, PollFails, WsOpens, WsCloses, WsRetries
<1>7. CASE Tick
  <2>1. UNCHANGED <<stream, received>>
    BY <1>7 DEF Tick
  <2> QED
    BY <1>0, <1>7, <2>1, TickTimers, QuietKeepsHeld
<1>8. CASE UNCHANGED vars
  BY <1>1, <1>8 DEF vars
<1> QED
  BY <1>2, <1>3, <1>4, <1>5, <1>6, <1>7, <1>8, ProcessingStepsKeepHeld DEF Next

LEMMA HeldIsNotForgotten ==
  ASSUME IInv, Held
  PROVE  NotForgotten
<1> SUFFICES ASSUME transport = "polling", NEW j \in client.listeners,
                    NEW i \in EventsOf(j)
             PROVE  \/ client.fetching[j] > 0 \/ Retrying(j)
                    \/ \E m \in EventsOf(j) : m > client.lastId
  BY DEF NotForgotten
<1>1. CASE i \in received
  BY <1>1 DEF Held, HasTimer, Retrying
<1>2. CASE i \notin received
  <2>1. 1..client.lastId \subseteq received
    BY DEF IInv, Cursor
  <2>2. i \in Nat /\ i >= 1 /\ client.lastId \in Nat
    BY StreamEntry, RangeOfStream, ClientFields DEF IInv, TypeOK, EventsOf
  <2>3. i > client.lastId
    BY <1>2, <2>1, <2>2
  <2> QED
    BY <2>3
<1> QED
  BY <1>1, <1>2

\* With polling, and 202s that arrive before the retries can have ended, a
\* registered listener whose event is in the stream still has it coming: in a
\* poll, in a retry, or its data are being fetched (asyncEvent.ts:117-193).
THEOREM NoListenerIsForgotten ==
  ASSUME 2 * ResponseLag < MaxRetries * (MaxRetries + 1)
  PROVE  Spec => []NotForgotten
<1>1. InTime
  BY DEF InTime
<1>2. Init => Held
  BY DEF Init, Held
<1>3. IInv /\ Backed /\ Held /\ [Next]_vars => Held'
  BY <1>1, NextKeepsHeld
<1>4. IInv /\ Held => NotForgotten
  BY HeldIsNotForgotten
<1>5. Spec => Init /\ [][Next]_vars
  BY DEF Spec
<1> QED
  BY <1>2, <1>3, <1>4, <1>5, BackedAlways, PTL
=============================================================================
