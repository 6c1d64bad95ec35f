------------------------ MODULE PacketCapture_proofs ------------------------
(***************************************************************************)
(* Proofs about PacketCapture, for every number of files and packets, every*)
(* rotation time, cap and bound.                                           *)
(***************************************************************************)
EXTENDS PacketCapture, WellFoundedInduction, TLAPS

Places == {"off", "sweep", "stat", "ship", "annotate", "rewrite", "upload ng",
           "upload", "keep", "remove", "exited"}
Working == {"stat", "ship", "annotate", "rewrite", "upload ng", "upload", "keep", "remove"}
Shipping == Working \ {"stat", "keep"}

\* tcpdump writes to f no more.
Done(f) == f < cur \/ openFor = RotateAfter

OpenedFiles ==
  /\ pcap \subseteq 1..cur
  /\ \A q \in Processes : /\ proc[q].todo \subseteq 1..cur
                          /\ proc[q].at \in Working => proc[q].file \in 1..cur

\* A sweep sees no file older than it is, and the open one is as old as its
\* opening at most.
AgesAreOld ==
  /\ openFor < RotateAfter => age[cur] <= openFor
  /\ \A f \in Files : f > cur => age[f] = 0
  /\ \A q \in Processes, f \in Files : proc[q].ages[f] <= age[f]

\* Until the trap has run, only what tcpdump is done with is shipped and removed.
ShipsDone ==
  \A q \in Processes :
    /\ term # "handled" => proc[q].least = Complete
    /\ proc[q].at \in Shipping /\ proc[q].least = Complete => Done(proc[q].file)

IInv == TypeOK /\ OpenedFiles /\ AgesAreOld /\ ShipsDone /\ OpenFileKept

main == proc["main"]

\* S3 has all of f, or it is one of those that may be lost.
Safe(f) == f \in capped \cup spoiled \/ InS3(f)

\* A .pcapng has every packet of its .pcap, to which no more are added.
NgWhole ==
  \A f \in Files \ spoiled : ng[f] # None =>
    ng[f] >= written[f] /\ f <= cur /\ (Done(f) \/ term = "handled")

\* A process is about to remove only what S3 has.
RemoveStored ==
  \A q \in Processes : proc[q].at = "remove" => Safe(proc[q].file)

\* The sweep of the trap finds no file too young; it is main's.
SweepTakes ==
  /\ proc["once"].least # 0
  /\ main.least = 0 => \A f \in Files \ spoiled : main.ages[f] >= 0

\* What it has not shipped or given up, it has before it.
SweepCovers ==
  main.least = 0 =>
    \A f \in Files :
      Safe(f) \/ f \in main.todo \/ (main.at \in Working \ {"remove"} /\ f = main.file)

LossInv == NgWhole /\ RemoveStored /\ SweepTakes /\ SweepCovers /\ NothingLost
-----------------------------------------------------------------------------
\* A set of naturals that is not empty has a least element.
LEMMA Least ==
  ASSUME NEW S \in SUBSET Nat, S # {}
  PROVE  \E m \in S : \A n \in S : m <= n
<1> DEFINE R == OpToRel(<, Nat)
<1>1. IsWellFoundedOn(R, Nat)
  BY NatLessThanWellFounded
<1>2. PICK m \in S : \A n \in S : <<n, m>> \notin R
  <2> HIDE DEF R
  <2> QED
    BY <1>1, WFMin
<1>3. \A x, y \in Nat : x < y => <<x, y>> \in R
  BY DEF OpToRel
<1>4. ASSUME NEW n \in S PROVE m <= n
  <2> HIDE DEF R
  <2>1. m \in Nat /\ n \in Nat
    OBVIOUS
  <2>2. ~ (n < m)
    BY <1>2, <1>3, <2>1
  <2> QED
    BY <2>1, <2>2
<1> QED
  BY <1>4

LEMMA FirstIsLeft ==
  ASSUME NEW S \in SUBSET Files, S # {}
  PROVE  Min(S) \in S
<1>1. S \in SUBSET Nat
  BY DEF Files
<1>2. \E m \in S : \A n \in S : m =< n
  BY <1>1, Least
<1> QED
  BY <1>2 DEF Min

LEMMA Constants ==
  /\ RotateAfter \in Nat /\ RotateAfter > 0
  /\ Complete \in Nat /\ RotateAfter < Complete
  /\ LastFile \in Nat /\ 1 \in Files /\ Files \subseteq Nat
<1>1. /\ RotateAfter \in Nat /\ RotateAfter # 0
      /\ Slack \in Nat /\ Slack # 0
      /\ LastFile \in Nat /\ LastFile # 0
  BY CaptureAssumption
<1>2. RotateAfter > 0 /\ RotateAfter + Slack \in Nat /\ RotateAfter < RotateAfter + Slack
  BY <1>1
<1>3. 1 \in Files /\ Files \subseteq Nat
  BY <1>1 DEF Files
<1> QED
  BY <1>1, <1>2, <1>3 DEF Complete

Gone == [Idle EXCEPT !.at = "exited"]

\* A process that has not begun, one that has ended, and a sweep that begins.
LEMMA RestTypes ==
  /\ Idle \in Process /\ Gone \in Process
  /\ TypeOK => Sweeping(Complete) \in Process /\ Sweeping(0) \in Process
<1>1. \A a \in 0..Complete : a \in -1..Complete
  BY Constants
<1>2. -1 \in -1..Complete /\ 0 \in 0..LastFile
  BY Constants
<1>3. Idle \in Process
  BY <1>2 DEF Idle, Process
<1>4. Gone \in Process
  BY <1>3 DEF Gone, Process
<1>5. ASSUME TypeOK, NEW least \in {0, Complete} PROVE Sweeping(least) \in Process
  <2>1. age \in [Files -> -1..Complete] /\ pcap \in SUBSET Files
    BY <1>1, <1>5 DEF TypeOK
  <2> QED
    BY <1>3, <2>1 DEF Sweeping, Process
<1> QED
  BY <1>3, <1>4, <1>5

LEMMA InitIInv == Init => IInv
<1> SUFFICES ASSUME Init PROVE IInv
  OBVIOUS
<1>1. /\ tcpdump = "running" /\ cur = 1 /\ openFor = 0 /\ pcap = {1} /\ tmp = {}
      /\ term = "none" /\ stuck = FALSE /\ capped = {} /\ spoiled = {}
      /\ failures = 0 /\ crashes = 0 /\ flushes = 0
      /\ proc = [p \in Processes |-> Idle]
      /\ age = [f \in Files |-> 0] /\ ng = [f \in Files |-> None]
      /\ written = [f \in Files |-> 0] /\ s3 = [f \in Files |-> [pcap |-> 0, ng |-> 0]]
  BY DEF Init
<1>2. 0 \in 0..RotateAfter /\ 0 \in 0..Complete /\ 0 < RotateAfter /\ 1 \in Files
  BY Constants
<1>3. TypeOK
  BY <1>1, <1>2, RestTypes DEF TypeOK
<1>4. \A q \in Processes : /\ proc[q].at = "off" /\ proc[q].todo = {}
                           /\ proc[q].least = Complete
                           /\ \A f \in Files : proc[q].ages[f] = -1
  BY <1>1 DEF Idle
<1>5. OpenedFiles /\ ShipsDone
  <2>1. pcap \subseteq 1..cur
    BY <1>1
  <2>2. \A q \in Processes : proc[q].at \notin Working /\ proc[q].at \notin Shipping
    BY <1>4 DEF Working, Shipping
  <2> QED
    BY <1>4, <2>1, <2>2 DEF OpenedFiles, ShipsDone
<1>6. AgesAreOld
  <2>1. age[cur] <= openFor
    BY <1>1, <1>2
  <2>2. \A q \in Processes, f \in Files : proc[q].ages[f] <= age[f]
    BY <1>1, <1>4
  <2> QED
    BY <1>1, <2>1, <2>2 DEF AgesAreOld
<1> QED
  BY <1>1, <1>3, <1>5, <1>6 DEF IInv, OpenFileKept

-----------------------------------------------------------------------------
\* How a step of a process may change what a process does: it ends or begins a sweep,
\* takes the next file, or goes on with the one it has.
GoesOn(q) ==
  /\ proc'[q].file = proc[q].file
  /\ proc'[q].at \in Working => proc[q].at \in Working
  /\ proc'[q].at \in Shipping => \/ proc[q].at \in Shipping
                                 \/ proc[q].at = "stat" /\ Taken(q, proc[q].file)

Moves(q) ==
  \/ proc'[q] \in {Idle, Gone, Sweeping(Complete)}
  \/ /\ proc'[q] \in Process
     /\ proc'[q].ages = proc[q].ages /\ proc'[q].least = proc[q].least
     /\ proc'[q].todo \subseteq proc[q].todo
     /\ \/ GoesOn(q)
        \/ proc'[q].at \in {"sweep", "stat"} /\ proc'[q].file \in proc[q].todo

LEMMA GoesEffect ==
  ASSUME TypeOK, NEW p \in Processes, NEW here, NEW there \in Places, Goes(p, here, there)
  PROVE  /\ proc[p].at = here
         /\ \A q \in Processes :
              /\ proc'[q] \in Process
              /\ proc'[q].ages = proc[q].ages /\ proc'[q].least = proc[q].least
              /\ proc'[q].todo = proc[q].todo /\ proc'[q].file = proc[q].file
              /\ proc'[q].at = IF q = p THEN there ELSE proc[q].at
              /\ DOMAIN proc' = Processes
<1>1. /\ proc \in [Processes -> Process] /\ proc[p].at = here
      /\ proc' = [proc EXCEPT ![p].at = there]
  BY DEF TypeOK, Goes
<1> SUFFICES ASSUME NEW q \in Processes
             PROVE  /\ proc'[q] \in Process
                    /\ proc'[q].ages = proc[q].ages /\ proc'[q].least = proc[q].least
                    /\ proc'[q].todo = proc[q].todo /\ proc'[q].file = proc[q].file
                    /\ proc'[q].at = IF q = p THEN there ELSE proc[q].at
                    /\ DOMAIN proc' = Processes
  BY <1>1
<1>2. DOMAIN proc' = Processes /\ proc[q] \in Process
  BY <1>1
<1>3. CASE q = p
  <2>1. proc'[q] = [proc[q] EXCEPT !.at = there]
    BY <1>1, <1>3
  <2> QED
    BY <1>2, <1>3, <2>1 DEF Process, Places
<1>4. CASE q # p
  <2>1. proc'[q] = proc[q]
    BY <1>1, <1>4
  <2> QED
    BY <1>2, <1>4, <2>1
<1> QED
  BY <1>3, <1>4

LEMMA GoesMoves ==
  ASSUME TypeOK, NEW p \in Processes, NEW here, NEW there \in Places, Goes(p, here, there),
         there \in Working => here \in Working,
         there \in Shipping => here \in Shipping \/ (here = "stat" /\ Taken(p, proc[p].file))
  PROVE  \A q \in Processes : Moves(q)
<1> SUFFICES ASSUME NEW q \in Processes PROVE Moves(q)
  OBVIOUS
<1>1. GoesOn(q)
  BY GoesEffect DEF GoesOn
<1> QED
  BY <1>1, GoesEffect DEF Moves

\* The steps of ship_capture, from one command to the next.
LEMMA ShipMoves ==
  ASSUME TypeOK, NEW p \in Processes,
         NEW here \in Working, NEW there \in {"annotate", "rewrite", "upload ng", "upload", "remove", "sweep"},
         Goes(p, here, there), here = "keep" => there = "sweep", here # "stat"
  PROVE  \A q \in Processes : Moves(q)
<1>1. there \in Places /\ here \in Working
  BY DEF Places
<1>2. there \in Shipping => here \in Shipping
  BY DEF Shipping, Working
<1>3. there \in Working => here \in Working
  BY <1>1
<1>4. there \in Shipping => here \in Shipping \/ (here = "stat" /\ Taken(p, proc[p].file))
  BY <1>2
<1> HIDE DEF Working, Shipping
<1> QED
  BY ONLY TypeOK, p \in Processes, Goes(p, here, there), <1>1, <1>3, <1>4, GoesMoves

LEMMA StepMoves ==
  ASSUME TypeOK, NEW p \in Processes, Step(p)
  PROVE  \A q \in Processes : Moves(q)
<1>a. /\ {"ship", "annotate", "rewrite", "upload ng"} \subseteq Working
      /\ {"upload", "keep", "remove"} \subseteq Working
  BY DEF Working
<1>b. proc \in [Processes -> Process]
  BY DEF TypeOK
<1>c. ASSUME NEW q \in Processes, proc'[q] = proc[q] PROVE Moves(q)
  BY <1>b, <1>c DEF Moves, GoesOn
<1>1. CASE SweepStarts(p)
  <2>1. \A q \in Processes : proc'[q] = IF q = p THEN Sweeping(Complete) ELSE proc[q]
    BY <1>1, <1>b DEF SweepStarts
  <2> QED
    BY <1>c, <2>1 DEF Moves
<1>2. CASE NextFile(p)
  <2> DEFINE f == Min(proc[p].todo)
             at == IF f \in pcap THEN "stat" ELSE "sweep"
  <2>1. f \in proc[p].todo /\ f \in Files
    BY <1>2, <1>b, FirstIsLeft DEF NextFile, Process
  <2>2. proc' = [proc EXCEPT ![p].file = f, ![p].todo = @ \ {f}, ![p].at = at]
    BY <1>2 DEF NextFile
  <2> HIDE DEF f
  <2>3. /\ proc'[p].file = f /\ proc'[p].todo = proc[p].todo \ {f} /\ proc'[p].at = at
        /\ proc'[p].ages = proc[p].ages /\ proc'[p].least = proc[p].least
        /\ proc'[p] \in Process
        /\ \A q \in Processes : q # p => proc'[q] = proc[q]
    <3>1. proc'[p] = [proc[p] EXCEPT !.file = f, !.todo = @ \ {f}, !.at = at]
      BY <1>b, <2>2
    <3>2. \A q \in Processes : q # p => proc'[q] = proc[q]
      BY <1>b, <2>2
    <3>3. f \in 0..LastFile /\ at \in Places
      BY <2>1, Constants DEF Files, Places
    <3>4. proc[p] \in Process
      BY <1>b
    <3> HIDE DEF at
    <3> QED
      BY <3>1, <3>2, <3>3, <3>4 DEF Process, Places
  <2>4. Moves(p)
    BY <2>1, <2>3 DEF Moves
  <2> QED
    BY <1>c, <2>3, <2>4
<1>3. CASE Stat(p)
  <2> DEFINE at == IF Taken(p, proc[p].file) THEN "ship"
                   ELSE IF p = "once" /\ ~ stuck THEN "keep" ELSE "sweep"
  <2>1. Goes(p, "stat", at) /\ at \in Places
    BY <1>3 DEF Stat, Places
  <2>2. at \in Working => "stat" \in Working
    BY DEF Working
  <2>3. at \in Shipping => Taken(p, proc[p].file)
    BY DEF Shipping, Working
  <2> HIDE DEF at
  <2> QED
    BY <2>1, <2>2, <2>3, GoesMoves
<1>4. CASE StatFails(p)
  <2>1. \A q \in Processes : proc'[q] \in {Idle, Gone, proc[q]}
    BY <1>4, <1>b DEF StatFails, Restarted, Exited, Gone
  <2> QED
    BY <1>c, <2>1 DEF Moves
<1>5. CASE AnnotateStarts(p)
  <2>1. Goes(p, "ship", "annotate")
    BY <1>5 DEF AnnotateStarts
  <2> QED
    BY <1>a, <2>1, ShipMoves
<1>6. CASE AnnotateEnds(p)
  <2> DEFINE f == proc[p].file
             shared == proc[Other(p)].at = "annotate" /\ proc[Other(p)].file = f
             at == IF shared THEN "rewrite" ELSE proc[Other(p)].at
  <2>1. Other(p) \in Processes /\ Other(p) # p
    BY DEF Other, Processes
  <2>2. /\ proc[p].at \in {"annotate", "rewrite"}
        /\ proc' = [proc EXCEPT ![p].at = "upload ng",
                                ![Other(p)].at = IF shared THEN "rewrite" ELSE @]
    BY <1>6 DEF AnnotateEnds
  <2>3. /\ proc'[p] = [proc[p] EXCEPT !.at = "upload ng"]
        /\ proc'[Other(p)] = [proc[Other(p)] EXCEPT !.at = at]
        /\ \A q \in Processes : q = p \/ q = Other(p)
    BY <1>b, <2>1, <2>2 DEF Processes
  <2>4. Moves(p)
    <3>1. proc[p] \in Process /\ "upload ng" \in Places
      BY <1>b DEF Places
    <3>2. proc'[p] \in Process /\ UNCHANGED <<proc[p].ages, proc[p].least, proc[p].todo, proc[p].file>>
      BY <2>3, <3>1 DEF Process, Places
    <3>3. GoesOn(p)
      BY <2>2, <3>2 DEF GoesOn, Working, Shipping
    <3> QED
      BY <3>2, <3>3 DEF Moves
  <2>5. shared => proc[Other(p)].at = "annotate"
    OBVIOUS
  <2>6. \/ at = proc[Other(p)].at
        \/ at = "rewrite" /\ proc[Other(p)].at = "annotate"
    BY <2>5
  <2> HIDE DEF shared, at
  <2>7. Moves(Other(p))
    <3> DEFINE o == Other(p)
    <3>1. proc[o] \in Process /\ o \in Processes
      BY <1>b, <2>1
    <3>2. proc'[o] = [proc[o] EXCEPT !.at = at]
      BY <2>3
    <3> HIDE DEF o
    <3>3. at \in Places
      BY <2>6, <3>1 DEF Process, Places, o
    <3>4. proc'[o] \in Process /\ UNCHANGED <<proc[o].ages, proc[o].least, proc[o].todo, proc[o].file>>
          /\ proc'[o].at = at
      BY <3>1, <3>2, <3>3 DEF Process, Places
    <3>5. \/ proc'[o].at = proc[o].at
          \/ proc'[o].at = "rewrite" /\ proc[o].at = "annotate"
      BY <2>6, <3>4 DEF o
    <3>6. GoesOn(o)
      BY <3>4, <3>5 DEF GoesOn, Working, Shipping
    <3>7. Moves(o)
      BY <3>4, <3>6 DEF Moves
    <3> QED
      BY <3>7 DEF o
  <2> QED
    BY <2>3, <2>4, <2>7
<1>7. CASE AnnotateFails(p)
  <2>1. \E here \in {"ship", "annotate", "rewrite"} : Goes(p, here, "upload")
    BY <1>7 DEF AnnotateFails
  <2> QED
    BY <1>a, <2>1, ShipMoves
<1>8. CASE UploadNg(p)
  <2>1. Goes(p, "upload ng", "remove")
    BY <1>8 DEF UploadNg
  <2> QED
    BY <1>a, <2>1, ShipMoves
<1>9. CASE UploadPcap(p)
  <2>1. Goes(p, "upload", "remove") \/ Goes(p, "keep", "sweep")
    BY <1>9 DEF UploadPcap
  <2> QED
    BY <1>a, <2>1, ShipMoves
<1>10. CASE UploadFails(p)
  <2>1. Goes(p, "upload ng", "sweep") \/ Goes(p, "upload", "sweep") \/ Goes(p, "keep", "sweep")
    BY <1>10 DEF UploadFails
  <2> QED
    BY <1>a, <2>1, ShipMoves
<1>11. CASE RemovePcap(p)
  <2>1. Goes(p, "remove", "sweep")
    BY <1>11 DEF RemovePcap
  <2> QED
    BY <1>a, <2>1, ShipMoves
<1>12. CASE SweepEnds(p)
  <2>1. \A q \in Processes : proc'[q] \in {Idle, Gone, proc[q]}
    BY <1>12, <1>b DEF SweepEnds, Exited, Gone
  <2> QED
    BY <1>c, <2>1 DEF Moves
<1> QED
  BY <1>1, <1>2, <1>3, <1>4, <1>5, <1>6, <1>7, <1>8, <1>9, <1>10, <1>11, <1>12 DEF Step

\* A process leaves tcpdump and time alone, adds no .pcap, and forgives no file.
LEMMA StepFrame ==
  ASSUME NEW p \in Processes, Step(p)
  PROVE  /\ UNCHANGED <<tcpdump, cur, openFor, written, age, term>>
         /\ pcap' \subseteq pcap /\ capped \subseteq capped' /\ spoiled \subseteq spoiled'
BY DEF Step, SweepStarts, NextFile, Stat, StatFails, AnnotateStarts, AnnotateEnds,
   AnnotateFails, UploadNg, UploadPcap, UploadFails, RemovePcap, SweepEnds, capture, disk,
   budget

LEMMA MovesTypes ==
  ASSUME TypeOK, \A q \in Processes : Moves(q), DOMAIN proc' = Processes,
         proc' = [q \in DOMAIN proc' |-> proc'[q]]
  PROVE  proc' \in [Processes -> Process]
<1>1. \A q \in Processes : proc'[q] \in Process
  BY RestTypes DEF Moves
<1> QED
  BY <1>1

\* Each of a process's steps writes proc as a function.
LEMMA StepIsFunction ==
  ASSUME TypeOK, NEW p \in Processes, Step(p)
  PROVE  DOMAIN proc' = Processes /\ proc' = [q \in DOMAIN proc' |-> proc'[q]]
<1>1. proc \in [Processes -> Process]
  BY DEF TypeOK
<1> QED
  BY <1>1 DEF Step, SweepStarts, NextFile, Stat, StatFails, AnnotateStarts, AnnotateEnds,
     AnnotateFails, UploadNg, UploadPcap, UploadFails, RemovePcap, SweepEnds, Goes, Restarted,
     Exited

LEMMA OpenedAreFiles ==
  ASSUME TypeOK
  PROVE  1..cur \subseteq Files /\ cur \in Nat
<1>1. cur \in 1..LastFile /\ LastFile \in Nat
  BY Constants DEF TypeOK, Files
<1> QED
  BY <1>1 DEF Files

LEMMA StepTypes ==
  ASSUME IInv, NEW p \in Processes, Step(p)
  PROVE  TypeOK'
<1>a. TypeOK
  BY DEF IInv
<1>b. proc' \in [Processes -> Process]
  BY <1>a, StepMoves, StepIsFunction, MovesTypes
<1>c. proc[p].at \in Working => proc[p].file \in Files
  BY <1>a, OpenedAreFiles DEF IInv, OpenedFiles
<1>0. stuck' \in BOOLEAN
  BY <1>a DEF TypeOK, Step, SweepStarts, NextFile, Stat, StatFails, AnnotateStarts,
     AnnotateEnds, AnnotateFails, UploadNg, UploadPcap, UploadFails, RemovePcap, SweepEnds
<1>1. failures' \in Nat /\ crashes' \in Nat /\ flushes' \in Nat
  <2>a. failures \in Nat /\ crashes \in Nat /\ flushes \in Nat
    BY <1>a DEF TypeOK
  <2>1. CASE SweepStarts(p)
    BY <2>a, <2>1 DEF SweepStarts
  <2>2. CASE UploadFails(p)
    <3>1. failures' \in {failures, failures + 1} /\ UNCHANGED <<crashes, flushes>>
      BY <2>2 DEF UploadFails
    <3> QED
      BY <2>a, <3>1
  <2>3. UNCHANGED budget \/ SweepStarts(p) \/ UploadFails(p)
    BY DEF Step, NextFile, Stat, StatFails, AnnotateStarts, AnnotateEnds, AnnotateFails,
       UploadNg, UploadPcap, RemovePcap, SweepEnds
  <2> QED
    BY <2>a, <2>1, <2>2, <2>3 DEF budget
<1>2. /\ UNCHANGED <<tcpdump, cur, openFor, written, age, term>>
      /\ pcap' \in SUBSET Files
  BY <1>a, StepFrame DEF TypeOK
<1>3. tmp' \in SUBSET Files
  BY <1>a, <1>c DEF TypeOK, Step, SweepStarts, NextFile, Stat, StatFails, AnnotateStarts,
     AnnotateEnds, AnnotateFails, UploadNg, UploadPcap, UploadFails, RemovePcap, SweepEnds,
     capture, disk, budget, Goes, Working
<1>4. capped' \in SUBSET Files
  <2>1. CASE UploadFails(p)
    BY <1>a, <1>c, <2>1 DEF TypeOK, UploadFails, Goes, Working
  <2>2. CASE SweepEnds(p)
    BY <1>a, <2>2 DEF TypeOK, SweepEnds
  <2> QED
    BY <1>a, <2>1, <2>2 DEF TypeOK, Step, SweepStarts, NextFile, Stat, StatFails,
       AnnotateStarts, AnnotateEnds, AnnotateFails, UploadNg, UploadPcap, RemovePcap
<1>7. spoiled' \in SUBSET Files
  <2>1. CASE AnnotateEnds(p)
    BY <1>a, <1>c, <2>1 DEF TypeOK, AnnotateEnds, Working
  <2>2. CASE StatFails(p)
    BY <1>a, <2>2 DEF TypeOK, StatFails
  <2> QED
    BY <1>a, <2>1, <2>2 DEF TypeOK, Step, SweepStarts, NextFile, Stat, AnnotateStarts,
       AnnotateFails, UploadNg, UploadPcap, UploadFails, RemovePcap, SweepEnds
<1>5. ng' \in [Files -> Nat \cup {None}]
  <2>1. CASE AnnotateEnds(p)
    <3>1. proc[p].file \in Files /\ written[proc[p].file] \in Nat
      BY <1>a, <1>c, <2>1 DEF AnnotateEnds, Working, TypeOK
    <3>2. PICK n \in Nat : ng' = [ng EXCEPT ![proc[p].file] = n]
      BY <2>1, <3>1 DEF AnnotateEnds
    <3> QED
      BY <1>a, <3>2 DEF TypeOK
  <2>2. CASE SweepEnds(p)
    BY <1>a, <2>2 DEF TypeOK, SweepEnds
  <2>3. CASE AnnotateFails(p) \/ UploadNg(p)
    BY <1>a, <2>3 DEF TypeOK, AnnotateFails, UploadNg
  <2> QED
    BY <1>a, <2>1, <2>2, <2>3 DEF TypeOK, Step, SweepStarts, NextFile, Stat, StatFails,
       AnnotateStarts, UploadPcap, UploadFails, RemovePcap, disk
<1>6. s3' \in [Files -> [pcap : Nat, ng : Nat]]
  <2>1. CASE UploadNg(p)
    <3> DEFINE f == proc[p].file
    <3>1. f \in Files /\ ng[f] \in Nat
      BY <1>a, <1>c, <2>1 DEF UploadNg, Goes, Working, TypeOK
    <3> QED
      BY <1>a, <2>1, <3>1 DEF TypeOK, UploadNg
  <2>2. CASE UploadPcap(p)
    <3> DEFINE f == proc[p].file
    <3>1. f \in Files /\ written[f] \in Nat
      BY <1>a, <1>c, <2>2 DEF UploadPcap, Goes, Working, TypeOK
    <3> QED
      BY <1>a, <2>2, <3>1 DEF TypeOK, UploadPcap
  <2> QED
    BY <1>a, <2>1, <2>2 DEF TypeOK, Step, SweepStarts, NextFile, Stat, StatFails,
       AnnotateStarts, AnnotateEnds, AnnotateFails, UploadFails, RemovePcap, SweepEnds
<1> QED
  BY <1>a, <1>b, <1>0, <1>1, <1>2, <1>3, <1>4, <1>5, <1>6, <1>7 DEF TypeOK

LEMMA StepKeepsSweeps ==
  ASSUME IInv, NEW p \in Processes, Step(p)
  PROVE  (OpenedFiles /\ AgesAreOld /\ ShipsDone)'
<1>a. TypeOK /\ OpenedFiles /\ AgesAreOld /\ ShipsDone
  BY DEF IInv
<1>b. /\ UNCHANGED <<tcpdump, cur, openFor, written, age, term>>
      /\ pcap' \subseteq pcap
  BY StepFrame
<1>c. "off" \notin Working /\ "exited" \notin Working /\ "sweep" \notin Working
      /\ Shipping \subseteq Working
  BY DEF Working, Shipping
<1>d. cur \in Nat /\ \A f \in Files : age[f] \in Nat
  BY <1>a, Constants DEF TypeOK, Files
<1> SUFFICES ASSUME NEW q \in Processes
             PROVE  /\ proc'[q].todo \subseteq 1..cur
                    /\ proc'[q].at \in Working => proc'[q].file \in 1..cur
                    /\ \A f \in Files : proc'[q].ages[f] <= age[f]
                    /\ term # "handled" => proc'[q].least = Complete
                    /\ proc'[q].at \in Shipping /\ proc'[q].least = Complete
                         => Done(proc'[q].file)
  BY <1>a, <1>b DEF OpenedFiles, AgesAreOld, ShipsDone, Done
<1>1. CASE proc'[q] \in {Idle, Gone}
  BY <1>1, <1>c, <1>d DEF Idle, Gone
<1>2. CASE proc'[q] = Sweeping(Complete)
  BY <1>2, <1>a, <1>c, <1>d DEF Sweeping, Idle, OpenedFiles
<1>3. CASE /\ proc'[q].ages = proc[q].ages /\ proc'[q].least = proc[q].least
           /\ proc'[q].todo \subseteq proc[q].todo
           /\ proc'[q].at \in {"sweep", "stat"} /\ proc'[q].file \in proc[q].todo
  <2>1. proc'[q].at \notin Shipping
    BY <1>3 DEF Shipping, Working
  <2> QED
    BY <1>3, <1>a, <2>1 DEF OpenedFiles, AgesAreOld, ShipsDone
<1>4. CASE /\ proc'[q].ages = proc[q].ages /\ proc'[q].least = proc[q].least
           /\ proc'[q].todo \subseteq proc[q].todo
           /\ GoesOn(q)
  <2>1. ASSUME proc[q].at = "stat", Taken(q, proc[q].file), proc[q].least = Complete
        PROVE  Done(proc[q].file)
    <3>1. proc[q].file \in 1..cur /\ proc[q].file \in Files
      BY <1>a, <2>1, OpenedAreFiles DEF OpenedFiles, Working
    <3>2. age[proc[q].file] >= Complete
      <4> DEFINE f == proc[q].file
      <4>1. proc[q].ages[f] >= Complete /\ proc[q].ages[f] <= age[f]
        BY <1>a, <2>1, <3>1 DEF Taken, AgesAreOld
      <4>2. proc[q].ages[f] \in -1..Complete /\ age[f] \in Nat
        <5>1. proc[q] \in Process
          BY <1>a DEF TypeOK
        <5> QED
          BY <1>d, <3>1, <5>1 DEF Process
      <4> QED
        BY <4>1, <4>2, Constants
    <3>3. CASE proc[q].file = cur
      BY <1>a, <3>2, <3>3, Constants DEF AgesAreOld, Done, TypeOK
    <3>4. CASE proc[q].file < cur
      BY <3>4 DEF Done
    <3> QED
      BY <1>d, <3>1, <3>3, <3>4
  <2> QED
    BY <1>4, <1>a, <2>1 DEF OpenedFiles, AgesAreOld, ShipsDone, GoesOn
<1> QED
  BY <1>a, <1>1, <1>2, <1>3, <1>4, StepMoves DEF Moves

\* What a process removes is done, unless the trap has run; the cap's are given up.
LEMMA StepKeepsOpenFile ==
  ASSUME IInv, NEW p \in Processes, Step(p)
  PROVE  OpenFileKept'
<1>a. TypeOK /\ ShipsDone /\ OpenFileKept /\ cur \in Nat
  BY Constants DEF IInv, TypeOK, Files
<1>b. UNCHANGED <<tcpdump, cur, openFor, term>> /\ capped \subseteq capped'
  BY StepFrame
<1>1. CASE RemovePcap(p)
  <2>1. term # "handled" => Done(proc[p].file)
    BY <1>a, <1>1 DEF RemovePcap, Goes, ShipsDone, Shipping, Working
  <2> QED
    BY <1>a, <1>b, <1>1, <2>1 DEF RemovePcap, OpenFileKept, Done, TypeOK
<1>2. CASE SweepEnds(p)
  BY <1>a, <1>b, <1>2 DEF SweepEnds, OpenFileKept
<1>3. CASE pcap' = pcap
  BY <1>a, <1>b, <1>3 DEF OpenFileKept
<1> QED
  BY <1>1, <1>2, <1>3 DEF Step, SweepStarts, NextFile, Stat, StatFails, AnnotateStarts,
     AnnotateEnds, AnnotateFails, UploadNg, UploadPcap, UploadFails, disk

-----------------------------------------------------------------------------
\* The steps of tcpdump, of time and of the pod.
LEMMA PacketKeepsIInv ==
  ASSUME IInv, Packet
  PROVE  IInv'
<1> DEFINE f == IF openFor < RotateAfter THEN cur ELSE cur + 1
<1>a. TypeOK /\ OpenedFiles /\ AgesAreOld /\ ShipsDone /\ OpenFileKept
  BY DEF IInv
<1>b. /\ tcpdump = "running" /\ f \in Files /\ cur' = f
      /\ openFor' = IF f = cur THEN openFor ELSE 0
      /\ pcap' = IF f = cur THEN pcap ELSE pcap \cup {f}
      /\ written' = [written EXCEPT ![f] = @ + 1]
      /\ age' = [age EXCEPT ![f] = 0]
      /\ proc' = [q \in Processes |-> [proc[q] EXCEPT !.ages[f] = -1]]
      /\ spoiled' \in {spoiled, spoiled \cup {f}}
      /\ UNCHANGED <<tcpdump, tmp, ng, s3, term, stuck, capped, failures, crashes, flushes>>
  BY DEF Packet, budget
<1>c. /\ cur \in Nat /\ openFor \in 0..RotateAfter /\ RotateAfter \in Nat /\ RotateAfter > 0
      /\ age \in [Files -> 0..Complete] /\ Complete \in Nat /\ cur \in Files
  BY <1>a, Constants, OpenedAreFiles DEF TypeOK
<1>d. \/ f = cur /\ openFor < RotateAfter
      \/ f = cur + 1 /\ openFor = RotateAfter
  BY <1>c
<1> HIDE DEF f
<1>e. \A q \in Processes :
        /\ proc[q] \in Process
        /\ proc'[q] = [proc[q] EXCEPT !.ages = [@ EXCEPT ![f] = -1]]
  BY <1>a, <1>b DEF TypeOK
<1>f. -1 \in -1..Complete /\ 0 \in 0..Complete /\ 0 \in 0..RotateAfter
  BY <1>c
<1>g. \A q \in Processes :
        /\ proc'[q] \in Process /\ proc'[q].ages = [proc[q].ages EXCEPT ![f] = -1]
        /\ proc'[q].at = proc[q].at /\ proc'[q].file = proc[q].file
        /\ proc'[q].todo = proc[q].todo /\ proc'[q].least = proc[q].least
  <2> SUFFICES ASSUME NEW q \in Processes
               PROVE  /\ proc'[q] \in Process /\ proc'[q].ages = [proc[q].ages EXCEPT ![f] = -1]
                      /\ proc'[q].at = proc[q].at /\ proc'[q].file = proc[q].file
                      /\ proc'[q].todo = proc[q].todo /\ proc'[q].least = proc[q].least
    OBVIOUS
  <2>1. proc[q] \in Process /\ proc'[q] = [proc[q] EXCEPT !.ages = [@ EXCEPT ![f] = -1]]
    BY <1>e
  <2>2. [proc[q].ages EXCEPT ![f] = -1] \in [Files -> -1..Complete]
    BY <1>f, <2>1 DEF Process
  <2> QED
    BY <2>1, <2>2 DEF Process
<1>1. TypeOK'
  <2>1. proc' \in [Processes -> Process]
    BY <1>b, <1>g
  <2>2. written' \in [Files -> Nat] /\ age' \in [Files -> 0..Complete] /\ openFor' \in 0..RotateAfter
    BY <1>a, <1>b, <1>c, <1>f DEF TypeOK
  <2>3. pcap' \in SUBSET Files
    BY <1>a, <1>b DEF TypeOK
  <2> QED
    BY <1>a, <1>b, <2>1, <2>2, <2>3 DEF TypeOK
<1>2. OpenedFiles'
  <2>1. 1..cur \subseteq 1..cur' /\ cur' \in 1..cur'
    <3>1. cur > 0 /\ cur' \in {cur, cur + 1}
      BY <1>b, <1>c, <1>d DEF Files
    <3> QED
      BY <1>c, <3>1
  <2>2. pcap' \subseteq 1..cur'
    BY <1>a, <1>b, <2>1 DEF OpenedFiles
  <2> QED
    BY <1>a, <1>g, <2>1, <2>2 DEF OpenedFiles
<1>3. AgesAreOld'
  <2>1. openFor' < RotateAfter => age'[cur'] <= openFor'
    BY <1>b, <1>c, <1>d
  <2>2. ASSUME NEW q \in Processes, NEW g \in Files
        PROVE  proc'[q].ages[g] <= age'[g]
    <3>1. proc[q].ages \in [Files -> -1..Complete]
      BY <1>e DEF Process
    <3>2. /\ age'[g] = IF g = f THEN 0 ELSE age[g]
          /\ proc'[q].ages = [proc[q].ages EXCEPT ![f] = -1]
      BY <1>b, <1>c, <1>g
    <3>3. proc'[q].ages[g] = IF g = f THEN -1 ELSE proc[q].ages[g]
      BY <1>b, <3>1, <3>2
    <3>4. proc[q].ages[g] <= age[g] /\ -1 <= 0
      BY <1>a DEF AgesAreOld
    <3> QED
      BY <3>2, <3>3, <3>4
  <2>3. \A g \in Files : g > cur' => age'[g] = 0
    <3>1. \A g \in Files : g > cur' => g > cur /\ g \in Int
      BY <1>b, <1>c, <1>d, Constants
    <3> QED
      BY <1>a, <1>b, <1>c, <3>1 DEF AgesAreOld
  <2> QED
    BY <2>1, <2>2, <2>3 DEF AgesAreOld
<1>4. ShipsDone'
  <2>1. ASSUME NEW g \in 1..cur, Done(g) PROVE Done(g)'
    BY <1>b, <1>c, <1>d, <2>1 DEF Done
  <2>2. \A q \in Processes : proc[q].at \in Shipping => proc[q].file \in 1..cur
    BY <1>a DEF OpenedFiles, Shipping
  <2> QED
    <3>1. ASSUME NEW q \in Processes
          PROVE  /\ term' # "handled" => proc'[q].least = Complete
                 /\ proc'[q].at \in Shipping /\ proc'[q].least = Complete
                      => Done(proc[q].file)'
      <4>1. /\ proc'[q].at = proc[q].at /\ proc'[q].file = proc[q].file
            /\ proc'[q].least = proc[q].least /\ term' = term
        BY <1>b, <1>g
      <4>2. /\ term # "handled" => proc[q].least = Complete
            /\ proc[q].at \in Shipping /\ proc[q].least = Complete => Done(proc[q].file)
        BY <1>a DEF ShipsDone
      <4>3. proc[q].at \in Shipping => proc[q].file \in 1..cur
        BY <2>2
      <4>4. ASSUME proc[q].at \in Shipping, proc[q].least = Complete
            PROVE  Done(proc[q].file)'
        <5>1. PICK g \in 1..cur : g = proc[q].file /\ Done(g)
          BY <4>2, <4>3, <4>4
        <5>2. Done(g)' /\ g = proc'[q].file
          BY <2>1, <4>1, <5>1
        <5> QED
          BY <5>2 DEF Done
      <4> QED
        BY <4>1, <4>2, <4>4
    <3> QED
      BY <3>1 DEF ShipsDone
<1>5. OpenFileKept'
  BY <1>a, <1>b, <1>c, <1>d DEF OpenFileKept
<1> QED
  BY <1>1, <1>2, <1>3, <1>4, <1>5 DEF IInv

LEMMA TickKeepsIInv ==
  ASSUME IInv, Tick
  PROVE  IInv'
<1>a. TypeOK /\ OpenedFiles /\ AgesAreOld /\ ShipsDone /\ OpenFileKept
  BY DEF IInv
<1>b. /\ openFor' = Min2(openFor + 1, RotateAfter)
      /\ age' = [f \in Files |-> IF f <= cur THEN Min2(age[f] + 1, Complete) ELSE 0]
      /\ UNCHANGED <<tcpdump, cur, written, pcap, tmp, ng, s3, proc, term, stuck, capped,
                     spoiled, failures, crashes, flushes>>
  BY DEF Tick, disk, budget
<1>c. /\ cur \in Nat /\ openFor \in 0..RotateAfter /\ RotateAfter \in Nat
      /\ age \in [Files -> 0..Complete] /\ Complete \in Nat /\ cur \in Files
      /\ RotateAfter < Complete
  BY <1>a, Constants, OpenedAreFiles DEF TypeOK
<1>d. ASSUME NEW f \in Files
      PROVE  age'[f] \in 0..Complete /\ (f <= cur => age[f] <= age'[f] /\ age'[f] <= age[f] + 1)
  BY <1>b, <1>c DEF Min2
<1>e. /\ openFor' \in 0..RotateAfter
      /\ openFor < RotateAfter => openFor' = openFor + 1
      /\ openFor = RotateAfter => openFor' = RotateAfter
  BY <1>b, <1>c DEF Min2
<1>1. TypeOK'
  <2>1. age' \in [Files -> 0..Complete]
    BY <1>b, <1>d
  <2> QED
    BY <1>a, <1>b, <1>e, <2>1 DEF TypeOK
<1>2. OpenedFiles'
  BY <1>a, <1>b DEF OpenedFiles
<1>3. AgesAreOld'
  <2>1. openFor' < RotateAfter => age'[cur'] <= openFor'
    <3>1. age'[cur] <= age[cur] + 1 /\ age[cur] \in Nat /\ age'[cur] \in Nat
      BY <1>c, <1>d
    <3> QED
      BY <1>a, <1>b, <1>c, <1>e, <3>1 DEF AgesAreOld
  <2>2. ASSUME NEW q \in Processes, NEW f \in Files
        PROVE  proc[q].ages[f] <= age'[f]
    <3>1. proc[q].ages[f] <= age[f] /\ proc[q].ages[f] \in Int
      <4>1. proc[q] \in Process
        BY <1>a DEF TypeOK
      <4>2. proc[q].ages[f] \in -1..Complete
        BY <4>1 DEF Process
      <4> QED
        BY <1>a, <4>2 DEF AgesAreOld
    <3>2. CASE f <= cur
      <4>1. age[f] <= age'[f]
        BY <1>d, <3>2
      <4>2. age[f] \in Nat /\ age'[f] \in Nat
        <5>1. age[f] \in 0..Complete /\ age'[f] \in 0..Complete
          BY <1>c, <1>d
        <5> QED
          BY <1>c, <5>1
      <4> QED
        BY <3>1, <4>1, <4>2
    <3>3. CASE f > cur
      <4>1. age[f] = 0 /\ age'[f] \in Nat
        BY <1>a, <1>d, <3>3 DEF AgesAreOld
      <4> QED
        BY <3>1, <4>1
    <3> QED
      BY <1>c, <3>2, <3>3, Constants
  <2>3. \A f \in Files : f > cur => age'[f] = 0
    BY <1>b, <1>c, Constants
  <2> QED
    BY <1>b, <2>1, <2>2, <2>3 DEF AgesAreOld
<1>4. ShipsDone'
  BY <1>a, <1>b, <1>e DEF ShipsDone, Done
<1>5. OpenFileKept'
  BY <1>a, <1>b, <1>c, <1>e DEF OpenFileKept
<1> QED
  BY <1>1, <1>2, <1>3, <1>4, <1>5 DEF IInv

LEMMA RestartKeepsIInv ==
  ASSUME IInv, CaptureRestarts
  PROVE  IInv'
<1>a. TypeOK /\ OpenedFiles /\ AgesAreOld /\ ShipsDone /\ OpenFileKept
  BY DEF IInv
<1>b. /\ cur < LastFile /\ cur' = cur + 1 /\ openFor' = 0 /\ pcap' = pcap \cup {cur + 1}
      /\ crashes' = crashes + 1
      /\ UNCHANGED <<tcpdump, written, age, tmp, ng, s3, proc, term, stuck, capped,
                     spoiled, failures, flushes>>
  BY DEF CaptureRestarts
<1>c. /\ cur \in Nat /\ cur > 0 /\ LastFile \in Nat /\ RotateAfter \in Nat /\ RotateAfter > 0
      /\ 1..cur \subseteq 1..(cur + 1) /\ cur + 1 \in 1..(cur + 1)
  BY <1>a, Constants, OpenedAreFiles DEF TypeOK, Files
<1>d. cur' \in Files /\ 0 \in 0..RotateAfter
  BY <1>b, <1>c DEF Files
<1>1. TypeOK'
  BY <1>a, <1>b, <1>d DEF TypeOK
<1>2. OpenedFiles'
  <2>1. pcap' \subseteq 1..cur'
    BY <1>a, <1>b, <1>c DEF OpenedFiles
  <2> QED
    BY <1>a, <1>b, <1>c, <2>1 DEF OpenedFiles
<1>3. AgesAreOld'
  <2>1. age[cur'] = 0
    BY <1>a, <1>b, <1>c, <1>d DEF AgesAreOld
  <2>2. \A f \in Files : f > cur' => f > cur
    BY <1>b, <1>c, Constants
  <2> QED
    BY <1>a, <1>b, <2>1, <2>2 DEF AgesAreOld
<1>4. ShipsDone'
  <2>1. ASSUME NEW f \in 1..cur PROVE Done(f)'
    BY <1>b, <1>c DEF Done
  <2>2. \A q \in Processes : proc[q].at \in Shipping => proc[q].file \in 1..cur
    BY <1>a DEF OpenedFiles, Shipping
  <2> QED
    BY <1>a, <1>b, <2>1, <2>2 DEF ShipsDone
<1>5. OpenFileKept'
  BY <1>b DEF OpenFileKept
<1> QED
  BY <1>1, <1>2, <1>3, <1>4, <1>5 DEF IInv

LEMMA PodKeepsIInv ==
  ASSUME IInv, Sigterm \/ TcpdumpEnds \/ FinalSweep \/ Killed \/ Crash
  PROVE  IInv'
<1>a. TypeOK /\ OpenedFiles /\ AgesAreOld /\ ShipsDone /\ OpenFileKept
  BY DEF IInv
<1>b. proc \in [Processes -> Process] /\ Processes = {"main", "once"}
  BY <1>a DEF TypeOK, Processes
<1>c. /\ UNCHANGED <<cur, openFor, written, age, pcap, tmp, ng, s3, capped, failures, flushes>>
      /\ spoiled' \in {spoiled, spoiled \cup pcap}
      /\ tcpdump' \in {tcpdump, "ended"} /\ term' \in {term, "sent", "handled"}
      /\ (term = "handled" => term' = "handled")
      /\ stuck' \in {stuck, FALSE} /\ crashes' \in {crashes, crashes + 1}
  BY DEF Sigterm, TcpdumpEnds, FinalSweep, Killed, Crash, capture, disk, budget
<1>d. \A q \in Processes :
        proc'[q] \in {proc[q], Idle, Gone} \/ (proc'[q] = Sweeping(0) /\ term' = "handled")
  BY <1>b DEF Sigterm, TcpdumpEnds, FinalSweep, Killed, Crash, Exited, Restarted, Gone
<1>1. TypeOK'
  <2>1. proc' \in [Processes -> Process]
    BY <1>a, <1>b, RestTypes DEF Sigterm, TcpdumpEnds, FinalSweep, Killed, Crash, Exited,
       Restarted, Gone
  <2>2. crashes' \in Nat
    BY <1>a, <1>c DEF TypeOK
  <2> QED
    BY <1>a, <1>c, <2>1, <2>2 DEF TypeOK
<1>2. OpenFileKept'
  BY <1>a, <1>c DEF OpenFileKept
<1>e. "off" \notin Working /\ "exited" \notin Working /\ "sweep" \notin Working
      /\ Shipping \subseteq Working
  BY DEF Working, Shipping
<1>f. \A f \in Files : age[f] \in Nat
  BY <1>a, Constants DEF TypeOK
<1>3. ASSUME NEW q \in Processes
      PROVE  /\ proc'[q].todo \subseteq 1..cur
             /\ proc'[q].at \in Working => proc'[q].file \in 1..cur
             /\ \A f \in Files : proc'[q].ages[f] <= age[f]
             /\ term' # "handled" => proc'[q].least = Complete
             /\ proc'[q].at \in Shipping /\ proc'[q].least = Complete
                  => Done(proc'[q].file)
  <2>1. CASE proc'[q] = proc[q]
    BY <1>a, <1>c, <2>1 DEF OpenedFiles, AgesAreOld, ShipsDone
  <2>2. CASE proc'[q] \in {Idle, Gone}
    BY <1>e, <1>f, <2>2 DEF Idle, Gone
  <2>3. CASE proc'[q] = Sweeping(0) /\ term' = "handled"
    BY <1>a, <1>e, <1>f, <2>3 DEF Sweeping, Idle, OpenedFiles
  <2> QED
    BY <1>d, <2>1, <2>2, <2>3
<1>4. OpenedFiles' /\ AgesAreOld' /\ ShipsDone'
  BY <1>a, <1>c, <1>3 DEF OpenedFiles, AgesAreOld, ShipsDone, Done
<1> QED
  BY <1>1, <1>2, <1>4 DEF IInv

LEMMA NextKeepsIInv ==
  ASSUME IInv, [Next]_vars
  PROVE  IInv'
<1>1. CASE UNCHANGED vars
  BY <1>1 DEF vars, capture, disk, budget, IInv, TypeOK, OpenedFiles, AgesAreOld, ShipsDone,
     OpenFileKept, Done
<1>2. ASSUME NEW p \in Processes, Step(p) PROVE IInv'
  BY <1>2, StepTypes, StepKeepsSweeps, StepKeepsOpenFile DEF IInv
<1> QED
  BY <1>1, <1>2, PacketKeepsIInv, TickKeepsIInv, RestartKeepsIInv, PodKeepsIInv DEF Next

-----------------------------------------------------------------------------
LEMMA InitLossInv == Init => LossInv
<1> SUFFICES ASSUME Init PROVE LossInv
  OBVIOUS
<1>1. /\ \A q \in Processes : proc[q] = Idle
      /\ "main" \in Processes /\ "once" \in Processes
      /\ \A f \in Files : ng[f] = None /\ written[f] = 0 /\ s3[f].pcap = 0
  BY DEF Init, Processes
<1>2. Idle.at = "off" /\ Idle.least = Complete /\ Complete # 0
  BY Constants DEF Idle
<1>3. NothingLost
  BY <1>1 DEF NothingLost, InS3
<1> QED
  BY <1>1, <1>2, <1>3 DEF LossInv, NgWhole, RemoveStored, SweepTakes, SweepCovers, main

\* A file that gets a packet is not one that is done, or the last sweep has begun: it
\* is spoiled.
LEMMA PacketKeepsLossInv ==
  ASSUME IInv, LossInv, Packet
  PROVE  LossInv'
<1> DEFINE f == IF openFor < RotateAfter THEN cur ELSE cur + 1
<1>a. /\ TypeOK /\ OpenedFiles /\ ShipsDone /\ OpenFileKept
      /\ NgWhole /\ RemoveStored /\ SweepTakes /\ SweepCovers /\ NothingLost
  BY DEF IInv, LossInv
<1>b. /\ f \in Files /\ tcpdump = "running" /\ written' = [written EXCEPT ![f] = @ + 1]
      /\ pcap' = IF f = cur THEN pcap ELSE pcap \cup {f}
      /\ cur' = f /\ openFor' = IF f = cur THEN openFor ELSE 0
      /\ spoiled' = IF term = "handled" \/ main.at = "exited" THEN spoiled \cup {f} ELSE spoiled
      /\ UNCHANGED <<s3, ng, term, capped>>
  BY DEF Packet, LastSweepBegan, main
<1>c. /\ proc \in [Processes -> Process] /\ "main" \in Processes /\ "once" \in Processes
      /\ cur \in Nat /\ openFor \in 0..RotateAfter /\ RotateAfter \in Nat /\ Complete # 0
  BY <1>a, Constants, OpenedAreFiles DEF TypeOK, Processes
<1>d. \A q \in Processes :
        /\ proc'[q].at = proc[q].at /\ proc'[q].file = proc[q].file
        /\ proc'[q].todo = proc[q].todo /\ proc'[q].least = proc[q].least
  BY <1>c DEF Packet, Process
<1>e. \A g \in Files : g # f => main'.ages[g] = main.ages[g]
  <2>1. main \in Process /\ main' = [main EXCEPT !.ages[f] = -1]
    BY <1>c DEF Packet, main, f
  <2>2. main'.ages = [main.ages EXCEPT ![f] = -1] /\ main.ages \in [Files -> -1..Complete]
    BY <2>1 DEF Process
  <2> QED
    BY <2>2
<1>f. main.least = 0 => term = "handled"
  BY <1>a, <1>c DEF ShipsDone, main
<1>g. \/ f = cur /\ openFor < RotateAfter
      \/ f = cur + 1 /\ openFor = RotateAfter
  BY <1>c
<1> HIDE DEF f
<1>h. \A g \in Files : g # f => written'[g] = written[g] /\ (Safe(g) => Safe(g)')
  BY <1>a, <1>b DEF TypeOK, Safe, InS3
<1>i. \/ f \in spoiled'
      \/ term # "handled" /\ main.at # "exited"
  BY <1>b
<1>1. NgWhole'
  <2> SUFFICES ASSUME NEW g \in Files, g \notin spoiled', ng[g] # None
               PROVE  ng[g] >= written'[g] /\ g <= cur' /\ (Done(g)' \/ term = "handled")
    BY <1>b DEF NgWhole
  <2>1. ng[g] >= written[g] /\ g <= cur /\ (Done(g) \/ term = "handled") /\ g \in Nat
    BY <1>a, <1>b, Constants DEF NgWhole
  <2>2. g # f
    BY <1>c, <1>g, <1>i, <2>1 DEF Done
  <2> QED
    BY <1>b, <1>c, <1>g, <1>h, <2>1, <2>2 DEF Done
<1>2. RemoveStored'
  <2> SUFFICES ASSUME NEW q \in Processes, proc[q].at = "remove"
               PROVE  Safe(proc[q].file)'
    BY <1>d DEF RemoveStored, Safe, InS3
  <2>1. proc[q].file \in 1..cur /\ proc[q].file \in Files /\ Safe(proc[q].file)
    BY <1>a, OpenedAreFiles DEF OpenedFiles, RemoveStored, Working
  <2>2. CASE proc[q].file # f
    BY <1>h, <2>1, <2>2, <1>d DEF Safe, InS3
  <2>3. CASE proc[q].file = f
    <3>1. f \in spoiled'
      <4>1. Done(f) \/ term = "handled"
        BY <1>a, <2>3 DEF ShipsDone, Shipping, Working
      <4> QED
        BY <1>c, <1>g, <1>i, <2>1, <2>3, <4>1 DEF Done
    <3> QED
      BY <1>d, <2>3, <3>1 DEF Safe
  <2> QED
    BY <2>2, <2>3
<1>3. SweepTakes' /\ SweepCovers'
  <2> SUFFICES ASSUME main.least = 0
               PROVE  SweepTakes' /\ SweepCovers'
    BY <1>a, <1>c, <1>d DEF SweepTakes, SweepCovers, main
  <2>1. f \in spoiled' /\ spoiled \subseteq spoiled'
    BY <1>b, <1>f
  <2>2. SweepTakes'
    BY <1>a, <1>c, <1>d, <1>e, <2>1 DEF SweepTakes
  <2>3. SweepCovers'
    <3> SUFFICES ASSUME NEW g \in Files
                 PROVE  \/ Safe(g)' \/ g \in main'.todo
                        \/ main'.at \in Working \ {"remove"} /\ g = main'.file
      BY DEF SweepCovers
    <3>1. \/ Safe(g) \/ g \in main.todo
          \/ main.at \in Working \ {"remove"} /\ g = main.file
      BY <1>a DEF SweepCovers
    <3>2. main'.todo = main.todo /\ main'.at = main.at /\ main'.file = main.file
      BY <1>c, <1>d DEF main
    <3> QED
      BY <1>h, <2>1, <3>1, <3>2 DEF Safe
  <2> QED
    BY <2>2, <2>3
<1>4. NothingLost'
  <2> SUFFICES ASSUME NEW g \in Files
               PROVE  Safe(g)' \/ (g \in pcap' /\ main'.at # "exited")
    BY DEF NothingLost, Safe, main
  <2>1. Safe(g) \/ (g \in pcap /\ main.at # "exited")
    BY <1>a DEF NothingLost, Safe, main
  <2>2. main'.at = main.at /\ pcap \subseteq pcap'
    BY <1>b, <1>c, <1>d DEF main
  <2>3. CASE g # f
    BY <1>h, <2>1, <2>2, <2>3
  <2>4. CASE g = f
    <3>1. CASE f \in spoiled'
      BY <2>4, <3>1 DEF Safe
    <3>2. CASE term # "handled" /\ main.at # "exited"
      <4>1. f \in capped \/ f \in pcap'
        BY <1>a, <1>b, <1>c, <1>g, <3>2 DEF OpenFileKept
      <4> QED
        BY <1>b, <2>2, <2>4, <3>2, <4>1 DEF Safe
    <3> QED
      BY <1>i, <3>1, <3>2
  <2> QED
    BY <2>3, <2>4
<1> QED
  BY <1>1, <1>2, <1>3, <1>4 DEF LossInv

LEMMA TimeKeepsLossInv ==
  ASSUME IInv, LossInv, Tick \/ CaptureRestarts
  PROVE  LossInv'
<1>a. /\ TypeOK /\ NgWhole /\ RemoveStored /\ SweepTakes /\ SweepCovers /\ NothingLost
  BY DEF IInv, LossInv
<1>b. /\ UNCHANGED <<s3, ng, term, capped, spoiled, proc, written>> /\ pcap \subseteq pcap'
  BY DEF Tick, CaptureRestarts, disk, budget
<1>c. /\ cur \in Nat /\ openFor \in 0..RotateAfter /\ RotateAfter \in Nat
  BY <1>a, Constants, OpenedAreFiles DEF TypeOK
<1>d. \A f \in Files : f <= cur /\ Done(f) => f <= cur' /\ Done(f)'
  <2>1. CASE Tick
    BY <1>c, <2>1 DEF Tick, Done, Min2
  <2>2. CASE CaptureRestarts
    BY <1>c, <2>2, Constants DEF CaptureRestarts, Done
  <2> QED
    BY <2>1, <2>2
<1>e. cur' >= cur
  BY <1>c DEF Tick, CaptureRestarts
<1>1. NgWhole'
  <2>1. \A f \in Files : f <= cur => f <= cur'
    BY <1>b, <1>c, <1>e, Constants DEF Tick, CaptureRestarts
  <2> QED
    BY <1>a, <1>b, <1>d, <2>1 DEF NgWhole
<1> QED
  BY <1>a, <1>b, <1>1 DEF LossInv, RemoveStored, SweepTakes, SweepCovers, NothingLost, Safe,
     InS3, main

LEMMA PodKeepsLossInv ==
  ASSUME IInv, LossInv, Sigterm \/ TcpdumpEnds \/ FinalSweep \/ Killed \/ Crash
  PROVE  LossInv'
<1>a. TypeOK /\ NgWhole /\ RemoveStored /\ SweepTakes /\ SweepCovers /\ NothingLost
  BY DEF IInv, LossInv
<1>b. /\ proc \in [Processes -> Process] /\ "main" \in Processes /\ Complete # 0
      /\ "once" \in Processes
  BY <1>a, Constants DEF TypeOK, Processes
<1>c. /\ UNCHANGED <<cur, openFor, pcap, ng, s3, capped, written>>
      /\ spoiled \subseteq spoiled' /\ (term = "handled" => term' = "handled")
  BY DEF Sigterm, TcpdumpEnds, FinalSweep, Killed, Crash, capture, disk, budget
<1>d. /\ Idle.at = "off" /\ Idle.least = Complete
      /\ Gone.at = "exited" /\ Gone.least = Complete
  BY DEF Idle, Gone
<1>e. \A f : Safe(f) => Safe(f)'
  BY <1>c DEF Safe, InS3
<1>1. NgWhole'
  BY <1>a, <1>c DEF NgWhole, Done
<1>2. CASE Sigterm \/ TcpdumpEnds
  <2>1. UNCHANGED <<proc, spoiled>>
    BY <1>2 DEF Sigterm, TcpdumpEnds
  <2> QED
    BY <1>a, <1>1, <1>c, <2>1 DEF LossInv, RemoveStored, SweepTakes, SweepCovers, NothingLost,
       Safe, InS3, main
<1>3. CASE FinalSweep
  <2>1. /\ proc' = [proc EXCEPT !["main"] = Sweeping(0)] /\ UNCHANGED spoiled
        /\ main.at # "exited"
    BY <1>3 DEF FinalSweep, main
  <2>2. /\ main'.at = "sweep" /\ main'.least = 0 /\ main'.todo = pcap /\ main'.ages = age
        /\ \A q \in Processes : proc'[q].at = "remove" => proc'[q] = proc[q]
        /\ proc'["once"] = proc["once"]
    BY <1>b, <2>1 DEF Sweeping, Idle, main
  <2>3. \A f \in Files : age[f] >= 0
    BY <1>a, Constants DEF TypeOK
  <2>4. RemoveStored'
    BY <1>a, <1>e, <2>2 DEF RemoveStored, Safe, InS3
  <2>5. SweepTakes' /\ SweepCovers' /\ NothingLost'
    BY <1>a, <1>c, <1>e, <2>1, <2>2, <2>3 DEF SweepTakes, SweepCovers, NothingLost, Safe, main
  <2> QED
    BY <1>1, <2>4, <2>5 DEF LossInv
<1>4. CASE Killed \/ Crash
  <2>1. \A q \in Processes : proc'[q] \in {Idle, Gone}
    BY <1>4 DEF Killed, Crash, Exited, Restarted, Gone
  <2>2. main'.least # 0 /\ \A q \in Processes : proc'[q].at # "remove" /\ proc'[q].least # 0
    BY <1>b, <1>d, <2>1 DEF main
  <2>3. main'.at # "exited" \/ spoiled' = spoiled \cup pcap
    BY <1>4, <1>b, <1>d DEF Killed, Crash, Restarted, main
  <2>4. NothingLost'
    BY <1>a, <1>c, <1>e, <2>3 DEF NothingLost, Safe, main
  <2> QED
    BY <1>1, <1>b, <2>2, <2>4 DEF LossInv, RemoveStored, SweepTakes, SweepCovers
<1> QED
  BY <1>2, <1>3, <1>4

\* The end of an annotation moves the process on, and one that has the same .tmp open.
LEMMA AnnotateEffect ==
  ASSUME TypeOK, NEW p \in Processes, AnnotateEnds(p), NEW q \in Processes
  PROVE  /\ proc'[q].todo = proc[q].todo /\ proc'[q].file = proc[q].file
         /\ proc'[q].at \in {proc[q].at, "upload ng", "rewrite"}
<1> DEFINE o == Other(p)
           at == IF proc[o].at = "annotate" /\ proc[o].file = proc[p].file
                 THEN "rewrite" ELSE proc[o].at
<1>1. proc \in [Processes -> Process]
  BY DEF TypeOK
<1>2. o \in Processes /\ o # p /\ q \in {p, o}
  BY DEF Other, Processes
<1>3. proc' = [proc EXCEPT ![p].at = "upload ng", ![o].at = at]
  BY <1>1, <1>2 DEF AnnotateEnds
<1>4. at \in {proc[o].at, "rewrite"}
  OBVIOUS
<1> HIDE DEF o, at
<1>5. /\ proc'[p] = [proc[p] EXCEPT !.at = "upload ng"]
      /\ proc'[o] = [proc[o] EXCEPT !.at = at]
      /\ proc[p] \in Process /\ proc[o] \in Process
  BY <1>1, <1>2, <1>3
<1>6. /\ proc'[p].todo = proc[p].todo /\ proc'[p].file = proc[p].file
      /\ proc'[p].at = "upload ng"
  BY <1>5 DEF Process
<1>7. /\ proc'[o].todo = proc[o].todo /\ proc'[o].file = proc[o].file
      /\ proc'[o].at = at
  BY <1>5 DEF Process
<1> QED
  BY <1>2, <1>4, <1>6, <1>7

\* What S3 has of a file it keeps: an object is replaced by a whole one, or by what two
\* annotations wrote at once.
LEMMA StepKeepsSafe ==
  ASSUME IInv, NgWhole, NEW p \in Processes, Step(p), NEW f \in Files, Safe(f)
  PROVE  Safe(f)'
<1>a. TypeOK /\ OpenedFiles
  BY DEF IInv
<1>b. UNCHANGED written /\ capped \subseteq capped' /\ spoiled \subseteq spoiled'
  BY StepFrame
<1>1. CASE UploadNg(p)
  <2>1. /\ s3' = [s3 EXCEPT ![proc[p].file].ng = ng[proc[p].file]]
        /\ ng[proc[p].file] # None
    BY <1>1 DEF UploadNg
  <2>2. s3'[f].pcap = s3[f].pcap /\ s3'[f].ng = IF f = proc[p].file THEN ng[f] ELSE s3[f].ng
    BY <1>a, <2>1 DEF TypeOK
  <2>3. f \in spoiled \/ f # proc[p].file \/ ng[f] >= written[f]
    BY <2>1 DEF NgWhole
  <2> QED
    BY <1>b, <2>2, <2>3 DEF Safe, InS3
<1>2. CASE UploadPcap(p)
  <2>1. s3' = [s3 EXCEPT ![proc[p].file].pcap = written[proc[p].file]]
    BY <1>2 DEF UploadPcap
  <2>2. /\ s3'[f].ng = s3[f].ng
        /\ s3'[f].pcap = IF f = proc[p].file THEN written[f] ELSE s3[f].pcap
        /\ written[f] \in Nat
    BY <1>a, <2>1 DEF TypeOK
  <2> QED
    BY <1>b, <2>2 DEF Safe, InS3
<1>3. UNCHANGED s3 \/ UploadNg(p) \/ UploadPcap(p)
  BY DEF Step, SweepStarts, NextFile, Stat, StatFails, AnnotateStarts, AnnotateEnds,
     AnnotateFails, UploadFails, RemovePcap, SweepEnds
<1> QED
  BY <1>b, <1>1, <1>2, <1>3 DEF Safe, InS3

\* A file that was uploaded is in S3, or it was spoiled before.
LEMMA UploadStores ==
  ASSUME IInv, NgWhole, NEW p \in Processes, UploadNg(p) \/ UploadPcap(p)
  PROVE  Safe(proc[p].file)'
<1> DEFINE f == proc[p].file
<1>a. TypeOK /\ OpenedFiles
  BY DEF IInv
<1>b. UNCHANGED <<written, capped, spoiled>>
  BY DEF UploadNg, UploadPcap, capture
<1>c. f \in Files
  <2>1. proc[p].at \in Working
    BY DEF UploadNg, UploadPcap, Goes, Working
  <2> QED
    BY <1>a, <2>1, OpenedAreFiles DEF OpenedFiles
<1>d. proc'[p].file = f
  <2>1. \E here, there \in Places : Goes(p, here, there)
    BY DEF UploadNg, UploadPcap, Places
  <2> QED
    BY <1>a, <2>1, GoesEffect
<1>1. CASE UploadNg(p)
  <2>1. s3' = [s3 EXCEPT ![f].ng = ng[f]] /\ ng[f] # None
    BY <1>1 DEF UploadNg
  <2> HIDE DEF f
  <2>2. f \in spoiled \/ ng[f] >= written[f]
    BY <1>c, <2>1 DEF NgWhole
  <2>3. s3'[f].ng = ng[f]
    BY <1>a, <1>c, <2>1 DEF TypeOK
  <2> QED
    BY <1>b, <1>d, <2>2, <2>3 DEF Safe, InS3, f
<1>2. CASE UploadPcap(p)
  <2>1. s3' = [s3 EXCEPT ![f].pcap = written[f]]
    BY <1>2 DEF UploadPcap
  <2> HIDE DEF f
  <2>2. s3'[f].pcap = written[f] /\ written[f] \in Nat
    BY <1>a, <1>c, <2>1 DEF TypeOK
  <2> QED
    BY <1>b, <1>d, <2>2 DEF Safe, InS3, f
<1> QED
  BY <1>1, <1>2

\* Only an annotation that ends makes a .pcapng, of a file that gets no more packets,
\* or that is spoiled by those it gets.
LEMMA StepKeepsNgWhole ==
  ASSUME IInv, NgWhole, NEW p \in Processes, Step(p)
  PROVE  NgWhole'
<1>a. TypeOK /\ OpenedFiles /\ ShipsDone
  BY DEF IInv
<1>b. UNCHANGED <<written, cur, openFor, term>> /\ spoiled \subseteq spoiled'
  BY StepFrame
<1>1. CASE AnnotateEnds(p)
  <2> DEFINE f == proc[p].file
  <2>1. /\ proc[p].at \in {"annotate", "rewrite"}
        /\ \/ f \in spoiled'
           \/ ng' = [ng EXCEPT ![f] = written[f]]
        /\ \E n : ng' = [ng EXCEPT ![f] = n]
    BY <1>1 DEF AnnotateEnds
  <2>2. f \in 1..cur /\ f \in Files /\ written[f] \in Nat
    BY <1>a, <2>1, OpenedAreFiles DEF OpenedFiles, Working, TypeOK
  <2>3. Done(f) \/ term = "handled"
    BY <1>a, <2>1 DEF ShipsDone, Shipping, Working
  <2>4. f <= cur /\ written[f] >= written[f]
    BY <2>2, Constants
  <2>5. ng \in [Files -> Nat \cup {None}]
    BY <1>a DEF TypeOK
  <2> HIDE DEF f
  <2> QED
    BY <1>b, <2>1, <2>2, <2>3, <2>4, <2>5 DEF NgWhole, Done
<1>2. ASSUME NEW g \in Files, ~ AnnotateEnds(p) PROVE ng'[g] \in {ng[g], None}
  BY <1>a, <1>2 DEF TypeOK, Step, SweepStarts, NextFile, Stat, StatFails, AnnotateStarts,
     AnnotateFails, UploadNg, UploadPcap, UploadFails, RemovePcap, SweepEnds, disk
<1> QED
  BY <1>b, <1>1, <1>2 DEF NgWhole, Done

\* What a process goes on to remove, it has uploaded.
LEMMA StepKeepsStored ==
  ASSUME IInv, NgWhole, RemoveStored, NEW p \in Processes, Step(p)
  PROVE  RemoveStored'
<1>a. TypeOK /\ OpenedFiles
  BY DEF IInv
<1> SUFFICES ASSUME NEW q \in Processes, proc'[q].at = "remove"
             PROVE  Safe(proc[q].file)' /\ proc'[q].file = proc[q].file
  BY DEF RemoveStored, Safe, InS3
<1>1. GoesOn(q)
  <2>1. Moves(q)
    BY <1>a, StepMoves
  <2>2. Idle.at # "remove" /\ Gone.at # "remove" /\ Sweeping(Complete).at # "remove"
    BY DEF Idle, Gone, Sweeping
  <2> QED
    BY <2>1, <2>2 DEF Moves
<1>2. CASE proc[q].at = "remove"
  <2>1. PICK f \in Files : f = proc[q].file
    BY <1>a, <1>2, OpenedAreFiles DEF OpenedFiles, Working
  <2>2. Safe(f)
    BY <1>2, <2>1 DEF RemoveStored
  <2>3. Safe(f)'
    BY <2>2, StepKeepsSafe
  <2> QED
    BY <1>1, <2>1, <2>3 DEF GoesOn, Safe, InS3
<1>3. CASE proc[q].at # "remove"
  <2>1. ASSUME NEW here \in Places, NEW there \in Places \ {"remove"}, Goes(p, here, there)
        PROVE  FALSE
    BY <1>a, <1>3, <2>1, GoesEffect
  <2>2. ASSUME NEW here \in Places, Goes(p, here, "remove") PROVE q = p
    <3>1. "remove" \in Places
      BY DEF Places
    <3> QED
      BY <1>a, <1>3, <2>2, <3>1, GoesEffect
  <2>3. ~ Stat(p) /\ ~ AnnotateStarts(p) /\ ~ AnnotateFails(p) /\ ~ UploadFails(p) /\ ~ RemovePcap(p)
    BY <2>1 DEF Stat, AnnotateStarts, AnnotateFails, UploadFails, RemovePcap, Places
  <2>4. ~ SweepStarts(p) /\ ~ StatFails(p) /\ ~ SweepEnds(p)
    <3>1. Idle.at # "remove" /\ Gone.at # "remove" /\ Sweeping(Complete).at # "remove"
      BY DEF Idle, Gone, Sweeping
    <3>2. SweepStarts(p) \/ StatFails(p) \/ SweepEnds(p)
            => proc'[q] \in {Idle, Gone, Sweeping(Complete), proc[q]}
      BY <1>a DEF TypeOK, SweepStarts, StatFails, SweepEnds, Restarted, Exited, Gone
    <3> QED
      BY <1>3, <3>1, <3>2
  <2>5. ~ NextFile(p) /\ ~ AnnotateEnds(p)
    <3>1. ASSUME NextFile(p) PROVE proc'[q] = proc[q] \/ proc'[q].at \in {"stat", "sweep"}
      BY <1>a, <3>1 DEF TypeOK, Process, NextFile
    <3>2. ASSUME AnnotateEnds(p) PROVE proc'[q].at \in {proc[q].at, "upload ng", "rewrite"}
      BY <1>a, <3>2, AnnotateEffect
    <3> QED
      BY <1>3, <3>1, <3>2
  <2>6. q = p /\ (UploadNg(p) \/ UploadPcap(p))
    <3>1. UploadNg(p) \/ UploadPcap(p)
      BY <2>3, <2>4, <2>5 DEF Step
    <3>2. Goes(p, "upload ng", "remove") \/ Goes(p, "upload", "remove") \/ Goes(p, "keep", "sweep")
      BY <3>1 DEF UploadNg, UploadPcap
    <3> QED
      BY <2>1, <2>2, <3>1, <3>2 DEF Places
  <2> QED
    BY <1>1, <2>6, UploadStores DEF GoesOn, Safe, InS3
<1> QED
  BY <1>2, <1>3

\* A sweep of the trap goes on with the ages it began with.
LEMMA StepKeepsTakes ==
  ASSUME IInv, SweepTakes, NEW p \in Processes, Step(p)
  PROVE  SweepTakes'
<1>1. Complete # 0 /\ "main" \in Processes /\ "once" \in Processes
  BY Constants DEF Processes
<1>2. Moves("main") /\ Moves("once")
  BY <1>1, StepMoves DEF IInv
<1>3. Idle.least # 0 /\ Gone.least # 0 /\ Sweeping(Complete).least # 0
  BY <1>1 DEF Idle, Gone, Sweeping
<1>4. /\ main'.least = 0 => main'.ages = main.ages /\ main.least = 0
      /\ proc'["once"].least = 0 => proc["once"].least = 0
  BY <1>2, <1>3 DEF Moves, main
<1>5. spoiled \subseteq spoiled'
  BY StepFrame
<1> QED
  BY <1>4, <1>5 DEF SweepTakes

\* Before it, at, or done with: what the sweep of the trap lets go is in S3 or given up.
LEMMA StepKeepsCovers ==
  ASSUME IInv, LossInv, NEW p \in Processes, Step(p)
  PROVE  SweepCovers'
<1>a. /\ TypeOK /\ OpenedFiles
      /\ NgWhole /\ RemoveStored /\ SweepTakes /\ SweepCovers /\ NothingLost
  BY DEF IInv, LossInv
<1>b. Complete # 0 /\ "main" \in Processes /\ proc \in [Processes -> Process] /\ main \in Process
  BY <1>a, Constants DEF Processes, TypeOK, main
<1>c. Idle.least # 0 /\ Gone.least # 0 /\ Sweeping(Complete).least # 0
  BY <1>b DEF Idle, Gone, Sweeping
<1> SUFFICES ASSUME main'.least = 0, NEW f \in Files, ~ Safe(f)'
             PROVE  \/ f \in main'.todo
                    \/ main'.at \in Working \ {"remove"} /\ f = main'.file
  BY DEF SweepCovers
<1>1. ~ Safe(f)
  BY <1>a, StepKeepsSafe
<1>2. main.least = 0
  <2>1. Moves("main")
    BY <1>a, <1>b, StepMoves
  <2> QED
    BY <1>c, <2>1 DEF Moves, main
<1>3. \/ f \in main.todo
      \/ main.at \in Working \ {"remove"} /\ f = main.file
  BY <1>a, <1>1, <1>2 DEF SweepCovers
<1>d. ASSUME main' = main
      PROVE  \/ f \in main'.todo
             \/ main'.at \in Working \ {"remove"} /\ f = main'.file
  BY <1>3, <1>d
<1>e. ASSUME NEW here \in Places, NEW there \in Places, Goes(p, here, there)
      PROVE  /\ main'.todo = main.todo /\ main'.file = main.file
             /\ main'.at = IF p = "main" THEN there ELSE main.at
             /\ p = "main" => main.at = here
  BY <1>a, <1>b, <1>e, GoesEffect DEF main
<1>f. ASSUME NEW here \in Places, NEW there \in Places, Goes(p, here, there),
             there \in Working \ {"remove"}
      PROVE  \/ f \in main'.todo
             \/ main'.at \in Working \ {"remove"} /\ f = main'.file
  BY <1>3, <1>e, <1>f
<1>4. CASE SweepStarts(p)
  BY <1>b, <1>c, <1>d, <1>4 DEF SweepStarts, main
<1>5. CASE NextFile(p)
  <2>1. CASE p # "main"
    BY <1>b, <1>d, <1>5, <2>1 DEF NextFile, main
  <2>2. CASE p = "main"
    <3> DEFINE g == Min(main.todo)
    <3>1. /\ main.at = "sweep"
          /\ main' = [main EXCEPT !.file = g, !.todo = @ \ {g},
                                  !.at = IF g \in pcap THEN "stat" ELSE "sweep"]
      BY <1>b, <1>5, <2>2 DEF NextFile, main
    <3> HIDE DEF g
    <3>2. /\ main'.file = g /\ main'.todo = main.todo \ {g}
          /\ main'.at = IF g \in pcap THEN "stat" ELSE "sweep"
      BY <1>b, <3>1 DEF Process
    <3>3. f \in pcap /\ f \in main.todo
      BY <1>a, <1>1, <1>3, <3>1 DEF NothingLost, Safe, Working
    <3> QED
      BY <3>2, <3>3 DEF Working
  <2> QED
    BY <2>1, <2>2
<1>6. CASE Stat(p)
  <2> DEFINE at == IF Taken(p, proc[p].file) THEN "ship"
                   ELSE IF p = "once" /\ ~ stuck THEN "keep" ELSE "sweep"
  <2>1. Goes(p, "stat", at)
    BY <1>6 DEF Stat
  <2>2. "stat" \in Places /\ at \in Places /\ "ship" \in Working \ {"remove"}
    BY DEF Places, Working
  <2>3. p = "main" /\ main.at = "stat" /\ f = main.file => at = "ship"
    <3>1. main.ages[f] >= 0
      BY <1>a, <1>1, <1>2 DEF SweepTakes, Safe
    <3> QED
      BY <1>2, <3>1 DEF Taken, main
  <2> HIDE DEF at
  <2> QED
    BY <1>3, <1>e, <2>1, <2>2, <2>3
<1>7. CASE StatFails(p)
  <2>1. (p # "main" /\ main' = main) \/ main' \in {Idle, Gone}
    BY <1>b, <1>7 DEF StatFails, Restarted, Exited, Gone, main
  <2> QED
    BY <1>c, <1>d, <2>1
<1>8. CASE AnnotateStarts(p)
  <2>1. Goes(p, "ship", "annotate") /\ "ship" \in Places /\ "annotate" \in Places
        /\ "annotate" \in Working \ {"remove"}
    BY <1>8 DEF AnnotateStarts, Places, Working
  <2> QED
    BY <1>f, <2>1
<1>9. CASE AnnotateEnds(p)
  <2>1. /\ main'.todo = main.todo /\ main'.file = main.file
        /\ main'.at \in {main.at, "upload ng", "rewrite"}
    BY <1>a, <1>b, <1>9, AnnotateEffect DEF main
  <2> QED
    BY <1>3, <2>1 DEF Working
<1>10. CASE AnnotateFails(p)
  <2>1. \E here \in {"ship", "annotate", "rewrite"} : Goes(p, here, "upload")
    BY <1>10 DEF AnnotateFails
  <2>2. /\ {"ship", "annotate", "rewrite"} \subseteq Places /\ "upload" \in Places
        /\ "upload" \in Working \ {"remove"}
    BY DEF Places, Working
  <2> QED
    BY <1>f, <2>1, <2>2
<1>11. CASE UploadNg(p) \/ UploadPcap(p)
  <2>1. PICK here \in {"upload ng", "upload", "keep"}, there \in {"remove", "sweep"} : Goes(p, here, there)
    BY <1>11 DEF UploadNg, UploadPcap
  <2>2. here \in Places /\ there \in Places
    BY DEF Places
  <2>3. main'.todo = main.todo /\ main'.file = main.file
        /\ (main'.at = main.at \/ p = "main")
    BY <1>e, <2>1, <2>2
  <2>4. p = "main" => Safe(main.file)'
    BY <1>a, <1>11, UploadStores DEF main
  <2>5. p = "main" => f # main.file
    BY <2>3, <2>4 DEF Safe, InS3
  <2> QED
    BY <1>3, <2>3, <2>5
<1>12. CASE UploadFails(p)
  <2>1. PICK here \in {"upload ng", "upload", "keep"} : Goes(p, here, "sweep")
    BY <1>12 DEF UploadFails
  <2>2. here \in Places /\ "sweep" \in Places
    BY DEF Places
  <2>3. main'.todo = main.todo /\ main'.file = main.file
        /\ (main'.at = main.at \/ p = "main")
    BY <1>e, <2>1, <2>2
  <2>4. p = "main" => main.file \in capped'
    BY <1>2, <1>12 DEF UploadFails, main
  <2>5. p = "main" => f # main.file
    BY <2>4 DEF Safe
  <2> QED
    BY <1>3, <2>3, <2>5
<1>13. CASE RemovePcap(p)
  <2>1. Goes(p, "remove", "sweep") /\ "remove" \in Places /\ "sweep" \in Places
    BY <1>13 DEF RemovePcap, Places
  <2> QED
    BY <1>3, <1>e, <2>1
<1>14. CASE SweepEnds(p)
  <2>1. (p # "main" /\ main' = main) \/ main' \in {Idle, Gone}
    BY <1>b, <1>2, <1>14 DEF SweepEnds, Exited, Gone, main
  <2> QED
    BY <1>c, <1>d, <2>1
<1> QED
  BY <1>4, <1>5, <1>6, <1>7, <1>8, <1>9, <1>10, <1>11, <1>12, <1>13, <1>14 DEF Step

\* A .pcap is removed when S3 has it or the cap takes it, and the container that ends
\* leaves none that its last sweep did not see to, or that SIGKILL does not find.
LEMMA StepKeepsNothingLost ==
  ASSUME IInv, LossInv, NEW p \in Processes, Step(p)
  PROVE  NothingLost'
<1>a. /\ TypeOK /\ OpenedFiles
      /\ NgWhole /\ RemoveStored /\ SweepTakes /\ SweepCovers /\ NothingLost
  BY DEF IInv, LossInv
<1>b. "main" \in Processes /\ proc \in [Processes -> Process]
  BY <1>a DEF Processes, TypeOK
<1> SUFFICES ASSUME NEW f \in Files, ~ Safe(f)'
             PROVE  f \in pcap' /\ main'.at # "exited"
  BY DEF NothingLost, Safe, main
<1>1. ~ Safe(f)
  BY <1>a, StepKeepsSafe
<1>2. f \in pcap /\ main.at # "exited"
  BY <1>a, <1>1 DEF NothingLost, Safe, main
<1>3. f \in pcap'
  <2>1. CASE RemovePcap(p)
    <3>1. pcap' = pcap \ {proc[p].file} /\ Safe(proc[p].file)
      BY <1>a, <2>1 DEF RemovePcap, Goes, RemoveStored
    <3> QED
      BY <1>1, <1>2, <3>1
  <2>2. CASE SweepEnds(p)
    <3>1. PICK old \in SUBSET pcap : pcap' = pcap \ old /\ capped' = capped \cup old
      BY <2>2 DEF SweepEnds
    <3> QED
      BY <1>2, <3>1 DEF Safe
  <2>3. UNCHANGED pcap \/ RemovePcap(p) \/ SweepEnds(p)
    BY DEF Step, SweepStarts, NextFile, Stat, StatFails, AnnotateStarts, AnnotateEnds,
       AnnotateFails, UploadNg, UploadPcap, UploadFails, disk
  <2> QED
    BY <1>2, <2>1, <2>2, <2>3
<1>4. main'.at # "exited"
  <2> SUFFICES ASSUME main'.at = "exited" PROVE FALSE
    OBVIOUS
  <2>a. Idle.at # "exited" /\ Sweeping(Complete).at # "exited"
    BY DEF Idle, Sweeping
  <2>1. StatFails(p) \/ SweepEnds(p)
    <3>1. ASSUME NEW here \in Places, NEW there \in Places \ {"exited"}, Goes(p, here, there)
          PROVE  FALSE
      BY <1>a, <1>b, <1>2, <3>1, GoesEffect DEF main
    <3>3. ~ Stat(p) /\ ~ AnnotateStarts(p) /\ ~ AnnotateFails(p) /\ ~ UploadFails(p)
          /\ ~ RemovePcap(p) /\ ~ UploadNg(p) /\ ~ UploadPcap(p)
      BY <3>1 DEF Stat, AnnotateStarts, AnnotateFails, UploadFails, RemovePcap, UploadNg,
         UploadPcap, Places
    <3>4. ~ SweepStarts(p)
      BY <1>b, <1>2, <2>a DEF SweepStarts, main
    <3>5. ASSUME NextFile(p) PROVE FALSE
      <4>1. main'.at \in {main.at, "stat", "sweep"}
        BY <1>b, <3>5 DEF NextFile, Process, main
      <4> QED
        BY <1>2, <4>1
    <3>6. ASSUME AnnotateEnds(p) PROVE FALSE
      <4>1. main'.at \in {main.at, "upload ng", "rewrite"}
        BY <1>a, <1>b, <3>6, AnnotateEffect DEF main
      <4> QED
        BY <1>2, <4>1
    <3> QED
      BY <3>3, <3>4, <3>5, <3>6 DEF Step
  <2>2. CASE StatFails(p)
    <3>1. spoiled' = spoiled \cup pcap
      BY <1>b, <1>2, <2>2, <2>a DEF StatFails, Restarted, main
    <3> QED
      BY <1>2, <3>1 DEF Safe
  <2>3. CASE SweepEnds(p)
    <3>1. main.least = 0 /\ main.at = "sweep" /\ main.todo = {}
      <4>1. CASE p = "main"
        BY <1>b, <1>2, <2>a, <2>3, <4>1 DEF SweepEnds, main
      <4>2. CASE p = "once"
        <5>1. proc["once"].least # 0
          BY <1>a DEF SweepTakes
        <5> QED
          BY <1>b, <1>2, <2>a, <2>3, <4>2, <5>1 DEF SweepEnds, main
      <4> QED
        BY <4>1, <4>2 DEF Processes
    <3> QED
      BY <1>a, <1>1, <3>1 DEF SweepCovers, Working
  <2> QED
    BY <2>1, <2>2, <2>3
<1> QED
  BY <1>3, <1>4

LEMMA NextKeepsLossInv ==
  ASSUME IInv, LossInv, [Next]_vars
  PROVE  LossInv'
<1>1. CASE UNCHANGED vars
  BY <1>1 DEF vars, capture, disk, LossInv, NgWhole, RemoveStored, SweepTakes, SweepCovers,
     NothingLost, Safe, InS3, Done, main
<1>2. ASSUME NEW p \in Processes, Step(p) PROVE LossInv'
  BY <1>2, StepKeepsNgWhole, StepKeepsStored, StepKeepsTakes, StepKeepsCovers,
     StepKeepsNothingLost DEF LossInv
<1> QED
  BY <1>1, <1>2, PacketKeepsLossInv, TimeKeepsLossInv, PodKeepsLossInv DEF Next

-----------------------------------------------------------------------------
\* The types of TypeOK, and what of each sweep keeps it from the file that tcpdump has
\* open, hold in every reachable state (upload.sh).
THEOREM Invariance == Spec => []IInv
<1> QED
  BY InitIInv, NextKeepsIInv, PTL DEF Spec

\* Every variable keeps its type.
THEOREM TypeCorrect == Spec => []TypeOK
<1>1. IInv => TypeOK
  BY DEF IInv
<1> QED
  BY <1>1, Invariance, PTL

\* Whatever flushes run next to the main loop, whatever dies and whenever SIGTERM comes:
\* until the trap has run, the file tcpdump still writes to is in the directory, or
\* the cap took it (packet-capture-shipper.yaml:218-219).
THEOREM OpenFileIsKept == Spec => []OpenFileKept
<1>1. IInv => OpenFileKept
  BY DEF IInv
<1> QED
  BY <1>1, Invariance, PTL


\* Whatever flushes run next to the main loop, however late tcpdump ends, whatever is
\* killed and restarted and whatever uploads and annotations fail: a captured packet is
\* in the directory or in S3, unless its file was dropped by the cap, failed in
\* the last sweep, was annotated twice at once, got packets after that sweep began, or
\* was still there at SIGKILL (upload.sh).
THEOREM NothingIsLost == Spec => []NothingLost
<1>1. LossInv => NothingLost
  BY DEF LossInv
<1>2. IInv /\ LossInv /\ [Next]_vars => LossInv'
  BY NextKeepsLossInv
<1> QED
  BY <1>1, <1>2, InitLossInv, Invariance, PTL DEF Spec
=============================================================================
