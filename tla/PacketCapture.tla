---------------------------- MODULE PacketCapture ----------------------------
(***************************************************************************)
(* The packet capture DaemonSet of one node (packet-capture-shipper.yaml): *)
(* tcpdump writes rotated .pcap files, upload.sh sweeps them to S3 and     *)
(* removes them, pcap-annotate.py turns a finished one into a .pcapng next *)
(* to it.  A second upload.sh --once runs in the same container when the   *)
(* cluster is flushed, and at node shutdown both containers get SIGTERM at *)
(* once.  Files are numbered in the order tcpdump opens them, their content*)
(* is a number of packets, and time is counted in sleeps of upload.sh.     *)
(***************************************************************************)
EXTENDS Integers, FiniteSets, FiniteSetsExt

CONSTANTS
  RotateAfter, Slack,   \* ROTATE_SECONDS, and the 30 s added to it
  MaxLocalFiles,        \* MAX_FILES
  Stop,                 \* SIGTERM comes "never", or tcpdump ends "in time", within
                        \* the uploader's sleep 5, or perhaps "late"
  Annotates,            \* BOOLEANs: whether pcap-annotate.py may work, may fail
  LastFile, MaxPackets, MaxFailures, MaxCrashes, MaxFlushes   \* bounds

ASSUME CaptureAssumption ==
  /\ RotateAfter \in Nat \ {0} /\ Slack \in Nat \ {0} /\ MaxLocalFiles \in Nat \ {0}
  /\ Stop \in {"never", "in time", "late"} /\ Annotates \subseteq BOOLEAN /\ Annotates # {}
  /\ LastFile \in Nat \ {0}

Files == 1..LastFile
Processes == {"main", "once"}
Complete == RotateAfter + Slack
None == -1

VARIABLES
  tcpdump,   \* "running", "ended"
  cur,       \* the file tcpdump has open
  openFor,   \* time since it opened it, up to RotateAfter
  pcap,      \* the .pcap files in the directory
  written,   \* written[f]: the packets tcpdump wrote to f
  age,       \* age[f]: time since the last write to f, up to Complete
  tmp,       \* the files whose .pcapng.tmp exists
  ng,        \* ng[f]: the readable packets of its .pcapng, None if there is none
  s3,        \* s3[f]: those of its two objects, .pcap and .pcapng
  proc,      \* the two upload.sh processes, see Process
  term,      \* SIGTERM: "none", "sent", "handled" once upload.sh's trap ran
  stuck,     \* a --once process went on into the main loop
  capped,    \* history: the files the cap dropped, or the last sweep failed to upload
  spoiled,   \* history: those two annotations wrote at once, those SIGKILL found in the
             \* directory, and those with packets from after the last sweep's start
  failures, crashes, flushes

capture == <<tcpdump, cur, openFor, written, age>>
disk == <<pcap, tmp, ng>>
budget == <<failures, crashes, flushes>>
vars == <<capture, disk, s3, proc, term, stuck, capped, spoiled, budget>>

\* at: the command it is at, for file; todo: the rest of its glob; least: the
\* age from which it takes a file as complete; ages: now - mtime as it computes
\* it, with the now of the sweep's start (-1: written since).
Process ==
  [at : {"off", "sweep", "stat", "ship", "annotate", "rewrite", "upload ng",
         "upload", "keep", "remove", "exited"},
   file : 0..LastFile, todo : SUBSET Files,
   least : {0, Complete}, ages : [Files -> -1..Complete]]

TypeOK ==
  /\ tcpdump \in {"running", "ended"} /\ cur \in Files /\ openFor \in 0..RotateAfter
  /\ pcap \subseteq Files /\ tmp \subseteq Files
  /\ written \in [Files -> Nat] /\ age \in [Files -> 0..Complete]
  /\ ng \in [Files -> Nat \cup {None}]
  /\ s3 \in [Files -> [pcap : Nat, ng : Nat]]
  /\ proc \in [Processes -> Process]
  /\ term \in {"none", "sent", "handled"} /\ stuck \in BOOLEAN
  /\ capped \subseteq Files /\ spoiled \subseteq Files
  /\ failures \in Nat /\ crashes \in Nat /\ flushes \in Nat

Idle == [at |-> "off", file |-> 0, todo |-> {}, least |-> Complete,
         ages |-> [f \in Files |-> -1]]

Init ==
  /\ tcpdump = "running" /\ cur = 1 /\ openFor = 0
  /\ pcap = {1} /\ tmp = {} /\ ng = [f \in Files |-> None]
  /\ written = [f \in Files |-> 0] /\ age = [f \in Files |-> 0]
  /\ s3 = [f \in Files |-> [pcap |-> 0, ng |-> 0]]
  /\ proc = [p \in Processes |-> Idle]
  /\ term = "none" /\ stuck = FALSE /\ capped = {} /\ spoiled = {}
  /\ failures = 0 /\ crashes = 0 /\ flushes = 0

-----------------------------------------------------------------------------
LastSweepBegan == term = "handled" \/ proc["main"].at = "exited"

\* -G: the packet that comes once the file is old enough opens the next one.
Packet ==
  LET f == IF openFor < RotateAfter THEN cur ELSE cur + 1
  IN /\ tcpdump = "running" /\ f \in Files /\ written[f] < MaxPackets
     /\ cur' = f /\ openFor' = IF f = cur THEN openFor ELSE 0
     /\ pcap' = IF f = cur THEN pcap ELSE pcap \cup {f}
     /\ written' = [written EXCEPT ![f] = @ + 1]
     /\ age' = [age EXCEPT ![f] = 0]
     /\ proc' = [p \in Processes |-> [proc[p] EXCEPT !.ages[f] = -1]]
     /\ spoiled' = IF LastSweepBegan THEN spoiled \cup {f} ELSE spoiled
     /\ UNCHANGED <<tcpdump, tmp, ng, s3, term, stuck, capped, budget>>

\* tcpdump dies on its own: capture.sh exits, and its container is restarted
\* with a file of its own.
CaptureRestarts ==
  /\ tcpdump = "running" /\ term = "none" /\ cur < LastFile
  /\ crashes < MaxCrashes /\ crashes' = crashes + 1
  /\ cur' = cur + 1 /\ openFor' = 0 /\ pcap' = pcap \cup {cur + 1}
  /\ UNCHANGED <<tcpdump, written, age, tmp, ng, s3, proc, term, stuck, capped,
                 spoiled, failures, flushes>>

Min2(a, b) == IF a < b THEN a ELSE b

Tick ==
  /\ openFor' = Min2(openFor + 1, RotateAfter)
  /\ age' = [f \in Files |-> IF f <= cur THEN Min2(age[f] + 1, Complete) ELSE 0]
  /\ UNCHANGED <<tcpdump, cur, written, disk, s3, proc, term, stuck, capped, spoiled, budget>>

Sigterm ==
  /\ term = "none" /\ Stop # "never" /\ term' = "sent"
  /\ UNCHANGED <<capture, disk, s3, proc, stuck, capped, spoiled, budget>>

\* capture.sh's trap, once the command it runs (podmap's curl) has ended.
TcpdumpEnds ==
  /\ term # "none" /\ tcpdump = "running" /\ tcpdump' = "ended"
  /\ UNCHANGED <<cur, openFor, written, age, disk, s3, proc, term, stuck, capped, spoiled, budget>>

-----------------------------------------------------------------------------
Goes(p, here, there) ==
  /\ proc[p].at = here
  /\ proc' = [proc EXCEPT ![p].at = there]

Sweeping(least) == [Idle EXCEPT !.at = "sweep", !.todo = pcap, !.least = least, !.ages = age]

SweepStarts(p) ==
  /\ proc[p].at = "off" /\ proc["main"].at # "exited"
  /\ p = "once" /\ ~ stuck => flushes < MaxFlushes
  /\ flushes' = IF p = "once" /\ ~ stuck THEN flushes + 1 ELSE flushes
  /\ proc' = [proc EXCEPT ![p] = Sweeping(Complete)]
  /\ UNCHANGED <<capture, disk, s3, term, stuck, capped, spoiled, failures, crashes>>

\* Mutant: the trap sweeps with a small age instead of none.
FinalSweepYoung ==
  /\ term = "sent" /\ proc["main"].at \notin {"annotate", "rewrite", "exited"}
  /\ Stop = "in time" => tcpdump = "ended"
  /\ term' = "handled"
  /\ proc' = [proc EXCEPT !["main"] = Sweeping(1)]
  /\ UNCHANGED <<capture, disk, s3, stuck, capped, spoiled, budget>>

\* The main process's trap runs between two commands: sleep 5; sweep 0; exit 0.
FinalSweep ==
  /\ term = "sent" /\ proc["main"].at \notin {"annotate", "rewrite", "exited"}
  /\ Stop = "in time" => tcpdump = "ended"
  /\ term' = "handled"
  /\ proc' = [proc EXCEPT !["main"] = Sweeping(0)]
  /\ UNCHANGED <<capture, disk, s3, stuck, capped, spoiled, budget>>

\* The container is gone, with every process in it.
Exited == [p \in Processes |-> IF p = "main" THEN [Idle EXCEPT !.at = "exited"] ELSE Idle]
Restarted == [p \in Processes |-> Idle]

\* The grace period is over: kubelet's SIGKILL, which finds the main process before
\* its trap ran (it waits for an aws s3 cp), in the trap's sleep 5, in its sweep, or
\* in the loop that went on after it.
Killed ==
  /\ term # "none" /\ proc["main"].at # "exited"
  /\ proc' = Exited /\ spoiled' = spoiled \cup pcap
  /\ UNCHANGED <<capture, disk, s3, term, stuck, capped, budget>>

\* [ -e "$f" ] || continue
NextFile(p) ==
  /\ proc[p].at = "sweep" /\ proc[p].todo # {}
  /\ LET f == Min(proc[p].todo)
     IN proc' = [proc EXCEPT ![p].file = f, ![p].todo = @ \ {f},
                             ![p].at = IF f \in pcap THEN "stat" ELSE "sweep"]
  /\ UNCHANGED <<capture, disk, s3, term, stuck, capped, spoiled, budget>>

\* Whether the sweep of p takes f as complete.
Taken(p, f) == proc[p].ages[f] >= proc[p].least

Stat(p) ==
  LET f == proc[p].file
  IN /\ f \in pcap
     /\ Goes(p, "stat", IF Taken(p, f) THEN "ship"
                        ELSE IF p = "once" /\ ~ stuck THEN "keep" ELSE "sweep")
     /\ UNCHANGED <<capture, disk, s3, term, stuck, capped, spoiled, budget>>

\* stat prints nothing for a file removed since, the arithmetic fails and bash
\* drops the command it is in.  In --once that is its if: the process goes on to
\* the main loop.  In the main process it is the loop: the container ends, and
\* unless the pod is stopping, when the node goes with the directory, it is
\* restarted.  In the trap it is the trap: the loop goes on.
StatFails(p) ==
  /\ proc[p].at = "stat" /\ proc[p].file \notin pcap
  /\ \/ /\ p = "once" \/ proc[p].least = 0
        /\ proc' = [proc EXCEPT ![p] = Idle]
        /\ stuck' = (stuck \/ p = "once") /\ spoiled' = spoiled
     \/ /\ p = "main" /\ proc[p].least # 0
        /\ proc' = IF term = "none" THEN Restarted ELSE Exited
        /\ stuck' = FALSE
        /\ spoiled' = IF term = "none" THEN spoiled ELSE spoiled \cup pcap
  /\ UNCHANGED <<capture, disk, s3, term, capped, budget>>

Other(p) == CHOOSE q \in Processes : q # p

\* ship_capture: python opens the .pcap and the .pcapng.tmp.
AnnotateStarts(p) ==
  /\ TRUE \in Annotates /\ proc[p].file \in pcap /\ Goes(p, "ship", "annotate")
  /\ tmp' = tmp \cup {proc[p].file}
  /\ UNCHANGED <<capture, pcap, ng, s3, term, stuck, capped, spoiled, budget>>

\* It has written the .tmp and renames it.  If the other process opened the same
\* .tmp meanwhile it truncated it, and it is writing the .pcapng from here on.  If
\* it then finds a later .tmp it renames that one, whatever is in it.
AnnotateEnds(p) ==
  LET f == proc[p].file
      shared == proc[Other(p)].at = "annotate" /\ proc[Other(p)].file = f
      torn == shared \/ proc[p].at = "rewrite"
  IN /\ proc[p].at \in {"annotate", "rewrite"} /\ f \in tmp
     /\ proc' = [proc EXCEPT ![p].at = "upload ng",
                             ![Other(p)].at = IF shared THEN "rewrite" ELSE @]
     /\ tmp' = tmp \ {f}
     /\ \E whole \in IF torn THEN BOOLEAN ELSE {TRUE} :
          ng' = [ng EXCEPT ![f] = IF whole THEN written[f] ELSE 0]
     /\ spoiled' = IF torn THEN spoiled \cup {f} ELSE spoiled
     /\ UNCHANGED <<capture, pcap, s3, term, stuck, capped, budget>>

\* No pod map, no or a malformed .pcap, or no .tmp left to rename: rm -f "$ng".
AnnotateFails(p) ==
  /\ \/ /\ FALSE \in Annotates \/ proc[p].file \notin pcap
        /\ Goes(p, "ship", "upload")
     \/ /\ FALSE \in Annotates \/ proc[p].file \notin tmp
        /\ \E at \in {"annotate", "rewrite"} : Goes(p, at, "upload")
  /\ ng' = [ng EXCEPT ![proc[p].file] = None]
  /\ UNCHANGED <<capture, pcap, tmp, s3, term, stuck, capped, spoiled, budget>>

\* Mutant: the .pcap stays when its .pcapng has been uploaded.
UploadNgOnly(p) ==
  LET f == proc[p].file
  IN /\ Goes(p, "upload ng", "sweep") /\ ng[f] # None
     /\ s3' = [s3 EXCEPT ![f].ng = ng[f]]
     /\ ng' = [ng EXCEPT ![f] = None]
     /\ UNCHANGED <<capture, pcap, tmp, term, stuck, capped, spoiled, budget>>

\* upload "$ng": aws s3 cp and rm -f of it.
UploadNg(p) ==
  LET f == proc[p].file
  IN /\ Goes(p, "upload ng", "remove") /\ ng[f] # None
     /\ s3' = [s3 EXCEPT ![f].ng = ng[f]]
     /\ ng' = [ng EXCEPT ![f] = None]
     /\ UNCHANGED <<capture, pcap, tmp, term, stuck, capped, spoiled, budget>>

\* Mutant: --once removes the young file it uploads.
UploadPcapAlways(p) ==
  LET f == proc[p].file
  IN /\ f \in pcap
     /\ Goes(p, "upload", "remove") \/ Goes(p, "keep", "remove")
     /\ s3' = [s3 EXCEPT ![f].pcap = written[f]]
     /\ UNCHANGED <<capture, disk, term, stuck, capped, spoiled, budget>>

\* aws s3 cp of the .pcap, which --once leaves in place when it is young.
UploadPcap(p) ==
  LET f == proc[p].file
  IN /\ f \in pcap
     /\ Goes(p, "upload", "remove") \/ Goes(p, "keep", "sweep")
     /\ s3' = [s3 EXCEPT ![f].pcap = written[f]]
     /\ UNCHANGED <<capture, disk, term, stuck, capped, spoiled, budget>>

\* Mutant: upload() goes on to its rm after a failed cp.
UploadFailsRemoving(p) ==
  /\ \E at \in {"upload ng", "upload"} : Goes(p, at, "remove")
  /\ failures < MaxFailures /\ failures' = failures + 1
  /\ UNCHANGED <<capture, disk, s3, term, stuck, capped, spoiled, crashes, flushes>>

\* S3 does not answer, or the file is gone: the next file.
UploadFails(p) ==
  LET f == proc[p].file
      gone == IF proc[p].at = "upload ng" THEN ng[f] = None ELSE f \notin pcap
  IN /\ \E at \in {"upload ng", "upload", "keep"} : Goes(p, at, "sweep")
     /\ gone \/ failures < MaxFailures
     /\ failures' = IF gone THEN failures ELSE failures + 1
     /\ capped' = IF proc[p].least = 0 THEN capped \cup {f} ELSE capped
     /\ UNCHANGED <<capture, disk, s3, term, stuck, spoiled, crashes, flushes>>

RemovePcap(p) ==
  /\ Goes(p, "remove", "sweep")
  /\ pcap' = pcap \ {proc[p].file}
  /\ UNCHANGED <<capture, tmp, ng, s3, term, stuck, capped, spoiled, budget>>

\* The cap counts every file in the directory and drops the oldest, .pcap files
\* in the order of their last write, and the sweep returns.
SweepEnds(p) ==
  LET annotated == {f \in Files : ng[f] # None}
      excess == Cardinality(pcap) + Cardinality(annotated) + Cardinality(tmp) - MaxLocalFiles
  IN /\ proc[p].at = "sweep" /\ proc[p].todo = {}
     /\ proc' = IF proc[p].least = 0 THEN Exited ELSE [proc EXCEPT ![p] = Idle]
     /\ \E old \in SUBSET pcap, oldNg \in SUBSET annotated, oldTmp \in SUBSET tmp :
          /\ Cardinality(old) + Cardinality(oldNg) + Cardinality(oldTmp)
               = IF excess > 0 THEN excess ELSE 0
          /\ \A f \in old, g \in pcap \ old : f < g
          /\ pcap' = pcap \ old /\ capped' = capped \cup old
          /\ tmp' = tmp \ oldTmp
          /\ ng' = [f \in Files |-> IF f \in oldNg THEN None ELSE ng[f]]
     /\ UNCHANGED <<capture, s3, term, stuck, spoiled, budget>>

\* The uploader's container is killed and restarted; the directory stays.
Crash ==
  /\ term = "none" /\ crashes < MaxCrashes /\ crashes' = crashes + 1
  /\ proc' = Restarted /\ stuck' = FALSE
  /\ UNCHANGED <<capture, disk, s3, term, capped, spoiled, failures, flushes>>

Step(p) ==
  \/ SweepStarts(p) \/ NextFile(p) \/ Stat(p) \/ StatFails(p)
  \/ AnnotateStarts(p) \/ AnnotateEnds(p) \/ AnnotateFails(p)
  \/ UploadNg(p) \/ UploadPcap(p) \/ UploadFails(p) \/ RemovePcap(p) \/ SweepEnds(p)

Next ==
  \/ Packet \/ Tick \/ CaptureRestarts \/ Sigterm \/ TcpdumpEnds
  \/ FinalSweep \/ Killed \/ Crash
  \/ \E p \in Processes : Step(p)

\* The scripts keep running, time passes, and a signalled process is scheduled.
Fairness ==
  /\ \A p \in Processes : WF_vars(Step(p))
  /\ WF_vars(Tick) /\ WF_vars(TcpdumpEnds) /\ WF_vars(FinalSweep) /\ WF_vars(Killed)

Spec == Init /\ [][Next]_vars /\ Fairness
-----------------------------------------------------------------------------
InS3(f) == s3[f].pcap >= written[f] \/ s3[f].ng >= written[f]

\* No captured packet is lost: its file is in the directory, or an object in S3
\* has all of it.  Once the container is gone only S3 counts.  Lost are at most the
\* files the cap drops, those whose upload fails in the final sweep, those two
\* annotations wrote at once, those SIGKILL finds, and those still written to
\* after the final sweep began (upload.sh's sweep and its trap).
NothingLost ==
  \A f \in Files :
    f \in capped \cup spoiled \/ InS3(f) \/ (f \in pcap /\ proc["main"].at # "exited")

\* The file tcpdump has open is not removed under it, by the main loop or by a
\* flush, as long as it may write to it (packet-capture-shipper.yaml:218-219).
OpenFileKept ==
  tcpdump = "running" /\ openFor < RotateAfter /\ term # "handled"
    => cur \in pcap \cup capped

\* A file tcpdump has rotated past is shipped and leaves the node, whatever
\* uploads failed on the way, unless the pod ends first (upload.sh's main loop).
RotatedLeaves ==
  \A f \in Files : f < cur ~> f \notin pcap \/ proc["main"].at = "exited"
=============================================================================
