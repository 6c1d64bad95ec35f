----------------------------- MODULE ReadEvents -----------------------------
(***************************************************************************)
(* Polling a channel's stream by id (async_query_manager.py read_events):  *)
(* each poll asks for what follows the last id the client received, with   *)
(* the id after it computed on the decimal text of the id.  An id ms-seq is*)
(* the pair <<ms, seq>>; the client receives a poll's events in one step.  *)
(***************************************************************************)
EXTENDS Integers, FiniteSets

CONSTANTS MaxMs, MaxSeq,   \* bounds: milliseconds, and entries in one of them
          MaxEventCount    \* AsyncQueryManager.MAX_EVENT_COUNT

VARIABLES
  top,        \* the last id of the stream, <<0, 0>> if it is empty
  ids,        \* the ids of its entries
  lastId,     \* the client's lastReceivedEventId, <<0, 0>> for null
  received    \* history: the ids the client received

vars == <<top, ids, lastId, received>>

Ids == (0..MaxMs) \X (0..MaxSeq)

TypeOK == top \in Ids /\ ids \subseteq Ids /\ lastId \in Ids /\ received \subseteq ids

Init == top = <<0, 0>> /\ ids = {} /\ lastId = <<0, 0>> /\ received = {}

Before(x, y) == x[1] < y[1] \/ (x[1] = y[1] /\ x[2] < y[2])

\* prefix, last = entry_id[:-1], int(entry_id[-1]); prefix + str(last + 1)
increment_id(id) ==
  <<id[1], IF id[2] % 10 < 9 THEN id[2] + 1 ELSE 100 * (id[2] \div 10) + 10>>

XADD(id) ==
  /\ top' = id /\ ids' = ids \cup {id}
  /\ UNCHANGED <<lastId, received>>

\* Redis gives the next id: in the same millisecond, or in a later one.
AddEntry == \/ top[1] > 0 /\ top[2] < MaxSeq /\ XADD(<<top[1], top[2] + 1>>)
            \/ top[1] < MaxMs /\ XADD(<<top[1] + 1, 0>>)

\* xrange(stream, start, "+", MAX_EVENT_COUNT): the oldest from start on.
Answer(start) ==
  LET beyond == {x \in ids : ~ Before(x, start)}
  IN {x \in beyond : Cardinality({y \in beyond : Before(y, x)}) < MaxEventCount}

read_events ==
  LET start == IF lastId = <<0, 0>> THEN <<0, 0>> ELSE increment_id(lastId)
      events == Answer(start)
  IN /\ events # {}
     /\ received' = received \cup events
     /\ \E last \in events : /\ \A x \in events : x = last \/ Before(x, last)
                             /\ lastId' = last
     /\ UNCHANGED <<top, ids>>

Next == AddEntry \/ read_events

Spec == Init /\ [][Next]_vars
-----------------------------------------------------------------------------
\* Every entry up to the client's last id was received.
NothingSkipped == \A x \in ids : ~ Before(lastId, x) => x \in received
=============================================================================
