-------------------------- MODULE ReadEvents_proofs --------------------------
(***************************************************************************)
(* Polling by id skips nothing as long as no millisecond has more than     *)
(* twenty entries of a channel: up to ...-19 the text arithmetic of        *)
(* increment_id gives an id that no entry lies before.                     *)
(***************************************************************************)
EXTENDS ReadEvents, FiniteSetTheorems, TLAPS

Bounds == MaxMs \in Nat /\ MaxSeq \in 0..19 /\ MaxEventCount \in Nat \ {0}

\* Finitely many entries, none past top, and the client's id is not past it.
IInv ==
  /\ TypeOK /\ IsFiniteSet(ids)
  /\ \A x \in ids : ~ Before(top, x)
  /\ ~ Before(top, lastId)
  /\ NothingSkipped

\* Nothing lies between an id and what increment_id makes of it.
LEMMA IncrementSkipsNothing ==
  ASSUME Bounds, NEW id \in Ids, NEW x \in Ids, Before(id, x)
  PROVE  ~ Before(x, increment_id(id))
<1>1. id[1] \in Nat /\ x[1] \in Nat /\ id[2] \in 0..19 /\ x[2] \in 0..19
  BY DEF Ids, Bounds
<1>2. CASE id[2] = 19
  BY <1>1, <1>2 DEF Before, increment_id
<1>3. CASE id[2] # 19
  <2>1. increment_id(id)[1] = id[1] /\ increment_id(id)[2] = id[2] + 1
    BY <1>1, <1>3 DEF increment_id
  <2> QED BY <1>1, <2>1 DEF Before
<1> QED BY <1>2, <1>3

\* With x an answer has all of beyond that is before x: XRANGE takes the oldest.
LEMMA AnswerIsDownwardClosed ==
  ASSUME Bounds, IsFiniteSet(ids), ids \subseteq Ids, NEW start,
         NEW last \in Answer(start), NEW x \in ids,
         ~ Before(x, start), Before(x, last)
  PROVE  x \in Answer(start)
<1> DEFINE beyond == {y \in ids : ~ Before(y, start)}
           below(z) == {y \in beyond : Before(y, z)}
<1>1. IsFiniteSet(below(last))
  BY FS_Subset
<1>2. below(x) \subseteq below(last)
  <2> SUFFICES ASSUME NEW y \in below(x) PROVE Before(y, last)
    OBVIOUS
  <2>1. y \in Ids /\ x \in Ids /\ last \in Ids
    BY DEF Answer
  <2> QED BY <2>1 DEF Before, Ids
<1>3. Cardinality(below(x)) <= Cardinality(below(last))
  BY <1>1, <1>2, FS_Subset
<1>4. Cardinality(below(x)) \in Nat /\ Cardinality(below(last)) \in Nat
  BY <1>1, <1>2, FS_Subset, FS_CardinalityType
<1>5. Cardinality(below(last)) < MaxEventCount
  BY DEF Answer
<1>6. Cardinality(below(x)) < MaxEventCount
  BY <1>3, <1>4, <1>5 DEF Bounds
<1> QED BY <1>6 DEF Answer

LEMMA XaddKeepsIInv ==
  ASSUME Bounds, IInv, NEW id \in Ids, Before(top, id), XADD(id)
  PROVE  IInv'
<1>1. top \in Ids /\ lastId \in Ids /\ ids \subseteq Ids
  BY DEF IInv, TypeOK
<1>2. TypeOK' /\ IsFiniteSet(ids')
  BY FS_AddElement DEF XADD, IInv, TypeOK
<1>3. \A x \in ids' : ~ Before(top', x)
  BY <1>1 DEF XADD, IInv, Before, Ids
<1>4. ~ Before(top', lastId') /\ Before(lastId', id)
  BY <1>1 DEF XADD, IInv, Before, Ids
<1>5. NothingSkipped'
  BY <1>1, <1>4 DEF XADD, IInv, NothingSkipped
<1> QED BY <1>2, <1>3, <1>4, <1>5 DEF IInv

LEMMA ReadKeepsIInv ==
  ASSUME Bounds, IInv, read_events
  PROVE  IInv'
<1> DEFINE start == IF lastId = <<0, 0>> THEN <<0, 0>> ELSE increment_id(lastId)
<1>1. PICK last \in Answer(start) :
        /\ \A x \in Answer(start) : x = last \/ Before(x, last)
        /\ lastId' = last
  BY DEF read_events
<1>2. received' = received \cup Answer(start) /\ UNCHANGED <<top, ids>>
  BY DEF read_events
<1>3. Answer(start) \subseteq ids /\ last \in ids /\ ids \subseteq Ids
  BY DEF Answer, IInv, TypeOK
<1>4. TypeOK' /\ IsFiniteSet(ids') /\ ~ Before(top', lastId')
  BY <1>1, <1>2, <1>3 DEF IInv, TypeOK
<1>5. NothingSkipped'
  <2> SUFFICES ASSUME NEW x \in ids, ~ Before(last, x) PROVE x \in received'
    BY <1>1, <1>2 DEF NothingSkipped
  <2>1. x \in Ids /\ last \in Ids /\ lastId \in Ids
    BY <1>3 DEF IInv, TypeOK
  <2>2. CASE ~ Before(lastId, x)
    BY <1>2, <2>2 DEF IInv, NothingSkipped
  <2>3. CASE Before(lastId, x)
    <3>1. ~ Before(x, start)
      <4>1. ~ Before(x, <<0, 0>>)
        BY <2>1 DEF Before, Ids
      <4>2. ~ Before(x, increment_id(lastId))
        BY <2>1, <2>3, IncrementSkipsNothing
      <4> QED BY <4>1, <4>2
    <3>2. x = last \/ Before(x, last)
      <4>1. x = <<x[1], x[2]>> /\ last = <<last[1], last[2]>>
        BY <2>1 DEF Ids
      <4> QED BY <2>1, <4>1 DEF Before, Ids
    <3>3. CASE x = last
      BY <1>2, <3>3
    <3>4. CASE Before(x, last)
      BY <1>2, <1>3, <3>1, <3>4, AnswerIsDownwardClosed DEF IInv
    <3> QED BY <3>2, <3>3, <3>4
  <2> QED BY <2>2, <2>3
<1> QED BY <1>2, <1>4, <1>5 DEF IInv

\* For every number of milliseconds and every page size, a client that polls by
\* id receives every entry up to its last id, if no millisecond has an entry
\* past ...-19 (async_query_manager.py increment_id, read_events).
THEOREM PollsSkipNothing ==
  ASSUME Bounds
  PROVE  Spec => []NothingSkipped
<1>1. Init => IInv
  BY FS_EmptySet DEF Init, IInv, TypeOK, Ids, Bounds, Before, NothingSkipped
<1>2. IInv /\ [Next]_vars => IInv'
  <2> SUFFICES ASSUME IInv, [Next]_vars PROVE IInv'
    OBVIOUS
  <2>1. CASE AddEntry
    <3>1. top \in Ids
      BY DEF IInv, TypeOK
    <3>2. CASE top[1] > 0 /\ top[2] < MaxSeq /\ XADD(<<top[1], top[2] + 1>>)
      <4>1. <<top[1], top[2] + 1>> \in Ids /\ Before(top, <<top[1], top[2] + 1>>)
        BY <3>1, <3>2 DEF Ids, Before, Bounds
      <4> QED BY <3>2, <4>1, XaddKeepsIInv
    <3>3. CASE top[1] < MaxMs /\ XADD(<<top[1] + 1, 0>>)
      <4>1. <<top[1] + 1, 0>> \in Ids /\ Before(top, <<top[1] + 1, 0>>)
        BY <3>1, <3>3 DEF Ids, Before, Bounds
      <4> QED BY <3>3, <4>1, XaddKeepsIInv
    <3> QED BY <2>1, <3>2, <3>3 DEF AddEntry
  <2>2. CASE read_events
    BY <2>2, ReadKeepsIInv
  <2>3. CASE UNCHANGED vars
    BY <2>3 DEF vars, IInv, TypeOK, NothingSkipped
  <2> QED BY <2>1, <2>2, <2>3 DEF Next
<1>3. IInv => NothingSkipped
  BY DEF IInv
<1> QED BY <1>1, <1>2, <1>3, PTL DEF Spec
=============================================================================
