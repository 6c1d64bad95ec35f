---------------------------- MODULE MCEventRelay ----------------------------
(***************************************************************************)
(* Values for EventRelay: two events and one tab, all of one channel.      *)
(***************************************************************************)
EXTENDS EventRelay

CONSTANTS e1, e2, t1, c1, c2

MCChannels == {c1, c2}
MCEvents == {e1, e2}
MCTabs == {t1}
MCEventChannel == [e \in Events |-> c1]
MCTabChannel == [t \in Tabs |-> c1]
=============================================================================
