-------------------------- MODULE MCSocketRegistry --------------------------
(***************************************************************************)
(* Two channels with one event each, and two connections, on one channel or*)
(* on both; the peer of s1 answers promptly, that of s2 need not.          *)
(***************************************************************************)
EXTENDS SocketRegistry, TLC

CONSTANTS s1, s2, c1, c2, e1, e2

MCSocketIds == {s1, s2}
MCChannels == {c1, c2}
MCEvents == {e1, e2}
OneEvent == {e1}
MCEventChannel == [e \in Events |-> IF e = e1 THEN c1 ELSE c2]
MCPrompt == {s1}
=============================================================================
