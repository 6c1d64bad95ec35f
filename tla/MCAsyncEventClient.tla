------------------------- MODULE MCAsyncEventClient -------------------------
(***************************************************************************)
(* Values for AsyncEventClient: three jobs on one channel, of which at     *)
(* most two are asked for by this tab and the others by other tabs.        *)
(***************************************************************************)
EXTENDS AsyncEventClient, TLC

CONSTANTS a, b, f

OneOwn == {a}
TwoOwn == {a, b}
MCJobs == {a, b, f}
MCMaxEvents == [t \in Transports |-> IF t = "ws" THEN 1 ELSE 3]
=============================================================================
