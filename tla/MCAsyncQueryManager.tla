------------------------- MODULE MCAsyncQueryManager -------------------------
(***************************************************************************)
(* Values for AsyncQueryManager: two jobs.                                 *)
(***************************************************************************)
EXTENDS AsyncQueryManager, TLC

CONSTANTS a, b

MCJobs == {a, b}
=============================================================================
