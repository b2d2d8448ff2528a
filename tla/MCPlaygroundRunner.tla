------------------------- MODULE MCPlaygroundRunner -------------------------
(***************************************************************************)
(* Small instances of PlaygroundRunner: two threads, so that an abandoned  *)
(* call and the call that repeats it meet.                                 *)
(***************************************************************************)
EXTENDS PlaygroundRunner

CONSTANTS t1, t2
=============================================================================
