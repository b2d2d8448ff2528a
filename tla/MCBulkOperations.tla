-------------------------- MODULE MCBulkOperations --------------------------
(***************************************************************************)
(* Small instances of BulkOperations: a group of two requests, so that one *)
(* is in the worker's hands while the other waits or has ended, and        *)
(* sessions that can cross.                                                *)
(***************************************************************************)
EXTENDS BulkOperations, TLC

CONSTANTS o1, o2, s1, s2

Symmetric == Permutations({o1, o2}) \cup Permutations({s1, s2})
=============================================================================
