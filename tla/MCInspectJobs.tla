--------------------------- MODULE MCInspectJobs ---------------------------
(***************************************************************************)
(* Small instances of InspectJobs: two items, so that one is in hand while *)
(* the other waits or has ended, and two API sessions that can cross.      *)
(***************************************************************************)
EXTENDS InspectJobs, TLC

CONSTANTS s1, s2

Symmetric == Permutations({s1, s2})
=============================================================================
