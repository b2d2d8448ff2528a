---------------------------- MODULE MCApiClients ----------------------------
(***************************************************************************)
(* A small instance of ApiClients: each client sends one of two commands   *)
(* at the bounds of their ranges, or one that misses its range by one.     *)
(***************************************************************************)
EXTENDS ApiClients

CONSTANTS c1, c2

Expire(hours) == [command |-> "EXPIRE_SNAPSHOTS", parameters |-> [olderThanHours |-> Int_(hours)]]
Orphans(hours) == [command |-> "REMOVE_ORPHAN_FILES", parameters |-> [olderThanHours |-> Int_(hours)]]

PayloadsSent == {Orphans(72), Expire(120), Expire(119)}
=============================================================================
