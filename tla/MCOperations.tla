---------------------------- MODULE MCOperations ----------------------------
(***************************************************************************)
(* Small instances of Operations: two requests that compete for one table, *)
(* two snapshots, and three spellings of two people.                       *)
(***************************************************************************)
EXTENDS OperationsInvariants, TLC

CONSTANTS o1, o2, t1, s1, s2

Symmetric == Permutations({o1, o2}) \cup Permutations({s1, s2})

OneTable == [o \in Ops |-> t1]

Names == {"Kim", "kim", "lee"}
NamesCasefold == [u \in Names |-> IF u = "Kim" THEN "kim" ELSE u]
FiledByKim == [o \in Ops |-> "kim"]
=============================================================================
