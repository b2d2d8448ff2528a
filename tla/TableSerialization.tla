------------------------ MODULE TableSerialization ------------------------
(***************************************************************************)
(* What the operations service promises about the maintenance requests of  *)
(* a table (DESIGN.md: conflicting maintenance of one table never runs at  *)
(* the same time; active mutations are serialised), with neither locks nor *)
(* workers: a request is filed, may be dismissed, becomes active only      *)
(* while no other request of its table is, and ends once, except that a    *)
(* failed one may become active again.                                     *)
(***************************************************************************)
CONSTANTS Requests, TableOf

VARIABLE status

Init == status = [r \in Requests |-> "absent"]

Becomes(r, from, to) ==
    /\ status[r] \in from
    /\ status' = [status EXCEPT ![r] = to]

Submit(r) == Becomes(r, {"absent"}, "pending")

Dismiss(r) == Becomes(r, {"pending"}, "closed")

Activate(r) ==
    /\ \A q \in Requests \ {r} : TableOf[q] = TableOf[r] => status[q] # "active"
    /\ Becomes(r, {"pending", "failed"}, "active")

Finish(r) == \E to \in {"failed", "closed"} : Becomes(r, {"active"}, to)

Next == \E r \in Requests : Submit(r) \/ Dismiss(r) \/ Activate(r) \/ Finish(r)

Spec == Init /\ [][Next]_status
=============================================================================
