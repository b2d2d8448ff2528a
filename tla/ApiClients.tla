----------------------------- MODULE ApiClients -----------------------------
(***************************************************************************)
(* What the operation API (backend/app/services.py) promises to a client:  *)
(* it may repeat a creation under its Idempotency-Key until it has an      *)
(* answer, it may cancel what it has seen and nothing else by sending the  *)
(* version it has seen, and what is accepted can be executed.              *)
(*                                                                         *)
(* The clients share one key, and so at most one request comes to be; it   *)
(* is not part of a group.  A creation reads by key, flushes the row and   *)
(* commits; what it refuses in between for the table's or the engine's     *)
(* sake (no such table, no snapshot, no such capability) is left out: it   *)
(* ends like a payload that is not valid, with nothing written.  decide,   *)
(* retry and cancel lock the row and are single steps; the worker's mark_* *)
(* read the row and write it later, without a lock, and the write puts the *)
(* version read, plus one.  Crashes of the worker are Operations' subject. *)
(***************************************************************************)
EXTENDS Parameters

CONSTANTS
    Clients,
    Payloads,       \* what a client may send: a command and its parameters
    MaxCancels,     \* bounds: cancellations without a version, retries,
    MaxRetries,
    MaxLost         \* and creations or answers lost on the way

ASSUME ClientsAssumption ==
    /\ \A payload \in Payloads :
          payload.command \in Commands /\ AreParameters(payload.parameters)
    /\ MaxCancels \in Nat /\ MaxRetries \in Nat /\ MaxLost \in Nat

VARIABLES
    row,        \* the operation_requests row of the key, once it is committed
    flushed,    \* the clients whose uncommitted row holds the unique index
    client,     \* each client: where it is, what it sends and what it was shown
    worker,     \* the execution the worker has in hand, and the version read
    used        \* what the bounds count; the retries number the row's lives

vars == <<row, flushed, client, worker, used>>

NoRow == [state |-> "ABSENT", version |-> 0, owner |-> {}]
Ends == {"SUCCEEDED", "FAILED", "CANCELED"}
Terminal == Ends \cup {"REJECTED"}
Claimed == {"RUNNING", "VERIFYING", "CANCEL_REQUESTED"}
Unclaimed == {"WAITING_APPROVAL", "QUEUED"}
Idle == [pc |-> "idle", version |-> 0]

\* A client that has been shown nothing, or needs it no more.
Client(pc, payload) ==
    [pc |-> pc, payload |-> payload, unclaimed |-> FALSE, version |-> 0, life |-> 0]

Init ==
    /\ row = NoRow
    /\ flushed = {}
    /\ client \in {[c \in Clients |-> Client("new", sends[c])] : sends \in [Clients -> Payloads]}
    /\ worker = Idle
    /\ used = [cancels |-> 0, retries |-> 0, lost |-> 0]

Count(what) == used' = [used EXCEPT ![what] = @ + 1]

-----------------------------------------------------------------------------
(***************************************************************************)
(* Creation under the key                                                  *)
(***************************************************************************)
At(c, pc) == client[c].pc = pc
Payload(c) == client[c].payload
Goto(c, pc) == client' = [client EXCEPT ![c] = Client(pc, Payload(c))]

\* Wrong variant: whoever has used the key.
AnyFingerprint(c, d) == TRUE

\* request_fingerprint: a hash of the payload.
SameFingerprint(c, d) == Payload(c) = Payload(d)

\* The answer shows the row as it is.
Shown(c, shown) ==
    client' = [client EXCEPT ![c] =
          [pc |-> "answered", payload |-> Payload(c), unclaimed |-> shown.state \in Unclaimed,
           version |-> shown.version, life |-> used.retries]]

\* A client sends its payload, for the first time or after a failure.
post(c) ==
    /\ At(c, "new") \/ At(c, "error")
    /\ validate_parameters(Payload(c).command, Payload(c).parameters)
    /\ Goto(c, "lookup")
    /\ UNCHANGED <<row, flushed, worker, used>>

post_invalid(c) ==
    /\ At(c, "new")
    /\ ~validate_parameters(Payload(c).command, Payload(c).parameters)
    /\ Goto(c, "refused")
    /\ UNCHANGED <<row, flushed, worker, used>>

\* Wrong variant: the key is not looked up.
insert_always(c) ==
    /\ At(c, "lookup")
    /\ Goto(c, "insert")
    /\ UNCHANGED <<row, flushed, worker, used>>

\* The committed row of the key decides, if there is one.
lookup(c) ==
    /\ At(c, "lookup")
    /\ \/ row = NoRow /\ Goto(c, "insert")
       \/ /\ \E d \in row.owner : ~SameFingerprint(c, d)
          /\ Goto(c, "refused")
       \/ /\ \E d \in row.owner : SameFingerprint(c, d)
          /\ Shown(c, row)
    /\ UNCHANGED <<row, flushed, worker, used>>

\* Wrong variant: the column is not unique.
flush_anyway(c) ==
    /\ At(c, "insert")
    /\ flushed' = flushed \cup {c} /\ Goto(c, "commit")
    /\ UNCHANGED <<row, worker, used>>

\* flush: the INSERT waits for another uncommitted row of the key, and fails
\* if one has been committed.  The handler of that failure is further down,
\* around commit: this one leaves the method, and the client gets an error.
flush(c) ==
    /\ At(c, "insert")
    /\ flushed = {}
    /\ \/ row = NoRow /\ flushed' = {c} /\ Goto(c, "commit")
       \/ row # NoRow /\ Goto(c, "error") /\ UNCHANGED flushed
    /\ UNCHANGED <<row, worker, used>>

Made(c) == [state |-> "WAITING_APPROVAL", version |-> 1, owner |-> {c}]

commit(c) ==
    /\ At(c, "commit")
    /\ row' = Made(c)
    /\ flushed' = flushed \ {c}
    /\ Shown(c, Made(c))
    /\ UNCHANGED <<worker, used>>

\* Wrong variant: the transaction is left open.
lose_open(c) ==
    /\ client[c].pc \in {"lookup", "insert", "commit"}
    /\ used.lost < MaxLost
    /\ Goto(c, "error")
    /\ Count("lost")
    /\ UNCHANGED <<row, flushed, worker>>

\* The server or the connection fails, before the commit or after it.
lose(c) ==
    /\ client[c].pc \in {"lookup", "insert", "commit"}
    /\ used.lost < MaxLost
    /\ Goto(c, "error")
    /\ flushed' = flushed \ {c}
    /\ \/ UNCHANGED row
       \/ /\ At(c, "commit")
          /\ row' = Made(c)
    /\ Count("lost")
    /\ UNCHANGED worker

Create(c) == post(c) \/ post_invalid(c) \/ lookup(c) \/ flush(c) \/ commit(c)

-----------------------------------------------------------------------------
(***************************************************************************)
(* The request's life                                                      *)
(***************************************************************************)
Written(state) == row' = [state |-> state, version |-> row.version + 1, owner |-> row.owner]

decide_operation ==
    /\ row.state = "WAITING_APPROVAL"
    /\ \E state \in {"QUEUED", "REJECTED"} : Written(state)
    /\ UNCHANGED <<flushed, client, worker, used>>

retry_operation ==
    /\ row.state = "FAILED"
    /\ used.retries < MaxRetries
    /\ Written("QUEUED")
    /\ Count("retries")
    /\ UNCHANGED <<flushed, client, worker>>

\* The rest of cancel_operation once the version is right.
Cancel ==
    \/ row.state \in Unclaimed /\ Written("CANCELED")
    \/ row.state \in Claimed /\ Written("CANCEL_REQUESTED")

\* GET /operation-requests/{id}
operation(c) ==
    /\ At(c, "answered")
    /\ Shown(c, row)
    /\ UNCHANGED <<row, flushed, worker, used>>

\* Wrong variant: a version not older than the request's will do.
cancel_not_newer(c) ==
    /\ At(c, "answered")
    /\ row.version >= client[c].version
    /\ Cancel
    /\ Goto(c, "done")
    /\ UNCHANGED <<flushed, worker, used>>

\* cancel_operation with the version the client was shown.
cancel_expected(c) ==
    /\ At(c, "answered")
    /\ row.version = client[c].version
    /\ Cancel
    /\ Goto(c, "done")
    /\ UNCHANGED <<flushed, worker, used>>

\* Without one, by anybody.
cancel_operation ==
    /\ used.cancels < MaxCancels
    /\ Cancel
    /\ Count("cancels")
    /\ UNCHANGED <<flushed, client, worker>>

claim_operation ==
    /\ worker.pc = "idle" /\ row.state = "QUEUED"
    /\ row' = [row EXCEPT !.state = "RUNNING"]
    /\ worker' = [worker EXCEPT !.pc = "execute"]
    /\ UNCHANGED <<flushed, client, used>>

mark_verifying ==
    /\ worker.pc = "execute"
    /\ row' = [row EXCEPT !.state = "VERIFYING"]
    /\ worker' = [worker EXCEPT !.pc = "finish"]
    /\ UNCHANGED <<flushed, client, used>>

\* session.get at the beginning of mark_succeeded, mark_failed, mark_canceled.
read_operation(end) ==
    /\ \/ end = "SUCCEEDED" /\ worker.pc = "finish"
       \/ end = "FAILED" /\ worker.pc \in {"execute", "finish"}
       \/ end = "CANCELED" /\ worker.pc = "execute" /\ row.state = "CANCEL_REQUESTED"
    /\ worker' = [pc |-> end, version |-> row.version]
    /\ UNCHANGED <<row, flushed, client, used>>

\* The end of that transaction.
mark ==
    /\ worker.pc \in Ends
    /\ row' = [state |-> worker.pc, version |-> worker.version + 1, owner |-> row.owner]
    /\ worker' = Idle
    /\ UNCHANGED <<flushed, client, used>>

Next ==
    \/ \E c \in Clients : Create(c) \/ lose(c) \/ operation(c) \/ cancel_expected(c)
    \/ decide_operation \/ retry_operation \/ cancel_operation
    \/ claim_operation \/ mark_verifying \/ mark
    \/ \E end \in Ends : read_operation(end)

Spec == Init /\ [][Next]_vars

\* The server answers, and a client that has got an error tries again.
FairSpec == Spec /\ \A c \in Clients : WF_vars(Create(c))

-----------------------------------------------------------------------------
(***************************************************************************)
(* Properties                                                              *)
(***************************************************************************)
Kinds == [pc : {"new", "lookup", "insert", "commit", "error", "refused", "answered", "done"},
          payload : Payloads, unclaimed : BOOLEAN, version : Nat, life : 0..MaxRetries]

\* Every variable holds a value of its kind; the unique index is held by who
\* is between flush and commit.
TypeOK ==
    /\ row \in [state : {"ABSENT"} \cup Unclaimed \cup Claimed \cup Terminal,
                version : Nat, owner : SUBSET Clients]
    /\ row.state = "ABSENT" <=> row.version = 0
    /\ flushed = {c \in Clients : At(c, "commit")}
    /\ client \in [Clients -> Kinds]
    /\ worker \in [pc : {"idle", "execute", "finish"} \cup Ends, version : Nat]
    /\ used \in [cancels : 0..MaxCancels, retries : 0..MaxRetries, lost : 0..MaxLost]

(***************************************************************************)
(* DESIGN.md: the same key and payload give the existing result.  A        *)
(* request is made once: no creation that was repeated, crossed another or *)
(* lost its answer resets or replaces the request of its key.              *)
(***************************************************************************)
MadeOnce == [][row # NoRow => row'.owner = row.owner /\ row'.state # "ABSENT"]_vars

(***************************************************************************)
(* DESIGN.md: another payload under the same key is refused.  Who has an   *)
(* answer is shown the request of his own payload.                         *)
(***************************************************************************)
AnswersOwnPayload ==
    \A c \in Clients : client[c].pc \in {"answered", "done"} =>
        \A d \in row.owner : Payload(d) = Payload(c)

(***************************************************************************)
(* A client that repeats its creation after every error, also the one that *)
(* a crossing creation gives it, has the request or a refusal in the end.  *)
(***************************************************************************)
CreationEnds ==
    \A c \in Clients : client[c].pc = "lookup" ~> client[c].pc \in {"answered", "refused", "done"}

(***************************************************************************)
(* A cancellation that carries the version of a request seen unclaimed     *)
(* stops no later life of it: the worker's late writes of the version may  *)
(* lose increments, but none that would bring a seen version back after a  *)
(* retry.  (Of a request seen claimed this is not true: README, "Where the *)
(* code departs from its documents".)                                      *)
(***************************************************************************)
CancelsWhatWasSeen ==
    [][\A c \in Clients :
         client[c].unclaimed /\ client[c].pc = "answered" /\ client'[c].pc = "done"
         => client[c].life = used.retries]_vars

(***************************************************************************)
(* A request that was made can be executed: the engine does not refuse,    *)
(* after the approval, parameters that the API has let pass, except those  *)
(* that only the engine judges.                                            *)
(***************************************************************************)
MadeIsRunnable ==
    \A d \in row.owner :
        \/ EngineOnly(Payload(d).command, Payload(d).parameters)
        \/ procedure_sql(Payload(d).command, Payload(d).parameters)

=============================================================================
