-------------------------- MODULE OperationsProofs --------------------------
(***************************************************************************)
(* Proofs about Operations for every set of requests, tables, users and    *)
(* snapshots, every bound and every choice of faults.                      *)
(***************************************************************************)
EXTENDS OperationsInvariants, TLAPS

USE ConstantsAssumption

(***************************************************************************)
(* Updates of a two-level table: where it changes and where it does not.   *)
(***************************************************************************)
LEMMA ExecutionUpdate ==
    ASSUME TypeOK, NEW o \in Ops, NEW a \in Attempts, NEW s \in ExecutionStates
    PROVE  /\ [execution EXCEPT ![o][a] = s] \in [Ops -> [Attempts -> ExecutionStates]]
           /\ \A q \in Ops, b \in Attempts :
                 [execution EXCEPT ![o][a] = s][q][b]
                 = IF q = o /\ b = a THEN s ELSE execution[q][b]
BY DEF TypeOK

LEMMA ExternalIdUpdate ==
    ASSUME TypeOK, NEW o \in Ops, NEW a \in Attempts
    PROVE  /\ [external_id EXCEPT ![o][a] = TRUE] \in [Ops -> [Attempts -> BOOLEAN]]
           /\ \A q \in Ops, b \in Attempts :
                 [external_id EXCEPT ![o][a] = TRUE][q][b]
                 <=> (q = o /\ b = a) \/ external_id[q][b]
BY DEF TypeOK

\* The initial state satisfies the inductive invariant.
LEMMA InitInv == Init => Inv
<1> SUFFICES ASSUME Init PROVE Inv
    OBVIOUS
<1> USE DEF Init, States, Active, Claimed, Terminal, Attempts
<1>1. TypeOK
  BY DEF TypeOK, Worker_Type, IdleWorker, Holding, Polling, ExecutionStates,
         BatchStates, LiveStates
<1>2. LockIffActive
  BY DEF LockIffActive
<1>3. ClaimedIsCarried
  BY DEF ClaimedIsCarried, InFlight
<1>4. WorkerHolds
  BY DEF WorkerHolds, IdleWorker, Holding, Busy
<1>5. OneClaimed /\ AttemptsLeft /\ Approved
  BY DEF OneClaimed, AttemptsLeft, Approved
<1>6. BatchesKnown
  BY DEF BatchesKnown
<1>7. QED
  BY <1>1, <1>2, <1>3, <1>4, <1>5, <1>6 DEF Inv

-----------------------------------------------------------------------------
(***************************************************************************)
(* The API's handlers: they leave executions, worker and batches alone.    *)
(***************************************************************************)

\* create_operation adds a request that is not active yet.
LEMMA CreateInv == ASSUME Inv, NEW o \in Ops, create_operation(o) PROVE Inv'
<1> USE DEF create_operation, Inv, executionVars, tableVars, livyVars
<1> USE DEF States, Active, Claimed, Terminal
<1>1. TypeOK'
  BY DEF TypeOK
<1>2. LockIffActive'
  BY DEF LockIffActive, TypeOK
<1>3. ClaimedIsCarried'
  BY DEF ClaimedIsCarried, InFlight, TypeOK
<1>4. WorkerHolds'
  BY DEF WorkerHolds, TypeOK, Unsubmitted, InFlight
<1>5. (OneClaimed /\ AttemptsLeft /\ Approved)'
  BY DEF OneClaimed, AttemptsLeft, Approved, TypeOK, SamePerson
<1>6. BatchesKnown'
  BY DEF BatchesKnown
<1>7. QED
  BY <1>1, <1>2, <1>3, <1>4, <1>5, <1>6 DEF Inv

\* decide_operation activates a request only with its table's lock.
LEMMA DecideInv ==
    ASSUME Inv, NEW o \in Ops, NEW u \in Users, NEW d \in {"APPROVED", "REJECTED"},
           decide_operation(o, u, d)
    PROVE  Inv'
<1> USE DEF Inv, executionVars, tableVars, livyVars
<1> USE DEF States, Active, Claimed, Terminal
<1>1. CASE d = "APPROVED"
  <2>1. /\ state[o] = "WAITING_APPROVAL"
        /\ ~SamePerson(o, u)
        /\ LockAvailable(o)
        /\ lock' = LockTaken(o)
        /\ approver' = [approver EXCEPT ![o] = u]
        /\ state' = [state EXCEPT ![o] = "QUEUED"]
        /\ UNCHANGED <<planned, executionVars, tableVars, worker, livyVars, crashes>>
    BY <1>1 DEF decide_operation
  <2>2. TypeOK'
    BY <2>1 DEF TypeOK, LockTaken
  <2>3. LockIffActive'
    BY <2>1 DEF LockIffActive, TypeOK, LockTaken, LockAvailable
  <2>4. ClaimedIsCarried'
    BY <2>1 DEF ClaimedIsCarried, InFlight, TypeOK
  <2>5. WorkerHolds'
    BY <2>1 DEF WorkerHolds, TypeOK, Unsubmitted, InFlight
  <2>6. (OneClaimed /\ AttemptsLeft)'
    BY <2>1 DEF OneClaimed, AttemptsLeft, TypeOK
  <2>7. Approved'
    BY <2>1 DEF Approved, TypeOK, SamePerson
  <2>8. BatchesKnown'
    BY <2>1 DEF BatchesKnown
  <2>9. QED
    BY <2>2, <2>3, <2>4, <2>5, <2>6, <2>7, <2>8 DEF Inv
<1>2. CASE d = "REJECTED"
  <2>1. /\ state[o] = "WAITING_APPROVAL"
        /\ state' = [state EXCEPT ![o] = "REJECTED"]
        /\ UNCHANGED <<lock, approver, planned, executionVars, tableVars, worker,
                       livyVars, crashes>>
    BY <1>2 DEF decide_operation
  <2>2. TypeOK'
    BY <2>1 DEF TypeOK
  <2>3. LockIffActive'
    BY <2>1 DEF LockIffActive, TypeOK
  <2>4. ClaimedIsCarried'
    BY <2>1 DEF ClaimedIsCarried, InFlight, TypeOK
  <2>5. WorkerHolds'
    BY <2>1 DEF WorkerHolds, TypeOK, Unsubmitted, InFlight
  <2>6. (OneClaimed /\ AttemptsLeft /\ Approved)'
    BY <2>1 DEF OneClaimed, AttemptsLeft, Approved, TypeOK, SamePerson
  <2>7. BatchesKnown'
    BY <2>1 DEF BatchesKnown
  <2>8. QED
    BY <2>2, <2>3, <2>4, <2>5, <2>6, <2>7 DEF Inv
<1>3. QED
  BY <1>1, <1>2

\* retry_operation takes the lock back before the request is queued again.
LEMMA RetryInv == ASSUME Inv, NEW o \in Ops, retry_operation(o) PROVE Inv'
<1> USE DEF retry_operation, Inv, executionVars, tableVars, livyVars, Retryable
<1> USE DEF States, Active, Claimed, Terminal
<1>1. TypeOK'
  BY DEF TypeOK, LockTaken
<1>2. LockIffActive'
  BY DEF LockIffActive, TypeOK, LockTaken, LockAvailable
<1>3. ClaimedIsCarried'
  BY DEF ClaimedIsCarried, InFlight, TypeOK
<1>4. WorkerHolds'
  BY DEF WorkerHolds, TypeOK, Unsubmitted, InFlight
<1>5. (OneClaimed /\ AttemptsLeft /\ Approved)'
  BY DEF OneClaimed, AttemptsLeft, Approved, TypeOK, SamePerson
<1>6. BatchesKnown'
  BY DEF BatchesKnown
<1>7. QED
  BY <1>1, <1>2, <1>3, <1>4, <1>5, <1>6 DEF Inv

\* cancel_operation releases the lock exactly when it ends the request.
LEMMA CancelInv == ASSUME Inv, NEW o \in Ops, cancel_operation(o) PROVE Inv'
<1> USE DEF Inv, executionVars, tableVars, livyVars
<1> USE DEF States, Active, Claimed, Terminal
<1>1. UNCHANGED <<planned, approver, executionVars, tableVars, worker, livyVars, crashes>>
  BY DEF cancel_operation
<1>2. CASE state[o] \in {"WAITING_APPROVAL", "QUEUED"}
  <2>1. state' = [state EXCEPT ![o] = "CANCELED"] /\ lock' = LocksReleased({o})
    BY <1>2 DEF cancel_operation
  <2>2. TypeOK'
    BY <1>1, <2>1 DEF TypeOK, LocksReleased
  <2>3. LockIffActive'
    BY <1>1, <2>1 DEF LockIffActive, TypeOK, LocksReleased
  <2>4. ClaimedIsCarried'
    BY <1>1, <1>2, <2>1 DEF ClaimedIsCarried, InFlight, TypeOK
  <2>5. WorkerHolds'
    BY <1>1, <1>2, <2>1 DEF WorkerHolds, TypeOK, Unsubmitted, InFlight
  <2>6. (OneClaimed /\ AttemptsLeft)'
    BY <1>1, <1>2, <2>1 DEF OneClaimed, AttemptsLeft, TypeOK
  <2>7. (Approved /\ BatchesKnown)'
    BY <1>1, <1>2, <2>1 DEF Approved, TypeOK, SamePerson, BatchesKnown
  <2>8. QED
    BY <2>2, <2>3, <2>4, <2>5, <2>6, <2>7 DEF Inv
<1>3. CASE state[o] \in Claimed
  <2>1. state' = [state EXCEPT ![o] = "CANCEL_REQUESTED"] /\ UNCHANGED lock
    BY <1>3 DEF cancel_operation
  <2>2. TypeOK'
    BY <1>1, <2>1 DEF TypeOK
  <2>3. LockIffActive'
    BY <1>1, <1>3, <2>1 DEF LockIffActive, TypeOK
  <2>4. ClaimedIsCarried'
    BY <1>1, <1>3, <2>1 DEF ClaimedIsCarried, InFlight, TypeOK
  <2>5. WorkerHolds'
    BY <1>1, <1>3, <2>1 DEF WorkerHolds, TypeOK, Unsubmitted, InFlight
  <2>6. (OneClaimed /\ AttemptsLeft)'
    BY <1>1, <1>3, <2>1 DEF OneClaimed, AttemptsLeft, TypeOK
  <2>7. (Approved /\ BatchesKnown)'
    BY <1>1, <1>3, <2>1 DEF Approved, TypeOK, SamePerson, BatchesKnown
  <2>8. QED
    BY <2>2, <2>3, <2>4, <2>5, <2>6, <2>7 DEF Inv
<1>4. QED
  BY <1>2, <1>3 DEF cancel_operation

-----------------------------------------------------------------------------
(***************************************************************************)
(* The worker                                                              *)
(***************************************************************************)

\* claim_operation: only an idle worker claims, so nothing else is claimed.
LEMMA ClaimInv == ASSUME Inv, NEW o \in Ops, claim_operation(o) PROVE Inv'
<1> USE DEF claim_operation, Inv, executionVars, tableVars, livyVars
<1> USE DEF States, Active, Claimed, Terminal, Attempts, Busy, Polling, Holding
<1>1. attempts[o] + 1 \in Attempts /\ attempts[o] \in Nat
  BY DEF AttemptsLeft, TypeOK
<1>2. \A q \in Ops : state[q] \notin Claimed
  BY DEF ClaimedIsCarried
<1>3. TypeOK'
  BY <1>1 DEF TypeOK, Worker_Type, ExecutionStates, LockTaken
<1>4. LockIffActive'
  BY DEF LockIffActive, TypeOK, LockTaken, LockAvailable
<1>5. ClaimedIsCarried'
  BY <1>1, <1>2 DEF ClaimedIsCarried, InFlight, TypeOK
<1>6. WorkerHolds'
  BY DEF WorkerHolds, TypeOK
<1>7. OneClaimed'
  BY <1>2 DEF OneClaimed, TypeOK
<1>8. (AttemptsLeft /\ Approved)'
  BY <1>1 DEF AttemptsLeft, Approved, TypeOK, SamePerson
<1>9. BatchesKnown'
  BY DEF BatchesKnown, TypeOK
<1>10. QED
  BY <1>3, <1>4, <1>5, <1>6, <1>7, <1>8, <1>9 DEF Inv

(***************************************************************************)
(* A step of the busy worker that writes no row keeps the invariant when   *)
(* it stays with its execution and keeps its variables right.              *)
(***************************************************************************)
LEMMA WorkerMoveInv ==
    ASSUME Inv, worker.pc \in Busy, worker'.pc \in Busy,
           worker'.op = worker.op, worker'.att = worker.att,
           worker' \in Worker_Type, WorkerHolds',
           UNCHANGED <<requestVars, executionVars, tableVars, livyVars, crashes>>
    PROVE  Inv'
<1> USE DEF Inv, requestVars, executionVars, tableVars, livyVars
<1>1. TypeOK'
  BY DEF TypeOK, Worker_Type
<1>2. LockIffActive'
  BY DEF LockIffActive
<1>3. ClaimedIsCarried'
  BY DEF ClaimedIsCarried, InFlight, Busy
<1>4. (OneClaimed /\ AttemptsLeft /\ Approved)'
  BY DEF OneClaimed, AttemptsLeft, Approved, SamePerson
<1>5. BatchesKnown'
  BY DEF BatchesKnown
<1>6. QED
  BY <1>1, <1>2, <1>3, <1>4, <1>5 DEF Inv

\* The steps of wait_for_batch that only look: loop head, deadline, poll.
LEMMA WaitInv ==
    ASSUME Inv, wait_for_batch \/ deadline_passed \/ poll_batch
    PROVE  Inv'
<1>1. worker \in Worker_Type /\ worker.pc \in {"wait", "poll"}
  BY DEF Inv, TypeOK, wait_for_batch, deadline_passed, poll_batch
<1>2. UNCHANGED <<requestVars, executionVars, tableVars, livyVars, crashes>>
  BY DEF wait_for_batch, deadline_passed, poll_batch
<1>3. PICK p : worker' = [worker EXCEPT !.pc = p]
  BY DEF wait_for_batch, deadline_passed, poll_batch, Goto
<1>4. worker.op \in Ops /\ worker.att \in Attempts
  BY <1>1 DEF Inv, TypeOK, WorkerHolds, Busy, AttemptsLeft, Attempts
<1>5. /\ p \in {"poll", "kill_cancel", "kill_timeout", "wait", "fail",
                "success", "dead", "killed"}
      /\ p = "success" => batch[worker.op][worker.att] = "success"
  BY <1>1, <1>3, <1>4
     DEF wait_for_batch, deadline_passed, poll_batch, Goto, Live, LiveStates,
         BatchStates, Inv, TypeOK, WorkerHolds, Worker_Type
<1>6. worker' \in Worker_Type
  BY <1>1, <1>3, <1>5 DEF Worker_Type, Busy
<1>7. WorkerHolds'
  BY <1>1, <1>2, <1>3, <1>5
     DEF Inv, WorkerHolds, Worker_Type, Busy, requestVars, executionVars, livyVars
<1>8. QED
  BY <1>1, <1>2, <1>3, <1>5, <1>6, <1>7, WorkerMoveInv DEF Worker_Type, Busy

\* The steps after the batch has ended, up to what they decide to report.
LEMMA OutcomeInv ==
    ASSUME Inv, result_from_logs \/ batch_failed \/ marking_raises
    PROVE  Inv'
<1>1. worker \in Worker_Type /\ worker.pc \in {"success", "dead", "killed", "verify", "finish", "write"}
  BY DEF Inv, TypeOK, result_from_logs, batch_failed, marking_raises
<1>2. UNCHANGED <<requestVars, executionVars, tableVars, livyVars, crashes>>
  BY DEF result_from_logs, batch_failed, marking_raises
<1>3. worker.op \in Ops /\ worker.att \in Attempts
  BY <1>1 DEF Inv, TypeOK, WorkerHolds, Busy, AttemptsLeft, Attempts
<1>4. CASE result_from_logs /\ worker'.pc = "verify"
  <2>1. report[worker.op][worker.att] \in Snapshots
    BY <1>3, <1>4 DEF result_from_logs, Inv, WorkerHolds, BatchesKnown
  <2>2. worker' = [worker EXCEPT !.pc = "verify",
                                 !.after = report[worker.op][worker.att]]
    BY <1>1, <1>4 DEF result_from_logs, Goto, Worker_Type
  <2>3. worker' \in Worker_Type
    BY <1>1, <2>1, <2>2 DEF Worker_Type, Busy
  <2>4. WorkerHolds'
    BY <1>1, <1>2, <2>1, <2>2
       DEF Inv, WorkerHolds, Worker_Type, Busy, requestVars, executionVars, livyVars
  <2>5. QED
    BY <1>1, <1>2, <2>2, <2>3, <2>4, WorkerMoveInv DEF Worker_Type, Busy
<1>5. CASE ~(result_from_logs /\ worker'.pc = "verify")
  <2>1. PICK p \in {"cancel", "fail"} : worker' = [worker EXCEPT !.pc = p]
    BY <1>1, <1>5 DEF result_from_logs, batch_failed, marking_raises, Goto, Worker_Type
  <2>2. worker' \in Worker_Type
    BY <1>1, <2>1 DEF Worker_Type, Busy
  <2>3. WorkerHolds'
    BY <1>1, <1>2, <2>1
       DEF Inv, WorkerHolds, Worker_Type, Busy, requestVars, executionVars, livyVars
  <2>4. QED
    BY <1>1, <1>2, <2>1, <2>2, <2>3, WorkerMoveInv DEF Worker_Type, Busy
<1>6. QED
  BY <1>4, <1>5

(***************************************************************************)
(* A step that moves one batch on, reports a snapshot if the batch         *)
(* succeeds by it, and leaves the rows alone.                              *)
(***************************************************************************)
LEMMA BatchStepInv ==
    ASSUME Inv, NEW o \in Ops, NEW a \in Attempts, NEW from, NEW to,
           BatchIs(o, a, from, to), "success" \notin from,
           to \in BatchStates \ {"absent"},
           report' \in [Ops -> [Attempts -> Snapshots \cup {None}]],
           \A q \in Ops, b \in Attempts :
              report[q][b] \in Snapshots => report'[q][b] \in Snapshots,
           to = "success" => report'[o][a] \in Snapshots,
           actual' \in [Tables -> Snapshots],
           UNCHANGED <<requestVars, executionVars, tableVars, worker, crashes>>
    PROVE  Inv'
<1> USE DEF Inv, requestVars, executionVars, tableVars, BatchIs
<1>1. TypeOK'
  BY DEF TypeOK
<1>2. LockIffActive'
  BY DEF LockIffActive
<1>3. ClaimedIsCarried'
  BY DEF ClaimedIsCarried, InFlight
<1>4. WorkerHolds'
  <2>1. \A q \in Ops, b \in Attempts :
           /\ batch[q][b] = "success" => batch'[q][b] = "success"
           /\ batch[q][b] # "absent" => batch'[q][b] # "absent"
    BY DEF TypeOK
  <2>2. worker.pc \in Busy => worker.op \in Ops /\ worker.att \in Attempts
    BY DEF WorkerHolds, AttemptsLeft, TypeOK, Attempts
  <2>3. QED
    BY <2>1, <2>2 DEF WorkerHolds, Unsubmitted, InFlight, Busy
<1>5. (OneClaimed /\ AttemptsLeft /\ Approved)'
  BY DEF OneClaimed, AttemptsLeft, Approved, SamePerson
<1>6. BatchesKnown'
  BY DEF BatchesKnown, TypeOK
<1>7. QED
  BY <1>1, <1>2, <1>3, <1>4, <1>5, <1>6 DEF Inv

\* The Spark batches and the other writers of the tables.
LEMMA EngineInv == ASSUME Inv, Engine PROVE Inv'
<1> USE DEF LiveStates, BatchStates
<1>1. ASSUME NEW o \in Ops, NEW a \in Attempts, check_snapshot(o, a) PROVE Inv'
  <2>1. PICK to \in {"checked", "dead"} : BatchIs(o, a, {"starting"}, to)
    BY <1>1 DEF check_snapshot
  <2>2. UNCHANGED <<requestVars, executionVars, tableVars, worker, report, actual, crashes>>
    BY <1>1 DEF check_snapshot
  <2>3. QED
    BY <2>1, <2>2, BatchStepInv DEF Inv, TypeOK
<1>2. ASSUME NEW o \in Ops, NEW a \in Attempts, run_procedure(o, a) PROVE Inv'
  <2>1. BatchIs(o, a, {"checked"}, "committed")
    BY <1>2 DEF run_procedure
  <2>2. actual' \in [Tables -> Snapshots]
    BY <1>2 DEF run_procedure, Inv, TypeOK
  <2>3. UNCHANGED <<requestVars, executionVars, tableVars, worker, report, crashes>>
    BY <1>2 DEF run_procedure
  <2>4. QED
    BY <2>1, <2>2, <2>3, BatchStepInv DEF Inv, TypeOK
<1>3. ASSUME NEW o \in Ops, NEW a \in Attempts, emit_result(o, a) PROVE Inv'
  <2>1. BatchIs(o, a, {"committed"}, "success")
    BY <1>3 DEF emit_result
  <2>2. /\ actual' \in [Tables -> Snapshots]
        /\ report' \in [Ops -> [Attempts -> Snapshots \cup {None}]]
        /\ report'[o][a] \in Snapshots
        /\ \A q \in Ops, b \in Attempts :
              report[q][b] \in Snapshots => report'[q][b] \in Snapshots
    BY <1>3 DEF emit_result, Inv, TypeOK
  <2>3. UNCHANGED <<requestVars, executionVars, tableVars, worker, crashes>>
    BY <1>3 DEF emit_result
  <2>4. QED
    BY <2>1, <2>2, <2>3, BatchStepInv
<1>4. ASSUME NEW o \in Ops, NEW a \in Attempts, batch_dies(o, a) PROVE Inv'
  <2>1. PICK to \in {"dead", "killed"} : BatchIs(o, a, LiveStates, to)
    BY <1>4 DEF batch_dies
  <2>2. UNCHANGED <<requestVars, executionVars, tableVars, worker, report, actual, crashes>>
    BY <1>4 DEF batch_dies
  <2>3. QED
    BY <2>1, <2>2, BatchStepInv DEF Inv, TypeOK
<1>5. ASSUME NEW t \in Tables, external_commit(t) PROVE Inv'
  <2> USE DEF Inv, requestVars, executionVars, tableVars
  <2>1. TypeOK'
    BY <1>5 DEF external_commit, TypeOK
  <2>2. (LockIffActive /\ ClaimedIsCarried /\ WorkerHolds)'
    BY <1>5 DEF external_commit, LockIffActive, ClaimedIsCarried, WorkerHolds,
                InFlight, Unsubmitted
  <2>3. (OneClaimed /\ AttemptsLeft /\ Approved /\ BatchesKnown)'
    BY <1>5 DEF external_commit, OneClaimed, AttemptsLeft, Approved, SamePerson,
                BatchesKnown
  <2>4. QED
    BY <2>1, <2>2, <2>3 DEF Inv
<1>6. QED
  BY <1>1, <1>2, <1>3, <1>4, <1>5 DEF Engine

-----------------------------------------------------------------------------
\* submit_batch: the batch exists before the worker goes on to record it.
LEMMA SubmitInv == ASSUME Inv, submit_batch PROVE Inv'
<1> USE DEF Inv, submit_batch, requestVars, executionVars, tableVars, Goto
<1>1. /\ worker \in Worker_Type /\ worker.pc = "submit"
      /\ worker.op \in Ops /\ worker.att \in Attempts
  BY DEF TypeOK, WorkerHolds, Busy, AttemptsLeft, Attempts
<1>2. PICK p \in {"record", "fail"} : worker' = [worker EXCEPT !.pc = p]
  OBVIOUS
<1>3. \/ UNCHANGED batch /\ worker'.pc = "fail"
      \/ batch' = [batch EXCEPT ![worker.op][worker.att] = "starting"]
  BY <1>1 DEF Worker_Type
<1>4. /\ batch' \in [Ops -> [Attempts -> BatchStates]]
      /\ \A q \in Ops, b \in Attempts : batch'[q][b] \in {batch[q][b], "starting"}
  <2>1. CASE UNCHANGED batch
    BY <2>1 DEF TypeOK
  <2>2. CASE batch' = [batch EXCEPT ![worker.op][worker.att] = "starting"]
    <3>1. "starting" \in BatchStates
      BY DEF BatchStates, LiveStates
    <3> HIDE DEF Inv, submit_batch
    <3>2. QED
      BY <1>1, <2>2, <3>1 DEF Inv, TypeOK
  <2>3. QED
    BY <1>3, <2>1, <2>2
<1>5. TypeOK'
  <2>1. worker' \in Worker_Type
    BY <1>1, <1>2 DEF Worker_Type, Busy
  <2>2. QED
    BY <1>4, <2>1 DEF TypeOK
<1>6. LockIffActive'
  BY DEF LockIffActive
<1>7. ClaimedIsCarried'
  BY <1>1, <1>2 DEF ClaimedIsCarried, InFlight, Busy, Worker_Type
<1>8. WorkerHolds'
  BY <1>1, <1>2, <1>3 DEF WorkerHolds, Worker_Type, Busy, TypeOK
<1>9. (OneClaimed /\ AttemptsLeft /\ Approved)'
  BY DEF OneClaimed, AttemptsLeft, Approved, SamePerson
<1>10. BatchesKnown'
  BY <1>4 DEF BatchesKnown
<1>11. QED
  BY <1>5, <1>6, <1>7, <1>8, <1>9, <1>10 DEF Inv

\* mark_submitted writes the batch id into the execution in hand, or fails.
LEMMA SubmittedInv == ASSUME Inv, mark_submitted PROVE Inv'
<1> USE DEF Inv, requestVars, tableVars, livyVars, Goto
<1>1. /\ worker \in Worker_Type /\ worker.pc = "record"
      /\ worker.op \in Ops /\ worker.att \in Attempts
  BY DEF TypeOK, WorkerHolds, Busy, AttemptsLeft, Attempts, mark_submitted
<1>2. CASE /\ external_id' = [external_id EXCEPT ![worker.op][worker.att] = TRUE]
           /\ Goto("wait")
  <2> USE <1>2 DEF mark_submitted
  <2>1. /\ external_id' \in [Ops -> [Attempts -> BOOLEAN]]
        /\ \A q \in Ops, b \in Attempts : external_id'[q][b]
              <=> (q = worker.op /\ b = worker.att) \/ external_id[q][b]
    BY <1>1, ExternalIdUpdate
  <2>2. worker' \in Worker_Type
    BY <1>1 DEF Worker_Type, Busy
  <2>3. TypeOK'
    BY <2>1, <2>2 DEF TypeOK
  <2>4. LockIffActive'
    BY DEF LockIffActive
  <2>5. ClaimedIsCarried'
    BY <1>1 DEF ClaimedIsCarried, InFlight, Busy, Worker_Type
  <2>6. WorkerHolds'
    BY <1>1 DEF WorkerHolds, Worker_Type, Busy
  <2>7. (OneClaimed /\ AttemptsLeft /\ Approved)'
    BY DEF OneClaimed, AttemptsLeft, Approved, SamePerson
  <2>8. BatchesKnown'
    BY <1>1, <2>1 DEF BatchesKnown, WorkerHolds
  <2>9. QED
    BY <2>3, <2>4, <2>5, <2>6, <2>7, <2>8
<1>3. CASE Goto("fail") /\ UNCHANGED external_id
  <2>1. UNCHANGED <<requestVars, executionVars, tableVars, livyVars, crashes>>
    BY <1>3 DEF mark_submitted, executionVars
  <2>2. worker' \in Worker_Type
    BY <1>1, <1>3 DEF Worker_Type, Busy
  <2>3. WorkerHolds'
    BY <1>1, <1>3, <2>1 DEF WorkerHolds, Worker_Type, Busy, executionVars
  <2>4. QED
    BY <1>1, <1>3, <2>1, <2>2, <2>3, WorkerMoveInv DEF Worker_Type, Busy
<1>4. QED
  BY <1>2, <1>3 DEF mark_submitted

\* delete_batch: whatever the DELETE did, the worker goes on to conclude.
LEMMA DeleteInv == ASSUME Inv, delete_batch PROVE Inv'
<1> USE DEF Inv, delete_batch, requestVars, executionVars, tableVars, Goto
<1>1. /\ worker \in Worker_Type /\ worker.pc \in {"kill_cancel", "kill_timeout"}
      /\ worker.op \in Ops /\ worker.att \in Attempts
  BY DEF TypeOK, WorkerHolds, Busy, AttemptsLeft, Attempts
<1>2. PICK p \in {"cancel", "fail"} : worker' = [worker EXCEPT !.pc = p]
  OBVIOUS
<1>3. \/ UNCHANGED batch
      \/ /\ Live(worker.op, worker.att)
         /\ batch' = [batch EXCEPT ![worker.op][worker.att] = "killed"]
  OBVIOUS
<1>4. /\ batch' \in [Ops -> [Attempts -> BatchStates]]
      /\ \A q \in Ops, b \in Attempts : batch'[q][b] \in {batch[q][b], "killed"}
  <2>1. CASE UNCHANGED batch
    BY <2>1 DEF TypeOK
  <2>2. CASE batch' = [batch EXCEPT ![worker.op][worker.att] = "killed"]
    <3>1. "killed" \in BatchStates
      BY DEF BatchStates, LiveStates
    <3> HIDE DEF Inv, delete_batch
    <3>2. QED
      BY <1>1, <2>2, <3>1 DEF Inv, TypeOK
  <2>3. QED
    BY <1>3, <2>1, <2>2
<1>5. TypeOK'
  <2>1. worker' \in Worker_Type
    BY <1>1, <1>2 DEF Worker_Type, Busy
  <2>2. QED
    BY <1>4, <2>1 DEF TypeOK
<1>6. LockIffActive'
  BY DEF LockIffActive
<1>7. ClaimedIsCarried'
  BY <1>1, <1>2 DEF ClaimedIsCarried, InFlight, Busy, Worker_Type
<1>8. WorkerHolds'
  BY <1>1, <1>2 DEF WorkerHolds, Worker_Type, Busy
<1>9. (OneClaimed /\ AttemptsLeft /\ Approved)'
  BY DEF OneClaimed, AttemptsLeft, Approved, SamePerson
<1>10. BatchesKnown'
  BY <1>4 DEF BatchesKnown
<1>11. QED
  BY <1>5, <1>6, <1>7, <1>8, <1>9, <1>10 DEF Inv

\* mark_verifying overwrites the states of the execution and of the request.
LEMMA VerifyingInv == ASSUME Inv, mark_verifying PROVE Inv'
<1> USE DEF Inv, mark_verifying, tableVars, livyVars, Goto
<1> USE DEF States, Active, Claimed
<1>1. /\ worker \in Worker_Type /\ worker.pc = "verify"
      /\ worker.op \in Ops /\ worker.att \in Attempts
      /\ worker.att = attempts[worker.op] /\ state[worker.op] \in Claimed
  BY DEF TypeOK, WorkerHolds, Busy, AttemptsLeft, Attempts
<1>2. /\ execution' \in [Ops -> [Attempts -> ExecutionStates]]
      /\ \A q \in Ops, b \in Attempts : execution'[q][b]
            = IF q = worker.op /\ b = worker.att THEN "VERIFYING" ELSE execution[q][b]
  BY <1>1, ExecutionUpdate DEF ExecutionStates
<1>3. /\ state' \in [Ops -> States]
      /\ \A q \in Ops : state'[q] = IF q = worker.op THEN "VERIFYING" ELSE state[q]
  BY <1>1 DEF TypeOK
<1>4. worker' \in Worker_Type /\ worker' = [worker EXCEPT !.pc = "finish"]
  BY <1>1 DEF Worker_Type, Busy
<1>5. TypeOK'
  BY <1>2, <1>3, <1>4 DEF TypeOK
<1>6. LockIffActive'
  BY <1>1, <1>3 DEF LockIffActive
<1>7. ClaimedIsCarried'
  BY <1>1, <1>2, <1>3, <1>4 DEF ClaimedIsCarried, InFlight, Busy, Worker_Type
<1>8. WorkerHolds'
  BY <1>1, <1>3, <1>4 DEF WorkerHolds, Worker_Type, Busy
<1>9. (OneClaimed /\ AttemptsLeft)'
  BY <1>1, <1>3 DEF OneClaimed, AttemptsLeft
<1>10. (Approved /\ BatchesKnown)'
  BY <1>1, <1>3 DEF Approved, SamePerson, BatchesKnown
<1>11. QED
  BY <1>5, <1>6, <1>7, <1>8, <1>9, <1>10 DEF Inv

\* mark_succeeded has read the registry's snapshot.
LEMMA LoadInv == ASSUME Inv, load PROVE Inv'
<1> USE DEF Inv, load
<1>1. /\ worker \in Worker_Type /\ worker.pc = "finish"
      /\ worker.op \in Ops /\ recorded[TableOf[worker.op]] \in Snapshots
  BY DEF TypeOK, WorkerHolds, Busy
<1>2. /\ worker' \in Worker_Type
      /\ worker'.pc = "write" /\ worker'.op = worker.op /\ worker'.att = worker.att
      /\ worker'.after = worker.after /\ worker'.loaded \in Snapshots
  BY <1>1 DEF Worker_Type, Busy
<1>3. WorkerHolds'
  BY <1>1, <1>2 DEF WorkerHolds, Busy, requestVars, executionVars, livyVars
<1>4. QED
  BY <1>1, <1>2, <1>3, WorkerMoveInv DEF Busy

\* The probe of Livy and the sleep between two looks at the queue.
LEMMA PollingInv == ASSUME Inv, refresh_idle_heartbeat \/ poll_later PROVE Inv'
<1> USE DEF Inv, requestVars, executionVars, tableVars, livyVars
<1>1. /\ worker \in Worker_Type /\ worker.pc \in Polling
      /\ UNCHANGED <<requestVars, executionVars, tableVars, livyVars, crashes>>
  BY DEF TypeOK, Polling, refresh_idle_heartbeat, poll_later
<1>2. PICK p \in Polling : worker' = [worker EXCEPT !.pc = p]
  BY DEF Polling, refresh_idle_heartbeat, poll_later, Goto
<1>3. worker' \in Worker_Type /\ worker'.pc \in Polling /\ worker'.op = worker.op
  BY <1>1, <1>2 DEF Worker_Type
<1>4. TypeOK'
  BY <1>1, <1>3 DEF TypeOK
<1>5. LockIffActive'
  BY <1>1 DEF LockIffActive
<1>6. ClaimedIsCarried'
  BY <1>1, <1>3 DEF ClaimedIsCarried, InFlight, Polling, Busy
<1>7. WorkerHolds'
  BY <1>1, <1>3 DEF WorkerHolds, Polling, Busy
<1>8. (OneClaimed /\ AttemptsLeft /\ Approved /\ BatchesKnown)'
  BY <1>1 DEF OneClaimed, AttemptsLeft, Approved, SamePerson, BatchesKnown
<1>9. QED
  BY <1>4, <1>5, <1>6, <1>7, <1>8

\* mark_succeeded, mark_failed and mark_canceled end the claimed request and
\* give its lock back in one transaction.
LEMMA ConcludeInv ==
    ASSUME Inv, worker.pc \in Busy, NEW outcome \in {"SUCCEEDED", "FAILED", "CANCELED"},
           Conclude(outcome), recorded' \in [Tables -> Snapshots]
    PROVE  Inv'
<1> USE DEF Inv, livyVars
<1> USE DEF States, Active, Claimed, Terminal
<1>1. /\ worker.op \in Ops /\ worker.att \in Attempts
      /\ worker.att = attempts[worker.op] /\ state[worker.op] \in Claimed
  BY DEF TypeOK, WorkerHolds, AttemptsLeft, Attempts
<1>2. /\ execution' \in [Ops -> [Attempts -> ExecutionStates]]
      /\ \A q \in Ops, b \in Attempts : execution'[q][b]
            = IF q = worker.op /\ b = worker.att THEN outcome ELSE execution[q][b]
  <2>1. execution' = [execution EXCEPT ![worker.op][worker.att] = outcome]
    BY DEF Conclude
  <2>2. outcome \in ExecutionStates
    BY DEF ExecutionStates
  <2>3. QED
    BY <1>1, <2>1, <2>2 DEF TypeOK
<1>3. /\ state' \in [Ops -> States]
      /\ \A q \in Ops : state'[q] = IF q = worker.op THEN outcome ELSE state[q]
  BY <1>1 DEF TypeOK, Conclude
<1>4. /\ worker' \in Worker_Type
      /\ worker'.pc = "next" /\ worker'.op = None
  BY DEF Worker_Type, IdleWorker, Holding, Conclude
<1>5. /\ lock' \in [Tables -> Ops \cup {None}]
      /\ \A t \in Tables : lock'[t] = IF lock[t] = worker.op THEN None ELSE lock[t]
  BY DEF TypeOK, LocksReleased, Conclude
<1>6. UNCHANGED <<planned, approver, attempts, external_id, expected, inspected, batch,
                  report, actual, crashes>>
  BY DEF Conclude
<1>7. TypeOK'
  BY <1>2, <1>3, <1>4, <1>5, <1>6 DEF TypeOK
<1>8. LockIffActive'
  <2>1. outcome \notin Active
    OBVIOUS
  <2>2. ASSUME NEW q \in Ops PROVE state'[q] \in Active <=> lock'[TableOf[q]] = q
    <3>1. TableOf[q] \in Tables /\ (state[q] \in Active <=> lock[TableOf[q]] = q)
      BY DEF LockIffActive
    <3>2. QED
      BY <1>1, <1>3, <1>5, <2>1, <3>1
  <2>3. QED
    BY <2>2 DEF LockIffActive
<1>9. \A q \in Ops : state'[q] \notin Claimed
  BY <1>1, <1>3 DEF OneClaimed
<1>10. \A q \in Ops, b \in Attempts : execution'[q][b] \notin {"RUNNING", "VERIFYING"}
  <2>1. \A q \in Ops, b \in Attempts : InFlight(q, b) => q = worker.op /\ b = worker.att
    BY <1>1 DEF ClaimedIsCarried, OneClaimed
  <2>2. QED
    BY <1>2, <2>1 DEF InFlight
<1>11. ClaimedIsCarried'
  BY <1>9, <1>10 DEF ClaimedIsCarried, InFlight
<1>12. WorkerHolds'
  BY <1>4, <1>10 DEF WorkerHolds, Busy, Unsubmitted, InFlight
<1>13. (OneClaimed /\ AttemptsLeft)'
  BY <1>1, <1>3, <1>6, <1>9 DEF OneClaimed, AttemptsLeft
<1>14. (Approved /\ BatchesKnown)'
  BY <1>1, <1>3, <1>6 DEF Approved, SamePerson, BatchesKnown
<1>15. QED
  BY <1>7, <1>8, <1>11, <1>12, <1>13, <1>14 DEF Inv

\* resume_next attaches to the execution in flight, or finds none.
LEMMA ResumeInv == ASSUME Inv, resume_next PROVE Inv'
<1> USE DEF Inv, resume_next, requestVars, executionVars, tableVars, livyVars
<1>1. worker' \in Worker_Type
  <2>1. worker \in Worker_Type
    BY DEF TypeOK
  <2>2. CASE Goto("idle")
    BY <2>1, <2>2 DEF Worker_Type, Goto, Polling
  <2>3. ASSUME NEW o \in Ops, NEW a \in Attempts,
               worker' = Holding("poll", o, a)
        PROVE  worker' \in Worker_Type
    BY <2>3 DEF Worker_Type, Busy, Holding
  <2>4. QED
    BY <2>2, <2>3
<1>2. TypeOK'
  BY <1>1 DEF TypeOK
<1>3. LockIffActive'
  BY DEF LockIffActive
<1>4. (OneClaimed /\ AttemptsLeft /\ Approved /\ BatchesKnown)'
  BY DEF OneClaimed, AttemptsLeft, Approved, SamePerson, BatchesKnown
<1>5. CASE \E o \in Ops, a \in Attempts :
              /\ InFlight(o, a)
              /\ worker' = Holding("poll", o, a)
  <2>1. PICK o \in Ops, a \in Attempts :
           /\ InFlight(o, a)
           /\ worker' = Holding("poll", o, a)
    BY <1>5
  <2>2. state[o] \in Claimed /\ a = attempts[o]
    BY <2>1 DEF ClaimedIsCarried
  <2>3. ClaimedIsCarried'
    BY <2>1, <2>2 DEF ClaimedIsCarried, InFlight, OneClaimed, Busy, Holding
  <2>4. batch[o][a] # "absent"
    BY <2>1 DEF WorkerHolds, Unsubmitted, BatchesKnown
  <2>5. WorkerHolds'
    BY <2>1, <2>2, <2>4 DEF WorkerHolds, Busy, Holding
  <2>6. QED
    BY <1>2, <1>3, <1>4, <2>3, <2>5 DEF Inv
<1>6. CASE /\ \A o \in Ops, a \in Attempts : ~InFlight(o, a)
           /\ Goto("idle")
  <2>1. worker'.pc = "idle" /\ worker'.op = worker.op
    BY <1>6 DEF Goto, TypeOK, Worker_Type
  <2>2. worker.op = None
    BY DEF WorkerHolds, Busy
  <2>3. \A o \in Ops : state[o] \notin Claimed
    BY <1>6 DEF ClaimedIsCarried, AttemptsLeft, TypeOK, Attempts
  <2>4. ClaimedIsCarried'
    BY <1>6, <2>3 DEF ClaimedIsCarried, InFlight
  <2>5. WorkerHolds'
    BY <2>1, <2>2 DEF WorkerHolds, Busy
  <2>6. QED
    BY <1>2, <1>3, <1>4, <2>4, <2>5 DEF Inv
<1>7. QED
  BY <1>5, <1>6

\* crash: the rows stay, the process and what it held in memory are gone.
LEMMA CrashInv == ASSUME Inv, crash PROVE Inv'
<1> USE DEF Inv, crash, requestVars, executionVars, tableVars, livyVars, IdleWorker, Holding
<1>1. TypeOK'
  BY DEF TypeOK, Worker_Type
<1>2. LockIffActive'
  BY DEF LockIffActive
<1>3. ClaimedIsCarried'
  BY DEF ClaimedIsCarried, InFlight
<1>4. WorkerHolds'
  BY DEF WorkerHolds, Busy
<1>5. (OneClaimed /\ AttemptsLeft /\ Approved /\ BatchesKnown)'
  BY DEF OneClaimed, AttemptsLeft, Approved, SamePerson, BatchesKnown
<1>6. QED
  BY <1>1, <1>2, <1>3, <1>4, <1>5 DEF Inv

\* recover_stale_executions ends exactly the requests whose execution it ends.
LEMMA RecoverInv == ASSUME Inv, recover_stale_executions PROVE Inv'
<1> USE DEF Inv, tableVars, livyVars
<1> USE DEF States, Active, Claimed, Terminal
<1> DEFINE failed == {o \in Ops : \E a \in Attempts : Unsubmitted(o, a)}
<1>1. /\ worker.pc = "down"
      /\ state' = [o \in Ops |-> IF o \in failed THEN "FAILED" ELSE state[o]]
      /\ lock' = LocksReleased(failed)
      /\ execution' = [o \in Ops |-> [a \in Attempts |->
            IF Unsubmitted(o, a) THEN "FAILED" ELSE execution[o][a]]]
      /\ worker' = [worker EXCEPT !.pc = "next"]
      /\ UNCHANGED <<planned, approver, attempts, external_id, expected, recorded,
                     inspected, batch, report, actual, crashes>>
  BY DEF recover_stale_executions, Goto
<1>2. \A o \in failed : state[o] \in Claimed /\ Unsubmitted(o, attempts[o])
  BY DEF Unsubmitted, ClaimedIsCarried
<1>3. worker' \in Worker_Type /\ worker'.pc = "next" /\ worker'.op = None
  BY <1>1 DEF TypeOK, Worker_Type, WorkerHolds, Busy
<1>4. execution' \in [Ops -> [Attempts -> ExecutionStates]]
  BY <1>1 DEF TypeOK, ExecutionStates
<1>5. state' \in [Ops -> States]
  BY <1>1 DEF TypeOK
<1>6. /\ lock' \in [Tables -> Ops \cup {None}]
      /\ \A t \in Tables : lock'[t] = IF lock[t] \in failed THEN None ELSE lock[t]
  BY <1>1 DEF TypeOK, LocksReleased
<1> HIDE DEF failed
<1>7. TypeOK'
  BY <1>1, <1>3, <1>4, <1>5, <1>6 DEF TypeOK
<1>8. LockIffActive'
  BY <1>1, <1>2, <1>6 DEF LockIffActive, TypeOK
<1>9. \A o \in Ops, a \in Attempts : Unsubmitted(o, a) <=> o \in failed /\ a = attempts[o]
  BY <1>2 DEF failed, Unsubmitted, ClaimedIsCarried
<1>10. ClaimedIsCarried'
  BY <1>1, <1>3, <1>9 DEF ClaimedIsCarried, InFlight, Unsubmitted
<1>11. WorkerHolds'
  BY <1>1, <1>3 DEF WorkerHolds, Busy, Unsubmitted, InFlight
<1>12. (OneClaimed /\ AttemptsLeft)'
  BY <1>1, <1>2 DEF OneClaimed, AttemptsLeft
<1>13. (Approved /\ BatchesKnown)'
  BY <1>1, <1>2 DEF Approved, SamePerson, BatchesKnown
<1>14. QED
  BY <1>7, <1>8, <1>10, <1>11, <1>12, <1>13 DEF Inv

\* The registry's inspections touch neither requests nor the worker.
LEMMA RegistryInv == ASSUME Inv, Registry PROVE Inv'
<1>1. PICK t \in Tables : inspect_table(t) \/ sync_inspected_table(t)
  BY DEF Registry
<1> USE DEF Inv, requestVars, executionVars, livyVars
<1>2. /\ recorded' \in [Tables -> Snapshots]
      /\ inspected' \in [Tables -> Snapshots \cup {None}]
  BY <1>1 DEF TypeOK, inspect_table, sync_inspected_table
<1>3. UNCHANGED <<requestVars, executionVars, worker, livyVars, crashes>>
  BY <1>1 DEF inspect_table, sync_inspected_table
<1>4. TypeOK'
  BY <1>2, <1>3 DEF TypeOK
<1>5. (LockIffActive /\ ClaimedIsCarried /\ WorkerHolds)'
  BY <1>3 DEF LockIffActive, ClaimedIsCarried, WorkerHolds, InFlight, Unsubmitted
<1>6. (OneClaimed /\ AttemptsLeft /\ Approved /\ BatchesKnown)'
  BY <1>3 DEF OneClaimed, AttemptsLeft, Approved, SamePerson, BatchesKnown
<1>7. QED
  BY <1>4, <1>5, <1>6 DEF Inv

-----------------------------------------------------------------------------
(***************************************************************************)
(* The invariant of Operations                                             *)
(***************************************************************************)

\* Every action of the system, and stuttering, preserves the invariant.
LEMMA InvStep == Inv /\ [Next]_vars => Inv'
<1> SUFFICES ASSUME Inv, [Next]_vars PROVE Inv'
  OBVIOUS
<1>1. CASE Api
  BY <1>1, CreateInv, DecideInv, RetryInv, CancelInv DEF Api
<1>2. CASE Registry
  BY <1>2, RegistryInv
<1>3. CASE Worker
  <2>1. ASSUME mark_succeeded PROVE Inv'
    <3>1. worker.pc = "write" /\ Conclude("SUCCEEDED")
      BY <2>1 DEF mark_succeeded
    <3>2. recorded' \in [Tables -> Snapshots]
      BY <2>1, <3>1 DEF mark_succeeded, Inv, TypeOK, WorkerHolds
    <3>3. QED
      BY <3>1, <3>2, ConcludeInv DEF Busy
  <2>2. ASSUME mark_failed PROVE Inv'
    BY <2>2, ConcludeInv DEF mark_failed, Inv, TypeOK, Busy
  <2>3. ASSUME mark_canceled PROVE Inv'
    BY <2>3, ConcludeInv DEF mark_canceled, Inv, TypeOK, Busy
  <2>4. QED
    BY <1>3, <2>1, <2>2, <2>3, ClaimInv, SubmitInv, SubmittedInv, WaitInv, DeleteInv,
       OutcomeInv, VerifyingInv, LoadInv, PollingInv, ResumeInv, RecoverInv
       DEF Worker, claim
<1>4. CASE crash
  BY <1>4, CrashInv
<1>5. CASE Engine
  BY <1>5, EngineInv
<1>6. CASE UNCHANGED vars
  <2> USE <1>6 DEF vars, requestVars, executionVars, tableVars, livyVars, Inv
  <2>1. TypeOK'
    BY DEF TypeOK
  <2>2. (LockIffActive /\ ClaimedIsCarried /\ WorkerHolds)'
    BY DEF LockIffActive, ClaimedIsCarried, WorkerHolds, InFlight, Unsubmitted
  <2>3. (OneClaimed /\ AttemptsLeft /\ Approved /\ BatchesKnown)'
    BY DEF OneClaimed, AttemptsLeft, Approved, SamePerson, BatchesKnown
  <2>4. QED
    BY <2>1, <2>2, <2>3
<1>7. QED
  BY <1>1, <1>2, <1>3, <1>4, <1>5, <1>6 DEF Next

(***************************************************************************)
(* The lock, the worker and the executions agree in every reachable state, *)
(* whatever fails: the invariant the other theorems are read off from.     *)
(***************************************************************************)
THEOREM Invariance == Spec => []Inv
BY InitInv, InvStep, PTL DEF Spec

\* Every column of the database and every field of the worker and of the
\* batches always holds a value of its kind.
THEOREM TypeCorrectness == Spec => []TypeOK
<1>1. Inv => TypeOK
  BY DEF Inv
<1>2. QED
  BY <1>1, Invariance, PTL

\* A request owns its table's execution lock exactly while it is active, so
\* the active requests of a table are at most one (operation_table_locks).
THEOREM LockTheorem == Spec => []LockIffActive
<1>1. Inv => LockIffActive
  BY DEF Inv
<1>2. QED
  BY <1>1, Invariance, PTL

\* A claimed request is in the worker's hands, or will be found in recovery:
\* neither a crash nor a crossing cancellation orphans it.
THEOREM CarriedTheorem == Spec => []ClaimedIsCarried
<1>1. Inv => ClaimedIsCarried
  BY DEF Inv
<1>2. QED
  BY <1>1, Invariance, PTL

\* Nothing is ever executed on its requester's own approval.
THEOREM DutiesTheorem == Spec => []SeparationOfDuties
<1>1. Inv => SeparationOfDuties
  BY DEF Inv, Approved, SeparationOfDuties, SamePerson
<1>2. QED
  BY <1>1, Invariance, PTL
=============================================================================
