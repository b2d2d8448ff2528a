------------------------- MODULE OperationsFaultFree -------------------------
(***************************************************************************)
(* What Operations guarantees as long as no failure leaves a batch running *)
(* behind the worker's back (Faults = {}): the batches of a table run one  *)
(* at a time, a table changes only from the snapshot of the plan, and the  *)
(* registry records what the table became.  Crashes of the worker outside  *)
(* the window between the POST and mark_submitted are included.            *)
(***************************************************************************)
EXTENDS OperationsProofs

USE ConstantsAssumption

\* The batch in the worker's hands is the only one that can be live.
LEMMA LiveIsInHand ==
    ASSUME Inv, LiveIsClaimed, worker.pc \in Busy,
           NEW o \in Ops, NEW a \in Attempts, Live(o, a)
    PROVE  o = worker.op /\ a = worker.att
BY DEF Inv, WorkerHolds, OneClaimed, LiveIsClaimed

\* At most one batch is live.
LEMMA OneLive ==
    ASSUME Inv, LiveIsClaimed, NEW o \in Ops, NEW a \in Attempts, Live(o, a),
           NEW q \in Ops, NEW b \in Attempts, Live(q, b)
    PROVE  o = q /\ a = b
BY DEF Inv, OneClaimed, LiveIsClaimed

\* The worker's steps that leave every row and every batch as it is.
Looks ==
    \/ wait_for_batch \/ deadline_passed \/ poll_batch
    \/ result_from_logs \/ batch_failed \/ load \/ marking_raises
    \/ refresh_idle_heartbeat \/ poll_later

\* The worker's last transaction for an execution.
Ends == mark_succeeded \/ mark_failed \/ mark_canceled

\* They write no row and touch no batch.
LEMMA LooksUnchanged ==
    Looks => UNCHANGED <<requestVars, executionVars, tableVars, livyVars, crashes>>
BY DEF Looks, wait_for_batch, deadline_passed, poll_batch, result_from_logs, batch_failed,
       load, marking_raises, refresh_idle_heartbeat, poll_later

\* The worker's steps, with the ones that only look taken together.
LEMMA WorkerCases ==
    Worker => \/ \E o \in Ops : claim_operation(o)
              \/ submit_batch \/ mark_submitted \/ Looks \/ delete_batch
              \/ mark_verifying \/ Ends \/ resume_next \/ recover_stale_executions
BY DEF Worker, claim, Looks, Ends

\* Where the worker's own steps can take it, other than to a new claim or to
\* a result.
LEMMA GoesOn ==
    ASSUME Inv, \/ submit_batch \/ mark_submitted \/ delete_batch
                \/ Ends \/ resume_next \/ recover_stale_executions \/ crash
    PROVE  worker'.pc \in {"record", "wait", "poll", "fail", "cancel", "next", "idle", "down"}
<1>1. worker \in Worker_Type
  BY DEF Inv, TypeOK
<1>2. ASSUME NEW p, Goto(p) PROVE worker'.pc = p
  BY <1>1, <1>2 DEF Goto, Worker_Type
<1>3. CASE submit_batch \/ mark_submitted \/ recover_stale_executions
  BY <1>2, <1>3 DEF submit_batch, mark_submitted, recover_stale_executions
<1>4. CASE delete_batch
  <2>1. PICK p \in {"cancel", "fail"} : Goto(p)
    BY <1>4 DEF delete_batch
  <2>2. QED
    BY <1>2, <2>1
<1>5. CASE resume_next
  BY <1>2, <1>5 DEF resume_next, Holding
<1>6. CASE Ends \/ crash
  BY <1>6 DEF Ends, mark_succeeded, mark_failed, mark_canceled, Conclude, crash, IdleWorker,
              Holding
<1>7. QED
  BY <1>3, <1>4, <1>5, <1>6

\* Where a step that only looks can take it.
LEMMA LooksOn ==
    ASSUME Inv, Looks
    PROVE  \/ worker'.pc \in {"wait", "poll", "kill_cancel", "kill_timeout", "dead", "killed",
                             "fail", "cancel", "idle", "asleep", "claim"}
           \/ poll_batch /\ worker'.pc = "success"
           \/ result_from_logs /\ worker'.pc = "verify"
           \/ load /\ worker'.pc = "write"
<1>1. worker \in Worker_Type
  BY DEF Inv, TypeOK
<1>2. ASSUME NEW p, Goto(p) PROVE worker'.pc = p
  BY <1>1, <1>2 DEF Goto, Worker_Type
<1>3. CASE \/ wait_for_batch \/ deadline_passed \/ batch_failed \/ marking_raises
           \/ refresh_idle_heartbeat \/ poll_later
  BY <1>2, <1>3 DEF wait_for_batch, deadline_passed, batch_failed, marking_raises,
                    refresh_idle_heartbeat, poll_later
<1>4. CASE result_from_logs \/ load
  BY <1>1, <1>2, <1>4 DEF result_from_logs, load, Worker_Type
<1>5. CASE poll_batch
  <2>1. worker.op \in Ops /\ worker.att \in Attempts /\ worker.pc = "poll"
    BY <1>5 DEF poll_batch, Inv, TypeOK, WorkerHolds, Busy, AttemptsLeft, Attempts
  <2>2. batch[worker.op][worker.att] \in BatchStates \ {"absent"}
    BY <2>1 DEF Inv, TypeOK, WorkerHolds
  <2>3. PICK p : Goto(p) /\ p \in {"wait", "fail", "success", "dead", "killed"}
    BY <1>5, <2>2 DEF poll_batch, BatchStates, Live
  <2>4. QED
    BY <1>2, <1>5, <2>3
<1>6. QED
  BY <1>3, <1>4, <1>5 DEF Looks

-----------------------------------------------------------------------------
(***************************************************************************)
(* A live batch stays in the hands of the worker, or of its successor.     *)
(***************************************************************************)
LEMMA LiveStep ==
    ASSUME Faults = {}, Inv, FaultFreeInv, Inv', [Next]_vars
    PROVE  LiveIsClaimed'
<1> SUFFICES ASSUME NEW o \in Ops, NEW a \in Attempts, Live(o, a)'
             PROVE  /\ state'[o] \in Claimed
                    /\ a = attempts'[o]
                    /\ worker'.pc \in {"record", "wait", "poll", "kill_cancel",
                                       "kill_timeout", "down", "next"}
                    /\ worker'.pc # "record" => external_id'[o][a]
  BY DEF LiveIsClaimed
<1>1. LiveIsClaimed
  BY DEF FaultFreeInv
<1>2. worker \in Worker_Type /\ state \in [Ops -> States]
  BY DEF Inv, TypeOK
<1>3. Live(o, a) =>
         /\ state[o] \in Claimed
         /\ a = attempts[o]
         /\ worker.pc \in {"record", "wait", "poll", "kill_cancel", "kill_timeout",
                           "down", "next"}
         /\ worker.pc # "record" => external_id[o][a]
         /\ worker.pc \in Busy => o = worker.op /\ a = worker.att
  BY <1>1, LiveIsInHand DEF LiveIsClaimed
<1>4. CASE Api
  <2>1. UNCHANGED <<executionVars, worker, livyVars>>
    BY <1>4 DEF Api, create_operation, decide_operation, retry_operation, cancel_operation
  <2>2. state[o] \in Claimed => state'[o] \in Claimed
    BY <1>2, <1>4 DEF Api, create_operation, decide_operation, retry_operation,
                      cancel_operation, Retryable, Claimed, States
  <2>3. QED
    BY <1>3, <2>1, <2>2 DEF executionVars, livyVars, Live
<1>5. CASE Registry \/ UNCHANGED vars
  BY <1>3, <1>5 DEF Registry, inspect_table, sync_inspected_table, vars, requestVars,
                    executionVars, livyVars, Live
<1>6. ASSUME NEW q \in Ops, claim_operation(q) PROVE FALSE
  BY <1>3, <1>6 DEF claim_operation, livyVars, Live
<1>7. CASE submit_batch
  <2>1. ~Live(o, a)
    BY <1>3, <1>7 DEF submit_batch
  <2>2. /\ worker' = [worker EXCEPT !.pc = "record"]
        /\ batch' = [batch EXCEPT ![worker.op][worker.att] = "starting"]
    BY <1>7, <2>1 DEF submit_batch, Goto, Live
  <2>3. o = worker.op /\ a = worker.att
    BY <2>1, <2>2 DEF Inv, TypeOK, Live
  <2>4. UNCHANGED <<state, attempts>>
    BY <1>7 DEF submit_batch, requestVars, executionVars
  <2>5. worker'.pc = "record"
    BY <1>2, <2>2 DEF Worker_Type
  <2>6. QED
    BY <1>7, <2>3, <2>4, <2>5 DEF submit_batch, Inv, WorkerHolds, Busy
<1>8. CASE mark_submitted
  <2>1. Live(o, a) /\ worker.pc = "record"
    BY <1>8 DEF mark_submitted, livyVars, Live
  <2>2. o = worker.op /\ a = worker.att
    BY <1>3, <2>1 DEF Busy
  <2>3. /\ external_id' = [external_id EXCEPT ![worker.op][worker.att] = TRUE]
        /\ Goto("wait")
    BY <1>8, <2>1, <2>2 DEF mark_submitted, MayAbandon
  <2>4. external_id'[o][a] /\ worker'.pc = "wait"
    BY <1>2, <2>2, <2>3 DEF Inv, TypeOK, Goto, Worker_Type
  <2>5. QED
    BY <1>3, <1>8, <2>1, <2>4 DEF mark_submitted, requestVars
<1>9. CASE Looks
  <2>1. UNCHANGED <<state, attempts, external_id, batch>>
    BY <1>9, LooksUnchanged DEF requestVars, executionVars, livyVars
  <2>2. Live(o, a)
    BY <2>1 DEF Live
  <2>3. worker.pc \in {"wait", "poll"} /\ Live(worker.op, worker.att)
    BY <1>3, <1>9, <2>2 DEF Looks, wait_for_batch, deadline_passed, poll_batch,
                            result_from_logs, batch_failed, load, marking_raises,
                            refresh_idle_heartbeat, poll_later, Busy
  <2>4. wait_for_batch \/ deadline_passed \/ poll_batch
    BY <1>9, <2>3 DEF Looks, result_from_logs, batch_failed, load, marking_raises,
                      refresh_idle_heartbeat, poll_later
  <2>5. worker'.pc \in {"wait", "poll", "kill_cancel", "kill_timeout"}
    BY <1>2, <2>3, <2>4 DEF wait_for_batch, deadline_passed, poll_batch, MayAbandon, Goto,
                            Worker_Type
  <2>6. QED
    BY <1>3, <2>1, <2>2, <2>3, <2>5
<1>10. ASSUME delete_batch PROVE FALSE
  <2>1. Live(o, a)
    <3>1. CASE UNCHANGED batch
      BY <3>1 DEF Live
    <3>2. CASE batch' = [batch EXCEPT ![worker.op][worker.att] = "killed"]
      BY <3>2 DEF Live, LiveStates, Inv, TypeOK
    <3>3. QED
      BY <1>10, <3>1, <3>2 DEF delete_batch
  <2>2. o = worker.op /\ a = worker.att
    BY <1>3, <1>10, <2>1 DEF delete_batch, Busy
  <2>3. batch' = [batch EXCEPT ![worker.op][worker.att] = "killed"]
    BY <1>10, <2>1, <2>2 DEF delete_batch, MayAbandon
  <2>4. QED
    BY <2>2, <2>3 DEF Live, LiveStates, Inv, TypeOK
<1>11. ASSUME mark_verifying \/ Ends PROVE FALSE
  BY <1>3, <1>11 DEF mark_verifying, Ends, mark_succeeded, mark_failed, mark_canceled,
                     Conclude, livyVars, Live
<1>12. CASE resume_next
  <2>1. Live(o, a) /\ UNCHANGED <<state, attempts, external_id>> /\ worker.pc = "next"
    BY <1>12 DEF resume_next, requestVars, executionVars, livyVars, Live
  <2>2. InFlight(o, a)
    BY <1>3, <2>1 DEF Inv, ClaimedIsCarried
  <2>3. worker'.pc = "poll"
    BY <1>12, <2>2 DEF resume_next, Holding
  <2>4. QED
    BY <1>3, <2>1, <2>3
<1>13. CASE crash
  <2>1. Live(o, a) /\ UNCHANGED <<state, attempts, external_id>> /\ worker'.pc = "down"
    BY <1>13 DEF crash, requestVars, executionVars, livyVars, Live, IdleWorker, Holding
  <2>2. worker.pc # "record"
    BY <1>3, <1>13, <2>1 DEF crash, MayAbandon, Busy
  <2>3. QED
    BY <1>3, <2>1, <2>2
<1>14. CASE recover_stale_executions
  <2>1. Live(o, a) /\ worker.pc = "down" /\ worker'.pc = "next"
    BY <1>2, <1>14 DEF recover_stale_executions, livyVars, Live, Goto, Worker_Type
  <2>2. UNCHANGED <<attempts, external_id>>
    BY <1>14 DEF recover_stale_executions
  <2>3. \A b \in Attempts : ~Unsubmitted(o, b)
    BY <1>3, <2>1 DEF Unsubmitted, Inv, ClaimedIsCarried
  <2>4. state'[o] = state[o]
    BY <1>14, <2>3 DEF recover_stale_executions
  <2>5. QED
    BY <1>3, <2>1, <2>2, <2>4
<1>15. CASE Engine
  <2>1. UNCHANGED <<state, attempts, external_id, worker>>
    BY <1>15 DEF Engine, check_snapshot, run_procedure, emit_result, batch_dies,
                 external_commit, requestVars, executionVars
  <2>2. Live(o, a)
    <3>1. ASSUME NEW q \in Ops, NEW b \in Attempts, NEW from, NEW to,
                 BatchIs(q, b, from, to), from \subseteq LiveStates
          PROVE  Live(o, a)
      BY <3>1 DEF BatchIs, Live, Inv, TypeOK
    <3>2. CASE \E t \in Tables : external_commit(t)
      BY <3>2 DEF external_commit, Live
    <3>3. QED
      BY <1>15, <3>1, <3>2 DEF Engine, check_snapshot, run_procedure, emit_result,
                               batch_dies, LiveStates
  <2>3. QED
    BY <1>3, <2>1, <2>2
<1>16. QED
  BY <1>4, <1>5, <1>6, <1>7, <1>8, <1>9, <1>10, <1>11, <1>12, <1>13, <1>14, <1>15,
     WorkerCases
     DEF Next
-----------------------------------------------------------------------------
(***************************************************************************)
(* Outside the cluster only the worker touches a batch: it posts and kills *)
(* the one in its hands.                                                   *)
(***************************************************************************)
LEMMA OutsideEngine ==
    ASSUME Inv, Api \/ Registry \/ Worker \/ crash \/ UNCHANGED vars
    PROVE  /\ UNCHANGED <<report, actual>>
           /\ \A o \in Ops, a \in Attempts :
                 \/ batch'[o][a] = batch[o][a]
                 \/ /\ worker.pc \in {"submit", "kill_cancel", "kill_timeout"}
                    /\ o = worker.op /\ a = worker.att
                    /\ batch'[o][a] \in {"starting", "killed"}
<1>1. CASE Api \/ Registry \/ crash \/ UNCHANGED vars
  BY <1>1 DEF Api, create_operation, decide_operation, retry_operation, cancel_operation,
              Registry, inspect_table, sync_inspected_table, crash, vars, livyVars
<1>2. CASE submit_batch \/ delete_batch
  <2>1. /\ worker.pc \in {"submit", "kill_cancel", "kill_timeout"}
        /\ UNCHANGED <<report, actual>>
    BY <1>2 DEF submit_batch, delete_batch
  <2>2. CASE UNCHANGED batch
    BY <2>1, <2>2
  <2>3. ASSUME NEW to \in {"starting", "killed"},
               batch' = [batch EXCEPT ![worker.op][worker.att] = to]
        PROVE  \A o \in Ops, a \in Attempts :
                  \/ batch'[o][a] = batch[o][a]
                  \/ /\ o = worker.op /\ a = worker.att
                     /\ batch'[o][a] \in {"starting", "killed"}
    BY <2>3 DEF Inv, TypeOK
  <2>4. QED
    BY <1>2, <2>1, <2>2, <2>3 DEF submit_batch, delete_batch
<1>3. CASE Worker /\ ~submit_batch /\ ~delete_batch
  <2>1. CASE Looks
    BY <2>1, LooksUnchanged DEF livyVars
  <2>2. CASE ~Looks
    BY <1>3, <2>2, WorkerCases
       DEF claim_operation, mark_submitted, mark_verifying, Ends, mark_succeeded, mark_failed,
           mark_canceled, Conclude, resume_next, recover_stale_executions, livyVars
  <2>3. QED
    BY <2>1, <2>2
<1>4. QED
  BY <1>1, <1>2, <1>3

\* Only claim_operation begins an attempt, and fixes the snapshot it expects.
LEMMA OutsideClaim ==
    ASSUME Inv, [Next]_vars, \A q \in Ops : ~claim_operation(q)
    PROVE  UNCHANGED <<attempts, expected>>
<1>1. CASE Worker
  <2>1. CASE Looks
    BY <2>1, LooksUnchanged DEF executionVars
  <2>2. CASE ~Looks
    BY <1>1, <2>2, WorkerCases
       DEF submit_batch, mark_submitted, delete_batch, mark_verifying, Ends, mark_succeeded,
           mark_failed, mark_canceled, Conclude, resume_next, recover_stale_executions,
           executionVars
  <2>3. QED
    BY <2>1, <2>2
<1>2. CASE ~Worker
  BY <1>2 DEF Next, Api, create_operation, decide_operation, retry_operation,
              cancel_operation, Registry, inspect_table, sync_inspected_table, crash, Engine,
              check_snapshot, run_procedure, emit_result, batch_dies, external_commit, vars,
              executionVars
<1>3. QED
  BY <1>1, <1>2

\* Batches are posted by the attempts there have been.
LEMMA PostedStep == ASSUME Inv, FaultFreeInv, [Next]_vars PROVE PostedByAttempts'
<1> SUFFICES ASSUME NEW o \in Ops, NEW a \in Attempts, batch'[o][a] # "absent"
             PROVE  a <= attempts'[o]
  BY DEF PostedByAttempts
<1>1. attempts[o] \in Nat /\ a \in Nat
  BY DEF Inv, TypeOK, Attempts
<1>2. attempts'[o] \in Nat /\ attempts'[o] >= attempts[o]
  <2>1. ASSUME NEW q \in Ops, claim_operation(q)
        PROVE  attempts'[o] \in Nat /\ attempts'[o] >= attempts[o]
    BY <1>1, <2>1 DEF claim_operation, Inv, TypeOK
  <2>2. QED
    BY <1>1, <2>1, OutsideClaim
<1>3. batch[o][a] # "absent" => a <= attempts[o]
  BY DEF FaultFreeInv, PostedByAttempts
<1>4. CASE Api \/ Registry \/ Worker \/ crash \/ UNCHANGED vars
  <2>1. CASE batch'[o][a] = batch[o][a]
    BY <1>1, <1>2, <1>3, <2>1
  <2>2. CASE worker.pc \in Busy /\ o = worker.op /\ a = worker.att
    BY <1>1, <1>2, <2>2 DEF Inv, WorkerHolds
  <2>3. QED
    BY <1>4, <2>1, <2>2, OutsideEngine DEF Busy
<1>5. CASE Engine
  <2>1. ASSUME NEW q \in Ops, NEW b \in Attempts, NEW from, NEW to,
               BatchIs(q, b, from, to), "absent" \notin from
        PROVE  batch[o][a] # "absent"
    BY <2>1 DEF BatchIs, Inv, TypeOK
  <2>2. ASSUME NEW t \in Tables, external_commit(t) PROVE batch[o][a] # "absent"
    BY <2>2 DEF external_commit
  <2>3. batch[o][a] # "absent"
    BY <1>5, <2>1, <2>2 DEF Engine, check_snapshot, run_procedure, emit_result, batch_dies,
                            LiveStates
  <2>4. QED
    BY <1>1, <1>2, <1>3, <2>3
<1>6. QED
  BY <1>4, <1>5 DEF Next

\* A process that has claimed posts the batch of a new attempt.
LEMMA SubmittedStep == ASSUME Inv, FaultFreeInv, [Next]_vars PROVE SubmittedOnce'
<1> SUFFICES ASSUME worker'.pc = "submit"
             PROVE  batch'[worker'.op][worker'.att] = "absent"
  BY DEF SubmittedOnce
<1>1. worker \in Worker_Type /\ batch \in [Ops -> [Attempts -> BatchStates]]
  BY DEF Inv, TypeOK
<1>2. ASSUME NEW o \in Ops, claim_operation(o)
      PROVE  batch'[worker'.op][worker'.att] = "absent"
  <2>1. /\ attempts[o] + 1 \in Attempts /\ attempts[o] \in Nat
        /\ worker'.op = o /\ worker'.att = attempts[o] + 1 /\ UNCHANGED batch
    BY <1>2 DEF claim_operation, Holding, livyVars, Inv, TypeOK, AttemptsLeft, Attempts
  <2>2. QED
    BY <2>1 DEF FaultFreeInv, PostedByAttempts
<1>3. ASSUME Worker \/ crash, \A o \in Ops : ~claim_operation(o) PROVE FALSE
  <2>1. CASE Looks
    BY <2>1, LooksOn
  <2>2. CASE mark_verifying
    BY <1>1, <2>2 DEF mark_verifying, Goto, Worker_Type
  <2>3. QED
    BY <1>3, <2>1, <2>2, GoesOn, WorkerCases
<1>4. CASE Worker \/ crash
  BY <1>2, <1>3, <1>4
<1>5. CASE Api \/ Registry \/ UNCHANGED vars
  <2>1. UNCHANGED <<worker, batch>>
    BY <1>5 DEF Api, create_operation, decide_operation, retry_operation, cancel_operation,
                Registry, inspect_table, sync_inspected_table, vars, livyVars
  <2>2. QED
    BY <2>1 DEF FaultFreeInv, SubmittedOnce
<1>6. CASE Engine
  <2>1. UNCHANGED worker
    BY <1>6 DEF Engine, check_snapshot, run_procedure, emit_result, batch_dies, external_commit
  <2>2. batch[worker.op][worker.att] = "absent"
    BY <2>1 DEF FaultFreeInv, SubmittedOnce
  <2>3. ASSUME NEW q \in Ops, NEW b \in Attempts, NEW from, NEW to,
               BatchIs(q, b, from, to), "absent" \notin from
        PROVE  batch'[worker.op][worker.att] = "absent"
    <3>1. worker.op \in Ops /\ worker.att \in Attempts
      BY <2>1 DEF Inv, TypeOK, WorkerHolds, Busy, AttemptsLeft, Attempts
    <3>2. QED
      BY <1>1, <2>2, <2>3, <3>1 DEF BatchIs
  <2>4. QED
    BY <1>6, <2>1, <2>2, <2>3 DEF Engine, check_snapshot, run_procedure, emit_result,
                                  batch_dies, external_commit, LiveStates
<1>7. QED
  BY <1>4, <1>5, <1>6 DEF Next

(***************************************************************************)
(* Between main()'s comparison and the procedure nothing moves the table.  *)
(***************************************************************************)
LEMMA CheckedStep == ASSUME Inv, FaultFreeInv, [Next]_vars PROVE CheckedOnPlan'
<1> SUFFICES ASSUME NEW o \in Ops, NEW a \in Attempts, TableOf[o] \notin ExternalTables,
                    batch'[o][a] = "checked"
             PROVE  actual'[TableOf[o]] = expected'[o][a]
  BY DEF CheckedOnPlan
<1>1. batch[o][a] = "checked" => actual[TableOf[o]] = expected[o][a]
  BY DEF FaultFreeInv, CheckedOnPlan
<1>2. CASE Api \/ Registry \/ Worker \/ crash \/ UNCHANGED vars
  <2>1. UNCHANGED actual /\ (batch'[o][a] = batch[o][a] \/ batch'[o][a] \in {"starting", "killed"})
    BY <1>2, OutsideEngine
  <2>2. batch[o][a] = "checked"
    BY <2>1
  <2>3. worker.pc # "claim"
    BY <2>2 DEF FaultFreeInv, LiveIsClaimed, Live, LiveStates
  <2>4. UNCHANGED expected
    BY <2>3, OutsideClaim DEF claim_operation
  <2>5. QED
    BY <1>1, <2>1, <2>2, <2>4
<1>3. ASSUME NEW q \in Ops, NEW b \in Attempts, check_snapshot(q, b)
      PROVE  actual'[TableOf[o]] = expected'[o][a]
  <2>1. UNCHANGED <<actual, expected>>
    BY <1>3 DEF check_snapshot, executionVars
  <2>2. batch[o][a] = "checked" \/ actual[TableOf[o]] = expected[o][a]
    BY <1>3 DEF check_snapshot, BatchIs, Inv, TypeOK
  <2>3. QED
    BY <1>1, <2>1, <2>2
<1>4. ASSUME NEW q \in Ops, NEW b \in Attempts, run_procedure(q, b) PROVE FALSE
  <2>1. batch' = [batch EXCEPT ![q][b] = "committed"] /\ batch[q][b] = "checked"
    BY <1>4 DEF run_procedure, BatchIs
  <2>2. batch[o][a] = "checked" /\ ~(o = q /\ a = b)
    BY <2>1 DEF Inv, TypeOK
  <2>3. Live(o, a) /\ Live(q, b)
    BY <2>1, <2>2 DEF Live, LiveStates
  <2>4. QED
    BY <2>2, <2>3, OneLive DEF FaultFreeInv
<1>5. ASSUME NEW q \in Ops, NEW b \in Attempts, emit_result(q, b) \/ batch_dies(q, b)
      PROVE  actual'[TableOf[o]] = expected'[o][a]
  <2>1. UNCHANGED <<actual, expected>>
    BY <1>5 DEF emit_result, batch_dies, executionVars
  <2>2. ASSUME NEW from, NEW to, to # "checked", BatchIs(q, b, from, to)
        PROVE  batch[o][a] = "checked"
    BY <2>2 DEF BatchIs, Inv, TypeOK
  <2>3. batch[o][a] = "checked"
    BY <1>5, <2>2 DEF emit_result, batch_dies
  <2>4. QED
    BY <1>1, <2>1, <2>3
<1>6. ASSUME NEW t \in Tables, external_commit(t)
      PROVE  actual'[TableOf[o]] = expected'[o][a]
  BY <1>1, <1>6 DEF external_commit, executionVars, Inv, TypeOK
<1>7. QED
  BY <1>2, <1>3, <1>4, <1>5, <1>6 DEF Next, Engine
(***************************************************************************)
(* Between the batch's report and the worker's last transaction nothing    *)
(* moves the table, and the worker carries the snapshot reported.          *)
(***************************************************************************)
Current(o) ==
    /\ batch[o][attempts[o]] = "success"
       => report[o][attempts[o]] = actual[TableOf[o]]
    /\ worker.pc \in {"success", "verify", "finish", "write"}
       => batch[o][attempts[o]] = "success"
    /\ worker.pc \in {"verify", "finish", "write"}
       => worker.after = actual[TableOf[o]]

\* Of the worker's steps, the ones that bring it where it holds a result.
LEMMA ReachesResult ==
    ASSUME Inv, [Next]_vars, worker'.pc \in {"success", "verify", "finish", "write"}
    PROVE  \/ UNCHANGED worker
           \/ poll_batch /\ worker'.pc = "success"
           \/ result_from_logs /\ worker'.pc = "verify"
           \/ mark_verifying /\ worker'.pc = "finish"
           \/ load /\ worker'.pc = "write"
<1>1. worker \in Worker_Type
  BY DEF Inv, TypeOK
<1>2. CASE Api \/ Registry \/ Engine \/ UNCHANGED vars
  BY <1>2 DEF Api, create_operation, decide_operation, retry_operation, cancel_operation,
              Registry, inspect_table, sync_inspected_table, vars, Engine, check_snapshot,
              run_procedure, emit_result, batch_dies, external_commit
<1>3. ASSUME NEW q \in Ops, claim_operation(q) PROVE FALSE
  BY <1>3 DEF claim_operation, Holding
<1>4. CASE Looks
  BY <1>4, LooksOn
<1>5. CASE mark_verifying
  BY <1>1, <1>5 DEF mark_verifying, Goto, Worker_Type
<1>6. QED
  BY <1>2, <1>3, <1>4, <1>5, GoesOn, WorkerCases DEF Next

\* A request becomes claimed by claim_operation only.
LEMMA ClaimedStep ==
    ASSUME Inv, [Next]_vars, NEW o \in Ops, state'[o] \in Claimed
    PROVE  state[o] \in Claimed \/ claim_operation(o)
<1>1. state \in [Ops -> States]
  BY DEF Inv, TypeOK
<1>2. CASE Api
  BY <1>1, <1>2 DEF Api, create_operation, decide_operation, retry_operation,
                    cancel_operation, Claimed
<1>3. CASE Registry \/ crash \/ Engine \/ UNCHANGED vars
  BY <1>3 DEF Registry, inspect_table, sync_inspected_table, crash, vars, requestVars,
              Engine, check_snapshot, run_procedure, emit_result, batch_dies, external_commit
<1>4. ASSUME NEW q \in Ops, q # o, claim_operation(q) PROVE state[o] \in Claimed
  BY <1>1, <1>4 DEF claim_operation
<1>5. ASSUME NEW s, state' = [state EXCEPT ![worker.op] = s], worker.pc \in Busy
      PROVE  state[o] \in Claimed
  BY <1>1, <1>5 DEF Inv, WorkerHolds
<1>6. CASE mark_verifying \/ mark_succeeded \/ mark_failed \/ mark_canceled
  BY <1>5, <1>6 DEF mark_verifying, mark_succeeded, mark_failed, mark_canceled, Conclude, Busy
<1>7. CASE recover_stale_executions
  BY <1>1, <1>7 DEF recover_stale_executions, Claimed
<1>8. CASE submit_batch \/ mark_submitted \/ Looks \/ delete_batch \/ resume_next
  BY <1>8, LooksUnchanged DEF submit_batch, mark_submitted, delete_batch, resume_next,
                              requestVars
<1>9. QED
  BY <1>2, <1>3, <1>4, <1>6, <1>7, <1>8, WorkerCases DEF Next, Ends

LEMMA ReportStep ==
    ASSUME Faults = {}, Inv, FaultFreeInv, Inv', [Next]_vars
    PROVE  ReportIsCurrent'
<1> SUFFICES ASSUME NEW o \in Ops, TableOf[o] \notin ExternalTables, state'[o] \in Claimed
             PROVE  Current(o)'
  BY DEF ReportIsCurrent, Current
<1>1. CASE claim_operation(o)
  <2>1. attempts'[o] = attempts[o] + 1 /\ attempts[o] \in Nat /\ attempts'[o] \in Attempts
    BY <1>1 DEF claim_operation, Inv, TypeOK, AttemptsLeft, Attempts
  <2>2. batch[o][attempts'[o]] = "absent"
    BY <2>1 DEF FaultFreeInv, PostedByAttempts
  <2>3. worker'.pc = "submit" /\ UNCHANGED batch
    BY <1>1 DEF claim_operation, Holding, livyVars
  <2>4. QED
    BY <2>2, <2>3 DEF Current
<1>2. CASE ~claim_operation(o)
  <2>1. state[o] \in Claimed
    BY <1>2, ClaimedStep
  <2>2. Current(o) /\ attempts[o] \in Attempts
    BY <2>1 DEF FaultFreeInv, ReportIsCurrent, Current, Inv, TypeOK, AttemptsLeft, Attempts
  <2>3. UNCHANGED attempts
    <3>1. worker.pc # "claim"
      BY <2>1 DEF Inv, ClaimedIsCarried, Busy
    <3>2. QED
      BY <3>1, OutsideClaim DEF claim_operation
  <2>4. CASE Api \/ Registry \/ Worker \/ crash \/ UNCHANGED vars
    <3>1. /\ UNCHANGED <<report, actual>>
          /\ \/ batch'[o][attempts[o]] = batch[o][attempts[o]]
             \/ /\ worker.pc \in {"submit", "kill_cancel", "kill_timeout"}
                /\ batch'[o][attempts[o]] \in {"starting", "killed"}
      BY <2>2, <2>4, OutsideEngine
    <3>2. ASSUME worker'.pc \in {"success", "verify", "finish", "write"}
          PROVE  o = worker'.op /\ worker'.att = attempts[o]
      BY <2>3, <3>2 DEF Inv, WorkerHolds, OneClaimed, Busy
    <3>3. CASE UNCHANGED worker \/ worker'.pc \notin {"success", "verify", "finish", "write"}
      BY <2>2, <2>3, <3>1, <3>3 DEF Current
    <3>4. CASE poll_batch /\ worker'.pc = "success"
      <4>1. batch'[o][attempts[o]] = "success"
        BY <3>2, <3>4 DEF Inv, WorkerHolds
      <4>2. QED
        BY <2>2, <2>3, <3>1, <3>4, <4>1 DEF Current
    <3>5. CASE result_from_logs /\ worker'.pc = "verify"
      <4>1. /\ worker.pc = "success" /\ worker'.op = worker.op /\ worker'.att = worker.att
            /\ worker'.after = report[worker.op][worker.att]
        BY <3>5 DEF result_from_logs, Goto, Inv, TypeOK, Worker_Type
      <4>2. QED
        BY <2>2, <2>3, <3>1, <3>2, <3>5, <4>1 DEF Current
    <3>6. CASE mark_verifying /\ worker'.pc = "finish"
      <4>1. worker.pc = "verify" /\ worker'.after = worker.after
        BY <3>6 DEF mark_verifying, Goto, Inv, TypeOK, Worker_Type
      <4>2. QED
        BY <2>2, <2>3, <3>1, <4>1 DEF Current
    <3>7. CASE load /\ worker'.pc = "write"
      <4>1. worker.pc = "finish" /\ worker'.after = worker.after
        BY <3>7 DEF load, Inv, TypeOK, Worker_Type
      <4>2. QED
        BY <2>2, <2>3, <3>1, <4>1 DEF Current
    <3>8. QED
      BY <3>3, <3>4, <3>5, <3>6, <3>7, ReachesResult
  <2>5. ASSUME NEW q \in Ops, NEW b \in Attempts, NEW from, NEW to,
               from \subseteq LiveStates, BatchIs(q, b, from, to), UNCHANGED worker,
               to = "success" => report'[q][b] = actual'[TableOf[q]]
        PROVE  Current(o)'
    <3>1. Live(q, b)
      BY <2>5 DEF BatchIs, Live
    <3>2. q = o /\ b = attempts[o] /\ worker.pc \notin {"success", "verify", "finish", "write"}
      BY <2>1, <3>1 DEF FaultFreeInv, LiveIsClaimed, Inv, OneClaimed
    <3>3. batch'[o][attempts[o]] = to
      BY <2>2, <2>5, <3>2 DEF BatchIs, Inv, TypeOK
    <3>4. QED
      BY <2>3, <2>5, <3>2, <3>3 DEF Current
  <2>6. ASSUME NEW t \in Tables, external_commit(t) PROVE Current(o)'
    BY <2>2, <2>3, <2>6 DEF external_commit, Current, Inv, TypeOK
  <2>7. ASSUME NEW q \in Ops, NEW b \in Attempts, emit_result(q, b)
        PROVE  report'[q][b] = actual'[TableOf[q]]
    BY <2>7 DEF emit_result, Inv, TypeOK
  <2>8. CASE Engine
    BY <2>5, <2>6, <2>7, <2>8 DEF Engine, check_snapshot, run_procedure, emit_result,
                                  batch_dies, LiveStates
  <2>9. QED
    BY <2>4, <2>8 DEF Next
<1>3. QED
  BY <1>1, <1>2

-----------------------------------------------------------------------------
LEMMA FaultFreeInit == Init => FaultFreeInv
BY DEF Init, FaultFreeInv, LiveIsClaimed, PostedByAttempts, SubmittedOnce, CheckedOnPlan,
       ReportIsCurrent, Live, LiveStates, Claimed, IdleWorker, Holding

(***************************************************************************)
(* While no batch is abandoned, batches, worker and registry agree.        *)
(***************************************************************************)
THEOREM FaultFreeInvariance ==
    ASSUME Faults = {} PROVE Spec => [](Inv /\ FaultFreeInv)
<1>1. Init => Inv /\ FaultFreeInv
  BY InitInv, FaultFreeInit
<1>2. Inv /\ FaultFreeInv /\ [Next]_vars => (Inv /\ FaultFreeInv)'
  BY InvStep, LiveStep, PostedStep, SubmittedStep, CheckedStep, ReportStep DEF FaultFreeInv
<1>3. QED
  BY <1>1, <1>2, PTL DEF Spec

\* README.md's promise: the executions of a table never run concurrently.
THEOREM NoConcurrentBatchesTheorem ==
    ASSUME Faults = {} PROVE Spec => []NoConcurrentBatches
<1>1. Inv /\ FaultFreeInv => NoConcurrentBatches
  BY OneLive DEF FaultFreeInv, NoConcurrentBatches
<1>2. QED
  BY <1>1, FaultFreeInvariance, PTL

\* A table that only this system writes changes from the planned snapshot.
THEOREM CommitsOnPlanTheorem ==
    ASSUME Faults = {} PROVE Spec => CommitsOnPlan
<1> DEFINE OnPlan == \A o \in Ops, a \in Attempts :
                        /\ TableOf[o] \notin ExternalTables
                        /\ batch[o][a] = "checked"
                        /\ batch'[o][a] = "committed"
                        => actual[TableOf[o]] = expected[o][a]
<1>1. Inv /\ FaultFreeInv => [OnPlan]_vars
  BY DEF FaultFreeInv, CheckedOnPlan
<1>2. QED
  BY <1>1, FaultFreeInvariance, PTL DEF CommitsOnPlan

\* mark_succeeded leaves the registry on the snapshot the table is on, but
\* for an inspection recorded after its read of a row that was already right.
THEOREM RecordsTheorem ==
    ASSUME Faults = {} PROVE Spec => SuccessRecordsSnapshot
<1> DEFINE Records == \A o \in Ops :
         LET t == TableOf[o]
         IN  /\ t \notin ExternalTables
             /\ state[o] # "SUCCEEDED"
             /\ state'[o] = "SUCCEEDED"
             => \/ recorded'[t] = actual'[t]
                \/ worker.loaded = actual[t] /\ recorded[t] # worker.loaded
<1>1. ASSUME Inv /\ FaultFreeInv, [Next]_vars PROVE [Records]_vars
  <2> SUFFICES ASSUME NEW o \in Ops, TableOf[o] \notin ExternalTables,
                      state[o] # "SUCCEEDED", state'[o] = "SUCCEEDED"
               PROVE  \/ recorded'[TableOf[o]] = actual'[TableOf[o]]
                      \/ /\ worker.loaded = actual[TableOf[o]]
                         /\ recorded[TableOf[o]] # worker.loaded
    OBVIOUS
  <2>1. CASE mark_succeeded
    <3>1. /\ worker.pc = "write" /\ worker.op \in Ops /\ state[worker.op] \in Claimed
          /\ state' = [state EXCEPT ![worker.op] = "SUCCEEDED"]
          /\ recorded' = [recorded EXCEPT ![TableOf[worker.op]] =
                             IF worker.after = worker.loaded THEN @ ELSE worker.after]
          /\ UNCHANGED actual
      BY <1>1, <2>1 DEF mark_succeeded, Conclude, livyVars, Inv, WorkerHolds, Busy
    <3>2. o = worker.op
      BY <3>1, <1>1 DEF Inv, TypeOK
    <3>3. worker.after = actual[TableOf[o]]
      BY <1>1, <3>1, <3>2 DEF FaultFreeInv, ReportIsCurrent
    <3>4. recorded'[TableOf[o]] = IF worker.after = worker.loaded
                                  THEN recorded[TableOf[o]] ELSE worker.after
      BY <1>1, <3>1, <3>2 DEF Inv, TypeOK
    <3>5. QED
      BY <3>1, <3>3, <3>4
  <2>2. CASE mark_failed \/ mark_canceled \/ mark_verifying
    BY <1>1, <2>2 DEF mark_failed, mark_canceled, mark_verifying, Conclude, Inv, TypeOK
  <2>3. ASSUME NEW q \in Ops, claim_operation(q) PROVE FALSE
    BY <1>1, <2>3 DEF claim_operation, Inv, TypeOK
  <2>4. CASE Api \/ recover_stale_executions
    BY <1>1, <2>4 DEF Api, create_operation, decide_operation, retry_operation,
                      cancel_operation, recover_stale_executions, Inv, TypeOK
  <2>5. CASE Registry \/ crash \/ Engine \/ UNCHANGED vars
    BY <2>5 DEF Registry, inspect_table, sync_inspected_table, crash, vars, requestVars,
                Engine, check_snapshot, run_procedure, emit_result, batch_dies,
                external_commit
  <2>6. CASE submit_batch \/ mark_submitted \/ Looks \/ delete_batch \/ resume_next
    BY <2>6, LooksUnchanged DEF submit_batch, mark_submitted, delete_batch, resume_next,
                                requestVars
  <2>7. QED
    BY <1>1, <2>1, <2>2, <2>3, <2>4, <2>5, <2>6, WorkerCases DEF Next, Ends
<1>2. QED
  BY <1>1, FaultFreeInvariance, PTL DEF SuccessRecordsSnapshot, Spec
=============================================================================
