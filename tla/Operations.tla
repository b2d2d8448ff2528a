----------------------------- MODULE Operations -----------------------------
(***************************************************************************)
(* The life of a maintenance request: created and decided through the REST *)
(* API (backend/app/services.py), executed by the one Spark operation      *)
(* worker of a deployment (backend/app/worker.py) through Apache Livy      *)
(* (backend/app/executors.py), as a Spark batch that checks the planned    *)
(* snapshot and then changes the table (spark-jobs/iceberg_maintenance.py).*)
(*                                                                         *)
(* One action is one database transaction or one HTTP exchange.  Handlers  *)
(* that select the request row FOR UPDATE are single actions.  The         *)
(* worker's mark_* transactions read their rows unlocked, and a column     *)
(* assigned the value it was read with is left out of the UPDATE.  Only    *)
(* for the registry's snapshot can the two differ, so mark_succeeded reads *)
(* it in a step of its own (load).  The states that mark_* assign either   *)
(* differ from what can have been read, or (a resumed VERIFYING request)   *)
(* leave what a cancellation just after the write would leave.  The row's  *)
(* version counter is not modelled.                                        *)
(***************************************************************************)
EXTENDS Naturals, FiniteSets

CONSTANTS
    Ops,              \* operation requests (rows of operation_requests)
    Tables,           \* managed tables
    TableOf,          \* the table of each request
    SparkOps,         \* requests the Spark worker's claim query selects:
                      \* preferred engine AUTO or SPARK, catalog in its scope
    Users,            \* requesters and approvers, as they spell themselves
    Casefold,         \* str.casefold of each user name
    Requester,        \* who files each request
    Snapshots,        \* Iceberg snapshot ids
    ExternalTables,   \* tables that writers outside this system also commit to
    InspectedTables,  \* tables whose registry row is refreshed by an inspection
    Faults,           \* the failures, among FaultKinds, that may leave a batch
                      \* running after the worker has given it up
    MaxAttempts,      \* bound on the executions of one request
    MaxCrashes,       \* bound on the crashes of the worker process
    None              \* SQL NULL, or no row

FaultKinds == {"post", "crash", "poll", "delete", "database"}

ASSUME ConstantsAssumption ==
    /\ TableOf \in [Ops -> Tables]
    /\ SparkOps \subseteq Ops
    /\ DOMAIN Casefold = Users
    /\ Requester \in [Ops -> Users]
    /\ ExternalTables \subseteq Tables
    /\ InspectedTables \subseteq Tables
    /\ Faults \subseteq FaultKinds
    /\ MaxAttempts \in Nat \ {0}
    /\ MaxCrashes \in Nat
    /\ None \notin Ops /\ None \notin Users /\ None \notin Snapshots

VARIABLES
    state,      \* operation_requests.state; "ABSENT" before the row exists
    planned,    \* operation_requests.planned_snapshot_id
    approver,   \* the approver of the request's APPROVED approvals row
    lock,       \* operation_table_locks: table -> operation_request_id
    attempts,   \* the highest attempt of the request's executions
    execution,  \* operation_executions.state, by request and attempt
    external_id,\* whether the execution's Livy batch id is recorded
    expected,   \* operation_executions.planned_snapshot_id, which the Spark
                \* job is given as its --expected-snapshot-id
    recorded,   \* managed_tables.current_snapshot_id
    inspected,  \* snapshot an inspection has read and not yet written
    worker,     \* the worker process: where it is, and what it executes
    batch,      \* Livy batch states, by the request and attempt that posted them
    report,     \* the snapshot in the result marker of a batch's log
    actual,     \* the table's current snapshot in its Iceberg catalog
    crashes     \* how often the worker process has died

requestVars == <<state, planned, approver, lock>>
executionVars == <<attempts, execution, external_id, expected>>
tableVars == <<recorded, inspected>>
livyVars == <<batch, report, actual>>
vars == <<requestVars, executionVars, tableVars, worker, livyVars, crashes>>

Attempts == 1..MaxAttempts

\* Requests that the docs call active: approved and not yet terminal.
Claimed == {"RUNNING", "VERIFYING", "CANCEL_REQUESTED"}
Active == {"QUEUED"} \cup Claimed
Terminal == {"SUCCEEDED", "FAILED", "REJECTED", "CANCELED"}
States == {"ABSENT", "WAITING_APPROVAL"} \cup Active \cup Terminal

ExecutionStates == {"ABSENT", "RUNNING", "VERIFYING", "SUCCEEDED", "FAILED", "CANCELED"}

LiveStates == {"starting", "checked", "committed"}
BatchStates == {"absent"} \cup LiveStates \cup {"success", "dead", "killed"}

\* Where the worker can be while it holds an execution in hand.
Busy == {"submit", "record", "wait", "poll", "kill_cancel", "kill_timeout",
         "success", "dead", "killed", "verify", "finish", "write", "fail", "cancel"}

\* Where it can be between two executions, once recovery is over.
Polling == {"idle", "claim", "asleep"}

\* The worker at pc with attempt a of request o and nothing read yet.
Holding(pc, o, a) == [pc |-> pc, op |-> o, att |-> a, after |-> None, loaded |-> None]

IdleWorker == Holding("idle", None, None)

Init ==
    /\ state = [o \in Ops |-> "ABSENT"]
    /\ planned = [o \in Ops |-> None]
    /\ approver = [o \in Ops |-> None]
    /\ lock = [t \in Tables |-> None]
    /\ attempts = [o \in Ops |-> 0]
    /\ execution = [o \in Ops |-> [a \in Attempts |-> "ABSENT"]]
    /\ external_id = [o \in Ops |-> [a \in Attempts |-> FALSE]]
    /\ expected = [o \in Ops |-> [a \in Attempts |-> None]]
    /\ actual \in [Tables -> Snapshots]
    /\ recorded = actual
    /\ inspected = [t \in Tables |-> None]
    /\ worker = IdleWorker
    /\ batch = [o \in Ops |-> [a \in Attempts |-> "absent"]]
    /\ report = [o \in Ops |-> [a \in Attempts |-> None]]
    /\ crashes = 0

-----------------------------------------------------------------------------
(***************************************************************************)
(* Table execution lock                                                    *)
(***************************************************************************)

\* Wrong variant: the request's own state is all that is looked at.
LockIgnored(o) == TRUE

\* No other request owns the lock of o's table.
LockAvailable(o) == lock[TableOf[o]] \in {None, o}

LockTaken(o) == [lock EXCEPT ![TableOf[o]] = o]

\* Wrong variant: the DELETE of the lock row is forgotten.
LocksKept(S) == lock

\* DELETE FROM operation_table_locks WHERE operation_request_id IN S.
LocksReleased(S) == [t \in Tables |-> IF lock[t] \in S THEN None ELSE lock[t]]

-----------------------------------------------------------------------------
(***************************************************************************)
(* REST API: the methods of OperationsService                              *)
(***************************************************************************)

\* The plan fixes the snapshot the registry holds for the table.
create_operation(o) ==
    /\ state[o] = "ABSENT"
    /\ state' = [state EXCEPT ![o] = "WAITING_APPROVAL"]
    /\ planned' = [planned EXCEPT ![o] = recorded[TableOf[o]]]
    /\ UNCHANGED <<approver, lock, executionVars, tableVars, worker, livyVars, crashes>>

\* Wrong variant: names compared as they are spelled.
SameSpelling(o, u) == Requester[o] = u

SamePerson(o, u) == Casefold[Requester[o]] = Casefold[u]

\* A losing insert of the lock row rolls the whole decision back: no step.
decide_operation(o, u, decision) ==
    /\ state[o] = "WAITING_APPROVAL"
    /\ ~SamePerson(o, u)
    /\ \/ /\ decision = "APPROVED"
          /\ LockAvailable(o)
          /\ lock' = LockTaken(o)
          /\ approver' = [approver EXCEPT ![o] = u]
          /\ state' = [state EXCEPT ![o] = "QUEUED"]
       \/ /\ decision = "REJECTED"
          /\ state' = [state EXCEPT ![o] = "REJECTED"]
          /\ UNCHANGED <<lock, approver>>
    /\ UNCHANGED <<planned, executionVars, tableVars, worker, livyVars, crashes>>

\* Wrong variant: a canceled request can be retried too.
RetryableWhenEnded(o) == state[o] \in {"FAILED", "CANCELED"}

Retryable(o) == state[o] = "FAILED"

\* The retry plans again from the registry.  MaxAttempts bounds the users.
retry_operation(o) ==
    /\ Retryable(o)
    /\ attempts[o] < MaxAttempts
    /\ LockAvailable(o)
    /\ lock' = LockTaken(o)
    /\ state' = [state EXCEPT ![o] = "QUEUED"]
    /\ planned' = [planned EXCEPT ![o] = recorded[TableOf[o]]]
    /\ UNCHANGED <<approver, executionVars, tableVars, worker, livyVars, crashes>>

\* What is not yet claimed is canceled at once; what is, is asked to stop.
cancel_operation(o) ==
    /\ \/ /\ state[o] \in {"WAITING_APPROVAL", "QUEUED"}
          /\ state' = [state EXCEPT ![o] = "CANCELED"]
          /\ lock' = LocksReleased({o})
       \/ /\ state[o] \in Claimed
          /\ state' = [state EXCEPT ![o] = "CANCEL_REQUESTED"]
          /\ UNCHANGED lock
    /\ UNCHANGED <<planned, approver, executionVars, tableVars, worker, livyVars, crashes>>

Api ==
    \E o \in Ops :
        \/ create_operation(o)
        \/ \E u \in Users, d \in {"APPROVED", "REJECTED"} : decide_operation(o, u, d)
        \/ retry_operation(o)
        \/ cancel_operation(o)

-----------------------------------------------------------------------------
(***************************************************************************)
(* Registry: an inspection reads the table through the Spark runner, and   *)
(* later writes what it read into the managed_tables row (when that is     *)
(* what the row held as it was read, sync_inspected_table writes nothing,  *)
(* as if it had written at that moment).                                   *)
(***************************************************************************)
inspect_table(t) ==
    /\ t \in InspectedTables
    /\ inspected' = [inspected EXCEPT ![t] = actual[t]]
    /\ UNCHANGED <<requestVars, executionVars, recorded, worker, livyVars, crashes>>

sync_inspected_table(t) ==
    /\ inspected[t] # None
    /\ recorded' = [recorded EXCEPT ![t] = inspected[t]]
    /\ inspected' = [inspected EXCEPT ![t] = None]
    /\ UNCHANGED <<requestVars, executionVars, worker, livyVars, crashes>>

Registry == \E t \in Tables : inspect_table(t) \/ sync_inspected_table(t)

-----------------------------------------------------------------------------
(***************************************************************************)
(* The worker process                                                      *)
(***************************************************************************)
InFlight(o, a) == execution[o][a] \in {"RUNNING", "VERIFYING"}

Live(o, a) == batch[o][a] \in LiveStates

\* The executor's cancellation callback: a read of the request's state.
cancellation_requested(o) == state[o] \in {"CANCEL_REQUESTED", "CANCELED"}

Goto(pc) == worker' = [worker EXCEPT !.pc = pc]

\* A failure of kind f that leaves the batch in hand behind: harmless when
\* the batch has ended, otherwise possible only among the model's Faults.
MayAbandon(f) == f \in Faults \/ ~Live(worker.op, worker.att)

\* The probe of Livy has succeeded: only now is the queue looked at.
refresh_idle_heartbeat ==
    /\ worker.pc = "idle"
    /\ Goto("claim")
    /\ UNCHANGED <<requestVars, executionVars, tableVars, livyVars, crashes>>

\* The probe has failed, or the claim has raised or found no row that is
\* claimable and not locked: the worker sleeps, and starts over.
poll_later ==
    /\ \/ worker.pc \in {"idle", "claim"} /\ Goto("asleep")
       \/ worker.pc = "asleep" /\ Goto("idle")
    /\ UNCHANGED <<requestVars, executionVars, tableVars, livyVars, crashes>>

\* Oldest first among the rows not locked at the moment (SKIP LOCKED): any
\* claimable request may be the one.
claim_operation(o) ==
    /\ worker.pc = "claim"
    /\ state[o] = "QUEUED"
    /\ o \in SparkOps
    /\ LockAvailable(o)
    /\ lock' = LockTaken(o)
    /\ attempts' = [attempts EXCEPT ![o] = @ + 1]
    /\ execution' = [execution EXCEPT ![o][attempts[o] + 1] = "RUNNING"]
    /\ expected' = [expected EXCEPT ![o][attempts[o] + 1] = planned[o]]
    /\ state' = [state EXCEPT ![o] = "RUNNING"]
    /\ worker' = Holding("submit", o, attempts[o] + 1)
    /\ UNCHANGED <<planned, approver, external_id, tableVars, livyVars, crashes>>

claim == \E o \in Ops : claim_operation(o)

\* POST /batches: accepted, or refused before Livy created a batch, or
\* accepted with the response lost.
submit_batch ==
    /\ worker.pc = "submit"
    /\ \/ /\ Goto("record")
          /\ batch' = [batch EXCEPT ![worker.op][worker.att] = "starting"]
       \/ /\ Goto("fail")
          /\ UNCHANGED batch
       \/ /\ "post" \in Faults
          /\ Goto("fail")
          /\ batch' = [batch EXCEPT ![worker.op][worker.att] = "starting"]
    /\ UNCHANGED <<requestVars, executionVars, tableVars, report, actual, crashes>>

\* The transaction that writes the batch id; an error of the database, here
\* and in wait_for_batch, is caught by execute_claim and ends the execution.
mark_submitted ==
    /\ worker.pc = "record"
    /\ \/ /\ external_id' = [external_id EXCEPT ![worker.op][worker.att] = TRUE]
          /\ Goto("wait")
       \/ /\ MayAbandon("database")
          /\ Goto("fail")
          /\ UNCHANGED external_id
    /\ UNCHANGED <<requestVars, attempts, execution, expected, tableVars, livyVars, crashes>>

\* Head of the wait_for_batch loop: the last batch state seen is not terminal.
wait_for_batch ==
    /\ worker.pc = "wait"
    /\ \/ cancellation_requested(worker.op) /\ Goto("kill_cancel")
       \/ ~cancellation_requested(worker.op) /\ Goto("poll")
       \/ MayAbandon("database") /\ Goto("fail")
    /\ UNCHANGED <<requestVars, executionVars, tableVars, livyVars, crashes>>

\* The deadline has passed when the head of the loop looks at the clock.
deadline_passed ==
    /\ worker.pc = "wait"
    /\ ~cancellation_requested(worker.op)
    /\ Goto("kill_timeout")
    /\ UNCHANGED <<requestVars, executionVars, tableVars, livyVars, crashes>>

\* Wrong variant: giving up without the DELETE.
abandon_batch ==
    /\ worker.pc \in {"kill_cancel", "kill_timeout"}
    /\ Goto(IF worker.pc = "kill_cancel" THEN "cancel" ELSE "fail")
    /\ UNCHANGED <<requestVars, executionVars, tableVars, livyVars, crashes>>

\* DELETE /batches/{id}; its errors are swallowed.
delete_batch ==
    /\ worker.pc \in {"kill_cancel", "kill_timeout"}
    /\ \/ batch' = IF Live(worker.op, worker.att)
                   THEN [batch EXCEPT ![worker.op][worker.att] = "killed"]
                   ELSE batch
       \/ MayAbandon("delete") /\ UNCHANGED batch
    /\ Goto(IF worker.pc = "kill_cancel" THEN "cancel" ELSE "fail")
    /\ UNCHANGED <<requestVars, executionVars, tableVars, report, actual, crashes>>

\* GET /batches/{id}, in the loop or first thing in resume; an error ends
\* the execution.
poll_batch ==
    /\ worker.pc = "poll"
    /\ \/ Goto(IF Live(worker.op, worker.att) THEN "wait"
               ELSE batch[worker.op][worker.att])
       \/ MayAbandon("poll") /\ Goto("fail")
    /\ UNCHANGED <<requestVars, executionVars, tableVars, livyVars, crashes>>

\* Wrong variant: the result is not taken out of the log.
result_unread ==
    /\ worker.pc = "success"
    /\ Goto("verify")
    /\ UNCHANGED <<requestVars, executionVars, tableVars, livyVars, crashes>>

\* The batch has succeeded: its result is in the log, unless the log cannot
\* be read or does not show the marker within the lines fetched.
result_from_logs ==
    /\ worker.pc = "success"
    /\ \/ worker' = [worker EXCEPT !.pc = "verify",
                                   !.after = report[worker.op][worker.att]]
       \/ Goto("fail")
    /\ UNCHANGED <<requestVars, executionVars, tableVars, livyVars, crashes>>

\* The batch has failed: a killed one whose cancellation was requested is a
\* cancellation (unless the log cannot be read), everything else a failure.
batch_failed ==
    /\ worker.pc \in {"dead", "killed"}
    /\ \/ worker.pc = "killed" /\ cancellation_requested(worker.op) /\ Goto("cancel")
       \/ Goto("fail")
    /\ UNCHANGED <<requestVars, executionVars, tableVars, livyVars, crashes>>

mark_verifying ==
    /\ worker.pc = "verify"
    /\ execution' = [execution EXCEPT ![worker.op][worker.att] = "VERIFYING"]
    /\ state' = [state EXCEPT ![worker.op] = "VERIFYING"]
    /\ Goto("finish")
    /\ UNCHANGED <<planned, approver, lock, attempts, external_id, expected, tableVars,
                   livyVars, crashes>>

\* What the three mark_* transactions that end an execution share.
Conclude(outcome) ==
    /\ execution' = [execution EXCEPT ![worker.op][worker.att] = outcome]
    /\ state' = [state EXCEPT ![worker.op] = outcome]
    /\ lock' = LocksReleased({worker.op})
    /\ worker' = [IdleWorker EXCEPT !.pc = "next"]
    /\ UNCHANGED <<planned, approver, attempts, external_id, expected, inspected,
                   livyVars, crashes>>

\* mark_succeeded reads the request and, unlocked, its table's row.
load ==
    /\ worker.pc = "finish"
    /\ worker' = [worker EXCEPT !.pc = "write", !.loaded = recorded[TableOf[worker.op]]]
    /\ UNCHANGED <<requestVars, executionVars, tableVars, livyVars, crashes>>

\* Wrong variant: the registry keeps the snapshot of the plan.
succeed_unrecorded ==
    /\ worker.pc = "write"
    /\ Conclude("SUCCEEDED")
    /\ UNCHANGED recorded

\* The UPDATE leaves current_snapshot_id out when it is the one read.
mark_succeeded ==
    /\ worker.pc = "write"
    /\ Conclude("SUCCEEDED")
    /\ recorded' = [recorded EXCEPT ![TableOf[worker.op]] =
           IF worker.after = worker.loaded THEN @ ELSE worker.after]

\* mark_verifying or mark_succeeded raises: an error of the database, or
\* verify_result finds that the before and after states do not agree.
marking_raises ==
    /\ worker.pc \in {"verify", "finish", "write"}
    /\ Goto("fail")
    /\ UNCHANGED <<requestVars, executionVars, tableVars, livyVars, crashes>>

mark_failed ==
    /\ worker.pc = "fail"
    /\ Conclude("FAILED")
    /\ UNCHANGED recorded

mark_canceled ==
    /\ worker.pc = "cancel"
    /\ Conclude("CANCELED")
    /\ UNCHANGED recorded


\* Back from execute_claim: recovery attaches to the next execution still in
\* flight, and the run loop starts claiming when there is none.
resume_next ==
    /\ worker.pc = "next"
    /\ \/ \E o \in Ops, a \in Attempts :
             /\ InFlight(o, a)
             /\ worker' = Holding("poll", o, a)
       \/ /\ \A o \in Ops, a \in Attempts : ~InFlight(o, a)
          /\ Goto("idle")
    /\ UNCHANGED <<requestVars, executionVars, tableVars, livyVars, crashes>>

\* The process dies.  Between the POST and mark_submitted it takes the
\* batch id with it.
crash ==
    /\ worker.pc # "down"
    /\ crashes < MaxCrashes
    /\ worker.pc = "record" => MayAbandon("crash")
    /\ worker' = [IdleWorker EXCEPT !.pc = "down"]
    /\ crashes' = crashes + 1
    /\ UNCHANGED <<requestVars, executionVars, tableVars, livyVars>>

\* A new process has a new WORKER_ID, so every execution in flight is
\* another worker's: with a batch id it is attached to, without one it fails.
Unsubmitted(o, a) == InFlight(o, a) /\ ~external_id[o][a]

\* Wrong variant: only the execution is failed, the request is forgotten.
recover_executions_only ==
    /\ worker.pc = "down"
    /\ execution' = [o \in Ops |-> [a \in Attempts |->
           IF Unsubmitted(o, a) THEN "FAILED" ELSE execution[o][a]]]
    /\ Goto("next")
    /\ UNCHANGED <<requestVars, attempts, external_id, expected, tableVars, livyVars, crashes>>

recover_stale_executions ==
    /\ worker.pc = "down"
    /\ LET failed == {o \in Ops : \E a \in Attempts : Unsubmitted(o, a)}
       IN  /\ state' = [o \in Ops |-> IF o \in failed THEN "FAILED" ELSE state[o]]
           /\ lock' = LocksReleased(failed)
    /\ execution' = [o \in Ops |-> [a \in Attempts |->
           IF Unsubmitted(o, a) THEN "FAILED" ELSE execution[o][a]]]
    /\ Goto("next")
    /\ UNCHANGED <<planned, approver, attempts, external_id, expected, tableVars,
                   livyVars, crashes>>

Worker ==
    \/ refresh_idle_heartbeat \/ poll_later \/ claim
    \/ submit_batch \/ mark_submitted
    \/ wait_for_batch \/ deadline_passed \/ delete_batch \/ poll_batch
    \/ result_from_logs \/ batch_failed
    \/ mark_verifying \/ load \/ mark_succeeded \/ marking_raises
    \/ mark_failed \/ mark_canceled
    \/ resume_next \/ recover_stale_executions

-----------------------------------------------------------------------------
(***************************************************************************)
(* The Spark batch, and the other writers of the table                     *)
(***************************************************************************)
BatchIs(o, a, from, to) ==
    /\ batch[o][a] \in from
    /\ batch' = [batch EXCEPT ![o][a] = to]

\* Wrong variant: the job starts the procedure whatever the snapshot is.
start_procedure(o, a) ==
    /\ BatchIs(o, a, {"starting"}, "checked")
    /\ UNCHANGED <<requestVars, executionVars, tableVars, worker, report, actual, crashes>>

\* main() compares the table's snapshot with --expected-snapshot-id.
check_snapshot(o, a) ==
    /\ BatchIs(o, a, {"starting"},
               IF actual[TableOf[o]] = expected[o][a] THEN "checked" ELSE "dead")
    /\ UNCHANGED <<requestVars, executionVars, tableVars, worker, report, actual, crashes>>

\* The procedure leaves the table on a new snapshot (rewrites), on the same
\* one (expiration, orphan files, statistics) or on an older one (rollback).
run_procedure(o, a) ==
    /\ BatchIs(o, a, {"checked"}, "committed")
    /\ \E s \in Snapshots : actual' = [actual EXCEPT ![TableOf[o]] = s]
    /\ UNCHANGED <<requestVars, executionVars, tableVars, worker, report, crashes>>

\* Wrong variant: the marker has the state before the procedure.
emit_state_before(o, a) ==
    /\ BatchIs(o, a, {"committed"}, "success")
    /\ report' = [report EXCEPT ![o][a] = expected[o][a]]
    /\ UNCHANGED <<requestVars, executionVars, tableVars, worker, actual, crashes>>

\* emit_result writes the marker with the state the table is in now.
emit_result(o, a) ==
    /\ BatchIs(o, a, {"committed"}, "success")
    /\ report' = [report EXCEPT ![o][a] = actual[TableOf[o]]]
    /\ UNCHANGED <<requestVars, executionVars, tableVars, worker, actual, crashes>>

\* The Spark application fails, or someone kills it in the cluster.
batch_dies(o, a) ==
    /\ \E to \in {"dead", "killed"} : BatchIs(o, a, LiveStates, to)
    /\ UNCHANGED <<requestVars, executionVars, tableVars, worker, report, actual, crashes>>

external_commit(t) ==
    /\ t \in ExternalTables
    /\ \E s \in Snapshots : actual' = [actual EXCEPT ![t] = s]
    /\ UNCHANGED <<requestVars, executionVars, tableVars, worker, batch, report, crashes>>

Engine ==
    \/ \E o \in Ops, a \in Attempts :
          \/ check_snapshot(o, a) \/ run_procedure(o, a)
          \/ emit_result(o, a) \/ batch_dies(o, a)
    \/ \E t \in Tables : external_commit(t)

Next == Api \/ Registry \/ Worker \/ crash \/ Engine

Spec == Init /\ [][Next]_vars

(***************************************************************************)
(* The worker keeps running (restart: unless-stopped) and each of its      *)
(* requests ends within its client timeout, so it always takes its next    *)
(* step; the monotonic clock passes the deadline, so a loop that keeps     *)
(* coming back to its head ends.  Nothing is assumed of users, of Livy     *)
(* (whose probe may fail for ever) and its batches, or of the inspections. *)
(***************************************************************************)
FairSpec == Spec /\ WF_vars(Worker) /\ SF_vars(deadline_passed)

-----------------------------------------------------------------------------
(***************************************************************************)
(* Properties                                                              *)
(***************************************************************************)
Worker_Type ==
    [pc : {"down", "next"} \cup Polling \cup Busy, op : Ops \cup {None},
     att : Attempts \cup {None}, after : Snapshots \cup {None},
     loaded : Snapshots \cup {None}]

\* Every column and every field holds a value of its kind.
TypeOK ==
    /\ state \in [Ops -> States]
    /\ planned \in [Ops -> Snapshots \cup {None}]
    /\ approver \in [Ops -> Users \cup {None}]
    /\ lock \in [Tables -> Ops \cup {None}]
    /\ attempts \in [Ops -> 0..MaxAttempts]
    /\ execution \in [Ops -> [Attempts -> ExecutionStates]]
    /\ external_id \in [Ops -> [Attempts -> BOOLEAN]]
    /\ expected \in [Ops -> [Attempts -> Snapshots \cup {None}]]
    /\ recorded \in [Tables -> Snapshots]
    /\ inspected \in [Tables -> Snapshots \cup {None}]
    /\ worker \in Worker_Type
    /\ batch \in [Ops -> [Attempts -> BatchStates]]
    /\ report \in [Ops -> [Attempts -> Snapshots \cup {None}]]
    /\ actual \in [Tables -> Snapshots]
    /\ crashes \in 0..MaxCrashes

(***************************************************************************)
(* A request owns the execution lock of its table exactly while it is      *)
(* approved and not terminal (decide_operation inserts the row; whoever    *)
(* ends the request, service, worker or recovery, deletes it).  So at most *)
(* one request of a table is active, and no ended request blocks it.       *)
(***************************************************************************)
LockIffActive ==
    \A o \in Ops : state[o] \in Active <=> lock[TableOf[o]] = o

(***************************************************************************)
(* A claimed request is never left without anybody to end it: its latest   *)
(* execution, and no other in the whole system, is in flight, and the      *)
(* worker has it in hand, or the next process will find it in recovery.    *)
(***************************************************************************)
ClaimedIsCarried ==
    /\ \A o \in Ops, a \in Attempts :
          InFlight(o, a) <=> state[o] \in Claimed /\ a = attempts[o]
    /\ \A o \in Ops : state[o] \in Claimed =>
          \/ worker.pc \in Busy /\ worker.op = o /\ worker.att = attempts[o]
          \/ worker.pc \in {"down", "next"} /\ worker.op = None

(***************************************************************************)
(* Nothing is executed that was not approved by someone other than its     *)
(* requester, however either of them spells the name; retries and          *)
(* recoveries included.                                                    *)
(***************************************************************************)
SeparationOfDuties ==
    \A o \in Ops : attempts[o] > 0 =>
        /\ approver[o] # None
        /\ Casefold[approver[o]] # Casefold[Requester[o]]

(***************************************************************************)
(* README.md: the table lock keeps executions from running concurrently.   *)
(* Of all the batches of a table, over all requests and attempts, at most  *)
(* one is live in the cluster.                                             *)
(***************************************************************************)
NoConcurrentBatches ==
    \A o1, o2 \in Ops : \A a1, a2 \in Attempts :
        /\ TableOf[o1] = TableOf[o2]
        /\ Live(o1, a1)
        /\ Live(o2, a2)
        => o1 = o2 /\ a1 = a2

(***************************************************************************)
(* A request whose plan was made on another snapshot changes nothing: when *)
(* a batch changes a table only this system writes, the table is still on  *)
(* the snapshot the execution was planned for.                             *)
(***************************************************************************)
CommitsOnPlan ==
    [][\A o \in Ops, a \in Attempts :
         /\ TableOf[o] \notin ExternalTables
         /\ batch[o][a] = "checked"
         /\ batch'[o][a] = "committed"
         => actual[TableOf[o]] = expected[o][a]]_vars

(***************************************************************************)
(* When mark_succeeded reports success, the registry holds the snapshot    *)
(* the table is really on, so that the next request can be planned from it *)
(* (tables only this system writes).  One case is left to inspections: the *)
(* row held that snapshot when mark_succeeded read it, and an inspection   *)
(* of an older state has been recorded since.                              *)
(***************************************************************************)
SuccessRecordsSnapshot ==
    [][\A o \in Ops :
         LET t == TableOf[o]
         IN  /\ t \notin ExternalTables
             /\ state[o] # "SUCCEEDED"
             /\ state'[o] = "SUCCEEDED"
             => \/ recorded'[t] = actual'[t]
                \/ worker.loaded = actual[t] /\ recorded[t] # worker.loaded]_vars

(***************************************************************************)
(* A request that has ended stays as it ended; only a failed one comes     *)
(* back, by a retry.  Late answers, recoveries and crossing cancellations  *)
(* do not revive it.                                                       *)
(***************************************************************************)
EndedStaysEnded ==
    [][\A o \in Ops : state[o] \in Terminal /\ state'[o] # state[o]
                      => state[o] = "FAILED" /\ state'[o] = "QUEUED"]_vars

(***************************************************************************)
(* The requests of a table are active one at a time: Operations implements *)
(* TableSerialization, with the lock and the worker hidden.                *)
(***************************************************************************)
Status(s) ==
    CASE s = "ABSENT" -> "absent"
      [] s = "WAITING_APPROVAL" -> "pending"
      [] s \in Active -> "active"
      [] s = "FAILED" -> "failed"
      [] s \in {"SUCCEEDED", "REJECTED", "CANCELED"} -> "closed"

Serialization == INSTANCE TableSerialization
    WITH Requests <- Ops, status <- [o \in Ops |-> Status(state[o])]

ImplementsSerialization == Serialization!Spec

(***************************************************************************)
(* README: a request whose recorded snapshot is not the table's fails      *)
(* before it changes anything.  As long as no batch is abandoned and on    *)
(* the tables only this system writes, each execution acts on its table in *)
(* one step, on the snapshot of its plan, and what its batch reports is    *)
(* the state that step has left: Operations implements ConditionalCommits, *)
(* with worker, lock and batches hidden.                                   *)
(***************************************************************************)
PromisedTables == Tables \ ExternalTables
Executions == {o \in Ops : TableOf[o] \in PromisedTables} \X Attempts

PromisedTable == [t \in PromisedTables |-> actual[t]]

PromisedCallOf(o, a) ==
    CASE batch[o][a] \in {"starting", "checked"} -> [phase |-> "asked", snapshot |-> expected[o][a]]
      [] batch[o][a] = "committed" -> [phase |-> "acted", snapshot |-> actual[TableOf[o]]]
      [] batch[o][a] = "success" -> [phase |-> "acted", snapshot |-> report[o][a]]
      [] batch[o][a] = "absent" -> [phase |-> "none", snapshot |-> None]
      [] OTHER -> [phase |-> "over", snapshot |-> None]

PromisedCall == [e \in Executions |-> PromisedCallOf(e[1], e[2])]

Promise == INSTANCE ConditionalCommits
    WITH Calls <- Executions, Tables <- PromisedTables, Shared <- {}, Reused <- {}, NoPlan <- None,
         TableOf <- [e \in Executions |-> TableOf[e[1]]],
         table <- PromisedTable, call <- PromisedCall

ImplementsCommits == Promise!Spec

(***************************************************************************)
(* What the worker has claimed ends, whatever Livy does and however often  *)
(* (within MaxCrashes) the worker dies on the way.                         *)
(***************************************************************************)
ClaimedEnds ==
    \A o \in Ops : state[o] \in Claimed ~> state[o] \in Terminal

(***************************************************************************)
(* A queued request the Spark worker is meant for is eventually claimed or *)
(* canceled, unless Livy's probes or the claims fail from some moment on:  *)
(* executions that drag on, crashes and the table's lock keep nobody       *)
(* waiting for ever.                                                       *)
(***************************************************************************)
QueueIsRead == SF_vars(refresh_idle_heartbeat) /\ SF_vars(claim)


(***************************************************************************)
(* GUIDE.md's state diagram: from CANCEL_REQUESTED a request goes to       *)
(* CANCELED, and nowhere else.                                             *)
(***************************************************************************)
CancelRequestedOnlyCanceled ==
    [][\A o \in Ops : state[o] = "CANCEL_REQUESTED" =>
         state'[o] \in {"CANCEL_REQUESTED", "CANCELED"}]_vars

=============================================================================
