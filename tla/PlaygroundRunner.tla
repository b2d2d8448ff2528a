-------------------------- MODULE PlaygroundRunner --------------------------
(***************************************************************************)
(* The playground's Spark runner (playground/spark/app/main.py): an HTTP   *)
(* service whose handlers run in a pool of threads and share one Spark     *)
(* session under one lock.  Its clients are the API, which records in the  *)
(* database what the runner answers (backend/app/routers/playground.py),   *)
(* and the operation worker in playground mode (PlaygroundSparkExecutor,   *)
(* backend/app/executors.py).  A client that gives up or dies does not     *)
(* stop the thread that serves it.                                         *)
(*                                                                         *)
(* One table, the sample, stands for all.  Each commit makes a new         *)
(* snapshot, with a parent; a rollback makes none, and returns the table   *)
(* to an ancestor of the one it is on.  The runner is the only writer in   *)
(* this mode.  A record of the registry (sync_inspected_table) takes       *)
(* effect when it commits, or, when it changes nothing of what it has      *)
(* read, not at all: either way it is one step.                            *)
(***************************************************************************)
EXTENDS Integers, FiniteSets

CONSTANTS
    Threads,       \* the runner's threads
    None,          \* no thread
    MaxCalls,      \* bounds: bootstraps and registrations,
    MaxOps,        \* operations and their retries,
    MaxFaults,     \* stopped or unbuildable Spark contexts, lost clients
    MaxSnapshot    \* and commits

ASSUME RunnerAssumption ==
    /\ None \notin Threads
    /\ MaxCalls \in Nat /\ MaxOps \in Nat /\ MaxFaults \in Nat /\ MaxSnapshot \in Nat

VARIABLES
    spark_lock,     \* the thread that holds it
    thread,         \* the call each thread serves
    session,        \* spark_session and the context behind it
    table,          \* the Iceberg table: its snapshot, the newest one there
                    \* has been, and of each the rows and the ancestors
    recorded,       \* managed_tables.current_snapshot_id
    op,             \* operation_requests: state, planned snapshot and the
                    \* target of a rollback
    worker,         \* where the operation worker is, the thread it waits for,
                    \* the snapshot reported to it and the one it has loaded
    used            \* what the bounds count

vars == <<spark_lock, thread, session, table, recorded, op, worker, used>>

NoTable == -1       \* the table does not exist, or is not registered
NoSnapshot == 0     \* it exists and is empty: snapshot_id is null
Snapshots == NoSnapshot..MaxSnapshot + 2
TableStates == {NoTable} \cup Snapshots
Idle == [pc |-> "idle", kind |-> "none", client |-> "gone", expected |-> NoSnapshot,
         target |-> NoSnapshot, answer |-> "none", seen |-> NoSnapshot]
Claimed == {"RUNNING", "CANCEL_REQUESTED", "VERIFYING"}
Unfinished == {"QUEUED"} \cup Claimed

\* The worker's place, with nothing reported to it.
WorkerAt(pc, t) == [pc |-> pc, thread |-> t, seen |-> NoSnapshot, loaded |-> NoTable]

Init ==
    /\ spark_lock = None
    /\ thread = [t \in Threads |-> Idle]
    /\ session = "none"
    /\ table = [snapshot |-> NoTable, newest |-> NoSnapshot,
                rows |-> [s \in TableStates |-> 0], line |-> [s \in TableStates |-> {}]]
    /\ recorded = NoTable
    /\ op = [state |-> "NONE", planned |-> NoSnapshot, target |-> NoSnapshot]
    /\ worker = WorkerAt("idle", None)
    /\ used = [calls |-> 0, ops |-> 0, faults |-> 0]

Count(what) == used' = [used EXCEPT ![what] = @ + 1]

-----------------------------------------------------------------------------
(***************************************************************************)
(* Spark's context                                                         *)
(***************************************************************************)
\* The JVM's context stops: spark_context_is_running is false from now on.
context_stopped ==
    /\ session = "running"
    /\ used.faults < MaxFaults
    /\ session' = "stopped"
    /\ Count("faults")
    /\ UNCHANGED <<spark_lock, thread, table, recorded, op, worker>>

-----------------------------------------------------------------------------
(***************************************************************************)
(* The runner's handlers                                                   *)
(***************************************************************************)
At(t, pc) == thread[t].pc = pc

Goto(t, pc) == thread' = [thread EXCEPT ![t].pc = pc]

\* A target is that of a rollback; NoSnapshot is none.
Accept(t, kind, client, expected, target) ==
    /\ At(t, "idle")
    /\ thread' = [thread EXCEPT ![t] =
          [pc |-> "waiting", kind |-> kind, client |-> client, expected |-> expected,
           target |-> target, answer |-> "none", seen |-> NoSnapshot]]

\* Leaving the "with spark_lock" block, by return or by exception.  Nobody
\* reads the answer when the client is gone.
Answer(t, answer, seen) ==
    /\ spark_lock' = None
    /\ thread' = [thread EXCEPT ![t] =
          IF @.client = "gone" THEN Idle
          ELSE [pc |-> "answered", kind |-> @.kind, client |-> @.client, expected |-> @.expected,
                target |-> @.target, answer |-> answer, seen |-> seen]]

\* Wrong variant: the lock is not waited for.
enter_unlocked(t) ==
    /\ At(t, "waiting")
    /\ spark_lock' = t
    /\ Goto(t, "session")
    /\ UNCHANGED <<session, table, recorded, op, worker, used>>

enter(t) ==
    /\ At(t, "waiting")
    /\ spark_lock = None
    /\ spark_lock' = t
    /\ Goto(t, "session")
    /\ UNCHANGED <<session, table, recorded, op, worker, used>>

\* Wrong variant: a session once built is kept.
get_spark_cached(t) ==
    /\ At(t, "session")
    /\ \/ session # "none" /\ Goto(t, "read") /\ UNCHANGED <<spark_lock, session, used>>
       \/ session = "none" /\ session' = "running" /\ Goto(t, "read")
          /\ UNCHANGED <<spark_lock, used>>
    /\ UNCHANGED <<table, recorded, op, worker>>

\* clear_stale_spark_session and build_spark_session: a new session, or none
\* and an exception.
build_spark_session(t) ==
    \/ session' = "running" /\ Goto(t, "read") /\ UNCHANGED <<spark_lock, used>>
    \/ /\ used.faults < MaxFaults
       /\ session' = "none" /\ Answer(t, "error", NoSnapshot) /\ Count("faults")

get_spark(t) ==
    /\ At(t, "session")
    /\ \/ session = "running" /\ Goto(t, "read") /\ UNCHANGED <<spark_lock, session, used>>
       \/ session # "running" /\ build_spark_session(t)
    /\ UNCHANGED <<table, recorded, op, worker>>

\* The next use of Spark raises.
spark_failed(t) ==
    /\ \E pc \in {"read", "call", "append", "after"} : At(t, pc)
    /\ session # "running"
    /\ Answer(t, "error", NoSnapshot)
    /\ UNCHANGED <<session, table, recorded, op, worker, used>>

Using(t, kind, pc) == thread[t].kind = kind /\ At(t, pc) /\ session = "running"

\* What the queries on the table's metadata tables say of it.
iceberg_table_state == table.snapshot

\* /status and /query.
read_only(t) ==
    /\ Using(t, "query", "read")
    /\ Answer(t, "ok", NoSnapshot)
    /\ UNCHANGED <<session, table, recorded, op, worker, used>>

\* /tables/inspect, /tables/inspect-bulk.
inspect_table(t) ==
    /\ Using(t, "inspect", "read")
    /\ \/ table.snapshot = NoTable /\ Answer(t, "error", NoSnapshot)
       \/ table.snapshot # NoTable /\ Answer(t, "ok", iceberg_table_state)
    /\ UNCHANGED <<session, table, recorded, op, worker, used>>

\* SELECT count(*).
Rows == table.rows[table.snapshot]

\* A new snapshot, on top of the current one.
Commit(rows) ==
    LET new == table.newest + 1 IN
    table' = [snapshot |-> new, newest |-> new,
              rows |-> [table.rows EXCEPT ![new] = rows],
              line |-> [table.line EXCEPT ![new] = table.line[table.snapshot] \cup {new}]]

\* Wrong variant: an incomplete sample is filled up.
bootstrap_filling_up(t) ==
    /\ Using(t, "bootstrap", "read")
    /\ table' = [table EXCEPT !.snapshot = IF @ = NoTable THEN NoSnapshot ELSE @]
    /\ Goto(t, IF Rows < 8 THEN "call" ELSE "after")
    /\ UNCHANGED <<spark_lock, session, recorded, op, worker, used>>

\* /bootstrap: CREATE TABLE IF NOT EXISTS, SELECT count(*).
bootstrap_create(t) ==
    /\ Using(t, "bootstrap", "read")
    /\ table' = [table EXCEPT !.snapshot = IF @ = NoTable THEN NoSnapshot ELSE @]
    /\ Goto(t, IF Rows = 0 THEN "call" ELSE "after")
    /\ UNCHANGED <<spark_lock, session, recorded, op, worker, used>>

\* The two INSERTs, each a commit of four rows.
bootstrap_insert(t) ==
    /\ \/ Using(t, "bootstrap", "call") /\ Goto(t, "append")
       \/ Using(t, "bootstrap", "append") /\ Goto(t, "after")
    /\ Commit(Rows + 4)
    /\ UNCHANGED <<spark_lock, session, recorded, op, worker, used>>

\* Wrong variant: the snapshot is not compared.
execute_unchecked(t) ==
    /\ Using(t, "execute", "read")
    /\ table.snapshot # NoTable
    /\ Goto(t, "call")
    /\ UNCHANGED <<spark_lock, session, table, recorded, op, worker, used>>

\* /operations/execute: the state before, and the snapshot precondition.
execute_before(t) ==
    /\ Using(t, "execute", "read")
    /\ \/ /\ table.snapshot # NoTable
          /\ thread[t].expected \in {NoSnapshot, iceberg_table_state}
          /\ Goto(t, "call")
          /\ UNCHANGED spark_lock
       \/ /\ \/ table.snapshot = NoTable
             \/ thread[t].expected \notin {NoSnapshot, iceberg_table_state}
          /\ Answer(t, "error", NoSnapshot)
    /\ UNCHANGED <<session, table, recorded, op, worker, used>>

\* CALL rollback_to_snapshot, of an ancestor of the current snapshot.
Rollback(target) ==
    /\ target \in table.line[table.snapshot]
    /\ table' = [table EXCEPT !.snapshot = target]

\* The other procedures commit, if the table has anything in it, or find
\* nothing to do.
Maintain ==
    \/ /\ table.snapshot \notin {NoTable, NoSnapshot} /\ table.newest < MaxSnapshot
       /\ Commit(Rows)
    \/ UNCHANGED table

Procedure(t) ==
    \/ thread[t].target # NoSnapshot /\ Rollback(thread[t].target)
    \/ thread[t].target = NoSnapshot /\ Maintain

\* Wrong variant: the lock is held for the procedure alone.
execute_releasing(t) ==
    /\ Using(t, "execute", "call")
    /\ Procedure(t)
    /\ Goto(t, "after")
    /\ spark_lock' = None
    /\ UNCHANGED <<session, recorded, op, worker, used>>

\* The procedure, or an error.
execute_procedure(t) ==
    /\ Using(t, "execute", "call")
    /\ \/ Procedure(t) /\ Goto(t, "after") /\ UNCHANGED spark_lock
       \/ Answer(t, "error", NoSnapshot) /\ UNCHANGED table
    /\ UNCHANGED <<session, recorded, op, worker, used>>

\* The state after, read under the same lock, is the answer.
answer_after(t) ==
    /\ Using(t, "bootstrap", "after") \/ Using(t, "execute", "after")
    /\ Answer(t, "ok", iceberg_table_state)
    /\ UNCHANGED <<session, table, recorded, op, worker, used>>

Handler(t) ==
    \/ get_spark(t) \/ spark_failed(t)
    \/ read_only(t) \/ inspect_table(t)
    \/ bootstrap_create(t) \/ bootstrap_insert(t)
    \/ execute_before(t) \/ execute_procedure(t) \/ answer_after(t)

-----------------------------------------------------------------------------
(***************************************************************************)
(* The API and the pages                                                   *)
(***************************************************************************)
\* A page asks for the status or runs a query; nothing is recorded, and so
\* its client may as well be gone.
query(t) ==
    /\ Accept(t, "query", "gone", NoSnapshot, NoSnapshot)
    /\ UNCHANGED <<spark_lock, session, table, recorded, op, worker, used>>

\* bootstrap_playground, register_playground_table(s): a call of the runner.
call_runner(t) ==
    /\ used.calls < MaxCalls
    /\ \E kind \in {"bootstrap", "inspect"} : Accept(t, kind, "here", NoSnapshot, NoSnapshot)
    /\ Count("calls")
    /\ UNCHANGED <<spark_lock, session, table, recorded, op, worker>>

\* What the runner has answered is recorded, whenever that comes; after an
\* error, nothing.
Recorded(t, kind) ==
    /\ At(t, "answered") /\ thread[t].kind = kind
    /\ recorded' = IF thread[t].answer = "ok" THEN thread[t].seen ELSE recorded
    /\ thread' = [thread EXCEPT ![t] = Idle]
    /\ UNCHANGED <<spark_lock, session, table, op, worker, used>>

sync_playground_table(t) == Recorded(t, "bootstrap")

sync_inspected_table(t) == Recorded(t, "inspect")

\* A caller takes its answer.
Take(t) == sync_playground_table(t) \/ sync_inspected_table(t)

\* The HTTP client's timeout, or its end.
Leave(t) == thread' = [thread EXCEPT ![t] =
                IF @.pc = "answered" THEN Idle ELSE [@ EXCEPT !.client = "gone"]]

client_gone(t) ==
    /\ thread[t].client = "here" /\ thread[t].kind # "execute"
    /\ used.faults < MaxFaults
    /\ Leave(t)
    /\ Count("faults")
    /\ UNCHANGED <<spark_lock, session, table, recorded, op, worker>>

-----------------------------------------------------------------------------
(***************************************************************************)
(* Operations in playground mode                                           *)
(***************************************************************************)
\* create_operation (of a table with a snapshot: plan_table) and its approval.
Planned(target) ==
    /\ used.ops < MaxOps
    /\ op' = [state |-> "QUEUED", planned |-> recorded, target |-> target]
    /\ Count("ops")
    /\ UNCHANGED <<spark_lock, thread, session, table, recorded, worker>>

\* A rollback to any snapshot there has been, or another command.
create_operation ==
    /\ op.state \notin Unfinished
    /\ recorded \notin {NoTable, NoSnapshot}
    /\ \E target \in NoSnapshot..table.newest : Planned(target)

\* A retry is planned again, on whatever is recorded by then.
retry_operation == op.state = "FAILED" /\ Planned(op.target)

cancel_operation ==
    /\ op.state \in {"QUEUED", "RUNNING", "VERIFYING"}
    /\ op' = [op EXCEPT !.state = IF @ = "QUEUED" THEN "CANCELED" ELSE "CANCEL_REQUESTED"]
    /\ UNCHANGED <<spark_lock, thread, session, table, recorded, worker, used>>

\* run claims after a successful probe of the runner: that it may not claim
\* when it could is left to fairness, which does not ask for claims.
claim_operation ==
    /\ worker.pc = "idle" /\ op.state = "QUEUED"
    /\ op' = [op EXCEPT !.state = "RUNNING"]
    /\ worker' = WorkerAt("claimed", None)
    /\ UNCHANGED <<spark_lock, thread, session, table, recorded, used>>

\* PlaygroundSparkExecutor.execute: should_cancel, on_submitted, POST.
execute(t) ==
    /\ worker.pc = "claimed" /\ op.state # "CANCEL_REQUESTED"
    /\ Accept(t, "execute", "here", op.planned, op.target)
    /\ worker' = WorkerAt("waiting", t)
    /\ UNCHANGED <<spark_lock, session, table, recorded, op, used>>

\* Wrong variant: the thread is still waited for.
end_waiting(state) ==
    /\ op' = [op EXCEPT !.state = state]
    /\ worker' = [worker EXCEPT !.pc = "idle"]

End(state) ==
    /\ op' = [op EXCEPT !.state = state]
    /\ worker' = WorkerAt("idle", None)

\* A cancellation is seen, or the database or the connection fails.
not_posted ==
    /\ worker.pc = "claimed"
    /\ \/ op.state = "CANCEL_REQUESTED" /\ End("CANCELED")
       \/ End("FAILED")
    /\ UNCHANGED <<spark_lock, thread, session, table, recorded, used>>

\* The answer: an error fails the operation, and a cancellation is looked at
\* only now.
receive_answer ==
    /\ worker.pc = "waiting" /\ At(worker.thread, "answered")
    /\ LET got == thread[worker.thread] IN
       \/ got.answer = "error" /\ End("FAILED")
       \/ got.answer = "ok" /\ op.state = "CANCEL_REQUESTED" /\ End("CANCELED")
       \/ /\ got.answer = "ok" /\ op.state # "CANCEL_REQUESTED"
          /\ worker' = [pc |-> "verify", thread |-> None, seen |-> got.seen, loaded |-> NoTable]
          /\ UNCHANGED op
    /\ thread' = [thread EXCEPT ![worker.thread] = Idle]
    /\ UNCHANGED <<spark_lock, session, table, recorded, used>>

\* mark_verifying commits; then mark_succeeded reads its rows, unlocked.  No
\* step between the two depends on their order.
mark_verifying ==
    /\ worker.pc = "verify"
    /\ op' = [op EXCEPT !.state = "VERIFYING"]
    /\ worker' = [pc |-> "write", thread |-> None, seen |-> worker.seen, loaded |-> recorded]
    /\ UNCHANGED <<spark_lock, thread, session, table, recorded, used>>

\* What of verify_result depends on the snapshot.
verify_result ==
    /\ worker.seen # NoSnapshot
    /\ op.target # NoSnapshot => worker.seen = op.target

\* A column assigned the value it was loaded with is not in the UPDATE.
mark_succeeded ==
    /\ worker.pc = "write" /\ verify_result
    /\ End("SUCCEEDED")
    /\ recorded' = IF worker.seen = worker.loaded THEN recorded ELSE worker.seen
    /\ UNCHANGED <<spark_lock, thread, session, table, used>>

\* verify_result or the database: mark_failed.
marking_raises ==
    /\ worker.pc \in {"verify", "write"}
    /\ End("FAILED")
    /\ UNCHANGED <<spark_lock, thread, session, table, recorded, used>>

\* operation_worker_timeout_seconds have passed: mark_failed.
timeout ==
    /\ worker.pc = "waiting"
    /\ Leave(worker.thread)
    /\ End("FAILED")
    /\ UNCHANGED <<spark_lock, session, table, recorded, used>>

crash ==
    /\ worker.pc \notin {"idle", "down"}
    /\ used.faults < MaxFaults
    /\ worker' = WorkerAt("down", None)
    /\ \/ worker.thread = None /\ UNCHANGED thread
       \/ worker.thread # None /\ Leave(worker.thread)
    /\ Count("faults")
    /\ UNCHANGED <<spark_lock, session, table, recorded, op>>

\* Wrong variant: the execution is left for another worker to resume.
recover_waiting ==
    /\ worker.pc = "down"
    /\ worker' = WorkerAt("idle", None)
    /\ UNCHANGED <<spark_lock, thread, session, table, recorded, op, used>>

\* recover_stale_executions: outside Livy mode nothing is resumed.
recover_stale_executions ==
    /\ worker.pc = "down"
    /\ End("FAILED")
    /\ UNCHANGED <<spark_lock, thread, session, table, recorded, used>>

execute_claim ==
    \/ not_posted \/ receive_answer \/ mark_verifying \/ mark_succeeded \/ marking_raises
    \/ \E t \in Threads : execute(t)

Next ==
    \/ \E t \in Threads :
          \/ enter(t) \/ Handler(t)
          \/ query(t) \/ call_runner(t) \/ Take(t) \/ client_gone(t)
    \/ context_stopped
    \/ create_operation \/ retry_operation \/ cancel_operation
    \/ claim_operation \/ execute_claim \/ timeout \/ crash \/ recover_stale_executions

Spec == Init /\ [][Next]_vars

\* A free lock is taken by some thread (not by each: a Python lock is not
\* fair), Spark answers, clients take their answers, somebody opens the page
\* again, and a worker goes on with what it has claimed: a POST that no thread
\* serves ends when it times out.  That anything is claimed is not assumed.
FairSpec ==
    /\ Spec
    /\ WF_vars(\E t \in Threads : enter(t))
    /\ \A t \in Threads : WF_vars(Handler(t)) /\ WF_vars(Take(t))
    /\ WF_vars(\E t \in Threads : query(t))
    /\ WF_vars(execute_claim \/ recover_stale_executions)
    /\ WF_vars(timeout)

-----------------------------------------------------------------------------
(***************************************************************************)
(* Properties                                                              *)
(***************************************************************************)
Inside == {"session", "read", "call", "append", "after"}

Calls == [pc : {"idle", "waiting", "answered"} \cup Inside,
          kind : {"none", "query", "inspect", "bootstrap", "execute"},
          client : {"here", "gone"}, expected : Snapshots, target : Snapshots,
          answer : {"none", "ok", "error"}, seen : Snapshots]

\* Every variable holds a value of its kind.
TypeOK ==
    /\ spark_lock \in Threads \cup {None}
    /\ thread \in [Threads -> Calls]
    /\ session \in {"none", "running", "stopped"}
    /\ table \in [snapshot : TableStates, newest : Snapshots,
                  rows : [TableStates -> 0..16], line : [TableStates -> SUBSET Snapshots]]
    /\ recorded \in TableStates
    /\ op \in [state : {"NONE", "SUCCEEDED", "FAILED", "CANCELED"} \cup Unfinished,
               planned : Snapshots, target : Snapshots]
    /\ worker \in [pc : {"idle", "claimed", "waiting", "verify", "write", "down"},
                   thread : Threads \cup {None}, seen : Snapshots, loaded : TableStates]
    /\ worker.pc = "waiting" <=> worker.thread # None
    /\ used \in [calls : 0..MaxCalls, ops : 0..MaxOps, faults : 0..MaxFaults]

(***************************************************************************)
(* README: a request whose recorded snapshot is not the table's fails.     *)
(* A procedure commits only on the snapshot its operation was planned on,  *)
(* though bootstraps, registrations that record an old answer, and calls   *)
(* whose client has given up and whose operation was retried meanwhile,    *)
(* share the runner.  (The plan of a retry may be null, and is then not    *)
(* compared: README, "Where the code departs from its documents".)         *)
(***************************************************************************)
Commits(t) ==
    /\ thread[t].kind = "execute" /\ thread[t].pc = "call" /\ thread'[t].pc = "after"
    /\ table'.snapshot # table.snapshot

CommitsOnPlan ==
    [][\A t \in Threads : Commits(t) /\ thread[t].expected # NoSnapshot
         => thread[t].expected = table.snapshot]_vars

(***************************************************************************)
(* What is recorded as the table's state when an operation has succeeded   *)
(* is the operation's own result: the target of its rollback, the snapshot *)
(* it was planned on, or one that was made on top of that; never one of a  *)
(* bootstrap or of an abandoned attempt that has committed since.  The one *)
(* exception: the registry held the result when the worker looked, and was *)
(* given another, a late answer, before it wrote; what it reads as         *)
(* unchanged it does not write (mark_succeeded).                           *)
(***************************************************************************)
Own(planned, target, snapshot) ==
    IF target # NoSnapshot THEN snapshot = target
    ELSE \/ snapshot = planned
         \/ table.line[snapshot] = table.line[planned] \cup {snapshot}

ResultIsOwn ==
    [][op.state # "SUCCEEDED" /\ op'.state = "SUCCEEDED" /\ op.planned # NoSnapshot
         => \/ Own(op.planned, op.target, recorded')
            \/ recorded # worker.loaded /\ Own(op.planned, op.target, worker.loaded)]_vars

(***************************************************************************)
(* However often the sample is requested, by whatever threads, and though  *)
(* each creation may fail on its way, its rows are never doubled.          *)
(***************************************************************************)
SampleNotDoubled == Rows <= 8

(***************************************************************************)
(* Whatever happens to the runner, the HTTP call or the worker, a claimed  *)
(* operation ends.                                                         *)
(***************************************************************************)
OperationEnds == op.state \in Claimed ~> op.state \notin Unfinished

(***************************************************************************)
(* A Spark context that has stopped is replaced once somebody uses the     *)
(* runner again, though a building fails and threads wait for the lock     *)
(* with clients that are gone.                                             *)
(***************************************************************************)
SessionReplaced == session = "stopped" ~> session = "running"

(***************************************************************************)
(* README: a request whose recorded snapshot is not the table's fails      *)
(* before it changes anything.  Each call of /operations/execute acts on   *)
(* the table in one step, on the snapshot it was planned on, and what it   *)
(* answers is the state that step has left, however many threads share     *)
(* the runner: PlaygroundRunner implements ConditionalCommits, with the    *)
(* threads, the lock and the session hidden.                               *)
(***************************************************************************)
PromisedTable == [t \in {"sample"} |-> table.snapshot]

PromisedCallOf(t) ==
    CASE thread[t].kind = "execute" /\ thread[t].pc \in {"waiting", "session", "read", "call"} ->
            [phase |-> "asked", snapshot |-> thread[t].expected]
      [] thread[t].kind = "execute" /\ thread[t].pc = "after" ->
            [phase |-> "acted", snapshot |-> table.snapshot]
      [] thread[t].kind = "execute" /\ thread[t].pc = "answered" /\ thread[t].answer = "ok" ->
            [phase |-> "acted", snapshot |-> thread[t].seen]
      [] OTHER -> [phase |-> "none", snapshot |-> NoSnapshot]

PromisedCall == [t \in Threads |-> PromisedCallOf(t)]

Promise == INSTANCE ConditionalCommits
    WITH Calls <- Threads, Tables <- {"sample"}, TableOf <- [t \in Threads |-> "sample"],
         Shared <- {"sample"}, Reused <- Threads, Snapshots <- TableStates, NoPlan <- NoSnapshot,
         table <- PromisedTable, call <- PromisedCall

ImplementsCommits == Promise!Spec

=============================================================================
