----------------------------- MODULE InspectJobs -----------------------------
(***************************************************************************)
(* A bulk inspection: a TABLE_INSPECT job with one item per table, queued  *)
(* by the API (backend/app/routers/playground.py), processed by the one    *)
(* bulk worker of a deployment (backend/app/bulk_worker.py), and watched,  *)
(* canceled and retried as a group (backend/app/services.py).              *)
(*                                                                         *)
(* Transactions are READ COMMITTED and SQLAlchemy writes the columns that  *)
(* differ from what the session has loaded.  A handler is split where it   *)
(* reads without a lock and writes later; "the job lock" is the row lock   *)
(* of the job that cancel_bulk_job takes FOR UPDATE.  Progress counters    *)
(* are not modelled, but that they are written in the transaction of an    *)
(* item's result is: it makes this transaction wait for the job lock.      *)
(* A Catalog is never deleted or left without its warehouse.               *)
(***************************************************************************)
EXTENDS Naturals, FiniteSets

CONSTANTS
    Items,          \* ordinals of the job's items
    Sessions,       \* API sessions: requests of users and of watching pages
    Restarts,       \* how long a crashed worker stays away: "short" or
                    \* "long", compared with operation_worker_stale_seconds
    LoopFailures,   \* whether a database error may end the processing of a job
    MaxCrashes, MaxCancels, MaxRetries   \* bounds for model checking

ASSUME InspectAssumption ==
    /\ Items \subseteq Nat /\ Items # {} /\ IsFiniteSet(Items)
    /\ Restarts \subseteq {"short", "long"} /\ Restarts # {}
    /\ LoopFailures \in BOOLEAN
    /\ MaxCrashes \in Nat /\ MaxCancels \in Nat /\ MaxRetries \in Nat

VARIABLES
    job,        \* bulk_jobs.state
    cancel,     \* bulk_jobs.cancellation_requested_at is set
    item,       \* bulk_job_items.state
    recorded,   \* items whose inspection has been written to managed_tables
    worker,     \* where the worker is, and its local variables
    api,        \* where each API session is, and what it has read
    used        \* crashes, cancellations and retries so far

vars == <<job, cancel, item, recorded, worker, api, used>>

ItemEnded == {"SUCCEEDED", "FAILED", "CANCELED"}
JobEnded == ItemEnded \cup {"PARTIAL_SUCCESS"}
JobStates == {"QUEUED", "RUNNING", "CANCEL_REQUESTED", "WAITING_APPROVAL"} \cup JobEnded
ItemStates == {"QUEUED", "RUNNING", "CANCEL_REQUESTED"} \cup ItemEnded

IdleWorker == [pc |-> "idle", todo |-> {}, item |-> 0, to |-> "", seen |-> ""]
IdleSession == [pc |-> "idle", read |-> [i \in Items |-> ""], seen |-> ""]

\* create_playground_table_bulk_job has committed the job and its items.
Init ==
    /\ job = "QUEUED"
    /\ cancel = FALSE
    /\ item = [i \in Items |-> "QUEUED"]
    /\ recorded = {}
    /\ worker = IdleWorker
    /\ api = [s \in Sessions |-> IdleSession]
    /\ used = [crashes |-> 0, cancels |-> 0, retries |-> 0]

-----------------------------------------------------------------------------
(***************************************************************************)
(* The state of a job as its items have it                                 *)
(***************************************************************************)
AllIn(states, S) == \A i \in Items : states[i] \in S
SomeIn(states, S) == \E i \in Items : states[i] \in S

\* finish_job: whatever has not succeeded counts as failed.
Verdict(states) ==
    CASE AllIn(states, {"CANCELED"}) -> "CANCELED"
      [] AllIn(states, {"SUCCEEDED"}) -> "SUCCEEDED"
      [] SomeIn(states, {"SUCCEEDED"}) /\ ~AllIn(states, {"SUCCEEDED"}) -> "PARTIAL_SUCCESS"
      [] OTHER -> "FAILED"

\* Wrong variant: a job goes back to the queue only when nothing has begun.
SummaryOnceBegun(states) ==
    CASE AllIn(states, ItemEnded) -> Verdict(states)
      [] ~AllIn(states, ItemEnded) /\ SomeIn(states, {"CANCEL_REQUESTED"}) -> "CANCEL_REQUESTED"
      [] AllIn(states, {"QUEUED"}) -> "QUEUED"
      [] OTHER -> "RUNNING"

\* _refresh_bulk_job, for items without operation requests.
Summary(states) ==
    IF AllIn(states, ItemEnded) THEN Verdict(states)
    ELSE IF SomeIn(states, {"CANCEL_REQUESTED"}) THEN "CANCEL_REQUESTED"
    ELSE IF SomeIn(states, {"RUNNING"}) THEN "RUNNING"
    ELSE "QUEUED"

-----------------------------------------------------------------------------
(***************************************************************************)
(* API sessions                                                            *)
(***************************************************************************)
\* Wrong variant: the job is selected without FOR UPDATE.
JobUnlocked == TRUE

JobLockFree == \A s \in Sessions : api[s].pc # "cancel"

At(s, pc) == api[s].pc = pc

\* bulk_job (and bulk_jobs, for each job): read the job and its items ...
get_bulk_job(s) ==
    /\ At(s, "idle")
    /\ api' = [api EXCEPT ![s] = [pc |-> "refresh", read |-> item, seen |-> job]]
    /\ UNCHANGED <<job, cancel, item, recorded, worker, used>>

\* The same at the end of a group handler, whose session keeps the job as
\* it has written it and may read the items again.
show_bulk_job(s) ==
    /\ At(s, "get")
    /\ \E items \in {api[s].read, item} :
          api' = [api EXCEPT ![s] = [pc |-> "refresh", read |-> items, seen |-> @.seen]]
    /\ UNCHANGED <<job, cancel, item, recorded, worker, used>>

\* Wrong variant: the state of a job that has ended is not computed again.
refresh_unfinished(s) ==
    /\ At(s, "refresh")
    /\ LET summary == Summary(api[s].read) IN
       IF summary = api[s].seen \/ api[s].seen \in JobEnded THEN UNCHANGED job
       ELSE JobLockFree /\ job' = summary
    /\ api' = [api EXCEPT ![s] = IdleSession]
    /\ UNCHANGED <<cancel, item, recorded, worker, used>>

\* ... and write the state computed from them, if it is not the one loaded.
refresh_bulk_job(s) ==
    /\ At(s, "refresh")
    /\ LET summary == Summary(api[s].read) IN
       IF summary = api[s].seen THEN UNCHANGED job
       ELSE JobLockFree /\ job' = summary
    /\ api' = [api EXCEPT ![s] = IdleSession]
    /\ UNCHANGED <<cancel, item, recorded, worker, used>>

\* cancel_bulk_job: lock the job, read its items ...
select_to_cancel(s) ==
    /\ At(s, "idle")
    /\ JobLockFree
    /\ used.cancels < MaxCancels
    /\ used' = [used EXCEPT !.cancels = @ + 1]
    /\ api' = [api EXCEPT ![s] = [pc |-> "cancel", read |-> item, seen |-> job]]
    /\ UNCHANGED <<job, cancel, item, recorded, worker>>

Canceled(state) ==
    CASE state = "QUEUED" -> "CANCELED"
      [] state = "RUNNING" -> "CANCEL_REQUESTED"
      [] OTHER -> state

\* The UPDATE of an item waits for the worker's open transaction on it.
Blocked(s) ==
    /\ worker.pc = "commit"
    /\ api[s].read[worker.item] \in {"QUEUED", "RUNNING"}

\* ... and write the items it has read as unfinished; then show the job.
cancel_bulk_job(s) ==
    /\ At(s, "cancel")
    /\ ~Blocked(s)
    /\ cancel' = TRUE
    /\ job' = "CANCEL_REQUESTED"
    /\ LET read == api[s].read
           items == [i \in Items |-> Canceled(read[i])]
       IN  /\ item' = [i \in Items |-> IF items[i] # read[i] THEN items[i] ELSE item[i]]
           /\ api' = [api EXCEPT ![s] = [pc |-> "get", read |-> items, seen |-> job']]
    /\ UNCHANGED <<recorded, worker, used>>

\* The worker holds the item and waits for the job, the session holds the
\* job and waits for the item: PostgreSQL aborts one of them.
deadlock_detected(s) ==
    /\ At(s, "cancel")
    /\ Blocked(s)
    /\ \/ /\ api' = [api EXCEPT ![s] = IdleSession]
          /\ UNCHANGED worker
       \/ /\ worker' = IdleWorker
          /\ UNCHANGED api
    /\ UNCHANGED <<job, cancel, item, recorded, used>>

\* retry_failed_bulk_job: nothing else writes a failed item, so the locked
\* job and its items are read and written in one step; then show the job.
retry_failed_bulk_job(s) ==
    /\ At(s, "idle")
    /\ JobLockFree
    /\ used.retries < MaxRetries
    /\ SomeIn(item, {"FAILED"})
    /\ item' = [i \in Items |-> IF item[i] = "FAILED" THEN "QUEUED" ELSE item[i]]
    /\ job' = "QUEUED"
    /\ cancel' = FALSE
    /\ api' = [api EXCEPT ![s] = [pc |-> "get", read |-> item', seen |-> job']]
    /\ used' = [used EXCEPT !.retries = @ + 1]
    /\ UNCHANGED <<recorded, worker>>

Api ==
    \E s \in Sessions :
        \/ get_bulk_job(s) \/ show_bulk_job(s) \/ refresh_bulk_job(s)
        \/ select_to_cancel(s) \/ cancel_bulk_job(s) \/ deadlock_detected(s)
        \/ retry_failed_bulk_job(s)

-----------------------------------------------------------------------------
(***************************************************************************)
(* The bulk worker                                                         *)
(***************************************************************************)
WorkerAt(pc) == worker.pc = pc
Goto(pc) == worker' = [worker EXCEPT !.pc = pc]
NextItem == worker' = [worker EXCEPT !.pc = "next", !.item = 0, !.to = ""]

claim_job ==
    /\ WorkerAt("idle")
    /\ job = "QUEUED"
    /\ JobLockFree
    /\ job' = "RUNNING"
    /\ Goto("plan")
    /\ UNCHANGED <<cancel, item, recorded, api, used>>

\* process_job: the items that are queued now are the ones to process.
process_job ==
    /\ WorkerAt("plan")
    /\ worker' = [worker EXCEPT !.pc = "next", !.todo = {i \in Items : item[i] = "QUEUED"}]
    /\ UNCHANGED <<job, cancel, item, recorded, api, used>>

First(S) == CHOOSE i \in S : \A k \in S : i <= k

\* process_item: only the job's cancellation is looked at, not the item.
next_item ==
    /\ WorkerAt("next")
    /\ worker.todo # {}
    /\ LET i == First(worker.todo) IN
       worker' = [worker EXCEPT !.pc = IF cancel THEN "stop" ELSE "start",
                                !.item = i, !.todo = @ \ {i}]
    /\ UNCHANGED <<job, cancel, item, recorded, api, used>>

start_item ==
    /\ WorkerAt("start")
    /\ item' = [item EXCEPT ![worker.item] = "RUNNING"]
    /\ Goto("post")
    /\ UNCHANGED <<job, cancel, recorded, api, used>>

\* The runner answers, or refuses the table or the request.
inspect_table ==
    /\ WorkerAt("post")
    /\ \/ Goto("check")
       \/ worker' = [worker EXCEPT !.pc = "settle", !.to = "FAILED"]
    /\ UNCHANGED <<job, cancel, item, recorded, api, used>>

\* Wrong variant: a canceled item is settled without a result.
cancellation_unsettled ==
    /\ WorkerAt("check")
    /\ Goto(IF cancel THEN "settle" ELSE "sync")
    /\ UNCHANGED <<job, cancel, item, recorded, api, used>>

check_cancellation ==
    /\ WorkerAt("check")
    /\ Goto(IF cancel THEN "stop" ELSE "sync")
    /\ UNCHANGED <<job, cancel, item, recorded, api, used>>

stop_item ==
    /\ WorkerAt("stop")
    /\ item' = [item EXCEPT ![worker.item] = "CANCELED"]
    /\ NextItem
    /\ UNCHANGED <<job, cancel, recorded, api, used>>

\* Wrong variant: a table the registry could not store is reported inspected.
sync_unchecked ==
    /\ WorkerAt("sync")
    /\ \E done \in {{}, {worker.item}} : recorded' = recorded \cup done
    /\ worker' = [worker EXCEPT !.pc = "settle", !.to = "SUCCEEDED"]
    /\ UNCHANGED <<job, cancel, item, api, used>>

\* sync_inspected_table and its commit.
sync_table ==
    /\ WorkerAt("sync")
    /\ \/ /\ recorded' = recorded \cup {worker.item}
          /\ worker' = [worker EXCEPT !.pc = "settle", !.to = "SUCCEEDED"]
       \/ /\ worker' = [worker EXCEPT !.pc = "settle", !.to = "FAILED"]
          /\ UNCHANGED recorded
    /\ UNCHANGED <<job, cancel, item, api, used>>

\* Reading the item states flushes the item's UPDATE: its row is locked.
flush_result ==
    /\ WorkerAt("settle")
    /\ Goto("commit")
    /\ UNCHANGED <<job, cancel, item, recorded, api, used>>

\* Wrong variant: the result is committed without the job's counters.
commit_item_only ==
    /\ WorkerAt("commit")
    /\ item' = [item EXCEPT ![worker.item] = worker.to]
    /\ NextItem
    /\ UNCHANGED <<job, cancel, recorded, api, used>>

\* The commit writes the counters of the job first: it needs the job lock.
commit_result ==
    /\ WorkerAt("commit")
    /\ JobLockFree
    /\ item' = [item EXCEPT ![worker.item] = worker.to]
    /\ NextItem
    /\ UNCHANGED <<job, cancel, recorded, api, used>>

\* finish_job: read the job and its items, then write the verdict.
read_verdict ==
    /\ WorkerAt("next")
    /\ worker.todo = {}
    /\ worker' = [worker EXCEPT !.pc = "finish", !.to = Verdict(item), !.seen = job]
    /\ UNCHANGED <<job, cancel, item, recorded, api, used>>

finish_job ==
    /\ WorkerAt("finish")
    /\ JobLockFree
    /\ job' = IF worker.to = worker.seen THEN job ELSE worker.to
    /\ worker' = IdleWorker
    /\ UNCHANGED <<cancel, item, recorded, api, used>>

\* run: an exception that leaves process_job is logged, and the loop goes on.
loop_failed ==
    /\ LoopFailures
    /\ worker.pc \notin {"idle", "down"}
    /\ worker' = IdleWorker
    /\ UNCHANGED <<job, cancel, item, recorded, api, used>>

crash ==
    /\ ~WorkerAt("down")
    /\ used.crashes < MaxCrashes
    /\ worker' = [IdleWorker EXCEPT !.pc = "down"]
    /\ used' = [used EXCEPT !.crashes = @ + 1]
    /\ UNCHANGED <<job, cancel, item, recorded, api>>

\* At startup, and then no more: jobs not touched since the cutoff.
recover_jobs ==
    /\ WorkerAt("down")
    /\ JobLockFree
    /\ worker' = IdleWorker
    /\ \/ /\ "long" \in Restarts
          /\ job = "RUNNING"
          /\ job' = "QUEUED"
          /\ item' = [i \in Items |-> IF item[i] = "RUNNING" THEN "QUEUED" ELSE item[i]]
       \/ /\ "short" \in Restarts \/ job # "RUNNING"
          /\ UNCHANGED <<job, item>>
    /\ UNCHANGED <<cancel, recorded, api, used>>

Worker ==
    \/ claim_job \/ process_job \/ next_item \/ start_item \/ inspect_table
    \/ check_cancellation \/ stop_item \/ sync_table \/ flush_result
    \/ commit_result \/ read_verdict \/ finish_job \/ recover_jobs

Next == Api \/ Worker \/ loop_failed \/ crash

Spec == Init /\ [][Next]_vars

(***************************************************************************)
(* The worker takes its next step (its container restarts it, the runner   *)
(* request has a timeout), a session that has begun ends, and the page     *)
(* that shows the job reads it again and again.                            *)
(***************************************************************************)
FairSpec ==
    /\ Spec
    /\ WF_vars(Worker)
    /\ \A s \in Sessions :
          /\ SF_vars(refresh_bulk_job(s))
          /\ SF_vars(cancel_bulk_job(s))
          /\ SF_vars(get_bulk_job(s) \/ show_bulk_job(s))
          /\ WF_vars(deadlock_detected(s))

-----------------------------------------------------------------------------
(***************************************************************************)
(* Properties                                                              *)
(***************************************************************************)
\* Every column and every local variable holds a value of its kind.
TypeOK ==
    /\ job \in JobStates
    /\ cancel \in BOOLEAN
    /\ item \in [Items -> ItemStates]
    /\ recorded \subseteq Items
    /\ worker \in [pc : {"idle", "down", "plan", "next", "start", "post", "check", "stop",
                         "sync", "settle", "commit", "finish"},
                   todo : SUBSET Items, item : Items \cup {0},
                   to : JobEnded \cup {""}, seen : JobStates \cup {""}]
    /\ api \in [Sessions -> [pc : {"idle", "get", "refresh", "cancel"},
                             read : [Items -> ItemStates \cup {""}],
                             seen : JobStates \cup {""}]]
    /\ used \in [crashes : 0..MaxCrashes, cancels : 0..MaxCancels, retries : 0..MaxRetries]

(***************************************************************************)
(* An item is reported inspected only if the registry has its table:       *)
(* whatever was canceled, retried, requeued or lost on the way             *)
(* (process_item commits the registry row before the item's result).       *)
(***************************************************************************)
InspectedIsRecorded == \A i \in Items : item[i] = "SUCCEEDED" => i \in recorded

(***************************************************************************)
(* A result is not taken back: an inspected item stays inspected.          *)
(* cancel_bulk_job writes items it has read before, and what keeps it from *)
(* overwriting a result committed meanwhile is that process_item writes    *)
(* the job's counters in the transaction of the result.                    *)
(***************************************************************************)
ResultsStay ==
    [][\A i \in Items : item[i] = "SUCCEEDED" => item'[i] = "SUCCEEDED"]_vars

(***************************************************************************)
(* Every item of a job is processed in the end, those that were retried    *)
(* while the worker was still busy with the others included, as long as    *)
(* somebody looks at the job.                                              *)
(***************************************************************************)
ItemsEnd == \A i \in Items : item[i] = "QUEUED" ~> item[i] \in ItemEnded

(***************************************************************************)
(* What is reported settles: from some time on the job's state is the one  *)
(* its items have, although finish_job and every reader of the job write   *)
(* it from what they have read before.  (Its run has neither cancellations *)
(* nor crashes and deadlocks, after which the job may stay unsettled:      *)
(* README, "Where the code departs from its documents".)                   *)
(***************************************************************************)
ReportSettles == <>[](job = Summary(item) /\ job \in JobEnded)

(***************************************************************************)
(* DESIGN.md: a BulkJob keeps a restartable progress state.  A job the     *)
(* worker has claimed ends, although the worker is restarted on the way.   *)
(***************************************************************************)
JobResumes == job = "RUNNING" ~> job \in JobEnded

=============================================================================
