--------------------------- MODULE BulkOperations ---------------------------
(***************************************************************************)
(* A group of operation requests (a BulkJob of kind OPERATION_REQUEST, one *)
(* item and one request per table), handled one by one and as a group by   *)
(* backend/app/services.py while the worker (backend/app/worker.py)        *)
(* executes its requests.                                                  *)
(*                                                                         *)
(* decide, retry and cancel of one request select it FOR UPDATE and are    *)
(* single actions.  The group handlers lock the job only: they read the    *)
(* items and the requests, and write later what differs from what they     *)
(* have read.  Every reader of the group does the same with the items.     *)
(* The engine and crashes are Operations' subject: here an execution ends  *)
(* in one of the three ways.  The job's own state and counters, which a    *)
(* reader computes from the items, are InspectJobs' subject.               *)
(***************************************************************************)
EXTENDS Naturals, FiniteSets

CONSTANTS
    Ops,          \* the requests of the group, each for a table of its own
    Sessions,     \* API sessions that handle the group
    MaxCancels,   \* bounds on what users do
    MaxRetries,
    None          \* no request

ASSUME BulkAssumption ==
    /\ None \notin Ops
    /\ MaxCancels \in Nat /\ MaxRetries \in Nat

VARIABLES
    op,       \* operation_requests.state
    item,     \* bulk_job_items.state, a copy of the request's
    lock,     \* owner of the execution lock of the request's table: "none",
              \* the request ("own"), or a request outside the group ("other")
    worker,   \* the execution the worker has in hand
    api,      \* where each session is, and what it has read
    used      \* cancellations, and retries of one request and of the group

vars == <<op, item, lock, worker, api, used>>

Claimed == {"RUNNING", "VERIFYING", "CANCEL_REQUESTED"}
Active == {"QUEUED"} \cup Claimed
Terminal == {"SUCCEEDED", "FAILED", "REJECTED", "CANCELED"}
States == {"WAITING_APPROVAL"} \cup Active \cup Terminal

Idle == [pc |-> "idle", op |-> None]
NothingRead == [o \in Ops |-> ""]
IdleSession == [pc |-> "idle", op |-> NothingRead, item |-> NothingRead, lock |-> NothingRead]

\* create_operations: the whole group in one transaction.
Init ==
    /\ op = [o \in Ops |-> "WAITING_APPROVAL"]
    /\ item = [o \in Ops |-> "WAITING_APPROVAL"]
    /\ lock = [o \in Ops |-> "none"]
    /\ worker = Idle
    /\ api = [s \in Sessions |-> IdleSession]
    /\ used = [cancels |-> 0, retries |-> 0, group_retries |-> 0]

RetriesLeft == used.retries + used.group_retries < MaxRetries

-----------------------------------------------------------------------------
(***************************************************************************)
(* Requests outside the group that compete for the tables                  *)
(***************************************************************************)
rival_approved(o) ==
    /\ lock[o] = "none"
    /\ lock' = [lock EXCEPT ![o] = "other"]
    /\ UNCHANGED <<op, item, worker, api, used>>

rival_ended(o) ==
    /\ lock[o] = "other"
    /\ lock' = [lock EXCEPT ![o] = "none"]
    /\ UNCHANGED <<op, item, worker, api, used>>

-----------------------------------------------------------------------------
(***************************************************************************)
(* Handlers of one request                                                 *)
(***************************************************************************)
Released(o) == [lock EXCEPT ![o] = IF @ = "own" THEN "none" ELSE @]

decide_operation(o) ==
    /\ op[o] = "WAITING_APPROVAL"
    /\ \/ /\ lock[o] # "other"
          /\ lock' = [lock EXCEPT ![o] = "own"]
          /\ op' = [op EXCEPT ![o] = "QUEUED"]
          /\ item' = [item EXCEPT ![o] = "QUEUED"]
       \/ /\ op' = [op EXCEPT ![o] = "REJECTED"]
          /\ item' = [item EXCEPT ![o] = "REJECTED"]
          /\ UNCHANGED lock
    /\ UNCHANGED <<worker, api, used>>

\* The item keeps the state FAILED.
retry_operation(o) ==
    /\ op[o] = "FAILED"
    /\ lock[o] # "other"
    /\ RetriesLeft
    /\ op' = [op EXCEPT ![o] = "QUEUED"]
    /\ lock' = [lock EXCEPT ![o] = "own"]
    /\ used' = [used EXCEPT !.retries = @ + 1]
    /\ UNCHANGED <<item, worker, api>>

cancel_operation(o) ==
    /\ op[o] \notin Terminal
    /\ used.cancels < MaxCancels
    /\ LET to == IF op[o] \in Claimed THEN "CANCEL_REQUESTED" ELSE "CANCELED" IN
       /\ op' = [op EXCEPT ![o] = to]
       /\ item' = [item EXCEPT ![o] = to]
       /\ lock' = IF to = "CANCELED" THEN Released(o) ELSE lock
    /\ used' = [used EXCEPT !.cancels = @ + 1]
    /\ UNCHANGED <<worker, api>>

-----------------------------------------------------------------------------
(***************************************************************************)
(* Handlers of the group                                                   *)
(***************************************************************************)
At(s, pc) == api[s].pc = pc

\* The job's row, which cancel_bulk_job and retry_failed_bulk_job lock.
JobLockFree ==
    \A s \in Sessions :
        api[s].pc \notin {"cancel_requests", "cancel", "retry_requests", "retry"}

\* A session reads the items, and in a later statement the requests and the
\* locks of their tables.
ReadItems(s, pc) ==
    api' = [api EXCEPT ![s] = [pc |-> pc, op |-> @.op, item |-> item, lock |-> @.lock]]
ReadRequests(s, pc) ==
    api' = [api EXCEPT ![s] = [pc |-> pc, op |-> op, item |-> @.item, lock |-> lock]]

Done(s) == api' = [api EXCEPT ![s] = IdleSession]

\* A group handler ends with bulk_job: its session keeps the requests as it
\* has written them.
Show(s, ops, items) ==
    api' = [api EXCEPT ![s] = [pc |-> "get", op |-> ops, item |-> items, lock |-> NothingRead]]

\* What a session writes of a column it has loaded as before.
Written(now, before, after) == IF after = before THEN now ELSE after

get_bulk_job(s) ==
    /\ \/ At(s, "idle") /\ ReadItems(s, "get_requests")
       \/ At(s, "get_requests") /\ ReadRequests(s, "refresh")
    /\ UNCHANGED <<op, item, lock, worker, used>>

\* bulk_job at the end of a group handler: the items may be read again.
show_bulk_job(s) ==
    /\ At(s, "get")
    /\ \E items \in {api[s].item, item} :
          api' = [api EXCEPT ![s] = [pc |-> "refresh", op |-> @.op, item |-> items, lock |-> @.lock]]
    /\ UNCHANGED <<op, item, lock, worker, used>>

\* Wrong variant: an item that shows an end is not looked at again.
refresh_unfinished(s) ==
    /\ At(s, "refresh")
    /\ item' = [o \in Ops |-> IF api[s].item[o] \in Terminal THEN item[o]
                              ELSE Written(item[o], api[s].item[o], api[s].op[o])]
    /\ Done(s)
    /\ UNCHANGED <<op, lock, worker, used>>

\* _refresh_bulk_job: each item takes the state its request had.
refresh_bulk_job(s) ==
    /\ At(s, "refresh")
    /\ item' = [o \in Ops |-> Written(item[o], api[s].item[o], api[s].op[o])]
    /\ Done(s)
    /\ UNCHANGED <<op, lock, worker, used>>

select_to_cancel(s) ==
    /\ \/ /\ At(s, "idle")
          /\ JobLockFree
          /\ used.cancels < MaxCancels
          /\ used' = [used EXCEPT !.cancels = @ + 1]
          /\ ReadItems(s, "cancel_requests")
       \/ /\ At(s, "cancel_requests")
          /\ ReadRequests(s, "cancel")
          /\ UNCHANGED used
    /\ UNCHANGED <<op, item, lock, worker>>

\* What cancel_bulk_job makes of the column a of the requests and items that
\* were unfinished when it read them.
Stopped(read, a) ==
    [o \in Ops |-> IF read.op[o] \in Terminal THEN a[o]
                   ELSE IF read.op[o] \in Claimed THEN "CANCEL_REQUESTED" ELSE "CANCELED"]

\* The columns as they are now, but for what the session changes.
Merged(now, before, after) == [o \in Ops |-> Written(now[o], before[o], after[o])]

\* Wrong variant: the lock rows are left to the worker.
cancel_keeping_locks(s) ==
    /\ At(s, "cancel")
    /\ LET read == api[s]
           ops == Stopped(read, read.op)
           items == Stopped(read, read.item)
       IN  /\ op' = Merged(op, read.op, ops)
           /\ item' = Merged(item, read.item, items)
           /\ Show(s, ops, items)
    /\ UNCHANGED <<lock, worker, used>>

\* cancel_bulk_job: what was unfinished when it was read is canceled, or
\* asked to stop if it was claimed.
cancel_bulk_job(s) ==
    /\ At(s, "cancel")
    /\ LET read == api[s]
           ops == Stopped(read, read.op)
           items == Stopped(read, read.item)
       IN  /\ op' = Merged(op, read.op, ops)
           /\ item' = Merged(item, read.item, items)
           /\ lock' = [o \in Ops |-> IF read.op[o] \in {"WAITING_APPROVAL", "QUEUED"}
                                     THEN Released(o)[o] ELSE lock[o]]
           /\ Show(s, ops, items)
    /\ UNCHANGED <<worker, used>>

\* The items of the read that retry_failed_bulk_job queues: failed, as the
\* item has it, and the table not locked for another request.
Retried(read) == {o \in Ops : read.item[o] = "FAILED" /\ read.lock[o] # "other"}

select_to_retry(s) ==
    /\ \/ /\ At(s, "idle")
          /\ JobLockFree
          /\ RetriesLeft
          /\ used' = [used EXCEPT !.group_retries = @ + 1]
          /\ ReadItems(s, "retry_requests")
       \/ /\ At(s, "retry_requests")
          /\ ReadRequests(s, "retry")
          /\ UNCHANGED used
    /\ UNCHANGED <<op, item, lock, worker>>

\* Nothing to retry, or a lock row it wants to insert exists by now.
retry_refused(s) ==
    /\ At(s, "retry")
    /\ \/ Retried(api[s]) = {}
       \/ \E o \in Retried(api[s]) : api[s].lock[o] = "none" /\ lock[o] # "none"
    /\ Done(s)
    /\ UNCHANGED <<op, item, lock, worker, used>>

\* Wrong variant: the lock row is replaced (INSERT ... ON CONFLICT UPDATE).
retry_taking_locks(s) ==
    /\ At(s, "retry")
    /\ Retried(api[s]) # {}
    /\ LET read == api[s]
           ops == [o \in Ops |-> IF o \in Retried(read) THEN "QUEUED" ELSE read.op[o]]
           items == [o \in Ops |-> IF o \in Retried(read) THEN "QUEUED" ELSE read.item[o]]
       IN  /\ op' = Merged(op, read.op, ops)
           /\ item' = Merged(item, read.item, items)
           /\ lock' = [o \in Ops |-> IF o \in Retried(read) /\ read.lock[o] = "none"
                                     THEN "own" ELSE lock[o]]
           /\ Show(s, ops, items)
    /\ UNCHANGED <<worker, used>>

\* retry_failed_bulk_job: the state of the request itself is not looked at.
retry_failed_bulk_job(s) ==
    /\ At(s, "retry")
    /\ Retried(api[s]) # {}
    /\ \A o \in Retried(api[s]) : api[s].lock[o] = "none" => lock[o] = "none"
    /\ LET read == api[s]
           ops == [o \in Ops |-> IF o \in Retried(read) THEN "QUEUED" ELSE read.op[o]]
           items == [o \in Ops |-> IF o \in Retried(read) THEN "QUEUED" ELSE read.item[o]]
       IN  /\ op' = Merged(op, read.op, ops)
           /\ item' = Merged(item, read.item, items)
           /\ lock' = [o \in Ops |-> IF o \in Retried(read) /\ read.lock[o] = "none"
                                     THEN "own" ELSE lock[o]]
           /\ Show(s, ops, items)
    /\ UNCHANGED <<worker, used>>

Group(s) ==
    \/ get_bulk_job(s) \/ show_bulk_job(s) \/ refresh_bulk_job(s)
    \/ select_to_cancel(s) \/ cancel_bulk_job(s)
    \/ select_to_retry(s) \/ retry_refused(s) \/ retry_failed_bulk_job(s)

-----------------------------------------------------------------------------
(***************************************************************************)
(* The worker: its mark_* transactions write whatever the columns hold     *)
(***************************************************************************)
\* The item is not written.
claim_operation(o) ==
    /\ worker.pc = "idle"
    /\ op[o] = "QUEUED"
    /\ lock[o] # "other"
    /\ op' = [op EXCEPT ![o] = "RUNNING"]
    /\ lock' = [lock EXCEPT ![o] = "own"]
    /\ worker' = [pc |-> "execute", op |-> o]
    /\ UNCHANGED <<item, api, used>>

\* The item is not written.
mark_verifying ==
    /\ worker.pc = "execute"
    /\ op' = [op EXCEPT ![worker.op] = "VERIFYING"]
    /\ worker' = [worker EXCEPT !.pc = "finish"]
    /\ UNCHANGED <<item, lock, api, used>>

\* Wrong variant: the loop keeps the request it has ended in hand.
conclude_keeping(to) ==
    /\ op' = [op EXCEPT ![worker.op] = to]
    /\ item' = [item EXCEPT ![worker.op] = to]
    /\ lock' = Released(worker.op)
    /\ worker' = [worker EXCEPT !.pc = "idle"]
    /\ UNCHANGED <<api, used>>

\* mark_succeeded, mark_failed and mark_canceled with finish_bulk_item.
Conclude(to) ==
    /\ op' = [op EXCEPT ![worker.op] = to]
    /\ item' = [item EXCEPT ![worker.op] = to]
    /\ lock' = Released(worker.op)
    /\ worker' = Idle
    /\ UNCHANGED <<api, used>>

mark_succeeded == worker.pc = "finish" /\ Conclude("SUCCEEDED")

mark_failed == worker.pc \in {"execute", "finish"} /\ Conclude("FAILED")

mark_canceled ==
    /\ worker.pc = "execute"
    /\ op[worker.op] \in {"CANCEL_REQUESTED", "CANCELED"}
    /\ Conclude("CANCELED")

Worker ==
    \/ \E o \in Ops : claim_operation(o)
    \/ mark_verifying \/ mark_succeeded \/ mark_failed \/ mark_canceled

Next ==
    \/ \E o \in Ops :
          \/ decide_operation(o) \/ retry_operation(o) \/ cancel_operation(o)
          \/ rival_approved(o) \/ rival_ended(o)
    \/ \E s \in Sessions : Group(s)
    \/ Worker

Spec == Init /\ [][Next]_vars

\* The worker takes its next step, a session that has begun ends, and the
\* page that shows the group reads it again and again.
FairSpec ==
    /\ Spec
    /\ WF_vars(Worker)
    /\ \A s \in Sessions :
          /\ WF_vars(get_bulk_job(s) \/ show_bulk_job(s) \/ refresh_bulk_job(s))
          /\ WF_vars(At(s, "cancel_requests") /\ select_to_cancel(s))
          /\ WF_vars(At(s, "retry_requests") /\ select_to_retry(s))
          /\ WF_vars(cancel_bulk_job(s) \/ retry_failed_bulk_job(s) \/ retry_refused(s))

-----------------------------------------------------------------------------
(***************************************************************************)
(* Properties                                                              *)
(***************************************************************************)
Locks == {"none", "own", "other"}

\* Every column and every local variable holds a value of its kind.
TypeOK ==
    /\ op \in [Ops -> States]
    /\ item \in [Ops -> States]
    /\ lock \in [Ops -> Locks]
    /\ worker \in [pc : {"idle", "execute", "finish"}, op : Ops \cup {None}]
    /\ worker.pc = "idle" <=> worker.op = None
    /\ api \in [Sessions -> [pc : {"idle", "get", "get_requests", "refresh", "cancel_requests",
                                   "cancel", "retry_requests", "retry"},
                             op : [Ops -> States \cup {""}],
                             item : [Ops -> States \cup {""}],
                             lock : [Ops -> Locks \cup {""}]]]
    /\ used \in [cancels : 0..MaxCancels, retries : 0..MaxRetries, group_retries : 0..MaxRetries]

(***************************************************************************)
(* DESIGN.md: the lock of a table is released in a terminal state.  This   *)
(* holds however the stale writes of group cancellations cross the claims, *)
(* ends, cancellations and retries of single requests, as long as no group *)
(* is retried.  (A group retry that crosses a cancellation can leave a     *)
(* lock: README, "Where the code departs from its documents".)             *)
(***************************************************************************)
CancelFreesLock ==
    used.group_retries = 0 => \A o \in Ops : lock[o] = "own" => op[o] \in Active

(***************************************************************************)
(* A group retry that has found a table free does not take its lock away   *)
(* from a request that has been approved since: only that request's end    *)
(* frees it.                                                               *)
(***************************************************************************)
RivalKeepsLock == [][\A o \in Ops : lock[o] = "other" => lock'[o] # "own"]_vars

(***************************************************************************)
(* The items are copies that most writers of a request do not maintain and *)
(* that every reader writes from stale reads; in the end they show the     *)
(* state of the requests.                                                  *)
(***************************************************************************)
ItemsFollow == <>[](item = op)

(***************************************************************************)
(* GUIDE.md: of a group, only the failed items are retried.  Nothing is    *)
(* queued but what was waiting for its approval or had failed.             *)
(***************************************************************************)
OnlyFailedRetried ==
    [][\A o \in Ops : op'[o] = "QUEUED" =>
         op[o] \in {"WAITING_APPROVAL", "FAILED", "QUEUED"}]_vars

=============================================================================
