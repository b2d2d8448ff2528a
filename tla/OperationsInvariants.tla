------------------------ MODULE OperationsInvariants ------------------------
(***************************************************************************)
(* The inductive invariants behind the theorems about Operations.  Inv     *)
(* holds whatever fails; FaultFreeInv holds when no failure leaves a batch *)
(* running behind the worker's back (Faults = {}).                         *)
(***************************************************************************)
EXTENDS Operations

\* The worker's local variables agree with the rows it works on.
WorkerHolds ==
    /\ worker.pc \in Busy =>
          /\ worker.op \in Ops
          /\ worker.att = attempts[worker.op]
          /\ state[worker.op] \in Claimed
    /\ worker.pc \notin Busy => worker.op = None
    /\ worker.pc \in {"verify", "finish", "write"} => worker.after \in Snapshots
    /\ worker.pc = "write" => worker.loaded \in Snapshots
    /\ worker.pc = "success" => batch[worker.op][worker.att] = "success"
    /\ worker.pc \in {"record", "wait", "poll"} =>
          batch[worker.op][worker.att] # "absent"
    /\ worker.pc = "next" => \A o \in Ops, a \in Attempts : ~Unsubmitted(o, a)

\* The worker is sequential, so at most one request is claimed.
OneClaimed ==
    \A o, q \in Ops : state[o] \in Claimed /\ state[q] \in Claimed => o = q

\* A queued request has an attempt left (the users' retries are bounded),
\* and one that was never approved has had none.
AttemptsLeft ==
    \A o \in Ops :
        /\ state[o] \in {"ABSENT", "WAITING_APPROVAL", "REJECTED"} => attempts[o] = 0
        /\ state[o] = "QUEUED" => attempts[o] < MaxAttempts
        /\ state[o] \in Claimed => attempts[o] > 0

\* What has passed approval has an approver, and never the requester.
Approved ==
    \A o \in Ops :
        /\ state[o] \in Active \cup {"FAILED"} \/ attempts[o] > 0 => approver[o] # None
        /\ approver[o] # None => ~SamePerson(o, approver[o])

\* A recorded batch id is that of a batch Livy has created, and a batch that
\* succeeded has reported the snapshot it left.
BatchesKnown ==
    \A o \in Ops, a \in Attempts :
        /\ external_id[o][a] => batch[o][a] # "absent"
        /\ batch[o][a] = "success" => report[o][a] \in Snapshots

(***************************************************************************)
(* What the lock, the worker and the executions keep of each other at      *)
(* every step of services.py and worker.py, with any failures.             *)
(***************************************************************************)
Inv ==
    /\ TypeOK
    /\ LockIffActive
    /\ ClaimedIsCarried
    /\ WorkerHolds
    /\ OneClaimed
    /\ AttemptsLeft
    /\ Approved
    /\ BatchesKnown

\* A live batch belongs to the latest attempt of the claimed request, the
\* worker has not given it up, and the next process could find it.
LiveIsClaimed ==
    \A o \in Ops, a \in Attempts : Live(o, a) =>
        /\ state[o] \in Claimed
        /\ a = attempts[o]
        /\ worker.pc \in {"record", "wait", "poll", "kill_cancel", "kill_timeout",
                          "down", "next"}
        /\ worker.pc # "record" => external_id[o][a]

\* Batches are posted by the attempts there have been.
PostedByAttempts ==
    \A o \in Ops, a \in Attempts : batch[o][a] # "absent" => a <= attempts[o]

\* A new attempt is posted once: a new process only asks for its batch.
SubmittedOnce ==
    worker.pc = "submit" => batch[worker.op][worker.att] = "absent"

\* Nothing else moves the snapshot between the check and the procedure.
CheckedOnPlan ==
    \A o \in Ops, a \in Attempts :
        /\ TableOf[o] \notin ExternalTables
        /\ batch[o][a] = "checked"
        => actual[TableOf[o]] = expected[o][a]

\* Nothing moves it between the batch's report and the worker's commit.
ReportIsCurrent ==
    \A o \in Ops : TableOf[o] \notin ExternalTables /\ state[o] \in Claimed =>
        /\ batch[o][attempts[o]] = "success"
           => report[o][attempts[o]] = actual[TableOf[o]]
        /\ worker.pc \in {"success", "verify", "finish", "write"}
           => batch[o][attempts[o]] = "success"
        /\ worker.pc \in {"verify", "finish", "write"}
           => worker.after = actual[TableOf[o]]

(***************************************************************************)
(* What the worker, the batches and the snapshots keep of each other when  *)
(* no failure separates the worker from a running batch.                   *)
(***************************************************************************)
FaultFreeInv ==
    /\ LiveIsClaimed
    /\ PostedByAttempts
    /\ SubmittedOnce
    /\ CheckedOnPlan
    /\ ReportIsCurrent
=============================================================================
