------------------------ MODULE OperationsRefinement ------------------------
(***************************************************************************)
(* The two promises that Operations implements.  What one step can do to   *)
(* the requests' states: a request that has ended stays ended, and the     *)
(* requests of a table are active one at a time, as TableSerialization has *)
(* it.  And what one step can do to a table: while no batch is abandoned,  *)
(* each execution is one conditional commit, as ConditionalCommits has it. *)
(***************************************************************************)
EXTENDS OperationsFaultFree

USE ConstantsAssumption

\* The transitions of a request that some handler or transaction makes.
Transition(o, s) ==
    \/ state[o] = "ABSENT" /\ s = "WAITING_APPROVAL"
    \/ state[o] = "WAITING_APPROVAL" /\ s \in {"REJECTED", "CANCELED"}
    \/ /\ state[o] \in {"WAITING_APPROVAL", "FAILED"} /\ s = "QUEUED"
       /\ LockAvailable(o)
    \/ state[o] = "QUEUED" /\ s \in {"RUNNING", "CANCELED"}
    \/ /\ state[o] \in Claimed
       /\ s \in {"VERIFYING", "CANCEL_REQUESTED", "SUCCEEDED", "FAILED", "CANCELED"}

Transits == \E o \in Ops, s \in States :
    state' = [state EXCEPT ![o] = s] /\ Transition(o, s)

\* The API's handlers make one transition of the request they are called for.
LEMMA ApiTransits == ASSUME Inv, Api PROVE Transits
<1> USE DEF Transits, Transition, States, Active, Claimed, Terminal
<1>1. PICK o \in Ops :
         \/ create_operation(o)
         \/ \E u \in Users, d \in {"APPROVED", "REJECTED"} : decide_operation(o, u, d)
         \/ retry_operation(o)
         \/ cancel_operation(o)
  BY DEF Api
<1>2. CASE create_operation(o)
  BY <1>2 DEF create_operation
<1>3. ASSUME NEW u \in Users, NEW d \in {"APPROVED", "REJECTED"}, decide_operation(o, u, d)
      PROVE  Transits
  BY <1>3 DEF decide_operation
<1>4. CASE retry_operation(o)
  BY <1>4 DEF retry_operation, Retryable
<1>5. CASE cancel_operation(o)
  BY <1>5 DEF cancel_operation
<1>6. QED
  BY <1>1, <1>2, <1>3, <1>4, <1>5

\* recover_stale_executions ends no more than the one claimed request.
LEMMA RecoverTransits ==
    ASSUME Inv, recover_stale_executions PROVE UNCHANGED state \/ Transits
<1> DEFINE failed == {o \in Ops : \E a \in Attempts : Unsubmitted(o, a)}
<1>1. state' = [o \in Ops |-> IF o \in failed THEN "FAILED" ELSE state[o]]
  BY DEF recover_stale_executions
<1>2. state \in [Ops -> States]
  BY DEF Inv, TypeOK
<1>3. \A o \in failed : state[o] \in Claimed
  BY DEF Inv, ClaimedIsCarried, Unsubmitted
<1>4. CASE failed = {}
  BY <1>1, <1>2, <1>4
<1>5. CASE failed # {}
  <2>1. PICK o \in Ops : o \in failed
    BY <1>5
  <2>2. failed = {o}
    BY <1>3, <2>1 DEF Inv, OneClaimed
  <2> HIDE DEF failed
  <2>3. state' = [state EXCEPT ![o] = "FAILED"]
    BY <1>1, <1>2, <2>2
  <2>4. Transition(o, "FAILED") /\ "FAILED" \in States
    BY <1>3, <2>1 DEF Transition, States, Terminal
  <2>5. QED
    BY <2>3, <2>4 DEF Transits
<1>6. QED
  BY <1>4, <1>5

\* The worker's transactions make one transition of the request in hand.
LEMMA WorkerTransits == ASSUME Inv, Worker PROVE UNCHANGED state \/ Transits
<1>1. worker.pc \in Busy => worker.op \in Ops /\ state[worker.op] \in Claimed
  BY DEF Inv, WorkerHolds
<1>2. ASSUME NEW o \in Ops, claim_operation(o) PROVE Transits
  BY <1>2 DEF claim_operation, Transits, Transition, States, Active, Claimed
<1>3. CASE submit_batch \/ mark_submitted \/ Looks \/ delete_batch \/ resume_next
  BY <1>3, LooksUnchanged DEF submit_batch, mark_submitted, delete_batch, resume_next,
                              requestVars
<1>4. CASE mark_verifying
  BY <1>1, <1>4 DEF mark_verifying, Busy, Transits, Transition, States, Active, Claimed
<1>5. ASSUME NEW outcome \in {"SUCCEEDED", "FAILED", "CANCELED"}, worker.pc \in Busy,
             Conclude(outcome)
      PROVE  Transits
  BY <1>1, <1>5 DEF Conclude, Transits, Transition, States, Terminal
<1>6. CASE mark_succeeded \/ mark_failed \/ mark_canceled
  BY <1>5, <1>6 DEF mark_succeeded, mark_failed, mark_canceled, Busy
<1>7. CASE recover_stale_executions
  BY <1>7, RecoverTransits
<1>8. QED
  BY <1>2, <1>3, <1>4, <1>6, <1>7, WorkerCases DEF Ends

\* Every step makes at most one transition, of one request.
LEMMA OneTransition == ASSUME Inv, [Next]_vars PROVE UNCHANGED state \/ Transits
<1>1. CASE Registry \/ crash \/ Engine \/ UNCHANGED vars
  BY <1>1 DEF Registry, inspect_table, sync_inspected_table, crash, Engine, check_snapshot,
              run_procedure, emit_result, batch_dies, external_commit, vars, requestVars
<1>2. QED
  BY <1>1, ApiTransits, WorkerTransits DEF Next

\* A terminal state is final but for the retry of a failed request: no late
\* answer, recovery or crossing cancellation revives a request.
THEOREM EndedTheorem == Spec => EndedStaysEnded
<1> DEFINE Stays == \A o \in Ops : state[o] \in Terminal /\ state'[o] # state[o]
                       => state[o] = "FAILED" /\ state'[o] = "QUEUED"
<1>1. ASSUME Inv, [Next]_vars PROVE [Stays]_vars
  <2>1. CASE UNCHANGED state
    BY <2>1
  <2>2. ASSUME NEW o \in Ops, NEW s \in States, state' = [state EXCEPT ![o] = s],
               Transition(o, s)
        PROVE  Stays
    BY <2>2 DEF Transition, Claimed, Terminal, Inv, TypeOK
  <2>3. QED
    BY <1>1, <2>1, <2>2, OneTransition DEF Transits
<1>2. QED
  BY <1>1, Invariance, PTL DEF Spec, EndedStaysEnded

-----------------------------------------------------------------------------
\* A transition of the detailed states is a step of the abstract status, or none.
LEMMA TransitionRefines ==
    ASSUME Inv, NEW o \in Ops, NEW s \in States,
           state' = [state EXCEPT ![o] = s], Transition(o, s)
    PROVE  [Serialization!Next]_[q \in Ops |-> Status(state[q])]
<1> DEFINE abs == [q \in Ops |-> Status(state[q])]
<1> USE DEF Claimed, Active
<1>1. abs' = [abs EXCEPT ![o] = Status(s)]
  BY DEF Inv, TypeOK
<1>2. CASE Status(s) = Status(state[o])
  BY <1>1, <1>2
<1>3. CASE state[o] = "ABSENT" /\ s = "WAITING_APPROVAL"
  <2>1. Serialization!Submit(o)
    BY <1>1, <1>3 DEF Serialization!Submit, Serialization!Becomes, Status
  <2>2. QED
    BY <2>1 DEF Serialization!Next
<1>4. CASE state[o] = "WAITING_APPROVAL" /\ s \in {"REJECTED", "CANCELED"}
  <2>1. Serialization!Dismiss(o)
    BY <1>1, <1>4 DEF Serialization!Dismiss, Serialization!Becomes, Status
  <2>2. QED
    BY <2>1 DEF Serialization!Next
<1>5. CASE /\ state[o] \in {"WAITING_APPROVAL", "FAILED"} /\ s = "QUEUED"
           /\ LockAvailable(o)
  <2>1. ASSUME NEW q \in Ops, q # o, TableOf[q] = TableOf[o]
        PROVE  abs[q] # "active"
    <3>1. lock[TableOf[q]] # q
      BY <1>5, <2>1 DEF LockAvailable
    <3>2. state[q] \in States /\ state[q] \notin Active
      BY <2>1, <3>1 DEF Inv, TypeOK, LockIffActive
    <3>3. QED
      BY <3>2 DEF Status, States, Terminal
  <2>2. Serialization!Activate(o)
    BY <1>1, <1>5, <2>1 DEF Serialization!Activate, Serialization!Becomes, Status
  <2>3. QED
    BY <2>2 DEF Serialization!Next
<1>6. CASE state[o] \in Active /\ s \in {"SUCCEEDED", "FAILED", "CANCELED"}
  <2>1. Serialization!Finish(o)
    BY <1>1, <1>6 DEF Serialization!Finish, Serialization!Becomes, Status
  <2>2. QED
    BY <2>1 DEF Serialization!Next
<1>7. CASE state[o] \in Active /\ s \in Active
  BY <1>2, <1>7 DEF Status
<1>8. QED
  BY <1>3, <1>4, <1>5, <1>6, <1>7 DEF Transition

\* Locks, worker, recovery and Livy together implement the abstract
\* serialization: the requests of a table become active one at a time.
THEOREM RefinementTheorem == Spec => ImplementsSerialization
<1>1. Init => Serialization!Init
  BY DEF Init, Serialization!Init, Status, Active, Claimed
<1>2. ASSUME Inv, [Next]_vars PROVE [Serialization!Next]_[o \in Ops |-> Status(state[o])]
  <2>1. CASE UNCHANGED state
    BY <2>1
  <2>2. QED
    BY <1>2, <2>1, OneTransition, TransitionRefines DEF Transits
<1>3. QED
  BY <1>1, <1>2, Invariance, PTL DEF Spec, ImplementsSerialization, Serialization!Spec

-----------------------------------------------------------------------------
(***************************************************************************)
(* Operations implements ConditionalCommits.                               *)
(***************************************************************************)
NoCall == [phase |-> "none", snapshot |-> None]
Over == [phase |-> "over", snapshot |-> None]
Refines == [Promise!Next]_<<PromisedTable, PromisedCall>>

\* The executions of a table only this system writes.
LEMMA ExecutionOf ==
    ASSUME NEW o \in Ops, NEW a \in Attempts, TableOf[o] \notin ExternalTables
    PROVE  /\ <<o, a>> \in Executions /\ TableOf[o] \in PromisedTables
           /\ PromisedCall[<<o, a>>] = PromisedCallOf(o, a)
BY DEF Executions, PromisedTables, PromisedCall

\* Where at most one execution's call changes, and what it becomes.
LEMMA CallUpdate ==
    ASSUME NEW o \in Ops, NEW a \in Attempts,
           \A q \in Ops, b \in Attempts : TableOf[q] \in PromisedTables /\ ~(q = o /\ b = a) =>
               PromisedCallOf(q, b)' = PromisedCallOf(q, b)
    PROVE  PromisedCall' = [PromisedCall EXCEPT ![<<o, a>>] = PromisedCallOf(o, a)']
<1>1. ASSUME NEW e \in Executions
      PROVE  PromisedCall'[e] = IF e = <<o, a>> THEN PromisedCallOf(o, a)' ELSE PromisedCall[e]
  <2>1. PICK q \in Ops, b \in Attempts : e = <<q, b>> /\ TableOf[q] \in PromisedTables
    BY DEF Executions
  <2>2. PromisedCall'[e] = PromisedCallOf(q, b)' /\ PromisedCall[e] = PromisedCallOf(q, b)
    BY <1>1, <2>1 DEF PromisedCall
  <2>3. QED
    BY <2>1, <2>2
<1>2. QED
  BY <1>1 DEF PromisedCall

\* A step that moves at most one call, of any table, and leaves the tables
\* only this system writes alone.
LEMMA CallRefines ==
    ASSUME NEW o \in Ops, NEW a \in Attempts,
           \A t \in PromisedTables : actual'[t] = actual[t],
           \A q \in Ops, b \in Attempts : TableOf[q] \in PromisedTables /\ ~(q = o /\ b = a) =>
               PromisedCallOf(q, b)' = PromisedCallOf(q, b),
           TableOf[o] \in PromisedTables =>
               \/ PromisedCallOf(o, a)' \in {PromisedCallOf(o, a), Over}
               \/ /\ PromisedCallOf(o, a) = NoCall
                  /\ \E plan \in Snapshots \cup {None} :
                        PromisedCallOf(o, a)' = [phase |-> "asked", snapshot |-> plan]
    PROVE  Refines
<1>1. UNCHANGED PromisedTable
  BY DEF PromisedTable
<1>2. PromisedCall' = [PromisedCall EXCEPT ![<<o, a>>] = PromisedCallOf(o, a)']
  BY CallUpdate
<1>3. CASE <<o, a>> \notin Executions
  BY <1>1, <1>2, <1>3 DEF Refines, PromisedCall
<1>4. CASE <<o, a>> \in Executions
  <2>1. TableOf[o] \in PromisedTables /\ PromisedCall[<<o, a>>] = PromisedCallOf(o, a)
    BY <1>4 DEF Executions, PromisedCall
  <2>2. PromisedCall = [PromisedCall EXCEPT ![<<o, a>>] = PromisedCallOf(o, a)]
    BY <1>4, <2>1 DEF PromisedCall
  <2>3. CASE PromisedCallOf(o, a)' = PromisedCallOf(o, a)
    BY <1>1, <1>2, <2>2, <2>3 DEF Refines
  <2>4. CASE PromisedCallOf(o, a)' = Over
    <3>1. Promise!GiveUp(<<o, a>>)
      BY <1>1, <1>2, <2>1, <2>4 DEF Promise!GiveUp, Promise!Becomes, Promise!Over, Over
    <3>2. QED
      BY <1>4, <3>1 DEF Promise!Next, Refines
  <2>5. ASSUME PromisedCallOf(o, a) = NoCall, NEW plan \in Snapshots \cup {None},
               PromisedCallOf(o, a)' = [phase |-> "asked", snapshot |-> plan]
        PROVE  Refines
    <3>1. Promise!Ask(<<o, a>>)
      BY <1>1, <1>2, <2>1, <2>5
         DEF Promise!Ask, Promise!Becomes, Promise!NoCall, Promise!Asked, NoCall
    <3>2. QED
      BY <1>4, <3>1 DEF Promise!Next, Refines
  <2>6. QED
    BY <2>1, <2>3, <2>4, <2>5
<1>5. QED
  BY <1>3, <1>4

\* The procedure is the one step in which a call acts: its table is on the
\* plan, and no other execution is between its procedure and its report.
LEMMA ProcedureRefines ==
    ASSUME Inv, FaultFreeInv, NEW o \in Ops, NEW a \in Attempts, run_procedure(o, a)
    PROVE  Refines
<1>1. /\ actual \in [Tables -> Snapshots] /\ TableOf[o] \in Tables
      /\ batch \in [Ops -> [Attempts -> BatchStates]]
  BY DEF Inv, TypeOK
<1>2. /\ batch[o][a] = "checked" /\ batch' = [batch EXCEPT ![o][a] = "committed"]
      /\ UNCHANGED <<expected, report>>
  BY DEF run_procedure, BatchIs, executionVars
<1>3. PICK left \in Snapshots : actual' = [actual EXCEPT ![TableOf[o]] = left]
  BY DEF run_procedure
<1>4. ASSUME NEW q \in Ops, NEW b \in Attempts, ~(q = o /\ b = a)
      PROVE  PromisedCallOf(q, b)' = PromisedCallOf(q, b)
  <2>1. batch'[q][b] = batch[q][b]
    BY <1>1, <1>2, <1>4
  <2>2. ~Live(q, b)
    BY <1>2, <1>4, OneLive DEF Live, LiveStates, FaultFreeInv
  <2>3. QED
    BY <1>2, <2>1, <2>2 DEF PromisedCallOf, Live, LiveStates
<1>5. PromisedCall' = [PromisedCall EXCEPT ![<<o, a>>] = PromisedCallOf(o, a)']
  BY <1>4, CallUpdate
<1>6. CASE TableOf[o] \in ExternalTables
  BY <1>1, <1>3, <1>4, <1>6, CallRefines DEF PromisedTables
<1>7. CASE TableOf[o] \notin ExternalTables
  <2>1. /\ <<o, a>> \in Executions /\ TableOf[o] \in PromisedTables
        /\ PromisedCall[<<o, a>>] = PromisedCallOf(o, a)
    BY <1>7, ExecutionOf
  <2>2. PromisedCallOf(o, a) = [phase |-> "asked", snapshot |-> actual[TableOf[o]]]
    BY <1>2, <1>7 DEF PromisedCallOf, FaultFreeInv, CheckedOnPlan
  <2>3. PromisedCallOf(o, a)' = [phase |-> "acted", snapshot |-> left]
    BY <1>1, <1>2, <1>3 DEF PromisedCallOf
  <2>4. PromisedTable' = [PromisedTable EXCEPT ![TableOf[o]] = left]
    BY <1>1, <1>3, <2>1 DEF PromisedTable, PromisedTables
  <2>5. PromisedTable[TableOf[o]] = actual[TableOf[o]]
    BY <2>1 DEF PromisedTable
  <2>6. [e \in Executions |-> TableOf[e[1]]][<<o, a>>] = TableOf[o]
    BY <2>1
  <2>7. Promise!Act(<<o, a>>)
    BY <1>5, <2>1, <2>2, <2>3, <2>4, <2>5, <2>6
       DEF Promise!Act, Promise!Becomes, Promise!Asked, Promise!Acted
  <2>8. QED
    BY <2>1, <2>7 DEF Promise!Next, Refines
<1>8. QED
  BY <1>6, <1>7

\* Every other step of a batch leaves the tables of this system, and what is
\* reported of them, as they are.
LEMMA EngineRefines == ASSUME Inv, FaultFreeInv, Engine PROVE Refines
<1>1. /\ actual \in [Tables -> Snapshots] /\ TableOf \in [Ops -> Tables]
      /\ batch \in [Ops -> [Attempts -> BatchStates]]
      /\ report \in [Ops -> [Attempts -> Snapshots \cup {None}]]
  BY DEF Inv, TypeOK
<1>2. ASSUME NEW o \in Ops, NEW a \in Attempts, NEW from, NEW to, BatchIs(o, a, from, to)
      PROVE  /\ batch[o][a] \in from /\ batch'[o][a] = to
             /\ \A q \in Ops, b \in Attempts : ~(q = o /\ b = a) => batch'[q][b] = batch[q][b]
  BY <1>1, <1>2 DEF BatchIs
<1>3. ASSUME NEW o \in Ops, NEW a \in Attempts, check_snapshot(o, a) \/ batch_dies(o, a)
      PROVE  Refines
  <2>1. UNCHANGED <<expected, actual, report>>
    BY <1>3 DEF check_snapshot, batch_dies, executionVars
  <2>2. PICK from, to : /\ BatchIs(o, a, from, to)
                        /\ to \in {"dead", "killed"} \/ (from = {"starting"} /\ to = "checked")
    BY <1>3 DEF check_snapshot, batch_dies
  <2>3. PromisedCallOf(o, a)' \in {PromisedCallOf(o, a), Over}
    BY <1>2, <2>1, <2>2 DEF PromisedCallOf, Over
  <2>4. \A q \in Ops, b \in Attempts : ~(q = o /\ b = a) =>
            PromisedCallOf(q, b)' = PromisedCallOf(q, b)
    BY <1>2, <2>1, <2>2 DEF PromisedCallOf
  <2>5. QED
    BY <2>1, <2>3, <2>4, CallRefines
<1>4. ASSUME NEW o \in Ops, NEW a \in Attempts, emit_result(o, a) PROVE Refines
  <2>1. /\ UNCHANGED <<expected, actual>> /\ BatchIs(o, a, {"committed"}, "success")
        /\ report' = [report EXCEPT ![o][a] = actual[TableOf[o]]]
    BY <1>4 DEF emit_result, executionVars
  <2>2. /\ report'[o][a] = actual[TableOf[o]]
        /\ \A q \in Ops, b \in Attempts : ~(q = o /\ b = a) => report'[q][b] = report[q][b]
    BY <1>1, <2>1
  <2>3. PromisedCallOf(o, a)' = PromisedCallOf(o, a)
    BY <1>2, <2>1, <2>2 DEF PromisedCallOf
  <2>4. \A q \in Ops, b \in Attempts : ~(q = o /\ b = a) =>
            PromisedCallOf(q, b)' = PromisedCallOf(q, b)
    BY <1>2, <2>1, <2>2 DEF PromisedCallOf
  <2>5. QED
    BY <2>1, <2>3, <2>4, CallRefines
<1>5. ASSUME NEW t \in Tables, external_commit(t) PROVE Refines
  <2>1. UNCHANGED <<expected, batch, report>> /\ \A p \in PromisedTables : actual'[p] = actual[p]
    BY <1>1, <1>5 DEF external_commit, executionVars, PromisedTables
  <2>2. \A q \in Ops, b \in Attempts : TableOf[q] \in PromisedTables =>
            PromisedCallOf(q, b)' = PromisedCallOf(q, b)
    BY <2>1 DEF PromisedCallOf
  <2>3. PromisedCall' = PromisedCall /\ PromisedTable' = PromisedTable
    BY <2>1, <2>2 DEF PromisedCall, PromisedTable, Executions
  <2>4. QED
    BY <2>3 DEF Refines
<1>6. QED
  BY <1>3, <1>4, <1>5, ProcedureRefines DEF Engine

\* The worker posts the batch of a new attempt, and kills the one in hand.
LEMMA WorkerRefines ==
    ASSUME Inv, FaultFreeInv, submit_batch \/ delete_batch
    PROVE  Refines
<1>0. worker.op \in Ops /\ worker.att \in Attempts
  BY DEF submit_batch, delete_batch, Busy, Inv, TypeOK, WorkerHolds, AttemptsLeft, Attempts
<1>1. PICK o \in Ops, a \in Attempts : o = worker.op /\ a = worker.att
  BY <1>0
<1>2. batch \in [Ops -> [Attempts -> BatchStates]] /\ expected[o][a] \in Snapshots \cup {None}
  BY <1>1 DEF Inv, TypeOK
<1>3. UNCHANGED <<expected, actual, report>>
  BY DEF submit_batch, delete_batch, executionVars
<1>4. CASE UNCHANGED batch
  BY <1>1, <1>3, <1>4, CallRefines DEF PromisedCallOf
<1>5. ASSUME NEW to \in {"starting", "killed"}, batch' = [batch EXCEPT ![o][a] = to],
             to = "starting" => batch[o][a] = "absent"
      PROVE  Refines
  <2>1. /\ batch'[o][a] = to
        /\ \A q \in Ops, b \in Attempts : ~(q = o /\ b = a) => batch'[q][b] = batch[q][b]
    BY <1>1, <1>2, <1>5
  <2>2. \A q \in Ops, b \in Attempts : ~(q = o /\ b = a) =>
            PromisedCallOf(q, b)' = PromisedCallOf(q, b)
    BY <1>3, <2>1 DEF PromisedCallOf
  <2>3. CASE to = "killed"
    <3>1. PromisedCallOf(o, a)' = Over
      BY <2>1, <2>3 DEF PromisedCallOf, Over
    <3>2. QED
      BY <1>1, <1>3, <2>2, <3>1, CallRefines
  <2>4. CASE to = "starting"
    <3>1. PromisedCallOf(o, a) = NoCall
      BY <1>5, <2>4 DEF PromisedCallOf, NoCall
    <3>2. PromisedCallOf(o, a)' = [phase |-> "asked", snapshot |-> expected[o][a]]
      BY <1>3, <2>1, <2>4 DEF PromisedCallOf
    <3>3. QED
      BY <1>1, <1>2, <1>3, <2>2, <3>1, <3>2, CallRefines
  <2>5. QED
    BY <2>3, <2>4
<1>6. submit_batch => batch[o][a] = "absent"
  BY <1>1 DEF submit_batch, FaultFreeInv, SubmittedOnce
<1>7. QED
  BY <1>1, <1>4, <1>5, <1>6 DEF submit_batch, delete_batch

\* A claim fixes the plan of an attempt that has no batch yet.
LEMMA ClaimRefines ==
    ASSUME Inv, FaultFreeInv, NEW o \in Ops, claim_operation(o)
    PROVE  Refines
<1>1. attempts[o] + 1 \in Attempts /\ attempts[o] \in Nat
  BY DEF claim_operation, Inv, TypeOK, AttemptsLeft, Attempts
<1>2. batch[o][attempts[o] + 1] = "absent"
  BY <1>1 DEF FaultFreeInv, PostedByAttempts
<1>3. /\ UNCHANGED <<batch, report, actual>>
      /\ expected' = [expected EXCEPT ![o][attempts[o] + 1] = planned[o]]
  BY DEF claim_operation, livyVars
<1>4. expected \in [Ops -> [Attempts -> Snapshots \cup {None}]]
  BY DEF Inv, TypeOK
<1>5. ASSUME NEW q \in Ops, NEW b \in Attempts
      PROVE  PromisedCallOf(q, b)' = PromisedCallOf(q, b)
  <2>1. CASE q = o /\ b = attempts[o] + 1
    BY <1>2, <1>3, <2>1 DEF PromisedCallOf
  <2>2. CASE ~(q = o /\ b = attempts[o] + 1)
    <3>1. expected'[q][b] = expected[q][b]
      BY <1>1, <1>3, <1>4, <2>2
    <3>2. QED
      BY <1>3, <3>1 DEF PromisedCallOf
  <2>3. QED
    BY <2>1, <2>2
<1>6. QED
  BY <1>1, <1>3, <1>5, CallRefines

\* Nothing else touches a table, a batch, a report or a plan.
LEMMA StepRefines == ASSUME Inv, FaultFreeInv, [Next]_vars PROVE Refines
<1>1. ASSUME UNCHANGED <<batch, report, actual, expected>> PROVE Refines
  BY <1>1 DEF Refines, PromisedTable, PromisedCall, PromisedCallOf
<1>2. CASE Api \/ Registry \/ crash \/ UNCHANGED vars
  <2>1. UNCHANGED <<batch, report, actual, expected>>
    BY <1>2 DEF Api, create_operation, decide_operation, retry_operation, cancel_operation,
                Registry, inspect_table, sync_inspected_table, crash, vars, livyVars,
                executionVars
  <2>2. QED
    BY <1>1, <2>1
<1>3. CASE mark_submitted \/ Looks \/ mark_verifying \/ Ends \/ resume_next
           \/ recover_stale_executions
  <2>1. UNCHANGED <<batch, report, actual, expected>>
    BY <1>3, LooksUnchanged DEF mark_submitted, mark_verifying, Ends, mark_succeeded,
                mark_failed, mark_canceled, Conclude, resume_next, recover_stale_executions,
                livyVars, executionVars
  <2>2. QED
    BY <1>1, <2>1
<1>4. QED
  BY <1>2, <1>3, ClaimRefines, WorkerRefines, EngineRefines, WorkerCases DEF Next

\* While no batch is abandoned, worker, Livy and the Spark job together
\* implement the abstract promise: each execution is one conditional commit
\* on its table (main in iceberg_maintenance.py), and reports what it left.
THEOREM CommitsRefinement ==
    ASSUME Faults = {} PROVE Spec => ImplementsCommits
<1>1. Init => Promise!Init
  <2> SUFFICES ASSUME Init PROVE Promise!Init
    OBVIOUS
  <2>1. PromisedTable \in [PromisedTables -> Snapshots]
    BY DEF Init, PromisedTable, PromisedTables
  <2>2. \A e \in Executions : PromisedCall[e] = NoCall
    <3>1. ASSUME NEW o \in Ops, NEW a \in Attempts PROVE PromisedCallOf(o, a) = NoCall
      BY DEF Init, PromisedCallOf, NoCall
    <3>2. QED
      BY <3>1 DEF PromisedCall, Executions
  <2>3. PromisedCall = [e \in Executions |-> NoCall]
    BY <2>2 DEF PromisedCall
  <2>4. QED
    BY <2>1, <2>3 DEF Promise!Init, Promise!NoCall, NoCall
<1>2. Inv /\ FaultFreeInv /\ [Next]_vars => [Promise!Next]_<<PromisedTable, PromisedCall>>
  BY StepRefines DEF Refines
<1>3. QED
  BY <1>1, <1>2, FaultFreeInvariance, PTL DEF Spec, ImplementsCommits, Promise!Spec
=============================================================================
