----------------------- MODULE BulkOperationsProofs -----------------------
(***************************************************************************)
(* The safety properties of BulkOperations for any number of requests,     *)
(* sessions, cancellations and retries.                                    *)
(***************************************************************************)
EXTENDS BulkOperations, TLAPS

USE BulkAssumption

-----------------------------------------------------------------------------
(***************************************************************************)
(* The inductive invariant.                                                *)
(***************************************************************************)
\* What a session has read by the time it is where it is.
ReadsDone ==
    \A s \in Sessions :
        /\ api[s].pc # "idle" => api[s].item \in [Ops -> States]
        /\ api[s].pc \in {"get", "refresh", "cancel", "retry"} => api[s].op \in [Ops -> States]

\* A group retry that is under way has been counted.
RetriesCounted ==
    \A s \in Sessions : api[s].pc \in {"retry_requests", "retry"} => used.group_retries # 0

Inv == TypeOK /\ ReadsDone /\ RetriesCounted /\ CancelFreesLock

WorkerKind == [pc : {"idle", "execute", "finish"}, op : Ops \cup {None}]
SessionKind == [pc : {"idle", "get", "get_requests", "refresh", "cancel_requests",
                      "cancel", "retry_requests", "retry"},
                op : [Ops -> States \cup {""}], item : [Ops -> States \cup {""}],
                lock : [Ops -> Locks \cup {""}]]
UsedKind == [cancels : 0..MaxCancels, retries : 0..MaxRetries, group_retries : 0..MaxRetries]

LEMMA TypesOf ==
    ASSUME Inv
    PROVE  /\ op \in [Ops -> States] /\ item \in [Ops -> States] /\ lock \in [Ops -> Locks]
           /\ worker \in WorkerKind /\ (worker.pc = "idle" <=> worker.op = None)
           /\ api \in [Sessions -> SessionKind] /\ used \in UsedKind
BY DEF Inv, TypeOK, WorkerKind, SessionKind, UsedKind

\* What a request outside the group has, no request of the group takes.
Keeps == \A o \in Ops : lock[o] = "other" => lock'[o] # "own"

\* A lock row stands only for an unfinished request, unless a group was retried.
Frees == used'.group_retries = 0 => \A o \in Ops : lock'[o] = "own" => op'[o] \in Active

-----------------------------------------------------------------------------
(***************************************************************************)
(* The operators the group handlers are made of.                           *)
(***************************************************************************)
\* A column keeps the value of now, or takes the one computed from the read.
LEMMA MergedKind ==
    ASSUME NEW now \in [Ops -> States], NEW before, NEW after \in [Ops -> States]
    PROVE  /\ Merged(now, before, after) \in [Ops -> States]
           /\ \A o \in Ops : Merged(now, before, after)[o] =
                 IF after[o] = before[o] THEN now[o] ELSE after[o]
BY DEF Merged, Written

\* What is canceled at once was waiting or queued when it was read.
LEMMA StoppedKind ==
    ASSUME NEW read, read.op \in [Ops -> States], NEW a \in [Ops -> States]
    PROVE  /\ Stopped(read, a) \in [Ops -> States]
           /\ \A o \in Ops :
                 \/ read.op[o] \in Terminal /\ Stopped(read, a)[o] = a[o]
                 \/ read.op[o] \in Claimed /\ Stopped(read, a)[o] = "CANCEL_REQUESTED"
                 \/ /\ read.op[o] \in {"WAITING_APPROVAL", "QUEUED"}
                    /\ Stopped(read, a)[o] = "CANCELED"
BY DEF Stopped, States, Active, Claimed, Terminal

LEMMA ReleasedKind ==
    ASSUME Inv, NEW o \in Ops
    PROVE  /\ Released(o) \in [Ops -> Locks]
           /\ Released(o)[o] # "own"
           /\ lock[o] = "other" => Released(o)[o] = "other"
           /\ \A p \in Ops : p # o => Released(o)[p] = lock[p]
BY TypesOf DEF Released, Locks

-----------------------------------------------------------------------------
(***************************************************************************)
(* Steps of the group handlers.                                            *)
(***************************************************************************)
\* What a session must show of its step.
LEMMA SessionStep ==
    ASSUME Inv, NEW s \in Sessions, NEW session \in SessionKind,
           api' = [api EXCEPT ![s] = session],
           session.pc # "idle" => session.item \in [Ops -> States],
           session.pc \in {"get", "refresh", "cancel", "retry"} => session.op \in [Ops -> States],
           session.pc \in {"retry_requests", "retry"} => used'.group_retries # 0,
           op' \in [Ops -> States], item' \in [Ops -> States], lock' \in [Ops -> Locks],
           used' \in UsedKind, used.group_retries # 0 => used'.group_retries # 0,
           UNCHANGED worker, Frees, Keeps
    PROVE  Inv' /\ Keeps
<1> USE TypesOf
<1>1. /\ api' \in [Sessions -> SessionKind]
      /\ api'[s] = session /\ \A u \in Sessions : u # s => api'[u] = api[u]
      OBVIOUS
<1>2. TypeOK'
      BY <1>1 DEF Inv, TypeOK, WorkerKind, SessionKind, UsedKind
<1>3. ReadsDone'
      BY <1>1 DEF Inv, ReadsDone
<1>4. RetriesCounted'
      BY <1>1 DEF Inv, RetriesCounted
<1>5. CancelFreesLock'
      BY DEF Frees, CancelFreesLock
<1>6. QED BY <1>2, <1>3, <1>4, <1>5 DEF Inv

LEMMA IdleKind == IdleSession \in SessionKind /\ IdleSession.pc = "idle"
BY DEF IdleSession, NothingRead, SessionKind

\* A step that leaves requests and locks alone.
LEMMA Unmoved ==
    ASSUME Inv, UNCHANGED <<op, lock>>, used.group_retries # 0 => used'.group_retries # 0
    PROVE  Frees /\ Keeps
BY TypesOf DEF Inv, CancelFreesLock, Frees, Keeps, Locks

\* A session that reads: first the items, then the requests and the locks.
LEMMA ReadingStep ==
    ASSUME Inv, NEW s \in Sessions, UNCHANGED <<op, item, lock, worker>>, used' \in UsedKind,
           used.group_retries # 0 => used'.group_retries # 0,
           \/ \E pc \in {"get_requests", "cancel_requests", "retry_requests"} :
                 /\ ReadItems(s, pc)
                 /\ pc = "retry_requests" => used'.group_retries # 0
           \/ \E pc \in {"refresh", "cancel", "retry"} :
                 /\ api[s].pc # "idle"
                 /\ ReadRequests(s, pc)
                 /\ pc = "retry" => used'.group_retries # 0
    PROVE  Inv' /\ Keeps
<1> USE TypesOf
<1>1. ASSUME NEW pc \in {"get_requests", "cancel_requests", "retry_requests"}, ReadItems(s, pc),
             pc = "retry_requests" => used'.group_retries # 0
      PROVE  Inv' /\ Keeps
  <2> DEFINE session == [pc |-> pc, op |-> api[s].op, item |-> item, lock |-> api[s].lock]
  <2>1. session \in SessionKind /\ session.pc = pc /\ session.item = item
        BY DEF SessionKind
  <2>2. api' = [api EXCEPT ![s] = session]
        BY <1>1 DEF ReadItems
  <2> HIDE DEF session
  <2>3. QED BY <1>1, <2>1, <2>2, Unmoved, SessionStep
<1>2. ASSUME NEW pc \in {"refresh", "cancel", "retry"}, ReadRequests(s, pc), api[s].pc # "idle",
             pc = "retry" => used'.group_retries # 0
      PROVE  Inv' /\ Keeps
  <2> DEFINE session == [pc |-> pc, op |-> op, item |-> api[s].item, lock |-> lock]
  <2>1. session \in SessionKind /\ session.pc = pc /\ session.op = op /\ session.item = api[s].item
        BY DEF SessionKind
  <2>2. api' = [api EXCEPT ![s] = session]
        BY <1>2 DEF ReadRequests
  <2>3. api[s].item \in [Ops -> States]
        BY <1>2 DEF Inv, ReadsDone
  <2> HIDE DEF session
  <2>4. QED BY <1>2, <2>1, <2>2, <2>3, Unmoved, SessionStep
<1>3. QED BY <1>1, <1>2

LEMMA Reading ==
    ASSUME Inv, NEW s \in Sessions, get_bulk_job(s) \/ select_to_cancel(s) \/ select_to_retry(s)
    PROVE  Inv' /\ Keeps
<1> USE TypesOf
<1>1. CASE get_bulk_job(s)
      BY <1>1, ReadingStep DEF get_bulk_job, At
<1>2. CASE select_to_cancel(s)
  <2>1. used' \in UsedKind /\ (used.group_retries # 0 => used'.group_retries # 0)
        BY <1>2 DEF select_to_cancel, UsedKind
  <2>2. QED BY <1>2, <2>1, ReadingStep DEF select_to_cancel, At
<1>3. CASE select_to_retry(s)
  <2>1. CASE At(s, "idle")
    <3>1. /\ used' = [used EXCEPT !.group_retries = @ + 1] /\ RetriesLeft
          /\ ReadItems(s, "retry_requests")
          BY <1>3, <2>1 DEF select_to_retry, At
    <3>2. used' \in UsedKind /\ used'.group_retries # 0
          BY <3>1 DEF RetriesLeft, UsedKind
    <3>3. QED BY <1>3, <3>1, <3>2, ReadingStep DEF select_to_retry
  <2>2. CASE At(s, "retry_requests")
    <3>1. UNCHANGED used /\ ReadRequests(s, "retry") /\ used.group_retries # 0
          BY <1>3, <2>2 DEF select_to_retry, At, Inv, RetriesCounted
    <3>2. QED BY <1>3, <2>2, <3>1, ReadingStep DEF select_to_retry, At
  <2>3. QED BY <1>3, <2>1, <2>2 DEF select_to_retry
<1>4. QED BY <1>1, <1>2, <1>3

\* A refresh only writes the items; a refused retry writes nothing.
LEMMA Refreshing ==
    ASSUME Inv, NEW s \in Sessions, show_bulk_job(s) \/ refresh_bulk_job(s) \/ retry_refused(s)
    PROVE  Inv' /\ Keeps
<1> USE TypesOf
<1>1. CASE show_bulk_job(s)
  <2>1. PICK items \in {api[s].item, item} :
           api' = [api EXCEPT ![s] = [pc |-> "refresh", op |-> api[s].op, item |-> items,
                                      lock |-> api[s].lock]]
        BY <1>1 DEF show_bulk_job
  <2>2. items \in [Ops -> States] /\ api[s].op \in [Ops -> States]
        BY <1>1, <2>1 DEF show_bulk_job, At, Inv, ReadsDone
  <2> DEFINE session == [pc |-> "refresh", op |-> api[s].op, item |-> items, lock |-> api[s].lock]
  <2>3. /\ session \in SessionKind /\ session.pc = "refresh"
        /\ session.op = api[s].op /\ session.item = items
        BY <2>2 DEF SessionKind
  <2>4. api' = [api EXCEPT ![s] = session]
        BY <2>1
  <2> HIDE DEF session
  <2>5. UNCHANGED <<op, item, lock, worker, used>>
        BY <1>1 DEF show_bulk_job
  <2>6. QED BY <2>2, <2>3, <2>4, <2>5, Unmoved, SessionStep
<1>2. CASE refresh_bulk_job(s)
  <2>1. api[s].item \in [Ops -> States] /\ api[s].op \in [Ops -> States]
        BY <1>2 DEF refresh_bulk_job, At, Inv, ReadsDone
  <2>2. item' \in [Ops -> States]
        BY <1>2, <2>1 DEF refresh_bulk_job, Written
  <2>3. api' = [api EXCEPT ![s] = IdleSession] /\ UNCHANGED <<op, lock, worker, used>>
        BY <1>2 DEF refresh_bulk_job, Done
  <2>4. QED BY <2>2, <2>3, IdleKind, Unmoved, SessionStep
<1>3. CASE retry_refused(s)
  <2>1. api' = [api EXCEPT ![s] = IdleSession] /\ UNCHANGED <<op, item, lock, worker, used>>
        BY <1>3 DEF retry_refused, Done
  <2>2. QED BY <2>1, IdleKind, Unmoved, SessionStep
<1>4. QED BY <1>1, <1>2, <1>3

\* The session after Show.
LEMMA ShowKind ==
    ASSUME Inv, NEW s \in Sessions, NEW ops \in [Ops -> States], NEW items \in [Ops -> States],
           Show(s, ops, items),
           op' \in [Ops -> States], item' \in [Ops -> States], lock' \in [Ops -> Locks],
           UNCHANGED <<worker, used>>, Frees, Keeps
    PROVE  Inv' /\ Keeps
<1> DEFINE session == [pc |-> "get", op |-> ops, item |-> items, lock |-> NothingRead]
<1>1. session \in SessionKind /\ session.pc = "get" /\ session.op = ops /\ session.item = items
      BY DEF SessionKind, NothingRead
<1>2. api' = [api EXCEPT ![s] = session]
      BY DEF Show
<1> HIDE DEF session
<1>3. QED BY <1>1, <1>2, TypesOf, SessionStep

\* A group cancellation cancels at once only what it has read as waiting or
\* queued, and with it goes the lock, whatever the request has become since.
LEMMA CancelingGroup ==
    ASSUME Inv, NEW s \in Sessions, cancel_bulk_job(s)
    PROVE  Inv' /\ Keeps
<1> USE TypesOf
<1> DEFINE read == api[s]
           ops == Stopped(read, read.op)
           items == Stopped(read, read.item)
<1>1. read.op \in [Ops -> States] /\ read.item \in [Ops -> States]
      BY DEF cancel_bulk_job, At, Inv, ReadsDone
<1>2. ops \in [Ops -> States] /\ items \in [Ops -> States]
      BY <1>1, StoppedKind
<1>3. /\ op' = Merged(op, read.op, ops) /\ item' = Merged(item, read.item, items)
      /\ Show(s, ops, items) /\ UNCHANGED <<worker, used>>
      BY DEF cancel_bulk_job
<1>4. \A o \in Ops : \/ read.op[o] \in Terminal /\ ops[o] = read.op[o]
                     \/ read.op[o] \in Claimed /\ ops[o] = "CANCEL_REQUESTED"
                     \/ read.op[o] \in {"WAITING_APPROVAL", "QUEUED"} /\ ops[o] = "CANCELED"
      BY <1>1, StoppedKind
<1>5. lock' = [o \in Ops |-> IF read.op[o] \in {"WAITING_APPROVAL", "QUEUED"}
                             THEN Released(o)[o] ELSE lock[o]]
      BY DEF cancel_bulk_job
<1> HIDE DEF ops, items
<1>6. /\ op' \in [Ops -> States] /\ item' \in [Ops -> States]
      /\ \A o \in Ops : op'[o] = IF ops[o] = read.op[o] THEN op[o] ELSE ops[o]
      BY <1>1, <1>2, <1>3, MergedKind
<1>7. \A o \in Ops : Released(o)[o] \in Locks /\ Released(o)[o] # "own"
      BY ReleasedKind
<1>8. lock' \in [Ops -> Locks]
      BY <1>5, <1>7
<1>9. Keeps
      BY <1>5, <1>7 DEF Keeps
<1>10. Frees
  <2> SUFFICES ASSUME used'.group_retries = 0, NEW o \in Ops, lock'[o] = "own"
               PROVE  op'[o] \in Active
      BY DEF Frees
  <2>1. read.op[o] \notin {"WAITING_APPROVAL", "QUEUED"} /\ lock[o] = "own"
        BY <1>5, <1>7
  <2>2. op[o] \in Active
        BY <1>3, <2>1 DEF Inv, CancelFreesLock
  <2>3. op'[o] = op[o] \/ op'[o] = "CANCEL_REQUESTED"
        BY <1>4, <1>6, <2>1
  <2>4. QED BY <2>2, <2>3 DEF Active, Claimed
<1>11. QED BY <1>2, <1>3, <1>6, <1>8, <1>9, <1>10, ShowKind

\* A group retry takes no lock but one that nobody has.
LEMMA RetryingGroup ==
    ASSUME Inv, NEW s \in Sessions, retry_failed_bulk_job(s)
    PROVE  Inv' /\ Keeps
<1> USE TypesOf
<1> DEFINE read == api[s]
           ops == [o \in Ops |-> IF o \in Retried(read) THEN "QUEUED" ELSE read.op[o]]
           items == [o \in Ops |-> IF o \in Retried(read) THEN "QUEUED" ELSE read.item[o]]
<1>1. read.op \in [Ops -> States] /\ read.item \in [Ops -> States] /\ used.group_retries # 0
      BY DEF retry_failed_bulk_job, At, Inv, ReadsDone, RetriesCounted
<1>2. ops \in [Ops -> States] /\ items \in [Ops -> States]
      BY <1>1 DEF States, Active
<1>3. /\ op' = Merged(op, read.op, ops) /\ item' = Merged(item, read.item, items)
      /\ Show(s, ops, items) /\ UNCHANGED <<worker, used>>
      BY DEF retry_failed_bulk_job
<1> HIDE DEF ops, items
<1>4. op' \in [Ops -> States] /\ item' \in [Ops -> States]
      BY <1>1, <1>2, <1>3, MergedKind
<1>5. lock' \in [Ops -> Locks]
      BY DEF retry_failed_bulk_job, Locks
<1>6. Keeps
      BY DEF retry_failed_bulk_job, Keeps
<1>7. Frees
      BY <1>1, <1>3 DEF Frees
<1>8. QED BY <1>2, <1>3, <1>4, <1>5, <1>6, <1>7, ShowKind

-----------------------------------------------------------------------------
(***************************************************************************)
(* Steps of one request, by its handlers, the worker or a rival.           *)
(***************************************************************************)
\* What a step that leaves the sessions alone must show.
LEMMA RequestStep ==
    ASSUME Inv, op' \in [Ops -> States], item' \in [Ops -> States], lock' \in [Ops -> Locks],
           worker' \in WorkerKind, worker'.pc = "idle" <=> worker'.op = None,
           used' \in UsedKind, used'.group_retries = used.group_retries, UNCHANGED api,
           Frees, Keeps
    PROVE  Inv' /\ Keeps
<1> USE TypesOf
<1>1. TypeOK'
      BY DEF Inv, TypeOK, WorkerKind, SessionKind, UsedKind
<1>2. ReadsDone' /\ RetriesCounted'
      BY DEF Inv, ReadsDone, RetriesCounted
<1>3. CancelFreesLock'
      BY DEF Frees, CancelFreesLock
<1>4. QED BY <1>1, <1>2, <1>3 DEF Inv

\* One request takes the state to and its lock the owner by, and no other is
\* touched.
LEMMA OneRequest ==
    ASSUME Inv, NEW o \in Ops, NEW to \in States, NEW by \in Locks,
           op' = [op EXCEPT ![o] = to], lock' = [lock EXCEPT ![o] = by],
           by = "own" => to \in Active /\ lock[o] # "other",
           item' = item \/ item' = [item EXCEPT ![o] = to],
           worker' \in WorkerKind, worker'.pc = "idle" <=> worker'.op = None,
           used' \in UsedKind, used'.group_retries = used.group_retries, UNCHANGED api
    PROVE  Inv' /\ Keeps
<1> USE TypesOf
<1>1. op' \in [Ops -> States] /\ item' \in [Ops -> States] /\ lock' \in [Ops -> Locks]
      OBVIOUS
<1>2. Frees
      BY DEF Frees, Inv, CancelFreesLock
<1>3. Keeps
      BY DEF Keeps, Locks
<1>4. QED BY <1>1, <1>2, <1>3, RequestStep

LEMMA RivalStep ==
    ASSUME Inv, NEW o \in Ops, rival_approved(o) \/ rival_ended(o)
    PROVE  Inv' /\ Keeps
<1> USE TypesOf
<1>1. PICK by \in {"other", "none"} : lock' = [lock EXCEPT ![o] = by]
      BY DEF rival_approved, rival_ended
<1>2. lock' \in [Ops -> Locks] /\ UNCHANGED <<op, item, worker, api, used>>
      BY <1>1 DEF Locks, rival_approved, rival_ended
<1>3. Frees
      BY <1>1, <1>2 DEF Frees, Inv, CancelFreesLock
<1>4. Keeps
      BY <1>1 DEF Keeps, Locks
<1>5. QED BY <1>2, <1>3, <1>4, RequestStep

LEMMA HandlerStep ==
    ASSUME Inv, NEW o \in Ops, decide_operation(o) \/ retry_operation(o) \/ cancel_operation(o)
    PROVE  Inv' /\ Keeps
<1> USE TypesOf
<1>1. lock = [lock EXCEPT ![o] = lock[o]]
      OBVIOUS
<1>2. CASE decide_operation(o)
  <2>1. CASE lock[o] # "other" /\ lock' = [lock EXCEPT ![o] = "own"]
             /\ op' = [op EXCEPT ![o] = "QUEUED"] /\ item' = [item EXCEPT ![o] = "QUEUED"]
        BY <1>2, <2>1, OneRequest DEF decide_operation, Active, States, Locks
  <2>2. CASE op' = [op EXCEPT ![o] = "REJECTED"] /\ item' = [item EXCEPT ![o] = "REJECTED"]
             /\ UNCHANGED lock
    <3>1. Frees
          BY <1>2, <2>2 DEF decide_operation, Frees, Inv, CancelFreesLock, Active, Claimed
    <3>2. Keeps
          BY <2>2 DEF Keeps
    <3>3. op' \in [Ops -> States] /\ item' \in [Ops -> States]
          BY <2>2 DEF States, Terminal
    <3>4. QED BY <1>2, <2>2, <3>1, <3>2, <3>3, RequestStep DEF decide_operation
  <2>3. QED BY <1>2, <2>1, <2>2 DEF decide_operation
<1>3. CASE retry_operation(o)
  <2>1. used' \in UsedKind /\ used'.group_retries = used.group_retries
        BY <1>3 DEF retry_operation, RetriesLeft, UsedKind
  <2>2. QED BY <1>3, <2>1, OneRequest DEF retry_operation, Active, States, Locks
<1>4. CASE cancel_operation(o)
  <2>1. used' \in UsedKind /\ used'.group_retries = used.group_retries
        BY <1>4 DEF cancel_operation, UsedKind
  <2>2. CASE op[o] \in Claimed
    <3>1. /\ op' = [op EXCEPT ![o] = "CANCEL_REQUESTED"] /\ UNCHANGED lock
          /\ item' = [item EXCEPT ![o] = "CANCEL_REQUESTED"]
          BY <1>4, <2>2 DEF cancel_operation
    <3>2. Frees
          BY <1>4, <3>1 DEF cancel_operation, Frees, Inv, CancelFreesLock, Active, Claimed
    <3>3. Keeps
          BY <3>1 DEF Keeps
    <3>4. op' \in [Ops -> States] /\ item' \in [Ops -> States]
          BY <3>1 DEF States, Active, Claimed
    <3>5. QED BY <1>4, <2>1, <3>1, <3>2, <3>3, <3>4, RequestStep DEF cancel_operation
  <2>3. CASE op[o] \notin Claimed
    <3>1. /\ op' = [op EXCEPT ![o] = "CANCELED"] /\ item' = [item EXCEPT ![o] = "CANCELED"]
          /\ lock' = Released(o)
          BY <1>4, <2>3 DEF cancel_operation
    <3>2. lock' = [lock EXCEPT ![o] = Released(o)[o]]
          BY <3>1 DEF Released
    <3>3. "CANCELED" \in States
          BY DEF States, Terminal
    <3>4. Released(o)[o] \in Locks /\ Released(o)[o] # "own"
          BY ReleasedKind
    <3>5. UNCHANGED <<worker, api>>
          BY <1>4 DEF cancel_operation
    <3>6. QED BY <2>1, <3>1, <3>2, <3>3, <3>4, <3>5, OneRequest
  <2>4. QED BY <2>2, <2>3
<1>5. QED BY <1>2, <1>3, <1>4

LEMMA WorkerStep == ASSUME Inv, Worker PROVE Inv' /\ Keeps
<1> USE TypesOf
<1>1. ASSUME NEW o \in Ops, claim_operation(o) PROVE Inv' /\ Keeps
  <2>1. worker' \in WorkerKind /\ worker'.pc # "idle" /\ worker'.op # None
        BY <1>1 DEF claim_operation, WorkerKind
  <2>2. QED BY <1>1, <2>1, OneRequest DEF claim_operation, Active, Claimed, States, Locks
<1>2. worker.pc # "idle" => worker.op \in Ops
      BY DEF WorkerKind
<1>3. CASE mark_verifying
  <2>1. worker.op \in Ops /\ op' = [op EXCEPT ![worker.op] = "VERIFYING"]
        BY <1>2, <1>3 DEF mark_verifying
  <2>2. worker' \in WorkerKind /\ worker'.pc # "idle" /\ worker'.op # None
        BY <1>2, <1>3 DEF mark_verifying, WorkerKind
  <2>3. UNCHANGED <<item, lock, api, used>>
        BY <1>3 DEF mark_verifying
  <2>4. op' \in [Ops -> States]
        BY <2>1 DEF States, Active, Claimed
  <2>5. Frees
        BY <2>1, <2>3 DEF Frees, Inv, CancelFreesLock, Active, Claimed
  <2>6. Keeps
        BY <2>3 DEF Keeps
  <2>7. QED BY <2>2, <2>3, <2>4, <2>5, <2>6, RequestStep
<1>4. ASSUME NEW to \in {"SUCCEEDED", "FAILED", "CANCELED"}, worker.pc # "idle", Conclude(to)
      PROVE  Inv' /\ Keeps
  <2>1. worker' \in WorkerKind /\ worker'.pc = "idle" /\ worker'.op = None
        BY <1>4 DEF Conclude, Idle, WorkerKind
  <2>2. lock' = [lock EXCEPT ![worker.op] = Released(worker.op)[worker.op]]
        BY <1>2, <1>4 DEF Conclude, Released
  <2>3. to \in States /\ worker.op \in Ops
        BY <1>2, <1>4 DEF States, Terminal
  <2>4. Released(worker.op)[worker.op] \in Locks /\ Released(worker.op)[worker.op] # "own"
        BY <2>3, ReleasedKind
  <2>5. /\ op' = [op EXCEPT ![worker.op] = to] /\ item' = [item EXCEPT ![worker.op] = to]
        /\ UNCHANGED <<api, used>>
        BY <1>4 DEF Conclude
  <2>6. QED BY <2>1, <2>2, <2>3, <2>4, <2>5, OneRequest
<1>5. CASE mark_succeeded \/ mark_failed \/ mark_canceled
      BY <1>4, <1>5 DEF mark_succeeded, mark_failed, mark_canceled
<1>6. QED BY <1>1, <1>3, <1>5 DEF Worker

-----------------------------------------------------------------------------
(***************************************************************************)
(* The invariant holds, and what follows from it.                          *)
(***************************************************************************)
LEMMA InvInit == Init => Inv
<1> SUFFICES ASSUME Init PROVE Inv
    OBVIOUS
<1>1. TypeOK
  <2>1. op \in [Ops -> States] /\ item \in [Ops -> States] /\ lock \in [Ops -> Locks]
        BY DEF Init, States, Locks
  <2>2. worker \in WorkerKind /\ worker.pc = "idle" /\ worker.op = None
        BY DEF Init, Idle, WorkerKind
  <2>3. api \in [Sessions -> SessionKind]
        BY IdleKind DEF Init
  <2>4. used \in UsedKind
        BY DEF Init, UsedKind
  <2>5. QED BY <2>1, <2>2, <2>3, <2>4 DEF TypeOK, WorkerKind, SessionKind, UsedKind
<1>2. ReadsDone /\ RetriesCounted
      BY IdleKind DEF Init, ReadsDone, RetriesCounted
<1>3. CancelFreesLock
      BY DEF Init, CancelFreesLock
<1>4. QED BY <1>1, <1>2, <1>3 DEF Inv

LEMMA InvStutter == ASSUME Inv, UNCHANGED vars PROVE Inv' /\ Keeps
<1>1. Inv'
      BY DEF vars, Inv, TypeOK, ReadsDone, RetriesCounted, CancelFreesLock
<1>2. Keeps
      BY DEF vars, Keeps
<1>3. QED BY <1>1, <1>2

LEMMA InvStep == ASSUME Inv, [Next]_vars PROVE Inv' /\ Keeps
<1>1. ASSUME NEW o \in Ops,
             \/ decide_operation(o) \/ retry_operation(o) \/ cancel_operation(o)
             \/ rival_approved(o) \/ rival_ended(o)
      PROVE  Inv' /\ Keeps
      BY <1>1, HandlerStep, RivalStep
<1>2. ASSUME NEW s \in Sessions, Group(s) PROVE Inv' /\ Keeps
      BY <1>2, Reading, Refreshing, CancelingGroup, RetryingGroup DEF Group
<1>3. QED BY <1>1, <1>2, WorkerStep, InvStutter DEF Next

\* The invariant of a group of requests, its handlers and the worker.
THEOREM BulkInvariance == Spec => []Inv
<1>1. Inv /\ [Next]_vars => Inv'
      BY InvStep
<1>2. QED BY <1>1, InvInit, PTL DEF Spec

\* Every column and every local variable of a group of requests holds a
\* value of its kind.
THEOREM BulkTypeCorrectness == Spec => []TypeOK
<1>1. Inv => TypeOK
      BY DEF Inv
<1>2. QED BY <1>1, BulkInvariance, PTL

\* As long as no group is retried, a table is locked for a request of the
\* group only while the request is unfinished, however the stale writes of
\* group cancellations cross single requests and the worker
\* (cancel_bulk_job in services.py).
THEOREM CancelTheorem == Spec => []CancelFreesLock
<1>1. Inv => CancelFreesLock
      BY DEF Inv
<1>2. QED BY <1>1, BulkInvariance, PTL

\* No handler and no claim takes a table from a request outside the group
\* (retry_failed_bulk_job in services.py inserts its lock rows, it replaces
\* none).
THEOREM RivalTheorem == Spec => RivalKeepsLock
<1>1. Inv /\ [Next]_vars => [\A o \in Ops : lock[o] = "other" => lock'[o] # "own"]_vars
      BY InvStep DEF Keeps
<1>2. QED BY <1>1, BulkInvariance, PTL DEF Spec, RivalKeepsLock

=============================================================================
