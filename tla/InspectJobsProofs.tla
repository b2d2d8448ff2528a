------------------------- MODULE InspectJobsProofs -------------------------
(***************************************************************************)
(* The safety properties of InspectJobs for any number of items, sessions, *)
(* crashes, cancellations and retries.                                     *)
(***************************************************************************)
EXTENDS InspectJobs, WellFoundedInduction, TLAPS

USE InspectAssumption

-----------------------------------------------------------------------------
(***************************************************************************)
(* The operators the handlers are made of.                                 *)
(***************************************************************************)
\* The worker's list is processed in the order of the ordinals: it has a first.
LEMMA FirstOf ==
    ASSUME NEW S, S \subseteq Nat, S # {}
    PROVE  First(S) \in S /\ \A k \in S : First(S) <= k
<1> DEFINE less == OpToRel(<, Nat)
<1>1. IsWellFoundedOn(less, Nat)
      BY NatLessThanWellFounded
<1>2. \A x, y \in Nat : x < y => <<x, y>> \in less
      BY DEF OpToRel
<1> HIDE DEF less
<1>3. PICK i \in S : \A k \in S : ~(<<k, i>> \in less)
      BY <1>1, WFMin
<1>4. \A k \in S : i <= k
  <2> SUFFICES ASSUME NEW k \in S, ~(i <= k) PROVE FALSE
      OBVIOUS
  <2>1. k \in Nat /\ i \in Nat /\ k < i
      OBVIOUS
  <2>2. <<k, i>> \in less
      BY <2>1, <1>2
  <2>3. QED BY <2>2, <1>3
<1>5. QED BY <1>4 DEF First

LEMMA VerdictKind == \A states : Verdict(states) \in JobEnded
BY DEF Verdict, JobEnded, ItemEnded

\* A reader's summary of a job is an end exactly when every item has ended.
LEMMA SummaryKind ==
    ASSUME NEW states \in [Items -> ItemStates]
    PROVE  /\ Summary(states) \in JobStates
           /\ Summary(states) \in JobEnded <=> AllIn(states, ItemEnded)
BY VerdictKind DEF Summary, JobStates, JobEnded, ItemEnded

LEMMA CanceledKind ==
    /\ \A state \in ItemStates : Canceled(state) \in ItemStates
    /\ \A state : Canceled(state) # state => state \in {"QUEUED", "RUNNING"}
    /\ \A state : Canceled(state) # state => Canceled(state) # "SUCCEEDED"
BY DEF Canceled, ItemStates, ItemEnded

-----------------------------------------------------------------------------
(***************************************************************************)
(* The inductive invariant.                                                *)
(***************************************************************************)
\* Where the worker has an item in hand.
Busy == {"start", "post", "check", "stop", "sync", "settle", "commit"}

\* The worker goes over its list once: nobody else makes an item SUCCEEDED,
\* so neither what it has in hand nor what is still in the list is.
ListOpen ==
    /\ \A i \in worker.todo : item[i] # "SUCCEEDED"
    /\ worker.pc \in Busy =>
          /\ worker.item \in Items /\ worker.item \notin worker.todo
          /\ item[worker.item] # "SUCCEEDED"

\* What it is about to report has come about.
OutcomeReal ==
    /\ worker.pc \in {"settle", "commit"} =>
          /\ worker.to \in {"SUCCEEDED", "FAILED"}
          /\ worker.to = "SUCCEEDED" => worker.item \in recorded
    /\ worker.pc = "finish" => worker.to \in JobEnded

\* What a session has read are states, and while one holds the job lock no
\* result is committed: an item it has read as unfinished has none.
ReadsHold ==
    \A s \in Sessions :
        /\ api[s].pc # "idle" => api[s].read \in [Items -> ItemStates]
        /\ api[s].pc = "cancel" =>
              \A i \in Items : api[s].read[i] \in {"QUEUED", "RUNNING"} => item[i] # "SUCCEEDED"

Inv == TypeOK /\ ListOpen /\ OutcomeReal /\ ReadsHold /\ InspectedIsRecorded

\* A result is not taken back by the step.
Stays == \A i \in Items : item[i] = "SUCCEEDED" => item'[i] = "SUCCEEDED"

WorkerKind == [pc : {"idle", "down", "plan", "next", "finish"} \cup Busy,
               todo : SUBSET Items, item : Items \cup {0},
               to : JobEnded \cup {""}, seen : JobStates \cup {""}]
SessionKind == [pc : {"idle", "get", "refresh", "cancel"},
                read : [Items -> ItemStates \cup {""}], seen : JobStates \cup {""}]
UsedKind == [crashes : 0..MaxCrashes, cancels : 0..MaxCancels, retries : 0..MaxRetries]

LEMMA TypesOf ==
    ASSUME Inv
    PROVE  /\ job \in JobStates /\ cancel \in BOOLEAN
           /\ item \in [Items -> ItemStates] /\ recorded \subseteq Items
           /\ worker \in WorkerKind /\ api \in [Sessions -> SessionKind] /\ used \in UsedKind
BY DEF Inv, TypeOK, WorkerKind, SessionKind, UsedKind, Busy

-----------------------------------------------------------------------------
(***************************************************************************)
(* Steps of the API's sessions.                                            *)
(***************************************************************************)
\* A session makes no result and takes none back.
LEMMA SessionStep ==
    ASSUME Inv, NEW s \in Sessions, NEW session \in SessionKind,
           api' = [api EXCEPT ![s] = session],
           session.pc # "idle" => session.read \in [Items -> ItemStates],
           session.pc = "cancel" =>
               \A i \in Items : session.read[i] \in {"QUEUED", "RUNNING"} => item[i] # "SUCCEEDED",
           item' \in [Items -> ItemStates],
           \A i \in Items : item'[i] = "SUCCEEDED" <=> item[i] = "SUCCEEDED",
           job' \in JobStates, cancel' \in BOOLEAN, used' \in UsedKind,
           UNCHANGED <<recorded, worker>>
    PROVE  Inv' /\ Stays
<1> USE TypesOf
<1>1. /\ api' \in [Sessions -> SessionKind]
      /\ api'[s] = session /\ \A u \in Sessions : u # s => api'[u] = api[u]
      OBVIOUS
<1>2. TypeOK'
      BY <1>1 DEF Inv, TypeOK, SessionKind, UsedKind
<1>3. ListOpen'
      BY DEF Inv, ListOpen, WorkerKind
<1>4. OutcomeReal' /\ InspectedIsRecorded'
      BY DEF Inv, OutcomeReal, InspectedIsRecorded
<1>5. ReadsHold'
      BY <1>1 DEF Inv, ReadsHold
<1>6. QED BY <1>2, <1>3, <1>4, <1>5 DEF Inv, Stays

LEMMA IdleKind == IdleSession \in SessionKind /\ IdleSession.pc = "idle"
BY DEF IdleSession, SessionKind

\* Reading changes nothing; a refresh only writes the job.
LEMMA ReaderStep ==
    ASSUME Inv, NEW s \in Sessions, get_bulk_job(s) \/ show_bulk_job(s) \/ refresh_bulk_job(s)
    PROVE  Inv' /\ Stays
<1> USE TypesOf
<1>1. CASE get_bulk_job(s)
  <2> DEFINE session == [pc |-> "refresh", read |-> item, seen |-> job]
  <2>1. session \in SessionKind /\ session.pc = "refresh" /\ session.read = item
        BY DEF SessionKind
  <2>2. QED BY <1>1, <2>1, SessionStep DEF get_bulk_job
<1>2. CASE show_bulk_job(s)
  <2>1. PICK items \in {api[s].read, item} :
           api' = [api EXCEPT ![s] = [pc |-> "refresh", read |-> items, seen |-> api[s].seen]]
        BY <1>2 DEF show_bulk_job
  <2> DEFINE session == [pc |-> "refresh", read |-> items, seen |-> api[s].seen]
  <2>2. items \in [Items -> ItemStates]
        BY <1>2, <2>1 DEF show_bulk_job, At, Inv, ReadsHold
  <2>3. session \in SessionKind /\ session.pc = "refresh" /\ session.read = items
        BY <2>2 DEF SessionKind
  <2>4. api' = [api EXCEPT ![s] = session]
        BY <2>1
  <2> HIDE DEF session
  <2>5. QED BY <1>2, <2>2, <2>3, <2>4, SessionStep DEF show_bulk_job
<1>3. CASE refresh_bulk_job(s)
  <2>1. api[s].read \in [Items -> ItemStates]
        BY <1>3 DEF refresh_bulk_job, At, Inv, ReadsHold
  <2>2. job' \in JobStates
        BY <1>3, <2>1, SummaryKind DEF refresh_bulk_job
  <2>3. QED BY <1>3, <2>2, IdleKind, SessionStep DEF refresh_bulk_job
<1>4. QED BY <1>1, <1>2, <1>3

\* What cancel_bulk_job overwrites had no result when it was read, and has
\* none: the worker needs the job lock to commit one.
LEMMA CancelStep ==
    ASSUME Inv, NEW s \in Sessions, select_to_cancel(s) \/ cancel_bulk_job(s)
    PROVE  Inv' /\ Stays
<1> USE TypesOf
<1>1. CASE select_to_cancel(s)
  <2> DEFINE session == [pc |-> "cancel", read |-> item, seen |-> job]
  <2>1. session \in SessionKind /\ session.pc = "cancel" /\ session.read = item
        BY DEF SessionKind
  <2>2. used' \in UsedKind
        BY <1>1 DEF select_to_cancel, UsedKind
  <2> HIDE DEF session
  <2>3. \A i \in Items : session.read[i] \in {"QUEUED", "RUNNING"} => item[i] # "SUCCEEDED"
        BY <2>1
  <2>4. api' = [api EXCEPT ![s] = session]
        BY <1>1 DEF select_to_cancel, session
  <2>5. QED BY <1>1, <2>1, <2>2, <2>3, <2>4, SessionStep DEF select_to_cancel
<1>2. CASE cancel_bulk_job(s)
  <2> DEFINE read == api[s].read
             items == [i \in Items |-> Canceled(read[i])]
             session == [pc |-> "get", read |-> items, seen |-> job']
  <2>1. read \in [Items -> ItemStates]
        BY <1>2 DEF cancel_bulk_job, At, Inv, ReadsHold
  <2>2. items \in [Items -> ItemStates]
        BY <2>1, CanceledKind
  <2>3. job' \in JobStates /\ cancel' \in BOOLEAN
        BY <1>2 DEF cancel_bulk_job, JobStates
  <2>4. session \in SessionKind /\ session.pc = "get" /\ session.read = items
        BY <2>2, <2>3 DEF SessionKind
  <2>5. item' = [i \in Items |-> IF items[i] # read[i] THEN items[i] ELSE item[i]]
        BY <1>2 DEF cancel_bulk_job
  <2>6. api' = [api EXCEPT ![s] = session]
        BY <1>2 DEF cancel_bulk_job
  <2>7. \A i \in Items : items[i] # read[i] => items[i] # "SUCCEEDED" /\ item[i] # "SUCCEEDED"
        BY <1>2, CanceledKind DEF cancel_bulk_job, At, Inv, ReadsHold
  <2> HIDE DEF items, session
  <2>8. item' \in [Items -> ItemStates]
        BY <2>2, <2>5
  <2>9. \A i \in Items : item'[i] = "SUCCEEDED" <=> item[i] = "SUCCEEDED"
        BY <2>5, <2>7
  <2>10. QED BY <1>2, <2>2, <2>3, <2>4, <2>6, <2>8, <2>9, SessionStep DEF cancel_bulk_job
<1>3. QED BY <1>1, <1>2

LEMMA RetryStep ==
    ASSUME Inv, NEW s \in Sessions, retry_failed_bulk_job(s)
    PROVE  Inv' /\ Stays
<1> USE TypesOf
<1> DEFINE session == [pc |-> "get", read |-> item', seen |-> job']
<1>1. /\ item' \in [Items -> ItemStates]
      /\ \A i \in Items : item'[i] = "SUCCEEDED" <=> item[i] = "SUCCEEDED"
      BY DEF retry_failed_bulk_job, ItemStates
<1>2. job' \in JobStates /\ cancel' \in BOOLEAN
      BY DEF retry_failed_bulk_job, JobStates
<1>3. session \in SessionKind /\ session.pc = "get" /\ session.read = item'
      BY <1>1, <1>2 DEF SessionKind
<1>4. used' \in UsedKind
      BY DEF retry_failed_bulk_job, UsedKind
<1>5. api' = [api EXCEPT ![s] = session] /\ UNCHANGED <<recorded, worker>>
      BY DEF retry_failed_bulk_job
<1> HIDE DEF session
<1>6. QED BY <1>1, <1>2, <1>3, <1>4, <1>5, SessionStep

-----------------------------------------------------------------------------
(***************************************************************************)
(* Steps of the worker.                                                    *)
(***************************************************************************)
\* It adds an item to the registry at most, and makes a result only with the
\* job lock.
LEMMA WorkerStep ==
    ASSUME Inv, worker' \in WorkerKind, job' \in JobStates, used' \in UsedKind,
           item' \in [Items -> ItemStates], recorded' \subseteq Items, recorded \subseteq recorded',
           UNCHANGED <<api, cancel>>,
           \A i \in Items : item'[i] = "SUCCEEDED" =>
               item[i] = "SUCCEEDED" \/ (JobLockFree /\ i \in recorded),
           Stays, ListOpen', OutcomeReal'
    PROVE  Inv' /\ Stays
<1> USE TypesOf
<1>1. TypeOK'
      BY DEF Inv, TypeOK, WorkerKind, UsedKind, Busy
<1>2. ReadsHold'
      BY DEF Inv, ReadsHold, JobLockFree
<1>3. InspectedIsRecorded'
      BY DEF Inv, InspectedIsRecorded
<1>4. QED BY <1>1, <1>2, <1>3 DEF Inv

LEMMA IdleWorkerKind ==
    /\ IdleWorker \in WorkerKind
    /\ IdleWorker.pc = "idle" /\ IdleWorker.todo = {}
BY DEF IdleWorker, WorkerKind

\* The worker lets go of everything: between two jobs, after an exception,
\* or when it starts again.
LEMMA LetGoStep ==
    ASSUME Inv, worker' \in WorkerKind, worker'.pc \in {"idle", "down"}, worker'.todo = {},
           job' \in JobStates, used' \in UsedKind, item' \in [Items -> ItemStates],
           \A i \in Items : item'[i] = "SUCCEEDED" <=> item[i] = "SUCCEEDED",
           UNCHANGED <<api, cancel, recorded>>
    PROVE  Inv' /\ Stays
<1>1. ListOpen' /\ OutcomeReal' /\ Stays
      BY DEF ListOpen, OutcomeReal, Stays, Busy
<1>2. QED BY <1>1, TypesOf, WorkerStep DEF Stays

LEMMA LettingGo ==
    ASSUME Inv, finish_job \/ loop_failed \/ crash \/ recover_jobs \/ \E s \in Sessions : deadlock_detected(s)
    PROVE  Inv' /\ Stays
<1> USE TypesOf, IdleWorkerKind
<1>1. CASE finish_job
  <2>1. job' \in JobStates
        BY <1>1 DEF finish_job, WorkerAt, Inv, OutcomeReal, JobStates
  <2>2. QED BY <1>1, <2>1, LetGoStep DEF finish_job
<1>2. CASE loop_failed
      BY <1>2, LetGoStep DEF loop_failed
<1>3. CASE crash
  <2>1. used' \in UsedKind
        BY <1>3 DEF crash, UsedKind
  <2>2. worker' \in WorkerKind /\ worker'.pc = "down" /\ worker'.todo = {}
        BY <1>3 DEF crash, IdleWorker, WorkerKind
  <2>3. QED BY <1>3, <2>1, <2>2, LetGoStep DEF crash
<1>4. CASE recover_jobs
  <2>1. /\ item' \in [Items -> ItemStates] /\ job' \in JobStates
        /\ \A i \in Items : item'[i] = "SUCCEEDED" <=> item[i] = "SUCCEEDED"
        BY <1>4 DEF recover_jobs, ItemStates, JobStates
  <2>2. QED BY <1>4, <2>1, LetGoStep DEF recover_jobs
<1>5. ASSUME NEW s \in Sessions, deadlock_detected(s)
      PROVE  Inv' /\ Stays
  <2>1. CASE api' = [api EXCEPT ![s] = IdleSession] /\ UNCHANGED worker
        BY <1>5, <2>1, IdleKind, SessionStep DEF deadlock_detected
  <2>2. CASE worker' = IdleWorker /\ UNCHANGED api
        BY <1>5, <2>2, LetGoStep DEF deadlock_detected
  <2>3. QED BY <1>5, <2>1, <2>2 DEF deadlock_detected
<1>6. QED BY <1>1, <1>2, <1>3, <1>4, <1>5

\* Steps that change where the worker is and nothing that others see.
LEMMA MovingStep ==
    ASSUME Inv, UNCHANGED <<cancel, item, api, used>>, worker' \in WorkerKind,
           job' \in JobStates, recorded' \subseteq Items, recorded \subseteq recorded',
           ListOpen', OutcomeReal'
    PROVE  Inv' /\ Stays
BY TypesOf, WorkerStep DEF Stays

LEMMA Moving ==
    ASSUME Inv, \/ claim_job \/ process_job \/ next_item \/ inspect_table \/ check_cancellation
                \/ sync_table \/ flush_result \/ read_verdict
    PROVE  Inv' /\ Stays
<1> USE TypesOf
<1>i. ListOpen /\ OutcomeReal
      BY DEF Inv
<1>1. CASE claim_job
  <2>1. /\ worker' \in WorkerKind /\ worker'.pc = "plan" /\ worker'.todo = worker.todo
        BY <1>1 DEF claim_job, Goto, WorkerKind
  <2>2. ListOpen' /\ OutcomeReal' /\ job' \in JobStates
        BY <1>1, <1>i, <2>1 DEF claim_job, ListOpen, OutcomeReal, Busy, JobStates
  <2>3. QED BY <1>1, <2>1, <2>2, MovingStep DEF claim_job
<1>2. CASE process_job
  <2>1. /\ worker' \in WorkerKind /\ worker'.pc = "next"
        /\ worker'.todo = {i \in Items : item[i] = "QUEUED"}
        BY <1>2 DEF process_job, WorkerKind
  <2>2. ListOpen' /\ OutcomeReal'
        BY <1>2, <1>i, <2>1 DEF process_job, ListOpen, OutcomeReal, Busy
  <2>3. QED BY <1>2, <2>1, <2>2, MovingStep DEF process_job
<1>3. CASE next_item
  <2> DEFINE i == First(worker.todo)
  <2>1. i \in worker.todo /\ i \in Items
    <3>1. worker.todo \subseteq Items /\ worker.todo # {}
          BY <1>3 DEF next_item, WorkerKind
    <3>2. QED BY <3>1, FirstOf
  <2> HIDE DEF i
  <2>2. /\ worker' \in WorkerKind /\ worker'.pc \in {"stop", "start"}
        /\ worker'.item = i /\ worker'.todo = worker.todo \ {i}
        BY <1>3, <2>1 DEF next_item, WorkerKind, Busy, i
  <2>3. ListOpen' /\ OutcomeReal'
        BY <1>3, <1>i, <2>1, <2>2 DEF next_item, ListOpen, OutcomeReal
  <2>4. QED BY <1>3, <2>2, <2>3, MovingStep DEF next_item
<1>4. ASSUME worker.pc \in Busy, worker'.pc \in Busy, worker' \in WorkerKind,
             worker'.item = worker.item, worker'.todo = worker.todo,
             UNCHANGED <<cancel, item, api, used, job>>,
             recorded' \subseteq Items, recorded \subseteq recorded',
             worker'.pc \in {"settle", "commit"} =>
                 /\ worker'.to \in {"SUCCEEDED", "FAILED"}
                 /\ worker'.to = "SUCCEEDED" => worker.item \in recorded'
      PROVE  Inv' /\ Stays
  <2>1. ListOpen' /\ OutcomeReal'
        BY <1>i, <1>4 DEF ListOpen, OutcomeReal, Busy
  <2>2. QED BY <1>4, <2>1, MovingStep
<1>5. CASE inspect_table
      BY <1>4, <1>5 DEF inspect_table, WorkerAt, Goto, WorkerKind, Busy, JobEnded, ItemEnded
<1>6. CASE check_cancellation
      BY <1>4, <1>6 DEF check_cancellation, WorkerAt, Goto, WorkerKind, Busy
<1>7. CASE sync_table
  <2>1. worker.item \in Items
        BY <1>i, <1>7 DEF sync_table, WorkerAt, Busy, ListOpen
  <2>2. /\ worker' \in WorkerKind /\ worker'.pc = "settle"
        /\ worker'.item = worker.item /\ worker'.todo = worker.todo
        BY <1>7 DEF sync_table, WorkerKind, Busy, JobEnded, ItemEnded
  <2>3. /\ recorded' \subseteq Items /\ recorded \subseteq recorded'
        /\ worker'.to \in {"SUCCEEDED", "FAILED"}
        /\ worker'.to = "SUCCEEDED" => worker.item \in recorded'
        BY <1>7, <2>1 DEF sync_table, WorkerKind
  <2>4. QED BY <1>4, <1>7, <2>2, <2>3 DEF sync_table, WorkerAt, Busy
<1>8. CASE flush_result
      BY <1>i, <1>4, <1>8 DEF flush_result, WorkerAt, Goto, WorkerKind, Busy, OutcomeReal
<1>9. CASE read_verdict
  <2>1. /\ worker' \in WorkerKind /\ worker'.pc = "finish" /\ worker'.todo = {}
        /\ worker'.to \in JobEnded
        BY <1>9, VerdictKind DEF read_verdict, WorkerKind
  <2>2. ListOpen' /\ OutcomeReal'
        BY <2>1 DEF ListOpen, OutcomeReal, Busy
  <2>3. QED BY <1>9, <2>1, <2>2, MovingStep DEF read_verdict
<1>10. QED BY <1>1, <1>2, <1>3, <1>5, <1>6, <1>7, <1>8, <1>9

\* Steps that write the item in hand, which has no result.
LEMMA ItemStep ==
    ASSUME Inv, start_item \/ stop_item \/ commit_result
    PROVE  Inv' /\ Stays
<1> USE TypesOf
<1>1. /\ worker.pc \in Busy
      /\ \E to \in ItemStates :
            /\ item' = [item EXCEPT ![worker.item] = to]
            /\ to = "SUCCEEDED" => JobLockFree /\ worker.item \in recorded
      BY DEF start_item, stop_item, commit_result, WorkerAt, Busy, Inv, OutcomeReal,
             ItemStates, ItemEnded
<1>2. PICK to \in ItemStates :
         /\ item' = [item EXCEPT ![worker.item] = to]
         /\ to = "SUCCEEDED" => JobLockFree /\ worker.item \in recorded
      BY <1>1
<1>3. /\ worker.item \in Items /\ item[worker.item] # "SUCCEEDED"
      /\ worker.item \notin worker.todo /\ \A i \in worker.todo : item[i] # "SUCCEEDED"
      BY <1>1 DEF Inv, ListOpen
<1>4. /\ item' \in [Items -> ItemStates] /\ item'[worker.item] = to
      /\ \A i \in Items : i # worker.item => item'[i] = item[i]
      BY <1>2, <1>3
<1>5. Stays /\ \A i \in Items : item'[i] = "SUCCEEDED" =>
                 item[i] = "SUCCEEDED" \/ (JobLockFree /\ i \in recorded)
      BY <1>2, <1>3, <1>4 DEF Stays
<1>6. /\ worker' \in WorkerKind /\ worker'.todo = worker.todo
      /\ \/ worker'.pc = "next"
         \/ /\ worker'.pc = "post" /\ worker'.item = worker.item
            /\ to # "SUCCEEDED"
      BY <1>3, <1>4 DEF start_item, stop_item, commit_result, NextItem, Goto, WorkerKind, Busy
<1>7. worker.todo \subseteq Items
      BY DEF WorkerKind
<1>8. ListOpen' /\ OutcomeReal'
      BY <1>3, <1>4, <1>6, <1>7 DEF ListOpen, OutcomeReal, Busy
<1>9. UNCHANGED <<job, cancel, recorded, api, used>>
      BY DEF start_item, stop_item, commit_result
<1>10. QED BY <1>4, <1>5, <1>6, <1>8, <1>9, WorkerStep

-----------------------------------------------------------------------------
(***************************************************************************)
(* The invariant holds, and what follows from it.                          *)
(***************************************************************************)
LEMMA InvInit == Init => Inv
<1> SUFFICES ASSUME Init PROVE Inv
    OBVIOUS
<1>1. TypeOK
  <2>1. /\ job \in JobStates /\ cancel \in BOOLEAN /\ recorded \subseteq Items
        /\ item \in [Items -> ItemStates]
        BY DEF Init, JobStates, ItemStates
  <2>2. worker \in WorkerKind /\ api \in [Sessions -> SessionKind]
        BY IdleWorkerKind, IdleKind DEF Init
  <2>3. used \in UsedKind
        BY DEF Init, UsedKind
  <2>4. QED BY <2>1, <2>2, <2>3 DEF TypeOK, WorkerKind, SessionKind, UsedKind, Busy
<1>2. ListOpen /\ OutcomeReal
      BY IdleWorkerKind DEF Init, ListOpen, OutcomeReal, Busy
<1>3. ReadsHold
      BY IdleKind DEF Init, ReadsHold
<1>4. InspectedIsRecorded
      BY DEF Init, InspectedIsRecorded
<1>5. QED BY <1>1, <1>2, <1>3, <1>4 DEF Inv

LEMMA InvStutter == ASSUME Inv, UNCHANGED vars PROVE Inv' /\ Stays
BY DEF vars, Inv, TypeOK, ListOpen, OutcomeReal, ReadsHold, InspectedIsRecorded, Stays

LEMMA InvStep == ASSUME Inv, [Next]_vars PROVE Inv' /\ Stays
<1>1. CASE Api
  <2>1. ASSUME NEW s \in Sessions,
               \/ get_bulk_job(s) \/ show_bulk_job(s) \/ refresh_bulk_job(s)
               \/ select_to_cancel(s) \/ cancel_bulk_job(s) \/ deadlock_detected(s)
               \/ retry_failed_bulk_job(s)
        PROVE  Inv' /\ Stays
        BY <2>1, ReaderStep, CancelStep, RetryStep, LettingGo
  <2>2. QED BY <1>1, <2>1 DEF Api
<1>2. CASE Worker
      BY <1>2, Moving, ItemStep, LettingGo DEF Worker
<1>3. CASE loop_failed \/ crash
      BY <1>3, LettingGo
<1>4. QED BY <1>1, <1>2, <1>3, InvStutter DEF Next

\* The invariant of a bulk inspection, its worker and its sessions.
THEOREM InspectInvariance == Spec => []Inv
<1>1. Inv /\ [Next]_vars => Inv'
      BY InvStep
<1>2. QED BY <1>1, InvInit, PTL DEF Spec

\* Every column and every local variable of a bulk inspection holds a value
\* of its kind.
THEOREM InspectTypeCorrectness == Spec => []TypeOK
<1>1. Inv => TypeOK
      BY DEF Inv
<1>2. QED BY <1>1, InspectInvariance, PTL

\* An item is reported inspected only if the registry has its table
\* (process_item in bulk_worker.py).
THEOREM InspectedTheorem == Spec => []InspectedIsRecorded
<1>1. Inv => InspectedIsRecorded
      BY DEF Inv
<1>2. QED BY <1>1, InspectInvariance, PTL

\* No stale write of a group handler, no repetition and no recovery takes a
\* result back (cancel_bulk_job in services.py against process_item).
THEOREM ResultsTheorem == Spec => ResultsStay
<1>1. Inv /\ [Next]_vars =>
          [\A i \in Items : item[i] = "SUCCEEDED" => item'[i] = "SUCCEEDED"]_vars
      BY InvStep DEF Stays
<1>2. QED BY <1>1, InspectInvariance, PTL DEF Spec, ResultsStay

=============================================================================
