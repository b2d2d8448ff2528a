----------------------- MODULE PlaygroundRunnerProofs -----------------------
(***************************************************************************)
(* The safety properties of PlaygroundRunner for any number of threads,    *)
(* calls, operations and faults.  What they rest on is that the thread     *)
(* that holds spark_lock is alone between the check and the commit, and    *)
(* that the worker's plan does not change while it waits.                  *)
(***************************************************************************)
EXTENDS PlaygroundRunner, TLAPS

USE RunnerAssumption

-----------------------------------------------------------------------------
(***************************************************************************)
(* The inductive invariant.                                                *)
(***************************************************************************)
\* Who is inside a "with spark_lock" block holds the lock.
Alone == \A t \in Threads : thread[t].pc \in Inside => spark_lock = t

\* The snapshots there have been, and what each holds: a part of the sample
\* at least, once there is one; procedures stop at the bound.
TableOf(tb) ==
    /\ tb.snapshot \in {NoTable, NoSnapshot} \cup 1..tb.newest
    /\ tb.newest # NoSnapshot => tb.snapshot \notin {NoTable, NoSnapshot}
    /\ tb.newest <= MaxSnapshot \/ tb.newest <= 2
    /\ \A s \in {NoTable, NoSnapshot} : tb.rows[s] = 0 /\ tb.line[s] = {}
    /\ \A s \in 1..tb.newest : tb.rows[s] \in {4, 8} /\ tb.line[s] \subseteq 1..tb.newest

\* A snapshot that is the own result of an operation.
Result(tb, planned, target, snapshot) ==
    /\ planned \in 1..tb.newest /\ snapshot \in 1..tb.newest
    /\ IF target # NoSnapshot THEN snapshot = target
       ELSE snapshot = planned \/ tb.line[snapshot] = tb.line[planned] \cup {snapshot}

\* What a thread may assume of the table between its steps.
CallOf(call, tb) ==
    /\ call.kind = "bootstrap" =>
          /\ call.pc = "call" => tb.newest = 0
          /\ call.pc = "append" => tb.newest = 1 /\ tb.rows[1] = 4
    /\ call.pc \in {"call", "append", "after"} => tb.snapshot # NoTable
    /\ call.kind = "execute" /\ call.expected # NoSnapshot =>
          /\ call.pc = "call" => tb.snapshot = call.expected
          /\ call.pc = "after" => Result(tb, call.expected, call.target, tb.snapshot)
          /\ call.pc = "answered" /\ call.answer = "ok" =>
                Result(tb, call.expected, call.target, call.seen)

InHand ==
    /\ worker.pc # "idle" => op.state \in Claimed
    /\ worker.pc = "waiting" =>
          /\ thread[worker.thread].pc # "idle"
          /\ thread[worker.thread].kind = "execute"
          /\ thread[worker.thread].client = "here"
          /\ thread[worker.thread].expected = op.planned
          /\ thread[worker.thread].target = op.target
    /\ op.state # "NONE" => recorded # NoTable

\* What the worker is about to record.
Reported ==
    worker.pc \in {"verify", "write"} /\ op.planned # NoSnapshot =>
        Result(table, op.planned, op.target, worker.seen)

Inv ==
    /\ TypeOK
    /\ Alone
    /\ TableOf(table)
    /\ \A t \in Threads : CallOf(thread[t], table)
    /\ InHand
    /\ Reported

-----------------------------------------------------------------------------
(***************************************************************************)
(* The table's history grows: a result, once it is one, stays one.         *)
(***************************************************************************)
UsedKind == [calls : 0..MaxCalls, ops : 0..MaxOps, faults : 0..MaxFaults]
TableKind == [snapshot : TableStates, newest : Snapshots,
              rows : [TableStates -> 0..16], line : [TableStates -> SUBSET Snapshots]]

Grown(tb, to) ==
    /\ tb.newest <= to.newest
    /\ \A s \in 1..tb.newest : to.line[s] = tb.line[s]

LEMMA ResultStays ==
    ASSUME NEW tb \in TableKind, NEW to \in TableKind, Grown(tb, to),
           NEW planned, NEW target, NEW snapshot, Result(tb, planned, target, snapshot)
    PROVE  Result(to, planned, target, snapshot)
<1>1. tb.newest \in Int /\ to.newest \in Int
      BY DEF TableKind, Snapshots, NoSnapshot
<1>2. 1..tb.newest \subseteq 1..to.newest
      BY <1>1 DEF Grown
<1>3. QED BY <1>2 DEF Result, Grown

\* A commit on the current snapshot.
LEMMA CommitGrows ==
    ASSUME table \in TableKind, TableOf(table), table.snapshot # NoTable,
           NEW rows \in {4, 8}, Commit(rows), table.newest + 1 <= MaxSnapshot \/ table.newest < 2
    PROVE  /\ table' \in TableKind /\ TableOf(table') /\ Grown(table, table')
           /\ table'.snapshot = table.newest + 1 /\ table'.newest = table.newest + 1
           /\ table'.rows[table.newest + 1] = rows
           /\ table'.line[table.newest + 1] = table.line[table.snapshot] \cup {table.newest + 1}
<1> DEFINE new == table.newest + 1
           rows2 == [table.rows EXCEPT ![new] = rows]
           line2 == [table.line EXCEPT ![new] = table.line[table.snapshot] \cup {new}]
<1>1. /\ table.newest \in Nat /\ new \in 1..MaxSnapshot + 2 /\ new \notin 1..table.newest
      /\ new \in Snapshots /\ new \in TableStates /\ new \notin {NoTable, NoSnapshot}
      /\ 1..new = 1..table.newest \cup {new}
      /\ table.rows \in [TableStates -> 0..16] /\ table.line \in [TableStates -> SUBSET Snapshots]
      BY DEF TableKind, TableStates, Snapshots, NoSnapshot, NoTable
<1>2. table.line[table.snapshot] \subseteq 1..table.newest
      BY DEF TableOf
<1>3. /\ table'.snapshot = new /\ table'.newest = new /\ table'.rows = rows2 /\ table'.line = line2
      /\ table' = [snapshot |-> new, newest |-> new, rows |-> rows2, line |-> line2]
      BY DEF Commit
<1>4. /\ rows2 \in [TableStates -> 0..16] /\ rows2[new] = rows
      /\ \A s \in TableStates : s # new => rows2[s] = table.rows[s]
      BY <1>1
<1>5. /\ line2 \in [TableStates -> SUBSET Snapshots]
      /\ line2[new] = table.line[table.snapshot] \cup {new}
      /\ \A s \in TableStates : s # new => line2[s] = table.line[s]
  <2>1. table.line[table.snapshot] \cup {new} \in SUBSET Snapshots
        BY <1>1, <1>2 DEF Snapshots, NoSnapshot
  <2>2. QED BY <1>1, <2>1
<1>6. \A s \in {NoTable, NoSnapshot} \cup 1..table.newest : s \in TableStates /\ s # new
      BY <1>1 DEF TableStates, Snapshots, NoSnapshot, NoTable
<1> HIDE DEF new, rows2, line2
<1>7. table' \in TableKind
      BY <1>1, <1>3, <1>4, <1>5 DEF TableKind, TableStates
<1>8. new <= MaxSnapshot \/ new <= 2
      BY <1>1 DEF new
<1>9. \A s \in {NoTable, NoSnapshot} : rows2[s] = 0 /\ line2[s] = {}
      BY <1>4, <1>5, <1>6 DEF TableOf
<1>10. \A s \in 1..new : rows2[s] \in {4, 8} /\ line2[s] \subseteq 1..new
  <2> SUFFICES ASSUME NEW s \in 1..new PROVE rows2[s] \in {4, 8} /\ line2[s] \subseteq 1..new
      OBVIOUS
  <2>1. CASE s = new
        BY <1>1, <1>2, <1>4, <1>5, <2>1
  <2>2. CASE s # new
        BY <1>1, <1>4, <1>5, <1>6, <2>2 DEF TableOf
  <2>3. QED BY <2>1, <2>2
<1>11. TableOf(table')
       BY <1>1, <1>3, <1>8, <1>9, <1>10 DEF TableOf
<1>12. Grown(table, table')
  <2>1. table.newest <= new
        BY <1>1 DEF new
  <2>2. QED BY <1>3, <1>5, <1>6, <2>1 DEF Grown
<1>13. QED BY <1>3, <1>4, <1>5, <1>7, <1>11, <1>12 DEF new

\* Only the current snapshot changes, to another that there has been.
LEMMA MoveGrows ==
    ASSUME table \in TableKind, TableOf(table), NEW snapshot,
           snapshot \in 1..table.newest \/ (table.newest = 0 /\ snapshot = NoSnapshot),
           table' = [table EXCEPT !.snapshot = snapshot]
    PROVE  /\ table' \in TableKind /\ TableOf(table') /\ Grown(table, table')
           /\ table'.snapshot = snapshot /\ table'.newest = table.newest
           /\ table'.rows = table.rows /\ table'.line = table.line
<1>1. /\ table'.snapshot = snapshot /\ table'.newest = table.newest
      /\ table'.rows = table.rows /\ table'.line = table.line
      BY DEF TableKind
<1>2. table.newest \in Nat /\ snapshot \in TableStates
      BY DEF TableKind, TableStates, Snapshots, NoSnapshot
<1>3. table' \in TableKind
      BY <1>2 DEF TableKind
<1>4. TableOf(table')
  <2>1. /\ snapshot \in {NoTable, NoSnapshot} \cup 1..table.newest
        /\ table.newest # NoSnapshot => snapshot \notin {NoTable, NoSnapshot}
        BY <1>2 DEF NoSnapshot, NoTable
  <2>2. QED BY <1>1, <2>1 DEF TableOf
<1>5. Grown(table, table')
      BY <1>1, <1>2 DEF Grown
<1>6. QED BY <1>1, <1>3, <1>4, <1>5

-----------------------------------------------------------------------------
(***************************************************************************)
(* Steps of a thread that is inside the block.                             *)
(***************************************************************************)
\* It goes on; the table may grow, for its own call.
LEMMA HolderStep ==
    ASSUME Inv, NEW t \in Threads, NEW pc \in Inside, thread[t].pc \in Inside, Goto(t, pc),
           UNCHANGED <<spark_lock, recorded, op, worker>>,
           session' \in {"none", "running", "stopped"}, used' \in UsedKind, table' \in TableKind,
           TableOf(table'), Grown(table, table'), CallOf(thread'[t], table')
    PROVE  Inv'
<1>1. /\ thread' \in [Threads -> Calls]
      /\ thread'[t].pc = pc
      /\ thread'[t].kind = thread[t].kind
      /\ thread'[t].client = thread[t].client
      /\ thread'[t].expected = thread[t].expected
      /\ thread'[t].target = thread[t].target
      /\ \A u \in Threads : u # t => thread'[u] = thread[u]
  <2> DEFINE moved == [pc |-> pc, kind |-> thread[t].kind, client |-> thread[t].client,
                       expected |-> thread[t].expected, target |-> thread[t].target,
                       answer |-> thread[t].answer, seen |-> thread[t].seen]
  <2>1. thread \in [Threads -> Calls] /\ thread[t] \in Calls
        BY DEF Inv, TypeOK
  <2>2. moved \in Calls /\ [thread[t] EXCEPT !.pc = pc] = moved
        BY <2>1 DEF Calls
  <2>3. thread' = [thread EXCEPT ![t] = moved]
        BY <2>2 DEF Goto
  <2>4. /\ moved.pc = pc /\ moved.kind = thread[t].kind /\ moved.client = thread[t].client
        /\ moved.expected = thread[t].expected /\ moved.target = thread[t].target
        OBVIOUS
  <2> HIDE DEF moved
  <2>5. QED BY <2>1, <2>2, <2>3, <2>4
<1>2. spark_lock = t /\ \A u \in Threads : u # t => thread[u].pc \notin Inside
      BY DEF Inv, Alone
<1>k. table \in TableKind
      BY DEF Inv, TypeOK, TableKind
<1>3. TypeOK'
      BY <1>1 DEF Inv, TypeOK, UsedKind, TableKind
<1>4. Alone'
      BY <1>1, <1>2 DEF Alone
<1>5. ASSUME NEW u \in Threads, u # t
      PROVE  CallOf(thread[u], table')
  <2>1. CallOf(thread[u], table) /\ thread[u].pc \notin Inside
        BY <1>2, <1>5 DEF Inv
  <2>2. thread[u].kind = "execute" /\ thread[u].expected # NoSnapshot /\ thread[u].pc = "answered"
            /\ thread[u].answer = "ok" =>
                Result(table', thread[u].expected, thread[u].target, thread[u].seen)
        BY <1>k, <2>1, ResultStays DEF CallOf
  <2>3. QED BY <2>1, <2>2 DEF CallOf, Inside
<1>6. \A u \in Threads : CallOf(thread'[u], table')
      BY <1>1, <1>5
<1>7. InHand'
      BY <1>1 DEF Inv, InHand, TypeOK, Inside
<1>8. Reported'
      BY <1>k, ResultStays DEF Inv, Reported
<1>9. QED BY <1>3, <1>4, <1>6, <1>7, <1>8 DEF Inv

\* It leaves, with what its client will be told.
LEMMA AnswerStep ==
    ASSUME Inv, NEW t \in Threads, NEW answer \in {"ok", "error"}, NEW seen \in Snapshots,
           thread[t].pc \in Inside, Answer(t, answer, seen),
           answer = "ok" /\ thread[t].kind = "execute" /\ thread[t].expected # NoSnapshot =>
               Result(table, thread[t].expected, thread[t].target, seen),
           UNCHANGED <<table, recorded, op, worker>>,
           session' \in {"none", "running", "stopped"}, used' \in UsedKind
    PROVE  Inv'
<1> DEFINE told == [pc |-> "answered", kind |-> thread[t].kind, client |-> thread[t].client,
                    expected |-> thread[t].expected, target |-> thread[t].target,
                    answer |-> answer, seen |-> seen]
<1>1. thread[t] \in Calls /\ NoSnapshot \in Snapshots
      BY DEF Inv, TypeOK, NoSnapshot, Snapshots
<1>2. told \in Calls /\ Idle \in Calls
      BY <1>1 DEF Calls, Idle
<1>3. thread' = [thread EXCEPT ![t] = IF thread[t].client = "gone" THEN Idle ELSE told]
      BY DEF Answer
<1>4. /\ told.pc = "answered" /\ told.kind = thread[t].kind /\ told.client = thread[t].client
      /\ told.expected = thread[t].expected /\ told.target = thread[t].target
      /\ told.answer = answer /\ told.seen = seen
      OBVIOUS
<1>5. Idle.pc = "idle" /\ Idle.kind = "none"
      BY DEF Idle
<1> HIDE DEF told
<1>6. /\ thread' \in [Threads -> Calls]
      /\ \A u \in Threads : u # t => thread'[u] = thread[u]
      /\ thread'[t] = IF thread[t].client = "gone" THEN Idle ELSE told
      BY <1>2, <1>3 DEF Inv, TypeOK
<1>7. \A u \in Threads : u # t => thread[u].pc \notin Inside
      BY DEF Inv, Alone
<1>8. TypeOK'
      BY <1>6 DEF Inv, TypeOK, UsedKind, Answer
<1>9. Alone'
      BY <1>4, <1>5, <1>6, <1>7 DEF Alone, Inside
<1>10. CallOf(thread'[t], table)
       BY <1>4, <1>5, <1>6 DEF CallOf
<1>11. \A u \in Threads : CallOf(thread'[u], table')
       BY <1>6, <1>10 DEF Inv
<1>12. InHand'
       BY <1>4, <1>6 DEF Inv, InHand, TypeOK
<1>13. Reported'
       BY DEF Inv, Reported
<1>14. QED BY <1>8, <1>9, <1>11, <1>12, <1>13 DEF Inv

LEMMA HandlerStep ==
    ASSUME Inv, NEW t \in Threads, Handler(t)
    PROVE  Inv'
<1> USE DEF TypeOK
<1>t. /\ thread[t] \in Calls
      /\ table \in TableKind /\ used \in UsedKind
      /\ session \in {"none", "running", "stopped"}
      /\ table.snapshot # NoTable => table.snapshot \in Snapshots
      /\ NoSnapshot \in Snapshots
      /\ TableOf(table) /\ CallOf(thread[t], table)
      BY DEF Inv, TableKind, TableStates, UsedKind, NoSnapshot, Snapshots
<1>n. table.newest \in Nat /\ Grown(table, table)
      BY <1>t DEF TableKind, Snapshots, NoSnapshot, Grown
<1>g. ASSUME NEW pc \in Inside, Goto(t, pc)
      PROVE  /\ thread'[t].pc = pc
             /\ thread'[t].kind = thread[t].kind
             /\ thread'[t].expected = thread[t].expected
             /\ thread'[t].target = thread[t].target
      BY <1>g DEF Inv, Goto, Calls
<1>1. CASE get_spark(t)
  <2>1. thread[t].pc \in Inside
        BY <1>1 DEF get_spark, At, Inside
  <2>2. CASE /\ Goto(t, "read") /\ UNCHANGED <<spark_lock, used>>
             /\ session' \in {"none", "running", "stopped"}
        BY <1>1, <1>t, <1>n, <1>g, <2>1, <2>2, HolderStep DEF get_spark, Inside, CallOf
  <2>3. CASE session' = "none" /\ Answer(t, "error", NoSnapshot) /\ Count("faults")
             /\ used.faults < MaxFaults
    <3>1. used' \in UsedKind
          BY <1>t, <2>3 DEF Count, UsedKind
    <3>2. QED BY <1>1, <1>t, <2>1, <2>3, <3>1, AnswerStep DEF get_spark
  <2>4. QED BY <1>1, <1>t, <2>2, <2>3 DEF get_spark, build_spark_session
<1>2. CASE spark_failed(t)
      BY <1>2, <1>t, AnswerStep DEF spark_failed, At, Inside
<1>3. CASE read_only(t)
      BY <1>3, <1>t, AnswerStep DEF read_only, Using, At, Inside
<1>4. CASE inspect_table(t)
      BY <1>4, <1>t, AnswerStep DEF inspect_table, Using, At, Inside, iceberg_table_state
<1>5. CASE bootstrap_create(t)
  <2>1. PICK snapshot, pc :
           /\ snapshot = IF table.snapshot = NoTable THEN NoSnapshot ELSE table.snapshot
           /\ pc = IF Rows = 0 THEN "call" ELSE "after"
           /\ table' = [table EXCEPT !.snapshot = snapshot] /\ Goto(t, pc)
        BY <1>5 DEF bootstrap_create
  <2>2. pc \in Inside /\ thread[t].pc \in Inside /\ thread[t].kind = "bootstrap"
        BY <1>5, <2>1 DEF bootstrap_create, Using, At, Inside
  <2>3. /\ snapshot \in 1..table.newest \/ (table.newest = 0 /\ snapshot = NoSnapshot)
        /\ snapshot # NoTable
        /\ pc = "call" => table.newest = 0
        BY <1>t, <1>n, <2>1 DEF TableOf, NoTable, NoSnapshot, Rows
  <2>4. thread'[t].pc = pc /\ thread'[t].kind = "bootstrap"
        BY <2>1, <2>2, <1>g
  <2>5. /\ table' \in TableKind /\ TableOf(table') /\ Grown(table, table')
        /\ table'.snapshot = snapshot /\ table'.newest = table.newest
        BY <1>t, <2>1, <2>3, MoveGrows
  <2>6. CallOf(thread'[t], table')
        BY <2>1, <2>3, <2>4, <2>5 DEF CallOf
  <2>7. QED BY <1>5, <1>t, <2>1, <2>2, <2>5, <2>6, HolderStep DEF bootstrap_create
<1>6. CASE bootstrap_insert(t)
  <2>1. PICK pc \in {"append", "after"} : Goto(t, pc) /\ (pc = "append" <=> thread[t].pc = "call")
        BY <1>6 DEF bootstrap_insert, Using, At
  <2>2. /\ thread[t].pc \in {"call", "append"} /\ thread[t].kind = "bootstrap"
        /\ pc \in Inside /\ thread[t].pc \in Inside
        BY <1>6 DEF bootstrap_insert, Using, At, Inside
  <2>3. /\ table.snapshot # NoTable
        /\ pc = "append" => table.newest = 0 /\ Rows = 0
        /\ pc = "after" => table.newest = 1 /\ Rows = 4
    <3>1. /\ table.snapshot # NoTable
          /\ pc = "append" => table.newest = 0
          /\ pc = "after" => table.newest = 1 /\ table.rows[1] = 4
          BY <2>1, <2>2, <1>t DEF CallOf
    <3>2. pc = "append" => table.snapshot = NoSnapshot
          BY <1>t, <3>1 DEF TableOf
    <3>3. pc = "after" => table.snapshot = 1
          BY <1>t, <3>1 DEF TableOf, NoSnapshot
    <3>4. QED BY <1>t, <3>1, <3>2, <3>3 DEF TableOf, Rows
  <2>4. /\ Rows + 4 \in {4, 8} /\ Commit(Rows + 4) /\ table.newest < 2
        /\ pc = "append" => Rows + 4 = 4
        BY <1>6, <2>3 DEF bootstrap_insert
  <2>5. /\ table' \in TableKind /\ TableOf(table') /\ Grown(table, table')
        /\ table'.snapshot = table.newest + 1 /\ table'.newest = table.newest + 1
        /\ pc = "append" => table'.rows[table.newest + 1] = 4
        BY <1>t, <2>3, <2>4, CommitGrows
  <2>6. thread'[t].pc = pc /\ thread'[t].kind = "bootstrap"
        BY <2>1, <2>2, <1>g
  <2>7. CallOf(thread'[t], table')
        BY <1>n, <2>3, <2>5, <2>6 DEF CallOf, NoTable
  <2>8. QED BY <1>6, <1>t, <2>1, <2>2, <2>5, <2>7, HolderStep DEF bootstrap_insert
<1>7. CASE execute_before(t)
  <2>1. thread[t].pc \in Inside /\ "call" \in Inside /\ thread[t].kind = "execute"
        BY <1>7 DEF execute_before, Using, At, Inside
  <2>2. CASE Answer(t, "error", NoSnapshot)
        BY <1>7, <1>t, <2>1, <2>2, AnswerStep DEF execute_before
  <2>3. CASE /\ Goto(t, "call") /\ UNCHANGED spark_lock /\ table.snapshot # NoTable
             /\ thread[t].expected \in {NoSnapshot, iceberg_table_state}
    <3>1. thread'[t].pc = "call" /\ thread'[t].kind = "execute"
          /\ thread'[t].expected = thread[t].expected
          BY <2>1, <2>3, <1>g
    <3>2. CallOf(thread'[t], table)
          BY <2>3, <3>1 DEF CallOf, iceberg_table_state
    <3>3. QED BY <1>7, <1>t, <1>n, <2>1, <2>3, <3>2, HolderStep DEF execute_before
  <2>4. QED BY <1>7, <2>2, <2>3 DEF execute_before
<1>8. CASE execute_procedure(t)
  <2>1. /\ thread[t].pc \in Inside /\ "after" \in Inside /\ thread[t].kind = "execute"
        /\ thread[t].pc = "call" /\ table.snapshot # NoTable
        /\ thread[t].expected # NoSnapshot => thread[t].expected = table.snapshot
        BY <1>8, <1>t DEF execute_procedure, Using, At, Inside, CallOf
  <2>2. CASE Answer(t, "error", NoSnapshot) /\ UNCHANGED table
        BY <1>8, <1>t, <2>1, <2>2, AnswerStep DEF execute_procedure
  <2>3. CASE Procedure(t) /\ Goto(t, "after") /\ UNCHANGED spark_lock
    <3>1. thread'[t].pc = "after" /\ thread'[t].kind = "execute"
          /\ thread'[t].expected = thread[t].expected /\ thread'[t].target = thread[t].target
          BY <2>1, <2>3, <1>g
    <3>2. ASSUME table' \in TableKind, TableOf(table'), Grown(table, table'),
                 table'.snapshot # NoTable,
                 thread[t].expected # NoSnapshot =>
                    Result(table', thread[t].expected, thread[t].target, table'.snapshot)
          PROVE  Inv'
      <4>1. CallOf(thread'[t], table')
            BY <3>1, <3>2 DEF CallOf
      <4>2. QED BY <1>8, <1>t, <2>1, <2>3, <3>2, <4>1, HolderStep DEF execute_procedure
    <3>3. thread[t].expected # NoSnapshot => thread[t].expected \in 1..table.newest
          BY <1>t, <2>1 DEF TableOf
    <3>4. CASE thread[t].target # NoSnapshot /\ Rollback(thread[t].target)
      <4>1. thread[t].target \in 1..table.newest
            BY <1>t, <3>4 DEF Rollback, TableOf
      <4>2. /\ table' \in TableKind /\ TableOf(table') /\ Grown(table, table')
            /\ table'.snapshot = thread[t].target /\ table'.newest = table.newest
            BY <1>t, <3>4, <4>1, MoveGrows DEF Rollback
      <4>3. QED BY <3>2, <3>3, <3>4, <4>1, <4>2 DEF Result, NoTable
    <3>5. CASE thread[t].target = NoSnapshot /\ UNCHANGED table
          BY <1>t, <1>n, <2>1, <3>2, <3>3, <3>5 DEF Result
    <3>6. CASE /\ thread[t].target = NoSnapshot /\ Commit(Rows) /\ table.newest < MaxSnapshot
               /\ table.snapshot \notin {NoTable, NoSnapshot}
      <4>1. Rows \in {4, 8}
            BY <1>t, <3>6 DEF Rows, TableOf
      <4>2. table.newest + 1 <= MaxSnapshot
            BY <1>n, <3>6
      <4>3. /\ table' \in TableKind /\ TableOf(table') /\ Grown(table, table')
            /\ table'.snapshot = table.newest + 1 /\ table'.newest = table.newest + 1
            /\ table'.line[table.newest + 1] = table.line[table.snapshot] \cup {table.newest + 1}
            BY <1>t, <3>6, <4>1, <4>2, CommitGrows
      <4>4. thread[t].expected # NoSnapshot =>
               Result(table', thread[t].expected, thread[t].target, table'.snapshot)
        <5>1. ASSUME thread[t].expected # NoSnapshot
              PROVE  /\ thread[t].expected \in 1..table'.newest
                     /\ table'.snapshot \in 1..table'.newest
              BY <1>n, <3>3, <4>3, <5>1
        <5>2. ASSUME thread[t].expected # NoSnapshot
              PROVE  table'.line[table'.snapshot] = table'.line[thread[t].expected] \cup {table'.snapshot}
              BY <2>1, <3>3, <4>3, <5>2 DEF Grown
        <5>3. QED BY <3>6, <5>1, <5>2 DEF Result
      <4>5. QED BY <1>n, <3>2, <4>3, <4>4 DEF NoTable
    <3>7. QED BY <2>3, <3>4, <3>5, <3>6 DEF Procedure, Maintain
  <2>4. QED BY <1>8, <2>2, <2>3 DEF execute_procedure
<1>9. CASE answer_after(t)
  <2>1. thread[t].pc \in Inside /\ thread[t].pc = "after"
        BY <1>9 DEF answer_after, Using, At, Inside
  <2>2. /\ table.snapshot \in Snapshots
        /\ thread[t].kind = "execute" /\ thread[t].expected # NoSnapshot =>
              Result(table, thread[t].expected, thread[t].target, table.snapshot)
        BY <1>t, <2>1 DEF CallOf
  <2>3. QED BY <1>9, <1>t, <2>1, <2>2, AnswerStep DEF answer_after, iceberg_table_state
<1>10. QED BY <1>1, <1>2, <1>3, <1>4, <1>5, <1>6, <1>7, <1>8, <1>9 DEF Handler

-----------------------------------------------------------------------------
(***************************************************************************)
(* Steps of the clients, and a thread that takes the lock.                 *)
(***************************************************************************)
\* The parts of the invariant that speak of the threads alone.
ThreadsInv ==
    /\ thread \in [Threads -> Calls]
    /\ Alone
    /\ \A t \in Threads : CallOf(thread[t], table)

\* A call is accepted, answered to its client, or left alone by it.
LEMMA OutsideStep ==
    ASSUME Inv, NEW t \in Threads, NEW call \in Calls, thread' = [thread EXCEPT ![t] = call],
           call.pc \in Inside => thread[t].pc \in Inside,
           CallOf(call, table),
           UNCHANGED <<spark_lock, table>>
    PROVE  /\ ThreadsInv'
           /\ thread'[t] = call
           /\ \A u \in Threads : u # t => thread'[u] = thread[u]
<1>1. /\ thread' \in [Threads -> Calls]
      /\ thread'[t] = call
      /\ \A u \in Threads : u # t => thread'[u] = thread[u]
      BY DEF Inv, TypeOK
<1>2. Alone'
      BY <1>1 DEF Inv, Alone
<1>3. \A u \in Threads : CallOf(thread'[u], table')
      BY <1>1 DEF Inv
<1>4. QED BY <1>1, <1>2, <1>3 DEF ThreadsInv

LEMMA IdleCall ==
    ASSUME Inv
    PROVE  /\ Idle \in Calls /\ Idle.pc = "idle" /\ Idle.pc \notin Inside
           /\ Idle.kind = "none"
           /\ CallOf(Idle, table)
<1>1. Idle.pc = "idle" /\ Idle.kind = "none"
      BY DEF Idle
<1>2. Idle \in Calls
      BY DEF Idle, Calls, NoSnapshot, Snapshots
<1>3. QED BY <1>1, <1>2 DEF CallOf, Inside

LEMMA AcceptStep ==
    ASSUME Inv, NEW t \in Threads, NEW kind \in {"query", "inspect", "bootstrap", "execute"},
           NEW client \in {"here", "gone"}, NEW expected \in Snapshots, NEW target \in Snapshots,
           Accept(t, kind, client, expected, target), UNCHANGED <<spark_lock, table>>
    PROVE  /\ ThreadsInv'
           /\ thread'[t].pc = "waiting" /\ thread'[t].kind = kind
           /\ thread'[t].client = client
           /\ thread'[t].expected = expected /\ thread'[t].target = target
           /\ \A u \in Threads : u # t => thread'[u] = thread[u]
           /\ worker.thread # t
<1> DEFINE call == [pc |-> "waiting", kind |-> kind, client |-> client, expected |-> expected,
                    target |-> target, answer |-> "none", seen |-> NoSnapshot]
<1>1. /\ call.pc = "waiting" /\ call.kind = kind /\ call.client = client
      /\ call.expected = expected /\ call.target = target
      OBVIOUS
<1>2. call \in Calls
      BY DEF Calls, NoSnapshot, Snapshots
<1>3. thread' = [thread EXCEPT ![t] = call] /\ thread[t].pc = "idle"
      BY DEF Accept, At
<1> HIDE DEF call
<1>4. CallOf(call, table) /\ call.pc \notin Inside
      BY <1>1 DEF CallOf, Inside
<1>5. worker.thread # t
      BY <1>3 DEF Inv, TypeOK, InHand
<1>6. QED BY <1>1, <1>2, <1>3, <1>4, <1>5, OutsideStep

LEMMA LeaveStep ==
    ASSUME Inv, NEW t \in Threads, Leave(t), UNCHANGED <<spark_lock, table>>
    PROVE  /\ ThreadsInv'
           /\ \A u \in Threads : u # t => thread'[u] = thread[u]
<1> DEFINE left == [pc |-> thread[t].pc, kind |-> thread[t].kind, client |-> "gone",
                    expected |-> thread[t].expected, target |-> thread[t].target,
                    answer |-> thread[t].answer, seen |-> thread[t].seen]
<1>1. thread[t] \in Calls
      BY DEF Inv, TypeOK
<1>2. left \in Calls /\ [thread[t] EXCEPT !.client = "gone"] = left
      BY <1>1 DEF Calls
<1>3. thread' = [thread EXCEPT ![t] = IF thread[t].pc = "answered" THEN Idle ELSE left]
      BY <1>2 DEF Leave
<1>4. /\ left.pc = thread[t].pc /\ left.kind = thread[t].kind
      /\ left.expected = thread[t].expected /\ left.target = thread[t].target
      /\ left.answer = thread[t].answer /\ left.seen = thread[t].seen
      OBVIOUS
<1> HIDE DEF left
<1>5. CallOf(left, table)
      BY <1>4 DEF Inv, CallOf
<1>6. CASE thread[t].pc = "answered"
      BY <1>3, <1>6, IdleCall, OutsideStep
<1>7. CASE thread[t].pc # "answered"
      BY <1>2, <1>3, <1>4, <1>5, <1>7, OutsideStep
<1>8. QED BY <1>6, <1>7

LEMMA EnterStep ==
    ASSUME Inv, NEW t \in Threads, enter(t)
    PROVE  Inv'
<1>1. /\ thread' \in [Threads -> Calls]
      /\ thread'[t].pc = "session" /\ thread[t].pc = "waiting"
      /\ thread'[t].kind = thread[t].kind
      /\ thread'[t].client = thread[t].client
      /\ thread'[t].expected = thread[t].expected
      /\ thread'[t].target = thread[t].target
      /\ \A u \in Threads : u # t => thread'[u] = thread[u]
      BY DEF enter, At, Goto, Inv, TypeOK, Calls, Inside
<1>2. \A u \in Threads : thread[u].pc \notin Inside
      BY DEF enter, Inv, Alone
<1>3. TypeOK'
      BY <1>1 DEF enter, Inv, TypeOK
<1>4. Alone'
      BY <1>1, <1>2 DEF enter, Alone
<1>5. CallOf(thread'[t], table)
      BY <1>1 DEF CallOf
<1>6. \A u \in Threads : CallOf(thread'[u], table')
      BY <1>1, <1>5 DEF enter, Inv
<1>7. InHand' /\ Reported'
      BY <1>1 DEF enter, Inv, InHand, Reported, TypeOK
<1>8. QED BY <1>3, <1>4, <1>6, <1>7 DEF enter, Inv

LEMMA ClientStep ==
    ASSUME Inv, NEW t \in Threads, query(t) \/ call_runner(t) \/ Take(t) \/ client_gone(t)
    PROVE  Inv'
<1>t. /\ TypeOK /\ InHand /\ Reported /\ TableOf(table)
      /\ NoSnapshot \in Snapshots
      /\ thread[t] \in Calls
      BY DEF Inv, TypeOK, NoSnapshot, Snapshots
<1>w. ASSUME ThreadsInv', worker.thread # t, UNCHANGED <<op, worker, spark_lock, session, table>>,
             \A u \in Threads : u # t => thread'[u] = thread[u],
             recorded' \in TableStates,
             op.state # "NONE" => recorded' # NoTable,
             used' \in UsedKind
      PROVE  Inv'
  <2>1. TypeOK'
        BY <1>t, <1>w DEF TypeOK, ThreadsInv, UsedKind
  <2>2. InHand' /\ Reported'
        BY <1>t, <1>w DEF TypeOK, InHand, Reported
  <2>3. QED BY <1>t, <1>w, <2>1, <2>2 DEF Inv, ThreadsInv
<1>1. CASE query(t)
      BY <1>1, <1>t, <1>w, AcceptStep DEF query, TypeOK, InHand, UsedKind
<1>2. CASE call_runner(t)
  <2>1. used' \in UsedKind
        BY <1>2, <1>t DEF call_runner, Count, TypeOK, UsedKind
  <2>2. PICK kind \in {"bootstrap", "inspect"} : Accept(t, kind, "here", NoSnapshot, NoSnapshot)
        BY <1>2 DEF call_runner
  <2>3. QED BY <1>2, <1>t, <1>w, <2>1, <2>2, AcceptStep DEF call_runner, TypeOK, InHand
<1>3. ASSUME NEW kind \in {"bootstrap", "inspect"}, Recorded(t, kind)
      PROVE  Inv'
  <2>1. thread' = [thread EXCEPT ![t] = Idle] /\ thread[t].kind = kind
        /\ UNCHANGED <<op, worker, spark_lock, session, table, used>>
        BY <1>3 DEF Recorded
  <2>2. worker.thread # t
        BY <1>t, <2>1 DEF TypeOK, InHand
  <2>3. /\ recorded' \in TableStates
        /\ op.state # "NONE" => recorded' # NoTable
        BY <1>3, <1>t DEF Recorded, TypeOK, InHand, Calls, TableStates, Snapshots, NoSnapshot, NoTable
  <2>4. QED BY <1>t, <1>w, <2>1, <2>2, <2>3, IdleCall, OutsideStep DEF TypeOK, UsedKind
<1>4. CASE client_gone(t)
  <2>1. worker.thread # t
        BY <1>4, <1>t DEF client_gone, TypeOK, InHand
  <2>2. used' \in UsedKind
        BY <1>4, <1>t DEF client_gone, Count, TypeOK, UsedKind
  <2>3. QED BY <1>4, <1>t, <1>w, <2>1, <2>2, LeaveStep DEF client_gone, TypeOK, InHand
<1>5. QED BY <1>1, <1>2, <1>3, <1>4 DEF Take, sync_playground_table, sync_inspected_table

-----------------------------------------------------------------------------
(***************************************************************************)
(* Steps of the operation and its worker.                                  *)
(***************************************************************************)
OpKind == [state : {"NONE", "SUCCEEDED", "FAILED", "CANCELED"} \cup Unfinished,
           planned : Snapshots, target : Snapshots]
WorkerKind == [pc : {"idle", "claimed", "waiting", "verify", "write", "down"},
               thread : Threads \cup {None}, seen : Snapshots, loaded : TableStates]

LEMMA TypesOf ==
    ASSUME Inv
    PROVE  /\ op \in OpKind /\ used \in UsedKind /\ worker \in WorkerKind
           /\ recorded \in TableStates
           /\ thread \in [Threads -> Calls]
           /\ worker.pc = "waiting" <=> worker.thread # None
BY DEF Inv, TypeOK, OpKind, UsedKind, WorkerKind

LEMMA PlaceOf ==
    ASSUME NEW pc \in {"idle", "claimed", "waiting", "down"}, NEW t \in Threads \cup {None}
    PROVE  WorkerAt(pc, t) \in WorkerKind /\ WorkerAt(pc, t).pc = pc /\ WorkerAt(pc, t).thread = t
BY DEF WorkerAt, WorkerKind, TableStates, Snapshots, NoSnapshot, NoTable

\* What the other parts of the invariant need of a step that leaves the
\* runner's side alone.
LEMMA RestStep ==
    ASSUME Inv, UNCHANGED <<spark_lock, table>>, ThreadsInv' \/ UNCHANGED thread,
           session' \in {"none", "running", "stopped"}, recorded' \in TableStates,
           op' \in OpKind, used' \in UsedKind, worker' \in WorkerKind,
           worker'.pc = "waiting" <=> worker'.thread # None,
           InHand', Reported'
    PROVE  Inv'
<1>1. ThreadsInv'
      BY DEF ThreadsInv, Inv, TypeOK, Alone
<1>2. TypeOK'
      BY <1>1 DEF Inv, TypeOK, ThreadsInv, OpKind, UsedKind, WorkerKind
<1>3. QED BY <1>1, <1>2 DEF Inv, ThreadsInv

\* The operation ends, however it does.
LEMMA EndStep ==
    ASSUME Inv, NEW state \in {"CANCELED", "FAILED", "SUCCEEDED"}, End(state), worker.pc # "idle",
           UNCHANGED <<spark_lock, session, table, used>>, ThreadsInv' \/ UNCHANGED thread,
           recorded' \in TableStates, recorded' # NoTable
    PROVE  Inv'
<1> USE TypesOf
<1>1. op' \in OpKind /\ op'.state = state
      BY DEF End, OpKind
<1>2. worker' \in WorkerKind /\ worker'.pc = "idle" /\ worker'.thread = None
      BY PlaceOf DEF End
<1>3. InHand' /\ Reported'
      BY <1>1, <1>2 DEF InHand, Reported
<1>4. session' \in {"none", "running", "stopped"}
      BY DEF Inv, TypeOK
<1>5. QED BY <1>1, <1>2, <1>3, <1>4, RestStep

LEMMA OperationStep ==
    ASSUME Inv, create_operation \/ retry_operation \/ cancel_operation \/ claim_operation
                \/ not_posted \/ recover_stale_executions \/ context_stopped
    PROVE  Inv'
<1> USE TypesOf
<1>s. session \in {"none", "running", "stopped"} /\ InHand /\ Reported
      BY DEF Inv, TypeOK
<1>h. worker.pc # "idle" => recorded # NoTable
      BY <1>s DEF InHand, Claimed
<1>1. ASSUME NEW target \in Snapshots, Planned(target), recorded # NoTable, op.state \notin Claimed
      PROVE  Inv'
  <2>1. used' \in UsedKind
        BY <1>1 DEF Planned, Count, UsedKind
  <2>2. op' \in OpKind
        BY <1>1 DEF Planned, OpKind, Unfinished, TableStates
  <2>3. InHand' /\ Reported'
        BY <1>s, <1>1 DEF InHand, Reported, Planned
  <2>4. QED BY <1>s, <1>1, <2>1, <2>2, <2>3, RestStep DEF Planned
<1>2. CASE create_operation
  <2>1. table.newest \in Snapshots
        BY DEF Inv, TypeOK
  <2>2. NoSnapshot..table.newest \subseteq Snapshots
        BY <2>1 DEF Snapshots, NoSnapshot
  <2>3. QED BY <1>1, <1>2, <2>2 DEF create_operation, Unfinished
<1>3. CASE retry_operation
      BY <1>s, <1>1, <1>3 DEF retry_operation, InHand, Claimed, OpKind
<1>4. CASE cancel_operation
  <2>1. /\ op'.planned = op.planned /\ op'.target = op.target
        /\ op'.state = IF op.state = "QUEUED" THEN "CANCELED" ELSE "CANCEL_REQUESTED"
        /\ op' \in OpKind
        BY <1>4 DEF cancel_operation, OpKind, Unfinished, Claimed
  <2>2. InHand' /\ Reported'
        BY <1>s, <1>4, <2>1 DEF InHand, Reported, Claimed, cancel_operation
  <2>3. QED BY <1>s, <1>4, <2>1, <2>2, RestStep DEF cancel_operation
<1>5. CASE claim_operation
  <2>1. op' \in OpKind /\ op'.state = "RUNNING"
        BY <1>5 DEF claim_operation, OpKind, Unfinished, Claimed
  <2>2. worker' \in WorkerKind /\ worker'.pc = "claimed" /\ worker'.thread = None
        BY <1>5, PlaceOf DEF claim_operation
  <2>3. InHand' /\ Reported'
        BY <1>s, <1>5, <2>1, <2>2 DEF InHand, Reported, Claimed, claim_operation
  <2>4. QED BY <1>s, <1>5, <2>1, <2>2, <2>3, RestStep DEF claim_operation
<1>6. CASE not_posted
      BY <1>6, <1>h, EndStep DEF not_posted
<1>7. CASE recover_stale_executions
      BY <1>7, <1>h, EndStep DEF recover_stale_executions
<1>8. CASE context_stopped
  <2>1. used' \in UsedKind
        BY <1>8 DEF context_stopped, Count, UsedKind
  <2>2. InHand' /\ Reported'
        BY <1>s, <1>8 DEF InHand, Reported, context_stopped
  <2>3. QED BY <1>s, <1>8, <2>1, <2>2, RestStep DEF context_stopped
<1>9. QED BY <1>2, <1>3, <1>4, <1>5, <1>6, <1>7, <1>8

LEMMA WorkerStep ==
    ASSUME Inv, \/ \E t \in Threads : execute(t)
                \/ receive_answer \/ mark_verifying \/ mark_succeeded \/ marking_raises
                \/ timeout \/ crash
    PROVE  Inv'
<1> USE TypesOf
<1>s. session \in {"none", "running", "stopped"} /\ InHand /\ Reported
      BY DEF Inv, TypeOK
<1>h. worker.pc # "idle" => recorded # NoTable /\ op.state \in Claimed
      BY <1>s DEF InHand, Claimed
<1>1. ASSUME NEW t \in Threads, execute(t)
      PROVE  Inv'
  <2>1. op.planned \in Snapshots /\ op.target \in Snapshots /\ op.state \in Claimed
        BY <1>h, <1>1 DEF execute, OpKind
  <2>2. /\ ThreadsInv'
        /\ thread'[t].pc = "waiting" /\ thread'[t].kind = "execute"
        /\ thread'[t].client = "here"
        /\ thread'[t].expected = op.planned /\ thread'[t].target = op.target
        BY <1>1, <2>1, AcceptStep DEF execute
  <2>3. worker' \in WorkerKind /\ worker'.pc = "waiting" /\ worker'.thread = t
        BY <1>1, PlaceOf DEF execute
  <2>4. InHand' /\ Reported'
        BY <1>s, <1>1, <2>1, <2>2, <2>3 DEF InHand, Reported, execute
  <2>5. QED BY <1>s, <1>1, <2>2, <2>3, <2>4, RestStep DEF execute
<1>2. CASE receive_answer
  <2>1. /\ worker.thread \in Threads /\ thread[worker.thread] \in Calls
        /\ thread[worker.thread].pc = "answered" /\ thread[worker.thread].kind = "execute"
        /\ thread[worker.thread].expected = op.planned
        /\ thread[worker.thread].target = op.target
        BY <1>s, <1>2 DEF receive_answer, InHand, At, WorkerKind
  <2>2. ThreadsInv'
        BY <1>2, <2>1, IdleCall, OutsideStep DEF receive_answer
  <2>3. CASE End("FAILED") \/ End("CANCELED")
        BY <1>2, <1>h, <2>2, <2>3, EndStep DEF receive_answer
  <2>4. CASE /\ thread[worker.thread].answer = "ok" /\ UNCHANGED op
             /\ worker' = [pc |-> "verify", thread |-> None,
                           seen |-> thread[worker.thread].seen, loaded |-> NoTable]
    <3>1. /\ worker' \in WorkerKind /\ worker'.pc = "verify" /\ worker'.thread = None
          /\ worker'.seen = thread[worker.thread].seen
          BY <2>1, <2>4 DEF WorkerKind, Calls, TableStates
    <3>2. op.planned # NoSnapshot =>
              Result(table, op.planned, op.target, thread[worker.thread].seen)
          BY <2>1, <2>4 DEF Inv, CallOf
    <3>3. InHand' /\ Reported'
          BY <1>h, <1>2, <2>4, <3>1, <3>2 DEF InHand, Reported, receive_answer
    <3>4. QED BY <1>s, <1>2, <2>2, <2>4, <3>1, <3>3, RestStep DEF receive_answer
  <2>5. QED BY <1>2, <2>3, <2>4 DEF receive_answer
<1>3. CASE mark_verifying
  <2>1. /\ op' \in OpKind /\ op'.state = "VERIFYING"
        /\ op'.planned = op.planned /\ op'.target = op.target
        BY <1>3 DEF mark_verifying, OpKind, Unfinished, Claimed
  <2>2. /\ worker' \in WorkerKind /\ worker'.pc = "write" /\ worker'.thread = None
        /\ worker'.seen = worker.seen
        BY <1>3 DEF mark_verifying, WorkerKind
  <2>3. InHand' /\ Reported'
        BY <1>s, <1>h, <1>3, <2>1, <2>2 DEF InHand, Reported, Claimed, mark_verifying
  <2>4. QED BY <1>s, <1>3, <2>1, <2>2, <2>3, RestStep DEF mark_verifying
<1>4. CASE mark_succeeded
  <2>1. recorded' \in TableStates /\ recorded' # NoTable
        BY <1>h, <1>4 DEF mark_succeeded, WorkerKind, TableStates, Snapshots, NoSnapshot, NoTable
  <2>2. QED BY <1>4, <2>1, EndStep DEF mark_succeeded
<1>5. CASE marking_raises
      BY <1>5, <1>h, EndStep DEF marking_raises
<1>6. CASE timeout
  <2>1. worker.thread \in Threads
        BY <1>6 DEF timeout, WorkerKind
  <2>2. ThreadsInv'
        BY <1>6, <2>1, LeaveStep DEF timeout
  <2>3. QED BY <1>6, <1>h, <2>2, EndStep DEF timeout
<1>7. CASE crash
  <2>1. ThreadsInv' \/ UNCHANGED thread
        BY <1>7, LeaveStep DEF crash, WorkerKind
  <2>2. used' \in UsedKind
        BY <1>7 DEF crash, Count, UsedKind
  <2>3. worker' \in WorkerKind /\ worker'.pc = "down" /\ worker'.thread = None
        BY <1>7, PlaceOf DEF crash
  <2>4. InHand' /\ Reported'
        BY <1>s, <1>7, <2>3 DEF InHand, Reported, crash
  <2>5. QED BY <1>s, <1>7, <2>1, <2>2, <2>3, <2>4, RestStep DEF crash
<1>8. QED BY <1>1, <1>2, <1>3, <1>4, <1>5, <1>6, <1>7

-----------------------------------------------------------------------------
(***************************************************************************)
(* The invariant holds, and what follows from it.                          *)
(***************************************************************************)
LEMMA InvInit == Init => Inv
<1> SUFFICES ASSUME Init PROVE Inv
    OBVIOUS
<1>1. Idle \in Calls /\ Idle.pc = "idle" /\ Idle.kind = "none"
      BY DEF Idle, Calls, NoSnapshot, Snapshots
<1>2. /\ thread \in [Threads -> Calls]
      /\ \A t \in Threads : thread[t].pc = "idle" /\ thread[t].kind = "none"
      BY <1>1 DEF Init
<1>3. TypeOK
  <2>1. table \in TableKind
        BY DEF Init, TableKind, TableStates, NoTable, NoSnapshot, Snapshots
  <2>2. op.planned \in Snapshots /\ op \in OpKind /\ recorded \in TableStates
        BY DEF Init, OpKind, TableStates, NoTable, NoSnapshot, Snapshots
  <2>3. worker \in WorkerKind /\ worker.pc = "idle" /\ worker.thread = None
        BY PlaceOf DEF Init
  <2>4. used \in UsedKind
        BY DEF Init, UsedKind
  <2>5. QED BY <1>2, <2>1, <2>2, <2>3, <2>4 DEF Init, TypeOK, TableKind, OpKind, WorkerKind, UsedKind
<1>4. Alone
      BY <1>2 DEF Alone, Inside
<1>5. TableOf(table)
      BY DEF Init, TableOf, TableStates, Snapshots, NoSnapshot, NoTable
<1>6. \A t \in Threads : CallOf(thread[t], table)
      BY <1>2 DEF CallOf
<1>7. InHand /\ Reported
      BY DEF Init, InHand, Reported, WorkerAt
<1>8. QED BY <1>3, <1>4, <1>5, <1>6, <1>7 DEF Inv

LEMMA InvStutter == ASSUME Inv, UNCHANGED vars PROVE Inv'
BY DEF vars, Inv, TypeOK, Alone, InHand, Reported

LEMMA InvStep == Inv /\ [Next]_vars => Inv'
<1> SUFFICES ASSUME Inv, Next PROVE Inv'
    BY InvStutter
<1>1. ASSUME NEW t \in Threads,
             \/ enter(t) \/ Handler(t)
             \/ query(t) \/ call_runner(t) \/ Take(t) \/ client_gone(t)
      PROVE  Inv'
      BY <1>1, EnterStep, HandlerStep, ClientStep
<1>2. CASE \/ context_stopped \/ create_operation \/ retry_operation \/ cancel_operation
           \/ claim_operation \/ not_posted \/ recover_stale_executions
      BY <1>2, OperationStep
<1>3. CASE \/ \E t \in Threads : execute(t)
           \/ receive_answer \/ mark_verifying \/ mark_succeeded \/ marking_raises
           \/ timeout \/ crash
      BY <1>3, WorkerStep
<1>4. QED BY <1>1, <1>2, <1>3 DEF Next, execute_claim

\* The invariant of the runner, its clients and the worker.
THEOREM RunnerInvariance == Spec => []Inv
BY InvInit, InvStep, PTL DEF Spec

\* Every variable of the runner and its clients holds a value of its kind.
THEOREM RunnerTypeCorrectness == Spec => []TypeOK
<1>1. Inv => TypeOK
      BY DEF Inv
<1>2. QED BY <1>1, RunnerInvariance, PTL

\* However many threads ask for the sample (bootstrap in
\* playground/spark/app/main.py), its rows are never doubled.
THEOREM SampleTheorem == Spec => []SampleNotDoubled
<1>1. Inv => SampleNotDoubled
  <2> SUFFICES ASSUME Inv PROVE Rows <= 8
      BY DEF SampleNotDoubled
  <2>1. Rows = 0 \/ Rows \in {4, 8}
        BY DEF Inv, TableOf, Rows
  <2>2. QED BY <2>1
<1>2. QED BY <1>1, RunnerInvariance, PTL

\* A procedure (execute_operation in playground/spark/app/main.py) commits on
\* the snapshot its operation was planned on.
THEOREM CommitsTheorem == Spec => CommitsOnPlan
<1>1. ASSUME Inv, NEW t \in Threads, Commits(t), thread[t].expected # NoSnapshot
      PROVE  thread[t].expected = table.snapshot
      BY <1>1 DEF Inv, Commits, CallOf
<1>2. Inv /\ [Next]_vars =>
          [\A t \in Threads : Commits(t) /\ thread[t].expected # NoSnapshot
              => thread[t].expected = table.snapshot]_vars
      BY <1>1
<1>3. QED BY <1>2, RunnerInvariance, PTL DEF Spec, CommitsOnPlan

\* When an operation succeeds, the registry holds its own result: the target
\* of its rollback, its plan, or what was committed on top of that; or else it
\* held it when mark_succeeded read it, and a late answer was recorded before
\* it wrote (backend/app/worker.py).
THEOREM ResultTheorem == Spec => ResultIsOwn
<1>1. ASSUME Inv, Next, op.state # "SUCCEEDED", op'.state = "SUCCEEDED", op.planned # NoSnapshot
      PROVE  \/ Own(op.planned, op.target, recorded')
             \/ recorded # worker.loaded /\ Own(op.planned, op.target, worker.loaded)
  <2>1. mark_succeeded
        BY <1>1, TypesOf DEF Next, execute_claim, Handler, Take, enter, get_spark, build_spark_session,
           spark_failed, read_only, inspect_table, bootstrap_create, bootstrap_insert,
           execute_before, execute_procedure, answer_after, query, call_runner,
           sync_playground_table, sync_inspected_table, Recorded, client_gone,
           context_stopped, create_operation, retry_operation, Planned, cancel_operation,
           claim_operation, not_posted, receive_answer, mark_verifying, marking_raises,
           recover_stale_executions, End, execute, timeout, crash, OpKind
  <2>2. Result(table, op.planned, op.target, worker.seen)
        BY <1>1, <2>1 DEF mark_succeeded, Inv, Reported
  <2>3. Own(op.planned, op.target, worker.seen)
        BY <2>2 DEF Result, Own
  <2>4. recorded' = IF worker.seen = worker.loaded THEN recorded ELSE worker.seen
        BY <2>1 DEF mark_succeeded
  <2>5. CASE worker.seen = worker.loaded /\ recorded # worker.loaded
        BY <2>3, <2>5
  <2>6. CASE worker.seen = worker.loaded /\ recorded = worker.loaded
    <3>1. recorded' = worker.seen
          BY <2>4, <2>6
    <3>2. QED BY <2>3, <3>1 DEF Own
  <2>7. CASE worker.seen # worker.loaded
    <3>1. recorded' = worker.seen
          BY <2>4, <2>7
    <3>2. QED BY <2>3, <3>1 DEF Own
  <2>8. QED BY <2>5, <2>6, <2>7
<1>2. Inv /\ [Next]_vars =>
          [op.state # "SUCCEEDED" /\ op'.state = "SUCCEEDED" /\ op.planned # NoSnapshot
              => \/ Own(op.planned, op.target, recorded')
                 \/ recorded # worker.loaded /\ Own(op.planned, op.target, worker.loaded)]_vars
      BY <1>1
<1>3. QED BY <1>2, RunnerInvariance, PTL DEF Spec, ResultIsOwn

-----------------------------------------------------------------------------
(***************************************************************************)
(* PlaygroundRunner implements ConditionalCommits.                         *)
(***************************************************************************)
NoCall == [phase |-> "none", snapshot |-> NoSnapshot]
Refines == [Promise!Next]_<<PromisedTable, PromisedCall>>

\* What the abstract call of a thread is, where the thread is.
LEMMA PhaseOf ==
    ASSUME NEW t \in Threads
    PROVE  /\ thread[t].kind # "execute" => PromisedCallOf(t) = NoCall
           /\ thread[t].pc = "idle" => PromisedCallOf(t) = NoCall
           /\ thread[t].pc = "answered" /\ thread[t].answer # "ok" => PromisedCallOf(t) = NoCall
           /\ thread[t].kind = "execute" /\ thread[t].pc \in {"waiting", "session", "read", "call"} =>
                 PromisedCallOf(t) = [phase |-> "asked", snapshot |-> thread[t].expected]
           /\ thread[t].kind = "execute" /\ thread[t].pc = "after" =>
                 PromisedCallOf(t) = [phase |-> "acted", snapshot |-> table.snapshot]
           /\ thread[t].kind = "execute" /\ thread[t].pc = "answered" /\ thread[t].answer = "ok" =>
                 PromisedCallOf(t) = [phase |-> "acted", snapshot |-> thread[t].seen]
BY DEF PromisedCallOf, NoCall

\* The calls of the threads a step leaves alone, when it leaves the table
\* alone or its own thread is inside the block.
LEMMA OtherCalls ==
    ASSUME Inv, NEW t \in Threads, \A u \in Threads : u # t => thread'[u] = thread[u],
           UNCHANGED table \/ thread[t].pc \in Inside
    PROVE  PromisedCall' = [PromisedCall EXCEPT ![t] = PromisedCallOf(t)']
<1>1. ASSUME NEW u \in Threads, u # t
      PROVE  PromisedCallOf(u)' = PromisedCallOf(u)
  <2>1. thread'[u] = thread[u]
        BY <1>1
  <2>2. CASE UNCHANGED table
        BY <2>1, <2>2 DEF PromisedCallOf
  <2>3. CASE thread[u].pc # "after"
        BY <2>1, <2>3 DEF PromisedCallOf
  <2>4. QED BY <1>1, <2>2, <2>3 DEF Inv, Alone, Inside
<1>2. QED BY <1>1 DEF PromisedCall

\* A step that moves one call and leaves the table alone.
LEMMA CallRefines ==
    ASSUME Inv, NEW t \in Threads, \A u \in Threads : u # t => thread'[u] = thread[u],
           UNCHANGED table,
           \/ PromisedCallOf(t)' \in {PromisedCallOf(t), NoCall}
           \/ /\ PromisedCallOf(t) = NoCall
              /\ \E planned \in Snapshots :
                    PromisedCallOf(t)' = [phase |-> "asked", snapshot |-> planned]
    PROVE  Refines
<1>1. PromisedCall' = [PromisedCall EXCEPT ![t] = PromisedCallOf(t)']
      BY OtherCalls
<1>2. UNCHANGED PromisedTable
      BY DEF PromisedTable
<1>3. PromisedCall[t] = PromisedCallOf(t) /\ PromisedCall = [PromisedCall EXCEPT ![t] = PromisedCallOf(t)]
      BY DEF PromisedCall
<1>4. CASE PromisedCallOf(t)' = PromisedCallOf(t)
      BY <1>1, <1>2, <1>3, <1>4 DEF Refines
<1>5. CASE PromisedCallOf(t)' = NoCall /\ PromisedCallOf(t) # NoCall
  <2>1. Promise!GiveUp(t)
        BY <1>1, <1>2, <1>3, <1>5 DEF Promise!GiveUp, Promise!Becomes, Promise!NoCall, NoCall
  <2>2. QED BY <2>1 DEF Promise!Next, Refines
<1>6. ASSUME PromisedCallOf(t) = NoCall, NEW planned \in Snapshots,
             PromisedCallOf(t)' = [phase |-> "asked", snapshot |-> planned]
      PROVE  Refines
  <2>1. Promise!Ask(t)
        BY <1>1, <1>2, <1>3, <1>6
           DEF Promise!Ask, Promise!Becomes, Promise!NoCall, Promise!Asked, NoCall, TableStates
  <2>2. QED BY <2>1 DEF Promise!Next, Refines
<1>7. QED BY <1>4, <1>5, <1>6

\* The one step in which a call acts.
LEMMA ActRefines ==
    ASSUME Inv, NEW t \in Threads, \A u \in Threads : u # t => thread'[u] = thread[u],
           thread[t].pc = "call", thread[t].kind = "execute",
           thread'[t].pc = "after", thread'[t].kind = "execute",
           table'.snapshot \in TableStates
    PROVE  Refines
<1>1. PromisedCall' = [PromisedCall EXCEPT ![t] = PromisedCallOf(t)']
      BY OtherCalls DEF Inside
<1>2. PromisedCall[t] = [phase |-> "asked", snapshot |-> thread[t].expected]
      BY PhaseOf DEF PromisedCall
<1>3. PromisedCallOf(t)' = [phase |-> "acted", snapshot |-> table'.snapshot]
      BY DEF PromisedCallOf
<1>4. thread[t].expected \in {NoSnapshot, table.snapshot}
      BY DEF Inv, CallOf
<1>5. PromisedTable' = [PromisedTable EXCEPT !["sample"] = table'.snapshot]
      BY DEF PromisedTable
<1>6. PromisedTable["sample"] = table.snapshot
      BY DEF PromisedTable
<1>7. Promise!Act(t)
      BY <1>1, <1>2, <1>3, <1>4, <1>5, <1>6
         DEF Promise!Act, Promise!Becomes, Promise!Asked, Promise!Acted
<1>8. QED BY <1>7 DEF Promise!Next, Refines

\* A bootstrap is the table's other writer.
LEMMA BootstrapRefines ==
    ASSUME Inv, NEW t \in Threads, \A u \in Threads : u # t => thread'[u] = thread[u],
           thread[t].pc \in Inside, thread[t].kind = "bootstrap", thread'[t].kind = "bootstrap",
           table'.snapshot \in TableStates
    PROVE  Refines
<1>1. PromisedCallOf(t)' = NoCall /\ PromisedCallOf(t) = NoCall
      BY DEF PromisedCallOf, NoCall
<1>2. PromisedCall' = PromisedCall
      BY <1>1, OtherCalls DEF PromisedCall
<1>3. PromisedTable' = [PromisedTable EXCEPT !["sample"] = table'.snapshot]
      BY DEF PromisedTable
<1>4. Promise!OtherWrite("sample")
      BY <1>2, <1>3 DEF Promise!OtherWrite
<1>5. QED BY <1>4 DEF Promise!Next, Refines

LEMMA HandlerRefines ==
    ASSUME Inv, Inv', NEW t \in Threads, enter(t) \/ Handler(t)
    PROVE  Refines
<1>t. /\ thread \in [Threads -> Calls] /\ thread[t] \in Calls
      /\ table'.snapshot \in TableStates
      BY DEF Inv, TypeOK
<1>g. ASSUME NEW pc \in Inside, Goto(t, pc)
      PROVE  /\ thread'[t].pc = pc
             /\ thread'[t].kind = thread[t].kind
             /\ thread'[t].expected = thread[t].expected
             /\ \A u \in Threads : u # t => thread'[u] = thread[u]
      BY <1>t, <1>g DEF Goto, Calls
<1>a. ASSUME NEW answer \in {"ok", "error"}, NEW seen \in Snapshots, Answer(t, answer, seen)
      PROVE  /\ \/ thread'[t].pc = "idle"
                \/ /\ thread'[t].pc = "answered" /\ thread'[t].kind = thread[t].kind
                   /\ thread'[t].answer = answer /\ thread'[t].seen = seen
             /\ \A u \in Threads : u # t => thread'[u] = thread[u]
      BY <1>t, <1>a DEF Answer, Idle
<1>n. NoSnapshot \in Snapshots
      BY DEF NoSnapshot, Snapshots
<1>e. ASSUME Answer(t, "error", NoSnapshot), UNCHANGED table
      PROVE  Refines
  <2>1. PromisedCallOf(t)' = NoCall
        BY <1>a, <1>n, <1>e DEF PromisedCallOf, NoCall
  <2>2. QED BY <1>a, <1>n, <1>e, <2>1, CallRefines
<1>m. ASSUME NEW pc \in {"session", "read", "call"}, Goto(t, pc), UNCHANGED table,
             thread[t].pc \in {"waiting", "session", "read"}
      PROVE  Refines
  <2>1. pc \in Inside
        BY DEF Inside
  <2>2. PromisedCallOf(t)' = PromisedCallOf(t)
        BY <1>g, <1>m, <2>1 DEF PromisedCallOf
  <2>3. QED BY <1>g, <1>m, <2>1, <2>2, CallRefines
<1>q. ASSUME thread[t].kind \in {"query", "inspect"}, NEW answer \in {"ok", "error"},
             NEW seen \in Snapshots, Answer(t, answer, seen), UNCHANGED table
      PROVE  Refines
  <2>1. PromisedCallOf(t)' = NoCall
        BY <1>a, <1>q DEF PromisedCallOf, NoCall
  <2>2. QED BY <1>a, <1>q, <2>1, CallRefines
<1>1. CASE enter(t) \/ get_spark(t)
      BY <1>1, <1>m, <1>e DEF enter, get_spark, build_spark_session, At
<1>2. CASE spark_failed(t)
      BY <1>2, <1>e DEF spark_failed
<1>3. CASE read_only(t)
      BY <1>3, <1>q, <1>n DEF read_only, Using
<1>4. CASE inspect_table(t)
      BY <1>4, <1>q, <1>n DEF inspect_table, Using, iceberg_table_state, Inv, TypeOK, TableStates
<1>5. CASE bootstrap_create(t) \/ bootstrap_insert(t)
  <2>1. /\ thread[t].pc \in Inside /\ thread[t].kind = "bootstrap"
        /\ \E pc \in Inside : Goto(t, pc)
        BY <1>5 DEF bootstrap_create, bootstrap_insert, Using, At, Inside
  <2>2. QED BY <1>t, <1>g, <2>1, BootstrapRefines
<1>6. CASE execute_before(t)
      BY <1>6, <1>m, <1>e DEF execute_before, Using, At
<1>7. CASE execute_procedure(t)
  <2>1. CASE Goto(t, "after")
        BY <1>7, <1>t, <1>g, <2>1, ActRefines DEF execute_procedure, Using, At, Inside
  <2>2. CASE Answer(t, "error", NoSnapshot) /\ UNCHANGED table
        BY <1>e, <2>2
  <2>3. QED BY <1>7, <2>1, <2>2 DEF execute_procedure
<1>8. CASE answer_after(t)
  <2>1. /\ thread[t].pc = "after" /\ UNCHANGED table
        /\ Answer(t, "ok", table.snapshot)
        BY <1>8 DEF answer_after, Using, At, iceberg_table_state
  <2>2. table.snapshot \in Snapshots
        BY <2>1 DEF Inv, TypeOK, CallOf, TableStates
  <2>3. PromisedCallOf(t)' \in {NoCall, PromisedCallOf(t)}
        BY <1>a, <2>1, <2>2 DEF PromisedCallOf, NoCall
  <2>4. QED BY <1>a, <2>1, <2>2, <2>3, CallRefines
<1>9. QED BY <1>1, <1>2, <1>3, <1>4, <1>5, <1>6, <1>7, <1>8 DEF Handler

\* A client asks, takes its answer or leaves, and the table stays.
LEMMA ClientRefines ==
    ASSUME Inv, NEW t \in Threads, UNCHANGED table,
           \/ \E kind \in {"query", "inspect", "bootstrap", "execute"}, client \in {"here", "gone"},
                 expected \in Snapshots, target \in Snapshots : Accept(t, kind, client, expected, target)
           \/ thread' = [thread EXCEPT ![t] = Idle]
           \/ Leave(t)
    PROVE  Refines
<1>t. thread \in [Threads -> Calls] /\ thread[t] \in Calls
      BY DEF Inv, TypeOK
<1>1. ASSUME NEW kind \in {"query", "inspect", "bootstrap", "execute"}, NEW client \in {"here", "gone"},
             NEW expected \in Snapshots, NEW target \in Snapshots,
             Accept(t, kind, client, expected, target)
      PROVE  Refines
  <2>1. /\ thread'[t].pc = "waiting" /\ thread'[t].kind = kind /\ thread'[t].expected = expected
        /\ thread[t].pc = "idle" /\ \A u \in Threads : u # t => thread'[u] = thread[u]
        BY <1>t, <1>1 DEF Accept, At
  <2>2. PromisedCallOf(t) = NoCall
        BY <2>1, PhaseOf
  <2>3. PromisedCallOf(t)' \in {NoCall, [phase |-> "asked", snapshot |-> expected]}
        BY <2>1 DEF PromisedCallOf, NoCall
  <2>4. QED BY <2>1, <2>2, <2>3, CallRefines
<1>2. ASSUME thread' = [thread EXCEPT ![t] = Idle]
      PROVE  Refines
  <2>1. thread'[t].pc = "idle" /\ \A u \in Threads : u # t => thread'[u] = thread[u]
        BY <1>t, <1>2 DEF Idle
  <2>2. PromisedCallOf(t)' = NoCall
        BY <2>1 DEF PromisedCallOf, NoCall
  <2>3. QED BY <2>1, <2>2, CallRefines
<1>3. ASSUME thread[t].pc # "answered", Leave(t)
      PROVE  Refines
  <2>1. /\ thread'[t].pc = thread[t].pc /\ thread'[t].kind = thread[t].kind
        /\ thread'[t].expected = thread[t].expected
        /\ thread'[t].answer = thread[t].answer /\ thread'[t].seen = thread[t].seen
        /\ \A u \in Threads : u # t => thread'[u] = thread[u]
        BY <1>t, <1>3 DEF Leave, Calls
  <2>2. PromisedCallOf(t)' = PromisedCallOf(t)
        BY <2>1 DEF PromisedCallOf
  <2>3. QED BY <2>1, <2>2, CallRefines
<1>4. QED BY <1>1, <1>2, <1>3 DEF Leave

LEMMA StepRefines == ASSUME Inv, Inv', [Next]_vars PROVE Refines
<1>n. NoSnapshot \in Snapshots /\ op.planned \in Snapshots /\ op.target \in Snapshots
      BY DEF Inv, TypeOK, NoSnapshot, Snapshots
<1>w. worker.pc = "waiting" \/ worker.thread # None => worker.thread \in Threads
      BY TypesOf DEF WorkerKind
<1>u. ASSUME UNCHANGED <<thread, table>>
      PROVE  Refines
      BY <1>u DEF Refines, PromisedTable, PromisedCall, PromisedCallOf
<1>1. ASSUME NEW t \in Threads,
             \/ query(t) \/ call_runner(t) \/ Take(t) \/ client_gone(t) \/ execute(t)
      PROVE  Refines
      BY <1>1, <1>n, ClientRefines
         DEF query, call_runner, Take, sync_playground_table, sync_inspected_table, Recorded,
             client_gone, execute
<1>2. CASE receive_answer \/ timeout \/ crash
      BY <1>2, <1>w, <1>u, ClientRefines DEF receive_answer, timeout, crash
<1>3. CASE \/ context_stopped \/ create_operation \/ retry_operation \/ cancel_operation
           \/ claim_operation \/ not_posted \/ mark_verifying \/ mark_succeeded \/ marking_raises
           \/ recover_stale_executions \/ UNCHANGED vars
      BY <1>3, <1>u DEF context_stopped, create_operation, retry_operation, Planned,
         cancel_operation, claim_operation, not_posted, mark_verifying, mark_succeeded,
         marking_raises, recover_stale_executions, vars
<1>4. QED BY <1>1, <1>2, <1>3, HandlerRefines DEF Next, execute_claim

\* The threads, their lock and their clients together implement the abstract
\* promise: each execution is one conditional commit on the table
\* (execute_operation in playground/spark/app/main.py).
THEOREM RunnerRefinement == Spec => ImplementsCommits
<1>1. Init => Promise!Init
  <2> SUFFICES ASSUME Init PROVE Promise!Init
      OBVIOUS
  <2>1. \A t \in Threads : PromisedCallOf(t) = NoCall
        BY PhaseOf DEF Init, Idle
  <2>2. PromisedTable \in [{"sample"} -> TableStates]
        BY DEF Init, PromisedTable, TableStates
  <2>3. QED BY <2>1, <2>2 DEF Promise!Init, Promise!NoCall, NoCall, PromisedCall
<1>2. Inv /\ Inv' /\ [Next]_vars => [Promise!Next]_<<PromisedTable, PromisedCall>>
      BY StepRefines DEF Refines
<1>3. QED BY <1>1, <1>2, RunnerInvariance, PTL DEF Spec, ImplementsCommits, Promise!Spec

=============================================================================
