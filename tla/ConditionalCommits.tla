------------------------ MODULE ConditionalCommits ------------------------
(***************************************************************************)
(* What the engines promise of an execution (README.md: a request whose    *)
(* recorded snapshot is not the table's current one fails before it        *)
(* changes anything), with neither batches nor threads nor locks: however  *)
(* long it takes, an execution acts on its table in one step, in which it  *)
(* finds the snapshot it was planned on and leaves the one it reports, and *)
(* it acts once.  It may fail or be given up before that step or after it. *)
(***************************************************************************)
CONSTANTS
    Calls,       \* executions
    Tables,
    TableOf,     \* the table of each execution
    Shared,      \* tables with other writers
    Reused,      \* names that are given to a new execution when one is over
    Snapshots,   \* what a table can be on
    NoPlan       \* a plan that is not compared

VARIABLES table, call

NoCall == [phase |-> "none", snapshot |-> NoPlan]
Over == [phase |-> "over", snapshot |-> NoPlan]
Asked(planned) == [phase |-> "asked", snapshot |-> planned]
Acted(left) == [phase |-> "acted", snapshot |-> left]

Init ==
    /\ table \in [Tables -> Snapshots]
    /\ call = [c \in Calls |-> NoCall]

Becomes(c, to) == call' = [call EXCEPT ![c] = to]

Ask(c) ==
    /\ call[c] = NoCall
    /\ \E planned \in Snapshots \cup {NoPlan} : Becomes(c, Asked(planned))
    /\ UNCHANGED table

Act(c) ==
    /\ \E planned \in {NoPlan, table[TableOf[c]]} : call[c] = Asked(planned)
    /\ \E left \in Snapshots :
          /\ table' = [table EXCEPT ![TableOf[c]] = left]
          /\ Becomes(c, Acted(left))

GiveUp(c) ==
    /\ IF c \in Reused THEN Becomes(c, NoCall) ELSE Becomes(c, Over)
    /\ UNCHANGED table

OtherWrite(t) ==
    /\ t \in Shared
    /\ \E left \in Snapshots : table' = [table EXCEPT ![t] = left]
    /\ UNCHANGED call

Next ==
    \/ \E c \in Calls : Ask(c) \/ Act(c) \/ GiveUp(c)
    \/ \E t \in Tables : OtherWrite(t)

Spec == Init /\ [][Next]_<<table, call>>
=============================================================================
