-------------------------- MODULE ApiClientsProofs --------------------------
(***************************************************************************)
(* The safety properties of ApiClients for any number of clients, whatever *)
(* they send: what is accepted can be executed (AcceptedIsRunnable, for    *)
(* all parameters), and the invariant Inv, which says how far behind the   *)
(* row a client and the worker may be.                                     *)
(***************************************************************************)
EXTENDS ApiClients, TLAPS

USE ParametersAssumption, ClientsAssumption

-----------------------------------------------------------------------------
(***************************************************************************)
(* validate_parameters (services.py) accepts no parameters that            *)
(* procedure_sql (iceberg_maintenance.py, main.py) refuses, but for those  *)
(* that only the engine judges: a command that has been approved does not  *)
(* fail over its parameters.  (The names of catalog, namespace and table,  *)
(* which procedure_sql looks at too, are the registry's.)                  *)
(***************************************************************************)
THEOREM AcceptedIsRunnable ==
    ASSUME NEW c \in Commands, NEW p, AreParameters(p),
           validate_parameters(c, p), ~EngineOnly(c, p)
    PROVE  procedure_sql(c, p)
<1>0. DOMAIN p \subseteq COMMAND_PARAMETERS[c]
      BY DEF validate_parameters
<1>1. CASE c = "REWRITE_DATA_FILES"
      BY <1>1 DEF procedure_sql, validate_parameters
<1>2. CASE c = "REWRITE_MANIFESTS"
      BY <1>2 DEF procedure_sql, validate_parameters, boolean, bool_option, Get, IsBool, Bool_
<1>3. CASE c = "REWRITE_POSITION_DELETES"
      BY <1>3 DEF procedure_sql, validate_parameters
<1>4. CASE c = "COMPUTE_STATS"
  <2>1. columns_valid(p, {"empty", "long", "other"})
        BY DEF validate_parameters
  <2>2. SUFFICES ASSUME "columns" \in DOMAIN p, p["columns"].type # "null"
                 PROVE  /\ p["columns"].type = "list"
                        /\ 1 <= p["columns"].n /\ p["columns"].n <= 100
                        /\ p["columns"].elements \cap {"empty", "long", "nul", "other"} = {}
        BY <1>4 DEF procedure_sql, columns_valid
  <2>3. /\ p["columns"].type = "list"
        /\ 1 <= p["columns"].n /\ p["columns"].n <= 100
        /\ p["columns"].elements \cap {"empty", "long", "other"} = {}
        BY <2>1, <2>2 DEF columns_valid
  <2>4. "nul" \notin p["columns"].elements
        BY <1>4, <2>2, <2>3 DEF EngineOnly
  <2>5. QED BY <2>3, <2>4
<1>5. CASE c = "EXPIRE_SNAPSHOTS"
  <2>1. integer(p, "olderThanHours", 120, 87600) /\ integer(p, "retainLast", 1, 10000)
        BY <1>5 DEF validate_parameters
  <2>2. /\ int_option(p, "olderThanHours", Int_(168), 120, 87600)
        /\ int_option(p, "retainLast", Int_(1), 1, 10000)
        BY <2>1 DEF integer, int_option, Get, IsInt, Int_
  <2>3. QED BY <1>5, <2>2 DEF procedure_sql
<1>6. CASE c = "REMOVE_ORPHAN_FILES"
  <2>1. integer(p, "olderThanHours", 72, 87600) /\ boolean(p, "dryRun")
        BY <1>6 DEF validate_parameters
  <2>2. /\ int_option(p, "olderThanHours", Int_(72), 72, 87600)
        /\ bool_option(p, "dryRun", Bool_)
        BY <2>1 DEF integer, int_option, Get, IsInt, Int_, boolean, bool_option, IsBool, Bool_
  <2>3. QED BY <1>6, <2>2 DEF procedure_sql
<1>7. CASE c = "ROLLBACK"
  <2>1. "snapshotId" \in DOMAIN p
        BY <1>7 DEF EngineOnly
  <2>2. integer(p, "snapshotId", 1, MaxLong)
        BY DEF validate_parameters
  <2>3. int_option(p, "snapshotId", Null_, 1, MaxLong)
        BY <2>1, <2>2 DEF integer, int_option, Get
  <2>4. QED BY <1>7, <2>3 DEF procedure_sql
<1>8. QED BY <1>1, <1>2, <1>3, <1>4, <1>5, <1>6, <1>7 DEF Commands, COMMAND_PARAMETERS

-----------------------------------------------------------------------------
(***************************************************************************)
(* The inductive invariant.                                                *)
(***************************************************************************)
Accepted(c) == validate_parameters(Payload(c).command, Payload(c).parameters)

\* Who holds the unique index is alone, and there is no row beside his.
Index ==
    /\ row.state = "ABSENT" => row = NoRow
    /\ \A c \in Clients : At(c, "commit") => row = NoRow
    /\ \A c, d \in Clients : At(c, "commit") /\ At(d, "commit") => c = d
    /\ \A c \in Clients : client[c].pc \in {"answered", "done"} => row # NoRow

OneOwner == \A c, d \in row.owner : c = d

\* The worker has in hand what is claimed.
Hand == worker.pc # "idle" <=> row.state \in Claimed

\* A row is made of what has been validated.
Validated ==
    /\ \A c \in Clients : client[c].pc \in {"lookup", "insert", "commit"} => Accepted(c)
    /\ \A d \in row.owner : Accepted(d)

\* What a client has seen unclaimed is behind the row once its life is over,
\* and not ahead of what the worker has read.
Behind ==
    \A c \in Clients : At(c, "answered") /\ client[c].unclaimed =>
        /\ client[c].life <= used.retries
        /\ client[c].version <= row.version
        /\ client[c].life < used.retries \/ row.state = "FAILED" => client[c].version < row.version
        /\ worker.pc \in Ends => client[c].version <= worker.version
        /\ worker.pc \in Ends /\ client[c].life < used.retries => client[c].version < worker.version

Inv == TypeOK /\ Index /\ OneOwner /\ Hand /\ Validated /\ AnswersOwnPayload /\ Behind

-----------------------------------------------------------------------------
(***************************************************************************)
(* What the helpers do to the clients.                                     *)
(***************************************************************************)
LEMMA GotoChanges ==
    ASSUME TypeOK, NEW c \in Clients, NEW pc, Goto(c, pc),
           pc \in {"new", "lookup", "insert", "commit", "error", "refused", "answered", "done"}
    PROVE  /\ client' \in [Clients -> Kinds]
           /\ client'[c].pc = pc
           /\ client'[c].payload = client[c].payload
           /\ client'[c].unclaimed = FALSE
           /\ \A d \in Clients : d # c => client'[d] = client[d]
<1>1. client[c].payload \in Payloads
      BY DEF TypeOK, Kinds
<1>2. Client(pc, Payload(c)) \in Kinds
      BY <1>1 DEF Client, Payload, Kinds
<1>3. QED BY <1>2 DEF TypeOK, Goto, Client, Payload

LEMMA ShownChanges ==
    ASSUME TypeOK, NEW c \in Clients, NEW shown, Shown(c, shown), shown.version \in Nat
    PROVE  /\ client' \in [Clients -> Kinds]
           /\ client'[c].pc = "answered"
           /\ client'[c].payload = client[c].payload
           /\ client'[c].unclaimed = (shown.state \in Unclaimed)
           /\ client'[c].version = shown.version
           /\ client'[c].life = used.retries
           /\ \A d \in Clients : d # c => client'[d] = client[d]
<1> DEFINE new == [pc |-> "answered", payload |-> Payload(c), unclaimed |-> shown.state \in Unclaimed,
                   version |-> shown.version, life |-> used.retries]
<1>1. client[c].payload \in Payloads /\ used.retries \in 0..MaxRetries
      BY DEF TypeOK, Kinds
<1>2. /\ new \in Kinds
      /\ new.pc = "answered" /\ new.payload = client[c].payload
      /\ new.unclaimed = (shown.state \in Unclaimed)
      /\ new.version = shown.version /\ new.life = used.retries
      BY <1>1 DEF Kinds, Payload
<1>3. client' = [client EXCEPT ![c] = new]
      BY DEF Shown
<1> HIDE DEF new
<1>4. QED BY <1>2, <1>3 DEF TypeOK

-----------------------------------------------------------------------------
(***************************************************************************)
(* Steps of a client that leave the row alone.                             *)
(***************************************************************************)
LEMMA MoveStep ==
    ASSUME Inv, NEW c \in Clients, NEW pc, Goto(c, pc),
           pc \in {"lookup", "insert", "commit", "error", "refused"},
           UNCHANGED <<row, worker>>,
           used' \in [cancels : 0..MaxCancels, retries : 0..MaxRetries, lost : 0..MaxLost],
           used'.retries = used.retries,
           flushed' = IF pc = "commit" THEN flushed \cup {c} ELSE flushed \ {c},
           pc = "commit" => row = NoRow /\ flushed = {},
           pc \in {"lookup", "insert", "commit"} => Accepted(c)
    PROVE  Inv'
<1>1. /\ client' \in [Clients -> Kinds]
      /\ client'[c].pc = pc
      /\ client'[c].payload = client[c].payload
      /\ client'[c].unclaimed = FALSE
      /\ \A d \in Clients : d # c => client'[d] = client[d]
      BY GotoChanges DEF Inv
<1>2. \A d \in Clients : client'[d].payload = client[d].payload
      BY <1>1
<1>3. TypeOK'
  <2>1. flushed' = {d \in Clients : client'[d].pc = "commit"}
        BY <1>1 DEF Inv, TypeOK, At
  <2>2. QED BY <1>1, <2>1 DEF Inv, TypeOK, At
<1>4. Index'
      BY <1>1 DEF Inv, Index, TypeOK, At
<1>5. Hand'
      BY DEF Inv, Hand
<1>6. Validated'
      BY <1>1, <1>2 DEF Inv, Validated, Accepted, Payload, TypeOK
<1>7. AnswersOwnPayload'
      BY <1>1, <1>2 DEF Inv, AnswersOwnPayload, Payload, TypeOK
<1>8. Behind'
      BY <1>1 DEF Inv, Behind, At
<1>9. QED BY <1>3, <1>4, <1>5, <1>6, <1>7, <1>8 DEF Inv, OneOwner

LEMMA ShowStep ==
    ASSUME Inv, NEW c \in Clients, Shown(c, row), UNCHANGED <<row, flushed, worker, used>>,
           client[c].pc # "commit", row # NoRow,
           \A d \in row.owner : Payload(d) = Payload(c)
    PROVE  Inv'
<1>0. row.version \in Nat /\ used.retries \in 0..MaxRetries
      BY DEF Inv, TypeOK
<1>1. /\ client' \in [Clients -> Kinds]
      /\ client'[c].pc = "answered"
      /\ client'[c].payload = client[c].payload
      /\ client'[c].unclaimed = (row.state \in Unclaimed)
      /\ client'[c].version = row.version
      /\ client'[c].life = used.retries
      /\ \A d \in Clients : d # c => client'[d] = client[d]
      BY <1>0, ShownChanges DEF Inv
<1>2. \A d \in Clients : client'[d].payload = client[d].payload
      BY <1>1
<1>3. TypeOK'
  <2>1. flushed' = {d \in Clients : client'[d].pc = "commit"}
        BY <1>1 DEF Inv, TypeOK, At
  <2>2. QED BY <1>1, <2>1 DEF Inv, TypeOK, At
<1>4. Index'
      BY <1>1 DEF Inv, Index, TypeOK, At
<1>5. Hand'
      BY DEF Inv, Hand
<1>6. Validated'
      BY <1>1, <1>2 DEF Inv, Validated, Accepted, Payload, TypeOK
<1>7. AnswersOwnPayload'
      BY <1>1, <1>2 DEF Inv, AnswersOwnPayload, Payload, TypeOK
<1>8. Behind'
  <2>1. row.state \in Unclaimed => worker.pc \notin Ends /\ row.state # "FAILED"
        BY DEF Inv, Hand, Unclaimed, Claimed, Ends
  <2>2. client'[c].unclaimed => row.state \in Unclaimed
        BY <1>1, Zenon
  <2>3. \A d \in Clients : d # c => client'[d] = client[d]
        BY <1>1
  <2>4. /\ client'[c].version = row.version
        /\ client'[c].life = used.retries
        BY <1>1
  <2>5. QED BY <1>0, <2>1, <2>2, <2>3, <2>4 DEF Inv, Behind, At
<1>9. QED BY <1>3, <1>4, <1>5, <1>6, <1>7, <1>8 DEF Inv, OneOwner

\* The row is inserted, and its client is shown it or gone.
LEMMA MadeStep ==
    ASSUME Inv, NEW c \in Clients, At(c, "commit"), row' = Made(c), flushed' = flushed \ {c},
           UNCHANGED worker,
           used' \in [cancels : 0..MaxCancels, retries : 0..MaxRetries, lost : 0..MaxLost],
           used'.retries = used.retries,
           client' \in [Clients -> Kinds],
           client'[c].payload = client[c].payload,
           client'[c].pc \in {"answered", "error"},
           client'[c].pc = "answered" => client'[c].version = 1 /\ client'[c].life = used.retries,
           \A d \in Clients : d # c => client'[d] = client[d]
    PROVE  Inv'
<1>1. /\ row = NoRow
      /\ \A d \in Clients : d # c => client[d].pc \notin {"commit", "answered", "done"}
      BY DEF Inv, Index, At
<1>2. row'.state = "WAITING_APPROVAL" /\ row'.version = 1 /\ row'.owner = {c}
      BY DEF Made
<1>3. worker.pc = "idle"
      BY <1>1 DEF Inv, Hand, NoRow, Claimed
<1>4. \A d \in Clients : client'[d].payload = client[d].payload
      OBVIOUS
<1>5. TypeOK'
  <2>1. flushed' = {d \in Clients : client'[d].pc = "commit"}
        BY DEF Inv, TypeOK, At
  <2>2. row' \in [state : {"ABSENT"} \cup Unclaimed \cup Claimed \cup Terminal,
                  version : Nat, owner : SUBSET Clients]
        BY DEF Made, Unclaimed
  <2>3. QED BY <1>2, <2>1, <2>2 DEF Inv, TypeOK, At
<1>6. Index'
  <2>1. row' # NoRow /\ row'.state # "ABSENT"
        BY <1>2 DEF NoRow
  <2>2. QED BY <1>1, <2>1 DEF Index, At
<1>7. Hand'
      BY <1>2, <1>3 DEF Hand, Claimed
<1>8. Validated'
      BY <1>1, <1>2, <1>4 DEF Inv, Validated, Accepted, Payload, At
<1>9. AnswersOwnPayload'
      BY <1>1, <1>2, <1>4 DEF AnswersOwnPayload, Payload
<1>10. Behind'
  <2>1. used.retries \in 0..MaxRetries
        BY DEF Inv, TypeOK
  <2>2. QED BY <1>1, <1>2, <1>3, <2>1 DEF Behind, Ends, At
<1>11. OneOwner'
       BY <1>2 DEF OneOwner
<1>12. QED BY <1>5, <1>6, <1>7, <1>8, <1>9, <1>10, <1>11 DEF Inv

LEMMA CommitStep ==
    ASSUME Inv, NEW c \in Clients, commit(c)
    PROVE  Inv'
<1>1. Made(c).version \in Nat /\ Made(c).version = 1
      BY DEF Made
<1>2. /\ client' \in [Clients -> Kinds]
      /\ client'[c].pc = "answered"
      /\ client'[c].payload = client[c].payload
      /\ client'[c].version = 1
      /\ client'[c].life = used.retries
      /\ \A d \in Clients : d # c => client'[d] = client[d]
      BY <1>1, ShownChanges DEF Inv, commit
<1>3. QED BY <1>2, MadeStep DEF commit, Inv, TypeOK

LEMMA CreateStep ==
    ASSUME Inv, NEW c \in Clients, Create(c)
    PROVE  Inv'
<1>0. used \in [cancels : 0..MaxCancels, retries : 0..MaxRetries, lost : 0..MaxLost]
      BY DEF Inv, TypeOK
<1>1. CASE post(c)
  <2>1. Goto(c, "lookup") /\ Accepted(c) /\ c \notin flushed /\ UNCHANGED <<row, flushed, worker, used>>
        BY <1>1 DEF post, Accepted, Inv, TypeOK, At
  <2>2. flushed' = flushed \ {c}
        BY <2>1
  <2>3. QED BY <1>0, <2>1, <2>2, MoveStep
<1>2. CASE post_invalid(c)
  <2>1. Goto(c, "refused") /\ c \notin flushed /\ UNCHANGED <<row, flushed, worker, used>>
        BY <1>2 DEF post_invalid, Inv, TypeOK, At
  <2>2. flushed' = flushed \ {c}
        BY <2>1
  <2>3. QED BY <1>0, <2>1, <2>2, MoveStep
<1>3. CASE lookup(c)
  <2>1. c \notin flushed /\ Accepted(c) /\ UNCHANGED <<row, flushed, worker, used>>
        BY <1>3 DEF lookup, Inv, TypeOK, Validated, At
  <2>2. flushed' = flushed \ {c}
        BY <2>1
  <2>3. CASE Goto(c, "insert")
        BY <1>0, <2>1, <2>2, <2>3, MoveStep
  <2>4. CASE Goto(c, "refused")
        BY <1>0, <2>1, <2>2, <2>4, MoveStep
  <2>5. CASE Shown(c, row) /\ \E d \in row.owner : SameFingerprint(c, d)
    <3>1. row # NoRow
          BY <2>5 DEF NoRow
    <3>2. \A d \in row.owner : Payload(d) = Payload(c)
          BY <2>5 DEF Inv, OneOwner, SameFingerprint
    <3>3. client[c].pc # "commit"
          BY <1>3 DEF lookup, At
    <3>4. QED BY <2>1, <2>5, <3>1, <3>2, <3>3, ShowStep
  <2>6. QED BY <1>3, <2>3, <2>4, <2>5 DEF lookup
<1>4. CASE flush(c)
  <2>1. UNCHANGED <<row, worker, used>> /\ flushed = {} /\ Accepted(c)
        BY <1>4 DEF flush, Inv, Validated, At
  <2>2. CASE row = NoRow /\ flushed' = {c} /\ Goto(c, "commit")
    <3>1. flushed' = flushed \cup {c}
          BY <2>1, <2>2
    <3>2. QED BY <1>0, <2>1, <2>2, <3>1, MoveStep
  <2>3. CASE Goto(c, "error") /\ UNCHANGED flushed
    <3>1. flushed' = flushed \ {c}
          BY <2>1, <2>3
    <3>2. QED BY <1>0, <2>1, <2>3, <3>1, MoveStep
  <2>4. QED BY <1>4, <2>2, <2>3 DEF flush
<1>5. CASE commit(c)
      BY <1>5, CommitStep
<1>6. QED BY <1>1, <1>2, <1>3, <1>4, <1>5 DEF Create

LEMMA LoseStep ==
    ASSUME Inv, NEW c \in Clients, lose(c)
    PROVE  Inv'
<1>1. /\ used' \in [cancels : 0..MaxCancels, retries : 0..MaxRetries, lost : 0..MaxLost]
      /\ used'.retries = used.retries
      BY DEF Inv, TypeOK, lose, Count
<1>2. CASE UNCHANGED row
      BY <1>1, <1>2, MoveStep DEF lose
<1>3. CASE At(c, "commit") /\ row' = Made(c)
  <2>1. /\ client' \in [Clients -> Kinds]
        /\ client'[c].pc = "error"
        /\ client'[c].payload = client[c].payload
        /\ \A d \in Clients : d # c => client'[d] = client[d]
        BY GotoChanges DEF Inv, lose
  <2>2. QED BY <1>1, <1>3, <2>1, MadeStep DEF lose
<1>4. QED BY <1>2, <1>3 DEF lose

-----------------------------------------------------------------------------
(***************************************************************************)
(* Steps that write the row, and the worker's.                             *)
(***************************************************************************)
LEMMA RowStep ==
    ASSUME Inv, UNCHANGED flushed,
           row.state # "ABSENT",
           row' \in [state : Unclaimed \cup Claimed \cup Terminal, version : Nat \ {0},
                     owner : SUBSET Clients],
           row'.owner = row.owner,
           worker' \in [pc : {"idle", "execute", "finish"} \cup Ends, version : Nat],
           used' \in [cancels : 0..MaxCancels, retries : 0..MaxRetries, lost : 0..MaxLost],
           client' \in [Clients -> Kinds],
           \A d \in Clients : client'[d].payload = client[d].payload,
           \A d \in Clients :
               client'[d].pc = client[d].pc \/ (client[d].pc = "answered" /\ client'[d].pc = "done"),
           Hand', Behind'
    PROVE  Inv'
<1>1. row # NoRow
      BY DEF NoRow
<1>2. row'.state # "ABSENT" /\ row' # NoRow /\ row'.version # 0
  <2>1. row'.state \in Unclaimed \cup Claimed \cup Terminal /\ row'.version # 0
        OBVIOUS
  <2>2. QED BY <2>1 DEF NoRow, Unclaimed, Claimed, Terminal, Ends
<1>3. \A d \in Clients : client[d].pc # "commit" /\ client'[d].pc # "commit"
      BY <1>1 DEF Inv, Index, At
<1>4. TypeOK'
  <2>1. flushed' = {d \in Clients : client'[d].pc = "commit"}
        BY <1>3 DEF Inv, TypeOK, At
  <2>2. row' \in [state : {"ABSENT"} \cup Unclaimed \cup Claimed \cup Terminal,
                  version : Nat, owner : SUBSET Clients]
        OBVIOUS
  <2>3. QED BY <1>2, <2>1, <2>2 DEF TypeOK, At
<1>5. Index'
      BY <1>2, <1>3 DEF Index, At
<1>6. OneOwner'
      BY DEF Inv, OneOwner
<1>7. Validated'
      BY DEF Inv, Validated, Accepted, Payload, TypeOK
<1>8. AnswersOwnPayload'
      BY DEF Inv, AnswersOwnPayload, Payload, TypeOK
<1>9. QED BY <1>4, <1>5, <1>6, <1>7, <1>8 DEF Inv

\* The version goes up, and the worker does not notice.
LEMMA WrittenStep ==
    ASSUME Inv, NEW state, Written(state), UNCHANGED <<flushed, worker>>,
           row.state # "ABSENT",
           state \in (Unclaimed \cup Claimed \cup Terminal) \ {"FAILED"},
           state \in Claimed <=> row.state \in Claimed,
           used' \in [cancels : 0..MaxCancels, retries : 0..MaxRetries, lost : 0..MaxLost],
           \/ used'.retries = used.retries
           \/ used'.retries = used.retries + 1 /\ row.state = "FAILED",
           client' \in [Clients -> Kinds],
           \A d \in Clients : client'[d].payload = client[d].payload,
           \A d \in Clients :
               client'[d] = client[d] \/ (client[d].pc = "answered" /\ client'[d].pc = "done")
    PROVE  Inv'
<1>1. /\ row'.state = state /\ row'.version = row.version + 1 /\ row'.owner = row.owner
      /\ row.version \in Nat /\ row'.version \in Nat \ {0}
      /\ row' \in [state : Unclaimed \cup Claimed \cup Terminal, version : Nat \ {0},
                   owner : SUBSET Clients]
      BY DEF Written, Inv, TypeOK
<1>2. Hand'
      BY <1>1 DEF Inv, Hand
<1>3. Behind'
  <2>1. \A d \in Clients : client[d].life \in Nat /\ client[d].version \in Nat
        BY DEF Inv, TypeOK, Kinds
  <2>2. used.retries \in Nat /\ row.state = "FAILED" => worker.pc \notin Ends
        BY DEF Inv, Hand, TypeOK, Claimed, Ends
  <2>3. used.retries \in Nat /\ worker.version \in Nat
        BY DEF Inv, TypeOK
  <2>4. \A d \in Clients : At(d, "answered")' => client'[d] = client[d]
        BY DEF At
  <2>5. row'.state # "FAILED"
        BY <1>1
  <2>6. QED BY <1>1, <2>1, <2>2, <2>3, <2>4, <2>5 DEF Inv, Behind, At
<1>4. QED BY <1>1, <1>2, <1>3, RowStep DEF Inv, TypeOK

LEMMA RequestStep ==
    ASSUME Inv, decide_operation \/ retry_operation \/ cancel_operation
    PROVE  Inv'
<1>1. /\ client \in [Clients -> Kinds] /\ used.retries \in Nat
      /\ used \in [cancels : 0..MaxCancels, retries : 0..MaxRetries, lost : 0..MaxLost]
      BY DEF Inv, TypeOK
<1>2. CASE decide_operation
  <2>1. PICK state \in {"QUEUED", "REJECTED"} : Written(state)
        BY <1>2 DEF decide_operation
  <2>2. QED BY <1>1, <1>2, <2>1, WrittenStep
            DEF decide_operation, Unclaimed, Claimed, Terminal, Ends
<1>3. CASE retry_operation
  <2>1. /\ used' \in [cancels : 0..MaxCancels, retries : 0..MaxRetries, lost : 0..MaxLost]
        /\ used'.retries = used.retries + 1
        BY <1>1, <1>3 DEF retry_operation, Count
  <2>2. QED BY <1>1, <1>3, <2>1, WrittenStep
            DEF retry_operation, Unclaimed, Claimed, Terminal, Ends
<1>4. CASE cancel_operation
  <2>1. /\ used' \in [cancels : 0..MaxCancels, retries : 0..MaxRetries, lost : 0..MaxLost]
        /\ used'.retries = used.retries
        BY <1>1, <1>4 DEF cancel_operation, Count
  <2>2. UNCHANGED <<flushed, client, worker>>
        BY <1>4 DEF cancel_operation
  <2>3. CASE row.state \in Unclaimed /\ Written("CANCELED")
        BY <1>1, <2>1, <2>2, <2>3, WrittenStep DEF Unclaimed, Claimed, Terminal, Ends
  <2>4. CASE row.state \in Claimed /\ Written("CANCEL_REQUESTED")
        BY <1>1, <2>1, <2>2, <2>4, WrittenStep DEF Unclaimed, Claimed, Terminal, Ends
  <2>5. QED BY <1>4, <2>3, <2>4 DEF cancel_operation, Cancel
<1>5. QED BY <1>2, <1>3, <1>4

LEMMA CancelExpectedStep ==
    ASSUME Inv, NEW c \in Clients, cancel_expected(c)
    PROVE  Inv'
<1>1. /\ client' \in [Clients -> Kinds]
      /\ client'[c].pc = "done"
      /\ client'[c].payload = client[c].payload
      /\ \A d \in Clients : d # c => client'[d] = client[d]
      BY GotoChanges DEF Inv, cancel_expected
<1>2. /\ UNCHANGED <<flushed, worker, used>> /\ client[c].pc = "answered"
      /\ used \in [cancels : 0..MaxCancels, retries : 0..MaxRetries, lost : 0..MaxLost]
      BY DEF cancel_expected, At, Inv, TypeOK
<1>3. CASE row.state \in Unclaimed /\ Written("CANCELED")
      BY <1>1, <1>2, <1>3, WrittenStep DEF Unclaimed, Claimed, Terminal, Ends
<1>4. CASE row.state \in Claimed /\ Written("CANCEL_REQUESTED")
      BY <1>1, <1>2, <1>4, WrittenStep DEF Unclaimed, Claimed, Terminal, Ends
<1>5. QED BY <1>3, <1>4 DEF cancel_expected, Cancel

LEMMA OperationStep ==
    ASSUME Inv, NEW c \in Clients, operation(c)
    PROVE  Inv'
<1>1. row # NoRow /\ client[c].pc # "commit"
      BY DEF Inv, Index, operation, At
<1>2. \A d \in row.owner : Payload(d) = Payload(c)
      BY DEF Inv, AnswersOwnPayload, operation, At
<1>3. QED BY <1>1, <1>2, ShowStep DEF operation

\* The worker writes a state that is claimed, and no version.
LEMMA ClaimedStep ==
    ASSUME Inv, NEW state \in Claimed, NEW pc \in {"execute", "finish"},
           row.state # "ABSENT",
           row' = [row EXCEPT !.state = state], worker' = [worker EXCEPT !.pc = pc],
           UNCHANGED <<flushed, client, used>>
    PROVE  Inv'
<1>1. /\ row'.state = state /\ row'.version = row.version /\ row'.owner = row.owner
      /\ row' \in [state : Unclaimed \cup Claimed \cup Terminal, version : Nat \ {0},
                   owner : SUBSET Clients]
      BY DEF Inv, TypeOK
<1>2. worker'.pc = pc /\ worker' \in [pc : {"idle", "execute", "finish"} \cup Ends, version : Nat]
      BY DEF Inv, TypeOK
<1>3. Hand'
      BY <1>1, <1>2 DEF Hand
<1>4. Behind'
  <2>1. pc \notin Ends /\ state # "FAILED"
        BY DEF Ends, Claimed
  <2>2. \A d \in Clients : client[d].life \in Nat /\ client[d].version \in Nat
        BY DEF Inv, TypeOK, Kinds
  <2>3. used.retries \in Nat /\ row.version \in Nat
        BY DEF Inv, TypeOK
  <2>4. QED BY <1>1, <1>2, <2>1, <2>2, <2>3 DEF Inv, Behind, At
<1>5. QED BY <1>1, <1>2, <1>3, <1>4, RowStep DEF Inv, TypeOK

LEMMA ReadStep ==
    ASSUME Inv, NEW end \in Ends, read_operation(end)
    PROVE  Inv'
<1>1. /\ worker' = [pc |-> end, version |-> row.version]
      /\ UNCHANGED <<row, flushed, client, used>>
      /\ worker.pc \in {"execute", "finish"}
      BY DEF read_operation
<1>2. row.state \in Claimed /\ row.state # "ABSENT" /\ row.state # "FAILED"
      BY <1>1 DEF Inv, Hand, Claimed
<1>3. /\ worker' \in [pc : {"idle", "execute", "finish"} \cup Ends, version : Nat]
      /\ row \in [state : Unclaimed \cup Claimed \cup Terminal, version : Nat \ {0},
                  owner : SUBSET Clients]
      BY <1>1, <1>2 DEF Inv, TypeOK
<1>4. Hand'
      BY <1>1, <1>2 DEF Hand, Ends
<1>5. Behind'
  <2>1. \A d \in Clients : client[d].life \in Nat /\ client[d].version \in Nat
        BY DEF Inv, TypeOK, Kinds
  <2>2. used.retries \in Nat /\ row.version \in Nat /\ worker'.version = row.version
        BY <1>1 DEF Inv, TypeOK
  <2>3. QED BY <1>1, <1>2, <2>1, <2>2 DEF Inv, Behind, At
<1>6. QED BY <1>1, <1>2, <1>3, <1>4, <1>5, RowStep DEF Inv, TypeOK

LEMMA MarkStep ==
    ASSUME Inv, mark
    PROVE  Inv'
<1>1. /\ row'.state = worker.pc /\ row'.version = worker.version + 1 /\ row'.owner = row.owner
      /\ worker' = Idle /\ worker'.pc = "idle"
      /\ UNCHANGED <<flushed, client, used>>
      BY DEF mark, Idle
<1>2. worker.pc \in Ends /\ row.state \in Claimed /\ row.state # "ABSENT"
      BY DEF mark, Inv, Hand, Claimed, Ends
<1>3. /\ worker' \in [pc : {"idle", "execute", "finish"} \cup Ends, version : Nat]
      /\ row' \in [state : Unclaimed \cup Claimed \cup Terminal, version : Nat \ {0},
                   owner : SUBSET Clients]
      BY <1>1, <1>2 DEF mark, Inv, TypeOK, Idle, Terminal
<1>4. Hand'
      BY <1>1, <1>2 DEF Hand, Ends, Claimed
<1>5. Behind'
  <2>1. \A d \in Clients : client[d].life \in Nat /\ client[d].version \in Nat
        BY DEF Inv, TypeOK, Kinds
  <2>2. used.retries \in Nat /\ worker.version \in Nat
        BY DEF Inv, TypeOK
  <2>3. worker'.pc \notin Ends
        BY <1>1 DEF Ends
  <2>4. QED BY <1>1, <1>2, <2>1, <2>2, <2>3 DEF Inv, Behind, At
<1>6. QED BY <1>1, <1>2, <1>3, <1>4, <1>5, RowStep DEF Inv, TypeOK

-----------------------------------------------------------------------------
(***************************************************************************)
(* The theorems.                                                           *)
(***************************************************************************)
LEMMA InvInit == Init => Inv
<1> SUFFICES ASSUME Init PROVE Inv
    OBVIOUS
<1>1. PICK sends \in [Clients -> Payloads] :
          client = [c \in Clients |-> Client("new", sends[c])]
      BY DEF Init
<1>2. /\ client \in [Clients -> Kinds]
      /\ \A c \in Clients : client[c].pc = "new" /\ ~client[c].unclaimed
      BY <1>1 DEF Client, Kinds
<1>3. TypeOK
  <2>1. /\ row \in [state : {"ABSENT"} \cup Unclaimed \cup Claimed \cup Terminal,
                    version : Nat, owner : SUBSET Clients]
        /\ row.state = "ABSENT" <=> row.version = 0
        BY DEF Init, NoRow
  <2>2. /\ worker \in [pc : {"idle", "execute", "finish"} \cup Ends, version : Nat]
        /\ used \in [cancels : 0..MaxCancels, retries : 0..MaxRetries, lost : 0..MaxLost]
        BY DEF Init, Idle
  <2>3. flushed = {c \in Clients : At(c, "commit")}
        BY <1>2 DEF Init, At
  <2>4. QED BY <1>2, <2>1, <2>2, <2>3 DEF TypeOK
<1>4. Index /\ Validated /\ AnswersOwnPayload /\ Behind
      BY <1>2 DEF Init, NoRow, Index, Validated, AnswersOwnPayload, Behind, At
<1>5. OneOwner /\ Hand
      BY DEF Init, NoRow, Idle, OneOwner, Hand, Claimed
<1>6. QED BY <1>3, <1>4, <1>5 DEF Inv

LEMMA InvStep == Inv /\ [Next]_vars => Inv'
<1> SUFFICES ASSUME Inv, [Next]_vars PROVE Inv'
    OBVIOUS
<1>1. CASE UNCHANGED vars
      BY <1>1 DEF vars, Inv, TypeOK, Index, OneOwner, Hand, Validated, Accepted, Payload,
                  AnswersOwnPayload, Behind, At
<1>2. ASSUME NEW c \in Clients, Create(c) \/ lose(c) \/ operation(c) \/ cancel_expected(c)
      PROVE  Inv'
      BY <1>2, CreateStep, LoseStep, OperationStep, CancelExpectedStep
<1>3. CASE decide_operation \/ retry_operation \/ cancel_operation
      BY <1>3, RequestStep
<1>4. CASE claim_operation
      BY <1>4, ClaimedStep DEF claim_operation, Claimed
<1>5. CASE mark_verifying
  <2>1. row.state # "ABSENT"
        BY <1>5 DEF mark_verifying, Inv, Hand, Claimed
  <2>2. QED BY <1>5, <2>1, ClaimedStep DEF mark_verifying, Claimed
<1>6. CASE mark
      BY <1>6, MarkStep
<1>7. ASSUME NEW end \in Ends, read_operation(end)
      PROVE  Inv'
      BY <1>7, ReadStep
<1>8. QED BY <1>1, <1>2, <1>3, <1>4, <1>5, <1>6, <1>7 DEF Next

(***************************************************************************)
(* Inv holds for any number of clients, payloads, retries and losses.      *)
(***************************************************************************)
THEOREM ClientsInvariance == Spec => []Inv
BY InvInit, InvStep, PTL DEF Spec

(***************************************************************************)
(* Every variable holds a value of its kind.                               *)
(***************************************************************************)
THEOREM ClientsTypeCorrectness == Spec => []TypeOK
<1>1. Inv => TypeOK
      BY DEF Inv
<1>2. QED BY <1>1, ClientsInvariance, PTL

(***************************************************************************)
(* Who has an answer under the key is shown the request of his own payload.*)
(***************************************************************************)
THEOREM AnswersTheorem == Spec => []AnswersOwnPayload
<1>1. Inv => AnswersOwnPayload
      BY DEF Inv
<1>2. QED BY <1>1, ClientsInvariance, PTL

(***************************************************************************)
(* No request is made that the engine would refuse for its parameters.     *)
(***************************************************************************)
THEOREM RunnableTheorem == Spec => []MadeIsRunnable
<1>1. Inv => MadeIsRunnable
  <2> SUFFICES ASSUME Inv, NEW d \in row.owner,
                      ~EngineOnly(Payload(d).command, Payload(d).parameters)
               PROVE  procedure_sql(Payload(d).command, Payload(d).parameters)
      BY DEF MadeIsRunnable
  <2>1. Payload(d) \in Payloads
        BY DEF Inv, TypeOK, Kinds, Payload
  <2>2. Payload(d).command \in Commands /\ AreParameters(Payload(d).parameters)
        BY <2>1
  <2>3. validate_parameters(Payload(d).command, Payload(d).parameters)
        BY DEF Inv, Validated, Accepted
  <2>4. QED BY <2>2, <2>3, AcceptedIsRunnable
<1>2. QED BY <1>1, ClientsInvariance, PTL

(***************************************************************************)
(* The request of a key is made once and stays.                            *)
(***************************************************************************)
THEOREM MadeOnceTheorem == Spec => MadeOnce
<1>1. ASSUME Inv, [Next]_vars, row # NoRow
      PROVE  row'.owner = row.owner /\ row'.state # "ABSENT"
  <2>0. row.state # "ABSENT"
        BY <1>1 DEF Inv, Index
  <2>1. CASE UNCHANGED row
        BY <2>0, <2>1
  <2>2. ASSUME NEW state, Written(state), state # "ABSENT"
        PROVE  row'.owner = row.owner /\ row'.state # "ABSENT"
        BY <2>2 DEF Written
  <2>3. \A c \in Clients : ~At(c, "commit")
        BY <1>1 DEF Inv, Index
  <2>4. ASSUME NEW c \in Clients, Create(c) \/ lose(c) \/ operation(c)
        PROVE  UNCHANGED row
        BY <2>3, <2>4 DEF Create, post, post_invalid, lookup, flush, commit, lose, operation
  <2>5. ASSUME NEW c \in Clients, cancel_expected(c)
        PROVE  row'.owner = row.owner /\ row'.state # "ABSENT"
        BY <2>2, <2>5 DEF cancel_expected, Cancel
  <2>6. CASE decide_operation \/ retry_operation \/ cancel_operation
        BY <2>2, <2>6 DEF decide_operation, retry_operation, cancel_operation, Cancel
  <2>7. CASE claim_operation \/ mark_verifying
    <3>1. \E state \in {"RUNNING", "VERIFYING"} : row' = [row EXCEPT !.state = state]
          BY <2>7 DEF claim_operation, mark_verifying
    <3>2. QED BY <1>1, <3>1 DEF Inv, TypeOK
  <2>8. CASE mark
        BY <2>8 DEF mark, Ends
  <2>9. ASSUME NEW end \in Ends, read_operation(end)
        PROVE  UNCHANGED row
        BY <2>9 DEF read_operation
  <2>10. QED BY <1>1, <2>1, <2>4, <2>5, <2>6, <2>7, <2>8, <2>9 DEF Next, vars
<1>2. QED BY <1>1, ClientsInvariance, PTL DEF Spec, MadeOnce

(***************************************************************************)
(* A cancellation with the version of a request seen unclaimed stops no    *)
(* later life of it.                                                       *)
(***************************************************************************)
THEOREM CancelsTheorem == Spec => CancelsWhatWasSeen
<1>1. ASSUME Inv, [Next]_vars, NEW c \in Clients,
             client[c].unclaimed, client[c].pc = "answered", client'[c].pc = "done"
      PROVE  client[c].life = used.retries
  <2>1. client' # client
        BY <1>1
  <2>2. ASSUME NEW d \in Clients, d # c,
               Create(d) \/ lose(d) \/ operation(d) \/ cancel_expected(d)
        PROVE  client'[c] = client[c]
    <3>1. client[c] \in Kinds /\ client \in [Clients -> Kinds]
          BY <1>1 DEF Inv, TypeOK
    <3>2. \E new : client' = [client EXCEPT ![d] = new]
          BY <2>2 DEF Create, post, post_invalid, lookup, flush, commit, lose, operation,
                      cancel_expected, Goto, Shown
    <3>3. QED BY <2>2, <3>1, <3>2
  <2>3. ~(Create(c) \/ lose(c))
        BY <1>1 DEF Create, post, post_invalid, lookup, flush, commit, lose, At
  <2>4. ~operation(c)
    <3>1. ASSUME operation(c) PROVE client'[c].pc = "answered"
          BY <1>1, <3>1, ShownChanges DEF operation, Inv, TypeOK
    <3>2. QED BY <1>1, <3>1
  <2>5. cancel_expected(c)
        BY <1>1, <2>1, <2>2, <2>3, <2>4
           DEF Next, vars, decide_operation, retry_operation, cancel_operation,
               claim_operation, mark_verifying, read_operation, mark
  <2>6. row.version = client[c].version
        BY <2>5 DEF cancel_expected
  <2>7. client[c].life \in Nat /\ used.retries \in Nat /\ row.version \in Nat
        BY <1>1 DEF Inv, TypeOK, Kinds
  <2>8. QED BY <1>1, <2>6, <2>7 DEF Inv, Behind, At
<1>2. Inv /\ [Next]_vars =>
          [\A c \in Clients :
             client[c].unclaimed /\ client[c].pc = "answered" /\ client'[c].pc = "done"
             => client[c].life = used.retries]_vars
      BY <1>1
<1>3. QED BY <1>2, ClientsInvariance, PTL DEF Spec, CancelsWhatWasSeen

=============================================================================
