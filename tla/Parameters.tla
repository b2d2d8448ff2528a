----------------------------- MODULE Parameters -----------------------------
(***************************************************************************)
(* The parameters of a maintenance command are judged twice: by the API    *)
(* when a request is filed (validate_parameters, backend/app/services.py), *)
(* and when its procedure is put together, long after its approval, by the *)
(* Spark job (spark-jobs/iceberg_maintenance.py) and the playground runner *)
(* (playground/spark/app/main.py), which follow the same rules.            *)
(* The names of catalog, namespace and table, which the engines judge too  *)
(* (identifier), are left out: they come from the registry, not from the   *)
(* request.                                                                *)
(*                                                                         *)
(* A JSON value is a record: its type, the number it is or the number of   *)
(* its elements, and for a list of columns the kinds of its elements.      *)
(***************************************************************************)
EXTENDS Integers

CONSTANTS
    MiB,        \* 1 048 576 bytes
    MaxLong     \* 9 223 372 036 854 775 807, the largest snapshot id

ASSUME ParametersAssumption == MiB \in Nat \ {0} /\ MaxLong \in Nat \ {0}

Names == {"targetFileSizeBytes", "minInputFiles", "maxFileGroupSizeBytes", "rewriteAll",
          "removeDanglingDeletes", "useCaching", "columns", "olderThanHours", "retainLast",
          "dryRun", "snapshotId"}

\* Elements of a list: a column name, an empty or too long one, one with a
\* NUL character, and anything that is no string.
Elements == {"name", "empty", "long", "nul", "other"}

Values == [type : {"int", "bool", "string", "list", "null", "other"}, n : Int, elements : SUBSET Elements]

COMMAND_PARAMETERS ==
    [REWRITE_DATA_FILES |-> {"targetFileSizeBytes", "minInputFiles", "maxFileGroupSizeBytes",
                             "rewriteAll", "removeDanglingDeletes"},
     REWRITE_MANIFESTS |-> {"useCaching"},
     REWRITE_POSITION_DELETES |-> {"rewriteAll"},
     COMPUTE_STATS |-> {"columns"},
     EXPIRE_SNAPSHOTS |-> {"olderThanHours", "retainLast"},
     REMOVE_ORPHAN_FILES |-> {"olderThanHours", "dryRun"},
     ROLLBACK |-> {"snapshotId"}]

Commands == DOMAIN COMMAND_PARAMETERS

\* The parameters a client may send with a command: any names, any values.
AreParameters(p) ==
    DOMAIN p \subseteq Names /\ \A name \in DOMAIN p : p[name] \in Values

-----------------------------------------------------------------------------
IsBool(v) == v.type = "bool"

IsInt(v, minimum, maximum) == v.type = "int" /\ minimum <= v.n /\ v.n <= maximum

\* The API: what is given must be of its type and in its range.
integer(p, name, minimum, maximum) ==
    name \in DOMAIN p => IsInt(p[name], minimum, maximum)

boolean(p, name) == name \in DOMAIN p => IsBool(p[name])

columns_valid(p, refused) ==
    "columns" \in DOMAIN p /\ p["columns"].type # "null" =>
        /\ p["columns"].type = "list"
        /\ 1 <= p["columns"].n /\ p["columns"].n <= 100
        /\ p["columns"].elements \cap refused = {}

\* Wrong variant: one range of hours for both commands.
validate_same_hours(c, p) ==
    /\ DOMAIN p \subseteq COMMAND_PARAMETERS[c]
    /\ boolean(p, "rewriteAll") /\ boolean(p, "removeDanglingDeletes")
    /\ boolean(p, "useCaching") /\ boolean(p, "dryRun")
    /\ integer(p, "targetFileSizeBytes", MiB, 10240 * MiB)
    /\ integer(p, "minInputFiles", 1, 10000)
    /\ integer(p, "maxFileGroupSizeBytes", MiB, 104857600 * MiB)
    /\ integer(p, "retainLast", 1, 10000)
    /\ integer(p, "snapshotId", 1, MaxLong)
    /\ integer(p, "olderThanHours", 72, 87600)
    /\ columns_valid(p, {"empty", "long", "other"})

validate_parameters(c, p) ==
    /\ DOMAIN p \subseteq COMMAND_PARAMETERS[c]
    /\ boolean(p, "rewriteAll") /\ boolean(p, "removeDanglingDeletes")
    /\ boolean(p, "useCaching") /\ boolean(p, "dryRun")
    /\ integer(p, "targetFileSizeBytes", MiB, 10240 * MiB)
    /\ integer(p, "minInputFiles", 1, 10000)
    /\ integer(p, "maxFileGroupSizeBytes", MiB, 104857600 * MiB)
    /\ integer(p, "retainLast", 1, 10000)
    /\ integer(p, "snapshotId", 1, MaxLong)
    /\ c = "EXPIRE_SNAPSHOTS" => integer(p, "olderThanHours", 120, 87600)
    /\ c = "REMOVE_ORPHAN_FILES" => integer(p, "olderThanHours", 72, 87600)
    /\ columns_valid(p, {"empty", "long", "other"})

-----------------------------------------------------------------------------
\* The procedure's arguments: what is absent has a default, which the SQL
\* spells out and which is judged like a given value.
Get(p, name, default) == IF name \in DOMAIN p THEN p[name] ELSE default

Int_(n) == [type |-> "int", n |-> n, elements |-> {}]
Bool_ == [type |-> "bool", n |-> 0, elements |-> {}]
Null_ == [type |-> "null", n |-> 0, elements |-> {}]

int_option(p, name, default, minimum, maximum) == IsInt(Get(p, name, default), minimum, maximum)

bool_option(p, name, default) == IsBool(Get(p, name, default))

\* procedure_sql raises nothing: the CALL can be put together.
procedure_sql(c, p) ==
    /\ c = "REWRITE_DATA_FILES" =>
            /\ integer(p, "targetFileSizeBytes", MiB, 10240 * MiB)
            /\ integer(p, "minInputFiles", 1, 10000)
            /\ integer(p, "maxFileGroupSizeBytes", MiB, 104857600 * MiB)
            /\ boolean(p, "rewriteAll") /\ boolean(p, "removeDanglingDeletes")
    /\ c = "REWRITE_MANIFESTS" => bool_option(p, "useCaching", Bool_)
    /\ c = "REWRITE_POSITION_DELETES" => boolean(p, "rewriteAll")
    /\ c = "COMPUTE_STATS" => columns_valid(p, {"empty", "long", "nul", "other"})
    /\ c = "EXPIRE_SNAPSHOTS" =>
            /\ int_option(p, "olderThanHours", Int_(168), 120, 87600)
            /\ int_option(p, "retainLast", Int_(1), 1, 10000)
    /\ c = "REMOVE_ORPHAN_FILES" =>
            /\ int_option(p, "olderThanHours", Int_(72), 72, 87600)
            /\ bool_option(p, "dryRun", Bool_)
    /\ c = "ROLLBACK" => int_option(p, "snapshotId", Null_, 1, MaxLong)

\* What the API lets pass and the engine refuses: a rollback that names no
\* snapshot, and a column name with a NUL character.
EngineOnly(c, p) ==
    \/ c = "ROLLBACK" /\ "snapshotId" \notin DOMAIN p
    \/ /\ c = "COMPUTE_STATS" /\ "columns" \in DOMAIN p
       /\ p["columns"].type = "list" /\ "nul" \in p["columns"].elements

=============================================================================
