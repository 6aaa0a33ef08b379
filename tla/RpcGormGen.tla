----------------------------- MODULE RpcGormGen -----------------------------
(***************************************************************************)
(* genGormLogic (rpc/generator/gorm/gen.go): for every table loaded from  *)
(* the schema config it writes internal/logic/<pkg>/<Struct>Logic.go,     *)
(* create-if-absent unless Overwrite, and merges the table's messages and  *)
(* rpc declarations into desc/<Struct>.proto.  The tables come from a Go   *)
(* map, so each invocation visits them in an arbitrary order, and the     *)
(* context g is shared by all iterations: GenCRUDData sets g.UseUUID when *)
(* a table's id column is a UUID and never resets it.                     *)
(*                                                                         *)
(* The model runs up to MaxRuns invocations one after the other on the    *)
(* same output tree: the files persist, the context does not.  An         *)
(* invocation may end in an I/O error (when IOFail), and the user runs    *)
(* the command again.  A file's content is abstracted to what the         *)
(* properties compare: the invocation that wrote a logic file and whether *)
(* its code treats the id as a UUID; the service a proto file declares    *)
(* and the id type of each message block merged into it.                  *)
(***************************************************************************)
EXTENDS Naturals, FiniteSets, Functions

CONSTANTS
    Tables,        \* the tables of the schema config (model values)
    UUIDKey,       \* UUIDKey[t]: the id column of t has a UUID type
    Unsupported,   \* tables whose primary key type generateModelInfo rejects
    UseUUIDFlag,   \* the --use_uuid flag, the initial g.UseUUID
    Services,      \* service names a proto file may declare
    ProjectSvc,    \* strcase.ToCamel(g.ProjectName)
    SvcOf,         \* SvcOf[t]: strcase.ToCamel(t's PackageName)
    IOFail,        \* whether file writes may fail
    MaxRuns        \* number of invocations explored

ASSUME RpcConstAssumption ==
    /\ IsFiniteSet(Tables)
    /\ UUIDKey \in [Tables -> BOOLEAN]
    /\ Unsupported \subseteq Tables
    /\ UseUUIDFlag \in BOOLEAN
    /\ ProjectSvc \in Services
    /\ SvcOf \in [Tables -> Services]
    /\ IOFail \in BOOLEAN
    /\ MaxRuns \in Nat \ {0}

VARIABLES
    run,        \* the current invocation, 1..MaxRuns
    pc,         \* "start", "loop", "proto", "done" or "aborted"
    overwrite,  \* g.Overwrite of the current invocation
    useUUID,    \* g.UseUUID of the current invocation
    order,      \* the map iteration order of the current invocation
    k,          \* index of the current table in order
    logic,      \* logic[t]: the logic file of t, or Absent
    proto,      \* proto[t]: desc/<Struct>.proto of t, or Absent
    clean       \* history: no file write has failed so far

vars == <<run, pc, overwrite, useUUID, order, k, logic, proto, clean>>

(* The file does not exist; a record, so that TLC can compare it with one. *)
Absent == [exists |-> FALSE]

(* What a failed os.WriteFile leaves when it created and truncated the    *)
(* file but did not write all of it: the code is cut short, and a proto   *)
(* file has lost at least the closing brace of its service, which every    *)
(* write of gen.go:131 and 161 ends with.                                  *)
Partial == [partial |-> TRUE]

(* loadTableInfo keeps the tables whose metadata it could turn into a     *)
(* ModelInfo; generateModelInfo fails on an unsupported primary key.       *)
Loaded == Tables \ Unsupported

NumLoaded == Cardinality(Loaded)

(* The orders in which `range schemas` may visit the loaded tables.       *)
Orders == Bijection(1..NumLoaded, Loaded)

LogicFile == [run : 1..MaxRuns, uuid : BOOLEAN]
ProtoFile == [svc : Services, msgs : SUBSET BOOLEAN]

TypeOK ==
    /\ run \in 1..MaxRuns
    /\ pc \in {"start", "loop", "proto", "done", "aborted"}
    /\ overwrite \in BOOLEAN
    /\ useUUID \in BOOLEAN
    /\ order \in Orders \cup {<<>>}
    /\ k \in 1..(NumLoaded + 1)
    /\ logic \in [Tables -> LogicFile \cup {Absent, Partial}]
    /\ proto \in [Tables -> ProtoFile \cup {Absent, Partial}]
    /\ clean \in BOOLEAN

Init ==
    /\ run = 1
    /\ pc = "start"
    /\ overwrite = FALSE
    /\ useUUID = UseUUIDFlag
    /\ order = <<>>
    /\ k = 1
    /\ logic = [t \in Tables |-> Absent]
    /\ proto = [t \in Tables |-> Absent]
    /\ clean = TRUE

(* An invocation: the flags come from the command line, the tables from   *)
(* LoadTableSchemas, in map order; g.UseUUID starts from the flag.         *)
Start ==
    /\ pc = "start"
    /\ \E ow \in BOOLEAN, o \in Orders :
          /\ overwrite' = ow
          /\ order' = o
    /\ useUUID' = UseUUIDFlag
    /\ k' = 1
    /\ pc' = "loop"
    /\ UNCHANGED <<run, logic, proto, clean>>

(* The user runs the command again after it finished or failed.           *)
Rerun ==
    /\ pc \in {"done", "aborted"}
    /\ run < MaxRuns
    /\ run' = run + 1
    /\ pc' = "start"
    /\ UNCHANGED <<overwrite, useUUID, order, k, logic, proto, clean>>

Cur == order[k]

(* GenCRUDData: the id column of a UUID-keyed table sets g.UseUUID, which *)
(* the templates of this and of every later table then read.              *)
CRUDUseUUID(t) == useUUID \/ UUIDKey[t]

(* Mutant: the `!g.Overwrite` conjunct dropped.                          *)
LogicKeptIgnoringFlag(t) == logic[t] # Absent

(* Mutant: the FileExists test negated.                                   *)
LogicKeptInverted(t) == logic[t] = Absent /\ ~overwrite

(* Mutant: the Overwrite test inverted.                                    *)
LogicKeptWhenFlag(t) == logic[t] # Absent /\ overwrite

(* An existing logic file is kept unless Overwrite (gen.go:113).          *)
LogicKept(t) == logic[t] # Absent /\ ~overwrite

(* Mutant: the skip path advances past the following table as well.      *)
SkipTableTwice ==
    /\ pc = "loop"
    /\ k <= NumLoaded
    /\ LogicKept(Cur)
    /\ useUUID' = CRUDUseUUID(Cur)
    /\ k' = k + 2
    /\ UNCHANGED <<run, pc, overwrite, order, logic, proto, clean>>

(* `continue`: the proto step of the table is skipped as well.            *)
SkipTable ==
    /\ pc = "loop"
    /\ k <= NumLoaded
    /\ LogicKept(Cur)
    /\ useUUID' = CRUDUseUUID(Cur)
    /\ k' = k + 1
    /\ UNCHANGED <<run, pc, overwrite, order, logic, proto, clean>>

WriteLogic ==
    /\ pc = "loop"
    /\ k <= NumLoaded
    /\ ~LogicKept(Cur)
    /\ useUUID' = CRUDUseUUID(Cur)
    /\ logic' = [logic EXCEPT ![Cur] = [run |-> run, uuid |-> CRUDUseUUID(Cur)]]
    /\ pc' = "proto"
    /\ UNCHANGED <<run, overwrite, order, k, proto, clean>>

(* MkdirIfNotExist or os.WriteFile fails: genGormLogic returns the error, *)
(* and the file is as it was or, when the write failed after the open,     *)
(* truncated.                                                              *)
WriteLogicFail ==
    /\ IOFail
    /\ pc = "loop"
    /\ k <= NumLoaded
    /\ ~LogicKept(Cur)
    /\ useUUID' = CRUDUseUUID(Cur)
    /\ \E f \in {logic[Cur], Partial} : logic' = [logic EXCEPT ![Cur] = f]
    /\ pc' = "aborted"
    /\ clean' = FALSE
    /\ UNCHANGED <<run, overwrite, order, k, proto>>

(* The proto file after gen.go:130-136: written afresh, declaring the     *)
(* project's service, when absent or when Overwrite.                       *)
Created(t) ==
    IF proto[t] = Absent \/ overwrite
    THEN [svc |-> ProjectSvc, msgs |-> {}]
    ELSE proto[t]

(* Mutant: GenProtoData reads the flag, not the context GenCRUDData set.  *)
MsgIdFlag == UseUUIDFlag

(* GenProtoData renders the id of the Info message from g.UseUUID.        *)
MsgIdUUID == useUUID

(* gen.go:144: the message or rpc text is already in the file.  Of a      *)
(* truncated file the model makes no claim; gen.go:150 skips it anyway.   *)
Contains(t) == Created(t) # Partial /\ MsgIdUUID \in Created(t).msgs

(* gen.go:150: FindBeginEndOfService looks for the service named after   *)
(* the table's package.                                                    *)
(* A service block without its closing brace is taken as not found:      *)
(* protox.FindBeginEndOfService is not part of this repository.           *)
ServiceFound(t) == Created(t) # Partial /\ Created(t).svc = SvcOf[t]

(* Mutant: the file is rewritten with the data read, not the merged data. *)
MergedOld(t) == Created(t)

Merged(t) == [Created(t) EXCEPT !.msgs = @ \cup {MsgIdUUID}]

(* The proto step, gen.go:121-165; both `continue`s go to the next table. *)
MergeProto ==
    /\ pc = "proto"
    /\ proto' = [proto EXCEPT ![Cur] =
                   IF Contains(Cur) \/ ~ServiceFound(Cur)
                   THEN Created(Cur) ELSE Merged(Cur)]
    /\ k' = k + 1
    /\ pc' = "loop"
    /\ UNCHANGED <<run, overwrite, useUUID, order, logic, clean>>

(* The creating write fails: the old file stays, or is left truncated.    *)
CreateProtoFail ==
    /\ IOFail
    /\ pc = "proto"
    /\ proto[Cur] = Absent \/ overwrite
    /\ \E f \in {proto[Cur], Partial} : proto' = [proto EXCEPT ![Cur] = f]
    /\ pc' = "aborted"
    /\ clean' = FALSE
    /\ UNCHANGED <<run, overwrite, useUUID, order, k, logic>>

(* The merging write fails after the file was (re)created: the file is   *)
(* the one read at gen.go:137, or truncated.                               *)
MergeProtoFail ==
    /\ IOFail
    /\ pc = "proto"
    /\ ~Contains(Cur) /\ ServiceFound(Cur)
    /\ \E f \in {Created(Cur), Partial} : proto' = [proto EXCEPT ![Cur] = f]
    /\ pc' = "aborted"
    /\ clean' = FALSE
    /\ UNCHANGED <<run, overwrite, useUUID, order, k, logic>>

EndLoop ==
    /\ pc = "loop"
    /\ k > NumLoaded
    /\ pc' = "done"
    /\ UNCHANGED <<run, overwrite, useUUID, order, k, logic, proto, clean>>

Next ==
    \/ Start \/ Rerun
    \/ SkipTable \/ WriteLogic \/ WriteLogicFail
    \/ MergeProto \/ CreateProtoFail \/ MergeProtoFail
    \/ EndLoop

Spec == Init /\ [][Next]_vars

(***************************************************************************)
(* Properties                                                              *)
(***************************************************************************)

(* spec.md 4.5 classifies each table as UUID-keyed or autoincrement-keyed *)
(* from its own primary key: the logic file GenCRUDData writes for a      *)
(* table treats the id as a UUID exactly when the flag is set or the      *)
(* table's id column is a UUID, whatever tables came before it.           *)
TableKeyed ==
    \A t \in Tables :
        logic[t] \in LogicFile /\ logic[t].run = run =>
            logic[t].uuid = (UseUUIDFlag \/ UUIDKey[t])

(* The message blocks merged into a table's proto file use the id type    *)
(* of the table's logic file, so the generated server compiles against   *)
(* the generated proto.  Checked outside the proto step, which runs right *)
(* after the logic file is written.                                        *)
ProtoMatchesLogic ==
    pc # "proto" =>
        \A t \in Tables : proto[t] # Absent =>
            \A b \in proto[t].msgs : logic[t] # Absent /\ b = logic[t].uuid

(* spec.md 6: in schema-driven mode the protocol messages of every table  *)
(* are merged into its descriptor file.  When an invocation succeeds,    *)
(* every loaded table has a logic file and its message in its proto file. *)
MessageMergedOnSuccess ==
    pc = "done" =>
        \A t \in Loaded : logic[t] # Absent /\ proto[t] \in ProtoFile
                          /\ proto[t].msgs # {}

(* spec.md 4.7 and 8: with Overwrite=false an existing logic file is      *)
(* never rewritten (hand-edited business logic survives re-runs).         *)
LogicPreserved ==
    [][~overwrite' =>
        \A t \in Tables : logic[t] # Absent => logic'[t] = logic[t]]_vars

(* ProtoMatchesLogic in every behaviour up to the first failed write.     *)
CleanProtoMatchesLogic == clean => ProtoMatchesLogic

(* MessageMergedOnSuccess in every behaviour up to the first failed write: *)
(* what rpc_rerun and rpc_service break is broken only by a failure and by *)
(* a package named otherwise.                                              *)
CleanMessageMerged == clean => MessageMergedOnSuccess

(* spec.md 8: with Overwrite=true a successful invocation has replaced    *)
(* the logic file of every loaded table by a whole one of its own.         *)
OverwriteReplaces ==
    pc = "done" /\ overwrite =>
        \A t \in Loaded : logic[t] \in LogicFile /\ logic[t].run = run

=============================================================================
