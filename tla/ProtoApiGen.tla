----------------------------- MODULE ProtoApiGen -----------------------------
(***************************************************************************)
(* GenLogicByProto (api/gogen/proto/gen.go): the proto-driven API         *)
(* generator.  One invocation generates the CRUD logic of one model of an *)
(* rpc proto: it writes each logic file GenCRUDData produces unless the   *)
(* file exists, rewrites desc/<model>.api from GenApiData, and adds an    *)
(* import of that file to desc/all.api unless the text "<model>.api" is   *)
(* already in it.  The user runs it once per model, in any order.          *)
(*                                                                         *)
(* Model names are model values.  SubName[a][b] says that a's name is a   *)
(* substring of b's ("User" in "AdminUser"), and so is a's snake-case     *)
(* .api file name of b's ("user.api" in "admin_user.api").  A message of  *)
(* the proto is named by its model and its suffix.                         *)
(***************************************************************************)
EXTENDS Naturals, Sequences, Functions

CONSTANTS
    Models,       \* the models of the proto (p.ModelName values)
    SubName,      \* SubName[a][b]: a's name is a substring of b's
    ProtoMsgs,    \* the messages of the proto, records [model, kind]
    StatusOf,     \* StatusOf[m]: <m>Info has a status field
    MaxRuns       \* number of invocations explored

ASSUME ProtoApiConstAssumption ==
    /\ SubName \in [Models -> [Models -> BOOLEAN]]
    /\ \A m \in Models : SubName[m][m]
    /\ ProtoMsgs \subseteq [model : Models, kind : {"Info", "ListReq", "ListResp"}]
    /\ StatusOf \in [Models -> BOOLEAN]
    /\ MaxRuns \in Nat \ {0}

(* The logic files GenCRUDData can produce, by their LogicName prefix.    *)
Kinds == {"CreateOrUpdate", "Delete", "BatchDelete", "UpdateStatus", "GetList"}

VARIABLES
    run,      \* the current invocation
    pc,       \* "idle", "logic", "api", "all", "make", "done" or "aborted"
    model,    \* p.ModelName of the current invocation
    pending,  \* the logic files of apiLogicData not yet visited
    logic,    \* logic[m]: the kinds of logic file present for m
    api,      \* api[m]: desc/<m>.api, or Absent
    allExists, \* desc/all.api exists
    allApi    \* the models whose .api file all.api imports, in order

vars == <<run, pc, model, pending, logic, api, allExists, allApi>>

(* The file does not exist; a record, so that TLC can compare it with one. *)
Absent == [exists |-> FALSE]

Msg(m, kd) == [model |-> m, kind |-> kd]

(* GenCRUDData, gen.go:143-275: the Info message gives create-or-update,  *)
(* delete, batch-delete and, when genSetLogic saw a status field, the     *)
(* update-status logic; the ListReq message gives the get-list logic.     *)
Artifacts(m) ==
    (IF Msg(m, "Info") \in ProtoMsgs
     THEN {"CreateOrUpdate", "Delete", "BatchDelete"}
          \cup (IF StatusOf[m] THEN {"UpdateStatus"} ELSE {})
     ELSE {})
    \cup (IF Msg(m, "ListReq") \in ProtoMsgs THEN {"GetList"} ELSE {})

(* GenApiData, gen.go:283-320: the list fields of the .api file come from *)
(* every message whose name contains the model name and ends in ListReq.  *)
ListOwners(m) ==
    {b \in Models : Msg(b, "ListReq") \in ProtoMsgs /\ SubName[m][b]}

TypeOK ==
    /\ run \in 1..MaxRuns
    /\ pc \in {"idle", "logic", "api", "all", "make", "done", "aborted"}
    /\ model \in Models
    /\ pending \subseteq Kinds
    /\ logic \in [Models -> SUBSET Kinds]
    /\ api \in [Models -> [list : SUBSET Models] \cup {Absent}]
    /\ allExists \in BOOLEAN
    /\ allApi \in Seq(Models)

(* A project before the first invocation: no logic and no .api file of a  *)
(* model yet; all.api as `goctl api new` left it, or missing.             *)
Init ==
    /\ run = 1
    /\ pc = "idle"
    /\ model \in Models
    /\ pending = {}
    /\ logic = [m \in Models |-> {}]
    /\ api = [m \in Models |-> Absent]
    /\ allExists \in BOOLEAN
    /\ allApi = <<>>

(* An invocation for one model: proto parsing and GenCRUDData.            *)
Start ==
    /\ pc = "idle"
    /\ \E m \in Models :
          /\ model' = m
          /\ pending' = Artifacts(m)
    /\ pc' = "logic"
    /\ UNCHANGED <<run, logic, api, allExists, allApi>>

(* The loop of gen.go:83-102, in the order of the proto's messages: an    *)
(* existing file is kept.                                                  *)
KeepLogic ==
    /\ pc = "logic"
    /\ \E a \in pending :
          /\ a \in logic[model]
          /\ pending' = pending \ {a}
    /\ UNCHANGED <<run, pc, model, logic, api, allExists, allApi>>

WriteLogic ==
    /\ pc = "logic"
    /\ \E a \in pending :
          /\ a \notin logic[model]
          /\ logic' = [logic EXCEPT ![model] = @ \cup {a}]
          /\ pending' = pending \ {a}
    /\ UNCHANGED <<run, pc, model, api, allExists, allApi>>

(* MkdirIfNotExist or os.WriteFile fails: the error is returned.          *)
WriteLogicFail ==
    /\ pc = "logic"
    /\ pending # {}
    /\ pc' = "aborted"
    /\ UNCHANGED <<run, model, pending, logic, api, allExists, allApi>>

LogicsDone ==
    /\ pc = "logic"
    /\ pending = {}
    /\ pc' = "api"
    /\ UNCHANGED <<run, model, pending, logic, api, allExists, allApi>>

(* gen.go:105-115: the .api file is always rewritten.                     *)
WriteApi ==
    /\ pc = "api"
    /\ api' = [api EXCEPT ![model] = [list |-> ListOwners(model)]]
    /\ pc' = "all"
    /\ UNCHANGED <<run, model, pending, logic, allExists, allApi>>

WriteApiFail ==
    /\ pc = "api"
    /\ pc' = "aborted"
    /\ UNCHANGED <<run, model, pending, logic, api, allExists, allApi>>

(* gen.go:124: the text "<model>.api" occurs in all.api.                  *)
Imported(m) == \E i \in DOMAIN allApi : SubName[m][allApi[i]]

(* Mutant: the data read is written back instead of the extended string. *)
MergedAllUnchanged(m) == allApi

(* Mutant: the file is rewritten with the new import line alone.          *)
MergedAllReplace(m) == IF Imported(m) THEN allApi ELSE <<m>>

(* all.api after gen.go:122-126.                                          *)
MergedAll(m) == IF Imported(m) THEN allApi ELSE Append(allApi, m)

(* gen.go:117-131: os.ReadFile fails on a missing all.api.                *)
MergeAll ==
    /\ pc = "all"
    /\ allExists
    /\ allApi' = MergedAll(model)
    /\ pc' = "make"
    /\ UNCHANGED <<run, model, pending, logic, api, allExists>>

(* os.ReadFile fails, as it always does on a missing all.api, and the     *)
(* file is untouched; or os.WriteFile fails, and when it had opened and   *)
(* truncated the file, only a prefix of the new text is there (an import  *)
(* line cut short counts as lost).                                         *)
MergeAllFail ==
    /\ pc = "all"
    /\ \/ UNCHANGED allApi
       \/ /\ allExists
          /\ \E n \in 0..Len(MergedAll(model)) :
                allApi' = SubSeq(MergedAll(model), 1, n)
    /\ pc' = "aborted"
    /\ UNCHANGED <<run, model, pending, logic, api, allExists>>

(* gen.go:133-138: `make gen-api` on Linux, which may fail.               *)
MakeGenApi ==
    /\ pc = "make"
    /\ \E ok \in BOOLEAN : pc' = IF ok THEN "done" ELSE "aborted"
    /\ UNCHANGED <<run, model, pending, logic, api, allExists, allApi>>

(* The user runs the command again, for the same or another model.        *)
Rerun ==
    /\ pc \in {"done", "aborted"}
    /\ run < MaxRuns
    /\ run' = run + 1
    /\ pc' = "idle"
    /\ UNCHANGED <<model, pending, logic, api, allExists, allApi>>

Next ==
    \/ Start \/ KeepLogic \/ WriteLogic \/ WriteLogicFail \/ LogicsDone
    \/ WriteApi \/ WriteApiFail \/ MergeAll \/ MergeAllFail \/ MakeGenApi
    \/ Rerun

Spec == Init /\ [][Next]_vars

(***************************************************************************)
(* Properties                                                              *)
(***************************************************************************)

(* spec.md 4.7: after a successful invocation, all.api imports the .api   *)
(* file it has just written.                                               *)
ApiImported ==
    pc = "done" => \E i \in DOMAIN allApi : allApi[i] = model

(* all.api seen as the import list it promises to be: allApi is the list. *)
AllApi == INSTANCE AllApiImports WITH imports <- allApi

(* spec.md 4.7 and 8: the all.api merge is idempotent.  Repeated          *)
(* invocations only append an import of a model not yet imported to the  *)
(* end of all.api, or, when a write fails, cut it back to a prefix:       *)
(* gen.go:117-131 never reorders, duplicates or rewrites the imports      *)
(* already there.                                                          *)
AllApiRefined == AllApi!Spec

=============================================================================
