--------------------------- MODULE RpcGormGenProofs ---------------------------
(***************************************************************************)
(* Proofs about RpcGormGen for every finite set of tables, every flag and  *)
(* every number of invocations: the type invariant, that create-if-absent *)
(* never rewrites a logic file without Overwrite, and that without I/O     *)
(* errors every merged proto message has the id type of its table's logic. *)
(***************************************************************************)
EXTENDS RpcGormGen, FiniteSetTheorems, TLAPS

-----------------------------------------------------------------------------
(* Facts about the helpers.                                                *)

(* The loaded tables are finitely many.                                    *)
LEMMA NumLoadedType == NumLoaded \in Nat
<1>1. IsFiniteSet(Loaded)
  BY RpcConstAssumption, FS_Subset DEF Loaded
<1>2. QED
  BY <1>1, FS_CardinalityType DEF NumLoaded

(* A map iteration order visits only loaded tables.                        *)
LEMMA OrderRange ==
    ASSUME NEW o \in Orders, NEW i \in 1..NumLoaded
    PROVE  o[i] \in Loaded
  BY DEF Orders, Bijection, Injection, Surjection

(* A written file is not the absent one: the records have other fields.   *)
LEMMA WrittenNotAbsent ==
    ASSUME NEW r, NEW a, NEW b, r = [run |-> a, uuid |-> b] \/ r = [svc |-> a, msgs |-> b]
    PROVE  r # Absent
<1>1. DOMAIN Absent = {"exists"}
  BY DEF Absent
<1>2. DOMAIN r # {"exists"}
  OBVIOUS
<1>3. QED
  BY <1>1, <1>2

(* A truncated file is neither absent nor a whole logic or proto file.   *)
LEMMA PartialDistinct ==
    /\ Partial # Absent
    /\ Partial \notin LogicFile
    /\ Partial \notin ProtoFile
<1>1. DOMAIN Partial = {"partial"}
  BY DEF Partial
<1>2. Partial # Absent
  BY <1>1 DEF Absent
<1>3. \A r \in LogicFile \cup ProtoFile : DOMAIN r # {"partial"}
  BY DEF LogicFile, ProtoFile
<1>4. QED
  BY <1>1, <1>2, <1>3

(* gen.go:130-136 yields a proto file, or the truncated one it read.      *)
LEMMA CreatedType ==
    ASSUME NEW t \in Tables, proto[t] \in ProtoFile \cup {Absent, Partial}
    PROVE  Created(t) \in ProtoFile \cup {Partial}
  BY RpcConstAssumption DEF Created, ProtoFile

(* The file the merge reads when the service was found is a whole one.    *)
LEMMA FoundType ==
    ASSUME NEW t \in Tables, proto[t] \in ProtoFile \cup {Absent, Partial},
           ServiceFound(t)
    PROVE  Created(t) \in ProtoFile
  BY CreatedType DEF ServiceFound

(* The merge adds the message block of id type b and keeps the service.    *)
LEMMA MergeExcept ==
    ASSUME NEW c \in ProtoFile, NEW b \in BOOLEAN
    PROVE  /\ [c EXCEPT !.msgs = @ \cup {b}] \in ProtoFile
           /\ [c EXCEPT !.msgs = @ \cup {b}].msgs = c.msgs \cup {b}
  BY Zenon DEF ProtoFile

-----------------------------------------------------------------------------
(* The type invariant.                                                     *)

(* TypeOK with what the loop and the proto step need to index `order`.    *)
IInv ==
    /\ TypeOK
    /\ pc \in {"loop", "proto"} => order \in Orders
    /\ pc = "proto" => k \in 1..NumLoaded

(* The initial state satisfies the typing invariant.                    *)
LEMMA InitIInv == Init => IInv
<1> SUFFICES ASSUME Init PROVE IInv
  OBVIOUS
<1>1. logic \in [Tables -> LogicFile \cup {Absent, Partial}]
  BY DEF Init
<1>2. proto \in [Tables -> ProtoFile \cup {Absent, Partial}]
  BY DEF Init
<1>3. k \in 1..(NumLoaded + 1)
  BY NumLoadedType DEF Init
<1>4. run \in 1..MaxRuns /\ useUUID \in BOOLEAN
  BY RpcConstAssumption DEF Init
<1>5. QED
  BY <1>1, <1>2, <1>3, <1>4 DEF Init, IInv, TypeOK

(* Every state is well typed, and the table the loop or the proto step    *)
(* works on is a loaded table.                                             *)
THEOREM IInvInductive == Spec => []IInv
<1>1. Init => IInv
  BY InitIInv
<1>2. IInv /\ [Next]_vars => IInv'
  <2> SUFFICES ASSUME IInv, [Next]_vars PROVE IInv'
    OBVIOUS
  <2> USE NumLoadedType, RpcConstAssumption
  <2>1. CASE Start
    BY <2>1 DEF Start, IInv, TypeOK
  <2>2. CASE Rerun
    BY <2>2 DEF Rerun, IInv, TypeOK
  <2>3. CASE SkipTable
    BY <2>3 DEF SkipTable, IInv, TypeOK, CRUDUseUUID
  <2>4. CASE WriteLogic
    <3>1. Cur \in Tables
      BY <2>4, OrderRange DEF WriteLogic, IInv, TypeOK, Cur, Loaded
    <3>2. [run |-> run, uuid |-> CRUDUseUUID(Cur)] \in LogicFile
      BY <3>1 DEF IInv, TypeOK, CRUDUseUUID, LogicFile
    <3>3. QED
      BY <2>4, <3>1, <3>2 DEF WriteLogic, IInv, TypeOK, CRUDUseUUID
  <2>5. CASE WriteLogicFail
    <3>1. Cur \in Tables
      BY <2>5, OrderRange DEF WriteLogicFail, IInv, TypeOK, Cur, Loaded
    <3>2. logic' \in [Tables -> LogicFile \cup {Absent, Partial}]
      BY <2>5, <3>1 DEF WriteLogicFail, IInv, TypeOK
    <3>3. QED
      BY <2>5, <3>2 DEF WriteLogicFail, IInv, TypeOK, CRUDUseUUID
  <2>6. CASE MergeProto
    <3>1. Cur \in Tables
      BY <2>6, OrderRange DEF MergeProto, IInv, Cur, Loaded
    <3>2. Created(Cur) \in ProtoFile \cup {Partial}
      BY <3>1, CreatedType DEF IInv, TypeOK
    <3>3. ServiceFound(Cur) => Merged(Cur) \in ProtoFile
      BY <3>1, FoundType, MergeExcept DEF Merged, MsgIdUUID, IInv, TypeOK
    <3>4. proto'[Cur] \in ProtoFile \cup {Partial}
      BY <2>6, <3>1, <3>2, <3>3 DEF MergeProto, IInv, TypeOK
    <3>5. QED
      BY <2>6, <3>1, <3>4 DEF MergeProto, IInv, TypeOK
  <2>7. CASE CreateProtoFail
    <3>1. Cur \in Tables
      BY <2>7, OrderRange DEF CreateProtoFail, IInv, Cur, Loaded
    <3>2. proto' \in [Tables -> ProtoFile \cup {Absent, Partial}]
      BY <2>7, <3>1 DEF CreateProtoFail, IInv, TypeOK
    <3>3. QED
      BY <2>7, <3>2 DEF CreateProtoFail, IInv, TypeOK
  <2>8. CASE MergeProtoFail
    <3>1. Cur \in Tables
      BY <2>8, OrderRange DEF MergeProtoFail, IInv, Cur, Loaded
    <3>2. Created(Cur) \in ProtoFile
      BY <2>8, <3>1, FoundType DEF MergeProtoFail, IInv, TypeOK
    <3>3. proto' \in [Tables -> ProtoFile \cup {Absent, Partial}]
      BY <2>8, <3>1, <3>2 DEF MergeProtoFail, IInv, TypeOK
    <3>4. QED
      BY <2>8, <3>3 DEF MergeProtoFail, IInv, TypeOK
  <2>9. CASE EndLoop
    BY <2>9 DEF EndLoop, IInv, TypeOK
  <2>10. CASE UNCHANGED vars
    BY <2>10 DEF vars, IInv, TypeOK
  <2>11. QED
    BY <2>1, <2>2, <2>3, <2>4, <2>5, <2>6, <2>7, <2>8, <2>9, <2>10 DEF Next
<1>3. QED
  BY <1>1, <1>2, PTL DEF Spec

(* Every state genGormLogic reaches over any number of invocations is     *)
(* well typed.                                                             *)
THEOREM TypeCorrect == Spec => []TypeOK
  BY IInvInductive, PTL DEF IInv

-----------------------------------------------------------------------------
(* Create-if-absent.                                                       *)

(* gen.go:113-117: the only step that writes a logic file does so when    *)
(* the file is absent or Overwrite is set, and no step changes Overwrite   *)
(* without ending the loop, so a step taken without Overwrite rewrites no  *)
(* existing logic file.                                                    *)
THEOREM LogicPreservedProved == Spec => LogicPreserved
<1>1. IInv /\ [Next]_vars =>
        [~overwrite' => \A t \in Tables : logic[t] # Absent => logic'[t] = logic[t]]_vars
  <2> SUFFICES ASSUME IInv, [Next]_vars, ~overwrite',
                      NEW t \in Tables, logic[t] # Absent
               PROVE  logic'[t] = logic[t]
    OBVIOUS
  <2>1. CASE WriteLogic
    <3>1. ~overwrite /\ logic[Cur] = Absent
      BY <2>1 DEF WriteLogic, LogicKept
    <3>2. t # Cur
      BY <3>1
    <3>3. QED
      BY <2>1, <3>2 DEF WriteLogic, IInv, TypeOK
  <2>2. CASE WriteLogicFail
    <3>1. ~overwrite /\ logic[Cur] = Absent
      BY <2>2 DEF WriteLogicFail, LogicKept
    <3>2. t # Cur
      BY <3>1
    <3>3. QED
      BY <2>2, <3>2 DEF WriteLogicFail, IInv, TypeOK
  <2>3. CASE ~WriteLogic /\ ~WriteLogicFail
    BY <2>3 DEF Next, vars, Start, Rerun, SkipTable,
                MergeProto, CreateProtoFail, MergeProtoFail, EndLoop
  <2>4. QED
    BY <2>1, <2>2, <2>3
<1>2. QED
  BY <1>1, IInvInductive, PTL DEF Spec, LogicPreserved

-----------------------------------------------------------------------------
(* Proto messages and logic agree up to the first failed write.            *)

(* The strengthening of ProtoMatchesLogic: a proto file exists only with  *)
(* its logic file; in the proto step the logic file of the current table  *)
(* was just written with g.UseUUID and its proto file is about to be      *)
(* created afresh; the message blocks of every other table have the id    *)
(* type of its logic file.                                                 *)
PMCore ==
    /\ \A t \in Tables : proto[t] # Absent => logic[t] # Absent
    /\ pc = "proto" => /\ logic[Cur] # Absent
                       /\ logic[Cur].uuid = useUUID
                       /\ overwrite \/ proto[Cur] = Absent
    /\ \A t \in Tables :
          (pc = "proto" => t # Cur) /\ proto[t] # Absent =>
              \A b \in proto[t].msgs : b = logic[t].uuid

PMInv == IInv /\ (clean => PMCore)

(* Until a file write fails, the proto step runs right after the logic    *)
(* file of its table was written and merges the Info message with the     *)
(* same g.UseUUID (gen.go:116-144): over any number of invocations, with  *)
(* or without Overwrite, every message block in a proto file has the id   *)
(* type of its table's logic file.  After a failure it need not: a failed *)
(* proto write after an overwrite leaves the old messages beside the new   *)
(* logic.                                                                   *)
THEOREM CleanProtoMatchesProved == Spec => []CleanProtoMatchesLogic
<1>1. Init => PMInv
  BY InitIInv DEF Init, PMInv, PMCore
<1>2. PMInv /\ IInv' /\ [Next]_vars => PMInv'
  <2> SUFFICES ASSUME PMInv, IInv', [Next]_vars, clean' PROVE PMCore'
    BY DEF PMInv
  <2>1. CASE WriteLogicFail \/ CreateProtoFail \/ MergeProtoFail
    BY <2>1 DEF WriteLogicFail, CreateProtoFail, MergeProtoFail
  <2>2. CASE ~(WriteLogicFail \/ CreateProtoFail \/ MergeProtoFail)
    <3>1. clean
      BY <2>2 DEF Next, vars, Start, Rerun, SkipTable, WriteLogic, MergeProto,
                  EndLoop
    <3>2. PMCore
      BY <3>1 DEF PMInv
    <3>3. CASE WriteLogic
      <4>1. Cur \in Tables
        BY <3>3, OrderRange DEF WriteLogic, PMInv, IInv, Cur, Loaded
      <4>2. Cur' = Cur
        BY <3>3 DEF WriteLogic, Cur
      <4>3. logic'[Cur] = [run |-> run, uuid |-> useUUID'] /\ logic'[Cur] # Absent
        BY <3>3, <4>1, WrittenNotAbsent DEF WriteLogic, PMInv, IInv, TypeOK
      <4>4. overwrite \/ proto[Cur] = Absent
        BY <3>2, <3>3, <4>1 DEF WriteLogic, LogicKept, PMCore
      <4>5. \A t \in Tables : t # Cur => logic'[t] = logic[t]
        BY <3>3 DEF WriteLogic, PMInv, IInv, TypeOK
      <4>6. QED
        BY <3>2, <3>3, <4>2, <4>3, <4>4, <4>5 DEF WriteLogic, PMCore
    <3>4. CASE MergeProto
      <4>1. Cur \in Tables
        BY <3>4, OrderRange DEF MergeProto, PMInv, IInv, Cur, Loaded
      <4>2. Created(Cur) = [svc |-> ProjectSvc, msgs |-> {}]
        BY <3>2, <3>4 DEF MergeProto, PMCore, Created
      <4>3. Merged(Cur) \in ProtoFile /\ Merged(Cur).msgs = {useUUID}
        BY <4>2, MergeExcept, RpcConstAssumption DEF Merged, MsgIdUUID, ProtoFile,
           PMInv, IInv, TypeOK
      <4>4. proto'[Cur] # Absent /\ \A b \in proto'[Cur].msgs : b = useUUID
        <5>1. Created(Cur) # Absent
          BY <4>2, WrittenNotAbsent
        <5>2. Merged(Cur) # Absent
          BY <4>3, WrittenNotAbsent DEF ProtoFile
        <5>3. QED
          BY <3>4, <4>1, <4>2, <4>3, <5>1, <5>2 DEF MergeProto, PMInv, IInv, TypeOK
      <4>5. \A t \in Tables : t # Cur => proto'[t] = proto[t]
        BY <3>4 DEF MergeProto, PMInv, IInv, TypeOK
      <4>6. QED
        BY <3>2, <3>4, <4>1, <4>4, <4>5 DEF MergeProto, PMCore
    <3>5. CASE Start \/ Rerun \/ SkipTable \/ EndLoop
      <4>1. /\ pc' # "proto" /\ pc # "proto"
            /\ logic' = logic /\ proto' = proto
        BY <3>5 DEF Start, Rerun, SkipTable, EndLoop
      <4>2. QED
        BY <3>2, <4>1 DEF PMCore
    <3>6. CASE UNCHANGED vars
      <4>1. /\ pc' = pc /\ logic' = logic /\ proto' = proto
            /\ useUUID' = useUUID /\ overwrite' = overwrite /\ Cur' = Cur
        BY <3>6 DEF vars, Cur
      <4>2. QED
        BY <3>2, <4>1 DEF PMCore
    <3>7. QED
      BY <2>2, <3>3, <3>4, <3>5, <3>6 DEF Next
  <2>3. QED
    BY <2>1, <2>2
<1>3. PMInv => CleanProtoMatchesLogic
  BY DEF PMInv, PMCore, CleanProtoMatchesLogic, ProtoMatchesLogic
<1>4. QED
  BY <1>1, <1>2, <1>3, IInvInductive, PTL DEF Spec

(* Without I/O errors no write fails, and the id types agree in every     *)
(* state.                                                                  *)
THEOREM ProtoMatchesLogicProved ==
    ASSUME ~IOFail
    PROVE  Spec => []ProtoMatchesLogic
<1>1. Init => clean
  BY DEF Init
<1>2. clean /\ [Next]_vars => clean'
  BY RpcConstAssumption DEF Next, vars, Start, Rerun, SkipTable, WriteLogic,
     WriteLogicFail, MergeProto, CreateProtoFail, MergeProtoFail, EndLoop
<1>3. QED
  BY <1>1, <1>2, CleanProtoMatchesProved, PTL DEF Spec, CleanProtoMatchesLogic

-----------------------------------------------------------------------------
(* The table loop visits every loaded table.                               *)

(* A map iteration order visits every loaded table.                        *)
LEMMA OrderOnto ==
    ASSUME NEW o \in Orders, NEW t \in Loaded
    PROVE  \E i \in 1..NumLoaded : o[i] = t
  BY DEF Orders, Bijection, Surjection

(* A proto file is not the absent one.                                     *)
LEMMA ProtoNotAbsent ==
    ASSUME NEW c \in ProtoFile
    PROVE  c # Absent
<1>1. c = [svc |-> c.svc, msgs |-> c.msgs]
  BY DEF ProtoFile
<1>2. QED
  BY <1>1, WrittenNotAbsent

(* The merge keeps the service the file declares.                          *)
LEMMA MergeKeepsSvc ==
    ASSUME NEW c \in ProtoFile, NEW b \in BOOLEAN
    PROVE  [c EXCEPT !.msgs = @ \cup {b}].svc = c.svc
  BY Zenon DEF ProtoFile

(* The strengthening shared by OverwriteReplaces and CleanMessageMerged:  *)
(* the tables order[1..k-1] the loop has passed have a logic file, written *)
(* in this invocation when Overwrite is set; so does the table of the      *)
(* proto step; and the loop ends after the last loaded table.              *)
VisitedInv ==
    /\ pc = "done" => order \in Orders /\ k = NumLoaded + 1
    /\ pc \in {"loop", "proto", "done"} =>
          \A i \in 1..(k - 1) :
              /\ logic[order[i]] # Absent
              /\ overwrite => logic[order[i]] \in LogicFile /\ logic[order[i]].run = run
    /\ pc = "proto" =>
          /\ logic[Cur] # Absent
          /\ overwrite => logic[Cur] \in LogicFile /\ logic[Cur].run = run

(* Each step keeps VisitedInv.                                             *)
LEMMA VisitedStep == IInv /\ VisitedInv /\ [Next]_vars => VisitedInv'
<1> SUFFICES ASSUME IInv, VisitedInv, [Next]_vars PROVE VisitedInv'
  OBVIOUS
<1> USE NumLoadedType
<1>1. CASE Start
  BY <1>1 DEF Start, VisitedInv
<1>2. CASE Rerun
  BY <1>2 DEF Rerun, VisitedInv
<1>3. CASE SkipTable
  <2>1. logic[Cur] # Absent /\ ~overwrite
    BY <1>3 DEF SkipTable, LogicKept
  <2>2. k \in 1..NumLoaded /\ k' = k + 1 /\ pc' = "loop" /\ pc = "loop"
    BY <1>3 DEF SkipTable, IInv, TypeOK
  <2>3. UNCHANGED <<order, logic, overwrite, run>>
    BY <1>3 DEF SkipTable
  <2>4. \A i \in 1..(k' - 1) : i \in 1..(k - 1) \/ i = k
    BY <2>2
  <2>5. QED
    BY <2>1, <2>2, <2>3, <2>4 DEF VisitedInv, Cur
<1>4. CASE WriteLogic
  <2>1. Cur \in Tables
    BY <1>4, OrderRange DEF WriteLogic, IInv, TypeOK, Cur, Loaded
  <2>2. DEFINE r == [run |-> run, uuid |-> CRUDUseUUID(Cur)]
  <2>3. r # Absent /\ r.run = run
    BY WrittenNotAbsent
  <2>9. r \in LogicFile
    BY <2>1 DEF IInv, TypeOK, LogicFile, CRUDUseUUID
  <2>4. logic' = [logic EXCEPT ![Cur] = r] /\ pc' = "proto" /\ pc = "loop"
        /\ UNCHANGED <<order, k, overwrite, run>>
    BY <1>4 DEF WriteLogic
  <2>5. \A t \in Tables : logic'[t] = IF t = Cur THEN r ELSE logic[t]
    BY <2>4 DEF IInv, TypeOK
  <2>6. \A i \in 1..(k - 1) : order[i] \in Tables
    BY <1>4, OrderRange DEF WriteLogic, IInv, TypeOK, Loaded
  <2>7. Cur' = Cur
    BY <2>4 DEF Cur
  <2>8. QED
    BY <2>1, <2>3, <2>4, <2>5, <2>6, <2>7, <2>9 DEF VisitedInv
<1>5. CASE MergeProto
  <2>1. k \in 1..NumLoaded /\ k' = k + 1 /\ pc' = "loop" /\ pc = "proto"
    BY <1>5 DEF MergeProto, IInv
  <2>2. UNCHANGED <<order, logic, overwrite, run>>
    BY <1>5 DEF MergeProto
  <2>3. \A i \in 1..(k' - 1) : i \in 1..(k - 1) \/ i = k
    BY <2>1
  <2>4. QED
    BY <2>1, <2>2, <2>3 DEF VisitedInv, Cur
<1>6. CASE WriteLogicFail \/ CreateProtoFail \/ MergeProtoFail
  BY <1>6 DEF WriteLogicFail, CreateProtoFail, MergeProtoFail, VisitedInv
<1>7. CASE EndLoop
  <2>1. order \in Orders /\ k = NumLoaded + 1
    BY <1>7 DEF EndLoop, IInv, TypeOK
  <2>2. QED
    BY <1>7, <2>1 DEF EndLoop, VisitedInv
<1>8. CASE UNCHANGED vars
  BY <1>8 DEF vars, VisitedInv, Cur
<1>9. QED
  BY <1>1, <1>2, <1>3, <1>4, <1>5, <1>6, <1>7, <1>8 DEF Next

(* IInv and VisitedInv hold in every state.                                *)
THEOREM VisitedInductive == Spec => [](IInv /\ VisitedInv)
<1>1. Init => VisitedInv
  BY DEF Init, VisitedInv
<1>2. QED
  BY <1>1, InitIInv, VisitedStep, IInvInductive, PTL DEF Spec

(* A loop that reaches its end has passed every loaded table.              *)
LEMMA DoneVisitsAll ==
    ASSUME IInv, VisitedInv, pc = "done", NEW t \in Loaded
    PROVE  /\ logic[t] # Absent
           /\ overwrite => logic[t] \in LogicFile /\ logic[t].run = run
<1>1. PICK i \in 1..NumLoaded : order[i] = t
  BY OrderOnto DEF VisitedInv
<1>2. i \in 1..(k - 1)
  BY NumLoadedType DEF VisitedInv
<1>3. QED
  BY <1>1, <1>2 DEF VisitedInv

(* With Overwrite, the test of gen.go:113 never keeps a file, so the loop  *)
(* writes the logic of every table it visits, and it visits every loaded   *)
(* table of the map: a successful invocation with Overwrite has replaced   *)
(* every loaded table's logic file.                                        *)
THEOREM OverwriteReplacesProved == Spec => []OverwriteReplaces
<1>1. IInv /\ VisitedInv => OverwriteReplaces
  BY DoneVisitsAll DEF OverwriteReplaces
<1>2. QED
  BY <1>1, VisitedInductive, PTL

-----------------------------------------------------------------------------
(* Every table of a successful invocation is merged, until a write fails. *)

(* gen.go:131 creates every proto file with the project's service, and    *)
(* the merge keeps it; a truncated file declares none.                     *)
SvcInv == \A t \in Tables : proto[t] \in ProtoFile => proto[t].svc = ProjectSvc

(* The file the proto step reads declares the project's service when it is *)
(* a whole one, and so does the merge of it.                               *)
LEMMA CreatedSvc ==
    ASSUME IInv, SvcInv, NEW t \in Tables
    PROVE  /\ Created(t) \in ProtoFile => Created(t).svc = ProjectSvc
           /\ ServiceFound(t) => Merged(t) \in ProtoFile /\ Merged(t).svc = ProjectSvc
<1>1. Created(t) \in ProtoFile => Created(t).svc = ProjectSvc
  BY DEF Created, SvcInv
<1>2. ASSUME ServiceFound(t) PROVE Merged(t) \in ProtoFile /\ Merged(t).svc = ProjectSvc
  <2>1. Created(t) \in ProtoFile
    BY <1>2, FoundType DEF IInv, TypeOK
  <2>2. useUUID \in BOOLEAN
    BY DEF IInv, TypeOK
  <2>3. QED
    BY <1>1, <2>1, <2>2, MergeExcept, MergeKeepsSvc DEF Merged, MsgIdUUID
<1>3. QED
  BY <1>1, <1>2

(* Each step keeps SvcInv.                                                 *)
LEMMA SvcStep == IInv /\ SvcInv /\ [Next]_vars => SvcInv'
<1> SUFFICES ASSUME IInv, SvcInv, [Next]_vars PROVE SvcInv'
  OBVIOUS
<1>0. PartialDistinct
  BY PartialDistinct
<1>1. CASE MergeProto \/ MergeProtoFail \/ CreateProtoFail
  <2>1. Cur \in Tables /\ pc = "proto"
    BY <1>1, OrderRange DEF MergeProto, MergeProtoFail, CreateProtoFail, IInv, Cur, Loaded
  <2>2. /\ Created(Cur) \in ProtoFile => Created(Cur).svc = ProjectSvc
        /\ ServiceFound(Cur) => Merged(Cur) \in ProtoFile /\ Merged(Cur).svc = ProjectSvc
    BY <2>1, CreatedSvc
  <2>3. proto'[Cur] \in ProtoFile => proto'[Cur].svc = ProjectSvc
    <3>1. CASE MergeProto
      <4>1. proto'[Cur] = IF Contains(Cur) \/ ~ServiceFound(Cur)
                          THEN Created(Cur) ELSE Merged(Cur)
        BY <3>1, <2>1 DEF MergeProto, IInv, TypeOK
      <4>2. QED
        BY <4>1, <2>2
    <3>2. CASE MergeProtoFail
      <4>1. proto'[Cur] \in {Created(Cur), Partial}
        BY <3>2, <2>1 DEF MergeProtoFail, IInv, TypeOK
      <4>2. QED
        BY <4>1, <2>2, <1>0
    <3>3. CASE CreateProtoFail
      <4>1. proto'[Cur] \in {proto[Cur], Partial}
        BY <3>3, <2>1 DEF CreateProtoFail, IInv, TypeOK
      <4>2. QED
        BY <4>1, <2>1, <1>0 DEF SvcInv
    <3>4. QED
      BY <1>1, <3>1, <3>2, <3>3
  <2>4. \A t \in Tables : t # Cur => proto'[t] = proto[t]
    BY <1>1 DEF MergeProto, MergeProtoFail, CreateProtoFail, IInv, TypeOK
  <2>5. QED
    BY <2>3, <2>4 DEF SvcInv
<1>2. CASE ~(MergeProto \/ MergeProtoFail \/ CreateProtoFail)
  <2>1. proto' = proto
    BY <1>2 DEF Next, vars, Start, Rerun, SkipTable, WriteLogic,
                WriteLogicFail, EndLoop
  <2>2. QED
    BY <2>1 DEF SvcInv
<1>3. QED
  BY <1>1, <1>2

(* The strengthening of CleanMessageMerged: until a write fails, a table  *)
(* with a logic file has its messages in its proto file, except the table  *)
(* of the proto step, whose logic was just written, and no file is         *)
(* truncated.                                                              *)
MCore ==
    /\ \A t \in Tables : proto[t] # Partial
    /\ \A t \in Tables :
          (pc = "proto" => t # Cur) /\ logic[t] # Absent =>
              proto[t] \in ProtoFile /\ proto[t].msgs # {}

MMInv == clean => MCore

(* When every loaded table's package is named after the project, the      *)
(* merge of gen.go:150 finds the service of the file gen.go:131 created,  *)
(* and the merge follows every logic write unless a write fails: until    *)
(* then, a successful invocation leaves every loaded table with a logic   *)
(* file and its messages in its proto file, over any number of re-runs.   *)
(* Without the hypothesis the merge is skipped, as rpc_service shows; after *)
(* a failure a re-run skips the table, as rpc_rerun shows.                  *)
THEOREM CleanMessageMergedProved ==
    ASSUME \A t \in Loaded : SvcOf[t] = ProjectSvc
    PROVE  Spec => []CleanMessageMerged
<1>1. Init => SvcInv /\ MMInv
  <2>1. Absent \notin ProtoFile /\ Partial # Absent
    BY ProtoNotAbsent, PartialDistinct
  <2>2. QED
    BY <2>1 DEF Init, SvcInv, MMInv, MCore
<1>2. IInv /\ SvcInv /\ MMInv /\ [Next]_vars => MMInv'
  <2> SUFFICES ASSUME IInv, SvcInv, MMInv, [Next]_vars, clean' PROVE MCore'
    BY DEF MMInv
  <2>1. CASE WriteLogicFail \/ CreateProtoFail \/ MergeProtoFail
    BY <2>1 DEF WriteLogicFail, CreateProtoFail, MergeProtoFail
  <2>2. CASE ~(WriteLogicFail \/ CreateProtoFail \/ MergeProtoFail)
    <3>1. clean
      BY <2>2 DEF Next, vars, Start, Rerun, SkipTable, WriteLogic, MergeProto,
                  EndLoop
    <3>2. MCore
      BY <3>1 DEF MMInv
    <3>3. CASE WriteLogic
      <4>1. Cur \in Tables
        BY <3>3, OrderRange DEF WriteLogic, IInv, TypeOK, Cur, Loaded
      <4>2. pc = "loop" /\ pc' = "proto" /\ Cur' = Cur /\ proto' = proto
        BY <3>3 DEF WriteLogic, Cur
      <4>3. \A t \in Tables : t # Cur => logic'[t] = logic[t]
        BY <3>3 DEF WriteLogic, IInv, TypeOK
      <4>4. QED
        BY <3>2, <4>2, <4>3 DEF MCore
    <3>4. CASE MergeProto
      <4>1. Cur \in Loaded /\ Cur \in Tables
        BY <3>4, OrderRange DEF MergeProto, IInv, Cur, Loaded
      <4>2. Created(Cur) \in ProtoFile /\ Created(Cur).svc = ProjectSvc
        <5>1. proto[Cur] # Partial
          BY <3>2, <4>1 DEF MCore
        <5>2. [svc |-> ProjectSvc, msgs |-> {}] \in ProtoFile
          BY RpcConstAssumption DEF ProtoFile
        <5>3. Created(Cur) \in ProtoFile
          BY <4>1, <5>1, <5>2, CreatedType DEF Created, IInv, TypeOK
        <5>4. QED
          BY <4>1, <5>3, CreatedSvc
      <4>3. ServiceFound(Cur)
        BY <4>1, <4>2, PartialDistinct DEF ServiceFound
      <4>4. proto'[Cur] = IF Contains(Cur) THEN Created(Cur) ELSE Merged(Cur)
        BY <3>4, <4>1, <4>3 DEF MergeProto, IInv, TypeOK
      <4>5. proto'[Cur] \in ProtoFile /\ proto'[Cur].msgs # {}
        <5>1. CASE Contains(Cur)
          BY <4>2, <4>4, <5>1 DEF Contains
        <5>2. CASE ~Contains(Cur)
          <6>1. Merged(Cur) \in ProtoFile /\ MsgIdUUID \in Merged(Cur).msgs
            BY <4>2, MergeExcept DEF Merged, MsgIdUUID, IInv, TypeOK
          <6>2. QED
            BY <4>4, <5>2, <6>1
        <5>3. QED
          BY <5>1, <5>2
      <4>9. proto'[Cur] # Partial
        BY <4>5, PartialDistinct
      <4>6. \A t \in Tables : t # Cur => proto'[t] = proto[t]
        BY <3>4 DEF MergeProto, IInv, TypeOK
      <4>7. pc = "proto" /\ pc' = "loop" /\ logic' = logic
        BY <3>4 DEF MergeProto
      <4>8. QED
        BY <3>2, <4>5, <4>6, <4>7, <4>9 DEF MCore
    <3>5. CASE Start \/ Rerun \/ SkipTable \/ EndLoop
      <4>1. pc # "proto" /\ pc' # "proto" /\ logic' = logic /\ proto' = proto
        BY <3>5 DEF Start, Rerun, SkipTable, EndLoop
      <4>2. QED
        BY <3>2, <4>1 DEF MCore
    <3>6. CASE UNCHANGED vars
      <4>1. pc' = pc /\ logic' = logic /\ proto' = proto /\ Cur' = Cur
        BY <3>6 DEF vars, Cur
      <4>2. QED
        BY <3>2, <4>1 DEF MCore
    <3>7. QED
      BY <2>2, <3>3, <3>4, <3>5, <3>6 DEF Next
  <2>3. QED
    BY <2>1, <2>2
<1>3. IInv /\ VisitedInv /\ MMInv => CleanMessageMerged
  <2> SUFFICES ASSUME IInv, VisitedInv, MMInv, clean, pc = "done",
                      NEW t \in Loaded
               PROVE  logic[t] # Absent /\ proto[t] \in ProtoFile /\ proto[t].msgs # {}
    BY DEF CleanMessageMerged, MessageMergedOnSuccess
  <2>1. logic[t] # Absent
    BY DoneVisitsAll
  <2>2. QED
    BY <2>1 DEF MMInv, MCore, Loaded
<1>4. QED
  BY <1>1, <1>2, <1>3, SvcStep, VisitedInductive, PTL DEF Spec

=============================================================================
