-------------------------- MODULE ProtoApiGenProofs --------------------------
(***************************************************************************)
(* Proofs about ProtoApiGen for every set of models, every substring      *)
(* relation and every number of invocations: the type invariant, that    *)
(* the all.api merge of gen.go:117-131 refines the abstract import list,  *)
(* and that a successful run imports its model.                           *)
(***************************************************************************)
EXTENDS ProtoApiGen, TLAPS

-----------------------------------------------------------------------------
(* The helpers of GenCRUDData and GenApiData stay within their types.     *)

(* GenCRUDData names only logic files of the five kinds.                  *)
LEMMA ArtifactsType ==
    ASSUME NEW m \in Models
    PROVE  Artifacts(m) \subseteq Kinds
  BY DEF Artifacts, Kinds

(* The prefixes of all.api a failed write can leave are sequences of      *)
(* models.                                                                 *)
LEMMA PrefixType ==
    ASSUME NEW S, NEW s \in Seq(S), NEW n \in 0..Len(s)
    PROVE  SubSeq(s, 1, n) \in Seq(S)
  OBVIOUS

-----------------------------------------------------------------------------
(* The type invariant.                                                     *)

(* Every state the generator reaches is well typed: in particular the     *)
(* pending logic files of GenCRUDData are of the five kinds and all.api   *)
(* stays a sequence of models.                                             *)
THEOREM TypeCorrect == Spec => []TypeOK
<1>1. Init => TypeOK
  BY ProtoApiConstAssumption DEF Init, TypeOK, Absent
<1>2. TypeOK /\ [Next]_vars => TypeOK'
  <2> SUFFICES ASSUME TypeOK, [Next]_vars PROVE TypeOK'
    OBVIOUS
  <2>1. CASE Start
    BY <2>1, ArtifactsType DEF Start, TypeOK
  <2>2. CASE KeepLogic
    BY <2>2 DEF KeepLogic, TypeOK
  <2>3. CASE WriteLogic
    BY <2>3 DEF WriteLogic, TypeOK
  <2>4. CASE WriteLogicFail
    BY <2>4 DEF WriteLogicFail, TypeOK
  <2>5. CASE LogicsDone
    BY <2>5 DEF LogicsDone, TypeOK
  <2>6. CASE WriteApi
    <3>1. ListOwners(model) \subseteq Models
      BY DEF ListOwners
    <3>2. QED
      BY <2>6, <3>1 DEF WriteApi, TypeOK
  <2>7. CASE WriteApiFail
    BY <2>7 DEF WriteApiFail, TypeOK
  <2>8. CASE MergeAll
    <3>1. MergedAll(model) \in Seq(Models)
      BY DEF TypeOK, MergedAll
    <3>2. QED
      BY <2>8, <3>1 DEF MergeAll, TypeOK
  <2>9. CASE MergeAllFail
    <3>1. MergedAll(model) \in Seq(Models)
      BY DEF TypeOK, MergedAll
    <3>2. allApi' \in Seq(Models)
      BY <2>9, <3>1, PrefixType DEF MergeAllFail, TypeOK
    <3>3. QED
      BY <2>9, <3>2 DEF MergeAllFail, TypeOK
  <2>10. CASE MakeGenApi
    BY <2>10 DEF MakeGenApi, TypeOK
  <2>11. CASE Rerun
    BY <2>11, ProtoApiConstAssumption DEF Rerun, TypeOK
  <2>12. CASE UNCHANGED vars
    BY <2>12 DEF vars, TypeOK
  <2>13. QED
    BY <2>1, <2>2, <2>3, <2>4, <2>5, <2>6, <2>7, <2>8, <2>9, <2>10,
       <2>11, <2>12 DEF Next
<1>3. QED
  BY <1>1, <1>2, PTL DEF Spec

-----------------------------------------------------------------------------
(* The refinement of the abstract import list.                            *)

(* gen.go:117-131 implements what all.api promises: every step of the     *)
(* generator leaves all.api alone, appends an import of a model it does   *)
(* not import yet, or, when the write fails, leaves a prefix of the list  *)
(* it read or of that list with the new import; so every behaviour of the *)
(* generator is, seen through allApi, a behaviour of AllApiImports.        *)
THEOREM AllApiRefinedProved == Spec => AllApiRefined
<1>1. Init => AllApi!Init
  BY DEF Init, AllApi!Init
<1>2. TypeOK /\ [Next]_vars => [AllApi!Next]_allApi
  <2> SUFFICES ASSUME TypeOK, [Next]_vars PROVE [AllApi!Next]_allApi
    OBVIOUS
  <2>1. CASE MergeAll /\ Imported(model)
    BY <2>1 DEF MergeAll, MergedAll
  <2>2. CASE MergeAll /\ ~Imported(model)
    <3>1. \A i \in DOMAIN allApi : allApi[i] # model
      BY <2>2, ProtoApiConstAssumption DEF Imported, TypeOK
    <3>2. allApi' = Append(allApi, model)
      BY <2>2 DEF MergeAll, MergedAll
    <3>3. AllApi!Import(model)
      BY <3>1, <3>2 DEF AllApi!Import
    <3>4. QED
      BY <3>3 DEF AllApi!Next, TypeOK
  <2>3. CASE MergeAllFail /\ allApi' # allApi
    <3>1. PICK n \in 0..Len(MergedAll(model)) : allApi' = SubSeq(MergedAll(model), 1, n)
      BY <2>3 DEF MergeAllFail
    <3>2. CASE Imported(model)
      <4>1. n \in 0..Len(allApi) /\ allApi' = SubSeq(allApi, 1, n)
        BY <3>1, <3>2 DEF MergedAll
      <4>2. QED
        BY <4>1 DEF AllApi!Next, AllApi!Truncate
    <3>3. CASE ~Imported(model) /\ n = Len(allApi) + 1
      <4>1. \A i \in DOMAIN allApi : allApi[i] # model
        BY <3>3, ProtoApiConstAssumption DEF Imported, TypeOK
      <4>2. allApi' = Append(allApi, model)
        BY <3>1, <3>3 DEF MergedAll, TypeOK
      <4>3. QED
        BY <4>1, <4>2 DEF AllApi!Next, AllApi!Import, TypeOK
    <3>4. CASE ~Imported(model) /\ n # Len(allApi) + 1
      <4>1. n \in 0..Len(allApi)
        BY <3>1, <3>4 DEF MergedAll, TypeOK
      <4>2. allApi' = SubSeq(allApi, 1, n)
        BY <3>1, <3>4, <4>1 DEF MergedAll, TypeOK
      <4>3. QED
        BY <4>1, <4>2 DEF AllApi!Next, AllApi!Truncate
    <3>5. QED
      BY <3>2, <3>3, <3>4
  <2>4. CASE ~MergeAll /\ ~(MergeAllFail /\ allApi' # allApi)
    BY <2>4 DEF Next, vars, Start, KeepLogic, WriteLogic, WriteLogicFail,
                LogicsDone, WriteApi, WriteApiFail,
                MakeGenApi, Rerun
  <2>5. QED
    BY <2>1, <2>2, <2>3, <2>4
<1>3. QED
  BY <1>1, <1>2, TypeCorrect, PTL DEF Spec, AllApiRefined, AllApi!Spec

-----------------------------------------------------------------------------
(* A successful invocation imports its own .api file.                      *)

(* The strengthening: from the merge of gen.go:117-131 to the end of the   *)
(* invocation, all.api imports the current model.                          *)
AIInv == pc \in {"make", "done"} => \E i \in DOMAIN allApi : allApi[i] = model

(* When no model's name is a substring of another's, the test of gen.go:124 *)
(* finds "<model>.api" only where that model itself is imported, so every  *)
(* successful invocation leaves all.api importing its model.  Without the  *)
(* hypothesis the test is fooled ("user.api" in "admin_user.api"), as the  *)
(* hazard at gen.go:124 says.                                              *)
THEOREM ApiImportedProved ==
    ASSUME \A a, b \in Models : SubName[a][b] => a = b
    PROVE  Spec => []ApiImported
<1>1. Init => AIInv
  BY DEF Init, AIInv
<1>2. TypeOK /\ AIInv /\ [Next]_vars => AIInv'
  <2> SUFFICES ASSUME TypeOK, AIInv, [Next]_vars PROVE AIInv'
    OBVIOUS
  <2>1. CASE MergeAll
    <3>1. CASE Imported(model)
      <4>1. PICK i \in DOMAIN allApi : SubName[model][allApi[i]]
        BY <3>1 DEF Imported
      <4>2. allApi[i] = model
        BY <4>1 DEF TypeOK
      <4>3. QED
        BY <2>1, <3>1, <4>2 DEF MergeAll, MergedAll, AIInv
    <3>2. CASE ~Imported(model)
      <4>1. allApi' = Append(allApi, model) /\ model' = model
        BY <2>1, <3>2 DEF MergeAll, MergedAll
      <4>2. Len(allApi') = Len(allApi) + 1 /\ allApi'[Len(allApi) + 1] = model'
        BY <4>1 DEF TypeOK
      <4>3. Len(allApi) + 1 \in DOMAIN allApi'
        BY <4>1 DEF TypeOK
      <4>4. QED
        BY <4>2, <4>3 DEF AIInv
    <3>3. QED
      BY <3>1, <3>2
  <2>2. CASE MakeGenApi
    BY <2>2 DEF MakeGenApi, AIInv
  <2>3. CASE Start \/ KeepLogic \/ WriteLogic \/ WriteLogicFail \/ LogicsDone
             \/ WriteApi \/ WriteApiFail \/ MergeAllFail \/ Rerun
    <3>1. pc' \notin {"make", "done"}
      BY <2>3 DEF Start, KeepLogic, WriteLogic, WriteLogicFail, LogicsDone,
                  WriteApi, WriteApiFail, MergeAllFail, Rerun
    <3>2. QED
      BY <3>1 DEF AIInv
  <2>4. CASE UNCHANGED vars
    BY <2>4 DEF vars, AIInv
  <2>5. QED
    BY <2>1, <2>2, <2>3, <2>4 DEF Next
<1>3. AIInv => ApiImported
  BY DEF AIInv, ApiImported
<1>4. QED
  BY <1>1, <1>2, <1>3, TypeCorrect, PTL DEF Spec

=============================================================================
