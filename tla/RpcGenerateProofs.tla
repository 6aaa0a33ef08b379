------------------------- MODULE RpcGenerateProofs --------------------------
(***************************************************************************)
(* Proofs about RpcGenerate, the step pipeline of Generator.Generate       *)
(* (rpc/generator/gen.go:63-252).                                          *)
(***************************************************************************)
EXTENDS RpcGenerate, TLAPS

-----------------------------------------------------------------------------
(* Proof of ChecksReported.                                                *)

(* The strengthening: during a run no step but GenCall has failed yet.     *)
ChecksInv ==
    /\ pc \in 0..(N + 1)
    /\ pc # 0 => failed \subseteq {"call"}
    /\ ChecksReported

(* For every set of options, failure mode and number of runs, a nil        *)
(* return of Generate means that every failed step was GenCall.             *)
THEOREM ChecksReportedProved == Spec => []ChecksReported
<1>1. Init => ChecksInv
  BY DEF Init, ChecksInv, ChecksReported, N, Steps
<1>2. ChecksInv /\ [Next]_vars => ChecksInv'
  <2> SUFFICES ASSUME ChecksInv, [Next]_vars PROVE ChecksInv'
    OBVIOUS
  <2>1. CASE Start
    BY <2>1 DEF Start, ChecksInv, ChecksReported, N, Steps
  <2>2. CASE Skip
    BY <2>2 DEF Skip, ChecksInv, ChecksReported, N, Steps
  <2>3. CASE StepOk
    BY <2>3 DEF StepOk, ChecksInv, ChecksReported, N, Steps
  <2>4. CASE StepFail
    <3>1. CASE Cur = "call"
      BY <2>4, <3>1 DEF StepFail, ChecksInv, ChecksReported, N, Steps
    <3>2. CASE Cur # "call"
      BY <2>4, <3>2 DEF StepFail, ChecksInv, ChecksReported, N, Steps
    <3>3. QED
      BY <3>1, <3>2
  <2>5. CASE Finish
    BY <2>5 DEF Finish, ChecksInv, ChecksReported, N, Steps
  <2>6. CASE UNCHANGED vars
    BY <2>6 DEF vars, ChecksInv, ChecksReported
  <2>7. QED
    BY <2>1, <2>2, <2>3, <2>4, <2>5, <2>6 DEF Next
<1>3. ChecksInv => ChecksReported
  BY DEF ChecksInv
<1>4. QED
  BY <1>1, <1>2, <1>3, PTL DEF Spec

-----------------------------------------------------------------------------
(* Type correctness.                                                       *)

(* The pipeline has sixteen steps, and pc names one of them in 1..N.      *)
LEMMA StepsLen ==
    /\ N = 16
    /\ pc \in 1..N => Cur \in StepNames
  BY DEF N, Steps, Cur, StepNames

(* For every option set, failure mode and run bound, every state of        *)
(* Generate is well typed: the step counter stays in 0..N + 1 and only     *)
(* steps of the pipeline are recorded as done or failed.                   *)
THEOREM TypeCorrect == Spec => []TypeOK
<1>1. Init => TypeOK
  <2> SUFFICES ASSUME Init PROVE TypeOK
    OBVIOUS
  <2>1. pc \in 0..(N + 1)
    BY StepsLen DEF Init
  <2>2. tpl \in [TplFiles -> TplState]
    BY DEF Init, TplState
  <2>3. QED
    BY <2>1, <2>2 DEF Init, TypeOK
<1>2. TypeOK /\ [Next]_vars => TypeOK'
  <2> SUFFICES ASSUME TypeOK, [Next]_vars PROVE TypeOK'
    OBVIOUS
  <2>0. /\ N = 16
        /\ pc \in 1..N => Cur \in StepNames
    BY StepsLen
  <2>1. CASE Start
    <3>1. /\ pc' \in 0..(N + 1) /\ runs' \in Nat
      BY <2>0, <2>1 DEF Start, TypeOK
    <3>2. QED
      BY <2>0, <2>1, <3>1, Zenon DEF Start, TypeOK
  <2>2. CASE Skip
    <3>1. pc' \in 0..(N + 1)
      BY <2>0, <2>2 DEF Skip, TypeOK
    <3>2. QED
      BY <2>0, <2>2, <3>1, Zenon DEF Skip, TypeOK
  <2>3. CASE StepOk
    <3>1. pc' \in 0..(N + 1)
      BY <2>0, <2>3 DEF StepOk, TypeOK
    <3>2. tpl' \in [TplFiles -> TplState]
      BY <2>3 DEF StepOk, TypeOK, TplState
    <3>3. writeTpl' \in BOOLEAN
      BY <2>3 DEF StepOk, TypeOK
    <3>4. QED
      BY <2>0, <2>3, <3>1, <3>2, <3>3, Zenon DEF StepOk, TypeOK
  <2>4. CASE StepFail
    <3>1. pc' \in 0..(N + 1)
      BY <2>0, <2>4 DEF StepFail, TypeOK
    <3>2. tpl' \in [TplFiles -> TplState]
      BY <2>4 DEF StepFail, TypeOK, TplState
    <3>3. QED
      BY <2>0, <2>4, <3>1, <3>2, Zenon DEF StepFail, TypeOK
  <2>5. CASE Finish
    <3>1. pc' \in 0..(N + 1)
      BY <2>0, <2>5 DEF Finish, TypeOK
    <3>2. QED
      BY <2>0, <2>5, <3>1, Zenon DEF Finish, TypeOK
  <2>6. CASE UNCHANGED vars
    BY <2>6 DEF vars, TypeOK
  <2>7. QED
    BY <2>1, <2>2, <2>3, <2>4, <2>5, <2>6 DEF Next
<1>3. QED
  BY <1>1, <1>2, PTL DEF Spec

-----------------------------------------------------------------------------
(* Which steps a nil return vouches for.                                   *)

(* A step the run's options ask for, other than the test of line 219 and   *)
(* the template writes it guards.                                          *)
Due(s) == s \notin {"tplcheck"} \cup TplFiles /\ (s \in DOMAIN OptOf => OptOf[s] \in cfg)

(* Every due step among the first m succeeded, or is GenCall and failed.   *)
Completed(m) ==
    \A q \in 1..m : Due(Steps[q]) => Steps[q] \in done \/ (Steps[q] = "call" /\ "call" \in failed)

(* The strengthening: the steps behind pc are completed, and so are all    *)
(* of them once the run has returned nil.                                  *)
StepInv ==
    /\ pc \in 0..(N + 1)
    /\ pc \in 1..(N + 1) => Completed(pc - 1)
    /\ result = "nil" => Completed(N)

(* GenCall's error is the only one a nil return hides: when Generate       *)
(* returns nil and GenCall succeeded, every step the options ask for       *)
(* succeeded.                                                               *)
CallOnlyHidden ==
    result = "nil" /\ "call" \notin failed =>
        \A s \in StepNames \ ({"tplcheck"} \cup TplFiles) :
            s \notin DOMAIN OptOf \/ OptOf[s] \in cfg => s \in done

LEMMA StepInvInductive == Spec => []StepInv
<1>1. Init => StepInv
  BY DEF Init, StepInv, N, Steps
<1>2. StepInv /\ [Next]_vars => StepInv'
  <2> SUFFICES ASSUME StepInv, [Next]_vars PROVE StepInv'
    OBVIOUS
  <2>0. N = 16
    BY DEF N, Steps
  <2>1. CASE Start
    BY <2>0, <2>1 DEF Start, StepInv, Completed
  <2>2. CASE Skip
    <3>1. ~Due(Cur)
      BY <2>2 DEF Skip, Planned, Due
    <3>2. QED
      BY <2>0, <2>2, <3>1 DEF Skip, StepInv, Completed, Due, Cur
  <2>3. CASE StepOk
    BY <2>0, <2>3 DEF StepOk, StepInv, Completed, Due, Cur
  <2>4. CASE StepFail
    <3>1. CASE Cur = "call"
      BY <2>0, <2>4, <3>1 DEF StepFail, StepInv, Completed, Due, Cur
    <3>2. CASE Cur # "call"
      BY <2>0, <2>4, <3>2 DEF StepFail, StepInv, Completed
    <3>3. QED
      BY <3>1, <3>2
  <2>5. CASE Finish
    <3>1. Completed(N)
      BY <2>0, <2>5 DEF Finish, StepInv
    <3>2. Completed(N)'
      BY <2>5, <3>1 DEF Finish, Completed, Due
    <3>3. QED
      BY <2>0, <2>5, <3>2 DEF Finish, StepInv
  <2>6. CASE UNCHANGED vars
    BY <2>6 DEF vars, StepInv, Completed, Due
  <2>7. QED
    BY <2>1, <2>2, <2>3, <2>4, <2>5, <2>6 DEF Next
<1>3. QED
  BY <1>1, <1>2, PTL DEF Spec

(* A completed run vouches for every due step of the pipeline.             *)
LEMMA CompletedAll ==
    ASSUME Completed(N), "call" \notin failed
    PROVE  \A s \in StepNames \ ({"tplcheck"} \cup TplFiles) :
               s \notin DOMAIN OptOf \/ OptOf[s] \in cfg => s \in done
  BY DEF Completed, Due, StepNames

(* For every option set and failure mode, a nil return of Generate after   *)
(* a successful GenCall leaves every step its options ask for done: the    *)
(* gen_callerr violation of ArtifactsComplete needs GenCall's unchecked    *)
(* error (line 164), or a template left absent or partial by a failed      *)
(* write of an earlier run.                                                *)
THEOREM CallOnlyHiddenProved == Spec => []CallOnlyHidden
<1>1. StepInv => CallOnlyHidden
  BY CompletedAll DEF StepInv, CallOnlyHidden
<1>2. QED
  BY <1>1, StepInvInductive, PTL

=============================================================================
