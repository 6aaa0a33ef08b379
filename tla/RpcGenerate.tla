----------------------------- MODULE RpcGenerate -----------------------------
(***************************************************************************)
(* Generator.Generate of rpc/generator/gen.go:63-252: the pipeline that    *)
(* creates an rpc service.  Each step either returns its error at once or, *)
(* for GenCall, only assigns it to err; the optional Makefile, Dockerfile, *)
(* gitlab-ci and desc steps assign the same err again, and the Ent block   *)
(* declares its own err (line 196) so that its steps never touch the one   *)
(* returned at line 251.  The Ent templates are written only when          *)
(* pagination.tmpl is absent (line 219) and stay on disk across runs.      *)
(*                                                                         *)
(* The steps are abstracted to one per error check, with the calls of      *)
(* lines 113-162 (ctx.Prepare, the parser and the GenEtc ... GenMain       *)
(* writers), which all return on their first error, taken as one step.    *)
(***************************************************************************)
EXTENDS Naturals, Sequences, FiniteSets

CONSTANTS
    Options,   \* the ZRpcContext settings and disk facts a run may have
    IOFail,    \* whether a step may fail
    MaxRuns    \* the number of invocations explored

(* The steps of Generate in program order.                                  *)
Steps == <<"setup", "merge", "prepare", "modinit", "migrate", "gen", "call",
           "makefile", "docker", "gitlab", "basedesc",
           "entgen", "tplcheck", "pagination", "notempty", "entutil">>

N == Len(Steps)

StepNames == {Steps[i] : i \in 1..N}

(* The option each conditional step depends on: desc/ exists (line 79),    *)
(* ModuleName (98), both versions (105), MakeFile (166), DockerFile (173), *)
(* Gitlab (180), UseDescDir (187) and Ent (195).                           *)
OptOf == [merge |-> "desc", modinit |-> "module", migrate |-> "versions",
          makefile |-> "makefile", docker |-> "docker", gitlab |-> "gitlab",
          basedesc |-> "descdir", entgen |-> "ent", tplcheck |-> "ent",
          pagination |-> "ent", notempty |-> "ent", entutil |-> "ent"]

(* The two template files of lines 217-218.                                 *)
TplFiles == {"pagination", "notempty"}

(* Steps that leave the err of line 66 alone on success: the := of lines  *)
(* 80 and 106, the err the Ent block declares (line 196), and the          *)
(* FileExists test of line 219, which assigns no error at all.             *)
KeepsErr == {"merge", "migrate", "entgen", "tplcheck", "pagination", "notempty",
             "entutil"}

(* What a template file holds: nothing, the bytes a failed os.WriteFile    *)
(* left after creating and truncating it, or the whole template.           *)
TplState == {"absent", "partial", "written"}

VARIABLES
    cfg,       \* the options of the current run
    pc,        \* 0 between runs, i in 1..N at Steps[i], N + 1 at line 249
    err,       \* the err of line 66 holds an error
    writeTpl,  \* the FileExists test of line 219 found pagination.tmpl missing
    done,      \* the steps of this run that succeeded
    failed,    \* the steps of this run that failed
    tpl,       \* each template file's contents on disk, kept across runs
    result,    \* what the last run returned
    runs       \* invocations so far

vars == <<cfg, pc, err, writeTpl, done, failed, tpl, result, runs>>

TypeOK ==
    /\ cfg \subseteq Options
    /\ pc \in 0..(N + 1)
    /\ err \in BOOLEAN
    /\ writeTpl \in BOOLEAN
    /\ done \subseteq StepNames
    /\ failed \subseteq StepNames
    /\ tpl \in [TplFiles -> TplState]
    /\ result \in {"none", "nil", "error"}
    /\ runs \in Nat

(* Whether the run executes step s: an unconditional step, or one whose    *)
(* option is set; the template writes also need the test of line 219.      *)
Planned(s) ==
    /\ s \in DOMAIN OptOf => OptOf[s] \in cfg
    /\ s \in TplFiles => writeTpl

Cur == Steps[pc]

Init ==
    /\ cfg = {}
    /\ pc = 0
    /\ err = FALSE
    /\ writeTpl = FALSE
    /\ done = {}
    /\ failed = {}
    /\ tpl = [f \in TplFiles |-> "absent"]
    /\ result = "none"
    /\ runs = 0

(* An invocation of Generate with some ZRpcContext.                        *)
Start ==
    /\ pc = 0
    /\ runs < MaxRuns
    /\ \E c \in SUBSET Options : cfg' = c
    /\ pc' = 1
    /\ err' = FALSE
    /\ writeTpl' = FALSE
    /\ done' = {}
    /\ failed' = {}
    /\ result' = "none"
    /\ runs' = runs + 1
    /\ UNCHANGED tpl

(* An if whose condition is false.                                          *)
Skip ==
    /\ pc \in 1..N
    /\ ~Planned(Cur)
    /\ pc' = pc + 1
    /\ UNCHANGED <<cfg, err, writeTpl, done, failed, tpl, result, runs>>

(* A step that succeeds: it sets err to nil unless its error is shadowed,  *)
(* writes its template file, or records the test of line 219.              *)
StepOk ==
    /\ pc \in 1..N
    /\ Planned(Cur)
    /\ pc' = pc + 1
    /\ err' = IF Cur \in KeepsErr THEN err ELSE FALSE
    /\ writeTpl' = IF Cur = "tplcheck" THEN tpl["pagination"] = "absent" ELSE writeTpl
    /\ done' = done \cup {Cur}
    /\ tpl' = IF Cur \in TplFiles THEN [tpl EXCEPT ![Cur] = "written"] ELSE tpl
    /\ UNCHANGED <<cfg, failed, result, runs>>

(* A failing step.  GenCall's error is assigned to err at line 164 and not *)
(* checked; every other error is returned at once.  FileExists cannot fail. *)
(* A template write that fails in os.WriteFile's open leaves the file as   *)
(* it was; one that fails after the open has created and truncated it      *)
(* leaves a partial file (lines 220 and 225).                              *)
StepFail ==
    /\ IOFail
    /\ pc \in 1..N
    /\ Planned(Cur)
    /\ Cur # "tplcheck"
    /\ failed' = failed \cup {Cur}
    /\ IF Cur = "call"
         THEN /\ pc' = pc + 1
              /\ err' = TRUE
              /\ UNCHANGED result
         ELSE /\ pc' = 0
              /\ result' = "error"
              /\ UNCHANGED err
    /\ \/ Cur \notin TplFiles /\ UNCHANGED tpl
       \/ Cur \in TplFiles /\ \E c \in {tpl[Cur], "partial"} : tpl' = [tpl EXCEPT ![Cur] = c]
    /\ UNCHANGED <<cfg, writeTpl, done, runs>>

(* return err at line 251.                                                 *)
Finish ==
    /\ pc = N + 1
    /\ pc' = 0
    /\ result' = IF err THEN "error" ELSE "nil"
    /\ UNCHANGED <<cfg, err, writeTpl, done, failed, tpl, runs>>

Next == Start \/ Skip \/ StepOk \/ StepFail \/ Finish

Spec == Init /\ [][Next]_vars

-----------------------------------------------------------------------------
(* Properties.                                                             *)

(* Spec section 7: a file-system error is fatal and a partial artifact set *)
(* must not be left silently.  So when Generate returns nil, every file    *)
(* the run's options ask for exists: each planned step of the run          *)
(* succeeded, and with Ent both templates are whole.  GenCall's             *)
(* unchecked error (line 164) overwritten by a later step, and a template  *)
(* write failing at line 220 or 225 before a re-run, both break it.        *)
ArtifactsComplete ==
    result = "nil" =>
        /\ \A s \in StepNames \ ({"tplcheck"} \cup TplFiles) :
              s \notin DOMAIN OptOf \/ OptOf[s] \in cfg => s \in done
        /\ "ent" \in cfg => \A f \in TplFiles : tpl[f] = "written"

(* A nil return never hides the failure of a checked step: every error     *)
(* but GenCall's is returned, the ones of the shadowed err variables of    *)
(* lines 80, 106 and 196 included.                                          *)
ChecksReported == result = "nil" => failed \subseteq {"call"}

=============================================================================
