---------------------------- MODULE ApiGenProofs ----------------------------
(***************************************************************************)
(* Proofs about ApiGen for every value of its constants: the type          *)
(* invariant, and that routes.go registers only groups whose policy the    *)
(* spec accepts.                                                           *)
(***************************************************************************)
EXTENDS ApiGen, SequenceTheorems, TLAPS

-----------------------------------------------------------------------------
(* The route additions genRoutes produces are well typed.                  *)

(* A group's registrations are registrations.                              *)
LEMMA GroupRegsType ==
    ASSUME NEW g \in GroupSpec
    PROVE  GroupRegs(g) \subseteq Reg
<1>1. \A r \in Range(g.routes) : r \in RouteSpec
  BY DEF GroupSpec, Range
<1>2. \A r \in RouteSpec : EffectiveFolder(g, r) \in FolderVal
  BY DEF GroupSpec, RouteSpec, EffectiveFolder, FolderVal
<1>3. QED
  BY <1>1, <1>2 DEF GroupRegs, Reg, RouteSpec

(* A group's middleware, qualified q times, is a sequence of references.   *)
LEMMA QualifiedType ==
    ASSUME NEW g \in GroupSpec, NEW q \in Nat
    PROVE  Qualified(g, q) \in Seq(MwRef)
<1>1. g.mw \in Seq(MwEntry)
  BY DEF GroupSpec
<1>2. \A k \in DOMAIN g.mw : g.mw[k] \in MwEntry
  BY <1>1
<1>3. DOMAIN g.mw = 1..Len(g.mw)
  BY <1>1
<1>4. \A k \in DOMAIN g.mw :
        [name |-> g.mw[k].name, pad |-> g.mw[k].pad, qual |-> q] \in MwRef
  BY <1>2 DEF MwEntry, MwRef
<1>5. Qualified(g, q) \in [1..Len(g.mw) -> MwRef]
  BY <1>3, <1>4 DEF Qualified
<1>6. QED
  BY <1>5

(* The group j of the file at n, emitted with q qualifiers.                *)
LEMMA AdditionOfType ==
    ASSUME NEW n \in 1..NumFiles, apiFiles[n] \in ApiFileSpec,
           NEW j \in DOMAIN apiFiles[n].groups, NEW q \in Nat
    PROVE  AdditionOf(n, j, q) \in Addition
<1>1. apiFiles[n].groups[j] \in GroupSpec
  BY DEF ApiFileSpec
<1>2. GroupRegs(apiFiles[n].groups[j]) \subseteq Reg
  BY <1>1, GroupRegsType
<1>3. Qualified(apiFiles[n].groups[j], q) \in Seq(MwRef)
  BY <1>1, QualifiedType
<1>4. j \in Nat
  BY DEF ApiFileSpec
<1>5. QED
  BY <1>2, <1>3, <1>4 DEF AdditionOf, Addition

(* getRoutes / genRoutes: each of the 2 * Len(groups) additions names a    *)
(* group of the file.                                                      *)
LEMMA GenRoutesOutType ==
    ASSUME NEW n \in 1..NumFiles, apiFiles[n] \in ApiFileSpec
    PROVE  GenRoutesOut(n) \in Seq(Addition)
<1> DEFINE L == Len(apiFiles[n].groups)
<1>1. apiFiles[n].groups \in Seq(GroupSpec)
  BY DEF ApiFileSpec
<1>2. ASSUME NEW k \in 1..2 * L
      PROVE  /\ (k + 1) \div 2 \in DOMAIN apiFiles[n].groups
             /\ 2 - (k % 2) \in Nat
  BY <1>1
<1>3. \A k \in 1..2 * L : AdditionOf(n, (k + 1) \div 2, 2 - (k % 2)) \in Addition
  BY <1>2, AdditionOfType
<1>4. GenRoutesOut(n) \in [1..2 * L -> Addition]
  BY <1>3 DEF GenRoutesOut
<1>5. QED
  BY <1>1, <1>4

-----------------------------------------------------------------------------
(* The type invariant.                                                     *)

(* The record type of the two goroutine states of backupAndSweep.        *)
BkType == [copy : {"idle", "run", "ok", "fail"},
           sweep : {"idle", "run", "ok", "fail"}]

(* Setting one goroutine's state keeps the pair within its type.           *)
LEMMA BkExcept ==
    ASSUME NEW b \in BkType, NEW v \in {"idle", "run", "ok", "fail"}
    PROVE  /\ [b EXCEPT !.copy = v] \in BkType
           /\ [b EXCEPT !.sweep = v] \in BkType
  BY Zenon DEF BkType

(* The steps of the loop body of GenGormApiFile.                          *)
InLoop == {"handlers", "logics", "backup", "join", "format"}

(* The type invariant strengthened to be inductive: inside the loop body   *)
(* i names a file, and the goroutines of backupAndSweep run only while     *)
(* GenGormApiFile waits on them.                                           *)
IInv ==
    /\ TypeOK
    /\ pc \in InLoop => i \in 1..NumFiles
    /\ (bk.copy # "idle" \/ bk.sweep # "idle") => pc = "join"

(* The file at a loop index is a well-typed .api file, and each of its     *)
(* groups is a well-typed group.                                           *)
LEMMA FileType ==
    ASSUME TypeOK, NEW n \in 1..NumFiles
    PROVE  /\ apiFiles[n] \in ApiFileSpec
           /\ apiFiles[n].name \in Names
           /\ apiFiles[n].groups \in Seq(GroupSpec)
           /\ \A j \in DOMAIN apiFiles[n].groups : apiFiles[n].groups[j] \in GroupSpec
<1>1. apiFiles[n] \in ApiFileSpec
  BY CatalogAssumption DEF TypeOK
<1>2. apiFiles[n].groups \in Seq(GroupSpec)
  BY <1>1 DEF ApiFileSpec
<1>3. QED
  BY <1>1, <1>2 DEF ApiFileSpec

(* The handlers and the logic functions a group's files define.            *)
LEMMA DefinedType ==
    ASSUME NEW g \in GroupSpec
    PROVE  /\ HandlersDefined(g) \subseteq Reg
           /\ LogicsDefined(g) \subseteq Handlers
<1>1. g.routes \in Seq(RouteSpec) /\ g.folder \in FolderVal
  BY DEF GroupSpec
<1>2. \A k \in DOMAIN g.routes : g.routes[k] \in RouteSpec
  BY <1>1
<1>3. \A k \in DOMAIN g.routes : EffectiveFolder(g, g.routes[k]) \in FolderVal
  BY <1>1, <1>2 DEF EffectiveFolder, RouteSpec
<1>4. QED
  BY <1>2, <1>3 DEF HandlersDefined, LogicsDefined, Reg, RouteSpec

(* Each action of GenGormApiFile keeps the strengthened invariant.         *)
THEOREM IInvInductive == Spec => []IInv
<1>1. Init => IInv
  <2> SUFFICES ASSUME Init PROVE IInv
    OBVIOUS
  <2>1. apiFiles \in [1..NumFiles -> Catalog]
    BY DEF Init
  <2>2. handlerFiles \in [Paths -> SUBSET Reg] /\ logicFiles \in [LogicPaths -> SUBSET Handlers]
    BY DEF Init
  <2>3. backups \subseteq Backup
    BY OldBackupsAssumption DEF Init
  <2>4. i \in 1..(NumFiles + 1)
    BY NumFilesAssumption DEF Init
  <2>5. routesVals \in Seq(Addition) /\ routesFile.additions \in Seq(Addition)
    BY DEF Init
  <2>6. mwDecl \in [Middlewares -> Nat] /\ svcFile.decl \in [Middlewares -> Nat]
    BY DEF Init
  <2>7. QED
    BY <2>1, <2>2, <2>3, <2>4, <2>5, <2>6 DEF Init, IInv, TypeOK, Pc, InLoop
<1>2. IInv /\ [Next]_vars => IInv'
  <2> SUFFICES ASSUME IInv, [Next]_vars PROVE IInv'
    OBVIOUS
  <2> USE DEF IInv, TypeOK, InLoop
  <2>0. bk \in BkType
    BY DEF BkType
  <2>1. CASE Start
    BY <2>1 DEF Start, Pc
  <2>2. CASE SkipFile
    BY <2>2, NumFilesAssumption DEF SkipFile
  <2>3. CASE CollectFile
    <3>1. i \in 1..NumFiles
      BY <2>3, NumFilesAssumption DEF CollectFile
    <3>2. GenRoutesOut(i) \in Seq(Addition)
      BY <3>1, FileType, GenRoutesOutType
    <3>3. routesVals \o GenRoutesOut(i) \in Seq(Addition)
      BY <3>2, ConcatProperties
    <3>4. routesVals' \in Seq(Addition) /\ routeTimeOut' \in BOOLEAN
      BY <2>3, <3>3 DEF CollectFile, HasTimeout
    <3>5. mwDecl' \in [Middlewares -> Nat]
      BY <2>3 DEF CollectFile
    <3>6. QED
      BY <2>3, <3>1, <3>4, <3>5 DEF CollectFile, Pc
  <2>4. CASE GenHandlers
    <3> DEFINE f == apiFiles[i]
    <3>1. i \in 1..NumFiles
      BY <2>4 DEF GenHandlers
    <3>2. \A fo \in GroupFolders(f) : HandlerText(f)[fo] \subseteq Reg
      <4>1. \A j \in DOMAIN f.groups : HandlersDefined(f.groups[j]) \subseteq Reg
        BY <3>1, FileType, DefinedType
      <4>2. QED
        BY <4>1 DEF HandlerText, LastGroupsAt
    <3>a. PICK bad \in SUBSET GroupFolders(f) : \E w \in Outcomes(HandlerText(f), bad) :
              handlerFiles' = [p \in Paths |->
                                 IF p[2] = f.name /\ p[1] \in GroupFolders(f)
                                   THEN w[p[1]] ELSE handlerFiles[p]]
      BY <2>4 DEF GenHandlers
    <3>3. PICK w \in Outcomes(HandlerText(f), bad) :
            handlerFiles' = [p \in Paths |->
                               IF p[2] = f.name /\ p[1] \in GroupFolders(f)
                                 THEN w[p[1]] ELSE handlerFiles[p]]
      BY <3>a
    <3>4. \A fo \in GroupFolders(f) : w[fo] \subseteq Reg
      BY <3>2, <3>3 DEF Outcomes, HandlerText
    <3>5. handlerFiles' \in [Paths -> SUBSET Reg]
      BY <3>3, <3>4
    <3>6. QED
      BY <2>4, <3>5 DEF GenHandlers, Pc
  <2>5. CASE GenLogics
    <3> DEFINE f == apiFiles[i]
    <3>1. i \in 1..NumFiles
      BY <2>5 DEF GenLogics
    <3>2. \A fo \in GroupFolders(f) : LogicText(f)[fo] \subseteq Handlers
      <4>1. \A j \in DOMAIN f.groups : LogicsDefined(f.groups[j]) \subseteq Handlers
        BY <3>1, FileType, DefinedType
      <4>2. QED
        BY <4>1 DEF LogicText, LastGroupsAt
    <3>a. PICK bad \in SUBSET GroupFolders(f) : \E w \in Outcomes(LogicText(f), bad) :
              /\ logicFiles' = [p \in LogicPaths |->
                                  IF p[2] = LogicBase[f.name] /\ p[1] \in GroupFolders(f)
                                    THEN w[p[1]] ELSE logicFiles[p]]
              /\ logicErrs' = {p \in LogicPaths :
                                  IF p[2] = LogicBase[f.name] /\ p[1] \in GroupFolders(f)
                                    THEN p[1] \in bad ELSE p \in logicErrs}
      BY <2>5 DEF GenLogics
    <3>3. PICK w \in Outcomes(LogicText(f), bad) :
            /\ logicFiles' = [p \in LogicPaths |->
                                IF p[2] = LogicBase[f.name] /\ p[1] \in GroupFolders(f)
                                  THEN w[p[1]] ELSE logicFiles[p]]
            /\ logicErrs' = {p \in LogicPaths :
                                IF p[2] = LogicBase[f.name] /\ p[1] \in GroupFolders(f)
                                  THEN p[1] \in bad ELSE p \in logicErrs}
      BY <3>a
    <3>4. \A fo \in GroupFolders(f) : w[fo] \subseteq Handlers
      BY <3>2, <3>3 DEF Outcomes, LogicText
    <3>5. logicFiles' \in [LogicPaths -> SUBSET Handlers] /\ logicErrs' \subseteq LogicPaths
      BY <3>3, <3>4
    <3>6. QED
      BY <2>5, <3>5 DEF GenLogics, Pc
  <2>6. CASE StartBackup
    BY <2>6 DEF StartBackup, Pc
  <2>7. CASE CopyBackup
    <3>1. bk' \in BkType
      BY <2>0, <2>7, BkExcept DEF CopyBackup
    <3>2. pc = "join" /\ i \in 1..NumFiles
      BY <2>7 DEF CopyBackup
    <3>3. apiFiles[i].name \in Names
      BY <3>2, FileType
    <3>4. backups' \subseteq Backup /\ bkErr' \in {"none", "copy", "sweep"}
      BY <2>7, <3>3 DEF CopyBackup, Backup
    <3>5. QED
      BY <2>7, <3>1, <3>2, <3>4 DEF CopyBackup, BkType
  <2>8. CASE SweepBackups
    <3>1. bk' \in BkType
      BY <2>0, <2>8, BkExcept DEF SweepBackups
    <3>2. pc = "join"
      BY <2>8 DEF SweepBackups
    <3>3. backups' \subseteq Backup /\ bkErr' \in {"none", "copy", "sweep"}
      BY <2>8 DEF SweepBackups, Expired
    <3>4. QED
      BY <2>8, <3>1, <3>2, <3>3 DEF SweepBackups, BkType
  <2>9. CASE JoinBackup
    BY <2>9 DEF JoinBackup, Pc
  <2>10. CASE FormatFile
    <3>1. i \in 1..NumFiles
      BY <2>10 DEF FormatFile
    <3>2. apiFiles[i].name \in Names
      BY <3>1, FileType
    <3>3. QED
      BY <2>10, <3>1, <3>2, NumFilesAssumption DEF FormatFile, Pc
  <2>11. CASE EndLoop
    BY <2>11 DEF EndLoop, Pc
  <2>12. CASE GenServiceContext
    BY <2>12 DEF GenServiceContext, Pc
  <2>13. CASE GenTypesFile
    BY <2>13 DEF GenTypesFile, Pc
  <2>14. CASE GenRouteFile
    BY <2>14 DEF GenRouteFile, Pc
  <2>15. CASE UNCHANGED vars
    BY <2>15 DEF vars
  <2>16. QED
    BY <2>1, <2>2, <2>3, <2>4, <2>5, <2>6, <2>7, <2>8, <2>9, <2>10, <2>11,
       <2>12, <2>13, <2>14, <2>15 DEF Next
<1>3. QED
  BY <1>1, <1>2, PTL DEF Spec

(* Every reachable state of GenGormApiFile is well typed.                  *)
THEOREM TypeCorrect == Spec => []TypeOK
  BY IInvInductive, PTL DEF IInv

-----------------------------------------------------------------------------
(* Only accepted groups of parsed files are registered.                    *)

(* Every addition of s comes from a parsed file of files and names an      *)
(* accepted group of it.                                                   *)
AddsValid(files, s) ==
    \A k \in DOMAIN s :
        /\ files[s[k].file].kind = "ok"
        /\ s[k].group \in DOMAIN files[s[k].file].groups
        /\ PolicyAccepted(files[s[k].file].groups[s[k].group])

(* The additions accumulated in routesVals and those written to routes.go. *)
RGInv == AddsValid(apiFiles, routesVals) /\ AddsValid(apiFiles, routesFile.additions)

(* The checks genRoutes makes are at least as strict as the spec's policy. *)
LEMMA PolicyOkAccepted ==
    ASSUME NEW g \in GroupSpec, GroupPolicyOk(g)
    PROVE  PolicyAccepted(g)
<1>1. g.timeout \in TimeoutVal /\ g.maxBytes \in {"none", "ok", "bad"}
  BY DEF GroupSpec
<1>2. g.timeout.kind \in {"none", "unparsable", "value"}
  BY <1>1 DEF TimeoutVal
<1>3. QED
  BY <1>1, <1>2 DEF GroupPolicyOk, PolicyAccepted

(* The additions genRoutes returns for a parsed file whose groups all pass *)
(* its checks are valid.                                                   *)
LEMMA GenRoutesOutValid ==
    ASSUME TypeOK, NEW n \in 1..NumFiles, apiFiles[n].kind = "ok",
           RoutesOk(apiFiles[n])
    PROVE  AddsValid(apiFiles, GenRoutesOut(n))
<1> DEFINE gs == apiFiles[n].groups
<1>1. gs \in Seq(GroupSpec) /\ \A j \in DOMAIN gs : gs[j] \in GroupSpec
  BY FileType
<1>2. SUFFICES ASSUME NEW k \in 1..2 * Len(gs)
               PROVE  LET a == GenRoutesOut(n)[k]
                      IN  /\ apiFiles[a.file].kind = "ok"
                          /\ a.group \in DOMAIN apiFiles[a.file].groups
                          /\ PolicyAccepted(apiFiles[a.file].groups[a.group])
  BY DEF AddsValid, GenRoutesOut
<1>3. (k + 1) \div 2 \in DOMAIN gs
  BY <1>1
<1>4. GenRoutesOut(n)[k].file = n /\ GenRoutesOut(n)[k].group = (k + 1) \div 2
  BY DEF GenRoutesOut, AdditionOf
<1>5. GroupPolicyOk(gs[(k + 1) \div 2])
  BY <1>3 DEF RoutesOk
<1>6. QED
  BY <1>1, <1>3, <1>4, <1>5, PolicyOkAccepted

(* Appending valid additions to valid additions keeps them valid.          *)
LEMMA ConcatValid ==
    ASSUME NEW files, NEW s \in Seq(Addition), NEW t \in Seq(Addition),
           AddsValid(files, s), AddsValid(files, t)
    PROVE  AddsValid(files, s \o t)
<1>1. /\ Len(s \o t) = Len(s) + Len(t)
      /\ \A k \in 1..Len(s) + Len(t) :
            (s \o t)[k] = IF k <= Len(s) THEN s[k] ELSE t[k - Len(s)]
  BY ConcatProperties
<1>2. QED
  BY <1>1 DEF AddsValid

(* Every server.AddRoutes block written to routes.go names an accepted     *)
(* group of a parsed file, whatever the files before it did.               *)
THEOREM RegisteredGroupsProved == Spec => []RegisteredGroupsValid
<1>1. Init => RGInv
  BY DEF Init, RGInv, AddsValid
<1>2. IInv /\ RGInv /\ [Next]_vars => RGInv'
  <2> SUFFICES ASSUME IInv, RGInv, [Next]_vars PROVE RGInv'
    OBVIOUS
  <2>1. CASE CollectFile
    <3>1. i \in 1..NumFiles /\ apiFiles[i].kind = "ok"
      BY <2>1, NumFilesAssumption DEF CollectFile, IInv, TypeOK
    <3>2. UNCHANGED <<apiFiles, routesFile>>
      BY <2>1 DEF CollectFile
    <3>3. CASE RoutesOk(apiFiles[i])
      <4>1. AddsValid(apiFiles, GenRoutesOut(i))
        BY <3>1, <3>3, GenRoutesOutValid DEF IInv
      <4>2. GenRoutesOut(i) \in Seq(Addition)
        BY <3>1, FileType, GenRoutesOutType DEF IInv
      <4>3. AddsValid(apiFiles, routesVals \o GenRoutesOut(i))
        BY <4>1, <4>2, ConcatValid DEF IInv, TypeOK, RGInv
      <4>4. QED
        BY <2>1, <3>2, <3>3, <4>3 DEF CollectFile, RGInv
    <3>4. CASE ~RoutesOk(apiFiles[i])
      BY <2>1, <3>2, <3>4 DEF CollectFile, RGInv
    <3>5. QED
      BY <3>3, <3>4
  <2>2. CASE GenRouteFile
    BY <2>2 DEF GenRouteFile, RGInv
  <2>3. CASE ~CollectFile /\ ~GenRouteFile
    <3>1. UNCHANGED <<apiFiles, routesVals, routesFile>>
      BY <2>3 DEF Next, vars, Start, SkipFile, GenHandlers, GenLogics,
                  StartBackup, CopyBackup, SweepBackups, JoinBackup,
                  FormatFile, EndLoop, GenServiceContext, GenTypesFile
    <3>2. QED
      BY <3>1 DEF RGInv
  <2>4. QED
    BY <2>1, <2>2, <2>3
<1>3. RGInv => RegisteredGroupsValid
  BY DEF RGInv, AddsValid, RegisteredGroupsValid
<1>4. QED
  BY <1>1, <1>2, <1>3, IInvInductive, PTL DEF Spec

-----------------------------------------------------------------------------
(* backupAndSweep never loses the copy's error.                            *)

(* A failed copy has left its error in the shared err: the sweep goroutine *)
(* only ever overwrites it with another error.                             *)
ErrInv == bk.copy = "fail" => bkErr # "none"

(* What setting one goroutine's state does to the two fields.              *)
LEMMA BkFields ==
    ASSUME NEW b \in BkType, NEW v
    PROVE  /\ [b EXCEPT !.copy = v].copy = v
           /\ [b EXCEPT !.sweep = v].copy = b.copy
  BY Zenon DEF BkType

(* Every step keeps the failed copy's error in the shared err.            *)
LEMMA ErrStep == IInv /\ ErrInv /\ [Next]_vars => ErrInv'
<1> SUFFICES ASSUME IInv, ErrInv, [Next]_vars PROVE ErrInv'
  OBVIOUS
<1>0. bk \in BkType
  BY DEF IInv, TypeOK, BkType
<1>1. CASE CopyBackup
  <2>1. CASE bk' = [bk EXCEPT !.copy = "ok"] /\ UNCHANGED bkErr
    BY <1>0, <2>1, BkFields DEF ErrInv
  <2>2. CASE bk' = [bk EXCEPT !.copy = "fail"] /\ bkErr' = "copy"
    BY <2>2 DEF ErrInv
  <2>3. QED
    BY <1>1, <2>1, <2>2 DEF CopyBackup
<1>2. CASE SweepBackups
  <2>1. bk' = [bk EXCEPT !.sweep = "ok"] \/ bk' = [bk EXCEPT !.sweep = "fail"]
    BY <1>2 DEF SweepBackups
  <2>2. bk'.copy = bk.copy
    <3>1. CASE bk' = [bk EXCEPT !.sweep = "ok"]
      BY <1>0, <3>1, BkFields
    <3>2. CASE bk' = [bk EXCEPT !.sweep = "fail"]
      BY <1>0, <3>2, BkFields
    <3>3. QED
      BY <2>1, <3>1, <3>2
  <2>3. bkErr' \in {bkErr, "sweep"}
    BY <1>2 DEF SweepBackups
  <2>4. QED
    BY <2>2, <2>3 DEF ErrInv
<1>3. CASE StartBackup \/ JoinBackup
  BY <1>3 DEF StartBackup, JoinBackup, ErrInv
<1>4. CASE ~CopyBackup /\ ~SweepBackups /\ ~StartBackup /\ ~JoinBackup
  <2>1. UNCHANGED <<bk, bkErr>>
    BY <1>4 DEF Next, vars, Start, SkipFile, CollectFile, GenHandlers,
                GenLogics, FormatFile, EndLoop, GenServiceContext,
                GenTypesFile, GenRouteFile
  <2>2. QED
    BY <2>1 DEF ErrInv
<1>5. QED
  BY <1>1, <1>2, <1>3, <1>4

(* Once the goroutines are joined, a failed copy ends GenGormApiFile:      *)
(* the file is never reformatted after its backup failed.                  *)
THEOREM CopyFailureAbortsProved == Spec => CopyFailureAborts
<1>1. Init => ErrInv
  BY DEF Init, ErrInv
<1>2. IInv /\ ErrInv /\ [Next]_vars => ErrInv'
  BY ErrStep
<1>3. ErrInv /\ [Next]_vars =>
        [(pc = "join" /\ pc' # "join" /\ bk.copy = "fail") => pc' = "aborted"]_vars
  <2> SUFFICES ASSUME ErrInv, [Next]_vars,
                      pc = "join", pc' # "join", bk.copy = "fail"
               PROVE  pc' = "aborted"
    OBVIOUS
  <2>1. JoinBackup
    BY DEF Next, vars, Start, SkipFile, CollectFile, GenHandlers, GenLogics,
           StartBackup, CopyBackup, SweepBackups, FormatFile, EndLoop,
           GenServiceContext, GenTypesFile, GenRouteFile
  <2>2. QED
    BY <2>1 DEF JoinBackup, ErrInv
<1>4. QED
  BY <1>1, <1>2, <1>3, IInvInductive, PTL DEF Spec, CopyFailureAborts

-----------------------------------------------------------------------------
(* A reformatted file keeps its backup.                                    *)

(* The backup the copy goroutine takes of the current file.                *)
Mine == [file |-> apiFiles[i].name, age |-> 0]

(* sweep removes only backups older than KeepDays, so never one just made. *)
LEMMA SweepKeepsFresh ==
    ASSUME NEW bs, NEW removed \in SUBSET Expired(bs), NEW n,
           [file |-> n, age |-> 0] \in bs
    PROVE  [file |-> n, age |-> 0] \in bs \ removed
  BY KeepDaysAssumption DEF Expired

(* The strengthening of BackupRetained: a copy that succeeded has put the  *)
(* current file's backup in tmpDir, and so has every backupAndSweep after  *)
(* which the file is reformatted.                                          *)
BRInv ==
    /\ BackupRetained
    /\ bk.copy = "ok" => Mine \in backups
    /\ pc = "format" => Mine \in backups

(* Each step keeps BRInv, given the failed copy's error in err.           *)
LEMMA BRStep == IInv /\ ErrInv /\ BRInv /\ [Next]_vars => BRInv'
<1> SUFFICES ASSUME IInv, ErrInv, BRInv, [Next]_vars PROVE BRInv'
  OBVIOUS
<1>0. bk \in BkType
  BY DEF IInv, TypeOK, BkType
<1>1. CASE CopyBackup
  <2>1. UNCHANGED <<apiFiles, i, pc, formatted>> /\ backups \subseteq backups'
    BY <1>1 DEF CopyBackup
  <2>2. bk'.copy = "ok" => Mine' \in backups'
    BY <1>1, <1>0, BkFields DEF CopyBackup, Mine
  <2>3. QED
    BY <2>1, <2>2 DEF BRInv, BackupRetained, Mine
<1>2. CASE SweepBackups
  <2>1. PICK removed \in SUBSET Expired(backups) : backups' = backups \ removed
    BY <1>2 DEF SweepBackups
  <2>2. bk'.copy = bk.copy
    <3>1. bk' = [bk EXCEPT !.sweep = "ok"] \/ bk' = [bk EXCEPT !.sweep = "fail"]
      BY <1>2 DEF SweepBackups
    <3>2. CASE bk' = [bk EXCEPT !.sweep = "ok"]
      BY <1>0, <3>2, BkFields
    <3>3. CASE bk' = [bk EXCEPT !.sweep = "fail"]
      BY <1>0, <3>3, BkFields
    <3>4. QED
      BY <3>1, <3>2, <3>3
  <2>3. UNCHANGED <<apiFiles, i, pc, formatted>>
    BY <1>2 DEF SweepBackups
  <2>4. QED
    BY <2>1, <2>2, <2>3, SweepKeepsFresh DEF BRInv, BackupRetained, Mine
<1>3. CASE StartBackup
  BY <1>3 DEF StartBackup, BRInv, BackupRetained, Mine
<1>4. CASE JoinBackup
  <2>1. pc' = "format" => bk.copy = "ok"
    BY <1>4 DEF JoinBackup, ErrInv
  <2>2. bk'.copy = "idle" /\ UNCHANGED <<apiFiles, i, backups, formatted>>
    BY <1>4 DEF JoinBackup
  <2>3. QED
    BY <2>1, <2>2 DEF BRInv, BackupRetained, Mine
<1>5. CASE FormatFile
  <2>1. pc = "format" /\ bk.copy = "idle"
    BY <1>5 DEF FormatFile, IInv
  <2>2. CASE formatted' = formatted \cup {apiFiles[i].name} /\ pc' = "next"
    BY <1>5, <2>1, <2>2 DEF FormatFile, BRInv, BackupRetained, Mine
  <2>3. CASE pc' = "aborted" /\ UNCHANGED <<formatted, i>>
    BY <1>5, <2>1, <2>3 DEF FormatFile, BRInv, BackupRetained, Mine
  <2>4. QED
    BY <1>5, <2>2, <2>3 DEF FormatFile
<1>6. CASE Start \/ SkipFile \/ CollectFile \/ GenHandlers \/ GenLogics
           \/ EndLoop \/ GenServiceContext \/ GenTypesFile \/ GenRouteFile
  <2>1. UNCHANGED <<bk, backups, formatted, apiFiles>> /\ pc # "join"
        /\ pc # "format" /\ pc' # "format"
    BY <1>6 DEF Start, SkipFile, CollectFile, GenHandlers, GenLogics, EndLoop,
                GenServiceContext, GenTypesFile, GenRouteFile
  <2>2. bk.copy = "idle"
    BY <2>1 DEF IInv
  <2>3. QED
    BY <2>1, <2>2 DEF BRInv, BackupRetained
<1>7. CASE UNCHANGED vars
  BY <1>7 DEF vars, BRInv, BackupRetained, Mine
<1>8. QED
  BY <1>1, <1>2, <1>3, <1>4, <1>5, <1>6, <1>7 DEF Next

(* The sweeps that run beside the backups of later files remove only       *)
(* backups older than KeepDays, and a file is reformatted only after its   *)
(* own backup was copied: every file GenGormApiFile has reformatted keeps  *)
(* the backup taken in this run.                                           *)
THEOREM BackupRetainedProved == Spec => []BackupRetained
<1>1. Init => ErrInv /\ BRInv
  BY DEF Init, ErrInv, BRInv, BackupRetained
<1>2. QED
  BY <1>1, ErrStep, BRStep, IInvInductive, PTL DEF Spec, BRInv

-----------------------------------------------------------------------------
(* Handler and logic files stay paired.                                    *)

(* No route of the catalogue overrides its group's folder: its "group"     *)
(* annotation is absent or names the group's own folder.                   *)
NoOverride ==
    \A f \in Catalog : \A j \in DOMAIN f.groups : \A k \in DOMAIN f.groups[j].routes :
        f.groups[j].routes[k].folder \in {NoFolder, f.groups[j].folder}

(* The handlers genHandlers writes for folder fo of file f.                *)
HandlersAt(f, fo) == UNION {HandlersDefined(f.groups[j]) : j \in LastGroupsAt(f, fo)}

(* The logic functions genLogics writes for folder fo of file f.           *)
LogicsAt(f, fo) == UNION {LogicsDefined(f.groups[j]) : j \in LastGroupsAt(f, fo)}

(* Without a route override, a handler genHandlers writes for folder fo    *)
(* names fo and has its function among those genLogics writes there.       *)
LEMMA HandlersAtPaired ==
    ASSUME NoOverride, NEW f \in Catalog, NEW fo, NEW r \in HandlersAt(f, fo)
    PROVE  r.folder = fo /\ r.handler \in LogicsAt(f, fo)
<1>1. PICK j \in LastGroupsAt(f, fo) : r \in HandlersDefined(f.groups[j])
  BY DEF HandlersAt
<1>2. PICK k \in DOMAIN f.groups[j].routes :
        r = [folder |-> EffectiveFolder(f.groups[j], f.groups[j].routes[k]),
             handler |-> f.groups[j].routes[k].handler]
  BY <1>1 DEF HandlersDefined
<1>3. j \in DOMAIN f.groups /\ f.groups[j].folder = fo
  BY <1>1 DEF LastGroupsAt
<1>4. f.groups[j].routes[k].folder \in {NoFolder, fo}
  BY <1>3 DEF NoOverride
<1>5. r.folder = fo
  BY <1>2, <1>3, <1>4 DEF EffectiveFolder
<1>6. r.handler \in LogicsDefined(f.groups[j])
  BY <1>2 DEF LogicsDefined
<1>7. QED
  BY <1>1, <1>5, <1>6 DEF LogicsAt

(* The handler file at p is paired unless its logic file is reported       *)
(* failed: each handler names p's folder and its function is in the logic  *)
(* file of that folder and .api file.                                      *)
Paired(p) ==
    \A r \in handlerFiles[p] :
        <<p[1], LogicBase[p[2]]>> \notin logicErrs =>
            r.folder = p[1] /\ r.handler \in logicFiles[<<p[1], LogicBase[p[2]]>>]

(* Between genHandlers and genLogics: p is a handler file of the current   *)
(* file, just rewritten, whose logic file is not yet.                      *)
Fresh(p) == pc = "logics" /\ p[2] = apiFiles[i].name /\ p[1] \in GroupFolders(apiFiles[i])

(* The strengthening of LogicsPaired: every handler file but the fresh    *)
(* ones is paired, and the fresh ones hold part of what genHandlers wrote. *)
LPInv ==
    /\ \A p \in Paths : ~Fresh(p) => Paired(p)
    /\ pc = "logics" =>
          \A fo \in GroupFolders(apiFiles[i]) :
              handlerFiles[<<fo, apiFiles[i].name>>] \subseteq HandlersAt(apiFiles[i], fo)

(* When no route overrides its group's folder and no two .api files share  *)
(* a Logic name, genHandlers and genLogics write the handler and the logic *)
(* file of a folder from the same groups (LastGroupsAt), whichever of      *)
(* their writes fail part way, and a later file rewrites only its own      *)
(* pair: outside the step between them, every handler of a handler file    *)
(* names its folder and has its function in the logic file of the same     *)
(* folder and .api file, unless genLogics reported that file failed.       *)
(* Without the first hypothesis the route override of genhandlers.go:42-48 *)
(* breaks it (run api_routefolder); without the second a later file        *)
(* rewrites an earlier file's logic (the hazard at utils.go:43).           *)
THEOREM LogicsPairedProved ==
    ASSUME NoOverride,
           \A a, b \in Names : LogicBase[a] = LogicBase[b] => a = b
    PROVE  Spec => []LogicsPaired
<1>1. Init => LPInv
  BY DEF Init, LPInv, Paired, Fresh
<1>2. IInv /\ LPInv /\ [Next]_vars => LPInv'
  <2> SUFFICES ASSUME IInv, LPInv, [Next]_vars PROVE LPInv'
    OBVIOUS
  <2>1. CASE GenHandlers
    <3> DEFINE f == apiFiles[i]
    <3>0. i \in 1..NumFiles /\ TypeOK
      BY <2>1 DEF GenHandlers, IInv, InLoop
    <3>1. f.name \in Names /\ GroupFolders(f) \subseteq FolderVal
      BY <3>0, FileType DEF GroupFolders, GroupSpec
    <3>2. /\ pc = "handlers" /\ pc' = "logics"
          /\ UNCHANGED <<apiFiles, i, logicFiles, logicErrs>>
      BY <2>1 DEF GenHandlers
    <3>a. PICK bad \in SUBSET GroupFolders(f) : \E w \in Outcomes(HandlerText(f), bad) :
              handlerFiles' = [p \in Paths |->
                                 IF p[2] = f.name /\ p[1] \in GroupFolders(f)
                                   THEN w[p[1]] ELSE handlerFiles[p]]
      BY <2>1 DEF GenHandlers
    <3>3. PICK w \in Outcomes(HandlerText(f), bad) :
            handlerFiles' = [p \in Paths |->
                               IF p[2] = f.name /\ p[1] \in GroupFolders(f)
                                 THEN w[p[1]] ELSE handlerFiles[p]]
      BY <3>a
    <3>4. \A fo \in GroupFolders(f) : w[fo] \subseteq HandlersAt(f, fo)
      BY <3>3 DEF Outcomes, HandlerText, HandlersAt
    <3>5. \A p \in Paths : ~Fresh(p)' => Paired(p)'
      BY <3>2, <3>3 DEF LPInv, Fresh, Paired
    <3>6. \A fo \in GroupFolders(f) : <<fo, f.name>> \in Paths
      BY <3>1 DEF Paths
    <3>7. QED
      BY <3>2, <3>3, <3>4, <3>5, <3>6 DEF LPInv
  <2>2. CASE GenLogics
    <3> DEFINE f == apiFiles[i]
    <3>0. i \in 1..NumFiles /\ TypeOK
      BY <2>2 DEF GenLogics, IInv, InLoop
    <3>1. f \in Catalog /\ f.name \in Names
      BY <3>0, FileType DEF TypeOK
    <3>2. /\ pc = "logics" /\ pc' = "backup"
          /\ UNCHANGED <<apiFiles, i, handlerFiles>>
      BY <2>2 DEF GenLogics
    <3>a. PICK bad \in SUBSET GroupFolders(f) : \E w \in Outcomes(LogicText(f), bad) :
              /\ logicFiles' = [q \in LogicPaths |->
                                  IF q[2] = LogicBase[f.name] /\ q[1] \in GroupFolders(f)
                                    THEN w[q[1]] ELSE logicFiles[q]]
              /\ logicErrs' = {q \in LogicPaths :
                                  IF q[2] = LogicBase[f.name] /\ q[1] \in GroupFolders(f)
                                    THEN q[1] \in bad ELSE q \in logicErrs}
      BY <2>2 DEF GenLogics
    <3>3. PICK w \in Outcomes(LogicText(f), bad) :
            /\ logicFiles' = [q \in LogicPaths |->
                                IF q[2] = LogicBase[f.name] /\ q[1] \in GroupFolders(f)
                                  THEN w[q[1]] ELSE logicFiles[q]]
            /\ logicErrs' = {q \in LogicPaths :
                                IF q[2] = LogicBase[f.name] /\ q[1] \in GroupFolders(f)
                                  THEN q[1] \in bad ELSE q \in logicErrs}
      BY <3>a
    <3>4. ASSUME NEW p \in Paths PROVE Paired(p)'
      <4> DEFINE lp == <<p[1], LogicBase[p[2]]>>
      <4>1. lp \in LogicPaths
        BY LogicBaseAssumption DEF Paths, LogicPaths
      <4>2. CASE Fresh(p)
        <5>1. p = <<p[1], f.name>> /\ p[1] \in GroupFolders(f)
          BY <4>2 DEF Paths, Fresh
        <5>2. handlerFiles'[p] \subseteq HandlersAt(f, p[1])
          BY <3>2, <4>2, <5>1 DEF LPInv, Fresh
        <5>3. lp \notin logicErrs' => logicFiles'[lp] = LogicsAt(f, p[1])
          <6>1. lp \notin logicErrs' => p[1] \notin bad
            BY <3>3, <4>1, <5>1
          <6>2. p[1] \notin bad => w[p[1]] = LogicText(f)[p[1]]
            BY <3>3, <5>1 DEF Outcomes, LogicText
          <6>3. QED
            BY <3>3, <4>1, <5>1, <6>1, <6>2 DEF LogicText, LogicsAt
        <5>4. QED
          BY <3>1, <5>2, <5>3, HandlersAtPaired DEF Paired
      <4>3. CASE ~Fresh(p)
        <5>1. Paired(p)
          BY <4>3 DEF LPInv
        <5>2. ~(LogicBase[p[2]] = LogicBase[f.name] /\ p[1] \in GroupFolders(f))
          BY <3>1, <3>2, <4>3 DEF Fresh, Paths
        <5>3. logicFiles'[lp] = logicFiles[lp] /\ (lp \in logicErrs' <=> lp \in logicErrs)
          BY <3>3, <4>1, <5>2
        <5>4. QED
          BY <3>2, <5>1, <5>3 DEF Paired
      <4>4. QED
        BY <4>2, <4>3
    <3>5. QED
      BY <3>2, <3>4 DEF LPInv, Fresh
  <2>3. CASE CopyBackup \/ SweepBackups
    <3>1. UNCHANGED <<pc, i, apiFiles, handlerFiles, logicFiles, logicErrs>>
      BY <2>3 DEF CopyBackup, SweepBackups
    <3>2. QED
      BY <3>1 DEF LPInv, Fresh, Paired
  <2>4. CASE Start \/ SkipFile \/ CollectFile \/ StartBackup \/ JoinBackup
             \/ FormatFile \/ EndLoop \/ GenServiceContext \/ GenTypesFile
             \/ GenRouteFile
    <3>1. /\ UNCHANGED <<handlerFiles, logicFiles, logicErrs>>
          /\ pc # "logics" /\ pc' # "logics"
      BY <2>4 DEF Start, SkipFile, CollectFile, StartBackup, JoinBackup,
                  FormatFile, EndLoop, GenServiceContext, GenTypesFile,
                  GenRouteFile
    <3>2. QED
      BY <3>1 DEF LPInv, Fresh, Paired
  <2>5. CASE UNCHANGED vars
    BY <2>5 DEF vars, LPInv, Fresh, Paired
  <2>6. QED
    BY <2>1, <2>2, <2>3, <2>4, <2>5 DEF Next
<1>3. LPInv => LogicsPaired
  BY DEF LPInv, Fresh, Paired, LogicsPaired
<1>4. QED
  BY <1>1, <1>2, <1>3, IInvInductive, PTL DEF Spec

=============================================================================
