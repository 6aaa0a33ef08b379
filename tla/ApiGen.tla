------------------------------- MODULE ApiGen -------------------------------
(***************************************************************************)
(* API-mode generation of goctl's gorm generator: GenGormApiFile           *)
(* (tools/goctl/api/gogen/gorm/gen.go) walking the .api files of a         *)
(* directory one after the other.  For every file it parses and validates  *)
(* it, accumulates the service-context middleware and the route additions  *)
(* (getRoutes / genRoutes, genroutes.go), rewrites the handler and logic   *)
(* files of every group (genHandlers, genLogics), backs the file up while  *)
(* a concurrent sweep removes stale backups (backupAndSweep / sweep,       *)
(* utils.go), and reformats the file in place.  After the loop it writes   *)
(* the three aggregate files: service context, types and routes.           *)
(*                                                                         *)
(* Data is abstract: names, folders, handlers and middleware are model     *)
(* values; an annotation is its parsed meaning (a timeout is its duration  *)
(* in nanoseconds or "unparsable"); a generated file is the set of symbols *)
(* it defines or registers, not its text.                                  *)
(***************************************************************************)
EXTENDS Naturals, Sequences, FiniteSets, Functions

CONSTANTS
    Names,        \* base names of the .api files the directory can hold
    Folders,      \* values a "group" annotation can take
    NoFolder,     \* the absent "group" annotation
    Handlers,     \* handler base names declared by routes
    Middlewares,  \* middleware names (after trimming)
    Catalog,      \* the .api files the directory can hold, as records
    NumFiles,     \* number of files in the directory
    KeepDays,     \* sweep removes backups strictly older than this (7)
    OldBackups,   \* backups already in tmpDir: records [file, age in days]
    LogicNames,   \* logic file base names
    LogicBase     \* .api name -> logic file base name (genLogics' Logic field)

(* time.Millisecond, in the nanoseconds time.ParseDuration returns.        *)
Millisecond == 1000000

FolderVal == Folders \cup {NoFolder}
(* A timeout annotation: absent, rejected by time.ParseDuration, or the    *)
(* duration it parses to, in nanoseconds.                                  *)
TimeoutVal == [kind : {"none", "unparsable", "value"}, ns : Nat]
RouteSpec == [handler : Handlers, folder : FolderVal]
MwEntry == [name : Middlewares, pad : BOOLEAN]
GroupSpec == [folder : FolderVal, timeout : TimeoutVal,
              maxBytes : {"none", "ok", "bad"},
              mw : Seq(MwEntry), routes : Seq(RouteSpec)]
FileKind == {"all", "unparsable", "invalid", "ok"}
ApiFileSpec == [name : Names, kind : FileKind, groups : Seq(GroupSpec)]
Backup == [file : Names, age : Nat]

ASSUME NumFilesAssumption == NumFiles \in Nat \ {0}
ASSUME KeepDaysAssumption == KeepDays \in Nat
ASSUME CatalogAssumption == Catalog \subseteq ApiFileSpec
ASSUME OldBackupsAssumption == OldBackups \subseteq Backup
ASSUME NoFolderAssumption == NoFolder \notin Folders
ASSUME LogicBaseAssumption == LogicBase \in [Names -> LogicNames]

(* A route the routes file registers: the handler symbol and the handler   *)
(* package it is looked up in.                                             *)
Reg == [folder : FolderVal, handler : Handlers]
(* A middleware reference of a route addition: its raw entry and the       *)
(* number of "serverCtx." qualifiers written in front of it.               *)
MwRef == [name : Middlewares, pad : BOOLEAN, qual : Nat]
(* One server.AddRoutes(...) block of the routes file.                     *)
Addition == [file : 1..NumFiles, group : Nat, routes : SUBSET Reg,
             timeout : BOOLEAN, mw : Seq(MwRef)]

(* Handler files are named after the .api file, logic files after the     *)
(* Logic field genLogics derives from it.                                  *)
Paths == FolderVal \X Names
LogicPaths == FolderVal \X LogicNames

VARIABLES
    apiFiles,      \* the files of the directory, in getAllFile order
    pc,            \* where GenGormApiFile is
    i,             \* index of the file the loop is at
    routesVals,    \* route additions accumulated so far
    routeTimeOut,  \* the routeTimeOut flag
    mwDecl,        \* middleware -> times it is declared in middlewareStr
    handlerFiles,  \* handler file at <<folder, name>> -> handlers it defines
    logicFiles,    \* logic file at <<folder, name>> -> functions it defines
    logicErrs,     \* logic files whose last write genLogics reported failed
    bk,            \* the two goroutines of backupAndSweep
    bkErr,         \* the shared err variable of backupAndSweep
    backups,       \* backups in tmpDir
    formatted,     \* files ApiFormatByPath has rewritten
    svcFile,       \* service context: written?, middleware declarations
    typesWritten,  \* whether the types file has been written
    routesFile     \* routes file: written?, hasTimeout, its additions

vars == <<apiFiles, pc, i, routesVals, routeTimeOut, mwDecl, handlerFiles,
          logicFiles, logicErrs, bk, bkErr, backups, formatted, svcFile,
          typesWritten, routesFile>>

Pc == {"start", "next", "handlers", "logics", "backup", "join", "format",
       "svc", "types", "routeFile", "done", "aborted"}

-----------------------------------------------------------------------------
(* getRoutes / genRoutes                                                   *)

(* The folder a route's handler is registered under: the route's own       *)
(* "group" annotation, else the group's.                                   *)
EffectiveFolder(g, r) == IF r.folder # NoFolder THEN r.folder ELSE g.folder

GroupRegs(g) == {[folder |-> EffectiveFolder(g, r), handler |-> r.handler] :
                   r \in Range(g.routes)}

(* Mutant: the timeoutThreshold comparison dropped.                      *)
GroupPolicyOkNoThreshold(g) ==
    /\ g.timeout.kind # "unparsable"
    /\ g.maxBytes # "bad"

(* The checks genRoutes makes of a group: the timeout parses and is at     *)
(* least one millisecond, maxBytes parses as an integer.                   *)
GroupPolicyOk(g) ==
    /\ g.timeout.kind # "unparsable"
    /\ g.timeout.kind = "value" => g.timeout.ns >= Millisecond
    /\ g.maxBytes # "bad"

(* genRoutes fails on the first group that fails its checks, and the       *)
(* caller then drops every addition of the file.                           *)
RoutesOk(f) == \A j \in DOMAIN f.groups : GroupPolicyOk(f.groups[j])

(* The middleware slice of a group with its entries qualified q times.     *)
Qualified(g, q) == [k \in DOMAIN g.mw |-> [name |-> g.mw[k].name,
                                            pad |-> g.mw[k].pad, qual |-> q]]

AdditionOf(n, j, q) ==
    LET g == apiFiles[n].groups[j]
    IN  [file |-> n, group |-> j, routes |-> GroupRegs(g),
         timeout |-> g.timeout.kind = "value", mw |-> Qualified(g, q)]

(* getRoutes appends every group twice; both copies share one middleware   *)
(* slice, which genRoutes qualifies in place on each pass, so the first    *)
(* copy is emitted with one qualifier and the second with two.             *)
GenRoutesOut(n) ==
    [k \in 1..2 * Len(apiFiles[n].groups) |->
        AdditionOf(n, (k + 1) \div 2, 2 - (k % 2))]

HasTimeout(n) ==
    \E j \in DOMAIN apiFiles[n].groups : apiFiles[n].groups[j].timeout.kind = "value"

(* getMiddleware: the trimmed middleware of all groups, without repeats.   *)
FileMiddlewares(f) ==
    UNION {{e.name : e \in Range(f.groups[j].mw)} : j \in DOMAIN f.groups}

-----------------------------------------------------------------------------
(* genHandlers / genLogics: one file per group, in the group's folder,     *)
(* named after the .api file; a later group with the same folder rewrites  *)
(* the file of an earlier one.                                             *)

(* The folders getHandlerPath / getLogicPath put the files of f's groups  *)
(* in.                                                                     *)
GroupFolders(f) == {f.groups[j].folder : j \in DOMAIN f.groups}

(* The groups of f whose file in folder fo no later group of f rewrites:   *)
(* the last one of those writing there, if any.                            *)
LastGroupsAt(f, fo) ==
    {j \in DOMAIN f.groups :
        /\ f.groups[j].folder = fo
        /\ \A k \in DOMAIN f.groups : f.groups[k].folder = fo => k <= j}

(* The handlers a group's handler file defines, each with the logic       *)
(* package genHandler makes it call: the last element of                   *)
(* getHandlerFolderPath(group, route), that is the route's own folder when *)
(* it has one.  The file itself lives in, and imports the logic package   *)
(* of, the group's folder (getHandlerPath, genImportPackages).             *)
HandlersDefined(g) ==
    {[folder |-> EffectiveFolder(g, g.routes[k]), handler |-> g.routes[k].handler] :
        k \in DOMAIN g.routes}

LogicsDefined(g) == {g.routes[k].handler : k \in DOMAIN g.routes}

(* What genFile leaves in the file of folder fo: the text of the last     *)
(* group writing there (MaybeCreateFile removed the earlier one) or, when  *)
(* it fails, part of it: nothing when CreateIfNotExist, the template or    *)
(* Execute fails, a prefix when WriteString does.                          *)
Outcomes(text, bad) ==
    {w \in [DOMAIN text -> SUBSET UNION Range(text)] :
        \A fo \in DOMAIN text :
            IF fo \in bad THEN w[fo] \subseteq text[fo] ELSE w[fo] = text[fo]}

HandlerText(f) ==
    [fo \in GroupFolders(f) |->
        UNION {HandlersDefined(f.groups[j]) : j \in LastGroupsAt(f, fo)}]

LogicText(f) ==
    [fo \in GroupFolders(f) |->
        UNION {LogicsDefined(f.groups[j]) : j \in LastGroupsAt(f, fo)}]

-----------------------------------------------------------------------------
(* sweep                                                                   *)

(* Mutant: the tm.Before(keepTime) test dropped.                          *)
ExpiredAll(bs) == bs

Expired(bs) == {b \in bs : b.age > KeepDays}

-----------------------------------------------------------------------------

Init ==
    /\ apiFiles \in {fs \in [1..NumFiles -> Catalog] :
                        \A a, b \in 1..NumFiles : fs[a].name = fs[b].name => a = b}
    /\ pc = "start"
    /\ i = 1
    /\ routesVals = <<>>
    /\ routeTimeOut = FALSE
    /\ mwDecl = [m \in Middlewares |-> 0]
    /\ handlerFiles = [p \in Paths |-> {}]
    /\ logicFiles = [p \in LogicPaths |-> {}]
    /\ logicErrs = {}
    /\ bk = [copy |-> "idle", sweep |-> "idle"]
    /\ bkErr = "none"
    /\ backups = OldBackups
    /\ formatted = {}
    /\ svcFile = [written |-> FALSE, decl |-> [m \in Middlewares |-> 0]]
    /\ typesWritten = FALSE
    /\ routesFile = [written |-> FALSE, hasTimeout |-> FALSE, additions |-> <<>>]

(* config.NewConfig: an unknown naming style ends the run before any file. *)
Start ==
    /\ pc = "start"
    /\ \E namingOk \in BOOLEAN : pc' = IF namingOk THEN "next" ELSE "aborted"
    /\ UNCHANGED <<apiFiles, i, routesVals, routeTimeOut, mwDecl, handlerFiles,
                   logicFiles, logicErrs, bk, bkErr, backups, formatted, svcFile,
                   typesWritten, routesFile>>

(* Mutant: the skip path advances past the following file as well.       *)
SkipFileTwice ==
    /\ pc = "next"
    /\ i <= NumFiles
    /\ apiFiles[i].kind \in {"all", "unparsable", "invalid"}
    /\ i' = i + 2
    /\ UNCHANGED <<apiFiles, pc, routesVals, routeTimeOut, mwDecl, handlerFiles,
                   logicFiles, logicErrs, bk, bkErr, backups, formatted, svcFile,
                   typesWritten, routesFile>>

(* all.api is skipped; a file that does not parse or validate is reported  *)
(* and skipped.                                                            *)
SkipFile ==
    /\ pc = "next"
    /\ i <= NumFiles
    /\ apiFiles[i].kind \in {"all", "unparsable", "invalid"}
    /\ i' = i + 1
    /\ UNCHANGED <<apiFiles, pc, routesVals, routeTimeOut, mwDecl, handlerFiles,
                   logicFiles, logicErrs, bk, bkErr, backups, formatted, svcFile,
                   typesWritten, routesFile>>

(* getMiddleWares, genTypes and genRoutes for a parsed file.  The route    *)
(* additions and routeTimeOut are taken only when genRoutes succeeds, and  *)
(* routeTimeOut is then overwritten with this file's flag.                 *)
CollectFile ==
    /\ pc = "next"
    /\ i <= NumFiles
    /\ apiFiles[i].kind = "ok"
    /\ mwDecl' = [m \in Middlewares |->
                    IF m \in FileMiddlewares(apiFiles[i]) THEN mwDecl[m] + 1
                                                         ELSE mwDecl[m]]
    /\ IF RoutesOk(apiFiles[i])
         THEN /\ routesVals' = routesVals \o GenRoutesOut(i)
              /\ routeTimeOut' = HasTimeout(i)
         ELSE UNCHANGED <<routesVals, routeTimeOut>>
    /\ pc' = "handlers"
    /\ UNCHANGED <<apiFiles, i, handlerFiles, logicFiles, logicErrs, bk, bkErr, backups,
                   formatted, svcFile, typesWritten, routesFile>>

(* genHandlers: doGenToFile writes one file per group through genFile,    *)
(* whose MaybeCreateFile removes the file if it exists.  A failure is      *)
(* printed and the loop goes on with the next group.                       *)
GenHandlers ==
    /\ pc = "handlers"
    /\ LET f == apiFiles[i]
       IN  \E bad \in SUBSET GroupFolders(f) :
           \E w \in Outcomes(HandlerText(f), bad) :
             handlerFiles' =
               [p \in Paths |->
                  IF p[2] = f.name /\ p[1] \in GroupFolders(f)
                    THEN w[p[1]] ELSE handlerFiles[p]]
    /\ pc' = "logics"
    /\ UNCHANGED <<apiFiles, i, routesVals, routeTimeOut, mwDecl, logicFiles,
                   logicErrs, bk, bkErr, backups, formatted, svcFile,
                   typesWritten, routesFile>>

(* Mutant: the existing file is not removed, so CreateIfNotExist fails and *)
(* the first group's logic file is kept.                                  *)
GenLogicsKeepFirst ==
    /\ pc = "logics"
    /\ LET f == apiFiles[i]
           first(fo) == {j \in DOMAIN f.groups :
                           /\ f.groups[j].folder = fo
                           /\ \A k \in DOMAIN f.groups : f.groups[k].folder = fo => j <= k}
           text == [fo \in GroupFolders(f) |->
                      UNION {LogicsDefined(f.groups[j]) : j \in first(fo)}]
       IN  \E bad \in SUBSET GroupFolders(f) :
           \E w \in Outcomes(text, bad) :
             /\ logicFiles' =
                  [p \in LogicPaths |->
                     IF p[2] = LogicBase[f.name] /\ p[1] \in GroupFolders(f)
                       THEN w[p[1]] ELSE logicFiles[p]]
             /\ logicErrs' =
                  {p \in LogicPaths :
                     IF p[2] = LogicBase[f.name] /\ p[1] \in GroupFolders(f)
                       THEN p[1] \in bad ELSE p \in logicErrs}
    /\ pc' = "backup"
    /\ UNCHANGED <<apiFiles, i, routesVals, routeTimeOut, mwDecl, handlerFiles,
                   bk, bkErr, backups, formatted, svcFile, typesWritten,
                   routesFile>>

(* genLogics: genLogicFile rewrites the logic file of each group, named    *)
(* after LogicBase of the .api file, the same way; a failure is printed    *)
(* (genlogic.go:101-103) and the loop goes on.                             *)
GenLogics ==
    /\ pc = "logics"
    /\ LET f == apiFiles[i]
       IN  \E bad \in SUBSET GroupFolders(f) :
           \E w \in Outcomes(LogicText(f), bad) :
             /\ logicFiles' =
                  [p \in LogicPaths |->
                     IF p[2] = LogicBase[f.name] /\ p[1] \in GroupFolders(f)
                       THEN w[p[1]] ELSE logicFiles[p]]
             /\ logicErrs' =
                  {p \in LogicPaths :
                     IF p[2] = LogicBase[f.name] /\ p[1] \in GroupFolders(f)
                       THEN p[1] \in bad ELSE p \in logicErrs}
    /\ pc' = "backup"
    /\ UNCHANGED <<apiFiles, i, routesVals, routeTimeOut, mwDecl, handlerFiles,
                   bk, bkErr, backups, formatted, svcFile, typesWritten,
                   routesFile>>

(* backupAndSweep: wg.Add(2) and the two goroutines started.               *)
StartBackup ==
    /\ pc = "backup"
    /\ bk' = [copy |-> "run", sweep |-> "run"]
    /\ bkErr' = "none"
    /\ pc' = "join"
    /\ UNCHANGED <<apiFiles, i, routesVals, routeTimeOut, mwDecl, handlerFiles,
                   logicFiles, logicErrs, backups, formatted, svcFile, typesWritten,
                   routesFile>>

(* Mutant: the copy goroutine's error is not stored in the shared err.    *)
CopyBackupErrLost ==
    /\ bk.copy = "run"
    /\ \/ /\ backups' = backups \cup {[file |-> apiFiles[i].name, age |-> 0]}
          /\ bk' = [bk EXCEPT !.copy = "ok"]
       \/ /\ bk' = [bk EXCEPT !.copy = "fail"]
          /\ UNCHANGED backups
    /\ UNCHANGED <<apiFiles, pc, i, routesVals, routeTimeOut, mwDecl, bkErr,
                   handlerFiles, logicFiles, logicErrs, formatted, svcFile, typesWritten,
                   routesFile>>

(* The copy goroutine: copies the file to tmpDir/<name>-<now>; on failure  *)
(* it stores its error in the shared err.                                  *)
CopyBackup ==
    /\ bk.copy = "run"
    /\ \/ /\ backups' = backups \cup {[file |-> apiFiles[i].name, age |-> 0]}
          /\ bk' = [bk EXCEPT !.copy = "ok"]
          /\ UNCHANGED bkErr
       \/ /\ bk' = [bk EXCEPT !.copy = "fail"]
          /\ bkErr' = "copy"
          /\ UNCHANGED backups
    /\ UNCHANGED <<apiFiles, pc, i, routesVals, routeTimeOut, mwDecl,
                   handlerFiles, logicFiles, logicErrs, formatted, svcFile, typesWritten,
                   routesFile>>

(* The sweep goroutine: walks tmpDir removing backups older than KeepDays; *)
(* a failed RemoveAll stops the walk with the expired backups not yet      *)
(* removed left in place, and stores its error in the shared err.          *)
SweepBackups ==
    /\ bk.sweep = "run"
    /\ \/ /\ backups' = backups \ Expired(backups)
          /\ bk' = [bk EXCEPT !.sweep = "ok"]
          /\ UNCHANGED bkErr
       \/ \E stuck \in Expired(backups), removed \in SUBSET Expired(backups) :
             /\ stuck \notin removed
             /\ backups' = backups \ removed
             /\ bk' = [bk EXCEPT !.sweep = "fail"]
             /\ bkErr' = "sweep"
    /\ UNCHANGED <<apiFiles, pc, i, routesVals, routeTimeOut, mwDecl,
                   handlerFiles, logicFiles, logicErrs, formatted, svcFile, typesWritten,
                   routesFile>>

(* wg.Wait(); a non-nil err ends the run.                                  *)
JoinBackup ==
    /\ pc = "join"
    /\ bk.copy \in {"ok", "fail"}
    /\ bk.sweep \in {"ok", "fail"}
    /\ pc' = IF bkErr = "none" THEN "format" ELSE "aborted"
    /\ bk' = [copy |-> "idle", sweep |-> "idle"]
    /\ UNCHANGED <<apiFiles, i, routesVals, routeTimeOut, mwDecl, handlerFiles,
                   logicFiles, logicErrs, bkErr, backups, formatted, svcFile, typesWritten,
                   routesFile>>

(* apiformat.ApiFormatByPath rewrites the .api file in place; an error     *)
(* ends the run.                                                           *)
FormatFile ==
    /\ pc = "format"
    /\ \/ /\ formatted' = formatted \cup {apiFiles[i].name}
          /\ i' = i + 1
          /\ pc' = "next"
       \/ /\ pc' = "aborted"
          /\ UNCHANGED <<formatted, i>>
    /\ UNCHANGED <<apiFiles, routesVals, routeTimeOut, mwDecl, handlerFiles,
                   logicFiles, logicErrs, bk, bkErr, backups, svcFile, typesWritten,
                   routesFile>>

EndLoop ==
    /\ pc = "next"
    /\ i > NumFiles
    /\ pc' = "svc"
    /\ UNCHANGED <<apiFiles, i, routesVals, routeTimeOut, mwDecl, handlerFiles,
                   logicFiles, logicErrs, bk, bkErr, backups, formatted, svcFile,
                   typesWritten, routesFile>>

(* genServiceContext with the accumulated middleware declarations.         *)
GenServiceContext ==
    /\ pc = "svc"
    /\ svcFile' = [written |-> TRUE, decl |-> mwDecl]
    /\ pc' = "types"
    /\ UNCHANGED <<apiFiles, i, routesVals, routeTimeOut, mwDecl, handlerFiles,
                   logicFiles, logicErrs, bk, bkErr, backups, formatted, typesWritten,
                   routesFile>>

(* genTypesFile removes and rewrites the types file.                       *)
GenTypesFile ==
    /\ pc = "types"
    /\ typesWritten' = TRUE
    /\ pc' = "routeFile"
    /\ UNCHANGED <<apiFiles, i, routesVals, routeTimeOut, mwDecl, handlerFiles,
                   logicFiles, logicErrs, bk, bkErr, backups, formatted, svcFile,
                   routesFile>>

(* genRouteFile removes and rewrites routes.go; it imports "time" exactly  *)
(* when routeTimeOut is set.                                               *)
GenRouteFile ==
    /\ pc = "routeFile"
    /\ routesFile' = [written |-> TRUE, hasTimeout |-> routeTimeOut,
                      additions |-> routesVals]
    /\ pc' = "done"
    /\ UNCHANGED <<apiFiles, i, routesVals, routeTimeOut, mwDecl, handlerFiles,
                   logicFiles, logicErrs, bk, bkErr, backups, formatted, svcFile,
                   typesWritten>>

Next ==
    \/ Start
    \/ SkipFile
    \/ CollectFile
    \/ GenHandlers
    \/ GenLogics
    \/ StartBackup
    \/ CopyBackup
    \/ SweepBackups
    \/ JoinBackup
    \/ FormatFile
    \/ EndLoop
    \/ GenServiceContext
    \/ GenTypesFile
    \/ GenRouteFile

Spec == Init /\ [][Next]_vars

-----------------------------------------------------------------------------
(* Properties                                                              *)

(* The type invariant.                                                     *)
TypeOK ==
    /\ apiFiles \in [1..NumFiles -> Catalog]
    /\ pc \in Pc
    /\ i \in 1..(NumFiles + 1)
    /\ routesVals \in Seq(Addition)
    /\ routeTimeOut \in BOOLEAN
    /\ mwDecl \in [Middlewares -> Nat]
    /\ handlerFiles \in [Paths -> SUBSET Reg]
    /\ logicFiles \in [LogicPaths -> SUBSET Handlers]
    /\ logicErrs \subseteq LogicPaths
    /\ bk \in [copy : {"idle", "run", "ok", "fail"},
               sweep : {"idle", "run", "ok", "fail"}]
    /\ bkErr \in {"none", "copy", "sweep"}
    /\ backups \subseteq Backup
    /\ formatted \subseteq Names
    /\ svcFile \in [written : BOOLEAN, decl : [Middlewares -> Nat]]
    /\ typesWritten \in BOOLEAN
    /\ routesFile \in [written : BOOLEAN, hasTimeout : BOOLEAN,
                       additions : Seq(Addition)]

(* The group policy the spec accepts (section 4.4): no timeout or one of   *)
(* at least a millisecond, no maxBytes or a base-10 integer.               *)
PolicyAccepted(g) ==
    /\ \/ g.timeout.kind = "none"
       \/ g.timeout.kind = "value" /\ g.timeout.ns >= Millisecond
    /\ g.maxBytes \in {"none", "ok"}

(* Every server.AddRoutes block that genRouteFile writes into routes.go    *)
(* comes from a .api file that parsed and validated and from a group whose *)
(* timeout and maxBytes the spec accepts, however the files before it      *)
(* failed (genRoutes / the err == nil test of GenGormApiFile).             *)
RegisteredGroupsValid ==
    \A k \in DOMAIN routesFile.additions :
        LET a == routesFile.additions[k]
        IN  /\ apiFiles[a.file].kind = "ok"
            /\ a.group \in DOMAIN apiFiles[a.file].groups
            /\ PolicyAccepted(apiFiles[a.file].groups[a.group])

(* When backupAndSweep joins its goroutines after the copy failed, the run *)
(* ends: the sweep goroutine writing the shared err must never hide the    *)
(* copy's failure, or the file would be reformatted without a backup.      *)
CopyFailureAborts ==
    [][(pc = "join" /\ pc' # "join" /\ bk.copy = "fail") => pc' = "aborted"]_vars

(* The sweeps run for later files never remove the backup of a file that   *)
(* was reformatted earlier in the run (sweep keeps backups younger than    *)
(* KeepDays).                                                              *)
BackupRetained ==
    \A n \in formatted : [file |-> n, age |-> 0] \in backups

(* Spec section 9: each resolved group is registered exactly once.  The    *)
(* duplicated append in getRoutes registers every group twice.             *)
NoDuplicateRegistration ==
    \A k1, k2 \in DOMAIN routesFile.additions :
        k1 # k2 =>
            <<routesFile.additions[k1].file, routesFile.additions[k1].group>>
              # <<routesFile.additions[k2].file, routesFile.additions[k2].group>>

(* routes.go imports "time" exactly when one of its blocks uses            *)
(* rest.WithTimeout: otherwise the generated file does not compile.        *)
TimeoutImportConsistent ==
    routesFile.written =>
        (routesFile.hasTimeout <=>
            \E k \in DOMAIN routesFile.additions : routesFile.additions[k].timeout)

(* The service context declares every middleware field once; the          *)
(* middlewareStr of GenGormApiFile concatenates the declarations of each   *)
(* file.                                                                   *)
MiddlewareDeclaredOnce ==
    svcFile.written => \A m \in Middlewares : svcFile.decl[m] <= 1

(* Spec sections 4.1 and 4.4: a handler and its paired logic routine      *)
(* agree.  Every handler a handler file defines calls its logic through   *)
(* the logic package the file imports (getLogicPath of the group), and    *)
(* the logic file genLogics wrote there for the same .api file defines    *)
(* it, whichever groups and files came after, once genLogics has run for  *)
(* the current file.  A logic file whose write genLogics reported failed  *)
(* is exempt: the spec lets that error be reported and the run go on.     *)
LogicsPaired ==
    pc # "logics" =>
    \A p \in Paths : \A r \in handlerFiles[p] :
        LET lp == <<p[1], LogicBase[p[2]]>>
        IN  lp \notin logicErrs => r.folder = p[1] /\ r.handler \in logicFiles[lp]

=============================================================================
