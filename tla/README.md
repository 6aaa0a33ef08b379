# Formal models of the goctl gorm generators

This directory holds TLA+ models of the code generators under
`src/tools/goctl`, together with TLC configurations and TLAPS proofs. The
models cover what the generators do to the output tree: which files are
written, removed or kept, and what each generated file defines or
registers. They abstract the text of the generated files.

## The system

`spec.md` describes a scaffolding compiler that takes a service description
and emits a coordinated set of artifacts. The repository has three
generators of that kind, plus some runtime helpers:

| part | source | what it does |
|---|---|---|
| API-mode driver | `api/gogen/gorm/gen.go` | `GenGormApiFile` walks the `.api` files of a directory one after the other. |
| route table | `api/gogen/gorm/genroutes.go` | `getRoutes` and `genRoutes` build one `server.AddRoutes` block per group. `genRouteFile` writes `routes.go`. |
| handlers | `api/gogen/gorm/genhandlers.go` | One handler file per group, in the group's folder. |
| logic | `api/gogen/gorm/genlogic.go` | One logic file per group, plus the CRUD classifier. |
| helpers | `api/gogen/gorm/utils.go` | `MaybeCreateFile`/`genFile` (remove, then rewrite), `getMiddleware`, and `backupAndSweep`, which runs two goroutines that share one `err`. |
| service context, types | `gensvc.go`, `gentypes.go` | The aggregate files written once after the loop. |
| RPC service pipeline | `rpc/generator/gen.go` | `Generate`: a chain of steps (mkdir, proto merge, `go mod init`, the code writers, GenCall, the optional Makefile/Dockerfile/gitlab/desc steps and the Ent block), each of which returns its error, except GenCall. |
| RPC generator | `rpc/generator/gorm/gen.go` | One logic file per table, written create-if-absent, plus a merge into a proto file. |
| proto-driven API generator | `api/gogen/proto/gen.go` | Logic files written create-if-absent, an `.api` file, and the `all.api` import list. |
| schema loading | `util/gormGen.go` | Table metadata read from the database. |
| runtime | `rest/...`, `core/stores/gorm/conf.go` | HTTP start-up, path variables, DSN formatting. |

### How the API-mode parts interact

For every file, `GenGormApiFile` does the following:

1. It skips `all.api`, and any file that does not parse or validate.
2. It appends the file's middleware declarations to `middlewareStr`.
3. It appends the route additions to `routesVals` and sets `routeTimeOut`, but only when `genRoutes` succeeds.
4. It calls `genHandlers` and `genLogics`. Their per-group errors are only printed.
5. It backs up and sweeps.
6. It reformats the file in place.

Either of the last two steps failing ends the run. After the loop, the
service context, types file and routes file are written from the
accumulated strings.

## Modules

* `ApiGen.tla` models `GenGormApiFile` and everything it calls that changes
  the output tree.
  * **State.** Files are records chosen in `Init` from the `Catalog` constant:
    a name, a parse/validation outcome, and groups. A group is a record of a
    folder, a timeout, maxBytes, middleware entries and routes. Each
    annotation is its parsed meaning: a timeout is a duration in ns or
    `unparsable`. The variable `pc` is the program counter of the driver.
    `handlerFiles` and `logicFiles` map a path to the symbols the file
    there defines: a handler is the pair of the logic package it calls
    (its route's folder, `genhandlers.go:42-48`) and its name.
    `logicErrs` holds the logic files whose last write `genLogics`
    reported failed. `routesVals`, `routeTimeOut` and `mwDecl` are the loop's
    accumulators, and `bk`/`bkErr` are the two goroutines and their shared
    `err`.
  * **Actions.** There is one action per step of the loop, in the code's
    order: `Start`, `SkipFile`, `CollectFile`, `GenHandlers`, `GenLogics`,
    `StartBackup`, `CopyBackup`, `SweepBackups`, `JoinBackup`, `FormatFile`,
    `EndLoop`, `GenServiceContext`, `GenTypesFile` and `GenRouteFile`.
  * **Concurrency.** The two goroutines of `backupAndSweep` are separate
    actions that interleave freely between `StartBackup` and `wg.Wait()`
    (`JoinBackup`). Each may fail, and a failed sweep may leave some
    expired backups in place.
  * **Fidelity to the code.** `GenRoutesOut` reproduces the duplicated
    append of `getRoutes`, together with the in-place qualification of the
    shared middleware slice. `LastGroupsAt` reproduces the remove-and-rewrite
    of `MaybeCreateFile`. `LogicBase` is the normalised `Logic` field that
    `genLogics` names logic files after. `Outcomes` is what `genFile`
    can leave: the whole text, or on a failure of `CreateIfNotExist`, the
    template or `WriteString`, nothing or part of it. A failure is printed
    and the loop goes on (`genlogic.go:101-103`), as spec section 4.1
    allows.
* `MCApiGen.tla` is the TLC instance.
  * It has two file names, two folders, two handlers, one middleware and
    two logic bases.
  * The groups between them cover every outcome `genRoutes` distinguishes:
    a valid timeout, no annotation, a timeout below 1ms, an unparsable
    timeout, a bad maxBytes, and two groups sharing a folder.
    `CatalogMoved` adds a file with a route-level folder, for
    `api_routefolder`.
  * There are two old backups, one older than `KeepDays` and one younger.
* `ApiGenProofs.tla` holds the TLAPS proofs about `ApiGen`.
* `RpcGormGen.tla` models `genGormLogic` in `rpc/generator/gorm/gen.go`
  (lines 75-170) over repeated invocations on one output tree.
  * **State.** The files persist across invocations: `logic[t]` records
    which invocation wrote a table's logic file and whether its code treats
    the id as a UUID, and `proto[t]` records the service the proto file
    declares and the id types of the message blocks merged into it. The
    context does not persist: `overwrite`, `useUUID` (the shared
    `g.UseUUID`), `order` (the map iteration order), `k` and `pc`. The
    history variable `clean` records that no file write has failed yet.
  * **Actions.** `Start` picks the flags and a map order. Then, per table,
    there is `SkipTable` (the file exists and no Overwrite, `continue`),
    `WriteLogic` or `WriteLogicFail`, then `MergeProto` (with both of its
    `continue`s), `CreateProtoFail` or `MergeProtoFail`. A failed write
    leaves the file as it was or, since `os.WriteFile` truncates before it
    writes, `Partial`: a truncated file with no service block. `EndLoop` ends the
    invocation and `Rerun` starts the next one.
  * **Fidelity.** `CRUDUseUUID` is the sticky assignment of `GenCRUDData`.
    `Created` is the create-or-overwrite of the proto file with the
    project's service, and `ServiceFound` is the lookup of the package's
    service (`FindBeginEndOfService` itself is not in the repository).
    `Loaded` drops the tables whose primary key
    `generateModelInfo` rejects.
  * The call at `gen.go:95` expects three results from
    `util.LoadTableSchemas`, which returns two, and `cfg.LocalLoadTemplate`
    is defined nowhere, so the package does not compile as given. The model
    takes the loop as written.
* `MCRpcGormGen.tla` has three tables: a UUID-keyed `tu`, a serial-keyed
  `tp` and `tx`, whose key type is unsupported. There are two services,
  and two package-to-service maps: all the project's, which the runs use,
  or `tp` in another, which makes `MessageMergedOnSuccess` fail at once
  through the hazard at `gen.go:150`.
* `RpcGormGenProofs.tla` holds the TLAPS proofs about `RpcGormGen`.
* `ProtoMessageProofs.tla` holds the TLAPS proof of `ProtoMessage`'s type
  invariant.
* `RpcGenerate.tla` models `Generate` in `rpc/generator/gen.go` (lines
  63-252), over repeated invocations on one output tree.
  * **Steps.** `Steps` lists one step per error check, in program order.
    The calls of lines 113-162 all return their first error, so they are
    taken as one step, `gen`. `OptOf` is the option each conditional step
    needs: `desc/` exists, ModuleName, the versions, MakeFile, DockerFile,
    Gitlab, UseDescDir or Ent.
  * **State.** `cfg` holds the options of the run and `pc` the step. `err` is
    the `err` of line 66, and `done`/`failed` are the steps of this run that
    succeeded or failed. `tpl` holds the Ent template files, which stay on
    disk across runs, each `absent`, `written` or `partial` (a write that
    failed after `os.WriteFile` truncated it), and `writeTpl` is the `FileExists` test of line 219.
    `result` is what the last run returned.
  * **Actions.** `Start` is an invocation with any options, and `Skip` an
    `if` whose condition is false. `StepOk` is a step that succeeds: it
    sets `err` to nil unless the step assigns no `err` (`KeepsErr`): the
    `:=` of lines 80, 106 and 196 shadow it, and the `FileExists` test of
    line 219 assigns no error at all. `StepFail` is a step
    that fails: it returns at once, except GenCall, whose error is only
    assigned (line 164). `Finish` is `return err` at line 251.
  * **Abstraction.** The callees (`GenEtc` ... `GenBaseDesc`, `MergeProto`,
    `execx.Run`) are not in this repository, so each is reduced to success
    or failure.
* `RpcGenerateProofs.tla` holds the TLAPS proofs about `RpcGenerate`.
* `MCRpcGenerate.tla` allows all eight options and two invocations, so a
  re-run meets the templates the first run left.
* `ProtoMessage.tla` models `GenProtoData` (`gen.go:352-443`), which
  renders `<T>Info`, `<T>ListResp` and `<T>ListReq`, one column per step.
  The text is abstracted to tokens: a message opened, a field with its
  number and name, a message closed. `InfoSkipId`, `InfoStatus` and
  `InfoColumn` are the branches of the first loop. `InfoEnd` appends the
  literal `ListResp` block and the head of `ListReq` and resets `index` to
  3, as line 407 does. `ListKey` and `ListOther` are the second loop, and
  `SearchKey` is its condition at lines 410-411.
* `MCProtoMessage.tla` gives the columns: a UUID and a serial id, `status`,
  two string columns, a string whose name contains `uuid`, and a time.
  `Init` takes every list of up to four distinct columns that has an `id`.
* `ProtoApiGen.tla` models `GenLogicByProto` in `api/gogen/proto/gen.go`
  (lines 52-141) over repeated invocations, one model at a time.
  * **State.** `logic[m]` is the set of logic kinds present for model `m`
    and `api[m]` is its `.api` file. `allExists`/`allApi` are `all.api` and
    the models it imports, in order.
  * **Actions.** `KeepLogic`/`WriteLogic`/`WriteLogicFail` are the
    create-if-absent loop. `WriteApi` always rewrites the `.api` file.
    `MergeAll` is the substring check and append, and it needs an existing
    `all.api`. `MergeAllFail` leaves `all.api` as it was or, since
    `os.WriteFile` truncates, any prefix of the merged import list. `MakeGenApi` may fail.
  * **Abstraction.** `Artifacts` is what `GenCRUDData` produces, and
    `ListOwners` is the `ListReq` selection of `GenApiData`. The constant
    `SubName[a][b]` says that a's name is a substring of b's.
* `MCProtoApiGen.tla` has two models whose names do not contain each
  other. Each has all three messages, and one of them has a status field.
* `ProtoApiGenProofs.tla` holds the TLAPS proofs about `ProtoApiGen`.

## Runs

Every passing run fires all the actions of its module, and TLC checks it
in about a second. Each property of a passing run has a mutant in
`PROJECT.json`: a plausible bug in the mapped code that TLC then catches.

| run | states | checks |
|---|---|---|
| `api_pass` | 166506 | `TypeOK`; `RegisteredGroupsValid`: `routes.go` receives only groups of parsed files that `genRoutes` accepted; `BackupRetained`: later sweeps never delete the backup of a file already reformatted; `LogicsPaired`: once `genLogics` has run, every handler names its file's folder and has its logic function in the logic file of that folder and `.api` file, unless that write was reported failed; `CopyFailureAborts`, an action property: a join after a failed copy aborts |
| `rpc_pass` | 3624 | `TypeOK`; `OverwriteReplaces`: a successful invocation with Overwrite has rewritten every loaded table's logic; `CleanProtoMatchesLogic`: until a file write fails, every message block in a proto file has the id type of its table's logic file; `CleanMessageMerged`: until a write fails, a successful invocation leaves every loaded table with a logic file and its messages in its proto file; `LogicPreserved`, an action property: no step without Overwrite changes an existing logic file |
| `protomsg_pass` | 6510 | `TypeOK`; `InfoMatchesReference`: Info numbers `id` 1 and the other columns 2, 3, ... in column order; `ListReqKeysMatchReference`: ListReq's search keys are the filter keys of the CRUD logic |
| `protoapi_pass` | 44698 | `ApiImported`: after a successful invocation, `all.api` imports the model's `.api` file; `AllApiRefined`: seen through `all.api`, the generator implements `AllApiImports` |

`rpc_pass` has I/O errors. `ProtoMatchesLogic` does not hold with them:
with Overwrite, a failed proto write leaves the old messages beside the
new logic, and that partial failure is listed as a hazard. The run
therefore checks it, and `MessageMergedOnSuccess`, up to the first failed
write: `clean` is FALSE from then on.

`AllApiImports.tla` is the abstract specification of `all.api`. It is a
list of imports that grows at its end by a model it does not import yet,
or is truncated to a prefix (`Truncate`), which a failed `os.WriteFile`
of `all.api` does. `ProtoApiGen` instantiates it with `imports <- allApi`, and
`protoapi_pass` checks `AllApiRefined == AllApi!Spec` as a property.

`protomsg_pass` uses column types that `SQLTypeToGoType` maps and an id
that is not a string. An unmapped column shortens `schema.Fields` and cuts
the keys after it, and a string id becomes a key that the logic does not
filter on. Both are listed as hazards.

Each violation run checks one statement of `spec.md`, or a requirement of
the tool that reads the output (protoc), that the code breaks. Each has a finding in `PROJECT.json`:

| run | property | shows |
|---|---|---|
| `api_dup` | `NoDuplicateRegistration` | each group is registered twice (`genroutes.go:290-291`) |
| `api_timeout` | `TimeoutImportConsistent` | `time` is not imported when the last file has no timeout |
| `api_routefolder` | `LogicsPaired` | a route with its own `group` annotation gets a handler in its group's folder that calls the logic package of its own folder, which does not define it (`genhandlers.go:46`) |
| `api_mwdecl` | `MiddlewareDeclaredOnce` | a middleware used by two files is declared twice |
| `rpc_uuid` | `TableKeyed` | after a UUID-keyed table, a serial-keyed table's logic uses UUID ids (`gen.go:185`, map order) |
| `rpc_rerun` | `MessageMergedOnSuccess` | a failure between the logic write and the proto merge is never repaired by a re-run without Overwrite |
| `gen_callerr` | `ArtifactsComplete` | GenCall's error (`rpc/generator/gen.go:164`) is overwritten by a successful Makefile step, and `Generate` returns nil without the call client |
| `protomsg_numbers` | `ListReqNumbersDistinct` | the first search key of ListReq gets number 3, which `filter` already has (`gen.go:404-407`) |

### Bounds

* **ApiGen.** Two files are enough for every cross-file effect: the
  accumulated `middlewareStr`, the overwritten `routeTimeOut` and a sweep
  during a later file's backup. Two groups per file give the fail-fast and
  overwrite effects. A single middleware is qualified twice by the
  duplicated group.
* **RpcGormGen.** Two loaded tables give both map orders, and so both
  outcomes of the sticky `UseUUID`. The unsupported third table shows that
  it is dropped. Three invocations (two with I/O errors) reach a failure,
  a re-run and an overwrite after it.
* **RpcGenerate.** All eight options and failures at every step give
  every path through the pipeline. Two invocations let a re-run find
  `pagination.tmpl` without `not_empty_update.tmpl`.
* **ProtoMessage.** Up to four columns hold an id, `status` and two
  others, so both loops see every branch. `SearchKeyNum = 1` makes the key
  limit bite.
* **ProtoApiGen.** Two models and three invocations give a repeat, both
  orders and a failure followed by a re-run.

All the models are sequential apart from the two goroutines of
`backupAndSweep`. Each invocation stops, either at `done` or at `aborted`,
so deadlock checking is off. No property is a liveness property, so no
fairness is assumed.

## Proofs

`ApiGenProofs.tla` proves five theorems with TLAPS, for every value of the
constants satisfying the `ASSUME`s of `ApiGen`. The `ASSUME`s are a
non-empty file count, a catalog of well-formed files, well-formed old
backups, a `NoFolder` outside `Folders`, and a total `LogicBase`.

* **`TypeCorrect`** (`Spec => []TypeOK`). `TypeOK` on its own is not
  inductive, because `CopyBackup` and `FormatFile` read `apiFiles[i]`,
  which needs `i <= NumFiles`. The proof therefore goes through `IInv`,
  which adds two facts:
  * inside the loop body, `i` names a file;
  * the goroutines run only while the driver waits in `join`.

  Lemmas type the helper operators: `GroupRegs`, `Qualified`, `AdditionOf`,
  `GenRoutesOut`, and the files that `HandlersDefined`/`LogicsDefined`
  describe.
* **`RegisteredGroupsProved`** (`Spec => []RegisteredGroupsValid`). The
  inductive invariant `RGInv` states that both `routesVals` and the written
  `routes.go` contain only valid additions. The proof rests on three
  lemmas:
  * `GenRoutesOutValid`: `RoutesOk` implies that every addition is valid,
    because `GroupPolicyOk` implies `PolicyAccepted`;
  * `ConcatValid`: appending valid additions to valid ones keeps them
    valid;
  * `IInv`, for the file index.
* **`CopyFailureAbortsProved`** (`Spec => CopyFailureAborts`). The invariant
  `ErrInv` states that a failed copy has left a non-nil `err`, because the
  sweep only ever overwrites `err` with another error. Given `ErrInv`,
  `JoinBackup` is the only step that leaves `join`, and it aborts. The
  step fact is the lemma `ErrStep`, which the next proof reuses.
* **`BackupRetainedProved`** (`Spec => []BackupRetained`). The invariant
  `BRInv` states that the current file's fresh backup `Mine` (age 0) is in
  `backups` once the copy has succeeded and in `format`. The lemma
  `SweepKeepsFresh` says that the sweep never removes an age-0 backup,
  because `KeepDays` is a natural number. `ErrInv` rules out leaving
  `join` after a failed copy.
* **`LogicsPairedProved`** (`NoOverride`, no route's `group` annotation
  naming a folder other than its group's, and no two names sharing a
  `LogicBase` imply `Spec => []LogicsPaired`). Both hypotheses are
  needed: `api_routefolder` breaks the property with an override, and
  with a shared Logic name a later file rewrites an earlier file's logic
  file (the hazard at `utils.go:43`). `LogicsPaired` is false between
  `genHandlers` and `genLogics`, so the invariant `LPInv` splits the
  handler files:
  * those of the current file in that step hold part of `HandlersAt`,
    what `genHandlers` wrote;
  * every other handler file is `Paired`.

  `GenLogics` writes `LogicsAt` from the same `LastGroupsAt` groups
  (lemma `HandlersAtPaired`) or records the failure in `logicErrs`. By
  injectivity it touches no other file's logic file.

`RpcGormGenProofs.tla` proves six theorems for every finite set of
tables and every value of the other constants satisfying `RpcConstAssumption`.

* **`TypeCorrect`** goes through `IInv`. It adds to `TypeOK` that the loop
  and the proto step hold a map order, and that the proto step's `k`
  indexes a table. With these, `order[k]` is a loaded table (`OrderRange`).
* **`LogicPreservedProved`** (`Spec => LogicPreserved`). The only step
  that changes `logic` is `WriteLogic`. Its guard `~LogicKept` says that
  the file is absent unless Overwrite is set, and no step of the loop
  changes Overwrite.
* **`CleanProtoMatchesProved`** (`Spec => []CleanProtoMatchesLogic`).
  The inductive invariant is `PMInv == IInv /\ (clean => PMCore)`, where
  `PMCore` holds three facts:
  * a proto file exists only with its logic file;
  * in the proto step, the current table's logic was just written with
    `g.UseUUID`, and its proto file is absent or about to be overwritten,
    so `Created` starts from no messages;
  * every other table's messages already match its logic.

  `MergeProto` then adds exactly the id type of the new logic. A failed
  write sets `clean` to FALSE, so it does not have to preserve `PMCore`.
* **`ProtoMatchesLogicProved`** (`~IOFail` implies
  `Spec => []ProtoMatchesLogic`). Without I/O errors `clean` stays TRUE,
  so this follows from `CleanProtoMatchesProved`.
* **`OverwriteReplacesProved`** (`Spec => []OverwriteReplaces`). The
  invariant `VisitedInv` states that the tables the map order has visited
  so far have a logic file, written in this run when Overwrite is set. At
  `done` the order is a bijection onto the loaded tables (`OrderOnto`), so
  every loaded table has been visited (`DoneVisitsAll`).
* **`CleanMessageMergedProved`** (every loaded table's package `SvcOf` is
  `ProjectSvc` implies `Spec => []CleanMessageMerged`). The hypothesis is
  needed: with a table of another package the merge is skipped
  (`gen.go:150`), which is the hazard listed there. `SvcInv` says that every proto file carries
  the project service (`MergeKeepsSvc`). `MMInv` combines it with
  `VisitedInv` under `clean`.

`ProtoApiGenProofs.tla` proves three theorems.

* **`TypeCorrect`**.
* **`AllApiRefinedProved`** (`Spec => AllApiRefined`). This is the
  refinement. The initial empty `allApi` maps to the empty import list.
  Each step of the generator is a stutter of `allApi`, or else `MergeAll`
  of a model that is not yet imported, which is exactly `AllApi!Import`.
  A failed write leaves a prefix of the merged list: the old list when it
  is already imported, the appended list (`Import`) when the whole write
  landed, otherwise a prefix of the old list (`Truncate`).
  The step proof needs `TypeOK`.
* **`ApiImportedProved`** (no model's name is a substring of another's
  implies `Spec => []ApiImported`). The invariant `AIInv` states that
  from the `make` step on, `allApi` contains the current model. The
  hypothesis is needed: `MergeAll` skips a model whose name is contained
  in an imported one (the hazard at `proto/gen.go:124`).

`ProtoMessageProofs.tla` proves **`TypeCorrect`** for `ProtoMessage`
(`Spec => []TypeOK`), for every column set, `MaxCols` and `SearchKeyNum`
satisfying `ProtoConstAssumption`. The strengthening `IInv` adds that `j`
stays within `1..Len(cols) + 1`. With it, the current column is a column
(`ColType`), and the `count < SearchKeyNum` test of `SearchKey` keeps
`count` in range.

`RpcGenerateProofs.tla` proves three theorems. They hold for every set of
options and any number of runs, and `RpcGenerate` has no `ASSUME`s. The
lemma `StepsLen` fixes the pipeline at sixteen steps.

* **`TypeCorrect`** (`Spec => []TypeOK`). `TypeOK` is inductive as it
  stands.
* **`ChecksReportedProved`** (`Spec => []ChecksReported`). A nil return
  means that no step but GenCall failed, so the shadowed `err` variables
  of lines 80, 106 and 196 lose no error. The inductive invariant
  `ChecksInv` adds that during a run only GenCall has failed so far, since
  any other failure returns at once.
* **`CallOnlyHiddenProved`** (`Spec => []CallOnlyHidden`). With failures
  allowed, a nil return after a successful GenCall leaves every step the
  options ask for done. The invariant `StepInv` says that every due step
  behind `pc` is done, or is GenCall and failed (`Completed`). `Skip` only
  passes steps whose option is off, and a failure other than GenCall's
  returns an error. GenCall's unchecked error is therefore the only step
  failure that `gen_callerr` can exhibit.
`ArtifactsComplete` is only a property of `gen_callerr`: it fails not only
through GenCall's error but also when a template write fails part way and
a re-run finds the truncated `pagination.tmpl` and skips both writes.

Every property of the passing runs has a theorem except two, which only
TLC checks on the instances above: the ProtoMessage properties `InfoMatchesReference` and `ListReqKeysMatchReference`, which compare the rendered fields
with a reference built by `SelectSeq` over the columns. That is a fact
about a recursive definition for every input, which would need induction
over data.

## Not modelled, and why

* The text of generated files: imports, swagger comments and struct bodies.
  The properties are about which symbols a file defines or registers.
* `genRouteImports`/`sortRouteImports`, `BuildTypes`, the templates and
  `genmain.go`. These only render text.
* `logx.Must` on `MkdirIfNotExist` in `GenGormApiFile`. A failure ends the
  process, which the model leaves as a final state it does not track.
  Template-loading failures inside `genHandlers` and `genLogics` do not:
  they are printed and the loop goes on, and they are among the failure
  outcomes of `GenHandlers` and `GenLogics`.
* What the callees of `Generate` write (protoc output, the service
  skeleton). They are not in this repository, and each is reduced to
  success or failure.
* `GenCRUDData`'s text: it is reduced to the id type its templates read
  (RpcGormGen) and to the logic kinds it produces (ProtoApiGen).
  `GenApiData`'s text is reduced to the list fields it selects.
* Reading the database schema in `util/gormGen.go`. Only its effects on
  the generators are modelled: dropped tables and dropped columns.
* The runtime helpers under `rest/` and `core/stores/gorm`. They are
  wrappers over `net/http` and database drivers, with no generator state.
