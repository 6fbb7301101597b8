# Verification of builder-operator

TLA+ models of the builder-operator (`src/`), the TLC configurations that check
them on small instances, and proofs of their most important properties, checked
by TLAPS.

The operator turns `BuildJob` custom resources into Tekton `PipelineRun`s and
reports their outcome; it also builds toolchain images (`Toolchain`), provisions
shared cache volumes (`Cache`), and serves an HTTP API and a CLI with which users
create jobs, trigger runs and fetch artifacts.

## 1. The system

### Components, state, operations

| component (source) | state it keeps | operations | module |
|---|---|---|---|
| BuildJob controller (`internal/controller/buildjob_controller.go`) | `BuildJob.status`, the PipelineRuns it owns, the cache PVC, the gauge `bob_active_builds` | `Reconcile`, `createNewPipelineRun`, `syncStatusFromPipelineRun`, `findActivePipelineRun`, `nextRunNumber`, `ensureCachePVCs`, the checks before a run | `BuildJobObjects`, `BuildJobController` |
| PipelineRun builder (`internal/tekton/pipelinerun_builder.go`) | none: a function of the BuildJob; its scripts write the shared workspace, the artifact store and the registry | `BuildPipelineRunWithConfig` and the task builders | `PipelineRunBuilder`, `PipelineExecution` |
| Toolchain controller (`internal/controller/toolchain_controller.go`) | `Toolchain.status`, the TaskRuns it owns, `toolchain_builds_total` | `Reconcile`, `buildTaskRun`, `taskRunPhase` | `ToolchainController` |
| Cache controller (`internal/controller/cache_controller.go`) | `Cache.status`, the PVC it owns | `Reconcile` | `CacheController` |
| Build API, job handlers (`internal/buildapi/server.go:126-320`) | none of its own: it writes BuildJobs | `handleCreate`, `handleRun`, `handleDelete`, `handleGet`, `handleList` | actions of `BuildJobController`, `LocalSource`, `BuildDelivery` |
| Build API, artifact store (`server.go:404-536`) | one directory of files per job name | upload, list, download | `ArtifactStore` |
| CLI, local source (`cmd/bob/sync.go`, `build.go`) | the job's source, the `original-source` annotation, the sync pod, the source PVC | upload, switch to the PVC and trigger, restore | `LocalSource` |
| CLI, wait and download (`cmd/bob/wait.go`, `artifacts.go`) | none | poll until an outcome, fetch the artifacts | `BuildDelivery` |
| Build API client (`internal/buildapi/client/client.go`) | none | one request per call | requests of `BuildDelivery` |
| BuildConfig controller (`buildconfig_controller.go`) | `BuildConfig.status` | `Reconcile` | not modelled |
| metrics (`metrics.go`), start-up (`main.go`), API types (`api/v1alpha1/`), generated code, manifests, read-only handlers and commands | see `PROJECT.json` | | where a model needs them |

### How they interact

Everything meets in the API server. The three controllers run in one process,
each with one worker. They read their own resources (and PVCs) through informer
caches that lag behind the store; PipelineRuns and TaskRuns are unstructured
objects, which the client of controller-runtime reads live. A status update
carries the resourceVersion of the copy that was read and is refused when the
stored object has changed. The API server sends every change of a resource, and
of an object it owns, back to the worker as an event; owner references are
followed by name, so an event of a run of a deleted BuildJob reaches the BuildJob
that has the name now. The handlers of the Build API run in the same process and
read from the same informers; the CLI uses `kubectl`, which neither reads from
them nor passes a resourceVersion. Tekton runs what the controllers create.

### Where it is hard

* A reconcile is several requests. Between any two of them users edit or delete
  the object, Tekton starts or ends the run, a pruner deletes it, the process
  dies, or the request fails. The list of active runs and the creation of a new
  one are separate requests, and so are the creation and the status update that
  records it.
* A reconcile may work on an outdated object.
* A deleted name may be created again while the runs, TaskRuns and PVCs of the
  earlier incarnation wait for the garbage collector, and they carry its labels.
* Nothing stores the number of the last run: it is derived from `runCount` and
  from how many PipelineRuns exist.
* A trigger is an annotation with a resolution of one second.
* A pipeline's tasks share one workspace and are ordered only by `runAfter`.
* Whether the outcome is ever shown depends on events and requeues.
* `bob build --local` is a dozen `kubectl` calls with no lock: the job's source
  is read, kept in an annotation and replaced, and one pod and one PVC serve
  every terminal. Any call can be the last.
* `bob build -d` decides from answers that lag behind whether the success it is
  shown is of the build it triggered, and fetches files from a directory that
  the next run writes into.

`PROJECT.json` lists these as hazards, each at its line, with the properties that
cover it. A hazard without one is something the code lets happen, so that a
property which forbade it would fail; its note says which exemption or bound of
which property leaves it out: the OCI reference of an edited spec, the fields
adoption keeps, the gauge and the counter, statuses rewritten for a new
timestamp, a failed read of the annotation, uploads side by side, a download
beside an upload, a replaced pod, a success shown while a trigger is pending,
and the TaskRun of a predecessor.

### What makes the components correct

* BuildJob: one active run at a time; the status tells the truth about the run
  it names; a run in progress is recorded or will be; finished stays finished;
  a trigger is served; the status comes to rest.
* Pipeline: tasks strictly in order on a complete source; nothing is published
  from a failed build; Tekton accepts what the builder makes; the reference
  shown was pushed.
* Toolchain: "built" is said of a TaskRun that succeeded; it stays so; builds of
  one image do not run side by side; the phase comes to rest.
* Cache: at rest, the status agrees with the volume.
* Local source: the submitted source is never lost and comes back; what is built
  is the whole directory.
* Delivery: the success reported is of a build since the trigger, the files
  fetched are those of that build, and the wait ends.

## 2. The modules

| module | models | main correspondence |
|---|---|---|
| `BuildJobObjects` | the BuildJob, its status, PipelineRuns, and the pure decisions of the reconciler | `NeedsNewRun` 67-73, `SyncStatus` 249-346, `AdoptStatus` 126-131, `CreatedStatus` 225-234, `Rejection` 142-189, `NextRunNumber` 406-419 |
| `BuildJobController` (extends it) | the reconciler between API server, informer, users, Tekton, collector | one action per request: `ReconcileStart` (Get from the cache), `FetchRun`, `FindActive`/`FindFails` (List), `Prepare`, `CreateRun`, `WriteStatus`/`WriteRefused`/`WriteFails` |
| `BuildContract` | what the reconciler promises to those who trigger and read: one trigger and one build at a time, outcomes read from builds | `Adopt`, `Begin`, `Reject`, `Observe` prepare a report, `Publish` shows it |
| `BuildJobController_proof`, `BuildContract_proof`, `BuildJobContract_proof` | theorems and proofs about these | section 5 |
| `PipelineRunBuilder` | tasks, `runAfter`, declared results, Tekton's admission | `Previous` is `prevStage`, `PublishTasks` lines 124-181, `ResultTasks` 210-237 |
| `PipelineExecution` (extends it) | Tekton running that pipeline; what each script leaves when it succeeds, fails or is killed | `CloneScript`, `CopyScript`, `StageScript`, `UploadScript`, `PushScript`, `SignScript`; `Report` is `syncStatusFromPipelineRun:314-323` |
| `PipelineExecution_proof` | theorems and proofs about both | section 5 |
| `ToolchainController` | the Toolchain reconciler in the same frame, with the incarnations of the name and their TaskRuns | `FetchTaskRun`, `CreateTaskRun`, `WriteStatus` are the requests of `Reconcile`; `NewTaskRun` is `buildTaskRun`, `Collect` the garbage collector |
| `ToolchainContract` | what the reconciler promises to those who declare an image and wait for it: the build that is shown is followed to its end | `Provide`, `Observe`, `Begin`, `Take` prepare a report, `Publish` shows it |
| `ToolchainController_proof` | theorems and proofs about both | section 5 |
| `CacheController` | the Cache reconciler with two lagging informers | `CheckPVC`, `CreatePVC`, `WriteStatus` |
| `CacheController_proof` | theorems and proofs about it | section 5 |
| `ArtifactStore` | the artifact directory of one job, written entry by entry | `CreateFile` is `os.Create`, `WriteFile` the end of `io.Copy`, `FileTooLarge` the `os.Remove` |
| `BuildDelivery` (extends `BuildContract` and `ArtifactStore`) | one CLI command that triggers, waits and downloads | `Poll`, `PollGivesUp` are the branches of the loop in `waitAndDownload`; `OpenFile`, `CopyFile` one file of `downloadAllArtifacts` |
| `BuildDelivery_proof` (extends `BuildContract_proof` too) | theorems and proofs about `BuildDelivery` and `ArtifactStore` | section 5 |
| `LocalSource` | the CLI commands that upload, switch, restore, trigger and submit, one action per `kubectl` call or request | `GetPod` to `WaitPod` are `ensureSyncPod`, `ReadSource` to `TriggerLocal` are `switchToPVCAndTrigger`, `GetOriginal` to `Unsave` are `restoreGitSource` |
| `LocalSource_proof` | theorems and proofs about it | section 5 |
| `MC...` | instances for TLC | |

`PROJECT.json` ("map") has the source lines of every definition.

### What the state stands for

The worker of a controller is `pc`, `copy` (the object the reconcile read),
`run`, `next` and `intent` (the request it is about to make). A resourceVersion
is kept as two flags: `cacheFresh` says that the informer's copy (`cached`) is
the stored version, `copyFresh` that the worker's is. Every write that changes
the object makes both false; `CacheSync` moves the informer to the newest
version, in one step. `queued` stands for the workqueue and its delayed
requeues: the key is in it once or not at all, and a delay is no more than an
order of steps.

Data are reduced to what decides a branch or a property tells apart. A
PipelineRun is its number, a timestamp its second, a resolved commit the run
that resolved it, an OCI reference with the default tag the generation in the
tag. A spec says where the source is, whether OCI is asked for and configured,
whether the architecture is known to `archToK8s` (the CRD admits `xtensa`, which
is not), and whether caches are used.

`LocalSource` keeps of a source its type and the two fields a merge patch leaves
alone or replaces; a tree is, for each file, the terminal whose version is on the
PVC; `wanted`, `spoiled` are history. `BuildDelivery` keeps of a file the run
that wrote it last and whether it is complete, and shows `Pending` for `Running`,
which the command treats alike.

### What is implemented

`BuildJobController` implements `BuildContract` (`ImplementsContract`). The
mapping reads `shown` and `due` off the BuildJob (`due` is the reconciler's own
test, `NeedsNewRun`), and `build` and `kept` off the PipelineRuns. A report is in
preparation exactly when the worker is about to write and its copy is the stored
version: the write of any other is refused, and so a user's write makes the
report void. The reconcile up to that point is a stutter, a request that fails
there is `Lose`, and the creation of a run is `Begin`, with no report when the
BuildJob has changed since it was read. `BuildDelivery` then uses the contract in
the place of the controller, for the numbers of one uninterrupted history (no
deletion, no pruning).

`ToolchainController` implements `ToolchainContract` in the same way, with `wanted`
for `spec.build` and a build named by its second. Three things differ in the code,
and so in the contract: a TaskRun of the same name is taken as it is, whichever
Toolchain it belongs to (`Take`); a build that failed is not tried again while
`spec.build` is set (`Free`); and nothing keeps a reconcile with an outdated copy
from beginning a build that nobody is shown (`Begin` without a report).

Not in the models: `observedGeneration`, stage snapshots, `artifactURI`, the
digest and the signed flag of OCI artifacts, custom tags, node selectors, event
and condition texts, several BuildJobs at once (a reconcile touches only objects
of its own key, except the shared cache PVC, which is only ever created),
`toolchain_builds_total`, `lastBuildTime` and `resolvedDigest` of a Toolchain (the
last stays empty), and PVCs that somebody else created under a cache's name.

Some steps are coarser than the code, where nothing that a property tells apart
can happen in between: `Prepare` is `ensureCachePVCs`, the checks and the List of
`nextRunNumber` together (only this worker creates runs); `SourceMissing` looks at
the stored PVC, the code at the informer's (a PVC may change at any time anyway);
`Clear` is one `rm -rf`, and a remote command does not outlive the one that
ran it (the tree is looked at when a build is triggered). Two are wider: the two
minutes of `PollGivesUp` may have passed at any poll, and the admission in
`PipelineRunBuilder` leaves out Tekton's syntax of task names.

External behaviour is modelled from how the code relies on it: the API server's
optimistic locking, generation and name uniqueness; informer, resync and owner
events; Tekton's admission and scheduling of the release that
`hack/setup-cluster.sh` installs (the latest); garbage collection; pruners.

A definition named `Faulty...` is a plausible mistake in the one after it. Put in
that one's place it makes a property fail, which shows that the property says
something about the code (`PROJECT.json`, "mutants").

## 3. The runs

Each environment event (edit, restart, failed request, failed List, prune, stale
read, PVC change) has a budget, which a cfg sets; within it events happen at any
time and in any order. Deadlock is not checked: with the budgets spent and
nothing queued, the system rests, as it should.

### Runs that pass

| run | bounds | what it shows |
|---|---|---|
| `buildjob_faults` | 4 run numbers, 2 seconds, 2 incarnations, 3 edits, 1 restart, 1 prune; 0.85 M states | Every step is one of `BuildContract` or none (`ImplementsContract`). At most one active run (`AtMostOneActiveRun`); the status is true of the run it names (`ReportedOutcome`); every run in progress, also of an earlier incarnation, is recorded or will be adopted (`ActiveRunTracked`); a finished job goes back to Pending or Running only for another run or trigger (`FinishedStaysFinished`) |
| `buildjob_specs` | 4 specs (OCI from git, OCI from a PVC with caches, OCI without config, unknown architecture), 2 generations, 4 run numbers, 3 edits, 1 failed List, 1 stale read, 1 PVC change; 2.6 M states | A rejected job stays due (`RejectedStaysDue`); the OCI reference is that of the run while the spec is unedited (`OCIRefOfUneditedSpec`); a failed List lets one run start beside the active one, and no more (`ParallelRunsNeedListErrors`) |
| `buildjob_liveness` | 4 run numbers, 2 seconds, 2 edits, 1 restart, 1 failed request; 154 k states | The status comes to rest on an outcome (`Settles`); every run-at is recorded (`RunAtIsConsumed`). On the way no job is left without something to wake its reconciler (`NothingForgotten`), and no Create finds its name taken (`CreateFindsFreeName`) |
| `pipeline_order` | every spec with up to 3 stages named from {build, test, clone}; 15 k states | `OneTaskAtATime`, `StageSeesSource`, `PublishedMeansBuilt`, `RefMeansPushed`, and exactly which specs Tekton may refuse (`OnlyBadSpecsRefused`) |
| `toolchain_faults` | 3 seconds, 2 generations, 2 incarnations, 3 edits (creations and deletions included), 2 faults of any kind (restart, failed request, stale read), 1 prune; 0.58 M states | Every step is one of `ToolchainContract` or none (`ImplementsContract`); `ReadyMeansBuilt`; side-by-side builds cost one refused, failed, lost or stale request each (`ParallelBuildsNeedFaults`); no Toolchain without a result is left without a wake-up (`NothingForgotten`); `Settles` |
| `cache_faults` | 2 types, 2 incarnations, 3 edits, 1 restart, 1 failed request, 1 deleted PVC; 267 k states | At rest the status is the truth about the PVC of the type (`RestIsTrue`) |
| `delivery` | 2 runs, 1 file, triggers through the API, 1 trigger by others, 1 restart or rejection; 0.55 M states | A reported success is of a build that had not ended when the command triggered (`SuccessIsOfTriggeredRun`); its files are never older, and none is missing (`NoOlderFile`, `NoFileMissing`); the wait ends (`WaitEnds`) |
| `local_source` | 2 terminals with different directories, 2 files, 3 commands, uploads side by side, both clients, git and PVC sources; 2.5 M states | While the PVC is built the submitted source is still known (`LocalIsRecoverable`); the next `bob build` triggers it (`NextBuildRestores`); `--local` triggers a build of its whole directory (`LocalBuildsOwnTree`) |

Why the bounds are enough: a second run takes a second trigger or a lost
update, and 4 numbers are never used up (`NumbersSuffice` in
`MCBuildJobController` holds at these bounds, so `MaxRun` disables no step); two
seconds tell a trigger from the one before; two incarnations are the one that
left runs and the one that meets them; one fault of a kind at every possible
point, together with faults of the other kinds, covers each pair of
consecutive requests. Three stages are the first chain with a middle, and
`clone` is a stage name that collides with a task of the builder. Two runs are
the previous build and the triggered one, and the trigger of another user makes
the second one a stranger's; one file is the smallest directory in which an
upload is seen half-way, overwritten, removed. Three commands are a switch, a
restore and one more on either side of them or beside the switch; a command may
fail at each of its calls, so a switch that was interrupted and one that follows
it are in the run.

`ReportedOutcome` exempts a job with a newer trigger pending, and
`FinishedStaysFinished` a change of `lastRunAt`, for one reason: an adoption
leaves `runCount` as it was, so that after a prune the next run gets the number
of an earlier one, and the status, until it is written, names a run that is
another one now.

`ActiveRunTracked` needs reads that are not stale: a reconcile of an outdated
BuildJob creates a run for a trigger that has been served, its status update is
refused, and the next reconcile sees nothing to do; the run goes on unrecorded.
`AtMostOneActiveRun` needs Lists that do not fail: `findActivePipelineRun`
returns nil on an error (line 379), which the caller takes for "none is active".
`buildjob_faults` therefore sets the budget of that event to 0, and
`ParallelRunsNeedListErrors` says what a failed List costs. `ImplementsContract`
needs both, for the same reasons. `CreateFindsFreeName` needs Lists that do not
fail, since `nextRunNumber` then falls back to `runCount`, and runs that nobody
deletes (`buildjob_name_taken` shows a pruned one). `OCIRefOfUneditedSpec` needs
a name that is used once (section 5). The other safety properties of the
controller hold with every fault.

`LocalIsRecoverable` needs that no restore runs beside a switch (`Overlapping`
holds the uploading commands only): a restore that removes the annotation between
the check and the patch of a switch leaves the PVC as the source with nothing
kept. It also needs reads of the annotation that work (`ReadFailures`): the error
message of a failed one is taken for an annotation (sync.go:127-129).
`NextBuildRestores` needs `oc` or `kubectl`, without which nothing is restored
(build.go:199-202) and the local source is built, and no source submitted over a
kept one (`NewSourceOnTop`, the run `local_restore`). `SuccessIsOfTriggeredRun`
needs a trigger through the API: the one of `--local` goes past the informer, so
that the wait may see the previous success beside a run that it takes for new.
What each history variable or disjunct exempts (a session whose files another one
overwrote, a replaced pod, a later run that produces the same file) is named in
the comment of the property.

### Runs that show a disagreement

| run | property | what happens |
|---|---|---|
| `buildjob_name_taken` | `RunAtIsConsumed` | run 1 is recorded; the update that records run 2 is lost and run 2 ends; run 1 is pruned. `nextRunNumber` now returns 2, `Create` answers AlreadyExists, and the reconcile requeues for ever (line 219) |
| `buildjob_run_at` | `RunAtStartsRun` | a trigger given while a run is active is consumed by adopting that run (126-131): what it was given for is not built |
| `toolchain_retry` | `RetriedAfterEdit` | "update spec to retry" (104), but a Failed Toolchain with `spec.build` returns early, whatever its generation (118): no edit builds it again but removing `spec.build` and adding it back |
| `local_restore` | `NextBuildRestores` | `build --local`, then `build -f` with a new source: the annotation still holds the old one, and the next `bob build` restores that over the new one (build.go:57-58, 206) |

Observed in the models without a run of their own: after an adoption a succeeded
BuildJob may keep the `failureReason` of an earlier outcome (docs/api.md:65) and
a `runCount` below its run's number (docs/api.md:68); `artifacts.path` is called
optional (docs/api.md:45), but with destination `oci` and no path the results of
a task that is not in the pipeline are declared and Tekton refuses it (the last
disjunct of `OnlyBadSpecsRefused`); a succeeded Toolchain build is counted by
every later reconcile, because `currentBuildRun` is kept. `resolvedDigest` of a
Toolchain is never set: `extractImageDigest` reads a result that `buildTaskRun`
does not declare. A Toolchain deleted and created again within a second adopts the
TaskRun of its predecessor (toolchain_controller.go:128), which is then collected:
it ends as Failed with TaskRunMissing, and stays so. A run whose status update
was refused is adopted, as the log line says (buildjob_controller.go:236), only
while it is active: one that has ended is never recorded and the build runs
again. `bob_active_builds` is counted down but never up for adopted runs, and
up but never down for pruned ones. The "skipping signing" of the signing script
(pipelinerun_builder.go:622) is unreachable: its parameters name results that a
skipped push does not write, so Tekton fails the run. The history shows a run
whose condition is Unknown as Failed (server.go:661), the controller as Running.
The artifact directory outlives the BuildJob: a job created again under the name
lists the files of its predecessor, and downloads them.

## 4. Fairness

`FairSpec` of `BuildJobController` and `ToolchainController` assumes
* weak fairness of the reconciler's own steps: the worker takes a queued key and
  finishes what it began; a step it is ready to take stays possible until it is
  taken, or is replaced by another of its steps;
* weak fairness of `CacheSync`: the watch delivers, and is re-established when
  it breaks;
* weak fairness of the end of each run: a PipelineRun has a timeout (the job's,
  or Tekton's default), a TaskRun Tekton's default.

`FairSpec` of `BuildDelivery` assumes the same of what it is composed of: weak
fairness of `Controller`, of `CacheSync`, of the end of each run, and of
`Command`, the loop of the CLI, which sleeps and polls again. `PollGivesUp` is in
it: the startup timeout passes. `OutOfRuns` ends the wait where the instance has
no number left for a run that is due; the code has no such state. `LocalSource`
states no fairness: a user may stop at any call.

A reconcile of an outdated copy costs budget; with none left it waits for
`CacheSync`, which is fair. Nothing is assumed of users, faults, the clock, the pruner, the resync or
the garbage collector.

## 5. What is proved

For every value of the constants that satisfies `BoundsAssumption`,
`SpecsAssumption` and `BudgetAssumption` (bounds are naturals, at least one
second and one generation, specs are specs), and in `BuildContract` for every set
of run numbers (`RunsAssumption`).

`BuildJobController_proof`:

* `TypeInvariance`: `Spec => []TypeInv`. `TypeOK` alone is not inductive: a
  status update stores `next` into whatever `bj` is, and `CreateRun` indexes
  `pr` by `run`. `WorkerOK` says what the worker holds at each `pc`, and that
  a fresh copy equals the stored BuildJob, which is the content of the
  resourceVersion check; `CacheOK` says the same of the informer.
* `TypeCorrect`: `Spec => []TypeOK`.
* `AtMostOneActive`: with `MaxListErrors = 0`, `Spec => []AtMostOneActiveRun`.
  The strengthening is `NoneFound`: between a List that found no active run and
  the Create, there is none. It holds since only `CreateRun` activates a run
  (`OnlyCreateActivates`), a run that ended stays ended, and no List fails
  (`NoListFails`, from `StepsSpend`). Stale reads, refused updates, restarts,
  prunes and re-creations are all allowed: it does not rest on the BuildJob that
  was read, only on the List.
* `RunsAreLimited`: `Spec => []ParallelRunsNeedListErrors`, with no assumption. The
  invariant `PaidInv` counts: the runs in progress are at most one more than the
  Lists that failed, and at most as many as those while the worker is between its
  List and its Create (`PaidCreate`). Only a Create adds a run, and it pays for the
  run with the one the List left.

`BuildJobContract_proof`, on top of it:

* `RejectedIsDue`: `Spec => []RejectedStaysDue`, with no further assumption. The
  invariant is `TriggerInv`: triggers are never recorded ahead of being given
  (`InOrder`), a worker past the first read holds a job that needs a run
  (`Decided`), and the status it is about to write keeps the run and trigger of
  the copy, or serves the trigger with a run, and in no case does both reject and
  serve (`Written`).
* `NothingIsForgotten`: `Spec => []NothingForgotten`, with no assumption. By itself
  it is not inductive: the last status update of a reconcile may leave the key out
  of the queue. `OutcomeAnswers` says that this update, when it writes an outcome,
  is about a job without a trigger or is a rejection; with `Written` the job it
  leaves is then one that needs nothing. It is the part of `Settles` that does not
  depend on fairness.
* `SettledInvariance`: `Spec => []SettledInv`. When the stored status is an outcome
  that serves the trigger, neither the informer's copy nor the worker's asks for a
  run. This is why outdated reads do less harm than they might: the worker that
  wrote the outcome had read the version before it (its own update would have been
  refused otherwise), so a cache that lags behind lags by that one write, and the
  version before did not ask for a run either.
* `OutcomeIsReported`: `Spec => []ReportedOutcome`, with no assumption. The invariant
  `OutcomeWritten` carries the outcome from the read of the run to the status
  update: between them the run may only be pruned, and its number used again
  only by a reconcile that this update precedes; `SettledInv` says that no run is
  created while an outcome is shown that serves the trigger.
* `ControllerImplementsContract`: with `MaxListErrors = 0` and
  `MaxStaleReads = 0`, `Spec => ImplementsContract`. Initial states map to
  initial states, and each action, with the invariants above, to a step of the
  contract or to a stutter.
* `RunsAreTracked`: with both bounds 0, `Spec => []ActiveRunTracked`. The
  invariant is `ServingAlone`: while a status that serves a trigger is about to
  be written, the run it names is the only one in progress. With `QuietInv` the
  trigger waits until that write, so that one that is refused or lost leaves it.
* `FinishedStays`: `Spec => FinishedStaysFinished`, with no assumption.
  `FinishedInv` says that a finished status names a run that is not in
  progress; `FinishedWritten` that a worker whose copy is finished is about to
  write another phase only if it serves a trigger the copy has not served.
* `RefIsOfTheRun`: with `MaxUid = 1`, `Spec => []OCIRefOfUneditedSpec`. `GenerationInv` says that a generation has one
  spec, for every copy of the BuildJob and every run made from one; `RefWritten`
  that a success is about to be written with the reference of the copy.
  Generations begin anew when a name is created again, and an adopted run of the
  earlier incarnation may then have the generation of a job with another
  destination: the theorem is about a name that is used once.
* `CreateIsFree`: with `MaxUid = 1`, `MaxPrunes = 0` and `MaxListErrors = 0`,
  `Spec => []CreateFindsFreeName`. The invariant `NumberInv` says that the runs that
  exist are numbered 1 to their count, that no status, stored, cached or about to
  be written, counts more, and that a worker about to create has the next number.
  Updates lost after a Create, adoptions and outdated counts are allowed: they
  leave `runCount` behind, never ahead.

`RunsAreTracked` and `ControllerImplementsContract` keep the assumption on outdated
reads because without it they are false: an outdated worker may create a run for a
trigger that was served, and nothing records that run (section 3).

`PipelineExecution_proof`, under `StagesAssumption`, for every set of stage names
and every number of stages: `TypeCorrect`, `TasksAreSequential`
(`OneTaskAtATime`), `StagesSeeSource`, `PublishedIsBuilt`, `RefIsPushed` and
`RefusedIsBad` (`OnlyBadSpecsRefused`). First what `BuildPipelineRun` makes of any
spec (`TaskShape`: at each position a task of the source, a stage, or a
publishing task; `EachWaits`: each but the first names the one before it, by
`runAfter` or by a result). Then `RunInv`: `InSequence` (a task was started only if
all before it succeeded), and what the results, the source tree and the things
published say of the tasks that ended. `RefusedIsBad` is about the builder alone:
a spec without the listed faults has distinct names, references that resolve,
and the order of the list as the order of the graph.

`ToolchainController_proof`, under `ToolchainAssumption` (bounds are naturals, at
least one second, generation and incarnation):

* `TypeCorrect`: `Spec => []TypeOK`, from `TypeInv`, built like that of the
  BuildJob controller.
* `ReadyIsBuilt`: `Spec => []ReadyMeansBuilt`. The invariant `ReportInv` says it of
  every status there is: the stored one, the informer's, the worker's copy and the
  one about to be written (`AllTrue`). A status that is true stays true because a
  TaskRun that succeeded changes no more (`SuccessStays`); its name could be taken
  again only in the second in it, and no build succeeds in that second
  (`NoEarlySuccess`, which `TektonEnds` assumes of Tekton).
* `BuiltStays`: `Spec => BuiltStaysReady`. `TakesBackGone`, also in the invariant:
  a worker that has read a reported build is about to write anything else only
  when it found the TaskRun gone. It holds of an outdated copy too: a TaskRun that
  succeeded and is gone stays gone.
* `BuildsAreLimited`: `Spec => []ParallelBuildsNeedFaults`. The number of running
  TaskRuns is not inductive by itself; `ClaimInv` counts with it the Toolchain
  that may still ask for a build (`StoredClaim`) and the worker that may still
  create one from a copy that has become outdated (`OutdatedClaim`), and bounds the
  sum by what edits and faults have paid for. A create gives up a claim; an edit, a
  fault or an outdated read makes at most one; the status update of a create takes
  the stored one away (`WriteSettles`).
* `NothingIsForgotten`: `Spec => []NothingForgotten`, with `LeavesResult`: a reconcile
  that is not coming back is about to write a result.
* `ControllerImplementsContract`: `Spec => ImplementsContract`, with no hypothesis: an
  outdated read may begin a build that is never shown, and `Begin` admits that,
  but it cannot change what is shown. The refinement takes `ReportInv`
  (`NoEarlySuccess`: a new TaskRun replaces none that succeeded), `ClaimInv`
  (`CreateWants`: a build is created for a Toolchain that may show one) and
  `DecidedInv`: a TaskRun is looked up only for a Toolchain that asks for a build,
  and a status about to be written has a phase. There is one lemma for each group
  of actions (`StartKeepsContract` to `TaskRunKeepsContract`).

  `BuiltStaysReady` is proved but not run: in the contract a build shown as built
  gives way only through `Observe`, which asks that its TaskRun be gone.

`CacheController_proof`, under `CacheAssumption`: `TypeCorrect`, and `RestIsTruth`:
`Spec => []RestIsTrue`. `CopiesOK` says what the two informers' copies are worth (one
that is not late is the stored object); `WriteIsTrue` carries the truth from
the read of the PVC to the status update: a status about to be written over a
current Cache, with nothing queued, late or to be retried, is true of the PVC.

`LocalSource_proof`: `TypeCorrect`, under `LocalSourceAssumption` and
`NoSourceAssumption`; and under `Orderly` (only uploads and switches run beside
other commands, no source is submitted while another is kept, an annotation can
be read) `SourceIsRecoverable`, `NextBuildIsSubmitted` (which also needs an `oc` or
`kubectl`) and `LocalBuildIsOwn`. `local_restore` shows what becomes of the first
without it. The invariant `SourceInv` says of each command, at each of its calls,
what the spec and the annotation are, wherever it fails; `OneAtATime` that no two
are between their first and last write of them. `TreeOK` adds which
parts of the directory were copied.

`BuildContract_proof`: `ContractOneAtATime` and `ContractSuccessIsTrue`, from the
invariant `ContractInv`, which says of a report what `SuccessIsTrue` says of what
is shown. They are what `BuildDelivery` relies on when it takes the contract for
the controller.

`BuildDelivery_proof`, under `DeliveryAssumption` (the uploaders are the runs) and
`RunsAssumption`, for every number of runs, files, triggers by others and faults:
`TypeCorrect`, `FilesAreOfTheRun` (`NoOlderFile`) and `FilesAreAllThere`
(`NoFileMissing`), from `DeliveryInv`. It extends `ContractInv`, since every step of
the composition is one of the contract or leaves its state alone
(`DeliveryKeepsContract`), and says that
only the last run can be in progress (`Numbered`), that no answer, however late,
shows a success that is none (`AnswersAreTrue`), that what the request in progress
has read is stored (`UploadsOK`), that an accepted upload stays until a later one
writes the same name (`StoreOK`), and so much of each file on its way to the user
(`FetchOK`). `ReportsTheTriggeredRun` (`SuccessIsOfTriggeredRun`) adds `OnlyAPI`, that
the command triggers through the API: then the trigger was written over the
version that is shown, and `WaitOK` says that an old run is shown only while the
trigger is due, and an old success only as it was before.

Every invariant and every action property of a passing run is stated by a theorem.
Model-checked only, and for good, are the liveness properties (`Settles` of both
controllers, `RunAtIsConsumed`, `WaitEnds`), which need fairness and ENABLED, out of
this prover's reach; and the four runs that show a disagreement, whose traces
are TLC's. The modules to be proved about use no recursion.

## 6. Not modelled

Not modelled: the read-only handlers and commands (history, logs, list, show,
verify, the download of the CLI binary), which make one request and render it; the
container build of `--local -f` and the download of OCI artifacts, which call
other programs and touch no shared state; `BuildConfig`, whose status is a pure
function of its spec; generated code, manifests, and wiring.
