------------------------- MODULE BuildJobController -------------------------
(***************************************************************************)
(* The BuildJob reconciler (internal/controller/buildjob_controller.go)    *)
(* between the API server, the informer cache it reads BuildJobs from,     *)
(* Tekton, the Build API handlers (internal/buildapi/server.go) and the    *)
(* users who edit the same objects with kubectl.                           *)
(*                                                                         *)
(* A reconcile is not atomic: it reads a cached BuildJob, reads            *)
(* PipelineRuns live, creates one, and writes the status back under a      *)
(* resourceVersion check.  Each request to the API server is a step here,  *)
(* and everything else may happen between two of them.                     *)
(*                                                                         *)
(* Abstractions.                                                           *)
(*   - A resourceVersion is kept as "is this copy the stored version":     *)
(*     cacheFresh for the informer's copy, copyFresh for the reconciler's. *)
(*     Every write of the BuildJob makes all other copies stale.           *)
(*   - The informer moves to the newest version in one step.               *)
(*   - The workqueue and its delayed requeues are one flag, queued: one    *)
(*     worker, and a key queued twice is processed once.                   *)
(***************************************************************************)
EXTENDS BuildJobObjects

CONSTANTS
    MaxEdits,      \* bound on writes of the spec or of run-at
    MaxCrashes,    \* bound on restarts of the operator process
    MaxApiErrors,  \* bound on reads, creates and status updates that fail
    MaxListErrors, \* bound on List requests that fail
    MaxPrunes,     \* bound on PipelineRuns deleted by a pruner or a user
    MaxStaleReads, \* bound on reconciles that read an outdated BuildJob
    MaxPVCFlips    \* bound on appearances and disappearances of the source PVC

ASSUME BudgetAssumption ==
    {MaxEdits, MaxCrashes, MaxApiErrors, MaxListErrors, MaxPrunes,
     MaxStaleReads, MaxPVCFlips} \subseteq Nat

VARIABLES
    bj,           \* the BuildJob in the store, NoJob when there is none
    uids,         \* incarnations of the name created so far
    pr,           \* pr[n]: the PipelineRun numbered n
    pvcs,         \* which of the PVCs "source" and "cache" exist
    clock,        \* the wall clock, in seconds
    cached,       \* the informer's copy of the BuildJob
    cacheFresh,   \* whether it is the stored version
    queued,       \* the key is in the workqueue, or will be when a delay ends
    pc,           \* where the reconcile in progress is
    copy,         \* the BuildJob it works on
    copyFresh,    \* whether it was read from the stored version
    run,          \* the PipelineRun it is about to create or to record
    next,         \* the status it is about to write
    intent,       \* which of the code's status updates that is
    activeBuilds, \* the bob_active_builds gauge of the namespace
    budget        \* environment events left

store == <<bj, uids, pr, pvcs, clock>>
worker == <<pc, copy, copyFresh, run, next, intent>>
vars == <<bj, uids, pr, pvcs, clock, cached, cacheFresh, queued,
          pc, copy, copyFresh, run, next, intent, activeBuilds, budget>>

PCs == {"idle", "fetch", "find", "prepare", "create", "write"}
Intents == {"none", "sync", "missing", "adopt", "reject", "created"}
Events == {"edit", "crash", "api", "list", "prune", "stale", "pvc"}

TypeOK ==
    /\ bj \in BuildJobs \cup {NoJob}
    /\ uids \in 0..MaxUid
    /\ pr \in [Runs -> RunRecords]
    /\ pvcs \subseteq {"source", "cache"}
    /\ clock \in 1..MaxTime
    /\ cached \in BuildJobs \cup {NoJob}
    /\ cacheFresh \in BOOLEAN
    /\ queued \in BOOLEAN
    /\ pc \in PCs
    /\ copy \in BuildJobs \cup {NoJob}
    /\ copyFresh \in BOOLEAN
    /\ run \in 0..MaxRun
    /\ next \in StatusType
    /\ intent \in Intents
    /\ activeBuilds \in Int
    /\ budget \in [Events -> Nat]

Init ==
    /\ bj = NoJob
    /\ uids = 0
    /\ pr = [n \in Runs |-> NoRun]
    /\ pvcs = {}
    /\ clock = 1
    /\ cached = NoJob
    /\ cacheFresh = TRUE
    /\ queued = FALSE
    /\ pc = "idle"
    /\ copy = NoJob
    /\ copyFresh = FALSE
    /\ run = 0
    /\ next = EmptyStatus
    /\ intent = "none"
    /\ activeBuilds = 0
    /\ budget = [edit |-> MaxEdits, crash |-> MaxCrashes, api |-> MaxApiErrors,
                 list |-> MaxListErrors, prune |-> MaxPrunes, stale |-> MaxStaleReads,
                 pvc |-> MaxPVCFlips]

Spend(event) ==
    /\ budget[event] > 0
    /\ budget' = [budget EXCEPT ![event] = @ - 1]

(* The existing PipelineRuns that carry the job's label: it holds the      *)
(* job's name only, so those of an earlier incarnation are among them.     *)
Existing == {n \in Runs : pr[n].exists}

FaultyActiveRuns == {n \in Runs : pr[n].exists /\ pr[n].state = "running"}
FaultyActiveRunsOfOwner == {n \in Runs : Active(pr[n]) /\ pr[n].uid = copy.uid}

(* findActivePipelineRun: the labelled runs that have not terminated. *)
ActiveRuns == {n \in Runs : Active(pr[n])}

(* A write of the BuildJob.  The API server drops one that changes nothing. *)
Store(new) ==
    /\ bj' = new
    /\ IF new = bj
         THEN UNCHANGED <<cacheFresh, copyFresh>>
         ELSE cacheFresh' = FALSE /\ copyFresh' = FALSE

-----------------------------------------------------------------------------
(* The reconciler *)

FaultyFinish(later) ==
    /\ pc' = "idle" /\ copy' = NoJob /\ copyFresh' = FALSE
    /\ run' = 0 /\ next' = EmptyStatus /\ intent' = "none"
    /\ UNCHANGED queued

(* The reconcile ends; later says whether the key is to be retried. *)
Finish(later) ==
    /\ pc' = "idle"
    /\ copy' = NoJob
    /\ copyFresh' = FALSE
    /\ run' = 0
    /\ next' = EmptyStatus
    /\ intent' = "none"
    /\ queued' = (queued \/ later)

(* Reconcile reads the BuildJob from the informer's cache, which may be an *)
(* outdated one, and decides.                                              *)
ReconcileStart ==
    /\ pc = "idle"
    /\ queued
    /\ queued' = FALSE
    /\ IF cacheFresh THEN UNCHANGED budget ELSE Spend("stale")
    /\ IF cached = NoJob
         THEN UNCHANGED worker
         ELSE /\ copy' = cached
              /\ copyFresh' = cacheFresh
              /\ pc' = IF NeedsNewRun(cached) THEN "find" ELSE "fetch"
              /\ UNCHANGED <<run, next, intent>>
    /\ UNCHANGED <<store, cached, cacheFresh, activeBuilds>>

(* The status update that is to follow; Finish or Record completes it. *)
Intend(what, n, status) ==
    /\ pc' = "write"
    /\ intent' = what
    /\ run' = n
    /\ next' = status

(* Reconcile reads the recorded PipelineRun, live. *)
FetchRun ==
    /\ pc = "fetch"
    /\ LET n == copy.status.current IN
         IF pr[n].exists
           THEN Intend("sync", n, SyncStatus(copy, n, pr[n], clock))
           ELSE Intend("missing", n, FailedStatus(copy, "PipelineRunNotFound", clock))
    /\ UNCHANGED <<store, cached, cacheFresh, queued, copy, copyFresh, activeBuilds, budget>>

(* findActivePipelineRun: the first PipelineRun that has not terminated is *)
(* adopted.                                                                *)
FindActive ==
    /\ pc = "find"
    /\ \/ \E n \in ActiveRuns : Intend("adopt", n, AdoptStatus(copy, n, pr[n], clock))
       \/ /\ ActiveRuns = {}
          /\ pc' = "prepare"
          /\ UNCHANGED <<run, next, intent>>
    /\ UNCHANGED <<store, cached, cacheFresh, queued, copy, copyFresh, activeBuilds, budget>>

(* findActivePipelineRun takes a failed List for "none is active". *)
FindFails ==
    /\ pc = "find"
    /\ Spend("list")
    /\ pc' = "prepare"
    /\ UNCHANGED <<store, cached, cacheFresh, queued, copy, copyFresh, run, next, intent, activeBuilds>>

(* ensureCachePVCs: the shared cache PVC is created when a job needs it. *)
EnsureCachePVCs(b) == pvcs' = IF b.spec.caches THEN pvcs \cup {"cache"} ELSE pvcs

(* ensureCachePVCs, the checks, and then the number of the run to create: *)
(* nextRunNumber falls back to RunCount when its List fails.              *)
Prepare ==
    /\ pc = "prepare"
    /\ EnsureCachePVCs(copy)
    /\ LET why == Rejection(copy, pvcs) IN
         \/ /\ why # ""
            /\ Intend("reject", 0, FailedStatus(copy, why, clock))
            /\ UNCHANGED budget
         \/ /\ why = ""
            /\ pc' = "create"
            /\ \/ run' = NextRunNumber(copy, Cardinality(Existing)) /\ UNCHANGED budget
               \/ run' = copy.status.runCount + 1 /\ Spend("list")
            /\ run' <= MaxRun
            /\ UNCHANGED <<next, intent>>
    /\ UNCHANGED <<bj, uids, pr, clock, cached, cacheFresh, queued, copy, copyFresh, activeBuilds>>

(* BuildPipelineRunWithConfig and Create: the API server refuses a name *)
(* that exists.  The run is owned by the incarnation that was read.     *)
CreateRun ==
    /\ pc = "create"
    /\ IF pr[run].exists
         THEN /\ Finish(TRUE)
              /\ UNCHANGED pr
         ELSE /\ pr' = [pr EXCEPT ![run] =
                   [exists |-> TRUE, state |-> "pending", uid |-> copy.uid, gen |-> copy.gen,
                    oci |-> copy.spec.oci = "on", git |-> copy.spec.source = "git",
                    runAt |-> copy.runAt]]
              /\ queued' = TRUE
              /\ Intend("created", run, CreatedStatus(copy, run, clock))
              /\ UNCHANGED <<copy, copyFresh>>
    /\ UNCHANGED <<bj, uids, pvcs, clock, cached, cacheFresh, activeBuilds, budget>>

(* Reading the run, creating the cache PVC or creating the run fails: the   *)
(* reconcile returns the error and is retried.  (A Create that took effect  *)
(* without an answer is CreateRun followed by WriteFails.)                  *)
RequestFails ==
    /\ \/ pc \in {"fetch", "create"}
       \/ pc = "prepare" /\ copy.spec.caches
    /\ Spend("api")
    /\ Finish(TRUE)
    /\ UNCHANGED <<store, cached, cacheFresh, activeBuilds>>

(* The gauge after a status update took effect: a created run counts up,   *)
(* a phase that a sync moved to Succeeded or Failed counts down.           *)
Gauge ==
    IF intent = "created" THEN activeBuilds + 1
    ELSE IF /\ intent = "sync"
            /\ next.phase # copy.status.phase
            /\ next.phase \in {"Succeeded", "Failed"}
         THEN activeBuilds - 1
    ELSE activeBuilds

(* Status().Update with a current resourceVersion.  The reconcile asks for *)
(* another pass while the run is on, and the change itself is an event.    *)
WriteStatus ==
    /\ pc = "write"
    /\ copyFresh
    /\ bj' = [bj EXCEPT !.status = next]
    /\ cacheFresh' = (cacheFresh /\ bj' = bj)
    /\ activeBuilds' = Gauge
    /\ Finish(next.phase \in {"Pending", "Running"})
    /\ UNCHANGED <<uids, pr, pvcs, clock, cached, budget>>

(* The update is refused, because the BuildJob was written or deleted since *)
(* it was read, or it fails: every path of the code retries the key, and    *)
(* the gauge is left alone.                                                 *)
WriteRefused ==
    /\ pc = "write"
    /\ ~copyFresh
    /\ Finish(TRUE)
    /\ UNCHANGED <<store, cached, cacheFresh, activeBuilds, budget>>

WriteFails ==
    /\ pc = "write"
    /\ Spend("api")
    /\ Finish(TRUE)
    /\ UNCHANGED <<store, cached, cacheFresh, activeBuilds>>

(* The operator process dies and another starts: the reconcile is lost, the *)
(* gauge starts from zero, the informer lists the store and queues what it  *)
(* finds.                                                                   *)
Restart ==
    /\ Spend("crash")
    /\ pc' = "idle"
    /\ copy' = NoJob
    /\ copyFresh' = FALSE
    /\ run' = 0
    /\ next' = EmptyStatus
    /\ intent' = "none"
    /\ queued' = (bj # NoJob)
    /\ cached' = bj
    /\ cacheFresh' = TRUE
    /\ activeBuilds' = 0
    /\ UNCHANGED store

(* The watch delivers the stored version to the informer: an event of the key. *)
CacheSync ==
    /\ ~cacheFresh
    /\ cached' = bj
    /\ cacheFresh' = TRUE
    /\ queued' = TRUE
    /\ UNCHANGED <<store, worker, activeBuilds, budget>>

-----------------------------------------------------------------------------
(* Users, through the Build API and through kubectl *)

UserStep == UNCHANGED <<pr, pvcs, clock, cached, queued, pc, copy, run, next, intent, activeBuilds>>

(* handleCreate of a name that does not exist: no run-at annotation. *)
HandleCreateNew ==
    /\ Spend("edit")
    /\ bj = NoJob
    /\ uids < MaxUid
    /\ uids' = uids + 1
    /\ \E s \in Specs : Store([uid |-> uids', gen |-> 1, spec |-> s,
                               runAt |-> 0, status |-> EmptyStatus])
    /\ UserStep

(* The version of the BuildJob with another spec. *)
WithSpec(b, s) == IF s = b.spec THEN b ELSE [b EXCEPT !.spec = s, !.gen = @ + 1]

(* handleCreate of a name that exists: the spec is replaced and run-at set  *)
(* to the current second.  The handler reads from the same informer and its *)
(* Update is refused unless that copy is current.                           *)
HandleCreateExisting ==
    /\ Spend("edit")
    /\ bj # NoJob /\ cacheFresh
    /\ \E s \in Specs :
         /\ s # bj.spec => bj.gen < MaxGen
         /\ Store([WithSpec(bj, s) EXCEPT !.runAt = clock])
    /\ UNCHANGED uids
    /\ UserStep

(* handleRun: run-at is set to the current second. *)
HandleRun ==
    /\ Spend("edit")
    /\ bj # NoJob /\ cacheFresh
    /\ Store([bj EXCEPT !.runAt = clock])
    /\ UNCHANGED uids
    /\ UserStep

(* "kubectl annotate" by the CLI: the same without a resourceVersion. *)
AnnotateRunAt ==
    /\ Spend("edit")
    /\ bj # NoJob
    /\ Store([bj EXCEPT !.runAt = clock])
    /\ UNCHANGED uids
    /\ UserStep

(* "kubectl patch" of the spec by the CLI or a user: no run-at. *)
PatchSpec ==
    /\ Spend("edit")
    /\ bj # NoJob
    /\ bj.gen < MaxGen
    /\ \E s \in Specs \ {bj.spec} : Store(WithSpec(bj, s))
    /\ UNCHANGED uids
    /\ UserStep

(* handleDelete looks the job up in the cache and deletes by name.  *)
HandleDelete ==
    /\ Spend("edit")
    /\ bj # NoJob /\ cached # NoJob
    /\ Store(NoJob)
    /\ UNCHANGED uids
    /\ UserStep

-----------------------------------------------------------------------------
(* Tekton, the garbage collector, and the clock *)

(* A change of a PipelineRun is an event of the BuildJob that owns it: the *)
(* owner reference is followed by name.                                    *)
RunEvent(n, r) ==
    /\ pr' = [pr EXCEPT ![n] = r]
    /\ queued' = TRUE
    /\ UNCHANGED <<bj, uids, pvcs, clock, cached, cacheFresh, worker, activeBuilds>>

TektonStarts(n) ==
    /\ pr[n].exists /\ pr[n].state = "pending"
    /\ RunEvent(n, [pr[n] EXCEPT !.state = "running"])
    /\ UNCHANGED budget

TektonEnds(n) ==
    /\ Active(pr[n])
    /\ \E s \in {"succeeded", "failed"} : RunEvent(n, [pr[n] EXCEPT !.state = s])
    /\ UNCHANGED budget

(* A pruner or a user deletes a PipelineRun. *)
Prune(n) ==
    /\ pr[n].exists
    /\ Spend("prune")
    /\ RunEvent(n, [pr[n] EXCEPT !.exists = FALSE])

(* Background garbage collection: the incarnation that owned it is gone. *)
Collect(n) ==
    /\ pr[n].exists
    /\ pr[n].uid # bj.uid
    /\ RunEvent(n, [pr[n] EXCEPT !.exists = FALSE])
    /\ UNCHANGED budget

(* The source PVC appears or disappears; the controller does not watch it. *)
FlipPVC ==
    /\ Spend("pvc")
    /\ pvcs' = IF "source" \in pvcs THEN pvcs \ {"source"} ELSE pvcs \cup {"source"}
    /\ UNCHANGED <<bj, uids, pr, clock, cached, cacheFresh, queued, worker, activeBuilds>>

Tick ==
    /\ clock < MaxTime
    /\ clock' = clock + 1
    /\ UNCHANGED <<bj, uids, pr, pvcs, cached, cacheFresh, queued, worker, activeBuilds, budget>>

(* The periodic resync of the informer queues every key it holds. *)
Resync ==
    /\ cached # NoJob
    /\ ~queued
    /\ queued' = TRUE
    /\ UNCHANGED <<store, cached, cacheFresh, worker, activeBuilds, budget>>

-----------------------------------------------------------------------------
Reconcile ==
    \/ ReconcileStart \/ FetchRun \/ FindActive \/ Prepare \/ CreateRun
    \/ WriteStatus \/ WriteRefused

Fault == FindFails \/ RequestFails \/ WriteFails \/ Restart

User ==
    \/ HandleCreateNew \/ HandleCreateExisting \/ HandleRun \/ HandleDelete
    \/ AnnotateRunAt \/ PatchSpec

Environment ==
    \/ \E n \in Runs : TektonStarts(n) \/ TektonEnds(n) \/ Prune(n) \/ Collect(n)
    \/ CacheSync \/ FlipPVC \/ Tick \/ Resync

Next == Reconcile \/ Fault \/ User \/ Environment

Spec == Init /\ [][Next]_vars

(* One worker takes the key whenever it is queued, the watch delivers, and *)
(* Tekton ends every run (each PipelineRun has a timeout).                 *)
Fairness ==
    /\ WF_vars(Reconcile)
    /\ WF_vars(CacheSync)
    /\ \A n \in Runs : WF_vars(TektonEnds(n))

FairSpec == Spec /\ Fairness

-----------------------------------------------------------------------------
(* Safety *)

(* A BuildJob never has two PipelineRuns in progress, across restarts,     *)
(* stale reads, refused updates and re-created jobs: findActivePipelineRun *)
(* and Create are separate requests, and nothing but the single worker     *)
(* keeps a second run from appearing between them.  It needs List requests *)
(* that do not fail (MaxListErrors = 0).                                   *)
AtMostOneActiveRun ==
    \A m, n \in Runs : Active(pr[m]) /\ Active(pr[n]) => m = n

(* PipelineRuns in progress side by side: each one beyond the first takes  *)
(* a List that failed and was taken for "none is active".  A failure lets  *)
(* one more run start and no more, however the reconcile that met it ends. *)
ParallelRunsNeedListErrors ==
    Cardinality({n \in Runs : Active(pr[n])}) <= 1 + (MaxListErrors - budget["list"])

(* The run a reconcile is about to create has a name of its own, though    *)
(* RunCount misses runs that were created and not recorded: the runs that  *)
(* exist are counted too.  Needs runs that nobody deletes, Lists that do   *)
(* not fail and a name used once (MaxPrunes = MaxListErrors = 0,           *)
(* MaxUid = 1): otherwise Create is refused, and tried again for ever.     *)
CreateFindsFreeName ==
    bj # NoJob /\ pc = "create" => ~pr[run].exists

(* What syncStatusFromPipelineRun reports stays true of the run the status *)
(* names: "Succeeded" only of a run that succeeded, a build failure only   *)
(* of a run that failed.  A status that waits for a newer trigger is       *)
(* exempt: the number of a pruned run is used again when RunCount missed   *)
(* the run (adoption does not count it).                                   *)
ReportedOutcome ==
    bj # NoJob /\ ~NeedsNewRun(bj) =>
        /\ bj.status.phase = "Succeeded" => pr[bj.status.current].state = "succeeded"
        /\ bj.status.phase = "Failed" /\ bj.status.reason = "BuildFailed" =>
               pr[bj.status.current].state = "failed"

(* A finished run is never reported as in progress again: the status       *)
(* leaves Succeeded or Failed only for another run or another trigger.     *)
FinishedStaysFinished ==
    [][ /\ bj # NoJob /\ bj'.uid = bj.uid
        /\ bj.status.current # 0
        /\ bj.status.phase \in {"Succeeded", "Failed"}
        /\ bj'.status.phase \in {"Pending", "Running"}
        => \/ bj'.status.current # bj.status.current
           \/ bj'.status.lastRunAt # bj.status.lastRunAt ]_vars

(* Every run in progress, of this or an earlier incarnation, is the one    *)
(* recorded, or a trigger still waits and the next reconcile will look for *)
(* a run to adopt: also when the run was created and nothing recorded it.  *)
ActiveRunTracked ==
    bj # NoJob =>
        \A n \in Runs : Active(pr[n]) => bj.status.current = n \/ NeedsNewRun(bj)

(* The OCI reference the status shows is the one the run pushed to, as     *)
(* long as the spec was not edited since the run was created: the pipeline *)
(* computes it at creation, syncStatusFromPipelineRun again at each sync.  *)
OCIRefOfUneditedSpec ==
    bj # NoJob /\ ~NeedsNewRun(bj) /\ bj.status.phase = "Succeeded" =>
        LET r == pr[bj.status.current] IN
        r.oci /\ r.gen = bj.gen => bj.status.ociRef = r.gen

(* A job the controller rejected stays due: the trigger is not consumed,   *)
(* so that the next event of the job tries again.                          *)
RejectedStaysDue ==
    bj # NoJob /\ bj.status.phase = "Failed"
        /\ bj.status.reason \in {"SourcePVCNotFound", "InvalidOCIConfig", "UnsupportedArchitecture"}
        => NeedsNewRun(bj)

(* No wake-up is lost.  A job with a trigger to answer or an outcome to    *)
(* wait for is in the queue, in the worker's hands, or in an event of the  *)
(* watch that is still to come; only a job that was rejected, or whose     *)
(* outcome is shown, is left alone.  The queue is emptied by taking a key, *)
(* not by serving it, and each path of the reconcile puts it back, or not, *)
(* by itself.                                                              *)
Unanswered ==
    /\ bj # NoJob
    /\ \/ bj.status.phase \notin {"Succeeded", "Failed"}
       \/ /\ NeedsNewRun(bj)
          /\ ~ /\ bj.status.phase = "Failed"
               /\ bj.status.reason \in {"SourcePVCNotFound", "InvalidOCIConfig",
                                        "UnsupportedArchitecture"}

NothingForgotten == Unanswered => queued \/ pc # "idle" \/ ~cacheFresh

-----------------------------------------------------------------------------
(* Liveness *)

(* When users and faults stop, the status comes to rest on an outcome.     *)
Settles == <>[](bj = NoJob \/ bj.status.phase \in {"Succeeded", "Failed"})

(* A run-at annotation is eventually recorded as LastRunAt, unless the job *)
(* is deleted.                                                             *)
RunAtIsConsumed ==
    \A t \in 1..MaxTime :
        (bj # NoJob /\ bj.runAt = t) ~>
            (bj = NoJob \/ bj.runAt # t \/ bj.status.lastRunAt = t)

-----------------------------------------------------------------------------
(* What the repository says of the program, and the program does not keep *)

(* "Bump an annotation to trigger a new reconciliation / PipelineRun       *)
(* generation": the run recorded for a run-at was created for it.          *)
RunAtStartsRun ==
    bj # NoJob /\ bj.status.lastRunAt # 0 =>
        pr[bj.status.current].runAt = bj.status.lastRunAt

-----------------------------------------------------------------------------
(* What all of this implements *)

(* A status update that is ready, and that would not be refused. *)
ReadyReport ==
    IF pc = "write" /\ copyFresh
      THEN [run |-> next.current, phase |-> next.phase, serves |-> intent \in {"adopt", "created"}]
      ELSE [run |-> 0, phase |-> "", serves |-> FALSE]

Contract == INSTANCE BuildContract WITH
    job    <- bj # NoJob,
    due    <- bj # NoJob /\ NeedsNewRun(bj),
    build  <- [n \in Runs |-> pr[n].state],
    kept   <- Existing,
    shown  <- IF bj = NoJob THEN [run |-> 0, phase |-> ""]
                            ELSE [run |-> bj.status.current, phase |-> bj.status.phase],
    report <- ReadyReport

(* Whatever the reconciler, users, Tekton and the faults do, a reader sees *)
(* the contract kept: triggers answered one at a time and only with builds *)
(* that were in progress since, one build at a time, outcomes read from    *)
(* builds, and no trigger dropped.  Needs reads of current                 *)
(* BuildJobs and Lists that do not fail (MaxStaleReads = MaxListErrors = 0). *)
ImplementsContract == Contract!ContractSpec
=============================================================================
