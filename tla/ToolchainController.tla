------------------------- MODULE ToolchainController -------------------------
(***************************************************************************)
(* The Toolchain reconciler (internal/controller/toolchain_controller.go): *)
(* a Toolchain with spec.build gets a TaskRun that builds and pushes its   *)
(* image, one without is Ready at once.                                    *)
(*                                                                         *)
(* As in BuildJobController, every request to the API server is a step, a  *)
(* resourceVersion is kept as the freshness of a copy, and the environment *)
(* has a budget of edits and faults.  TaskRun "tc-<name>-<unix time>" is   *)
(* the second in its name, so two creates in one second collide.           *)
(***************************************************************************)
EXTENDS Integers, FiniteSets

CONSTANTS
    MaxTime,       \* seconds of the wall clock are 1..MaxTime
    MaxGen,        \* metadata.generation of the Toolchain is 1..MaxGen
    MaxUid,        \* incarnations of the name are 1..MaxUid
    MaxEdits,      \* bound on creations, edits and deletions
    MaxFaults,     \* bound on restarts of the operator, requests that fail, and
                   \* reconciles that read an outdated Toolchain
    MaxPrunes      \* bound on TaskRuns deleted by a pruner or a user

ASSUME ToolchainAssumption ==
    /\ {MaxTime, MaxGen, MaxUid} \subseteq Nat \ {0}
    /\ {MaxEdits, MaxFaults, MaxPrunes} \subseteq Nat

VARIABLES
    tc,          \* the Toolchain in the store, NoToolchain when there is none
    uids,        \* incarnations of the name created so far
    tr,          \* tr[s]: the TaskRun created in second s
    clock,       \* the wall clock, in seconds
    cached,      \* the informer's copy of the Toolchain
    cacheFresh,  \* whether it is the stored version
    queued,      \* the key is in the workqueue, or will be when a delay ends
    pc,          \* where the reconcile in progress is
    copy,        \* the Toolchain it works on
    copyFresh,   \* whether it was read from the stored version
    next,        \* the status it is about to write
    retry,       \* whether the key is queued again after the write
    budget       \* environment events left

worker == <<pc, copy, copyFresh, next, retry>>
store == <<tc, uids, tr, clock>>
vars == <<tc, uids, tr, clock, cached, cacheFresh, queued, pc, copy, copyFresh, next, retry,
          budget>>

Seconds == 1..MaxTime
Events == {"edit", "fault", "prune"}
Phases == {"", "Building", "Ready", "Failed"}
Reasons == {"", "ExternalImage", "TaskRunMissing", "BuildSucceeded", "BuildFailed", "Building"}

(* status.phase, currentBuildRun, and the reason and second of the Ready   *)
(* condition.  lastBuildTime changes with that second, and is left out; so *)
(* is resolvedDigest: the TaskRun declares no result, and it stays empty.  *)
StatusType == [phase : Phases, run : 0..MaxTime, reason : Reasons, at : 0..MaxTime]
EmptyStatus == [phase |-> "", run |-> 0, reason |-> "", at |-> 0]

(* build: whether spec.build is set. *)
Toolchains == [uid : 1..MaxUid, gen : 1..MaxGen, build : BOOLEAN, status : StatusType]
NoToolchain == [uid |-> 0]

(* uid, gen: the Toolchain it was created for. *)
TaskRuns == [exists : BOOLEAN, state : {"running", "succeeded", "failed"},
             uid : 0..MaxUid, gen : 0..MaxGen]
NoTaskRun == [exists |-> FALSE, state |-> "failed", uid |-> 0, gen |-> 0]

TypeOK ==
    /\ tc \in Toolchains \cup {NoToolchain}
    /\ uids \in 0..MaxUid
    /\ tr \in [Seconds -> TaskRuns]
    /\ clock \in Seconds
    /\ cached \in Toolchains \cup {NoToolchain}
    /\ cacheFresh \in BOOLEAN /\ queued \in BOOLEAN /\ copyFresh \in BOOLEAN
    /\ pc \in {"idle", "fetch", "create", "write"}
    /\ copy \in Toolchains \cup {NoToolchain}
    /\ next \in StatusType
    /\ retry \in BOOLEAN
    /\ budget \in [Events -> Nat]

Init ==
    /\ tc = NoToolchain
    /\ uids = 0
    /\ tr = [s \in Seconds |-> NoTaskRun]
    /\ clock = 1
    /\ cached = NoToolchain /\ cacheFresh = TRUE
    /\ queued = FALSE
    /\ pc = "idle" /\ copy = NoToolchain /\ copyFresh = FALSE
    /\ next = EmptyStatus /\ retry = FALSE
    /\ budget = [edit |-> MaxEdits, fault |-> MaxFaults, prune |-> MaxPrunes]

Spend(event) ==
    /\ budget[event] > 0
    /\ budget' = [budget EXCEPT ![event] = @ - 1]

Building == {s \in Seconds : tr[s].exists /\ tr[s].state = "running"}

-----------------------------------------------------------------------------
(* The reconciler.  Faulty... are plausible mistakes in the definition that *)
(* follows, used to show that a property can fail.                          *)

FaultyFinish(later) ==
    /\ pc' = "idle" /\ copy' = NoToolchain /\ copyFresh' = FALSE
    /\ next' = EmptyStatus /\ retry' = FALSE
    /\ UNCHANGED queued

(* The reconcile ends; later says whether the key is to be retried. *)
Finish(later) ==
    /\ pc' = "idle" /\ copy' = NoToolchain /\ copyFresh' = FALSE
    /\ next' = EmptyStatus /\ retry' = FALSE
    /\ queued' = (queued \/ later)

Intend(status, later) == pc' = "write" /\ next' = status /\ retry' = later

(* Reconcile: spec.build == nil.  CurrentBuildRun is left as it is. *)
ExternalStatus(t) ==
    [t.status EXCEPT !.phase = "Ready", !.reason = "ExternalImage", !.at = clock]

(* Reconcile reads the cached Toolchain and decides what to do with it:    *)
(* nothing for a Ready external image or a failed build, whatever the spec *)
(* now says.                                                               *)
ReconcileStart ==
    /\ pc = "idle" /\ queued
    /\ queued' = FALSE
    /\ IF cacheFresh THEN UNCHANGED budget ELSE Spend("fault")
    /\ LET t == cached
           Take == copy' = t /\ copyFresh' = cacheFresh
       IN \/ /\ \/ t = NoToolchain
                \/ t # NoToolchain /\ ~t.build /\ t.status.phase = "Ready"
                \/ t # NoToolchain /\ t.build /\ t.status.run = 0 /\ t.status.phase = "Failed"
             /\ UNCHANGED worker
          \/ /\ t # NoToolchain /\ ~t.build /\ t.status.phase # "Ready"
             /\ Take /\ Intend(ExternalStatus(t), FALSE)
          \/ /\ t # NoToolchain /\ t.build /\ t.status.run # 0
             /\ Take /\ pc' = "fetch" /\ UNCHANGED <<next, retry>>
          \/ /\ t # NoToolchain /\ t.build /\ t.status.run = 0 /\ t.status.phase # "Failed"
             /\ Take /\ pc' = "create" /\ UNCHANGED <<next, retry>>
    /\ UNCHANGED <<store, cached, cacheFresh>>

FaultySucceededStatus(t) ==
    [t.status EXCEPT !.phase = "Ready", !.run = 0, !.reason = "BuildSucceeded", !.at = clock]

(* The TaskRun succeeded.  CurrentBuildRun stays, so that every later      *)
(* reconcile comes through here again.                                     *)
SucceededStatus(t) ==
    [t.status EXCEPT !.phase = "Ready", !.reason = "BuildSucceeded", !.at = clock]

FaultyFailedStatus(t, why) ==
    [t.status EXCEPT !.phase = why, !.run = 0, !.reason = "Building", !.at = clock]

(* The TaskRun failed or is gone: the recorded run is given up. *)
FailedStatus(t, why) ==
    [t.status EXCEPT !.phase = "Failed", !.run = 0, !.reason = why, !.at = clock]

FaultyTaskRunPhase(r) == IF r.state = "failed" THEN "Failed" ELSE "Succeeded"

(* taskRunPhase: without a Succeeded condition that is True or False the   *)
(* TaskRun is running.                                                     *)
TaskRunPhase(r) ==
    CASE r.state = "succeeded" -> "Succeeded"
      [] r.state = "failed" -> "Failed"
      [] r.state = "running" -> "Running"

(* Reconcile reads the recorded TaskRun, live. *)
FetchTaskRun ==
    /\ pc = "fetch"
    /\ LET s == copy.status.run IN
         \/ /\ ~tr[s].exists
            /\ Intend(FailedStatus(copy, "TaskRunMissing"), FALSE)
            /\ UNCHANGED <<copy, copyFresh, queued>>
         \/ /\ tr[s].exists /\ TaskRunPhase(tr[s]) = "Succeeded"
            /\ Intend(SucceededStatus(copy), FALSE)
            /\ UNCHANGED <<copy, copyFresh, queued>>
         \/ /\ tr[s].exists /\ TaskRunPhase(tr[s]) = "Failed"
            /\ Intend(FailedStatus(copy, "BuildFailed"), FALSE)
            /\ UNCHANGED <<copy, copyFresh, queued>>
         \/ /\ tr[s].exists /\ TaskRunPhase(tr[s]) = "Running"
            /\ Finish(TRUE)
    /\ UNCHANGED <<store, cached, cacheFresh, budget>>

FaultyCreatedStatus(t, s) ==
    [t.status EXCEPT !.phase = "Building", !.reason = "Building", !.at = clock]

CreatedStatus(t, s) ==
    [t.status EXCEPT !.phase = "Building", !.run = s, !.reason = "Building", !.at = clock]

(* buildTaskRun and SetControllerReference. *)
NewTaskRun(t) == [exists |-> TRUE, state |-> "running", uid |-> t.uid, gen |-> t.gen]

(* Create: a TaskRun of the same second is taken for this reconcile's own, *)
(* whichever Toolchain owns it.                                            *)
CreateTaskRun ==
    /\ pc = "create"
    /\ IF tr[clock].exists
         THEN /\ Intend([copy.status EXCEPT !.phase = "Building", !.run = clock], TRUE)
              /\ UNCHANGED <<tr, queued>>
         ELSE /\ tr' = [tr EXCEPT ![clock] = NewTaskRun(copy)]
              /\ queued' = TRUE
              /\ Intend(CreatedStatus(copy, clock), TRUE)
    /\ UNCHANGED <<tc, uids, clock, cached, cacheFresh, copy, copyFresh, budget>>

(* Reading or creating the TaskRun fails otherwise. *)
RequestFails ==
    /\ pc \in {"fetch", "create"}
    /\ Spend("fault")
    /\ Finish(TRUE)
    /\ UNCHANGED <<store, cached, cacheFresh>>

WriteStatus ==
    /\ pc = "write" /\ copyFresh
    /\ tc' = [tc EXCEPT !.status = next]
    /\ cacheFresh' = (cacheFresh /\ tc' = tc)
    /\ Finish(retry)
    /\ UNCHANGED <<uids, tr, clock, cached, budget>>

(* A refused or failed update: the error, or a RequeueAfter, retries. *)
WriteRefused ==
    /\ pc = "write" /\ ~copyFresh
    /\ Finish(TRUE)
    /\ UNCHANGED <<store, cached, cacheFresh, budget>>

WriteFails ==
    /\ pc = "write"
    /\ Spend("fault")
    /\ Finish(TRUE)
    /\ UNCHANGED <<store, cached, cacheFresh>>

-----------------------------------------------------------------------------
(* The environment *)

Restart ==
    /\ Spend("fault")
    /\ pc' = "idle" /\ copy' = NoToolchain /\ copyFresh' = FALSE
    /\ next' = EmptyStatus /\ retry' = FALSE
    /\ queued' = (tc # NoToolchain)
    /\ cached' = tc /\ cacheFresh' = TRUE
    /\ UNCHANGED store

CacheSync ==
    /\ ~cacheFresh
    /\ cached' = tc /\ cacheFresh' = TRUE
    /\ queued' = TRUE
    /\ UNCHANGED <<store, worker, budget>>

(* Users. *)
UserWrites ==
    /\ Spend("edit")
    /\ cacheFresh' = FALSE /\ copyFresh' = FALSE
    /\ UNCHANGED <<tr, clock, cached, queued, pc, copy, next, retry>>

CreateToolchain ==
    /\ tc = NoToolchain
    /\ uids < MaxUid
    /\ \E b \in BOOLEAN :
         tc' = [uid |-> uids + 1, gen |-> 1, build |-> b, status |-> EmptyStatus]
    /\ uids' = uids + 1
    /\ UserWrites

EditSpec ==
    /\ tc # NoToolchain /\ tc.gen < MaxGen
    /\ \E b \in BOOLEAN : tc' = [tc EXCEPT !.gen = @ + 1, !.build = b]
    /\ UNCHANGED uids
    /\ UserWrites

DeleteToolchain ==
    /\ tc # NoToolchain
    /\ tc' = NoToolchain
    /\ UNCHANGED uids
    /\ UserWrites

(* Tekton, the pruner and the garbage collector; a change of a TaskRun     *)
(* queues the key of its owner, which is the owner's name.                 *)
TaskRunEvent(s, r) ==
    /\ tr' = [tr EXCEPT ![s] = r]
    /\ queued' = TRUE
    /\ UNCHANGED <<tc, uids, clock, cached, cacheFresh, worker>>

(* No image is built in the second its TaskRun was created in. *)
TektonEnds(s) ==
    /\ s \in Building
    /\ \E e \in {"succeeded", "failed"} :
         /\ e = "succeeded" => s < clock
         /\ TaskRunEvent(s, [tr[s] EXCEPT !.state = e])
    /\ UNCHANGED budget

Prune(s) ==
    /\ tr[s].exists
    /\ Spend("prune")
    /\ TaskRunEvent(s, [tr[s] EXCEPT !.exists = FALSE])

(* A TaskRun is owned by one incarnation, and deleted when it is gone. *)
Collect(s) ==
    /\ tr[s].exists /\ tr[s].uid # tc.uid
    /\ TaskRunEvent(s, [tr[s] EXCEPT !.exists = FALSE])
    /\ UNCHANGED budget

Tick ==
    /\ clock < MaxTime
    /\ clock' = clock + 1
    /\ UNCHANGED <<tc, uids, tr, cached, cacheFresh, queued, worker, budget>>

-----------------------------------------------------------------------------
Reconcile == ReconcileStart \/ FetchTaskRun \/ CreateTaskRun \/ WriteStatus \/ WriteRefused

Fault == RequestFails \/ WriteFails \/ Restart

Environment ==
    \/ \E s \in Seconds : TektonEnds(s) \/ Prune(s) \/ Collect(s)
    \/ CacheSync \/ CreateToolchain \/ EditSpec \/ DeleteToolchain \/ Tick

Next == Reconcile \/ Fault \/ Environment

Spec == Init /\ [][Next]_vars

(* The worker takes a queued key, the watch delivers, and Tekton ends every *)
(* TaskRun (the cluster's default timeout applies to it).                   *)
FairSpec ==
    /\ Spec
    /\ WF_vars(Reconcile)
    /\ WF_vars(CacheSync)
    /\ \A s \in Seconds : WF_vars(TektonEnds(s))

-----------------------------------------------------------------------------
(* "BuildSucceeded" is said only while the run recorded is a TaskRun that  *)
(* succeeded, across restarts, stale reads and edits that switch           *)
(* spec.build off and on while a build is running.                         *)
ReadyMeansBuilt ==
    tc # NoToolchain /\ tc.status.reason = "BuildSucceeded" =>
        tc.status.run \in Seconds /\ tr[tc.status.run].state = "succeeded"

(* Image builds running side by side push the same tag.  Creating the      *)
(* Toolchain starts one; each further one takes another edit that made a   *)
(* status update refused, or a crash, a failed request or an outdated read *)
(* (CurrentBuildRun alone keeps a reconcile from creating a second run).   *)
Spent(event, max) == max - budget[event]
ParallelBuildsNeedFaults ==
    Cardinality(Building) <= Spent("edit", MaxEdits) + Spent("fault", MaxFaults)

(* Once its build is reported, a Toolchain stops being Ready for that      *)
(* reason only when the TaskRun it shows is gone: no late or outdated read *)
(* and no edit restarts the build or turns it into a failure.              *)
BuiltStaysReady ==
    [][ /\ tc # NoToolchain /\ tc.status.reason = "BuildSucceeded"
        /\ tc'.uid = tc.uid /\ tc'.status.reason # "BuildSucceeded"
        => tc.status.run \in Seconds /\ ~tr[tc.status.run].exists ]_vars

(* No wake-up is lost: a Toolchain that shows no result is queued, being   *)
(* worked on, or in an event of the watch that is still to come, although  *)
(* each path of the reconcile decides by itself whether to come back.      *)
NothingForgotten ==
    tc # NoToolchain /\ tc.status.phase \notin {"Ready", "Failed"} =>
        queued \/ pc # "idle" \/ ~cacheFresh

(* When edits and faults stop, the Toolchain comes to rest. *)
Settles == <>[](tc = NoToolchain \/ tc.status.phase \in {"Ready", "Failed"})

(* "Toolchain image build failed - update spec to retry": an edit of the   *)
(* spec of a Toolchain whose build failed starts another.  It does not:    *)
(* only removing spec.build and adding it back does.                       *)
RetriedAfterEdit ==
    (tc # NoToolchain /\ tc.build /\ tc.status.reason = "BuildFailed"
        /\ \A s \in Seconds : tr[s].gen < tc.gen) ~> (tc # NoToolchain /\ tc.status.phase # "Failed")

-----------------------------------------------------------------------------
(* What all of this implements *)

(* What a reader sees of a status. *)
Seen(st) ==
    [says |-> IF st.phase # "Ready" THEN st.phase
              ELSE IF st.reason = "BuildSucceeded" THEN "Built" ELSE "External",
     run |-> st.run]

Nothing == [says |-> "", run |-> 0]

Contract == INSTANCE ToolchainContract WITH
    Builds <- Seconds,
    tool   <- tc # NoToolchain,
    wanted <- tc # NoToolchain /\ tc.build,
    build  <- [s \in Seconds |-> tr[s].state],
    kept   <- {s \in Seconds : tr[s].exists},
    shown  <- IF tc = NoToolchain THEN Nothing ELSE Seen(tc.status),
    report <- IF pc = "write" /\ copyFresh THEN Seen(next) ELSE Nothing

(* Whatever the reconciler, users, Tekton and the faults do, outdated      *)
(* reads among them, a reader sees the contract kept: a build that is      *)
(* shown is followed to its end and not exchanged for another, "built" is  *)
(* said of a build that succeeded and stays while its TaskRun exists, and  *)
(* a report that an edit overtook is not shown.                            *)
ImplementsContract == Contract!ContractSpec
=============================================================================
