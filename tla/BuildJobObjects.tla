-------------------------- MODULE BuildJobObjects --------------------------
(***************************************************************************)
(* The objects the BuildJob controller works on, and the pure functions    *)
(* it applies to them: the BuildJob custom resource with its status, the   *)
(* Tekton PipelineRuns created for it, and the decisions taken from them.  *)
(*                                                                         *)
(* One BuildJob name in one namespace is modelled: a reconcile reads and   *)
(* writes only the objects of its own key.  The data is reduced to what    *)
(* decides a branch or what a property tells apart:                        *)
(*   - PipelineRun "<job>-run<N>" is its number N, 0 stands for "";        *)
(*   - an RFC 3339 timestamp is its second, 0 stands for "";               *)
(*   - a resolved commit is the number of the run that resolved it;        *)
(*   - an OCI reference with the default tag "<job>-<generation>" is the   *)
(*     generation in the tag, 0 stands for "".                             *)
(***************************************************************************)
EXTENDS Integers, FiniteSets

CONSTANTS
    MaxRun,     \* PipelineRun numbers are 1..MaxRun
    MaxTime,    \* seconds of the wall clock are 1..MaxTime
    MaxGen,     \* metadata.generation of a BuildJob is 1..MaxGen
    MaxUid,     \* incarnations of the BuildJob name are 1..MaxUid
    Specs       \* the BuildJob specs users submit

SpecType == [source : {"git", "pvc"},         \* spec.source.type
             oci    : {"off", "on", "nil"},   \* artifacts.destination, "nil": oci without artifacts.oci
             arch   : {"known", "unknown"},   \* whether archToK8s maps target.architecture (xtensa: no)
             caches : BOOLEAN]                \* whether spec.caches is non-empty

ASSUME BoundsAssumption ==
    /\ MaxRun \in Nat /\ MaxTime \in Nat /\ MaxGen \in Nat /\ MaxUid \in Nat
    /\ MaxTime > 0 /\ MaxGen > 0

ASSUME SpecsAssumption == Specs \subseteq SpecType

Runs == 1..MaxRun
Times == 0..MaxTime

Phases == {"", "Pending", "Running", "Succeeded", "Failed"}
Reasons == {"", "BuildFailed", "PipelineRunNotFound", "SourcePVCNotFound",
            "InvalidOCIConfig", "UnsupportedArchitecture"}

(* BuildJob.status; "at" is the LastTransitionTime of the Ready condition. *)
StatusType == [current   : 0..MaxRun,      \* currentPipelineRun
               phase     : Phases,
               runCount  : 0..MaxRun,
               lastRunAt : Times,
               reason    : Reasons,        \* failureReason
               commit    : 0..MaxRun,      \* commitSHA
               ociRef    : 0..MaxGen,      \* ociArtifactRef
               at        : Times]

BuildJobs == [uid : 1..MaxUid, gen : 1..MaxGen, spec : Specs,
              runAt : Times, status : StatusType]

NoJob == [uid |-> 0]

EmptyStatus == [current |-> 0, phase |-> "", runCount |-> 0, lastRunAt |-> 0,
                reason |-> "", commit |-> 0, ociRef |-> 0, at |-> 0]

(* A PipelineRun: whether it is in the store, how far Tekton got with it,  *)
(* and the incarnation, generation, spec and run-at it was created from.   *)
RunStates == {"pending", "running", "succeeded", "failed"}
RunRecords == [exists : BOOLEAN, state : RunStates, uid : 0..MaxUid,
               gen : 0..MaxGen, oci : BOOLEAN, git : BOOLEAN, runAt : Times]

NoRun == [exists |-> FALSE, state |-> "failed", uid |-> 0, gen |-> 0,
          oci |-> FALSE, git |-> FALSE, runAt |-> 0]

Terminated(r) == r.state \in {"succeeded", "failed"}
Active(r) == r.exists /\ ~Terminated(r)

-----------------------------------------------------------------------------
(* The decisions of the reconciler.  A definition named Faulty... is a     *)
(* plausible mistake in the one that follows it; a property is shown to be *)
(* able to fail by putting it in that one's place.                         *)

FaultyNeedsNewRun(b) == b.status.current = 0

(* Reconcile: a run is due when none was ever recorded, or when the run-at *)
(* annotation differs from the one the last recorded run was started for.  *)
NeedsNewRun(b) ==
    \/ b.status.current = 0
    \/ b.runAt # 0 /\ b.runAt # b.status.lastRunAt

FaultyPhaseOf(r) ==
    IF r.state = "running" THEN "Unknown"
    ELSE IF r.state = "pending" THEN "Pending"
    ELSE IF r.state = "succeeded" THEN "Succeeded" ELSE "Failed"

FaultyPhaseOfUnfinished(r) ==
    IF r.state = "pending" THEN "Pending"
    ELSE IF r.state = "succeeded" THEN "Succeeded" ELSE "Failed"

(* syncStatusFromPipelineRun: the phase a PipelineRun is reported as.      *)
PhaseOf(r) ==
    CASE r.state = "pending"   -> "Pending"
      [] r.state = "running"   -> "Running"
      [] r.state = "succeeded" -> "Succeeded"
      [] r.state = "failed"    -> "Failed"

(* computeOCIRef: the tag is made from the BuildJob as it is now.          *)
ComputeOCIRef(b) == b.gen

FaultySyncStatus(b, n, r, t) ==
    [b.status EXCEPT
        !.phase  = PhaseOf(r),
        !.reason = IF r.state = "failed" THEN "BuildFailed" ELSE @,
        !.ociRef = IF r.state = "succeeded" /\ b.spec.oci = "on" /\ @ = 0
                     THEN ComputeOCIRef(b) ELSE @,
        !.at     = t]

(* syncStatusFromPipelineRun: the status of b after run n, found as r, at  *)
(* second t.  FailureReason is written for a failed run only, CommitSHA    *)
(* only when the run has a commit-sha result.                              *)
SyncStatus(b, n, r, t) ==
    LET phase == PhaseOf(r) IN
    [b.status EXCEPT
        !.phase  = phase,
        !.reason = IF phase = "Failed" THEN "BuildFailed" ELSE @,
        !.ociRef = IF phase = "Succeeded" /\ b.spec.oci = "on" THEN ComputeOCIRef(b) ELSE @,
        !.commit = IF phase = "Succeeded" /\ r.git THEN n ELSE @,
        !.at     = t]

FaultyAdoptStatus(b, n, r, t) ==
    SyncStatus([b EXCEPT !.status.lastRunAt = b.runAt], n, r, t)

(* createNewPipelineRun, adoption: RunCount, FailureReason and CommitSHA   *)
(* keep what the previous run left in them.                                *)
AdoptStatus(b, n, r, t) ==
    SyncStatus([b EXCEPT !.status.current = n, !.status.lastRunAt = b.runAt], n, r, t)

FaultyCreatedStatus(b, n, t) ==
    [b.status EXCEPT !.current = n, !.runCount = n, !.lastRunAt = b.runAt,
                     !.reason = "", !.commit = 0, !.at = t]

(* createNewPipelineRun, after a successful Create.                        *)
CreatedStatus(b, n, t) ==
    [b.status EXCEPT !.current = n, !.runCount = n, !.phase = "Pending",
                     !.lastRunAt = b.runAt, !.reason = "", !.commit = 0, !.at = t]

FaultyFailedStatus(b, why, t) ==
    [b.status EXCEPT !.phase = "Failed", !.reason = why, !.lastRunAt = b.runAt, !.at = t]

FaultyFailedStatusRetries(b, why, t) ==
    [b.status EXCEPT !.phase = "Pending", !.reason = why, !.at = t]

(* The early returns that mark the BuildJob Failed keep everything else.   *)
FailedStatus(b, why, t) ==
    [b.status EXCEPT !.phase = "Failed", !.reason = why, !.at = t]

FaultyNextRunNumber(b, existing) == b.status.runCount + 1

(* nextRunNumber: one more than the runs that still exist, or than RunCount. *)
NextRunNumber(b, existing) ==
    IF existing + 1 <= b.status.runCount THEN b.status.runCount + 1 ELSE existing + 1

(* validateSourcePVC: an error of the lookup counts as a missing claim. *)
SourceMissing(b, pvcs) == b.spec.source = "pvc" /\ "source" \notin pvcs

(* archToK8s knows no node architecture for xtensa. *)
ArchUnknown(b) == b.spec.arch = "unknown"

(* The checks createNewPipelineRun makes before it creates anything, in    *)
(* the order of the code: "" when all pass.                                *)
Rejection(b, pvcs) ==
    IF SourceMissing(b, pvcs) THEN "SourcePVCNotFound"
    ELSE IF b.spec.oci = "nil" THEN "InvalidOCIConfig"
    ELSE IF ArchUnknown(b) THEN "UnsupportedArchitecture"
    ELSE ""
=============================================================================
