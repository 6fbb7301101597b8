------------------------- MODULE PipelineRunBuilder -------------------------
(***************************************************************************)
(* The pipeline that internal/tekton/pipelinerun_builder.go makes of a     *)
(* BuildJob: its tasks, the order runAfter puts them in, and the results   *)
(* it declares.  Images, environment, volumes and the text of the scripts  *)
(* are left out; what the scripts do is in PipelineExecution.              *)
(*                                                                         *)
(* A name "" in runAfter is what the code writes when there is no previous *)
(* task.                                                                   *)
(***************************************************************************)
EXTENDS Integers, Sequences, FiniteSets

CONSTANTS StageNames, \* names users give to stages
          MaxStages   \* bound on the length of spec.stages

ASSUME StagesAssumption == MaxStages \in Nat /\ "" \notin StageNames

OwnNames == {"clone", "copy-source", "collect-artifacts", "oci-push", "cosign-sign"}

(* source "none": the block that source.type names is missing, which the   *)
(* CRD allows.  path: whether artifacts.path is set; oci, signing: whether *)
(* these blocks are present.                                               *)
BuildSpecs == [source  : {"git", "pvc", "none"},
               stages  : UNION {[1..n -> StageNames] : n \in 0..MaxStages},
               path    : BOOLEAN,
               dest    : {"pvc", "oci"},
               oci     : BOOLEAN,
               signing : BOOLEAN]

(* script: which of the scripts the task runs (a stage may have the name   *)
(* of another task); params: the tasks whose results its parameters take.  *)
Task(name, script, after, params) ==
    [name |-> name, script |-> script, runAfter |-> after, params |-> params]

(* buildCloneTaskSpec and buildPVCCopyTaskSpec: the first task has no runAfter. *)
BuildCloneTaskSpec == Task("clone", "clone", {}, {})
BuildPVCCopyTaskSpec == Task("copy-source", "copy", {}, {})

SourceTasks(b) ==
    CASE b.source = "git"  -> <<BuildCloneTaskSpec>>
      [] b.source = "pvc"  -> <<BuildPVCCopyTaskSpec>>
      [] b.source = "none" -> <<>>

(* The source task and the stages, by name. *)
Chain(b) == [i \in 1..Len(SourceTasks(b)) |-> SourceTasks(b)[i].name] \o b.stages

FaultyPrevious(b, i) == IF i <= 1 THEN "" ELSE Chain(b)[1]
FaultyPreviousItself(b, i) ==
    IF Chain(b) = <<>> THEN "" ELSE Chain(b)[IF i > Len(Chain(b)) THEN i - 1 ELSE i]

(* prevStage when the i-th task of the chain is built. *)
Previous(b, i) == IF i <= 1 THEN "" ELSE Chain(b)[i - 1]

(* buildTaskSpec: no runAfter without a previous task. *)
BuildTaskSpec(name, prev) == Task(name, "stage", IF prev = "" THEN {} ELSE {prev}, {})

ChainTasks(b) ==
    [i \in 1..Len(Chain(b)) |->
        IF i <= Len(SourceTasks(b)) THEN SourceTasks(b)[i]
        ELSE BuildTaskSpec(Chain(b)[i], Previous(b, i))]

(* The publishing tasks name the previous task even if there is none. *)
BuildCollectTask(prev) == Task("collect-artifacts", "upload", {prev}, {})
BuildOCIArtifactTask(prev) == Task("oci-push", "push", {prev}, {})

FaultyBuildCosignSignTask(prev) == Task("cosign-sign", "sign", {prev}, {})
BuildCosignSignTask(prev) == Task("cosign-sign", "sign", {"oci-push"}, {"oci-push"})

(* A BuildJob with destination oci and no artifacts.oci publishes nothing  *)
(* here (the controller rejects it before).                                *)
PublishTasks(b) ==
    LET prev == Previous(b, Len(Chain(b)) + 1) IN
    IF ~b.path THEN <<>>
    ELSE IF b.dest # "oci" THEN <<BuildCollectTask(prev)>>
    ELSE IF ~b.oci THEN <<>>
    ELSE <<BuildOCIArtifactTask(prev)>>
           \o (IF b.signing THEN <<BuildCosignSignTask(prev)>> ELSE <<>>)

BuildPipelineRun(b) == ChainTasks(b) \o PublishTasks(b)

FaultyResultTasks(b) == IF b.source = "git" THEN {"clone"} ELSE {}

(* The tasks that the declared pipeline results are taken from: for OCI    *)
(* whether or not artifacts.path made an oci-push task.                    *)
ResultTasks(b) ==
    (IF b.source = "git" THEN {"clone"} ELSE {})
    \cup (IF b.dest = "oci" /\ b.oci THEN {"oci-push"} ELSE {})
    \cup (IF b.dest = "oci" /\ b.oci /\ b.signing THEN {"cosign-sign"} ELSE {})

-----------------------------------------------------------------------------
(* What Tekton's admission asks of a pipeline: distinct task names,        *)
(* runAfter and results that name tasks of the pipeline, and no cycle.     *)

NamesOf(tasks) == {tasks[i].name : i \in DOMAIN tasks}

DistinctNames(tasks) ==
    \A i, j \in DOMAIN tasks : tasks[i].name = tasks[j].name => i = j

DependsOn(t) == t.runAfter \cup t.params

Acyclic(tasks) ==
    \E rank \in [DOMAIN tasks -> DOMAIN tasks] :
        \A i, j \in DOMAIN tasks :
            tasks[j].name \in DependsOn(tasks[i]) => rank[j] < rank[i]

Admitted(b) ==
    LET tasks == BuildPipelineRun(b) IN
    /\ DistinctNames(tasks)
    /\ \A i \in DOMAIN tasks : DependsOn(tasks[i]) \subseteq NamesOf(tasks)
    /\ ResultTasks(b) \subseteq NamesOf(tasks)
    /\ Acyclic(tasks)
=============================================================================
