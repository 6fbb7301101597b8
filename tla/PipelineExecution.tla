-------------------------- MODULE PipelineExecution --------------------------
(***************************************************************************)
(* A PipelineRun of the pipeline that PipelineRunBuilder makes, run by     *)
(* Tekton: which tasks may run together, what their scripts leave in the   *)
(* shared workspace and outside the cluster, and what the BuildJob         *)
(* controller reports of the run.                                          *)
(*                                                                         *)
(* Tekton starts a task when the tasks it depends on have succeeded, stops *)
(* starting tasks once one has failed or the run is cancelled or timed     *)
(* out, and fails the run when a parameter or a declared result takes a    *)
(* result that its task, having succeeded, did not write.                  *)
(***************************************************************************)
EXTENDS PipelineRunBuilder

VARIABLES
    spec,      \* the BuildJob spec
    phase,     \* of the PipelineRun; "refused" by Tekton's admission,
               \* "invalid": failed because of a result that is missing
    task,      \* task[i]: the state of the i-th task
    source,    \* the source tree is in the workspace
    artifacts, \* there is something under artifacts.path
    published, \* what left the cluster: "upload", "oci", "signature"
    results,   \* the tasks that wrote their results
    ociRef     \* whether the BuildJob shows an ociArtifactRef

vars == <<spec, phase, task, source, artifacts, published, results, ociRef>>

tasks == BuildPipelineRun(spec)
N == Len(tasks)
TaskIn(states) == {i \in DOMAIN task : task[i] \in states}
StageTasks == {i \in DOMAIN task : tasks[i].script = "stage"}

TypeOK ==
    /\ spec \in BuildSpecs
    /\ phase \in {"new", "refused", "running", "succeeded", "failed", "invalid"}
    /\ task \in [1..N -> {"waiting", "running", "succeeded", "failed"}]
    /\ source \in BOOLEAN /\ artifacts \in BOOLEAN /\ ociRef \in BOOLEAN
    /\ published \subseteq {"upload", "oci", "signature"}
    /\ results \subseteq {"clone", "oci-push", "cosign-sign"}

(* createNewPipelineRun rejects destination oci without artifacts.oci. *)
Init ==
    /\ spec \in {b \in BuildSpecs : b.dest = "oci" => b.oci}
    /\ phase = "new"
    /\ task = [i \in 1..N |-> "waiting"]
    /\ source = FALSE /\ artifacts = FALSE /\ ociRef = FALSE
    /\ published = {} /\ results = {}

-----------------------------------------------------------------------------
(* Tekton *)

Create ==
    /\ phase = "new"
    /\ phase' = IF Admitted(spec) THEN "running" ELSE "refused"
    /\ UNCHANGED <<spec, task, source, artifacts, published, results, ociRef>>

Ready(i) ==
    /\ phase = "running"
    /\ task[i] = "waiting"
    /\ TaskIn({"failed"}) = {}
    /\ \A j \in 1..N : tasks[j].name \in DependsOn(tasks[i]) => task[j] = "succeeded"

StartTask(i) ==
    /\ Ready(i)
    /\ tasks[i].params \subseteq results
    /\ task' = [task EXCEPT ![i] = "running"]
    /\ UNCHANGED <<spec, phase, source, artifacts, published, results, ociRef>>

ResultMissing(i) ==
    /\ Ready(i)
    /\ ~(tasks[i].params \subseteq results)
    /\ phase' = "invalid"
    /\ UNCHANGED <<spec, task, source, artifacts, published, results, ociRef>>

(* The run is cancelled or times out; a task it is running then fails first. *)
Cancel ==
    /\ phase = "running"
    /\ TaskIn({"running"}) = {}
    /\ phase' = "failed"
    /\ UNCHANGED <<spec, task, source, artifacts, published, results, ociRef>>

EndTask(i, script) ==
    /\ phase = "running"
    /\ task[i] = "running" /\ tasks[i].script = script
    /\ \E end \in {"succeeded", "failed"} : task' = [task EXCEPT ![i] = end]

EndRun ==
    /\ phase = "running"
    /\ \/ /\ TaskIn({"succeeded"}) = 1..N
          /\ phase' = IF ResultTasks(spec) \subseteq results THEN "succeeded" ELSE "invalid"
       \/ TaskIn({"failed"}) # {} /\ TaskIn({"running"}) = {} /\ phase' = "failed"
    /\ UNCHANGED <<spec, task, source, artifacts, published, results, ociRef>>

-----------------------------------------------------------------------------
(* The scripts.  With "set -eu" a script that fails, or is killed, may have *)
(* stopped anywhere; one that succeeded did all it does.                    *)

Succeeds(i) == task'[i] = "succeeded"

CloneScript(i) ==
    /\ EndTask(i, "clone")
    /\ source' \in IF Succeeds(i) THEN {TRUE} ELSE BOOLEAN
    /\ results' = IF Succeeds(i) THEN results \cup {"clone"} ELSE results
    /\ UNCHANGED <<spec, phase, artifacts, published, ociRef>>

FaultyCopyScript(i) ==
    /\ EndTask(i, "copy")
    /\ source' \in IF Succeeds(i) THEN {TRUE} ELSE BOOLEAN
    /\ results' = results \cup {tasks[i].name}
    /\ UNCHANGED <<spec, phase, artifacts, published, ociRef>>

CopyScript(i) ==
    /\ EndTask(i, "copy")
    /\ source' \in IF Succeeds(i) THEN {TRUE} ELSE BOOLEAN
    /\ UNCHANGED <<spec, phase, artifacts, published, results, ociRef>>

(* A stage may or may not leave artifacts. *)
StageScript(i) ==
    /\ EndTask(i, "stage")
    /\ artifacts' \in {artifacts, TRUE}
    /\ UNCHANGED <<spec, phase, source, published, results, ociRef>>

(* "No artifacts to upload" is a success. *)
UploadScript(i) ==
    /\ EndTask(i, "upload")
    /\ published' \in IF ~artifacts THEN {published}
                      ELSE IF Succeeds(i) THEN {published \cup {"upload"}}
                      ELSE {published, published \cup {"upload"}}
    /\ UNCHANGED <<spec, phase, source, artifacts, results, ociRef>>

(* "No artifacts to push" is a success, and leaves the results unwritten. *)
PushScript(i) ==
    /\ EndTask(i, "push")
    /\ IF ~artifacts
         THEN UNCHANGED <<published, results>>
         ELSE /\ published' \in IF Succeeds(i) THEN {published \cup {"oci"}}
                                ELSE {published, published \cup {"oci"}}
              /\ results' = IF Succeeds(i) THEN results \cup {"oci-push"} ELSE results
    /\ UNCHANGED <<spec, phase, source, artifacts, ociRef>>

SignScript(i) ==
    /\ EndTask(i, "sign")
    /\ published' \in IF Succeeds(i) THEN {published \cup {"signature"}}
                      ELSE {published, published \cup {"signature"}}
    /\ results' = IF Succeeds(i) THEN results \cup {"cosign-sign"} ELSE results
    /\ UNCHANGED <<spec, phase, source, artifacts, ociRef>>

-----------------------------------------------------------------------------
(* syncStatusFromPipelineRun: ociArtifactRef is computed from the spec, for *)
(* every run that succeeded.                                                *)
Report ==
    /\ phase = "succeeded"
    /\ ociRef' = (spec.path /\ spec.dest = "oci" /\ spec.oci)
    /\ UNCHANGED <<spec, phase, task, source, artifacts, published, results>>

-----------------------------------------------------------------------------
Next ==
    \/ Create \/ Cancel \/ EndRun \/ Report
    \/ \E i \in 1..N :
          \/ StartTask(i) \/ ResultMissing(i)
          \/ CloneScript(i) \/ CopyScript(i) \/ StageScript(i)
          \/ UploadScript(i) \/ PushScript(i) \/ SignScript(i)

Spec == Init /\ [][Next]_vars

-----------------------------------------------------------------------------
(* "Each stage runs sequentially": no two tasks of a run are in the shared  *)
(* workspace at once, publishing tasks included.                            *)
OneTaskAtATime == Cardinality(TaskIn({"running"})) <= 1

(* A stage works on a complete source tree, and on what every stage listed  *)
(* before it left there.                                                    *)
StageSeesSource ==
    \A i \in StageTasks : task[i] # "waiting" =>
        /\ spec.source # "none" => source
        /\ \A j \in StageTasks : j < i => task[j] = "succeeded"

(* Nothing is uploaded, pushed or signed unless every stage succeeded, also *)
(* when the run fails or is cancelled later, and only a push is signed.     *)
PublishedMeansBuilt ==
    published # {} =>
        /\ \A i \in StageTasks : task[i] = "succeeded"
        /\ "signature" \in published => "oci" \in published

(* Tekton refuses a pipeline only for a stage name that is taken, for       *)
(* artifacts of no stage and no source, and for OCI results without a path. *)
OnlyBadSpecsRefused ==
    phase = "refused" =>
        \/ \E i \in 1..Len(spec.stages) : spec.stages[i] \in OwnNames
        \/ \E i, j \in 1..Len(spec.stages) : i # j /\ spec.stages[i] = spec.stages[j]
        \/ spec.source = "none" /\ spec.stages = <<>>
        \/ ~spec.path /\ spec.dest = "oci"

(* The CLI pulls what ociArtifactRef names.  The controller computes it for *)
(* any run that succeeded, and a push that finds nothing to push succeeds:  *)
(* the reference is good only because oci-ref is a declared result.         *)
RefMeansPushed == ociRef => "oci" \in published
=============================================================================
