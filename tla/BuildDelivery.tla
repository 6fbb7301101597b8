---------------------------- MODULE BuildDelivery ----------------------------
(***************************************************************************)
(* From a trigger to files on the user's disk: one command of the CLI that *)
(* waits for a build and fetches its artifacts (cmd/bob/build.go, wait.go, *)
(* artifacts.go), the handlers that answer it from an informer that lags   *)
(* behind, the controller as BuildContract describes it, and the artifact  *)
(* directory its runs upload to.                                           *)
(*                                                                         *)
(* Assumed: the BuildJob is not deleted and no PipelineRun is pruned, so   *)
(* that numbers grow and are not used again; and two triggers fall in      *)
(* different seconds.  Pending stands for Running too, which the command   *)
(* treats alike.  A request that fails ends the command, and is left out.  *)
(* Artifacts pushed to a registry are not modelled.                        *)
(***************************************************************************)
EXTENDS BuildContract, ArtifactStore, FiniteSets

CONSTANTS
    Triggers,      \* how the command may trigger: "api", "kubectl"
    MaxUserWrites, \* bound on writes of the BuildJob by others
    MaxFaults      \* bound on restarts of the operator and rejections of the spec

ASSUME DeliveryAssumption ==
    /\ Uploaders = Runs
    /\ Triggers \subseteq {"api", "kubectl"}
    /\ MaxUserWrites \in Nat /\ MaxFaults \in Nat

VARIABLES
    seen,      \* the BuildJob in the informer the API reads: what is shown
    seenFresh, \* whether that is the stored version
    cli,       \* the command's state
    got,       \* got[f]: the file it wrote to the download directory
    ended,     \* (history) the runs that had ended when it triggered
    replaced,  \* (history) the operator's pod was replaced
    budget     \* events left

vars == <<contractVars, storeVars, seen, seenFresh, cli, got, ended, replaced, budget>>

(* cli.triggered: the command triggered a build.  previous: the run of the *)
(* first answer.  started, late: buildStarted, and whether it was set by   *)
(* the startup timeout.  build: the answer it acts on.  todo, open: the    *)
(* files to fetch, and the one being read, held: its bytes when opened.    *)
Commands == [pc       : {"idle", "trigger", "initial", "poll", "list", "fetch", "done", "failed"},
             triggered : BOOLEAN,
             previous : Runs \cup {0},
             started  : BOOLEAN,
             late     : BOOLEAN,
             build    : Shown,
             todo     : SUBSET Files,
             open     : SUBSET Files,
             held     : Contents \cup {NoFile}]

TypeOK ==
    /\ ContractTypeOK
    /\ StoreTypeOK
    /\ seen \in Shown
    /\ seenFresh \in BOOLEAN
    /\ cli \in Commands
    /\ got \in [Files -> Contents \cup {NoFile}]
    /\ ended \subseteq Runs
    /\ replaced \in BOOLEAN
    /\ budget \in [{"write", "fault"} -> Nat]

(* The command before it is given, and after it failed. *)
Idle == [pc |-> "idle", triggered |-> FALSE, previous |-> 0, started |-> FALSE, late |-> FALSE,
         build |-> Nothing, todo |-> {}, open |-> {}, held |-> NoFile]
Over == [Idle EXCEPT !.pc = "failed"]

(* The BuildJob exists and has just been created. *)
Init ==
    /\ job = TRUE
    /\ due = TRUE
    /\ build = [n \in Runs |-> "failed"]
    /\ kept = {}
    /\ shown = Nothing
    /\ report = NoReport
    /\ StoreInit
    /\ seen = Nothing
    /\ seenFresh = TRUE
    /\ cli = Idle
    /\ got = [f \in Files |-> NoFile]
    /\ ended = {}
    /\ replaced = FALSE
    /\ budget = [write |-> MaxUserWrites, fault |-> MaxFaults]

Spend(event) ==
    /\ budget[event] > 0
    /\ budget' = [budget EXCEPT ![event] = @ - 1]

cliVars == <<cli, got, ended>>
rest == <<cliVars, replaced, budget>>

-----------------------------------------------------------------------------
(* The operator, its informer, the builds *)

(* A report that would show nothing new is left out. *)
Controller ==
    /\ \/ Observe /\ report'.phase # shown.phase
       \/ Publish
       \/ \E n \in Runs : Adopt(n) \/ (n = Cardinality(kept) + 1 /\ Begin(n))
    /\ seenFresh' = (seenFresh /\ shown' = shown /\ due' = due)
    /\ UNCHANGED <<storeVars, seen, rest>>

(* The controller's checks fail for now: a source PVC is missing. *)
Rejection ==
    /\ Reject
    /\ Spend("fault")
    /\ UNCHANGED <<storeVars, seen, seenFresh, cliVars, replaced>>

CacheSync ==
    /\ ~seenFresh
    /\ seen' = shown
    /\ seenFresh' = TRUE
    /\ UNCHANGED <<contractVars, storeVars, rest>>

(* Tekton ends run n: with success only after its upload was accepted, or  *)
(* when it had nothing to upload.                                          *)
RunEnds(n, outcome) ==
    /\ End(n, outcome)
    /\ upload.by # n
    /\ outcome = "succeeded" => answer[n] # "error"
    /\ UNCHANGED <<storeVars, seen, seenFresh, rest>>

(* The run is ended while its task uploads: timeout, eviction, node loss. *)
RunIsCut(n) ==
    /\ End(n, "failed")
    /\ upload.by = n
    /\ UploadFails
    /\ UNCHANGED <<seen, seenFresh, rest>>

Builds ==
    \/ \E n \in Runs :
         \/ \E outcome \in {"succeeded", "failed"} : RunEnds(n, outcome)
         \/ RunIsCut(n)
         \/ /\ n \in InProgress
            /\ \E fs \in SUBSET Files : UploadBegins(n, fs)
            /\ UNCHANGED <<contractVars, seen, seenFresh, rest>>
    \/ UploadStep /\ UNCHANGED <<contractVars, seen, seenFresh, rest>>

(* The operator's process dies: the reconcile, the uploads and the         *)
(* downloads in progress are lost, and the informer starts from the store. *)
OperatorRestarts ==
    /\ Spend("fault")
    /\ report' = NoReport
    /\ \E gone \in BOOLEAN : ServerRestarts(gone) /\ replaced' = (replaced \/ gone)
    /\ seen' = shown
    /\ seenFresh' = TRUE
    /\ cli' = IF cli.open # {} THEN Over ELSE cli
    /\ UNCHANGED <<job, due, build, kept, shown, got, ended>>

(* Other users trigger. *)
OtherUsers ==
    /\ Spend("write")
    /\ Request
    /\ seenFresh' = FALSE
    /\ UNCHANGED <<storeVars, seen, cliVars, replaced>>

-----------------------------------------------------------------------------
(* The command *)

CliStep == UNCHANGED <<storeVars, seen, replaced, budget>>
Reads == UNCHANGED <<contractVars, seenFresh>> /\ CliStep

(* "bob artifacts -d": no look at the phase. *)
Artifacts ==
    /\ cli.pc = "idle"
    /\ cli' = [cli EXCEPT !.pc = "list", !.build = seen]
    /\ UNCHANGED <<got, ended>>
    /\ Reads

(* "bob build -d" begins with downloadIfUpToDate: whatever triggers wait,  *)
(* a success that is shown is taken.                                       *)
DownloadIfUpToDate ==
    /\ cli.pc = "idle"
    /\ cli' = IF seen.phase = "Succeeded" THEN [cli EXCEPT !.pc = "list", !.build = seen]
                                            ELSE [cli EXCEPT !.pc = "trigger"]
    /\ UNCHANGED <<got, ended>>
    /\ Reads

FaultyMayTrigger(way) == TRUE

(* handleRun and handleCreate write what they read from the informer, and  *)
(* are refused unless that is the stored version; "kubectl annotate" sends *)
(* no resourceVersion.                                                     *)
MayTrigger(way) == way = "api" => seenFresh

(* The trigger, after that or, with --force, -f or --local, at once. *)
Trigger ==
    /\ cli.pc \in {"idle", "trigger"}
    /\ \E way \in Triggers : MayTrigger(way)
    /\ Request
    /\ seenFresh' = FALSE
    /\ cli' = [cli EXCEPT !.pc = "initial", !.triggered = TRUE]
    /\ ended' = kept \ InProgress
    /\ UNCHANGED got
    /\ CliStep

(* waitAndDownload: the run shown by the first answer after the trigger. *)
GetInitial ==
    /\ cli.pc = "initial"
    /\ cli' = [cli EXCEPT !.pc = "poll", !.previous = seen.run]
    /\ UNCHANGED <<got, ended>>
    /\ Reads

(* What an answer tells of the build once it counts as started. *)
Act(b) ==
    CASE seen.phase = "Succeeded" -> [b EXCEPT !.pc = "list", !.build = seen, !.previous = 0, !.started = FALSE]
      [] seen.phase = "Failed" -> Over
      [] OTHER -> [b EXCEPT !.started = TRUE, !.previous = 0]

FaultyPollStarted ==
    \/ cli.started
    \/ seen.phase \in {"Pending", "Running", "Succeeded"}

(* The build has started: another run is shown than at first, or one in    *)
(* progress.                                                               *)
PollStarted ==
    \/ cli.started
    \/ seen.run # cli.previous
    \/ seen.phase \in {"Pending", "Running"}

Poll ==
    /\ cli.pc = "poll"
    /\ PollStarted
    /\ cli' = Act(cli)
    /\ UNCHANGED <<got, ended>>
    /\ Reads

FaultyPollGivesUp ==
    /\ cli.pc = "poll"
    /\ ~PollStarted
    /\ seen.phase = "Succeeded"
    /\ cli' = Act([cli EXCEPT !.late = TRUE])
    /\ UNCHANGED <<got, ended>>
    /\ Reads

(* After buildStartupTimeout an outcome that was there before is taken:    *)
(* "Build already completed, downloading existing artifacts".              *)
PollGivesUp ==
    /\ cli.pc = "poll"
    /\ ~PollStarted
    /\ seen.phase \in {"Succeeded", "Failed"}
    /\ cli' = Act([cli EXCEPT !.late = TRUE])
    /\ UNCHANGED <<got, ended>>
    /\ Reads

(* ListArtifacts. *)
List ==
    /\ cli.pc = "list"
    /\ cli' = [Idle EXCEPT !.pc = "fetch", !.build = cli.build, !.todo = Listed]
    /\ ended' = {}
    /\ UNCHANGED got
    /\ Reads

(* handleArtifactDownload opens the file; one that is gone is an error. *)
OpenFile(f) ==
    /\ cli.pc = "fetch"
    /\ cli.open = {}
    /\ f \in cli.todo
    /\ cli' = IF files[f] = NoFile
                THEN Over
                ELSE [cli EXCEPT !.todo = @ \ {f}, !.open = {f}, !.held = files[f]]
    /\ UNCHANGED <<got, ended>>
    /\ Reads

(* The copy ends: with the bytes that were there, or, when an upload wrote *)
(* the file meanwhile, with a mixture or an unexpected end.  The file that *)
(* was opened stays readable when its name was removed.                    *)
CopyFile(f) ==
    /\ f \in cli.open
    /\ \/ /\ files[f] = cli.held
          /\ got' = [got EXCEPT ![f] = cli.held]
          /\ cli' = [cli EXCEPT !.open = {}, !.held = NoFile]
       \/ /\ files[f] # cli.held
          /\ \/ /\ got' = [got EXCEPT ![f] =
                     IF files[f] = NoFile THEN [cli.held EXCEPT !.whole = FALSE]
                                          ELSE [files[f] EXCEPT !.whole = FALSE]]
                /\ cli' = [cli EXCEPT !.open = {}, !.held = NoFile]
             \/ /\ cli' = Over
                /\ UNCHANGED got
    /\ UNCHANGED ended
    /\ Reads

Finish ==
    /\ cli.pc = "fetch"
    /\ cli.todo = {} /\ cli.open = {}
    /\ cli' = [cli EXCEPT !.pc = "done"]
    /\ UNCHANGED <<got, ended>>
    /\ Reads

Command ==
    \/ (cli.pc = "trigger" /\ Trigger) \/ GetInitial \/ Poll \/ PollGivesUp \/ List \/ Finish
    \/ \E f \in Files : OpenFile(f) \/ CopyFile(f)

-----------------------------------------------------------------------------
(* A behaviour is of interest until the command is over. *)
Next ==
    /\ cli.pc \notin {"done", "failed"}
    /\ \/ Controller \/ Rejection \/ CacheSync \/ Builds
       \/ OperatorRestarts \/ OtherUsers
       \/ Artifacts \/ DownloadIfUpToDate \/ Trigger
       \/ Command

Spec == Init /\ [][Next]_vars

Ends(n) == RunEnds(n, "succeeded") \/ RunEnds(n, "failed") \/ RunIsCut(n)

Fairness ==
    /\ WF_vars(Controller)
    /\ WF_vars(CacheSync)
    /\ \A n \in Runs : WF_vars(Ends(n))
    /\ WF_vars(Command)

FairSpec == Spec /\ Fairness

-----------------------------------------------------------------------------
(* A success that "bob build -d" reports is of a build that was still to   *)
(* come or in progress when it triggered, and not the one before: the      *)
(* loop of waitAndDownload decides this from answers that lag behind.      *)
(* Exempt is "already completed" after the startup timeout, which says so. *)
(* It needs Triggers = {"api"}: the trigger by kubectl does not wait for   *)
(* the informer.                                                           *)
SuccessIsOfTriggeredRun ==
    cli.triggered /\ ~cli.late /\ cli.pc = "list" =>
        cli.build.run \notin ended

(* Of a file the reported run produced, the command fetches the version of *)
(* that run, whole, and never an older one, unless a later run uploads the *)
(* same file meanwhile.                                                    *)
NoOlderFile ==
    cli.pc = "done" /\ cli.build.phase = "Succeeded" =>
        \A f \in produced[cli.build.run] :
            \/ got[f] \in {NoFile, [by |-> cli.build.run, whole |-> TRUE]}
            \/ /\ got[f].by >= cli.build.run
               /\ \E n \in Runs : n > cli.build.run /\ f \in produced[n]

(* A command that ends well has fetched all the files of the run, unless   *)
(* the pod that held them was replaced or a later upload removed one.      *)
NoFileMissing ==
    cli.pc = "done" /\ cli.build.phase = "Succeeded" =>
        \/ replaced
        \/ \E n \in Runs : n > cli.build.run /\ answer[n] = "error"
        \/ \A f \in produced[cli.build.run] : got[f] # NoFile

(* The instance has no number left for the run that is due. *)
OutOfRuns ==
    /\ due /\ report = NoReport
    /\ kept = Runs /\ InProgress = {}

(* waitAndDownload has no deadline of its own, and yet ends: no answer the *)
(* loop can get, in any order, keeps it polling for ever.                  *)
WaitEnds == (cli.pc = "poll") ~> (cli.pc \in {"done", "failed"} \/ OutOfRuns)
=============================================================================
