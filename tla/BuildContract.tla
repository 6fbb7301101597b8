---------------------------- MODULE BuildContract ----------------------------
(***************************************************************************)
(* What the BuildJob controller promises to those who trigger builds and   *)
(* read their outcome, without the requests it is made of.  One BuildJob   *)
(* name is served: triggers are taken one at a time, there is one build at *)
(* a time, and what is shown was read from a build since the last trigger. *)
(*                                                                         *)
(* A status reaches the reader in two steps: the controller reads a build  *)
(* and prepares a report (Observe, Adopt, Begin, Reject), and then shows   *)
(* it (Publish).  A user who writes the BuildJob in between makes it void. *)
(*                                                                         *)
(* BuildJobController implements this module; BuildDelivery uses it.       *)
(***************************************************************************)
EXTENDS Integers

CONSTANT Runs      \* the numbers of PipelineRuns

ASSUME RunsAssumption == Runs \subseteq Nat \ {0}

VARIABLES
    job,     \* whether the BuildJob exists
    due,     \* whether a trigger is still to be served
    build,   \* build[n]: how far run n got; a number without a run counts as failed
    kept,    \* the runs whose PipelineRun exists
    shown,   \* the run and the phase the BuildJob shows
    report   \* what the controller is about to show

contractVars == <<job, due, build, kept, shown, report>>

States == {"pending", "running", "succeeded", "failed"}
Shown == [run : Runs \cup {0}, phase : {"", "Pending", "Running", "Succeeded", "Failed"}]

(* serves: showing it answers the trigger. *)
Reports == [run : Runs \cup {0}, phase : {"Pending", "Running", "Succeeded", "Failed"}, serves : BOOLEAN]

Nothing == [run |-> 0, phase |-> ""]
NoReport == [run |-> 0, phase |-> "", serves |-> FALSE]

ContractTypeOK ==
    /\ job \in BOOLEAN
    /\ due \in BOOLEAN
    /\ build \in [Runs -> States]
    /\ kept \subseteq Runs
    /\ shown \in Shown
    /\ report \in Reports \cup {NoReport}

ContractInit ==
    /\ job = FALSE
    /\ due = FALSE
    /\ build = [n \in Runs |-> "failed"]
    /\ kept = {}
    /\ shown = Nothing
    /\ report = NoReport

Unfinished(s) == s \in {"pending", "running"}
InProgress == {n \in kept : Unfinished(build[n])}

PhaseOfState(s) ==
    CASE s = "pending"   -> "Pending"
      [] s = "running"   -> "Running"
      [] s = "succeeded" -> "Succeeded"
      [] s = "failed"    -> "Failed"

-----------------------------------------------------------------------------
(* Users *)

Submit ==
    /\ ~job
    /\ job' = TRUE
    /\ due' = TRUE
    /\ report' = NoReport
    /\ UNCHANGED <<build, kept, shown>>

Request ==
    /\ job
    /\ due' = TRUE
    /\ report' = NoReport
    /\ UNCHANGED <<job, build, kept, shown>>

(* A write that triggers nothing. *)
Edit ==
    /\ job
    /\ report' = NoReport
    /\ UNCHANGED <<job, due, build, kept, shown>>

Remove ==
    /\ job
    /\ job' = FALSE
    /\ due' = FALSE
    /\ shown' = Nothing
    /\ report' = NoReport
    /\ UNCHANGED <<build, kept>>

-----------------------------------------------------------------------------
(* The controller *)

(* The build that is shown is read again; one that is gone counts as failed. *)
Observe ==
    /\ job /\ ~due
    /\ report = NoReport
    /\ report' = [run |-> shown.run, serves |-> FALSE,
                  phase |-> IF shown.run \in kept THEN PhaseOfState(build[shown.run]) ELSE "Failed"]
    /\ UNCHANGED <<job, due, build, kept, shown>>

(* The trigger is answered with the build in progress. *)
Adopt(n) ==
    /\ job /\ due
    /\ report = NoReport
    /\ n \in InProgress
    /\ report' = [run |-> n, phase |-> PhaseOfState(build[n]), serves |-> TRUE]
    /\ UNCHANGED <<job, due, build, kept, shown>>

(* The trigger cannot be served for now, and stays. *)
Reject ==
    /\ job /\ due
    /\ report = NoReport
    /\ InProgress = {}
    /\ report' = [run |-> shown.run, phase |-> "Failed", serves |-> FALSE]
    /\ UNCHANGED <<job, due, build, kept, shown>>

(* A build is started: for a trigger, or for a BuildJob that was just      *)
(* removed.  If the BuildJob changed meanwhile there is nothing to report. *)
Begin(n) ==
    /\ due \/ ~job
    /\ report = NoReport
    /\ InProgress = {}
    /\ n \notin kept
    /\ kept' = kept \cup {n}
    /\ build' = [build EXCEPT ![n] = "pending"]
    /\ \/ job /\ report' = [run |-> n, phase |-> "Pending", serves |-> TRUE]
       \/ UNCHANGED report
    /\ UNCHANGED <<job, due, shown>>

Publish ==
    /\ report # NoReport
    /\ shown' = [run |-> report.run, phase |-> report.phase]
    /\ due' = (due /\ ~report.serves)
    /\ report' = NoReport
    /\ UNCHANGED <<job, build, kept>>

(* A crash or a failed request. *)
Lose ==
    /\ report # NoReport
    /\ report' = NoReport
    /\ UNCHANGED <<job, due, build, kept, shown>>

-----------------------------------------------------------------------------
(* The builds *)

Start(n) ==
    /\ n \in kept /\ build[n] = "pending"
    /\ build' = [build EXCEPT ![n] = "running"]
    /\ UNCHANGED <<job, due, kept, shown, report>>

End(n, outcome) ==
    /\ n \in InProgress
    /\ build' = [build EXCEPT ![n] = outcome]
    /\ UNCHANGED <<job, due, kept, shown, report>>

Drop(n) ==
    /\ n \in kept
    /\ kept' = kept \ {n}
    /\ UNCHANGED <<job, due, build, shown, report>>

ContractNext ==
    \/ Submit \/ Request \/ Edit \/ Remove
    \/ Observe \/ Reject \/ Publish \/ Lose
    \/ \E n \in Runs :
         \/ Adopt(n) \/ Begin(n) \/ Start(n) \/ Drop(n)
         \/ \E outcome \in {"succeeded", "failed"} : End(n, outcome)

ContractSpec == ContractInit /\ [][ContractNext]_contractVars

-----------------------------------------------------------------------------
(* One build at a time. *)
OneAtATime == \A m, n \in InProgress : m = n

(* A success is shown only of a build that succeeded, unless a newer       *)
(* trigger waits.                                                          *)
SuccessIsTrue ==
    ~due /\ shown.phase = "Succeeded" => build[shown.run] = "succeeded"
=============================================================================
