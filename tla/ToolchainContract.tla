-------------------------- MODULE ToolchainContract --------------------------
(***************************************************************************)
(* What the Toolchain controller promises to those who declare a toolchain *)
(* image and wait for it, without the requests it is made of.  A build     *)
(* that is shown is followed to its end: it is not exchanged for another   *)
(* while it runs, its success is shown of itself only and for as long as   *)
(* its record is kept, and after its failure no other is shown until the   *)
(* image was provided instead.  Builds that are never shown are not        *)
(* excluded.                                                               *)
(*                                                                         *)
(* As in BuildContract a status reaches the reader in two steps, and one   *)
(* who edits the Toolchain in between makes the report void.               *)
(*                                                                         *)
(* ToolchainController implements this module.                             *)
(***************************************************************************)
EXTENDS Integers

CONSTANT Builds    \* the names builds are made under, positive numbers

VARIABLES
    tool,    \* whether the Toolchain exists
    wanted,  \* whether it asks for its image to be built
    build,   \* build[s]: how far the build named s got; "failed" if there was none
    kept,    \* the builds whose TaskRun exists
    shown,   \* what the Toolchain shows, and the build it names (0: none)
    report   \* what the controller is about to show

contractVars == <<tool, wanted, build, kept, shown, report>>

Nothing == [says |-> "", run |-> 0]
NoReport == Nothing

ContractInit ==
    /\ tool = FALSE
    /\ wanted = FALSE
    /\ build = [s \in Builds |-> "failed"]
    /\ kept = {}
    /\ shown = Nothing
    /\ report = NoReport

-----------------------------------------------------------------------------
(* Users *)

Submit ==
    /\ ~tool
    /\ tool' = TRUE
    /\ wanted' \in BOOLEAN
    /\ report' = NoReport
    /\ UNCHANGED <<build, kept, shown>>

Edit ==
    /\ tool
    /\ wanted' \in BOOLEAN
    /\ report' = NoReport
    /\ UNCHANGED <<tool, build, kept, shown>>

Remove ==
    /\ tool
    /\ tool' = FALSE
    /\ wanted' = FALSE
    /\ shown' = Nothing
    /\ report' = NoReport
    /\ UNCHANGED <<build, kept>>

-----------------------------------------------------------------------------
(* The controller *)

(* An image that is provided needs no build; the build shown stays named. *)
Provide ==
    /\ tool /\ ~wanted /\ report = NoReport
    /\ shown.says \notin {"External", "Built"}
    /\ report' = [says |-> "External", run |-> shown.run]
    /\ UNCHANGED <<tool, wanted, build, kept, shown>>

(* The build that is shown ended, or is gone. *)
Observe ==
    /\ tool /\ wanted /\ report = NoReport
    /\ \/ /\ shown.run \in kept /\ build[shown.run] = "succeeded"
          /\ report' = [says |-> "Built", run |-> shown.run]
       \/ /\ shown.run \in Builds
          /\ shown.run \in kept => build[shown.run] = "failed"
          /\ report' = [says |-> "Failed", run |-> 0]
    /\ UNCHANGED <<tool, wanted, build, kept, shown>>

(* A build may be shown as the current one: none is, and none has failed. *)
Free == tool /\ wanted /\ shown.run = 0 /\ shown.says # "Failed"

(* A build begins; it is reported unless the Toolchain was edited since it *)
(* was read.                                                               *)
Begin(s) ==
    /\ report = NoReport
    /\ s \notin kept /\ build[s] # "succeeded"
    /\ build' = [build EXCEPT ![s] = "running"]
    /\ kept' = kept \cup {s}
    /\ \/ Free /\ report' = [says |-> "Building", run |-> s]
       \/ UNCHANGED report
    /\ UNCHANGED <<tool, wanted, shown>>

(* A build of the same name is there, and taken for the Toolchain's own. *)
Take(s) ==
    /\ Free /\ report = NoReport
    /\ s \in kept
    /\ report' = [says |-> "Building", run |-> s]
    /\ UNCHANGED <<tool, wanted, build, kept, shown>>

Publish ==
    /\ report # NoReport
    /\ shown' = report
    /\ report' = NoReport
    /\ UNCHANGED <<tool, wanted, build, kept>>

(* A crash or a failed request. *)
Lose ==
    /\ report # NoReport
    /\ report' = NoReport
    /\ UNCHANGED <<tool, wanted, build, kept, shown>>

-----------------------------------------------------------------------------
(* The builds *)

End(s, outcome) ==
    /\ s \in kept /\ build[s] = "running"
    /\ build' = [build EXCEPT ![s] = outcome]
    /\ UNCHANGED <<tool, wanted, kept, shown, report>>

Drop(s) ==
    /\ s \in kept
    /\ kept' = kept \ {s}
    /\ UNCHANGED <<tool, wanted, build, shown, report>>

ContractNext ==
    \/ Submit \/ Edit \/ Remove
    \/ Provide \/ Observe \/ Publish \/ Lose
    \/ \E s \in Builds :
         \/ Begin(s) \/ Take(s) \/ Drop(s)
         \/ \E outcome \in {"succeeded", "failed"} : End(s, outcome)

ContractSpec == ContractInit /\ [][ContractNext]_contractVars
=============================================================================
