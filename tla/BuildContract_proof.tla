------------------------ MODULE BuildContract_proof ------------------------
(***************************************************************************)
(* Proofs about the contract of the BuildJob controller: what a reader     *)
(* may rely on, for every number of runs.                                  *)
(***************************************************************************)
EXTENDS BuildContract, TLAPS

(* A success that is about to be shown was read since the last trigger,    *)
(* a success that is shown is of a run, and nothing is shown or reported   *)
(* of a BuildJob that does not exist.                                      *)
ReportIsTrue ==
    /\ report.phase = "Succeeded" =>
           ~due /\ report.run \in Runs /\ build[report.run] = "succeeded"
    /\ ~due /\ shown.phase = "Succeeded" => shown.run \in Runs
    /\ report # NoReport => job
    /\ ~job => shown = Nothing

ContractInv == ContractTypeOK /\ OneAtATime /\ SuccessIsTrue /\ ReportIsTrue

(* Runs are numbered from 1, so that 0 is none. *)
LEMMA ZeroIsNoRun == 0 \notin Runs
  BY RunsAssumption

LEMMA NoReportFields ==
    NoReport.phase = "" /\ NoReport.run = 0 /\ NoReport.serves = FALSE
  BY DEF NoReport

LEMMA NothingFields == Nothing.phase = "" /\ Nothing.run = 0 /\ Nothing \in Shown
  BY DEF Nothing, Shown

(* The phases of the states, and back. *)
LEMMA PhasesOfStates ==
    ASSUME NEW s \in States
    PROVE  /\ PhaseOfState(s) \in {"Pending", "Running", "Succeeded", "Failed"}
           /\ PhaseOfState(s) = "Succeeded" <=> s = "succeeded"
           /\ Unfinished(s) => PhaseOfState(s) # "Succeeded"
  BY DEF PhaseOfState, States, Unfinished

LEMMA UserKeeps ==
    ASSUME ContractInv, Submit \/ Request \/ Edit \/ Remove
    PROVE  ContractInv'
<1>1. report' = NoReport /\ build' = build /\ kept' = kept
  BY DEF Submit, Request, Edit, Remove
<1>2. ContractTypeOK'
  BY <1>1, NothingFields DEF ContractInv, ContractTypeOK, Submit, Request, Edit, Remove
<1>3. OneAtATime'
  BY <1>1 DEF ContractInv, OneAtATime, InProgress
<1>4. SuccessIsTrue' /\ ReportIsTrue'
  BY <1>1, NoReportFields, NothingFields
     DEF ContractInv, SuccessIsTrue, ReportIsTrue, Submit, Request, Edit, Remove
<1> QED
  BY <1>2, <1>3, <1>4 DEF ContractInv

LEMMA ObserveKeeps ==
    ASSUME ContractInv, Observe
    PROVE  ContractInv'
<1> DEFINE n == shown.run
           ph == IF n \in kept THEN PhaseOfState(build[n]) ELSE "Failed"
<1>1. job /\ ~due /\ UNCHANGED <<job, due, build, kept, shown>>
  BY DEF Observe
<1>2. n \in Runs \cup {0} /\ kept \subseteq Runs /\ build \in [Runs -> States]
  BY DEF ContractInv, ContractTypeOK, Shown
<1>3. /\ ph \in {"Pending", "Running", "Succeeded", "Failed"}
      /\ ph = "Succeeded" => n \in Runs /\ build[n] = "succeeded"
  BY <1>2, PhasesOfStates
<1>4. report' = [run |-> n, serves |-> FALSE, phase |-> ph]
  BY DEF Observe
<1> HIDE DEF n, ph
<1>5. report'.run = n /\ report'.phase = ph /\ report'.serves = FALSE /\ report' \in Reports
  BY <1>2, <1>3, <1>4 DEF Reports
<1>6. ContractTypeOK' /\ OneAtATime'
  BY <1>1, <1>5 DEF ContractInv, ContractTypeOK, OneAtATime, InProgress
<1>7. SuccessIsTrue' /\ ReportIsTrue'
  BY <1>1, <1>3, <1>5 DEF ContractInv, SuccessIsTrue, ReportIsTrue
<1> QED
  BY <1>6, <1>7 DEF ContractInv

LEMMA AdoptKeeps ==
    ASSUME ContractInv, NEW n \in Runs, Adopt(n)
    PROVE  ContractInv'
<1>1. job /\ due /\ UNCHANGED <<job, due, build, kept, shown>> /\ n \in InProgress
  BY DEF Adopt
<1>2. build[n] \in States /\ Unfinished(build[n])
  BY <1>1 DEF InProgress, ContractInv, ContractTypeOK
<1>3. report' = [run |-> n, phase |-> PhaseOfState(build[n]), serves |-> TRUE]
  BY DEF Adopt
<1>4. report' \in Reports /\ report'.phase # "Succeeded"
  BY <1>2, <1>3, PhasesOfStates DEF Reports
<1>5. ContractTypeOK' /\ OneAtATime'
  BY <1>1, <1>4 DEF ContractInv, ContractTypeOK, OneAtATime, InProgress
<1>6. SuccessIsTrue' /\ ReportIsTrue'
  BY <1>1, <1>4 DEF ContractInv, SuccessIsTrue, ReportIsTrue
<1> QED
  BY <1>5, <1>6 DEF ContractInv

LEMMA RejectKeeps ==
    ASSUME ContractInv, Reject
    PROVE  ContractInv'
<1>1. job /\ due /\ UNCHANGED <<job, due, build, kept, shown>>
  BY DEF Reject
<1>2. report' = [run |-> shown.run, phase |-> "Failed", serves |-> FALSE]
  BY DEF Reject
<1>3. report' \in Reports /\ report'.phase # "Succeeded" /\ report'.serves = FALSE
  BY <1>2 DEF Reports, ContractInv, ContractTypeOK, Shown
<1>4. ContractTypeOK' /\ OneAtATime'
  BY <1>1, <1>3 DEF ContractInv, ContractTypeOK, OneAtATime, InProgress
<1>5. SuccessIsTrue' /\ ReportIsTrue'
  BY <1>1, <1>3 DEF ContractInv, SuccessIsTrue, ReportIsTrue
<1> QED
  BY <1>4, <1>5 DEF ContractInv

LEMMA BeginKeeps ==
    ASSUME ContractInv, NEW n \in Runs, Begin(n)
    PROVE  ContractInv'
<1>1. /\ due \/ ~job
      /\ InProgress = {} /\ n \notin kept /\ kept' = kept \cup {n}
      /\ build' = [build EXCEPT ![n] = "pending"]
      /\ UNCHANGED <<job, due, shown>>
  BY DEF Begin
<1>2. /\ kept \subseteq Runs /\ build \in [Runs -> States] /\ "pending" \in States
      /\ job \in BOOLEAN /\ due \in BOOLEAN /\ shown \in Shown
  BY DEF ContractInv, ContractTypeOK, States
<1>3. report = NoReport
  BY DEF Begin
<1>4. \/ job /\ report' = [run |-> n, phase |-> "Pending", serves |-> TRUE]
      \/ report' = NoReport
  BY <1>3 DEF Begin
<1>5. report' \in Reports \cup {NoReport} /\ report'.phase # "Succeeded"
  <2>1. CASE report' = NoReport
    BY <2>1, NoReportFields
  <2>2. CASE report' = [run |-> n, phase |-> "Pending", serves |-> TRUE]
    BY <2>2 DEF Reports
  <2> QED
    BY <1>4, <2>1, <2>2
<1>6. ContractTypeOK'
  BY <1>1, <1>2, <1>5 DEF ContractTypeOK
<1>7. \A m \in InProgress' : m = n
  BY <1>1, <1>2 DEF InProgress
<1>8. OneAtATime'
  BY <1>7 DEF OneAtATime
<1>9. ~due => shown = Nothing
  BY <1>1 DEF ContractInv, ReportIsTrue
<1>10. SuccessIsTrue'
  BY <1>1, <1>9, NothingFields DEF SuccessIsTrue
<1>11. ReportIsTrue'
  BY <1>1, <1>4, <1>5 DEF ContractInv, ReportIsTrue
<1> QED
  BY <1>6, <1>8, <1>10, <1>11 DEF ContractInv

LEMMA PublishKeeps ==
    ASSUME ContractInv, Publish \/ Lose
    PROVE  ContractInv'
<1>1. report \in Reports /\ report # NoReport /\ report' = NoReport
  BY DEF Publish, Lose, ContractInv, ContractTypeOK
<1>2. UNCHANGED <<build, kept, job>> /\ OneAtATime'
  BY DEF Publish, Lose, ContractInv, OneAtATime, InProgress
<1>3. CASE Publish
  <2>1. shown' = [run |-> report.run, phase |-> report.phase] /\ due' = (due /\ ~report.serves)
    BY <1>3 DEF Publish
  <2>2. shown' \in Shown /\ shown'.run = report.run /\ shown'.phase = report.phase
    BY <1>1, <2>1 DEF Reports, Shown
  <2>3. ContractTypeOK'
    BY <1>1, <1>2, <2>1, <2>2 DEF ContractInv, ContractTypeOK
  <2>4. SuccessIsTrue'
    BY <1>2, <2>1, <2>2 DEF ContractInv, ReportIsTrue, SuccessIsTrue
  <2>5. job
    BY <1>1, <1>3 DEF Publish, ContractInv, ContractTypeOK, ReportIsTrue
  <2>6. ReportIsTrue'
    BY <1>1, <1>2, <2>1, <2>2, <2>5, NoReportFields DEF ContractInv, ReportIsTrue
  <2> QED
    BY <1>2, <2>3, <2>4, <2>6 DEF ContractInv
<1>4. CASE Lose
  <2>1. UNCHANGED <<due, shown>>
    BY <1>4 DEF Lose
  <2> QED
    BY <1>1, <1>2, <2>1, NoReportFields
       DEF ContractInv, ContractTypeOK, SuccessIsTrue, ReportIsTrue
<1> QED
  BY <1>3, <1>4

LEMMA BuildKeeps ==
    ASSUME ContractInv, NEW n \in Runs,
           Start(n) \/ Drop(n) \/ \E outcome \in {"succeeded", "failed"} : End(n, outcome)
    PROVE  ContractInv'
<1>1. UNCHANGED <<job, due, shown, report>>
  BY DEF Start, Drop, End
<1>2. build \in [Runs -> States] /\ kept \subseteq Runs
  BY DEF ContractInv, ContractTypeOK
<1>3. CASE Drop(n)
  BY <1>1, <1>3 DEF Drop, ContractInv, ContractTypeOK, OneAtATime, InProgress, SuccessIsTrue, ReportIsTrue
<1>4. ASSUME NEW s \in States, n \in InProgress, kept' = kept, build' = [build EXCEPT ![n] = s]
      PROVE  ContractInv'
  <2>1. build[n] # "succeeded"
    BY <1>4 DEF InProgress, Unfinished
  <2>2. \A m \in Runs : build[m] = "succeeded" => build'[m] = "succeeded"
    BY <1>2, <1>4, <2>1
  <2>3. ContractTypeOK'
    BY <1>1, <1>2, <1>4 DEF ContractInv, ContractTypeOK
  <2>4. InProgress' \subseteq InProgress
    BY <1>2, <1>4 DEF InProgress
  <2>5. OneAtATime'
    BY <2>4 DEF ContractInv, OneAtATime
  <2>6. SuccessIsTrue' /\ ReportIsTrue'
    BY <1>1, <2>2 DEF ContractInv, SuccessIsTrue, ReportIsTrue
  <2> QED
    BY <2>3, <2>5, <2>6 DEF ContractInv
<1>5. CASE Start(n)
  <2>1. n \in InProgress /\ "running" \in States
    BY <1>5 DEF Start, InProgress, Unfinished, States
  <2> QED
    BY <1>4, <1>5, <2>1 DEF Start
<1>6. ASSUME NEW s \in {"succeeded", "failed"}, End(n, s) PROVE ContractInv'
  <2>1. s \in States
    BY DEF States
  <2> QED
    BY <1>4, <1>6, <2>1 DEF End
<1> QED
  BY <1>3, <1>5, <1>6

LEMMA ContractStep ==
    ASSUME ContractInv, [ContractNext]_contractVars
    PROVE  ContractInv'
<1>1. CASE UNCHANGED contractVars
  BY <1>1 DEF contractVars, ContractInv, ContractTypeOK, OneAtATime, InProgress, SuccessIsTrue, ReportIsTrue
<1> QED
  BY <1>1, UserKeeps, ObserveKeeps, AdoptKeeps, RejectKeeps, BeginKeeps, PublishKeeps, BuildKeeps
     DEF ContractNext

(* The contract is well typed, has one build at a time, and shows a        *)
(* success only of a build that succeeded.                                 *)
THEOREM ContractInvariance == ContractSpec => []ContractInv
<1>1. ContractInit => ContractInv
  <2> SUFFICES ASSUME ContractInit PROVE ContractInv
    OBVIOUS
  <2>1. ContractTypeOK
    BY NothingFields DEF ContractInit, ContractTypeOK, States
  <2> QED
    BY <2>1, NoReportFields, NothingFields
       DEF ContractInit, ContractInv, OneAtATime, InProgress, SuccessIsTrue, ReportIsTrue
<1>2. ContractInv /\ [ContractNext]_contractVars => ContractInv'
  BY ContractStep
<1> QED
  BY <1>1, <1>2, PTL DEF ContractSpec

(* The BuildJob controller keeps one build at a time: whoever uses the     *)
(* contract may rely on it.                                                *)
THEOREM ContractOneAtATime == ContractSpec => []OneAtATime
<1>1. ContractInv => OneAtATime
  BY DEF ContractInv
<1> QED
  BY <1>1, ContractInvariance, PTL

(* A reader who sees Succeeded, and for whom no trigger waits, sees the    *)
(* outcome of a run that did succeed.                                      *)
THEOREM ContractSuccessIsTrue == ContractSpec => []SuccessIsTrue
<1>1. ContractInv => SuccessIsTrue
  BY DEF ContractInv
<1> QED
  BY <1>1, ContractInvariance, PTL
=============================================================================
