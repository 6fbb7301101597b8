------------------------ MODULE BuildDelivery_proof ------------------------
(***************************************************************************)
(* Proofs about BuildDelivery, for every number of runs, files, triggers   *)
(* by others and faults: what the command fetches is of the run it was     *)
(* told of, and, with triggers through the API, of none that had ended     *)
(* before.                                                                 *)
(***************************************************************************)
EXTENDS BuildDelivery, BuildContract_proof, FiniteSetTheorems, TLAPS

(* Runs are numbered as they begin, and only the last can be in progress. *)
LastRun == Cardinality(kept)
Numbered == LastRun \in Nat /\ kept = 1..LastRun /\ InProgress \subseteq {LastRun}

(* No answer, however old, shows a success that is none. *)
True(x) == x.phase = "Succeeded" => x.run \in Runs /\ build[x.run] = "succeeded"
AnswersAreTrue == True(shown) /\ True(report) /\ True(seen) /\ True(cli.build)

(* The request in progress: what it has read of the archive is stored. *)
RequestOK ==
    /\ upload.by \in InProgress /\ answer[upload.by] = "none"
    /\ upload.todo \cup upload.open \subseteq produced[upload.by]
    /\ upload.todo \cap upload.open = {}
    /\ \A f, g \in upload.open : f = g
    /\ \A f \in produced[upload.by] \ upload.todo :
           files[f] = [by |-> upload.by, whole |-> f \notin upload.open]

(* The runs and their one upload. *)
UploadsOK ==
    /\ upload # NoUpload => RequestOK
    /\ \A n \in Runs :
         /\ n \notin kept => build[n] = "failed" /\ produced[n] = {} /\ answer[n] = "none"
         /\ answer[n] = "none" /\ produced[n] # {} => upload.by = n
         /\ build[n] = "succeeded" => answer[n] # "error"

(* A version of f that a reader of run r may get. *)
Later(r, f) == \E n \in Runs : n > r /\ f \in produced[n]
OfRun(v, f, r) == v = [by |-> r, whole |-> TRUE] \/ (v.by >= r /\ Later(r, f))

(* What may cost a reader of run r a file. *)
Excuse(r) == replaced \/ \E n \in Runs : n > r /\ answer[n] = "error"

(* An accepted upload stays until a later one, or a new pod. *)
StoreOK ==
    \A r \in Runs : answer[r] = "ok" => \A f \in produced[r] :
        IF files[f] = NoFile THEN Excuse(r) ELSE OfRun(files[f], f, r)

(* The files of a run that succeeded, on their way to the user's disk. *)
OnItsWay(r, f) ==
    /\ got[f] = NoFile \/ OfRun(got[f], f, r)
    /\ f \in cli.open => OfRun(cli.held, f, r) /\ (files[f] = cli.held \/ Later(r, f))
    /\ Excuse(r) \/ f \in cli.todo \cup cli.open \/ got[f] # NoFile

FetchOK ==
    /\ cli.pc \notin {"fetch", "done", "failed"} => got = [f \in Files |-> NoFile]
    /\ cli.pc # "fetch" => cli.open = {}
    /\ cli.pc = "done" => cli.todo = {}
    /\ \A f, g \in cli.open : f = g
    /\ cli.open # {} => cli.held \in Contents
    /\ cli.pc \in {"fetch", "done"} /\ cli.build.phase = "Succeeded" =>
           \A f \in produced[cli.build.run] : OnItsWay(cli.build.run, f)

DeliveryInv == TypeOK /\ ContractInv /\ job /\ Numbered /\ AnswersAreTrue /\ UploadsOK /\ StoreOK /\ FetchOK

(* The command waits: until the trigger is served, an old run is shown,    *)
(* and if as a success, then as before the trigger.                        *)
Old == ended \cup {0}
OldSuccess(x) == x.phase = "Succeeded" /\ x.run \in ended
WaitOK ==
    /\ seenFresh => seen = shown
    /\ cli.pc \in {"idle", "trigger"} => ~cli.triggered
    /\ cli.pc \in {"idle", "trigger", "initial"} => ~cli.started /\ ~cli.late
    /\ ended \subseteq kept \ InProgress
    /\ cli.pc \in {"initial", "poll"} =>
         /\ shown.run \in Old => due
         /\ report # NoReport =>
              report.run \notin Old
              \/ (shown.run \in Old /\ ~report.serves /\ report.phase = "Failed")
         /\ OldSuccess(shown) => seen = shown
         /\ cli.pc = "poll" /\ OldSuccess(seen) => ~cli.started /\ cli.previous = seen.run
    /\ SuccessIsOfTriggeredRun

-----------------------------------------------------------------------------
(* Types *)

LEMMA Params ==
    /\ Runs \subseteq Nat /\ 0 \notin Runs /\ Uploaders = Runs
    /\ NoFile \notin Contents /\ NoFile = [by |-> 0, whole |-> FALSE]
    /\ Nothing \in Shown /\ Nothing.phase = ""
  BY RunsAssumption, DeliveryAssumption DEF Contents, NoFile, Nothing, Shown

LEMMA IdleTypes ==
    /\ Idle \in Commands /\ Over \in Commands
    /\ Over.pc = "failed" /\ Over.build = Nothing /\ Over.open = {} /\ Over.triggered = FALSE
  BY Params DEF Idle, Over, Commands

LEMMA Spends ==
    ASSUME TypeOK, NEW event \in {"write", "fault"}, Spend(event)
    PROVE  budget' \in [{"write", "fault"} -> Nat]
  BY DEF TypeOK, Spend

(* What each action is to the contract: a step of it, or none. *)
LEMMA DeliverySteps ==
    ASSUME [Next]_vars
    PROVE  [ContractNext]_contractVars
<1>1. CASE Controller
  BY <1>1 DEF Controller, ContractNext
<1>2. CASE Rejection
  BY <1>2 DEF Rejection, ContractNext
<1>3. CASE Builds
  <2>1. UNCHANGED contractVars \/ \E n \in Runs : \E outcome \in {"succeeded", "failed"} : End(n, outcome)
    BY <1>3 DEF Builds, RunEnds, RunIsCut
  <2> QED
    BY <2>1 DEF ContractNext
<1>4. CASE OperatorRestarts
  <2>1. Lose \/ UNCHANGED contractVars
    BY <1>4 DEF OperatorRestarts, Lose, contractVars
  <2> QED
    BY <2>1 DEF ContractNext
<1>5. CASE OtherUsers \/ Trigger
  BY <1>5 DEF OtherUsers, Trigger, ContractNext
<1>6. CASE CacheSync \/ Artifacts \/ DownloadIfUpToDate \/ UNCHANGED vars
  BY <1>6 DEF CacheSync, Artifacts, DownloadIfUpToDate, Reads, vars
<1>7. CASE Command
  <2>1. Trigger \/ UNCHANGED contractVars
    BY <1>7 DEF Command, GetInitial, Poll, PollGivesUp, List, Finish, OpenFile, CopyFile, Reads
  <2> QED
    BY <1>5, <2>1
<1> QED
  BY <1>1, <1>2, <1>3, <1>4, <1>5, <1>6, <1>7 DEF Next

(* So what holds of the contract holds here. *)
LEMMA ContractKeeps ==
    ASSUME ContractInv, job, [Next]_vars
    PROVE  ContractInv' /\ job'
<1>1. [ContractNext]_contractVars
  BY DeliverySteps
<1>2. job'
  BY DEF Next, Controller, Observe, Publish, Adopt, Begin, Rejection, Reject, CacheSync, Builds, RunEnds, RunIsCut,
         End, OperatorRestarts, OtherUsers, Trigger, Request, Artifacts, DownloadIfUpToDate, Command, GetInitial,
         Poll, PollGivesUp, List, Finish, OpenFile, CopyFile, Reads, contractVars, vars
<1> QED
  BY <1>1, <1>2, ContractStep

(* The steps of the command, and those that leave it alone. *)
CliAction ==
    \/ Artifacts \/ DownloadIfUpToDate \/ Trigger \/ GetInitial \/ Poll \/ PollGivesUp \/ List \/ Finish
    \/ \E f \in Files : OpenFile(f) \/ CopyFile(f)

LEMMA Steps ==
    ASSUME [Next]_vars
    PROVE  \/ /\ Controller \/ Rejection \/ CacheSync \/ Builds \/ OtherUsers
              /\ UNCHANGED <<cliVars, replaced>>
           \/ OperatorRestarts
           \/ CliAction /\ UNCHANGED <<storeVars, seen, replaced, budget>>
           \/ UNCHANGED vars
<1>1. CASE Controller \/ Rejection \/ CacheSync \/ OtherUsers
  BY <1>1 DEF Controller, Rejection, CacheSync, OtherUsers, rest, cliVars
<1>2. CASE Builds
  BY <1>2 DEF Builds, RunEnds, RunIsCut, rest, cliVars
<1>3. CASE Artifacts \/ DownloadIfUpToDate \/ Trigger \/ Command
  <2>1. CliAction
    BY <1>3 DEF CliAction, Command
  <2> QED
    BY <2>1 DEF CliAction, Artifacts, DownloadIfUpToDate, Trigger, GetInitial, Poll, PollGivesUp, List, Finish,
                OpenFile, CopyFile, Reads, CliStep
<1> QED
  BY <1>1, <1>2, <1>3 DEF Next

LEMMA StoreTypes ==
    ASSUME StoreTypeOK, UploadsOK, kept \subseteq Runs,
           \/ UNCHANGED storeVars
           \/ UploadStep
           \/ \E n \in Runs, fs \in SUBSET Files : UploadBegins(n, fs)
           \/ \E gone \in BOOLEAN : ServerRestarts(gone)
    PROVE  StoreTypeOK'
<1> DEFINE U == [by : Uploaders, todo : SUBSET Files, open : SUBSET Files]
<1>1. /\ files \in [Files -> Contents \cup {NoFile}]
      /\ upload \in U \cup {NoUpload}
      /\ produced \in [Uploaders -> SUBSET Files]
      /\ answer \in [Uploaders -> {"none", "ok", "error"}]
  BY DEF StoreTypeOK
<1>2. upload.by # 0 \/ upload # NoUpload => upload.by \in Uploaders /\ upload \in U
  <2>1. NoUpload.by = 0
    BY DEF NoUpload
  <2>2. upload \in U => upload.by \in Uploaders
    OBVIOUS
  <2> QED
    BY <1>1, <2>1, <2>2
<1>3. ASSUME NEW n \in Runs, NEW fs \in SUBSET Files, UploadBegins(n, fs) PROVE StoreTypeOK'
  <2>1. upload' \in U
    BY <1>3, Params DEF UploadBegins
  <2> QED
    BY <1>1, <1>3, <2>1, Params DEF UploadBegins, StoreTypeOK
<1>4. ASSUME NEW what \in {"ok", "error"}, Answer(what), upload.by # 0 \/ upload # NoUpload,
             UNCHANGED produced, files' \in [Files -> Contents \cup {NoFile}]
      PROVE  StoreTypeOK'
  BY <1>1, <1>2, <1>4 DEF Answer, StoreTypeOK
<1>5. ASSUME NEW f \in Files, CreateFile(f) PROVE StoreTypeOK'
  <2>1. upload.by \in Uploaders /\ upload \in U
    BY <1>2, <1>5 DEF CreateFile, NoUpload
  <2>2. upload' \in U /\ files' \in [Files -> Contents \cup {NoFile}]
    BY <1>1, <1>5, <2>1 DEF CreateFile, Contents
  <2> QED
    BY <1>1, <1>5, <2>2 DEF CreateFile, StoreTypeOK
<1>6. ASSUME NEW f \in Files, WriteFile(f) PROVE StoreTypeOK'
  <2>1. upload.by \in Uploaders /\ upload \in U /\ upload # NoUpload
    BY <1>2, <1>6 DEF WriteFile, NoUpload
  <2>2. files[f] \in Contents
    <3>1. f \in produced[upload.by] \ upload.todo
      BY <1>6, <2>1 DEF WriteFile, UploadsOK, RequestOK
    <3>2. files[f] = [by |-> upload.by, whole |-> f \notin upload.open]
      BY <2>1, <3>1 DEF UploadsOK, RequestOK
    <3>3. files[f] = [by |-> upload.by, whole |-> FALSE]
      BY <1>6, <3>2 DEF WriteFile
    <3> QED
      BY <2>1, <3>3 DEF Contents
  <2>3. upload' \in U /\ files' \in [Files -> Contents \cup {NoFile}]
    BY <1>1, <1>6, <2>1, <2>2 DEF WriteFile, Contents
  <2> QED
    BY <1>1, <1>6, <2>3 DEF WriteFile, StoreTypeOK
<1>7. ASSUME NEW f \in Files, FileTooLarge(f) PROVE StoreTypeOK'
  <2>1. upload # NoUpload
    BY <1>7 DEF FileTooLarge, NoUpload
  <2>2. files' \in [Files -> Contents \cup {NoFile}]
    BY <1>1, <1>7 DEF FileTooLarge
  <2> QED
    BY <1>4, <1>7, <2>1, <2>2 DEF FileTooLarge
<1>8. ASSUME UploadEnds \/ UploadFails PROVE StoreTypeOK'
  BY <1>1, <1>4, <1>8 DEF UploadEnds, UploadFails
<1>9. ASSUME NEW gone \in BOOLEAN, ServerRestarts(gone) PROVE StoreTypeOK'
  <2>1. files' \in [Files -> Contents \cup {NoFile}] /\ UNCHANGED produced
    BY <1>1, <1>9 DEF ServerRestarts
  <2>2. CASE upload = NoUpload
    BY <1>1, <1>9, <2>1, <2>2 DEF ServerRestarts, StoreTypeOK
  <2>3. CASE upload # NoUpload
    BY <1>4, <1>9, <2>1, <2>3 DEF ServerRestarts
  <2> QED
    BY <2>2, <2>3
<1>10. UNCHANGED storeVars => StoreTypeOK'
  BY <1>1 DEF storeVars, StoreTypeOK
<1> QED
  BY <1>3, <1>5, <1>6, <1>7, <1>8, <1>9, <1>10 DEF UploadStep

LEMMA CliTypes ==
    ASSUME TypeOK, FetchOK, CliAction
    PROVE  cli' \in Commands /\ got' \in [Files -> Contents \cup {NoFile}] /\ ended' \subseteq Runs
<1>1. /\ cli \in Commands /\ got \in [Files -> Contents \cup {NoFile}] /\ ended \subseteq Runs
      /\ seen \in Shown /\ files \in [Files -> Contents \cup {NoFile}] /\ kept \subseteq Runs
  BY DEF TypeOK, StoreTypeOK, ContractTypeOK
<1>2. seen.run \in Runs \cup {0}
  BY <1>1 DEF Shown
<1>3. CASE Artifacts \/ DownloadIfUpToDate \/ GetInitial
  <2>1. UNCHANGED <<got, ended>>
    BY <1>3 DEF Artifacts, DownloadIfUpToDate, GetInitial
  <2>2. cli' \in {[cli EXCEPT !.pc = "list", !.build = seen], [cli EXCEPT !.pc = "trigger"],
                  [cli EXCEPT !.pc = "poll", !.previous = seen.run]}
    BY <1>3 DEF Artifacts, DownloadIfUpToDate, GetInitial
  <2>3. cli' \in Commands
    BY <1>1, <1>2, <2>2 DEF Commands
  <2> QED
    BY <1>1, <2>1, <2>3
<1>4. CASE Trigger \/ Finish
  BY <1>1, <1>4 DEF Trigger, Finish, Commands, InProgress
<1>5. ASSUME NEW b \in Commands PROVE Act(b) \in Commands
  BY <1>1, IdleTypes DEF Act, Commands
<1>6. CASE Poll \/ PollGivesUp
  <2>1. [cli EXCEPT !.late = TRUE] \in Commands
    BY <1>1 DEF Commands
  <2> QED
    BY <1>1, <1>5, <1>6, <2>1 DEF Poll, PollGivesUp
<1>7. CASE List
  BY <1>1, <1>7, IdleTypes DEF List, Commands, Listed
<1>8. ASSUME NEW f \in Files, OpenFile(f)
      PROVE  cli' \in Commands /\ got' \in [Files -> Contents \cup {NoFile}] /\ ended' \subseteq Runs
  <2>1. UNCHANGED <<got, ended>>
    BY <1>8 DEF OpenFile
  <2>2. CASE files[f] = NoFile
    BY <1>1, <1>8, <2>1, <2>2, IdleTypes DEF OpenFile
  <2>3. CASE files[f] # NoFile
    <3>1. cli' = [cli EXCEPT !.todo = @ \ {f}, !.open = {f}, !.held = files[f]]
      BY <1>8, <2>3 DEF OpenFile
    <3> QED
      BY <1>1, <2>1, <3>1 DEF Commands
  <2> QED
    BY <2>2, <2>3
<1>9. ASSUME NEW f \in Files, CopyFile(f)
      PROVE  cli' \in Commands /\ got' \in [Files -> Contents \cup {NoFile}] /\ ended' \subseteq Runs
  <2>1. UNCHANGED ended /\ cli' \in {Over, [cli EXCEPT !.open = {}, !.held = NoFile]}
    BY <1>9 DEF CopyFile
  <2>2. cli' \in Commands
    BY <1>1, <2>1, IdleTypes DEF Commands
  <2>3. cli.held \in Contents /\ files[f] \in Contents \cup {NoFile}
    BY <1>1, <1>9 DEF CopyFile, FetchOK
  <2>4. \A v \in Contents : [v EXCEPT !.whole = FALSE] \in Contents
    BY DEF Contents
  <2>5. got' \in [Files -> Contents \cup {NoFile}]
    BY <1>1, <1>9, <2>3, <2>4 DEF CopyFile
  <2> QED
    BY <1>1, <2>1, <2>2, <2>5
<1> QED
  BY <1>3, <1>4, <1>6, <1>7, <1>8, <1>9 DEF CliAction

LEMMA TypeStep ==
    ASSUME TypeOK, UploadsOK, FetchOK, ContractInv', [Next]_vars
    PROVE  TypeOK'
<1>1. /\ seen \in Shown /\ seen' \in {seen, shown, shown'} /\ seenFresh' \in BOOLEAN
      /\ shown \in Shown /\ kept \subseteq Runs
      /\ cli \in Commands /\ got \in [Files -> Contents \cup {NoFile}] /\ ended \subseteq Runs
      /\ replaced \in BOOLEAN /\ budget \in [{"write", "fault"} -> Nat] /\ StoreTypeOK
  <2>1. seen' \in {seen, shown, shown'} /\ seenFresh' \in BOOLEAN
    BY DEF TypeOK, Next, Controller, Rejection, CacheSync, Builds, RunEnds, RunIsCut, OperatorRestarts, OtherUsers,
           Command, Artifacts, DownloadIfUpToDate, Trigger, GetInitial, Poll, PollGivesUp, List, Finish, OpenFile,
           CopyFile, Reads, CliStep, vars
  <2> QED
    BY <2>1 DEF TypeOK, ContractTypeOK
<1>2. ContractTypeOK' /\ seen' \in Shown
  BY <1>1 DEF ContractInv, ContractTypeOK
<1>3. StoreTypeOK'
  <2>1. \/ UNCHANGED storeVars
        \/ UploadStep
        \/ \E n \in Runs, fs \in SUBSET Files : UploadBegins(n, fs)
        \/ \E gone \in BOOLEAN : ServerRestarts(gone)
    <3>1. CASE Controller \/ Rejection \/ CacheSync \/ OtherUsers
      BY <3>1 DEF Controller, Rejection, CacheSync, OtherUsers
    <3>2. CASE Builds
      BY <3>2 DEF Builds, RunEnds, RunIsCut, UploadStep
    <3>3. CASE OperatorRestarts
      BY <3>3 DEF OperatorRestarts
    <3> QED
      BY <3>1, <3>2, <3>3, Steps DEF vars, storeVars
  <2> QED
    BY <1>1, <2>1, StoreTypes
<1>4. /\ cli' \in Commands /\ got' \in [Files -> Contents \cup {NoFile}] /\ ended' \subseteq Runs
      /\ replaced' \in BOOLEAN
  <2>1. CASE UNCHANGED cliVars /\ UNCHANGED replaced
    BY <1>1, <2>1 DEF cliVars
  <2>2. CASE OperatorRestarts
    BY <1>1, <2>2, IdleTypes DEF OperatorRestarts
  <2>3. CASE CliAction /\ UNCHANGED replaced
    BY <1>1, <2>3, CliTypes
  <2> QED
    BY <2>1, <2>2, <2>3, Steps DEF vars, cliVars
<1>5. budget' \in [{"write", "fault"} -> Nat]
  <2>1. UNCHANGED budget \/ Spend("write") \/ Spend("fault")
    BY DEF Next, Controller, Rejection, CacheSync, Builds, RunEnds, RunIsCut, OperatorRestarts, OtherUsers,
           Command, Artifacts, DownloadIfUpToDate, Trigger, GetInitial, Poll, PollGivesUp, List, Finish, OpenFile,
           CopyFile, Reads, CliStep, rest, vars
  <2> QED
    BY <1>1, <2>1, Spends
<1> QED
  BY <1>2, <1>3, <1>4, <1>5, <1>1 DEF TypeOK

-----------------------------------------------------------------------------
(* Runs *)

RunBegins(n) ==
    /\ n = LastRun + 1 /\ n \notin kept /\ InProgress = {}
    /\ kept' = kept \cup {n} /\ build' = [build EXCEPT ![n] = "pending"]
    /\ UNCHANGED storeVars

(* A run ends beside its upload, or in the middle of it. *)
RunIsOver(n, outcome) ==
    /\ n \in InProgress
    /\ kept' = kept /\ build' = [build EXCEPT ![n] = outcome]
    /\ \/ upload.by # n /\ (outcome = "succeeded" => answer[n] # "error") /\ UNCHANGED storeVars
       \/ upload.by = n /\ outcome = "failed" /\ UploadFails

(* What a step does to the runs and to the artifact directory. *)
LEMMA RunSteps ==
    ASSUME [Next]_vars
    PROVE  \/ \E n \in Runs : RunBegins(n) /\ UNCHANGED replaced
           \/ \E n \in Runs, outcome \in {"succeeded", "failed"} : RunIsOver(n, outcome) /\ UNCHANGED replaced
           \/ /\ UNCHANGED <<build, kept>>
              /\ \/ UNCHANGED <<storeVars, replaced>>
                 \/ UNCHANGED replaced /\ UploadStep
                 \/ UNCHANGED replaced /\ \E n \in InProgress, fs \in SUBSET Files : UploadBegins(n, fs)
                 \/ /\ OperatorRestarts
                    /\ \E gone \in BOOLEAN : ServerRestarts(gone) /\ replaced' = (replaced \/ gone)
<1>1. CASE Controller
  <2>1. UNCHANGED <<storeVars, replaced>>
    BY <1>1 DEF Controller, rest
  <2>2. CASE \E n \in Runs : n = Cardinality(kept) + 1 /\ Begin(n)
    BY <2>1, <2>2 DEF Begin, RunBegins, LastRun
  <2>3. CASE Observe \/ Publish \/ \E n \in Runs : Adopt(n)
    BY <2>1, <2>3 DEF Observe, Publish, Adopt
  <2> QED
    BY <1>1, <2>2, <2>3 DEF Controller
<1>2. CASE Rejection \/ CacheSync \/ OtherUsers
  BY <1>2 DEF Rejection, Reject, CacheSync, OtherUsers, Request, contractVars, rest
<1>3. CASE Builds
  <2>1. ASSUME NEW n \in Runs, NEW o \in {"succeeded", "failed"}, RunEnds(n, o)
        PROVE  RunIsOver(n, o) /\ UNCHANGED replaced
    BY <2>1 DEF RunEnds, End, RunIsOver, rest
  <2>2. ASSUME NEW n \in Runs, RunIsCut(n)
        PROVE  RunIsOver(n, "failed") /\ UNCHANGED replaced
    BY <2>2 DEF RunIsCut, End, RunIsOver, rest
  <2>3. CASE UploadStep /\ UNCHANGED <<contractVars, seen, seenFresh, rest>>
    BY <2>3 DEF contractVars, rest
  <2>4. ASSUME NEW n \in InProgress, NEW fs \in SUBSET Files, UploadBegins(n, fs),
               UNCHANGED <<contractVars, seen, seenFresh, rest>>
        PROVE  UNCHANGED <<build, kept, replaced>>
    BY <2>4 DEF contractVars, rest
  <2> QED
    BY <1>3, <2>1, <2>2, <2>3, <2>4 DEF Builds
<1>4. CASE OperatorRestarts
  BY <1>4 DEF OperatorRestarts
<1>5. CASE CliAction /\ UNCHANGED <<storeVars, seen, replaced, budget>>
  <2>1. UNCHANGED <<build, kept>>
    BY <1>5 DEF CliAction, Artifacts, DownloadIfUpToDate, Trigger, Request, GetInitial, Poll, PollGivesUp, List,
                Finish, OpenFile, CopyFile, Reads, contractVars
  <2> QED
    BY <1>5, <2>1
<1>6. CASE UNCHANGED vars
  BY <1>6 DEF vars, contractVars
<1> QED
  BY <1>1, <1>2, <1>3, <1>4, <1>5, <1>6, Steps

LEMMA RunTypes ==
    ASSUME TypeOK
    PROVE  build \in [Runs -> States] /\ kept \subseteq Runs /\ InProgress \subseteq kept
  BY DEF TypeOK, ContractTypeOK, InProgress

LEMMA NumberedStep ==
    ASSUME TypeOK, Numbered, [Next]_vars
    PROVE  Numbered'
<1>1. build \in [Runs -> States] /\ kept \subseteq Runs
  BY RunTypes
<1>2. LastRun \in Nat /\ kept = 1..LastRun /\ InProgress \subseteq {LastRun}
  BY DEF Numbered
<1>3. ASSUME NEW n \in Runs, RunBegins(n) PROVE Numbered'
  <2>1. kept' = 1..n /\ n \in Nat /\ n > 0 /\ n = LastRun + 1
    BY <1>2, <1>3 DEF RunBegins
  <2>2. LastRun' = n
    <3>1. Cardinality(1..n) = IF 1 > n THEN 0 ELSE n - 1 + 1
      BY <2>1, FS_Interval
    <3> QED
      BY <2>1, <3>1 DEF LastRun
  <2>3. InProgress' \subseteq {n}
    BY <1>1, <1>3 DEF RunBegins, InProgress
  <2> QED
    BY <2>1, <2>2, <2>3 DEF Numbered
<1>4. ASSUME NEW n \in Runs, NEW o \in {"succeeded", "failed"}, RunIsOver(n, o) PROVE Numbered'
  <2>1. InProgress' \subseteq InProgress
    BY <1>1, <1>4 DEF RunIsOver, InProgress, Unfinished
  <2>2. kept' = kept /\ LastRun' = LastRun
    BY <1>4 DEF RunIsOver, LastRun
  <2> QED
    BY <1>2, <2>1, <2>2 DEF Numbered
<1>5. CASE UNCHANGED <<build, kept>>
  <2>1. InProgress' = InProgress /\ LastRun' = LastRun
    BY <1>5 DEF InProgress, LastRun
  <2> QED
    BY <1>2, <1>5, <2>1 DEF Numbered
<1> QED
  BY <1>3, <1>4, <1>5, RunSteps

(* A run that is over stays what it is, and a new one is none of the old. *)
LEMMA OverIsOver ==
    ASSUME TypeOK, [Next]_vars
    PROVE  /\ kept \subseteq kept'
           /\ \A n \in kept \ InProgress : build'[n] = build[n] /\ n \notin InProgress'
<1>1. build \in [Runs -> States] /\ kept \subseteq Runs
  BY RunTypes
<1>2. ASSUME NEW m \in Runs, RunBegins(m)
      PROVE  /\ kept \subseteq kept'
             /\ \A n \in kept \ InProgress : build'[n] = build[n] /\ n \notin InProgress'
  BY <1>1, <1>2 DEF RunBegins, InProgress
<1>3. ASSUME NEW m \in Runs, NEW o \in {"succeeded", "failed"}, RunIsOver(m, o)
      PROVE  /\ kept \subseteq kept'
             /\ \A n \in kept \ InProgress : build'[n] = build[n] /\ n \notin InProgress'
  BY <1>1, <1>3 DEF RunIsOver, InProgress
<1>4. CASE UNCHANGED <<build, kept>>
  BY <1>4 DEF InProgress
<1> QED
  BY <1>2, <1>3, <1>4, RunSteps

LEMMA SuccessStays ==
    ASSUME TypeOK, UploadsOK, [Next]_vars, NEW n \in Runs, build[n] = "succeeded"
    PROVE  build'[n] = "succeeded"
<1>1. n \in kept
  BY DEF UploadsOK
<1>2. n \notin InProgress
  BY DEF InProgress, Unfinished
<1> QED
  BY <1>1, <1>2, OverIsOver

-----------------------------------------------------------------------------
(* Answers *)

(* Only Publish changes what is stored, and the command acts on answers. *)
LEMMA ShownSteps ==
    ASSUME [Next]_vars
    PROVE  UNCHANGED shown \/ (Publish /\ seen' = seen)
<1>1. CASE Controller
  BY <1>1 DEF Controller, Observe, Publish, Adopt, Begin
<1>2. CASE Rejection \/ CacheSync \/ Builds \/ OtherUsers \/ OperatorRestarts
  BY <1>2 DEF Rejection, Reject, CacheSync, Builds, RunEnds, RunIsCut, End, OperatorRestarts, OtherUsers, Request,
              contractVars
<1>3. CASE CliAction
  BY <1>3 DEF CliAction, Artifacts, DownloadIfUpToDate, Trigger, Request, GetInitial, Poll, PollGivesUp, List, Finish,
              OpenFile, CopyFile, Reads, contractVars
<1> QED
  BY <1>1, <1>2, <1>3, Steps DEF vars, contractVars

LEMMA BuildSteps ==
    ASSUME TypeOK, [Next]_vars
    PROVE  cli'.build \in {cli.build, seen, Nothing}
<1>1. cli \in Commands
  BY DEF TypeOK
<1>2. \A b \in Commands : Act(b).build \in {b.build, seen, Nothing}
  BY IdleTypes DEF Act, Commands
<1>3. CASE Poll \/ PollGivesUp
  <2>1. [cli EXCEPT !.late = TRUE] \in Commands
    BY <1>1 DEF Commands
  <2>2. [cli EXCEPT !.late = TRUE].build = cli.build
    BY <1>1 DEF Commands
  <2> QED
    BY <1>1, <1>2, <1>3, <2>1, <2>2 DEF Poll, PollGivesUp
<1>4. CASE Artifacts \/ DownloadIfUpToDate \/ Trigger \/ GetInitial \/ Finish
  BY <1>1, <1>4 DEF Artifacts, DownloadIfUpToDate, Trigger, GetInitial, Finish, Commands
<1>5. CASE List
  BY <1>5, IdleTypes DEF List, Commands
<1>6. ASSUME NEW f \in Files, OpenFile(f) \/ CopyFile(f) PROVE cli'.build \in {cli.build, Nothing}
  <2>1. cli' \in {Over, [cli EXCEPT !.todo = @ \ {f}, !.open = {f}, !.held = files[f]],
                  [cli EXCEPT !.open = {}, !.held = NoFile]}
    BY <1>6 DEF OpenFile, CopyFile
  <2> QED
    BY <1>1, <2>1, IdleTypes DEF Commands
<1>7. CASE CliAction
  BY <1>3, <1>4, <1>5, <1>6, <1>7 DEF CliAction
<1>8. CASE UNCHANGED cli
  BY <1>8
<1>9. CASE OperatorRestarts
  BY <1>9, IdleTypes DEF OperatorRestarts
<1> QED
  BY <1>7, <1>8, <1>9, Steps DEF vars, cliVars

LEMMA AnswersStep ==
    ASSUME TypeOK, ContractInv, job, UploadsOK, AnswersAreTrue, [Next]_vars
    PROVE  AnswersAreTrue'
<1> DEFINE Still(x) == x.phase = "Succeeded" => x.run \in Runs /\ build'[x.run] = "succeeded"
<1>1. Still(shown) /\ Still(report) /\ Still(seen) /\ Still(cli.build) /\ Still(Nothing)
  BY SuccessStays, Params DEF AnswersAreTrue, True
<1>2. ContractInv'
  BY ContractKeeps
<1>3. Still(report')
  BY <1>2 DEF ContractInv, ReportIsTrue
<1>4. Still(shown')
  <2>1. UNCHANGED shown \/ Publish
    BY ShownSteps
  <2>2. CASE Publish
    <3>1. shown'.run = report.run /\ shown'.phase = report.phase
      BY <2>2 DEF Publish
    <3> QED
      BY <1>1, <3>1
  <2> QED
    BY <1>1, <2>1, <2>2
<1>5. Still(seen')
  <2>1. seen' \in {seen, shown}
    BY DEF Next, Controller, Rejection, CacheSync, Builds, RunEnds, RunIsCut, OperatorRestarts, OtherUsers,
           Command, Artifacts, DownloadIfUpToDate, Trigger, GetInitial, Poll, PollGivesUp, List, Finish, OpenFile,
           CopyFile, Reads, CliStep, vars
  <2> QED
    BY <1>1, <2>1
<1>6. Still(cli'.build)
  <2>1. cli'.build \in {cli.build, seen, Nothing}
    BY BuildSteps
  <2> QED
    BY <1>1, <2>1
<1> QED
  BY <1>3, <1>4, <1>5, <1>6 DEF AnswersAreTrue, True

-----------------------------------------------------------------------------
(* Uploads *)

LEMMA StoreFacts ==
    ASSUME TypeOK
    PROVE  /\ files \in [Files -> Contents \cup {NoFile}]
           /\ produced \in [Runs -> SUBSET Files]
           /\ answer \in [Runs -> {"none", "ok", "error"}]
           /\ upload # NoUpload => upload.by \in Runs /\ upload.todo \subseteq Files /\ upload.open \subseteq Files
           /\ upload.by # 0 => upload # NoUpload
<1>1. /\ files \in [Files -> Contents \cup {NoFile}]
      /\ produced \in [Runs -> SUBSET Files]
      /\ answer \in [Runs -> {"none", "ok", "error"}]
      /\ upload # NoUpload => upload \in [by : Runs, todo : SUBSET Files, open : SUBSET Files]
  BY Params DEF TypeOK, StoreTypeOK
<1>2. NoUpload.by = 0
  BY DEF NoUpload
<1> QED
  BY <1>1, <1>2

LEMMA Written ==
    ASSUME NEW r \in Runs
    PROVE  [[by |-> r, whole |-> FALSE] EXCEPT !.whole = TRUE] = [by |-> r, whole |-> TRUE]
<1> DEFINE v == [by |-> r, whole |-> FALSE]
           w == [v EXCEPT !.whole = TRUE]
<1>1. v \in [by : Runs, whole : BOOLEAN] /\ v.by = r
  OBVIOUS
<1> HIDE DEF v
<1>2. w \in [by : Runs, whole : BOOLEAN] /\ w.by = r /\ w.whole
  BY <1>1
<1> HIDE DEF w
<1>3. w = [by |-> r, whole |-> TRUE]
  BY <1>2
<1> QED
  BY <1>3 DEF v, w

(* The request ends, with what was read of it in place. *)
LEMMA AnswerKeepsUploads ==
    ASSUME TypeOK, UploadsOK, upload # NoUpload, UNCHANGED <<build, kept, produced>>,
           NEW what \in {"ok", "error"}, Answer(what)
    PROVE  UploadsOK'
<1>1. upload.by \in Runs /\ upload.by \in InProgress /\ answer[upload.by] = "none"
  BY StoreFacts DEF UploadsOK, RequestOK
<1>2. build[upload.by] # "succeeded" /\ upload.by \in kept
  BY <1>1 DEF InProgress, Unfinished
<1>3. upload' = NoUpload /\ answer' = [answer EXCEPT ![upload.by] = what]
  BY DEF Answer
<1>4. answer'[upload.by] = what /\ \A n \in Runs \ {upload.by} : answer'[n] = answer[n]
  BY <1>1, <1>3, StoreFacts
<1>5. ASSUME NEW n \in Runs
      PROVE  /\ n \notin kept => build[n] = "failed" /\ produced[n] = {} /\ answer'[n] = "none"
             /\ answer'[n] = "none" /\ produced[n] # {} => upload'.by = n
             /\ build[n] = "succeeded" => answer'[n] # "error"
  BY <1>2, <1>4 DEF UploadsOK
<1> QED
  BY <1>3, <1>5 DEF UploadsOK

LEMMA RequestGoesOn ==
    ASSUME TypeOK, UploadsOK, UNCHANGED <<build, kept, produced, answer>>,
           upload # NoUpload, NEW f \in Files, CreateFile(f) \/ WriteFile(f)
    PROVE  UploadsOK'
<1> DEFINE r == upload.by
<1>1. /\ r \in Runs /\ r \in InProgress /\ answer[r] = "none"
      /\ upload.todo \cup upload.open \subseteq produced[r] /\ produced[r] \subseteq Files
      /\ upload.todo \cap upload.open = {} /\ \A g, h \in upload.open : g = h
      /\ \A g \in produced[r] \ upload.todo : files[g] = [by |-> r, whole |-> g \notin upload.open]
      /\ files \in [Files -> Contents \cup {NoFile}]
  BY StoreFacts DEF UploadsOK, RequestOK
<1>2. upload \in [by : Runs, todo : SUBSET Files, open : SUBSET Files]
  BY Params DEF TypeOK, StoreTypeOK
<1>3. CASE CreateFile(f)
  <2>1. /\ upload'.by = r /\ upload'.todo = upload.todo \ {f} /\ upload'.open = {f}
        /\ upload.open = {} /\ f \in upload.todo
        /\ files' = [files EXCEPT ![f] = [by |-> r, whole |-> FALSE]]
    BY <1>2, <1>3 DEF CreateFile
  <2>2. ASSUME NEW g \in produced[r] \ upload'.todo
        PROVE  files'[g] = [by |-> r, whole |-> g \notin upload'.open]
    <3>1. CASE g = f
      BY <1>1, <2>1, <3>1
    <3>2. CASE g # f
      BY <1>1, <2>1, <2>2, <3>2
    <3> QED
      BY <3>1, <3>2
  <2> HIDE DEF r
  <2>3. RequestOK'
    <3>1. upload'.by \in InProgress' /\ answer'[upload'.by] = "none"
      BY <1>1, <2>1 DEF InProgress
    <3>2. upload'.todo \cup upload'.open \subseteq produced'[upload'.by]
      BY <1>1, <2>1
    <3>3. upload'.todo \cap upload'.open = {} /\ \A g, h \in upload'.open : g = h
      BY <2>1
    <3> QED
      BY <2>1, <2>2, <3>1, <3>2, <3>3 DEF RequestOK
  <2> QED
    BY <2>1, <2>3 DEF UploadsOK, r
<1>4. CASE WriteFile(f)
  <2>1. /\ upload'.by = r /\ upload'.todo = upload.todo /\ upload'.open = {}
        /\ f \in upload.open /\ files' = [files EXCEPT ![f].whole = TRUE]
    BY <1>2, <1>4 DEF WriteFile
  <2>2. ASSUME NEW g \in produced[r] \ upload'.todo
        PROVE  files'[g] = [by |-> r, whole |-> g \notin upload'.open]
    <3>1. CASE g = f
      <4>1. files[f] = [by |-> r, whole |-> FALSE]
        BY <1>1, <2>1, <2>2, <3>1
      <4>2. files'[f] = [by |-> r, whole |-> TRUE]
        <5>1. f \in Files /\ files'[f] = [files[f] EXCEPT !.whole = TRUE]
          BY <1>1, <2>1
        <5>2. [[by |-> r, whole |-> FALSE] EXCEPT !.whole = TRUE] = [by |-> r, whole |-> TRUE]
          BY <1>1, Written
        <5> QED
          BY <4>1, <5>1, <5>2
      <4> QED
        BY <2>1, <3>1, <4>2
    <3>2. CASE g # f
      BY <1>1, <2>1, <2>2, <3>2
    <3> QED
      BY <3>1, <3>2
  <2> HIDE DEF r
  <2>3. RequestOK'
    <3>1. upload'.by \in InProgress' /\ answer'[upload'.by] = "none"
      BY <1>1, <2>1 DEF InProgress
    <3>2. upload'.todo \cup upload'.open \subseteq produced'[upload'.by]
      BY <1>1, <2>1
    <3>3. upload'.todo \cap upload'.open = {} /\ \A g, h \in upload'.open : g = h
      BY <2>1
    <3> QED
      BY <2>1, <2>2, <3>1, <3>2, <3>3 DEF RequestOK
  <2> QED
    BY <2>1, <2>3 DEF UploadsOK, r
<1> QED
  BY <1>3, <1>4

LEMMA UploadsStep ==
    ASSUME TypeOK, UploadsOK, [Next]_vars
    PROVE  UploadsOK'
<1>1. ASSUME NEW n \in Runs, RunBegins(n) PROVE UploadsOK'
  <2>1. upload = NoUpload /\ UNCHANGED <<upload, produced, answer>>
    BY <1>1 DEF RunBegins, UploadsOK, RequestOK, storeVars
  <2>2. \A m \in Runs : m \notin kept' => m \notin kept /\ build'[m] = build[m]
    BY <1>1, RunTypes DEF RunBegins
  <2>3. \A m \in Runs : build'[m] = "succeeded" => build[m] = "succeeded"
    BY <1>1, RunTypes DEF RunBegins
  <2> QED
    BY <2>1, <2>2, <2>3 DEF UploadsOK
<1>2. ASSUME NEW n \in Runs, NEW o \in {"succeeded", "failed"}, RunIsOver(n, o) PROVE UploadsOK'
  <2>1. n \in kept /\ build' = [build EXCEPT ![n] = o] /\ kept' = kept /\ build \in [Runs -> States]
    BY <1>2, RunTypes DEF RunIsOver
  <2>2. \A m \in Runs : m \notin kept => build'[m] = build[m]
    BY <2>1
  <2>3. CASE upload.by # n /\ (o = "succeeded" => answer[n] # "error") /\ UNCHANGED storeVars
    <3>1. UNCHANGED <<files, upload, produced, answer>>
      BY <2>3 DEF storeVars
    <3>2. upload # NoUpload => upload.by \in InProgress'
      BY <2>1, <2>3 DEF UploadsOK, RequestOK, InProgress
    <3>3. upload # NoUpload => RequestOK'
      BY <3>1, <3>2 DEF UploadsOK, RequestOK
    <3>4. \A m \in Runs : build'[m] = "succeeded" => answer[m] # "error"
      BY <2>1, <2>3 DEF UploadsOK
    <3> QED
      BY <2>1, <2>2, <3>1, <3>3, <3>4 DEF UploadsOK
  <2>4. CASE upload.by = n /\ o = "failed" /\ UploadFails
    <3>1. upload' = NoUpload /\ produced' = produced /\ answer' = [answer EXCEPT ![n] = "error"]
      BY <2>4 DEF UploadFails, Answer
    <3>2. \A m \in Runs : m # n => answer'[m] = answer[m]
      BY <3>1, StoreFacts
    <3>3. answer'[n] = "error" /\ build'[n] = "failed"
      BY <2>1, <2>4, <3>1, StoreFacts
    <3>4. ASSUME NEW m \in Runs
          PROVE  /\ m \notin kept => build'[m] = "failed" /\ produced[m] = {} /\ answer'[m] = "none"
                 /\ answer'[m] = "none" /\ produced[m] # {} => upload'.by = m
                 /\ build'[m] = "succeeded" => answer'[m] # "error"
      <4>1. CASE m = n
        BY <2>1, <3>3, <4>1
      <4>2. CASE m # n
        BY <2>1, <2>4, <3>2, <4>2 DEF UploadsOK
      <4> QED
        BY <4>1, <4>2
    <3> QED
      BY <2>1, <3>1, <3>4 DEF UploadsOK
  <2> QED
    BY <1>2, <2>3, <2>4 DEF RunIsOver
<1>3. CASE UNCHANGED <<build, kept>> /\ UNCHANGED storeVars
  BY <1>3 DEF storeVars, UploadsOK, RequestOK, InProgress
<1>4. CASE UNCHANGED <<build, kept>> /\ UploadStep
  <2>1. UploadEnds \/ UploadFails \/ (\E f \in Files : FileTooLarge(f)) => UploadsOK'
    <3>1. UploadEnds \/ UploadFails \/ (\E f \in Files : FileTooLarge(f)) =>
             /\ upload # NoUpload /\ UNCHANGED produced
             /\ Answer("ok") \/ Answer("error")
      BY StoreFacts DEF UploadEnds, UploadFails, FileTooLarge, NoUpload
    <3> QED
      BY <1>4, <3>1, AnswerKeepsUploads
  <2>2. ASSUME NEW f \in Files, CreateFile(f) \/ WriteFile(f) PROVE UploadsOK'
    <3>1. upload # NoUpload /\ UNCHANGED <<produced, answer>>
      BY <2>2 DEF CreateFile, WriteFile, NoUpload
    <3> QED
      BY <1>4, <2>2, <3>1, RequestGoesOn
  <2> QED
    BY <1>4, <2>1, <2>2 DEF UploadStep
<1>5. ASSUME NEW n \in InProgress, NEW fs \in SUBSET Files, UploadBegins(n, fs), UNCHANGED <<build, kept>>
      PROVE  UploadsOK'
  <2>1. n \in Runs /\ n \in kept /\ InProgress' = InProgress
    BY <1>5, RunTypes DEF InProgress
  <2>2. /\ upload = NoUpload /\ upload' = [by |-> n, todo |-> fs, open |-> {}]
        /\ produced' = [produced EXCEPT ![n] = fs] /\ answer' = answer /\ answer[n] = "none"
    BY <1>5 DEF UploadBegins
  <2>3. produced'[n] = fs /\ \A m \in Runs : m # n => produced'[m] = produced[m]
    BY <2>1, <2>2, StoreFacts
  <2>4. RequestOK'
    BY <2>1, <2>2, <2>3 DEF RequestOK
  <2>5. ASSUME NEW m \in Runs
        PROVE  /\ m \notin kept => build[m] = "failed" /\ produced'[m] = {} /\ answer[m] = "none"
               /\ answer[m] = "none" /\ produced'[m] # {} => upload'.by = m
               /\ build[m] = "succeeded" => answer[m] # "error"
    <3>1. CASE m = n
      BY <2>1, <2>2, <3>1
    <3>2. CASE m # n
      <4>1. upload.by \notin Runs
        BY <2>2, Params DEF NoUpload
      <4> QED
        BY <2>3, <3>2, <4>1 DEF UploadsOK
    <3> QED
      BY <3>1, <3>2
  <2> QED
    BY <1>5, <2>2, <2>4, <2>5 DEF UploadsOK
<1>6. ASSUME NEW gone \in BOOLEAN, ServerRestarts(gone), UNCHANGED <<build, kept>>
      PROVE  UploadsOK'
  <2>1. CASE upload = NoUpload
    BY <1>6, <2>1 DEF ServerRestarts, UploadsOK
  <2>2. CASE upload # NoUpload
    BY <1>6, <2>2, AnswerKeepsUploads DEF ServerRestarts
  <2> QED
    BY <2>1, <2>2
<1> QED
  BY <1>1, <1>2, <1>3, <1>4, <1>5, <1>6, RunSteps

(* What happens to the file of one name. *)
LEMMA FileSteps ==
    ASSUME TypeOK, UploadsOK, [Next]_vars, NEW f \in Files
    PROVE  \/ files'[f] = files[f]
           \/ /\ upload # NoUpload /\ f \in produced[upload.by]
              /\ \/ files'[f] # NoFile /\ files'[f].by = upload.by
                 \/ files'[f] = NoFile /\ answer'[upload.by] = "error"
           \/ OperatorRestarts /\ files'[f] = NoFile /\ replaced'
<1>0. files \in [Files -> Contents \cup {NoFile}] /\ 0 \notin Runs /\ NoFile.by = 0
  BY StoreFacts, Params DEF NoFile
<1>1. CASE UNCHANGED files
  BY <1>1
<1>2. ASSUME NEW g \in Files, CreateFile(g) \/ WriteFile(g), f = g
      PROVE  upload # NoUpload /\ f \in produced[upload.by] /\ files'[f] # NoFile /\ files'[f].by = upload.by
  <2>1. upload # NoUpload /\ RequestOK /\ upload.by \in Runs
    BY <1>2, StoreFacts DEF CreateFile, WriteFile, NoUpload, UploadsOK
  <2>2. f \in produced[upload.by]
    BY <1>2, <2>1 DEF CreateFile, WriteFile, RequestOK
  <2>3. files'[f].by = upload.by
    <3>1. CASE CreateFile(g)
      BY <1>0, <1>2, <3>1 DEF CreateFile
    <3>2. CASE WriteFile(g)
      <4>1. files[f] = [by |-> upload.by, whole |-> f \notin upload.open]
        BY <1>2, <2>1, <2>2, <3>2 DEF WriteFile, RequestOK
      <4>2. files'[f] = [files[f] EXCEPT !.whole = TRUE]
        BY <1>0, <1>2, <3>2 DEF WriteFile
      <4> QED
        BY <4>1, <4>2
    <3> QED
      BY <1>2, <3>1, <3>2
  <2> QED
    BY <1>0, <2>1, <2>2, <2>3
<1>3. ASSUME NEW g \in Files, FileTooLarge(g), f = g
      PROVE  upload # NoUpload /\ f \in produced[upload.by] /\ files'[f] = NoFile /\ answer'[upload.by] = "error"
  <2>1. upload # NoUpload /\ RequestOK /\ upload.by \in Runs
    BY <1>3, StoreFacts DEF FileTooLarge, NoUpload, UploadsOK
  <2> QED
    BY <1>0, <1>3, <2>1, StoreFacts DEF FileTooLarge, Answer, RequestOK
<1>4. ASSUME NEW g \in Files, CreateFile(g) \/ WriteFile(g) \/ FileTooLarge(g), f # g
      PROVE  files'[f] = files[f]
  BY <1>0, <1>4 DEF CreateFile, WriteFile, FileTooLarge
<1>5. ASSUME OperatorRestarts, NEW gone \in BOOLEAN, ServerRestarts(gone), replaced' = (replaced \/ gone)
      PROVE  files'[f] = files[f] \/ (files'[f] = NoFile /\ replaced')
  BY <1>5 DEF ServerRestarts
<1>6. CASE UploadStep
  <2>1. UploadEnds \/ UploadFails => UNCHANGED files
    BY DEF UploadEnds, UploadFails
  <2> QED
    BY <1>1, <1>2, <1>3, <1>4, <1>6, <2>1 DEF UploadStep
<1>7. CASE UNCHANGED storeVars
  BY <1>1, <1>7 DEF storeVars
<1>8. ASSUME NEW n \in Runs, NEW o \in {"succeeded", "failed"}, RunIsOver(n, o) PROVE UNCHANGED files
  BY <1>8 DEF RunIsOver, UploadFails, storeVars
<1>9. ASSUME NEW n \in InProgress, NEW fs \in SUBSET Files, UploadBegins(n, fs) PROVE UNCHANGED files
  BY <1>9 DEF UploadBegins
<1> QED
  BY <1>1, <1>5, <1>6, <1>7, <1>8, <1>9, RunSteps DEF RunBegins

(* What is said of past runs stays said. *)
LEMMA PastStays ==
    ASSUME TypeOK, UploadsOK, [Next]_vars
    PROVE  /\ replaced => replaced'
           /\ \A n \in Runs :
                /\ produced[n] \subseteq produced'[n]
                /\ n \notin InProgress => produced'[n] = produced[n]
                /\ answer[n] # "none" => answer'[n] = answer[n] /\ produced'[n] = produced[n]
                /\ answer'[n] = "ok" =>
                     answer[n] = "ok" \/ (UploadEnds /\ upload.by = n /\ UNCHANGED <<files, produced>>)
<1> DEFINE Stays(n) == /\ produced[n] \subseteq produced'[n]
                       /\ n \notin InProgress => produced'[n] = produced[n]
                       /\ answer[n] # "none" => answer'[n] = answer[n] /\ produced'[n] = produced[n]
                       /\ answer'[n] = "ok" =>
                            answer[n] = "ok" \/ (UploadEnds /\ upload.by = n /\ UNCHANGED <<files, produced>>)
<1> HIDE DEF Stays
<1>1. UNCHANGED <<produced, answer>> => \A n \in Runs : Stays(n)
  BY DEF Stays
<1>2. ASSUME NEW what \in {"ok", "error"}, Answer(what), upload # NoUpload, UNCHANGED produced,
             what = "ok" => UploadEnds
      PROVE  \A n \in Runs : Stays(n)
  <2>1. upload.by \in Runs /\ answer[upload.by] = "none"
    BY <1>2, StoreFacts DEF UploadsOK, RequestOK
  <2>2. answer' = [answer EXCEPT ![upload.by] = what] /\ (what = "ok" => UNCHANGED files)
    BY <1>2 DEF Answer, UploadEnds
  <2>3. answer'[upload.by] = what /\ \A n \in Runs : n # upload.by => answer'[n] = answer[n]
    BY <2>1, <2>2, StoreFacts
  <2> QED
    BY <1>2, <2>1, <2>2, <2>3 DEF Stays
<1>3. ASSUME UploadStep PROVE \A n \in Runs : Stays(n)
  <2>1. CASE \E f \in Files : CreateFile(f) \/ WriteFile(f)
    BY <1>1, <2>1 DEF CreateFile, WriteFile
  <2>2. CASE UploadEnds \/ UploadFails \/ \E f \in Files : FileTooLarge(f)
    <3>1. /\ upload # NoUpload /\ UNCHANGED produced
          /\ (UploadEnds /\ Answer("ok")) \/ Answer("error")
      BY <2>2, StoreFacts DEF UploadEnds, UploadFails, FileTooLarge, NoUpload
    <3> QED
      BY <1>2, <3>1
  <2> QED
    BY <1>3, <2>1, <2>2 DEF UploadStep
<1>4. ASSUME NEW n \in InProgress, NEW fs \in SUBSET Files, UploadBegins(n, fs)
      PROVE  \A m \in Runs : Stays(m)
  BY <1>4, StoreFacts DEF UploadBegins, Stays
<1>5. ASSUME NEW gone \in BOOLEAN, ServerRestarts(gone)
      PROVE  \A n \in Runs : Stays(n)
  <2>1. CASE upload = NoUpload
    BY <1>1, <1>5, <2>1 DEF ServerRestarts
  <2>2. CASE upload # NoUpload
    BY <1>2, <1>5, <2>2 DEF ServerRestarts
  <2> QED
    BY <2>1, <2>2
<1>6. ASSUME NEW m \in Runs, NEW o \in {"succeeded", "failed"}, RunIsOver(m, o)
      PROVE  \A n \in Runs : Stays(n)
  <2>1. CASE UNCHANGED storeVars
    BY <1>1, <2>1 DEF storeVars
  <2>2. CASE upload.by = m /\ UploadFails
    <3>1. upload # NoUpload /\ UNCHANGED produced /\ Answer("error")
      BY <2>2, StoreFacts DEF UploadFails
    <3> QED
      BY <1>2, <3>1
  <2> QED
    BY <1>6, <2>1, <2>2 DEF RunIsOver
<1>7. ASSUME UNCHANGED storeVars PROVE \A n \in Runs : Stays(n)
  BY <1>1, <1>7 DEF storeVars
<1>8. \A n \in Runs : Stays(n)
  <2> QED
    BY <1>3, <1>4, <1>5, <1>6, <1>7, RunSteps DEF RunBegins
<1>9. replaced => replaced'
  BY RunSteps
<1> QED
  BY <1>8, <1>9 DEF Stays

LEMMA Orders == \A k, r \in Runs : k > r => k >= r
  BY RunsAssumption

LEMMA ReadersStay ==
    ASSUME TypeOK, UploadsOK, [Next]_vars, NEW r \in Runs
    PROVE  /\ Excuse(r) => Excuse(r)'
           /\ \A f \in Files : Later(r, f) => Later(r, f)'
           /\ \A f \in Files : \A v : OfRun(v, f, r) => v = [by |-> r, whole |-> TRUE] \/ (v.by >= r /\ Later(r, f)')
<1>1. Excuse(r) => Excuse(r)'
  BY PastStays DEF Excuse
<1>2. ASSUME NEW f \in Files, Later(r, f) PROVE Later(r, f)'
  BY <1>2, PastStays DEF Later
<1> QED
  BY <1>1, <1>2 DEF OfRun

LEMMA NotOlder ==
    ASSUME NEW r \in Runs, NEW f, NEW v, OfRun(v, f, r)
    PROVE  v.by >= r
<1>1. r \in Nat /\ r >= r
  BY RunsAssumption
<1>2. v.by = r \/ v.by >= r
  BY DEF OfRun
<1> QED
  BY <1>1, <1>2

(* The request in progress is of the last run. *)
LEMMA RequestIsLater ==
    ASSUME TypeOK, Numbered, UploadsOK, upload # NoUpload, NEW r \in Runs, answer[r] # "none"
    PROVE  upload.by \in Runs /\ upload.by > r
<1>1. upload.by \in Runs /\ upload.by \in InProgress /\ answer[upload.by] = "none"
  BY StoreFacts DEF UploadsOK, RequestOK
<1>2. r \in kept
  BY DEF UploadsOK
<1>3. r # upload.by /\ upload.by = LastRun /\ r \in 1..LastRun /\ LastRun \in Nat
  BY <1>1, <1>2 DEF Numbered
<1> QED
  BY <1>1, <1>3

LEMMA StoreStep ==
    ASSUME TypeOK, Numbered, UploadsOK, StoreOK, [Next]_vars
    PROVE  StoreOK'
<1> SUFFICES ASSUME NEW r \in Runs, answer'[r] = "ok", NEW f \in produced'[r]
             PROVE  IF files'[f] = NoFile THEN Excuse(r)' ELSE OfRun(files[f], f, r)'
  BY DEF StoreOK
<1>1. r \in Nat /\ r # 0 /\ NoFile.by = 0 /\ Runs \subseteq Nat
  BY Params DEF NoFile
<1>2. CASE answer[r] = "ok"
  <2>1. f \in produced[r] /\ f \in Files
    BY <1>2, PastStays, StoreFacts
  <2>2. files[f] = NoFile \/ OfRun(files[f], f, r)
    BY <1>2, <2>1 DEF StoreOK
  <2>3. CASE files'[f] = files[f]
    <3>1. CASE files[f] = NoFile
      BY <1>2, <2>1, <2>3, <3>1, ReadersStay DEF StoreOK
    <3>2. CASE files[f] # NoFile
      BY <2>1, <2>2, <2>3, <3>2, ReadersStay DEF OfRun
    <3> QED
      BY <3>1, <3>2
  <2>4. ASSUME upload # NoUpload, f \in produced[upload.by] PROVE Later(r, f)'
    <3>1. Later(r, f)
      BY <1>2, <2>4, RequestIsLater DEF Later
    <3> QED
      BY <2>1, <3>1, ReadersStay
  <2>5. CASE upload # NoUpload /\ f \in produced[upload.by] /\ files'[f] # NoFile /\ files'[f].by = upload.by
    <3>1. upload.by \in Runs /\ upload.by > r
      BY <1>2, <2>5, RequestIsLater
    <3>2. files'[f].by >= r
      BY <2>5, <3>1, Orders
    <3>3. Later(r, f)'
      BY <2>4, <2>5
    <3> QED
      BY <2>5, <3>2, <3>3 DEF OfRun
  <2>6. CASE upload # NoUpload /\ files'[f] = NoFile /\ answer'[upload.by] = "error"
    BY <1>2, <2>6, RequestIsLater DEF Excuse
  <2>7. CASE files'[f] = NoFile /\ replaced'
    BY <2>7 DEF Excuse
  <2> QED
    BY <2>1, <2>3, <2>5, <2>6, <2>7, FileSteps
<1>3. CASE answer[r] # "ok"
  <2>1. UploadEnds /\ upload.by = r /\ UNCHANGED <<files, produced>>
    BY <1>3, PastStays
  <2>2. upload # NoUpload /\ upload.todo = {} /\ upload.open = {}
    BY <2>1, StoreFacts DEF UploadEnds
  <2>3. files[f] = [by |-> r, whole |-> f \notin upload.open]
    BY <2>1, <2>2 DEF UploadsOK, RequestOK
  <2>4. files'[f] = [by |-> r, whole |-> TRUE]
    BY <2>1, <2>2, <2>3
  <2> QED
    BY <1>1, <2>4 DEF OfRun
<1> QED
  BY <1>2, <1>3

-----------------------------------------------------------------------------
(* The files on the user's disk *)

(* A run that succeeded and had files to upload had its upload accepted. *)
LEMMA UploadOfSuccess ==
    ASSUME TypeOK, UploadsOK, NEW r \in Runs, build[r] = "succeeded"
    PROVE  /\ r \notin InProgress /\ produced[r] \subseteq Files
           /\ produced[r] # {} => answer[r] = "ok"
<1>1. r \in kept /\ r \notin InProgress
  BY DEF UploadsOK, InProgress, Unfinished
<1>2. upload.by # r
  BY <1>1, StoreFacts, Params DEF UploadsOK, RequestOK
<1>3. answer[r] \in {"none", "ok", "error"} /\ answer[r] # "error" /\ produced[r] \subseteq Files
  BY StoreFacts DEF UploadsOK
<1> QED
  BY <1>1, <1>2, <1>3 DEF UploadsOK

(* A version of a file of run r stays one that its reader may get. *)
LEMMA FetchGoesOn ==
    ASSUME TypeOK, Numbered, UploadsOK, StoreOK, [Next]_vars, OperatorRestarts => cli.open = {},
           NEW r \in Runs, build[r] = "succeeded", NEW f \in produced[r], OnItsWay(r, f)
    PROVE  /\ \/ got[f] \in {NoFile, [by |-> r, whole |-> TRUE]}
              \/ got[f].by >= r /\ Later(r, f)'
           /\ \/ f \notin cli.open \/ cli.held = [by |-> r, whole |-> TRUE]
              \/ cli.held.by >= r /\ Later(r, f)'
           /\ f \in cli.open => files'[f] = cli.held \/ Later(r, f)'
           /\ Excuse(r)' \/ f \in cli.todo \cup cli.open \/ got[f] # NoFile
<1>1. f \in Files /\ answer[r] # "none"
  BY UploadOfSuccess
<1>2. got[f] \in {NoFile, [by |-> r, whole |-> TRUE]} \/ (got[f].by >= r /\ Later(r, f)')
  BY <1>1, ReadersStay DEF OnItsWay, OfRun
<1>3. f \notin cli.open \/ cli.held = [by |-> r, whole |-> TRUE] \/ (cli.held.by >= r /\ Later(r, f)')
  BY <1>1, ReadersStay DEF OnItsWay, OfRun
<1>4. f \in cli.open => files'[f] = cli.held \/ Later(r, f)'
  <2>1. CASE files'[f] = files[f]
    BY <1>1, <2>1, ReadersStay DEF OnItsWay
  <2>2. CASE upload # NoUpload /\ f \in produced[upload.by]
    <3>1. Later(r, f)
      BY <1>1, <2>2, RequestIsLater DEF Later
    <3> QED
      BY <1>1, <3>1, ReadersStay
  <2> QED
    BY <1>1, <2>1, <2>2, FileSteps
<1> QED
  BY <1>2, <1>3, <1>4, ReadersStay DEF OnItsWay

(* Steps beside the command. *)
LEMMA FetchIsKept ==
    ASSUME TypeOK, Numbered, AnswersAreTrue, UploadsOK, StoreOK, FetchOK, [Next]_vars,
           OperatorRestarts => cli.open = {}, UNCHANGED <<cli, got>>
    PROVE  FetchOK'
<1>1. ASSUME cli.pc \in {"fetch", "done"}, cli.build.phase = "Succeeded", NEW f \in produced'[cli.build.run]
      PROVE  OnItsWay(cli.build.run, f)'
  <2>1. PICK r \in Runs : r = cli.build.run
    BY <1>1 DEF AnswersAreTrue, True
  <2>2. build[r] = "succeeded"
    BY <1>1, <2>1 DEF AnswersAreTrue, True
  <2>3. f \in produced[r]
    BY <1>1, <2>1, <2>2, PastStays, UploadOfSuccess
  <2>4. OnItsWay(r, f)
    BY <1>1, <2>1, <2>3 DEF FetchOK
  <2>5. /\ \/ got[f] \in {NoFile, [by |-> r, whole |-> TRUE]}
           \/ got[f].by >= r /\ Later(r, f)'
        /\ \/ f \notin cli.open \/ cli.held = [by |-> r, whole |-> TRUE]
           \/ cli.held.by >= r /\ Later(r, f)'
        /\ f \in cli.open => files'[f] = cli.held \/ Later(r, f)'
        /\ Excuse(r)' \/ f \in cli.todo \cup cli.open \/ got[f] # NoFile
    BY <2>2, <2>3, <2>4, FetchGoesOn
  <2>6. OnItsWay(r, f)'
    BY <2>5 DEF OnItsWay, OfRun
  <2> QED
    BY <2>1, <2>6
<1> QED
  BY <1>1 DEF FetchOK

LEMMA FetchStep ==
    ASSUME TypeOK, Numbered, AnswersAreTrue, UploadsOK, StoreOK, FetchOK, [Next]_vars
    PROVE  FetchOK'
<1>1. cli \in Commands /\ got \in [Files -> Contents \cup {NoFile}] /\ files \in [Files -> Contents \cup {NoFile}]
  BY DEF TypeOK, StoreTypeOK
<1>2. CASE UNCHANGED cliVars
  <2>1. OperatorRestarts => cli.open = {}
    BY <1>2, IdleTypes DEF OperatorRestarts, cliVars
  <2> QED
    BY <1>2, <2>1, FetchIsKept DEF cliVars
<1>3. CASE OperatorRestarts
  <2>1. CASE cli.open = {}
    BY <1>3, <2>1, FetchIsKept DEF OperatorRestarts
  <2>2. CASE cli.open # {}
    BY <1>3, <2>2, IdleTypes DEF OperatorRestarts, FetchOK
  <2> QED
    BY <2>1, <2>2
<1>4. CASE CliAction /\ UNCHANGED <<storeVars, seen, replaced, budget>>
  <2>0. UNCHANGED <<files, produced, answer, replaced>>
    BY <1>4 DEF storeVars
  <2>1. ASSUME cli.pc \notin {"fetch", "done", "failed"}, UNCHANGED got, cli'.open = {},
               cli'.pc \notin {"fetch", "done"}
        PROVE  FetchOK'
    BY <2>1 DEF FetchOK
  <2>2. CASE Artifacts \/ DownloadIfUpToDate \/ Trigger \/ GetInitial
    <3>1. /\ cli.pc \notin {"fetch", "done", "failed"} /\ UNCHANGED got
          /\ cli'.pc \notin {"fetch", "done"} /\ cli'.open = cli.open
      BY <1>1, <2>2 DEF Artifacts, DownloadIfUpToDate, Trigger, GetInitial, Commands
    <3> QED
      BY <2>1, <3>1 DEF FetchOK
  <2>3. CASE Poll \/ PollGivesUp
    <3>1. ASSUME NEW b \in Commands, b.pc = "poll", b.open = {}
          PROVE  Act(b).open = {} /\ Act(b).pc \notin {"fetch", "done"}
      BY <3>1, IdleTypes DEF Act, Commands
    <3>2. cli.pc = "poll" /\ cli.open = {} /\ UNCHANGED got
      BY <2>3 DEF Poll, PollGivesUp, FetchOK
    <3>3. /\ [cli EXCEPT !.late = TRUE] \in Commands
          /\ [cli EXCEPT !.late = TRUE].pc = cli.pc /\ [cli EXCEPT !.late = TRUE].open = cli.open
      BY <1>1 DEF Commands
    <3>4. cli'.open = {} /\ cli'.pc \notin {"fetch", "done"}
      BY <1>1, <2>3, <3>1, <3>2, <3>3 DEF Poll, PollGivesUp
    <3> QED
      BY <2>1, <3>2, <3>4
  <2> DEFINE r == cli.build.run
  <2>4. ASSUME cli.build.phase = "Succeeded", NEW f \in produced[r]
        PROVE  /\ r \in Runs /\ f \in Files
               /\ IF files[f] = NoFile THEN Excuse(r) ELSE OfRun(files[f], f, r)
    <3>1. r \in Runs /\ build[r] = "succeeded"
      BY <2>4 DEF AnswersAreTrue, True
    <3> HIDE DEF r
    <3> QED
      BY <2>4, <3>1, UploadOfSuccess DEF StoreOK
  <2>6. CASE List
    <3>1. cli'.pc = "fetch" /\ cli'.build = cli.build /\ cli'.todo = Listed /\ cli'.open = {} /\ cli.pc = "list"
      BY <2>6, IdleTypes DEF List, Commands, Idle
    <3>2. got' = got /\ got = [f \in Files |-> NoFile]
      BY <2>6, <3>1 DEF List, FetchOK
    <3>3. ASSUME cli.build.phase = "Succeeded", NEW f \in produced[r] PROVE OnItsWay(r, f)'
      <4>1. got'[f] = NoFile /\ f \in Files
        BY <2>4, <3>2, <3>3
      <4>2. Excuse(r)' \/ f \in cli'.todo
        BY <2>0, <2>4, <3>1, <3>3, <4>1 DEF Excuse, Listed
      <4> QED
        BY <3>1, <4>1, <4>2 DEF OnItsWay, Excuse
    <3> QED
      BY <2>0, <3>1, <3>2, <3>3 DEF FetchOK
  <2>7. CASE Finish
    <3>1. /\ cli'.pc = "done" /\ cli'.build = cli.build /\ cli'.todo = {} /\ cli'.open = {} /\ UNCHANGED got
          /\ cli.pc = "fetch" /\ cli.todo = {} /\ cli.open = {}
      BY <1>1, <2>7 DEF Finish, Commands
    <3>2. ASSUME cli.build.phase = "Succeeded", NEW f \in produced[r] PROVE OnItsWay(r, f)'
      <4>1. OnItsWay(r, f)
        BY <3>1, <3>2 DEF FetchOK
      <4> QED
        BY <2>0, <3>1, <4>1 DEF OnItsWay, OfRun, Later, Excuse
    <3> QED
      BY <2>0, <3>1, <3>2 DEF FetchOK
  <2>8. ASSUME NEW g \in Files, OpenFile(g) PROVE FetchOK'
    <3>1. CASE files[g] = NoFile
      BY <2>8, <3>1, IdleTypes DEF OpenFile, FetchOK
    <3>2. CASE files[g] # NoFile
      <4>1. /\ cli'.pc = "fetch" /\ cli'.build = cli.build /\ cli'.todo = cli.todo \ {g} /\ cli'.open = {g}
            /\ cli'.held = files[g] /\ UNCHANGED got /\ cli.pc = "fetch" /\ cli.open = {}
        BY <1>1, <2>8, <3>2 DEF OpenFile, Commands
      <4>2. ASSUME cli.build.phase = "Succeeded", NEW f \in produced[r] PROVE OnItsWay(r, f)'
        <5>1. OnItsWay(r, f)
          BY <4>1, <4>2 DEF FetchOK
        <5>2. f = g => OfRun(files[g], f, r)
          BY <2>4, <3>2, <4>2
        <5> QED
          BY <2>0, <4>1, <5>1, <5>2 DEF OnItsWay, OfRun, Later, Excuse
      <4>3. cli'.held \in Contents
        BY <1>1, <3>2, <4>1
      <4> QED
        BY <2>0, <4>1, <4>2, <4>3 DEF FetchOK
    <3> QED
      BY <3>1, <3>2
  <2>9. ASSUME NEW g \in Files, CopyFile(g) PROVE FetchOK'
    <3>1. CASE cli' = Over
      BY <3>1, IdleTypes DEF FetchOK
    <3>2. CASE cli' # Over
      <4>1. /\ cli' = [cli EXCEPT !.open = {}, !.held = NoFile] /\ g \in cli.open
            /\ got' = [got EXCEPT ![g] =
                         IF files[g] = cli.held THEN cli.held
                         ELSE IF files[g] = NoFile THEN [cli.held EXCEPT !.whole = FALSE]
                                                   ELSE [files[g] EXCEPT !.whole = FALSE]]
        BY <2>9, <3>2 DEF CopyFile
      <4>2. cli.open = {g} /\ cli.pc = "fetch" /\ cli.held \in Contents
        BY <4>1 DEF FetchOK
      <4>3. /\ cli'.pc = "fetch" /\ cli'.build = cli.build /\ cli'.todo = cli.todo /\ cli'.open = {}
        BY <1>1, <4>1, <4>2 DEF Commands
      <4>4. ASSUME cli.build.phase = "Succeeded", NEW f \in produced[r] PROVE OnItsWay(r, f)'
        <5>1. OnItsWay(r, f) /\ f \in Files /\ r \in Runs
          BY <2>4, <4>2, <4>4 DEF FetchOK
        <5>2. CASE f # g
          <6>1. got'[f] = got[f]
            BY <1>1, <4>1, <5>1, <5>2
          <6> QED
            BY <2>0, <4>2, <4>3, <5>1, <5>2, <6>1 DEF OnItsWay, OfRun, Later, Excuse
        <5>3. CASE f = g
          <6>1. OfRun(cli.held, f, r) /\ (files[f] = cli.held \/ Later(r, f))
            BY <4>1, <5>1, <5>3 DEF OnItsWay
          <6>2. OfRun(got'[f], f, r)
            <7>1. CASE files[g] = cli.held
              BY <1>1, <4>1, <5>3, <6>1, <7>1
            <7>2. CASE files[g] # cli.held /\ files[g] = NoFile
              <8>1. got'[f] = [cli.held EXCEPT !.whole = FALSE]
                BY <1>1, <4>1, <5>1, <5>3, <7>2
              <8>2. got'[f].by = cli.held.by
                BY <4>2, <8>1 DEF Contents
              <8>3. cli.held.by >= r
                BY <5>1, <6>1, NotOlder
              <8> QED
                BY <5>3, <6>1, <7>2, <8>2, <8>3 DEF OfRun
            <7>3. CASE files[g] # cli.held /\ files[g] # NoFile
              <8>1. got'[f] = [files[g] EXCEPT !.whole = FALSE] /\ files[g] \in Contents
                BY <1>1, <4>1, <5>1, <5>3, <7>3
              <8>2. got'[f].by = files[g].by
                BY <8>1 DEF Contents
              <8>3. files[g].by >= r
                <9>1. OfRun(files[g], f, r)
                  BY <2>4, <4>4, <5>3, <7>3
                <9> QED
                  BY <5>1, <9>1, NotOlder
              <8> QED
                BY <5>3, <6>1, <7>3, <8>2, <8>3 DEF OfRun
            <7> QED
              BY <7>1, <7>2, <7>3
          <6>3. got'[f] # NoFile
            <7>1. got'[f].by \in Runs
              BY <1>1, <4>1, <4>2, <5>1, <5>3, Params DEF Contents
            <7>2. NoFile.by = 0
              BY DEF NoFile
            <7> QED
              BY <7>1, <7>2, Params
          <6> QED
            BY <2>0, <4>3, <6>2, <6>3 DEF OnItsWay, OfRun, Later, Excuse
        <5> QED
          BY <5>2, <5>3
      <4> QED
        BY <2>0, <4>2, <4>3, <4>4 DEF FetchOK
    <3> QED
      BY <3>1, <3>2
  <2> QED
    BY <1>4, <2>2, <2>3, <2>6, <2>7, <2>8, <2>9 DEF CliAction
<1> QED
  BY <1>2, <1>3, <1>4, Steps DEF vars, cliVars

-----------------------------------------------------------------------------
(* The theorems about files *)

LEMMA InitDelivery == Init => DeliveryInv
<1> SUFFICES ASSUME Init PROVE DeliveryInv
  OBVIOUS
<1>1. /\ job = TRUE /\ due = TRUE /\ build = [n \in Runs |-> "failed"] /\ kept = {} /\ shown = Nothing
      /\ report = NoReport /\ files = [f \in Files |-> NoFile] /\ upload = NoUpload
      /\ produced = [n \in Runs |-> {}] /\ answer = [n \in Runs |-> "none"]
      /\ seen = Nothing /\ seenFresh = TRUE /\ cli = Idle /\ got = [f \in Files |-> NoFile]
      /\ ended = {} /\ replaced = FALSE /\ budget = [write |-> MaxUserWrites, fault |-> MaxFaults]
  BY Params DEF Init, StoreInit
<1>2. ContractTypeOK
  BY <1>1, Params DEF ContractTypeOK, States
<1>3. ContractInv
  BY <1>1, <1>2, NoReportFields, Params
     DEF ContractInv, OneAtATime, InProgress, SuccessIsTrue, ReportIsTrue
<1>4. StoreTypeOK
  BY <1>1, Params DEF StoreTypeOK
<1>5. TypeOK
  <2>1. budget \in [{"write", "fault"} -> Nat]
    BY <1>1, DeliveryAssumption
  <2> QED
    BY <1>1, <1>2, <1>4, <2>1, Params, IdleTypes DEF TypeOK
<1>6. Numbered
  <2>1. LastRun = 0 /\ InProgress = {}
    BY <1>1, FS_EmptySet DEF LastRun, InProgress
  <2> QED
    BY <1>1, <2>1 DEF Numbered
<1>7. /\ Idle.build = Nothing /\ Idle.pc = "idle" /\ Idle.open = {} /\ Nothing.phase = "" /\ NoReport.phase = ""
  BY Params, NoReportFields DEF Idle
<1>8. AnswersAreTrue /\ UploadsOK /\ StoreOK /\ FetchOK
  BY <1>1, <1>7 DEF AnswersAreTrue, True, UploadsOK, StoreOK, FetchOK
<1> QED
  BY <1>1, <1>3, <1>5, <1>6, <1>8 DEF DeliveryInv

LEMMA DeliveryStep == DeliveryInv /\ [Next]_vars => DeliveryInv'
<1> SUFFICES ASSUME DeliveryInv, [Next]_vars PROVE DeliveryInv'
  OBVIOUS
<1> USE DEF DeliveryInv
<1>1. ContractInv' /\ job'
  BY ContractKeeps
<1>2. TypeOK'
  BY <1>1, TypeStep
<1>3. Numbered' /\ AnswersAreTrue' /\ UploadsOK'
  BY NumberedStep, AnswersStep, UploadsStep
<1>4. StoreOK' /\ FetchOK'
  BY StoreStep, FetchStep
<1> QED
  BY <1>1, <1>2, <1>3, <1>4

(* Runs, uploads and downloads are as DeliveryInv says, all along. *)
THEOREM DeliveryInvariance == Spec => []DeliveryInv
  BY InitDelivery, DeliveryStep, PTL DEF Spec

(* Every step of the composition, uploads, the command and the informer    *)
(* that lags behind included, is one the contract allows, or none: what    *)
(* the BuildJob controller is shown to keep is all that is relied on.      *)
THEOREM DeliveryKeepsContract == Spec => [][ContractNext]_contractVars
<1>1. [Next]_vars => [ContractNext]_contractVars
  BY DeliverySteps
<1> QED
  BY <1>1, PTL DEF Spec

(* The delivery of a build is well typed. *)
THEOREM TypeCorrect == Spec => []TypeOK
<1>1. DeliveryInv => TypeOK
  BY DEF DeliveryInv
<1> QED
  BY <1>1, DeliveryInvariance, PTL

(* A command that was told of a successful run never leaves an older, or a *)
(* torn, version of that run's files on the user's disk, unless a later    *)
(* run uploads the same file meanwhile: whatever reads, uploads, failures  *)
(* and restarts come between.                                              *)
THEOREM FilesAreOfTheRun == Spec => []NoOlderFile
<1>1. DeliveryInv => NoOlderFile
  BY DEF DeliveryInv, FetchOK, NoOlderFile, OnItsWay, OfRun, Later
<1> QED
  BY <1>1, DeliveryInvariance, PTL

(* And it has them all, unless the pod that held them was replaced or a    *)
(* later upload failed.                                                    *)
THEOREM FilesAreAllThere == Spec => []NoFileMissing
<1>1. DeliveryInv => NoFileMissing
  BY DEF DeliveryInv, FetchOK, NoFileMissing, OnItsWay, Excuse
<1> QED
  BY <1>1, DeliveryInvariance, PTL

-----------------------------------------------------------------------------
(* The wait, when triggers go through the API *)

OnlyAPI == Triggers \subseteq {"api"}

(* Steps of the controller and of others, while the command waits. *)
LEMMA ControllerWait ==
    ASSUME DeliveryInv, WaitOK, Controller, cli.pc \in {"initial", "poll"}
    PROVE  /\ shown'.run \in Old => due'
           /\ report' # NoReport =>
                report'.run \notin Old
                \/ (shown'.run \in Old /\ ~report'.serves /\ report'.phase = "Failed")
           /\ OldSuccess(shown') => shown' = shown
<1>1. /\ shown.run \in Old => due
      /\ report # NoReport =>
           report.run \notin Old
           \/ (shown.run \in Old /\ ~report.serves /\ report.phase = "Failed")
  BY DEF WaitOK
<1>2. ended \subseteq kept \ InProgress /\ 0 \notin Runs /\ job
  BY Params DEF WaitOK, DeliveryInv
<1>3. CASE Observe
  BY <1>1, <1>3 DEF Observe
<1>4. CASE Publish
  <2>1. /\ shown'.run = report.run /\ shown'.phase = report.phase /\ due' = (due /\ ~report.serves)
        /\ report' = NoReport /\ report # NoReport
    BY <1>4 DEF Publish
  <2> QED
    BY <1>1, <2>1 DEF OldSuccess, Old
<1>5. ASSUME NEW n \in Runs, Adopt(n) \/ Begin(n)
      PROVE  /\ shown'.run \in Old => due'
             /\ report' # NoReport => report'.run \notin Old
             /\ shown' = shown
  <2>1. UNCHANGED <<shown, due>> /\ n \notin Old
    BY <1>2, <1>5 DEF Adopt, Begin, Old
  <2>2. report' = NoReport \/ report'.run = n
    BY <1>5 DEF Adopt, Begin
  <2> QED
    BY <1>1, <2>1, <2>2
<1> QED
  BY <1>3, <1>4, <1>5 DEF Controller

LEMMA WaitBeside ==
    ASSUME DeliveryInv, WaitOK, [Next]_vars, UNCHANGED cliVars,
           Controller \/ Rejection \/ CacheSync \/ Builds \/ OtherUsers
    PROVE  WaitOK'
<1>1. UNCHANGED <<cli, ended>>
  BY DEF cliVars
<1>2. seenFresh' => seen' = shown'
  BY DEF WaitOK, Controller, Rejection, Reject, CacheSync, Builds, RunEnds, RunIsCut, End, OtherUsers, contractVars
<1>3. ended \subseteq kept' \ InProgress'
  <2>1. /\ kept \subseteq kept'
        /\ \A n \in kept \ InProgress : build'[n] = build[n] /\ n \notin InProgress'
    BY OverIsOver DEF DeliveryInv
  <2> QED
    BY <2>1 DEF WaitOK
<1>4. ASSUME cli.pc \in {"initial", "poll"}
      PROVE  /\ shown'.run \in Old => due'
             /\ report' # NoReport =>
                  report'.run \notin Old
                  \/ (shown'.run \in Old /\ ~report'.serves /\ report'.phase = "Failed")
             /\ OldSuccess(shown') => seen' = shown'
             /\ cli.pc = "poll" /\ OldSuccess(seen') => ~cli.started /\ cli.previous = seen'.run
  <2>1. CASE Controller
    <3>1. seen' = seen
      BY <2>1 DEF Controller
    <3> QED
      BY <1>4, <2>1, <3>1, ControllerWait DEF WaitOK
  <2>2. CASE Rejection
    BY <1>4, <2>2 DEF WaitOK, Rejection, Reject
  <2>3. CASE CacheSync
    BY <1>4, <2>3 DEF WaitOK, CacheSync, contractVars
  <2>4. CASE Builds
    <3>1. UNCHANGED <<due, shown, report, seen>>
      BY <2>4 DEF Builds, RunEnds, RunIsCut, End, contractVars
    <3> QED
      BY <1>4, <3>1 DEF WaitOK
  <2>5. CASE OtherUsers
    BY <1>4, <2>5 DEF WaitOK, OtherUsers, Request
  <2> QED
    BY <2>1, <2>2, <2>3, <2>4, <2>5
<1> QED
  BY <1>1, <1>2, <1>3, <1>4 DEF WaitOK, Old, OldSuccess, SuccessIsOfTriggeredRun

LEMMA WaitRestarts ==
    ASSUME DeliveryInv, WaitOK, OperatorRestarts
    PROVE  WaitOK'
<1>1. /\ seen' = shown /\ report' = NoReport /\ UNCHANGED <<due, build, kept, shown, ended>>
      /\ cli' = IF cli.open # {} THEN Over ELSE cli
  BY DEF OperatorRestarts
<1>2. InProgress' = InProgress
  BY <1>1 DEF InProgress
<1>3. CASE cli.open # {}
  BY <1>1, <1>2, <1>3, IdleTypes DEF WaitOK, SuccessIsOfTriggeredRun
<1>4. CASE cli.open = {}
  BY <1>1, <1>2, <1>4 DEF WaitOK, Old, OldSuccess, SuccessIsOfTriggeredRun
<1> QED
  BY <1>3, <1>4

LEMMA WaitCommand ==
    ASSUME DeliveryInv, WaitOK, OnlyAPI, CliAction, UNCHANGED seen
    PROVE  WaitOK'
<1>1. cli \in Commands
  BY DEF DeliveryInv, TypeOK
<1>2. /\ UNCHANGED <<build, kept, shown>> /\ InProgress' = InProgress
  BY DEF CliAction, Artifacts, DownloadIfUpToDate, Trigger, Request, GetInitial, Poll, PollGivesUp, List, Finish,
         OpenFile, CopyFile, Reads, contractVars, InProgress
<1>3. seenFresh' => seen' = shown'
  BY <1>2 DEF WaitOK, CliAction, Artifacts, DownloadIfUpToDate, Trigger, GetInitial, Poll, PollGivesUp, List, Finish,
              OpenFile, CopyFile, Reads
<1>4. ASSUME cli'.pc \in {"list", "fetch", "done", "failed"}, ended' \subseteq ended,
             cli'.pc = "list" => ~cli'.triggered \/ cli'.late \/ cli'.build.run \notin ended
      PROVE  WaitOK'
  BY <1>2, <1>3, <1>4 DEF WaitOK, SuccessIsOfTriggeredRun
<1>5. CASE Artifacts \/ (DownloadIfUpToDate /\ seen.phase = "Succeeded")
  BY <1>1, <1>4, <1>5 DEF WaitOK, Artifacts, DownloadIfUpToDate, Commands
<1>6. CASE DownloadIfUpToDate /\ seen.phase # "Succeeded"
  <2>1. /\ cli'.pc = "trigger" /\ cli'.triggered = cli.triggered /\ cli'.started = cli.started
        /\ cli'.late = cli.late /\ cli.pc = "idle" /\ ended' = ended
    BY <1>1, <1>6 DEF DownloadIfUpToDate, Commands
  <2> QED
    BY <1>2, <1>3, <2>1 DEF WaitOK, SuccessIsOfTriggeredRun
<1>7. CASE Trigger
  <2>1. seenFresh
    BY <1>7 DEF Trigger, MayTrigger, OnlyAPI
  <2>2. /\ cli'.pc = "initial" /\ cli'.started = cli.started /\ cli'.late = cli.late /\ cli.pc \in {"idle", "trigger"}
        /\ due' = TRUE /\ report' = NoReport /\ ended' = kept \ InProgress
    BY <1>1, <1>7 DEF Trigger, Request, Commands
  <2> QED
    BY <1>2, <1>3, <2>1, <2>2 DEF WaitOK, SuccessIsOfTriggeredRun
<1>8. CASE GetInitial
  <2>1. /\ cli'.pc = "poll" /\ cli'.started = cli.started /\ cli'.previous = seen.run /\ cli.pc = "initial"
        /\ UNCHANGED <<due, report, ended>>
    BY <1>1, <1>8 DEF GetInitial, Reads, contractVars, Commands
  <2> QED
    BY <1>2, <1>3, <2>1 DEF WaitOK, Old, OldSuccess, SuccessIsOfTriggeredRun
<1>9. CASE Poll
  <2>1. cli.pc = "poll" /\ PollStarted /\ cli' = Act(cli) /\ UNCHANGED <<due, report, ended>>
    BY <1>9 DEF Poll, Reads, contractVars
  <2>2. CASE seen.phase = "Succeeded"
    <3>1. cli'.pc = "list" /\ cli'.build = seen
      BY <1>1, <2>1, <2>2 DEF Act, Commands
    <3>2. seen.run \notin ended
      BY <2>1, <2>2 DEF WaitOK, OldSuccess, PollStarted
    <3> QED
      BY <1>4, <2>1, <3>1, <3>2
  <2>3. CASE seen.phase = "Failed"
    BY <1>4, <2>1, <2>3, IdleTypes DEF Act
  <2>4. CASE seen.phase \notin {"Succeeded", "Failed"}
    <3>1. cli'.pc = "poll"
      BY <1>1, <2>1, <2>4 DEF Act, Commands
    <3> QED
      BY <1>2, <1>3, <2>1, <2>4, <3>1 DEF WaitOK, Old, OldSuccess, SuccessIsOfTriggeredRun
  <2> QED
    BY <2>2, <2>3, <2>4
<1>10. CASE PollGivesUp
  <2> DEFINE b == [cli EXCEPT !.late = TRUE]
  <2>1. cli' = Act(b) /\ ended' = ended /\ seen.phase \in {"Succeeded", "Failed"}
    BY <1>10 DEF PollGivesUp
  <2>2. b \in Commands /\ b.late
    BY <1>1 DEF Commands
  <2> HIDE DEF b
  <2>3. CASE seen.phase = "Succeeded"
    BY <1>4, <2>1, <2>2, <2>3 DEF Act, Commands
  <2>4. CASE seen.phase = "Failed"
    BY <1>4, <2>1, <2>4, IdleTypes DEF Act
  <2> QED
    BY <2>1, <2>3, <2>4
<1>11. CASE List
  BY <1>1, <1>4, <1>11, IdleTypes DEF List, Commands
<1>12. ASSUME NEW f \in Files, OpenFile(f) \/ CopyFile(f) PROVE WaitOK'
  <2>1. cli.pc = "fetch" /\ ended' = ended
    BY <1>12 DEF OpenFile, CopyFile, DeliveryInv, FetchOK
  <2>2. cli' \in {Over, [cli EXCEPT !.todo = @ \ {f}, !.open = {f}, !.held = files[f]],
                  [cli EXCEPT !.open = {}, !.held = NoFile]}
    BY <1>12 DEF OpenFile, CopyFile
  <2>3. cli'.pc \in {"fetch", "failed"}
    BY <1>1, <2>1, <2>2, IdleTypes DEF Commands
  <2> QED
    BY <1>4, <2>1, <2>3
<1>13. CASE Finish
  BY <1>1, <1>4, <1>13 DEF Finish, Commands
<1> QED
  BY <1>5, <1>6, <1>7, <1>8, <1>9, <1>10, <1>11, <1>12, <1>13 DEF CliAction

(* A success that "bob build -d" reports is of a build that had not ended  *)
(* when it triggered, however late the answers come, when all triggers of  *)
(* the command go through the API.                                         *)
THEOREM ReportsTheTriggeredRun == ASSUME OnlyAPI PROVE Spec => []SuccessIsOfTriggeredRun
<1>1. Init => WaitOK
  <2> SUFFICES ASSUME Init PROVE WaitOK
    OBVIOUS
  <2>1. seen = shown /\ ended = {} /\ cli = Idle
    BY DEF Init
  <2>2. Idle.pc = "idle" /\ ~Idle.triggered /\ ~Idle.started /\ ~Idle.late
    BY DEF Idle
  <2> QED
    BY <2>1, <2>2 DEF WaitOK, SuccessIsOfTriggeredRun
<1>2. DeliveryInv /\ WaitOK /\ [Next]_vars => WaitOK'
  <2> SUFFICES ASSUME DeliveryInv, WaitOK, [Next]_vars PROVE WaitOK'
    OBVIOUS
  <2>1. CASE UNCHANGED vars
    BY <2>1 DEF vars, contractVars, cliVars, WaitOK, Old, OldSuccess, InProgress, SuccessIsOfTriggeredRun
  <2> QED
    BY <2>1, WaitBeside, WaitRestarts, WaitCommand, Steps
<1>3. WaitOK => SuccessIsOfTriggeredRun
  BY DEF WaitOK
<1> QED
  BY <1>1, <1>2, <1>3, DeliveryInvariance, PTL DEF Spec
=============================================================================
