---------------------- MODULE ToolchainController_proof ----------------------
(***************************************************************************)
(* Proofs about the Toolchain reconciler: type correctness, that a build   *)
(* is reported only of a TaskRun that succeeded, that it stays reported    *)
(* while that TaskRun exists, how many builds edits and faults can have    *)
(* running side by side, and that no wake-up is lost.                      *)
(***************************************************************************)
EXTENDS ToolchainController, FiniteSetTheorems, TLAPS

-----------------------------------------------------------------------------
(* Type correctness.  TypeOK is not inductive: a write puts next into tc,  *)
(* and a recorded run is used as a second.                                 *)

WorkerOK ==
    /\ pc # "idle" => copy \in Toolchains
    /\ copyFresh => pc # "idle" /\ tc = copy
    /\ pc = "fetch" => copy.status.run \in Seconds
    /\ pc = "create" => copy.status.run = 0

CacheOK == cacheFresh => cached = tc

TypeInv == TypeOK /\ WorkerOK /\ CacheOK

LEMMA NoToolchainIsNone == NoToolchain \notin Toolchains
  BY ToolchainAssumption DEF NoToolchain, Toolchains

LEMMA EmptyStatusType == EmptyStatus \in StatusType
  BY ToolchainAssumption DEF EmptyStatus, StatusType, Phases, Reasons

(* Every status the reconciler computes is a status. *)
LEMMA StatusTypes ==
    ASSUME NEW t \in Toolchains, NEW s \in Seconds, clock \in Seconds
    PROVE  /\ ExternalStatus(t) \in StatusType
           /\ SucceededStatus(t) \in StatusType
           /\ FailedStatus(t, "TaskRunMissing") \in StatusType
           /\ FailedStatus(t, "BuildFailed") \in StatusType
           /\ CreatedStatus(t, s) \in StatusType
           /\ [t.status EXCEPT !.phase = "Building", !.run = s] \in StatusType
<1>1. t.status \in StatusType
  BY DEF Toolchains
<1>2. Seconds \subseteq 0..MaxTime /\ 0 \in 0..MaxTime
  BY ToolchainAssumption DEF Seconds
<1> QED
  BY <1>1, <1>2
     DEF ExternalStatus, SucceededStatus, FailedStatus, CreatedStatus, StatusType, Phases, Reasons

(* Spending an event leaves a budget. *)
LEMMA SpendType ==
    ASSUME NEW e \in Events, budget \in [Events -> Nat], Spend(e)
    PROVE  budget' \in [Events -> Nat]
<1>1. budget[e] - 1 \in Nat
  BY DEF Spend
<1> QED
  BY <1>1 DEF Spend

(* The initial states are well typed. *)
LEMMA InitTypeInv == Init => TypeInv
<1> SUFFICES ASSUME Init PROVE TypeInv
  OBVIOUS
<1>1. tr \in [Seconds -> TaskRuns]
  BY ToolchainAssumption DEF Init, NoTaskRun, TaskRuns
<1>2. budget \in [Events -> Nat]
  BY ToolchainAssumption DEF Init, Events
<1>3. cacheFresh \in BOOLEAN /\ queued \in BOOLEAN /\ copyFresh \in BOOLEAN /\ retry \in BOOLEAN
  BY DEF Init
<1>4. uids \in 0..MaxUid /\ clock \in Seconds
  BY ToolchainAssumption DEF Init, Seconds
<1>5. TypeOK
  BY <1>1, <1>2, <1>3, <1>4, EmptyStatusType DEF Init, TypeOK
<1> QED
  BY <1>5 DEF Init, TypeInv, WorkerOK, CacheOK

(* A reconcile that ends leaves the worker well typed. *)
LEMMA FinishTypeInv ==
    ASSUME TypeInv, NEW later \in BOOLEAN, Finish(later),
           UNCHANGED <<uids, tr, clock, cached>>,
           tc' \in Toolchains \cup {NoToolchain}, cacheFresh' \in BOOLEAN,
           cacheFresh' => cacheFresh /\ tc' = tc,
           budget' \in [Events -> Nat]
    PROVE  TypeInv'
<1>1. queued' \in BOOLEAN
  BY DEF Finish, TypeInv, TypeOK
<1>2. TypeOK'
  BY <1>1, EmptyStatusType DEF Finish, TypeInv, TypeOK
<1> QED
  BY <1>2 DEF Finish, TypeInv, WorkerOK, CacheOK

(* The steps of the reconciler keep the types. *)
LEMMA ReconcileTypeInv == TypeInv /\ Reconcile => TypeInv'
<1> SUFFICES ASSUME TypeInv, Reconcile PROVE TypeInv'
  OBVIOUS
<1> USE NoToolchainIsNone
<1>1. CASE ReconcileStart
  <2>1. budget' \in [Events -> Nat] /\ queued' \in BOOLEAN
    BY <1>1, SpendType DEF ReconcileStart, TypeInv, TypeOK, Events
  <2>2. CASE UNCHANGED worker
    BY <1>1, <2>1, <2>2 DEF ReconcileStart, TypeInv, TypeOK, WorkerOK, CacheOK, worker, store
  <2>3. ASSUME cached # NoToolchain, copy' = cached, copyFresh' = cacheFresh,
               \/ Intend(ExternalStatus(cached), FALSE)
               \/ cached.status.run # 0 /\ pc' = "fetch" /\ UNCHANGED <<next, retry>>
               \/ cached.status.run = 0 /\ pc' = "create" /\ UNCHANGED <<next, retry>>
        PROVE  TypeInv'
    <3>1. cached \in Toolchains /\ clock \in Seconds
      BY <2>3 DEF TypeInv, TypeOK
    <3>2. next' \in StatusType /\ pc' \in {"fetch", "create", "write"} /\ retry' \in BOOLEAN
      BY <2>3, <3>1, StatusTypes DEF Intend, TypeInv, TypeOK
    <3>3. TypeOK'
      BY <1>1, <2>1, <2>3, <3>1, <3>2 DEF ReconcileStart, TypeInv, TypeOK, store
    <3>4. cached.status.run \in 0..MaxTime
      BY <3>1 DEF Toolchains, StatusType
    <3>5. WorkerOK'
      BY <1>1, <2>3, <3>1, <3>2, <3>4, ToolchainAssumption
         DEF ReconcileStart, Intend, TypeInv, WorkerOK, CacheOK, store, Seconds
    <3> QED
      BY <1>1, <3>3, <3>5 DEF ReconcileStart, TypeInv, CacheOK, store
  <2> QED
    BY <1>1, <2>2, <2>3 DEF ReconcileStart
<1>2. CASE FetchTaskRun
  <2>1. CASE Finish(TRUE)
    BY <1>2, <2>1, FinishTypeInv DEF FetchTaskRun, TypeInv, TypeOK, store
  <2>2. ASSUME UNCHANGED <<copy, copyFresh, queued>>,
               \/ Intend(FailedStatus(copy, "TaskRunMissing"), FALSE)
               \/ Intend(SucceededStatus(copy), FALSE)
               \/ Intend(FailedStatus(copy, "BuildFailed"), FALSE)
        PROVE  TypeInv'
    <3>1. copy \in Toolchains /\ clock \in Seconds /\ copy.status.run \in Seconds
      BY <1>2 DEF FetchTaskRun, TypeInv, TypeOK, WorkerOK
    <3>2. next' \in StatusType /\ pc' = "write" /\ retry' \in BOOLEAN
      BY <2>2, <3>1, StatusTypes DEF Intend
    <3> QED
      BY <1>2, <2>2, <3>1, <3>2 DEF FetchTaskRun, TypeInv, TypeOK, WorkerOK, CacheOK, store
  <2> QED
    BY <1>2, <2>1, <2>2 DEF FetchTaskRun
<1>3. CASE CreateTaskRun
  <2>1. copy \in Toolchains /\ clock \in Seconds
    BY <1>3 DEF CreateTaskRun, TypeInv, TypeOK, WorkerOK
  <2>2. next' \in StatusType /\ pc' = "write" /\ retry' \in BOOLEAN /\ queued' \in BOOLEAN
    BY <1>3, <2>1, StatusTypes DEF CreateTaskRun, Intend, TypeInv, TypeOK
  <2>3. NewTaskRun(copy) \in TaskRuns
    BY <2>1, ToolchainAssumption DEF NewTaskRun, TaskRuns, Toolchains
  <2>4. tr' \in [Seconds -> TaskRuns]
    BY <1>3, <2>3 DEF CreateTaskRun, TypeInv, TypeOK
  <2> QED
    BY <1>3, <2>1, <2>2, <2>4 DEF CreateTaskRun, TypeInv, TypeOK, WorkerOK, CacheOK
<1>4. CASE WriteStatus
  <2>1. tc \in Toolchains /\ next \in StatusType
    BY <1>4 DEF WriteStatus, TypeInv, TypeOK, WorkerOK
  <2>2. tc' \in Toolchains
    BY <1>4, <2>1 DEF WriteStatus, Toolchains
  <2>3. retry \in BOOLEAN /\ cacheFresh \in BOOLEAN
    BY DEF TypeInv, TypeOK
  <2>4. cacheFresh' \in BOOLEAN /\ (cacheFresh' => cacheFresh /\ tc' = tc)
    BY <1>4, <2>3, Zenon DEF WriteStatus
  <2> QED
    BY <1>4, <2>2, <2>3, <2>4, FinishTypeInv DEF WriteStatus, TypeInv, TypeOK
<1>5. CASE WriteRefused
  BY <1>5, FinishTypeInv DEF WriteRefused, TypeInv, TypeOK, store
<1> QED
  BY <1>1, <1>2, <1>3, <1>4, <1>5 DEF Reconcile

(* Faults keep the types. *)
LEMMA FaultTypeInv == TypeInv /\ Fault => TypeInv'
<1> SUFFICES ASSUME TypeInv, Fault PROVE TypeInv'
  OBVIOUS
<1>0. Spend("fault") => budget' \in [Events -> Nat]
  BY SpendType DEF TypeInv, TypeOK, Events
<1>1. CASE RequestFails
  BY <1>0, <1>1, FinishTypeInv DEF RequestFails, TypeInv, TypeOK, store
<1>2. CASE WriteFails
  BY <1>0, <1>2, FinishTypeInv DEF WriteFails, TypeInv, TypeOK, store
<1>3. CASE Restart
  <2>1. queued' \in BOOLEAN
    BY <1>3, Zenon DEF Restart
  <2> QED
    BY <1>0, <1>3, <2>1, EmptyStatusType DEF Restart, TypeInv, TypeOK, WorkerOK, CacheOK, store
<1> QED
  BY <1>1, <1>2, <1>3 DEF Fault

(* So do users, Tekton, the pruner, the collector, the informer, time. *)
LEMMA EnvironmentTypeInv == TypeInv /\ Environment => TypeInv'
<1> SUFFICES ASSUME TypeInv, Environment PROVE TypeInv'
  OBVIOUS
<1>1. ASSUME NEW s \in Seconds, NEW r \in TaskRuns, TaskRunEvent(s, r), budget' \in [Events -> Nat]
      PROVE  TypeInv'
  BY <1>1 DEF TaskRunEvent, TypeInv, TypeOK, WorkerOK, CacheOK, worker
<1>2. ASSUME NEW s \in Seconds, TektonEnds(s) PROVE TypeInv'
  <2>1. PICK e \in {"succeeded", "failed"} : TaskRunEvent(s, [tr[s] EXCEPT !.state = e])
    BY <1>2 DEF TektonEnds
  <2>2. [tr[s] EXCEPT !.state = e] \in TaskRuns
    BY DEF TypeInv, TypeOK, TaskRuns
  <2> QED
    BY <1>1, <1>2, <2>1, <2>2 DEF TektonEnds, TypeInv, TypeOK
<1>3. ASSUME NEW s \in Seconds, Prune(s) \/ Collect(s) PROVE TypeInv'
  <2>1. [tr[s] EXCEPT !.exists = FALSE] \in TaskRuns
    BY DEF TypeInv, TypeOK, TaskRuns
  <2>2. budget' \in [Events -> Nat]
    BY <1>3, SpendType DEF Prune, Collect, TypeInv, TypeOK, Events
  <2> QED
    BY <1>1, <1>3, <2>1, <2>2 DEF Prune, Collect
<1>4. CASE CacheSync
  BY <1>4 DEF CacheSync, TypeInv, TypeOK, WorkerOK, CacheOK, worker, store
<1>5. ASSUME UserWrites, tc' \in Toolchains \cup {NoToolchain}, uids' \in 0..MaxUid PROVE TypeInv'
  <2>1. budget' \in [Events -> Nat]
    BY <1>5, SpendType DEF UserWrites, TypeInv, TypeOK, Events
  <2> QED
    BY <1>5, <2>1 DEF UserWrites, TypeInv, TypeOK, WorkerOK, CacheOK
<1>6. CASE CreateToolchain
  <2>1. uids + 1 \in 1..MaxUid /\ uids' = uids + 1
    BY <1>6, ToolchainAssumption DEF CreateToolchain, TypeInv, TypeOK
  <2>2. tc' \in Toolchains
    BY <1>6, <2>1, EmptyStatusType, ToolchainAssumption DEF CreateToolchain, Toolchains
  <2> QED
    BY <1>5, <1>6, <2>1, <2>2, ToolchainAssumption DEF CreateToolchain
<1>7. CASE EditSpec
  <2>1. tc \in Toolchains /\ tc.gen + 1 \in 1..MaxGen
    BY <1>7, ToolchainAssumption DEF EditSpec, TypeInv, TypeOK, Toolchains
  <2>2. tc' \in Toolchains
    BY <1>7, <2>1 DEF EditSpec, Toolchains
  <2> QED
    BY <1>5, <1>7, <2>2 DEF EditSpec, TypeInv, TypeOK
<1>8. CASE DeleteToolchain
  BY <1>5, <1>8 DEF DeleteToolchain, TypeInv, TypeOK
<1>9. CASE Tick
  <2>1. clock' \in Seconds
    BY <1>9, ToolchainAssumption DEF Tick, TypeInv, TypeOK, Seconds
  <2> QED
    BY <1>9, <2>1 DEF Tick, TypeInv, TypeOK, WorkerOK, CacheOK, worker
<1> QED
  BY <1>2, <1>3, <1>4, <1>6, <1>7, <1>8, <1>9 DEF Environment

(* Every reachable state is well typed, and a copy that is marked fresh is *)
(* the stored Toolchain: what the resourceVersion check of                 *)
(* Status().Update means.                                                  *)
THEOREM TypeInvariance == Spec => []TypeInv
<1>1. TypeInv /\ [Next]_vars => TypeInv'
  <2> SUFFICES ASSUME TypeInv, [Next]_vars PROVE TypeInv'
    OBVIOUS
  <2>1. CASE UNCHANGED vars
    BY <2>1 DEF vars, TypeInv, TypeOK, WorkerOK, CacheOK
  <2> QED
    BY <2>1, ReconcileTypeInv, FaultTypeInv, EnvironmentTypeInv DEF Next
<1> QED
  BY <1>1, InitTypeInv, PTL DEF Spec

(* The variables of the model stay within their types in every behaviour. *)
THEOREM TypeCorrect == Spec => []TypeOK
<1>1. TypeInv => TypeOK
  BY DEF TypeInv
<1> QED
  BY <1>1, TypeInvariance, PTL

-----------------------------------------------------------------------------
(* What is reported of a build.  The stored status, the informer's, the    *)
(* worker's and the one it is about to write all keep to the same rule,    *)
(* which no step of a TaskRun can break: a name is used again only in the  *)
(* second it was made from, and no build succeeds in that second.          *)

NoEarlySuccess == \A s \in Seconds : tr[s].state = "succeeded" => s < clock

TrueStatuses ==
    {st \in StatusType :
        st.reason = "BuildSucceeded" =>
            /\ st.phase = "Ready"
            /\ st.run \in Seconds
            /\ tr[st.run].state = "succeeded"}

AllTrue ==
    /\ tc # NoToolchain => tc.status \in TrueStatuses
    /\ cached # NoToolchain => cached.status \in TrueStatuses
    /\ pc # "idle" => copy.status \in TrueStatuses
    /\ next \in TrueStatuses

(* The worker takes back a reported build only when its TaskRun is gone. *)
TakesBackGone ==
    pc = "write" /\ copy.status.reason = "BuildSucceeded" /\ next.reason # "BuildSucceeded" =>
        ~tr[copy.status.run].exists

ReportInv == NoEarlySuccess /\ AllTrue /\ TakesBackGone

(* A TaskRun that succeeded is as it was, or gone. *)
LEMMA SuccessStays ==
    ASSUME TypeInv, NoEarlySuccess, [Next]_vars, NEW s \in Seconds, tr[s].state = "succeeded"
    PROVE  tr'[s].state = "succeeded" /\ (tr'[s].exists => tr[s].exists)
<1>0. tr \in [Seconds -> TaskRuns] /\ s < clock
  BY DEF TypeInv, TypeOK, NoEarlySuccess
<1>1. CASE UNCHANGED tr
  BY <1>1
<1>2. CASE CreateTaskRun
  <2>1. clock # s
    BY <1>0, ToolchainAssumption DEF Seconds
  <2> QED
    BY <1>0, <1>2, <2>1 DEF CreateTaskRun
<1>3. ASSUME NEW x \in Seconds, TektonEnds(x) PROVE tr'[s].state = "succeeded" /\ (tr'[s].exists => tr[s].exists)
  <2>1. x # s
    BY <1>3 DEF TektonEnds, Building
  <2> QED
    BY <1>0, <1>3, <2>1 DEF TektonEnds, TaskRunEvent
<1>4. ASSUME NEW x \in Seconds, Prune(x) \/ Collect(x)
      PROVE  tr'[s].state = "succeeded" /\ (tr'[s].exists => tr[s].exists)
  BY <1>0, <1>4 DEF Prune, Collect, TaskRunEvent, TaskRuns
<1>5. Reconcile => CreateTaskRun \/ UNCHANGED tr
  BY DEF Reconcile, ReconcileStart, FetchTaskRun, WriteStatus, WriteRefused, store
<1>6. Fault => UNCHANGED tr
  BY DEF Fault, RequestFails, WriteFails, Restart, store
<1>7. Environment => \/ UNCHANGED tr
                     \/ \E x \in Seconds : TektonEnds(x) \/ Prune(x) \/ Collect(x)
  BY DEF Environment, CacheSync, CreateToolchain, EditSpec, DeleteToolchain, UserWrites, Tick, store
<1> QED
  BY <1>1, <1>2, <1>3, <1>4, <1>5, <1>6, <1>7 DEF Next, vars

(* So what was true of a status stays true. *)
LEMMA TrueStays ==
    ASSUME TypeInv, NoEarlySuccess, [Next]_vars
    PROVE  TrueStatuses \subseteq TrueStatuses'
  BY SuccessStays DEF TrueStatuses

(* A TaskRun succeeds after the second it was created in. *)
LEMMA SuccessIsLater ==
    ASSUME TypeInv, NoEarlySuccess, [Next]_vars
    PROVE  NoEarlySuccess'
<1>0. tr \in [Seconds -> TaskRuns] /\ clock \in Seconds /\ Seconds \subseteq Nat
  BY ToolchainAssumption DEF TypeInv, TypeOK, Seconds
<1>1. clock' \in Nat /\ clock <= clock'
  <2>1. Reconcile => clock' = clock
    BY DEF Reconcile, ReconcileStart, FetchTaskRun, CreateTaskRun, WriteStatus, WriteRefused, store
  <2>2. Fault => clock' = clock
    BY DEF Fault, RequestFails, WriteFails, Restart, store
  <2>3. Environment => clock' = clock \/ clock' = clock + 1
    BY DEF Environment, CacheSync, CreateToolchain, EditSpec, DeleteToolchain, UserWrites, Tick,
           TektonEnds, Prune, Collect, TaskRunEvent, store
  <2> QED
    BY <1>0, <2>1, <2>2, <2>3 DEF Next, vars
<1>2. CASE UNCHANGED tr
  BY <1>0, <1>1, <1>2 DEF NoEarlySuccess
<1>3. CASE CreateTaskRun
  <2>1. tr' = tr \/ tr' = [tr EXCEPT ![clock] = NewTaskRun(copy)]
    BY <1>3, Zenon DEF CreateTaskRun
  <2>2. \A s \in Seconds : tr'[s].state = "succeeded" => tr[s].state = "succeeded"
    BY <1>0, <2>1 DEF NewTaskRun
  <2> QED
    BY <1>0, <1>1, <2>2 DEF NoEarlySuccess, Seconds
<1>4. ASSUME NEW x \in Seconds, TektonEnds(x) PROVE NoEarlySuccess'
  BY <1>0, <1>1, <1>4 DEF TektonEnds, TaskRunEvent, NoEarlySuccess, TaskRuns
<1>5. ASSUME NEW x \in Seconds, Prune(x) \/ Collect(x) PROVE NoEarlySuccess'
  BY <1>0, <1>1, <1>5 DEF Prune, Collect, TaskRunEvent, NoEarlySuccess, TaskRuns
<1>6. Reconcile => CreateTaskRun \/ UNCHANGED tr
  BY DEF Reconcile, ReconcileStart, FetchTaskRun, WriteStatus, WriteRefused, store
<1>7. Fault => UNCHANGED tr
  BY DEF Fault, RequestFails, WriteFails, Restart, store
<1>8. Environment => \/ UNCHANGED tr
                     \/ \E x \in Seconds : TektonEnds(x) \/ Prune(x) \/ Collect(x)
  BY DEF Environment, CacheSync, CreateToolchain, EditSpec, DeleteToolchain, UserWrites, Tick, store
<1> QED
  BY <1>2, <1>3, <1>4, <1>5, <1>6, <1>7, <1>8 DEF Next, vars

LEMMA EmptyIsTrue == EmptyStatus \in TrueStatuses
  BY EmptyStatusType DEF EmptyStatus, TrueStatuses

(* What the reconciler writes is true. *)
LEMMA WrittenIsTrue ==
    ASSUME TypeInv, NEW t \in Toolchains, t.status \in TrueStatuses
    PROVE  /\ ExternalStatus(t) \in TrueStatuses
           /\ FailedStatus(t, "TaskRunMissing") \in TrueStatuses
           /\ FailedStatus(t, "BuildFailed") \in TrueStatuses
           /\ CreatedStatus(t, clock) \in TrueStatuses
           /\ t.status.run = 0 => [t.status EXCEPT !.phase = "Building", !.run = clock] \in TrueStatuses
           /\ t.status.run \in Seconds /\ tr[t.status.run].state = "succeeded" =>
                  SucceededStatus(t) \in TrueStatuses
<1>1. clock \in Seconds /\ t.status \in StatusType /\ 0 \notin Seconds
  BY ToolchainAssumption DEF TypeInv, TypeOK, Toolchains, Seconds
<1>2. /\ ExternalStatus(t).reason = "ExternalImage"
      /\ FailedStatus(t, "TaskRunMissing").reason = "TaskRunMissing"
      /\ FailedStatus(t, "BuildFailed").reason = "BuildFailed"
      /\ CreatedStatus(t, clock).reason = "Building"
  BY <1>1 DEF ExternalStatus, FailedStatus, CreatedStatus, StatusType
<1>3. t.status.run = 0 => [t.status EXCEPT !.phase = "Building", !.run = clock].reason # "BuildSucceeded"
  BY <1>1 DEF TrueStatuses, StatusType
<1>4. ASSUME t.status.run \in Seconds, tr[t.status.run].state = "succeeded"
      PROVE  SucceededStatus(t) \in TrueStatuses
  <2> DEFINE st == SucceededStatus(t)
  <2>1. st \in StatusType
    BY <1>1, <1>4, StatusTypes
  <2>2. st.phase = "Ready" /\ st.run = t.status.run
    BY <1>1 DEF SucceededStatus, StatusType
  <2> QED
    BY <1>4, <2>1, <2>2 DEF TrueStatuses
<1>5. ASSUME NEW st \in StatusType, st.reason # "BuildSucceeded" PROVE st \in TrueStatuses
  BY <1>5 DEF TrueStatuses
<1>6. /\ ExternalStatus(t) \in StatusType
      /\ FailedStatus(t, "TaskRunMissing") \in StatusType
      /\ FailedStatus(t, "BuildFailed") \in StatusType
      /\ CreatedStatus(t, clock) \in StatusType
      /\ [t.status EXCEPT !.phase = "Building", !.run = clock] \in StatusType
  BY <1>1, StatusTypes
<1>7. /\ ExternalStatus(t) \in TrueStatuses
      /\ FailedStatus(t, "TaskRunMissing") \in TrueStatuses
      /\ FailedStatus(t, "BuildFailed") \in TrueStatuses
      /\ CreatedStatus(t, clock) \in TrueStatuses
  BY <1>2, <1>5, <1>6
<1>8. t.status.run = 0 => [t.status EXCEPT !.phase = "Building", !.run = clock] \in TrueStatuses
  BY <1>3, <1>5, <1>6
<1> QED
  BY <1>4, <1>7, <1>8

(* The initial states report nothing. *)
LEMMA InitReportInv == Init => ReportInv
<1> SUFFICES ASSUME Init PROVE ReportInv
  OBVIOUS
<1>1. NoEarlySuccess
  BY DEF Init, NoTaskRun, NoEarlySuccess
<1>2. AllTrue
  BY EmptyIsTrue DEF Init, AllTrue
<1> QED
  BY <1>1, <1>2 DEF Init, ReportInv, TakesBackGone

(* A reconcile that ends writes a status that was true, or none. *)
LEMMA FinishReportInv ==
    ASSUME TypeInv, ReportInv, NEW later, Finish(later), [Next]_vars,
           UNCHANGED cached, tc' # NoToolchain => tc'.status \in TrueStatuses
    PROVE  ReportInv'
<1>1. TrueStatuses \subseteq TrueStatuses' /\ NoEarlySuccess'
  BY TrueStays, SuccessIsLater DEF ReportInv
<1>2. EmptyStatus \in TrueStatuses
  BY EmptyIsTrue
<1>3. AllTrue'
  BY <1>1, <1>2 DEF Finish, ReportInv, AllTrue
<1> QED
  BY <1>1, <1>3 DEF Finish, ReportInv, TakesBackGone

(* The steps of the reconciler keep to the rule. *)
LEMMA ReconcileReportInv == TypeInv /\ ReportInv /\ Reconcile => ReportInv'
<1> SUFFICES ASSUME TypeInv, ReportInv, Reconcile PROVE ReportInv'
  OBVIOUS
<1>0. /\ [Next]_vars
      /\ TrueStatuses \subseteq TrueStatuses' /\ NoEarlySuccess'
  <2>1. [Next]_vars
    BY DEF Next
  <2> QED
    BY <2>1, TrueStays, SuccessIsLater DEF ReportInv
<1>1. CASE ReconcileStart
  <2>1. UNCHANGED <<tc, cached>>
    BY <1>1 DEF ReconcileStart, store
  <2>2. CASE UNCHANGED worker
    BY <1>0, <1>1, <2>1, <2>2 DEF ReconcileStart, worker, ReportInv, AllTrue, TakesBackGone
  <2>3. ASSUME cached # NoToolchain, copy' = cached,
               \/ cached.status.phase # "Ready" /\ Intend(ExternalStatus(cached), FALSE)
               \/ pc' \in {"fetch", "create"} /\ UNCHANGED <<next, retry>>
        PROVE  ReportInv'
    <3>1. cached \in Toolchains /\ cached.status \in TrueStatuses
      BY <2>3 DEF TypeInv, TypeOK, ReportInv, AllTrue
    <3>2. ExternalStatus(cached) \in TrueStatuses /\ next \in TrueStatuses
      BY <3>1, WrittenIsTrue DEF ReportInv, AllTrue
    <3>3. next' \in TrueStatuses
      BY <2>3, <3>2 DEF Intend
    <3>4. AllTrue'
      BY <1>0, <2>1, <2>3, <3>1, <3>3 DEF ReportInv, AllTrue
    <3>5. TakesBackGone'
      BY <2>3, <3>1 DEF Intend, TakesBackGone, TrueStatuses
    <3> QED
      BY <1>0, <3>4, <3>5 DEF ReportInv
  <2> QED
    BY <1>1, <2>2, <2>3 DEF ReconcileStart
<1>2. CASE FetchTaskRun
  <2>0. UNCHANGED <<tc, cached, tr>>
    BY <1>2 DEF FetchTaskRun, store
  <2>1. CASE Finish(TRUE)
    BY <1>0, <2>0, <2>1, FinishReportInv DEF ReportInv, AllTrue
  <2> DEFINE s == copy.status.run
  <2>2. /\ copy \in Toolchains /\ copy.status \in TrueStatuses /\ s \in Seconds
        /\ tr[s] \in TaskRuns
    BY <1>2 DEF FetchTaskRun, TypeInv, TypeOK, WorkerOK, ReportInv, AllTrue
  <2>3. ASSUME UNCHANGED copy, pc' = "write", next' \in TrueStatuses,
               next'.reason # "BuildSucceeded" => ~tr[s].exists \/ tr[s].state # "succeeded"
        PROVE  ReportInv'
    <3>1. AllTrue'
      BY <1>0, <2>0, <2>2, <2>3 DEF ReportInv, AllTrue
    <3>2. TakesBackGone'
      BY <2>0, <2>2, <2>3 DEF TakesBackGone, TrueStatuses
    <3> QED
      BY <1>0, <3>1, <3>2 DEF ReportInv
  <2>4. CASE ~tr[s].exists /\ Intend(FailedStatus(copy, "TaskRunMissing"), FALSE) /\ UNCHANGED copy
    BY <2>2, <2>3, <2>4, WrittenIsTrue DEF Intend
  <2>5. CASE /\ TaskRunPhase(tr[s]) = "Succeeded" /\ Intend(SucceededStatus(copy), FALSE)
             /\ UNCHANGED copy
    <3>1. tr[s].state = "succeeded"
      BY <2>2, <2>5 DEF TaskRunPhase, TaskRuns
    <3>2. SucceededStatus(copy) \in TrueStatuses
      BY <2>2, <3>1, WrittenIsTrue
    <3>3. SucceededStatus(copy).reason = "BuildSucceeded"
      BY <2>2 DEF SucceededStatus, Toolchains, StatusType
    <3> QED
      BY <2>3, <2>5, <3>2, <3>3 DEF Intend
  <2>6. CASE /\ TaskRunPhase(tr[s]) = "Failed" /\ Intend(FailedStatus(copy, "BuildFailed"), FALSE)
             /\ UNCHANGED copy
    <3>1. tr[s].state # "succeeded"
      BY <2>6 DEF TaskRunPhase
    <3> QED
      BY <2>2, <2>3, <2>6, <3>1, WrittenIsTrue DEF Intend
  <2> QED
    BY <1>2, <2>1, <2>4, <2>5, <2>6 DEF FetchTaskRun
<1>3. CASE CreateTaskRun
  <2>1. copy \in Toolchains /\ copy.status \in TrueStatuses /\ copy.status.run = 0
    BY <1>3 DEF CreateTaskRun, TypeInv, TypeOK, WorkerOK, ReportInv, AllTrue
  <2>2. next' \in TrueStatuses /\ UNCHANGED <<tc, cached, copy>> /\ pc' = "write"
    BY <1>3, <2>1, WrittenIsTrue DEF CreateTaskRun, Intend
  <2>3. AllTrue'
    BY <1>0, <2>1, <2>2 DEF ReportInv, AllTrue
  <2>4. copy'.status.reason # "BuildSucceeded"
    BY <2>1, <2>2, ToolchainAssumption DEF TrueStatuses, Seconds
  <2> QED
    BY <1>0, <2>3, <2>4 DEF ReportInv, TakesBackGone
<1>4. CASE WriteStatus
  <2>1. tc \in Toolchains /\ next \in TrueStatuses
    BY <1>4 DEF WriteStatus, TypeInv, TypeOK, WorkerOK, ReportInv, AllTrue
  <2>2. tc'.status = next
    BY <1>4, <2>1 DEF WriteStatus, Toolchains
  <2> QED
    BY <1>0, <1>4, <2>1, <2>2, FinishReportInv DEF WriteStatus
<1>5. CASE WriteRefused
  BY <1>0, <1>5, FinishReportInv DEF WriteRefused, store, ReportInv, AllTrue
<1> QED
  BY <1>1, <1>2, <1>3, <1>4, <1>5 DEF Reconcile

(* Faults keep to the rule. *)
LEMMA FaultReportInv == TypeInv /\ ReportInv /\ Fault => ReportInv'
<1> SUFFICES ASSUME TypeInv, ReportInv, Fault PROVE ReportInv'
  OBVIOUS
<1>0. [Next]_vars
  BY DEF Next
<1>1. CASE RequestFails \/ WriteFails
  BY <1>0, <1>1, FinishReportInv DEF RequestFails, WriteFails, store, ReportInv, AllTrue
<1>2. CASE Restart
  <2>1. TrueStatuses \subseteq TrueStatuses' /\ NoEarlySuccess'
    BY <1>0, TrueStays, SuccessIsLater DEF ReportInv
  <2>2. AllTrue'
    BY <1>2, <2>1, EmptyIsTrue DEF Restart, store, ReportInv, AllTrue
  <2> QED
    BY <1>2, <2>1, <2>2 DEF Restart, ReportInv, TakesBackGone
<1> QED
  BY <1>1, <1>2 DEF Fault

(* So does the environment, which leaves the worker to itself. *)
LEMMA EnvironmentReportInv == TypeInv /\ ReportInv /\ Environment => ReportInv'
<1> SUFFICES ASSUME TypeInv, ReportInv, Environment PROVE ReportInv'
  OBVIOUS
<1>0. /\ [Next]_vars
      /\ TrueStatuses \subseteq TrueStatuses' /\ NoEarlySuccess'
  <2>1. [Next]_vars
    BY DEF Next
  <2> QED
    BY <2>1, TrueStays, SuccessIsLater DEF ReportInv
<1>1. UNCHANGED <<pc, copy, next>>
  BY DEF Environment, CacheSync, CreateToolchain, EditSpec, DeleteToolchain, UserWrites, Tick,
         TektonEnds, Prune, Collect, TaskRunEvent, worker
<1>2. tc' # NoToolchain => tc'.status \in TrueStatuses
  <2>1. CASE CreateToolchain
    BY <2>1, EmptyIsTrue DEF CreateToolchain
  <2>2. CASE EditSpec
    BY <2>2 DEF EditSpec, TypeInv, TypeOK, Toolchains, ReportInv, AllTrue
  <2>3. CASE DeleteToolchain
    BY <2>3 DEF DeleteToolchain
  <2>4. CASE UNCHANGED tc
    BY <2>4 DEF ReportInv, AllTrue
  <2> QED
    BY <2>1, <2>2, <2>3, <2>4 DEF Environment, CacheSync, Tick, TektonEnds, Prune, Collect,
                                  TaskRunEvent, store
<1>3. cached' # NoToolchain => cached'.status \in TrueStatuses
  <2>1. cached' = tc \/ cached' = cached
    BY DEF Environment, CacheSync, CreateToolchain, EditSpec, DeleteToolchain, UserWrites, Tick,
           TektonEnds, Prune, Collect, TaskRunEvent
  <2> QED
    BY <2>1 DEF ReportInv, AllTrue
<1>4. AllTrue'
  BY <1>0, <1>1, <1>2, <1>3 DEF ReportInv, AllTrue
<1>5. TakesBackGone'
  <2> SUFFICES ASSUME pc' = "write", copy'.status.reason = "BuildSucceeded",
                      next'.reason # "BuildSucceeded"
               PROVE  ~tr'[copy.status.run].exists
    BY <1>1 DEF TakesBackGone
  <2> DEFINE s == copy.status.run
  <2>1. s \in Seconds /\ tr[s].state = "succeeded" /\ ~tr[s].exists
    BY <1>1 DEF ReportInv, AllTrue, TrueStatuses, TakesBackGone
  <2> QED
    BY <1>0, <2>1, SuccessStays DEF ReportInv
<1> QED
  BY <1>0, <1>4, <1>5 DEF ReportInv

(* The rule holds in every reachable state. *)
THEOREM ReportInvariance == Spec => []ReportInv
<1>1. TypeInv /\ ReportInv /\ [Next]_vars => ReportInv'
  <2> SUFFICES ASSUME TypeInv, ReportInv, [Next]_vars PROVE ReportInv'
    OBVIOUS
  <2>1. CASE UNCHANGED vars
    BY <2>1 DEF vars, ReportInv, NoEarlySuccess, AllTrue, TrueStatuses, TakesBackGone
  <2> QED
    BY <2>1, ReconcileReportInv, FaultReportInv, EnvironmentReportInv DEF Next
<1> QED
  BY <1>1, InitReportInv, TypeInvariance, PTL DEF Spec

(* "BuildSucceeded" is said only while the run recorded is a TaskRun that  *)
(* succeeded.                                                              *)
THEOREM ReadyIsBuilt == Spec => []ReadyMeansBuilt
<1>1. ReportInv => ReadyMeansBuilt
  BY DEF ReportInv, AllTrue, TrueStatuses, ReadyMeansBuilt
<1> QED
  BY <1>1, ReportInvariance, PTL

(* A build that is reported stays reported, whatever users, faults and     *)
(* outdated reads do, until its TaskRun is gone or the Toolchain is        *)
(* deleted.                                                                *)
THEOREM BuiltStays == Spec => BuiltStaysReady
<1> DEFINE Built == tc # NoToolchain /\ tc.status.reason = "BuildSucceeded"
           Lost == Built /\ tc'.uid = tc.uid /\ tc'.status.reason # "BuildSucceeded"
<1>1. TypeInv /\ ReportInv /\ [Next]_vars => 
          (Lost => tc.status.run \in Seconds /\ ~tr[tc.status.run].exists)
  <2> SUFFICES ASSUME TypeInv, ReportInv, [Next]_vars, Lost
               PROVE  tc.status.run \in Seconds /\ ~tr[tc.status.run].exists
    OBVIOUS
  <2>0. tc \in Toolchains /\ tc.uid \in 1..MaxUid
    BY DEF TypeInv, TypeOK, Toolchains
  <2>1. CASE WriteStatus
    <3>1. tc'.status = next /\ copy = tc /\ pc = "write"
      BY <2>0, <2>1 DEF WriteStatus, Toolchains, TypeInv, WorkerOK
    <3> QED
      BY <3>1 DEF ReportInv, AllTrue, TrueStatuses, TakesBackGone
  <2>2. CASE EditSpec
    BY <2>0, <2>2 DEF EditSpec, Toolchains
  <2>3. CASE CreateToolchain
    BY <2>3 DEF CreateToolchain
  <2>4. CASE DeleteToolchain
    BY <2>0, <2>4, ToolchainAssumption DEF DeleteToolchain, NoToolchain
  <2>5. CASE UNCHANGED tc
    BY <2>5
  <2> QED
    BY <2>1, <2>2, <2>3, <2>4, <2>5
       DEF Next, Reconcile, ReconcileStart, FetchTaskRun, CreateTaskRun, WriteRefused, Fault,
           RequestFails, WriteFails, Restart, Environment, CacheSync, Tick, TektonEnds, Prune,
           Collect, TaskRunEvent, store, vars
<1> QED
  BY <1>1, TypeInvariance, ReportInvariance, PTL DEF Spec, BuiltStaysReady

-----------------------------------------------------------------------------
(* How many builds run side by side.  Whoever can still start a build is   *)
(* counted with the builds that run: the stored Toolchain while it wants   *)
(* one, and a reconcile about to create one from an outdated copy.  A      *)
(* fresh reconcile is the stored Toolchain's own claim, and a write that   *)
(* will not be refused ends that claim.                                    *)

Wants(t) == t # NoToolchain /\ t.build /\ t.status.run = 0 /\ t.status.phase # "Failed"

StoredClaim == IF Wants(tc) /\ ~(pc = "write" /\ copyFresh) THEN 1 ELSE 0

OutdatedClaim == IF pc = "create" /\ ~copyFresh THEN 1 ELSE 0

Paid == Spent("edit", MaxEdits) + Spent("fault", MaxFaults)

ClaimsArePaid == Cardinality(Building) + StoredClaim + OutdatedClaim <= Paid

(* What a reconcile holds when it creates, and leaves when it writes. *)
CreateWants == pc = "create" => Wants(copy)

WriteSettles == pc = "write" /\ copyFresh => ~Wants([copy EXCEPT !.status = next])

ClaimInv == ClaimsArePaid /\ CreateWants /\ WriteSettles

LEMMA BuildingFinite == IsFiniteSet(Building) /\ Cardinality(Building) \in Nat
<1>1. IsFiniteSet(Seconds)
  BY FS_Interval, ToolchainAssumption DEF Seconds
<1>2. Building \in SUBSET Seconds
  BY DEF Building
<1> QED
  BY <1>1, <1>2, FS_Subset, FS_CardinalityType

LEMMA BuildingFiniteNext == IsFiniteSet(Building') /\ Cardinality(Building') \in Nat
<1>1. IsFiniteSet(Seconds)
  BY FS_Interval, ToolchainAssumption DEF Seconds
<1>2. Building' \in SUBSET Seconds
  BY DEF Building
<1> QED
  BY <1>1, <1>2, FS_Subset, FS_CardinalityType

(* An event that is spent is paid for; the others cost nothing. *)
LEMMA PaidGrows ==
    ASSUME TypeInv
    PROVE  /\ Paid \in Int
           /\ UNCHANGED budget => Paid' = Paid
           /\ Spend("edit") \/ Spend("fault") => Paid' = Paid + 1
           /\ Spend("prune") => Paid' = Paid
<1>1. {budget["edit"], budget["fault"], budget["prune"], MaxEdits, MaxFaults} \subseteq Nat
  BY ToolchainAssumption DEF TypeInv, TypeOK, Events
<1>2. budget \in [Events -> Nat]
  BY DEF TypeInv, TypeOK
<1> QED
  BY <1>1, <1>2 DEF Paid, Spent, Spend, Events

(* No step but a create adds to the builds that run, and that adds one. *)
LEMMA BuildingGrows ==
    ASSUME TypeInv, [Next]_vars
    PROVE  /\ CreateTaskRun => Cardinality(Building') <= Cardinality(Building) + 1
           /\ ~CreateTaskRun => Cardinality(Building') <= Cardinality(Building)
<1>0. tr \in [Seconds -> TaskRuns]
  BY DEF TypeInv, TypeOK
<1>1. ASSUME Building' \subseteq Building
      PROVE  Cardinality(Building') <= Cardinality(Building)
  BY <1>1, BuildingFinite, FS_Subset
<1>2. CASE CreateTaskRun
  <2>1. Building' \subseteq Building \cup {clock}
    BY <1>0, <1>2 DEF CreateTaskRun, Building
  <2>2. /\ IsFiniteSet(Building \cup {clock})
        /\ Cardinality(Building \cup {clock}) <= Cardinality(Building) + 1
    <3>1. /\ IsFiniteSet(Building \cup {clock})
          /\ Cardinality(Building \cup {clock}) =
                 IF clock \in Building THEN Cardinality(Building) ELSE Cardinality(Building) + 1
      BY BuildingFinite, FS_AddElement, Zenon
    <3> QED
      BY <3>1, BuildingFinite
  <2>3. Cardinality(Building') <= Cardinality(Building \cup {clock})
    BY <2>1, <2>2, FS_Subset
  <2> QED
    BY <1>2, <2>2, <2>3, BuildingFinite, BuildingFiniteNext, FS_CardinalityType
<1>3. CASE UNCHANGED tr
  BY <1>1, <1>3, BuildingFinite DEF Building
<1>4. ASSUME NEW x \in Seconds, TektonEnds(x) \/ Prune(x) \/ Collect(x)
      PROVE  Building' \subseteq Building
  BY <1>0, <1>4 DEF TektonEnds, Prune, Collect, TaskRunEvent, Building, TaskRuns
<1>5. Reconcile => CreateTaskRun \/ UNCHANGED tr
  BY DEF Reconcile, ReconcileStart, FetchTaskRun, WriteStatus, WriteRefused, store
<1>6. Fault => UNCHANGED tr
  BY DEF Fault, RequestFails, WriteFails, Restart, store
<1>7. Environment => \/ UNCHANGED tr
                     \/ \E x \in Seconds : TektonEnds(x) \/ Prune(x) \/ Collect(x)
  BY DEF Environment, CacheSync, CreateToolchain, EditSpec, DeleteToolchain, UserWrites, Tick, store
<1> QED
  BY <1>1, <1>2, <1>3, <1>4, <1>5, <1>6, <1>7, BuildingFinite, BuildingFiniteNext DEF Next, vars

(* The initial states have no build and no claim. *)
LEMMA InitClaimInv == Init => ClaimInv
<1> SUFFICES ASSUME Init PROVE ClaimInv
  OBVIOUS
<1>1. Building = {}
  BY DEF Init, Building, NoTaskRun
<1>2. StoredClaim = 0 /\ OutdatedClaim = 0
  BY DEF Init, StoredClaim, OutdatedClaim, Wants
<1>3. Paid = 0
  BY ToolchainAssumption DEF Init, Paid, Spent
<1>4. ClaimsArePaid
  BY <1>1, <1>2, <1>3, FS_EmptySet DEF ClaimsArePaid
<1> QED
  BY <1>4 DEF Init, ClaimInv, CreateWants, WriteSettles

(* What has to be shown of a step: the claims grow by no more than it      *)
(* costs, and a create gives one up.                                       *)
LEMMA ClaimsStay ==
    ASSUME TypeInv, ClaimInv, [Next]_vars,
           \/ CreateTaskRun /\ UNCHANGED budget
              /\ StoredClaim' + OutdatedClaim' + 1 <= StoredClaim + OutdatedClaim
           \/ ~CreateTaskRun /\ (UNCHANGED budget \/ Spend("prune"))
              /\ StoredClaim' + OutdatedClaim' <= StoredClaim + OutdatedClaim
           \/ ~CreateTaskRun /\ (Spend("edit") \/ Spend("fault"))
              /\ StoredClaim' + OutdatedClaim' <= StoredClaim + OutdatedClaim + 1
    PROVE  ClaimsArePaid'
<1>1. /\ {StoredClaim, StoredClaim', OutdatedClaim, OutdatedClaim'} \subseteq {0, 1}
      /\ Cardinality(Building) \in Nat /\ Cardinality(Building') \in Nat
  BY BuildingFinite, BuildingFiniteNext DEF StoredClaim, OutdatedClaim
<1>2. Cardinality(Building) + StoredClaim + OutdatedClaim <= Paid
  BY DEF ClaimInv, ClaimsArePaid
<1>3. Cardinality(Building') + StoredClaim' + OutdatedClaim' <= Paid'
  BY <1>1, <1>2, PaidGrows, BuildingGrows
<1> QED
  BY <1>3 DEF ClaimsArePaid

(* The worker moves from a read to a create or to a write. *)
LEMMA StartClaimInv == TypeInv /\ ClaimInv /\ ReconcileStart => ClaimInv'
<1> SUFFICES ASSUME TypeInv, ClaimInv, ReconcileStart PROVE ClaimInv'
  OBVIOUS
<1>0. /\ [Next]_vars /\ ~CreateTaskRun
      /\ UNCHANGED <<tc, tr>> /\ pc = "idle" /\ ~copyFresh
      /\ IF cacheFresh THEN UNCHANGED budget ELSE Spend("fault")
  <2>1. [Next]_vars /\ pc = "idle" /\ UNCHANGED <<tc, tr>>
    BY DEF Next, Reconcile, ReconcileStart, store
  <2>2. IF cacheFresh THEN UNCHANGED budget ELSE Spend("fault")
    BY Zenon DEF ReconcileStart
  <2> QED
    BY <2>1, <2>2 DEF CreateTaskRun, TypeInv, WorkerOK
<1>1. OutdatedClaim = 0 /\ StoredClaim = IF Wants(tc) THEN 1 ELSE 0
  BY <1>0 DEF OutdatedClaim, StoredClaim
<1>2. CASE UNCHANGED worker
  <2>1. StoredClaim' = StoredClaim /\ OutdatedClaim' = OutdatedClaim
    BY <1>0, <1>2 DEF worker, StoredClaim, OutdatedClaim, Wants
  <2>2. StoredClaim \in {0, 1} /\ OutdatedClaim \in {0, 1}
    BY DEF StoredClaim, OutdatedClaim
  <2>3. ClaimsArePaid'
    BY <1>0, <2>1, <2>2, ClaimsStay
  <2> QED
    BY <1>0, <1>2, <2>3 DEF worker, ClaimInv, CreateWants, WriteSettles
<1>3. ASSUME cached # NoToolchain, copy' = cached, copyFresh' = cacheFresh,
             \/ ~cached.build /\ Intend(ExternalStatus(cached), FALSE)
             \/ cached.status.run # 0 /\ pc' = "fetch"
             \/ Wants(cached) /\ pc' = "create"
      PROVE  ClaimInv'
  <2>1. cached \in Toolchains
    BY <1>3 DEF TypeInv, TypeOK
  <2>2. cacheFresh => cached = tc
    BY DEF TypeInv, CacheOK
  <2>3. StoredClaim' <= StoredClaim
    BY <1>0, <1>1 DEF StoredClaim, Wants
  <2>4. OutdatedClaim' = IF pc' = "create" /\ ~cacheFresh THEN 1 ELSE 0
    BY <1>3 DEF OutdatedClaim
  <2>5. {StoredClaim, StoredClaim', OutdatedClaim, OutdatedClaim'} \subseteq {0, 1}
    BY DEF StoredClaim, OutdatedClaim
  <2>6. ClaimsArePaid'
    BY <1>0, <1>1, <2>3, <2>4, <2>5, ClaimsStay
  <2>7. CreateWants'
    BY <1>3 DEF CreateWants, Intend, Wants
  <2>8. WriteSettles'
    <3>1. pc' = "write" => ~cached.build
      BY <1>3 DEF Intend
    <3>2. [cached EXCEPT !.status = next'].build = cached.build
      BY <2>1 DEF Toolchains
    <3> QED
      BY <1>3, <3>1, <3>2 DEF WriteSettles, Wants
  <2> QED
    BY <2>6, <2>7, <2>8 DEF ClaimInv
<1> QED
  BY <1>2, <1>3 DEF ReconcileStart, Wants

(* A reconcile that ends gives up its own claim, and leaves the stored one *)
(* standing.                                                               *)
LEMMA FinishClaimInv ==
    ASSUME TypeInv, ClaimInv, [Next]_vars, ~CreateTaskRun, pc' = "idle",
           \/ UNCHANGED budget /\ StoredClaim' <= StoredClaim
           \/ Spend("fault")
    PROVE  ClaimInv'
<1>1. {StoredClaim, StoredClaim', OutdatedClaim, OutdatedClaim'} \subseteq {0, 1}
  BY DEF StoredClaim, OutdatedClaim
<1>2. OutdatedClaim' = 0
  BY DEF OutdatedClaim
<1>3. ClaimsArePaid'
  BY <1>1, <1>2, ClaimsStay
<1> QED
  BY <1>3 DEF ClaimInv, CreateWants, WriteSettles

(* The rest of the reconciler. *)
LEMMA ReconcileClaimInv == TypeInv /\ ClaimInv /\ Reconcile => ClaimInv'
<1> SUFFICES ASSUME TypeInv, ClaimInv, Reconcile PROVE ClaimInv'
  OBVIOUS
<1>0. [Next]_vars
  BY DEF Next
<1> DEFINE Count == {StoredClaim, StoredClaim', OutdatedClaim, OutdatedClaim'} \subseteq {0, 1}
<1>c. Count
  BY DEF StoredClaim, OutdatedClaim
<1> HIDE DEF Count
<1>1. CASE ReconcileStart
  BY <1>1, StartClaimInv
<1>2. CASE FetchTaskRun
  <2>0. /\ ~CreateTaskRun /\ UNCHANGED <<tc, budget>> /\ pc = "fetch"
        /\ copy \in Toolchains /\ copy.status.run \in Seconds
    BY <1>2 DEF FetchTaskRun, CreateTaskRun, store, TypeInv, WorkerOK
  <2>1. CASE Finish(TRUE)
    BY <1>0, <2>0, <2>1, FinishClaimInv DEF Finish, StoredClaim
  <2>2. ASSUME UNCHANGED <<copy, copyFresh>>, pc' = "write",
               next' \in {FailedStatus(copy, "TaskRunMissing"), FailedStatus(copy, "BuildFailed"),
                          SucceededStatus(copy)}
        PROVE  ClaimInv'
    <3>1. StoredClaim' <= StoredClaim /\ OutdatedClaim' = 0
      BY <2>0, <2>2 DEF StoredClaim, OutdatedClaim, Wants
    <3>2. ClaimsArePaid'
      BY <1>0, <1>c, <2>0, <3>1, ClaimsStay DEF Count
    <3>0. copy.status \in StatusType /\ copy.status.run # 0
      BY <2>0, ToolchainAssumption DEF Toolchains, Seconds
    <3>3. next'.phase = "Failed" \/ next'.run # 0
      BY <2>2, <3>0 DEF FailedStatus, SucceededStatus, StatusType
    <3>4. [copy EXCEPT !.status = next'].status = next'
      BY <2>0 DEF Toolchains
    <3> QED
      BY <2>2, <3>2, <3>3, <3>4 DEF ClaimInv, CreateWants, WriteSettles, Wants
  <2> QED
    BY <1>2, <2>1, <2>2 DEF FetchTaskRun, Intend
<1>3. CASE CreateTaskRun
  <2>0. /\ UNCHANGED <<tc, copy, copyFresh, budget>> /\ pc = "create" /\ pc' = "write"
        /\ copy \in Toolchains /\ clock \in Seconds /\ Wants(copy)
    BY <1>3 DEF CreateTaskRun, Intend, TypeInv, TypeOK, WorkerOK, ClaimInv, CreateWants
  <2>1. copyFresh => Wants(tc)
    BY <2>0 DEF TypeInv, WorkerOK
  <2>2. StoredClaim' + OutdatedClaim' + 1 <= StoredClaim + OutdatedClaim
    BY <2>0, <2>1 DEF StoredClaim, OutdatedClaim, Wants
  <2>3. ClaimsArePaid'
    BY <1>0, <1>3, <2>0, <2>2, ClaimsStay
  <2>4. next'.run # 0
    <3>1. copy.status \in StatusType /\ clock # 0
      BY <2>0, ToolchainAssumption DEF Toolchains, Seconds
    <3>2. \/ next' = CreatedStatus(copy, clock)
          \/ next' = [copy.status EXCEPT !.phase = "Building", !.run = clock]
      BY <1>3, Zenon DEF CreateTaskRun, Intend
    <3> QED
      BY <3>1, <3>2 DEF CreatedStatus, StatusType
  <2>5. [copy EXCEPT !.status = next'].status = next'
    BY <2>0 DEF Toolchains
  <2> QED
    BY <2>0, <2>3, <2>4, <2>5 DEF ClaimInv, CreateWants, WriteSettles, Wants
<1>4. CASE WriteStatus
  <2>1. tc' = [copy EXCEPT !.status = next] /\ UNCHANGED budget /\ pc' = "idle" /\ ~CreateTaskRun
    BY <1>4 DEF WriteStatus, Finish, CreateTaskRun, TypeInv, WorkerOK
  <2>2. ~Wants(tc')
    BY <1>4, <2>1 DEF WriteStatus, ClaimInv, WriteSettles
  <2>3. StoredClaim' = 0
    BY <2>2 DEF StoredClaim, Wants
  <2> QED
    BY <1>0, <1>c, <2>1, <2>3, FinishClaimInv DEF Count
<1>5. CASE WriteRefused
  <2>1. UNCHANGED <<tc, budget>> /\ pc' = "idle" /\ ~CreateTaskRun
    BY <1>5 DEF WriteRefused, Finish, CreateTaskRun, store
  <2>2. StoredClaim' <= StoredClaim
    BY <1>5, <2>1 DEF WriteRefused, StoredClaim, Wants
  <2> QED
    BY <1>0, <2>1, <2>2, FinishClaimInv
<1> QED
  BY <1>1, <1>2, <1>3, <1>4, <1>5 DEF Reconcile

(* A fault costs the claim it revives. *)
LEMMA FaultClaimInv == TypeInv /\ ClaimInv /\ Fault => ClaimInv'
<1> SUFFICES ASSUME TypeInv, ClaimInv, Fault PROVE ClaimInv'
  OBVIOUS
<1>1. [Next]_vars /\ pc' = "idle" /\ Spend("fault")
  BY DEF Next, Fault, RequestFails, WriteFails, Restart, Finish
<1>2. ~CreateTaskRun
  BY <1>1 DEF CreateTaskRun, Intend
<1> QED
  BY <1>1, <1>2, FinishClaimInv

(* An edit costs the claim it makes; it makes the claim of a fresh         *)
(* reconcile an outdated one.                                              *)
LEMMA UserClaimInv ==
    ASSUME TypeInv, ClaimInv, CreateToolchain \/ EditSpec \/ DeleteToolchain
    PROVE  ClaimInv'
<1>1. /\ [Next]_vars /\ Spend("edit") /\ ~copyFresh' /\ UNCHANGED <<pc, copy, next>>
  BY DEF Next, Environment, CreateToolchain, EditSpec, DeleteToolchain, UserWrites
<1>2. ~CreateTaskRun
  BY <1>1 DEF CreateTaskRun, Intend
<1>3. {StoredClaim, StoredClaim', OutdatedClaim, OutdatedClaim'} \subseteq {0, 1}
  BY DEF StoredClaim, OutdatedClaim
<1>4. OutdatedClaim' <= StoredClaim + OutdatedClaim
  <2>1. CASE pc = "create" /\ copyFresh
    <3>1. Wants(tc)
      BY <2>1 DEF TypeInv, WorkerOK, ClaimInv, CreateWants
    <3> QED
      BY <1>1, <2>1, <3>1 DEF StoredClaim, OutdatedClaim
  <2>2. CASE ~(pc = "create" /\ copyFresh)
    BY <1>1, <2>2 DEF StoredClaim, OutdatedClaim
  <2> QED
    BY <2>1, <2>2
<1>5. ClaimsArePaid'
  BY <1>1, <1>2, <1>3, <1>4, ClaimsStay
<1> QED
  BY <1>1, <1>5 DEF ClaimInv, CreateWants, WriteSettles, Wants

(* The rest of the environment changes no claim. *)
LEMMA EnvironmentClaimInv == TypeInv /\ ClaimInv /\ Environment => ClaimInv'
<1> SUFFICES ASSUME TypeInv, ClaimInv, Environment PROVE ClaimInv'
  OBVIOUS
<1>1. CASE CreateToolchain \/ EditSpec \/ DeleteToolchain
  BY <1>1, UserClaimInv
<1>2. CASE CacheSync \/ Tick \/ \E s \in Seconds : TektonEnds(s) \/ Prune(s) \/ Collect(s)
  <2>1. /\ [Next]_vars /\ UNCHANGED <<tc, pc, copy, copyFresh, next>>
        /\ UNCHANGED budget \/ Spend("prune")
    BY <1>2 DEF Next, Environment, CacheSync, Tick, TektonEnds, Prune, Collect, TaskRunEvent,
                worker, store
  <2>2. ~CreateTaskRun
    BY <2>1 DEF CreateTaskRun, Intend
  <2>3. StoredClaim' = StoredClaim /\ OutdatedClaim' = OutdatedClaim
    BY <2>1 DEF StoredClaim, OutdatedClaim, Wants
  <2>4. StoredClaim \in {0, 1} /\ OutdatedClaim \in {0, 1}
    BY DEF StoredClaim, OutdatedClaim
  <2>5. ClaimsArePaid'
    BY <2>1, <2>2, <2>3, <2>4, ClaimsStay
  <2> QED
    BY <2>1, <2>5 DEF ClaimInv, CreateWants, WriteSettles, Wants
<1> QED
  BY <1>1, <1>2 DEF Environment

(* Every claim and every running build has been paid for. *)
THEOREM ClaimInvariance == Spec => []ClaimInv
<1>1. TypeInv /\ ClaimInv /\ [Next]_vars => ClaimInv'
  <2> SUFFICES ASSUME TypeInv, ClaimInv, [Next]_vars PROVE ClaimInv'
    OBVIOUS
  <2>1. CASE UNCHANGED vars
    BY <2>1 DEF vars, ClaimInv, ClaimsArePaid, CreateWants, WriteSettles, Wants, StoredClaim,
                OutdatedClaim, Paid, Spent, Building
  <2> QED
    BY <2>1, ReconcileClaimInv, FaultClaimInv, EnvironmentClaimInv DEF Next
<1> QED
  BY <1>1, InitClaimInv, TypeInvariance, PTL DEF Spec

(* Image builds running side by side, which push the same tag, are no more *)
(* than the edits, crashes, failed requests and outdated reads there were: *)
(* CurrentBuildRun and the resourceVersion of the status update let no     *)
(* reconcile that is merely repeated start a second one.                   *)
THEOREM BuildsAreLimited == Spec => []ParallelBuildsNeedFaults
<1>1. TypeInv /\ ClaimInv => ParallelBuildsNeedFaults
  <2> SUFFICES ASSUME TypeInv, ClaimInv PROVE ParallelBuildsNeedFaults
    OBVIOUS
  <2>1. StoredClaim \in {0, 1} /\ OutdatedClaim \in {0, 1}
    BY DEF StoredClaim, OutdatedClaim
  <2>2. Cardinality(Building) <= Paid
    BY <2>1, BuildingFinite, PaidGrows DEF ClaimInv, ClaimsArePaid
  <2> QED
    BY <2>2 DEF Paid, ParallelBuildsNeedFaults
<1> QED
  BY <1>1, ClaimInvariance, TypeInvariance, PTL

-----------------------------------------------------------------------------
(* No wake-up is lost.  By itself that is not inductive: a reconcile that  *)
(* is not coming back must be about to write a result.                     *)

LeavesResult == pc = "write" /\ ~retry => next.phase \in {"Ready", "Failed"}

WakeInv == NothingForgotten /\ LeavesResult

(* The reconcile begins, and leaves the key unqueued. *)
LEMMA StartWakeInv == TypeInv /\ WakeInv /\ ReconcileStart => WakeInv'
<1> SUFFICES ASSUME TypeInv, WakeInv, ReconcileStart PROVE WakeInv'
  OBVIOUS
<1>1. UNCHANGED <<tc, cacheFresh>> /\ pc = "idle" /\ (cacheFresh => cached = tc)
  BY DEF ReconcileStart, store, TypeInv, CacheOK
<1>2. CASE UNCHANGED worker
  <2>1. \/ cached = NoToolchain
        \/ cached.status.phase \in {"Ready", "Failed"}
        \/ pc' # "idle"
    BY DEF ReconcileStart, Intend
  <2>2. NothingForgotten'
    BY <1>1, <1>2, <2>1 DEF NothingForgotten, worker
  <2> QED
    BY <1>1, <1>2, <2>2 DEF WakeInv, LeavesResult, worker
<1>3. ASSUME cached # NoToolchain, \/ Intend(ExternalStatus(cached), FALSE)
                                  \/ pc' \in {"fetch", "create"}
      PROVE  WakeInv'
  <2>1. cached.status \in StatusType
    BY <1>3 DEF TypeInv, TypeOK, Toolchains
  <2>2. ExternalStatus(cached).phase = "Ready"
    BY <2>1 DEF ExternalStatus, StatusType
  <2> QED
    BY <1>3, <2>2 DEF Intend, WakeInv, NothingForgotten, LeavesResult
<1> QED
  BY <1>2, <1>3 DEF ReconcileStart

(* What follows comes back, or is about to write a result. *)
LEMMA ReconcileWakeInv == TypeInv /\ WakeInv /\ Reconcile => WakeInv'
<1> SUFFICES ASSUME TypeInv, WakeInv, Reconcile PROVE WakeInv'
  OBVIOUS
<1>1. CASE ReconcileStart
  BY <1>1, StartWakeInv
<1>2. ASSUME Finish(TRUE) PROVE WakeInv'
  BY <1>2 DEF Finish, WakeInv, NothingForgotten, LeavesResult
<1>3. CASE FetchTaskRun
  <2>1. copy.status \in StatusType
    BY <1>3 DEF FetchTaskRun, TypeInv, TypeOK, WorkerOK, Toolchains
  <2>2. {FailedStatus(copy, "TaskRunMissing").phase, FailedStatus(copy, "BuildFailed").phase,
         SucceededStatus(copy).phase} \subseteq {"Ready", "Failed"}
    BY <2>1 DEF FailedStatus, SucceededStatus, StatusType
  <2>3. ASSUME pc' = "write", next' \in {FailedStatus(copy, "TaskRunMissing"),
                                        FailedStatus(copy, "BuildFailed"), SucceededStatus(copy)}
        PROVE  WakeInv'
    BY <2>2, <2>3 DEF WakeInv, NothingForgotten, LeavesResult
  <2> QED
    BY <1>2, <1>3, <2>3 DEF FetchTaskRun, Intend
<1>4. CASE CreateTaskRun
  BY <1>4 DEF CreateTaskRun, Intend, WakeInv, NothingForgotten, LeavesResult
<1>5. CASE WriteStatus
  <2>1. tc' = [copy EXCEPT !.status = next] /\ copy \in Toolchains
    BY <1>5 DEF WriteStatus, TypeInv, WorkerOK
  <2>2. tc'.status = next
    BY <2>1 DEF Toolchains
  <2>3. pc = "write" /\ pc' = "idle" /\ queued' = (queued \/ retry)
    BY <1>5 DEF WriteStatus, Finish
  <2> QED
    BY <2>2, <2>3 DEF WakeInv, NothingForgotten, LeavesResult
<1>6. CASE WriteRefused
  BY <1>2, <1>6 DEF WriteRefused
<1> QED
  BY <1>1, <1>3, <1>4, <1>5, <1>6 DEF Reconcile

(* Every event queues the key, or is still to be delivered. *)
LEMMA OtherWakeInv == TypeInv /\ WakeInv /\ (Fault \/ Environment) => WakeInv'
<1> SUFFICES ASSUME TypeInv, WakeInv, Fault \/ Environment PROVE WakeInv'
  OBVIOUS
<1>1. CASE RequestFails \/ WriteFails
  BY <1>1 DEF RequestFails, WriteFails, Finish, WakeInv, NothingForgotten, LeavesResult
<1>2. CASE Restart
  BY <1>2 DEF Restart, store, WakeInv, NothingForgotten, LeavesResult
<1>3. CASE CreateToolchain \/ EditSpec \/ DeleteToolchain
  BY <1>3 DEF CreateToolchain, EditSpec, DeleteToolchain, UserWrites, WakeInv, NothingForgotten,
              LeavesResult
<1>4. CASE CacheSync \/ \E s \in Seconds : TektonEnds(s) \/ Prune(s) \/ Collect(s)
  BY <1>4 DEF CacheSync, TektonEnds, Prune, Collect, TaskRunEvent, worker, WakeInv,
              NothingForgotten, LeavesResult
<1>5. CASE Tick
  BY <1>5 DEF Tick, worker, WakeInv, NothingForgotten, LeavesResult
<1> QED
  BY <1>1, <1>2, <1>3, <1>4, <1>5 DEF Fault, Environment

(* A Toolchain without a result is never left with nothing to wake its     *)
(* reconciler: every path that ends without a result comes back, and a     *)
(* Toolchain that changed meanwhile is still in the watch.                 *)
THEOREM NothingIsForgotten == Spec => []NothingForgotten
<1>1. Init => WakeInv
  BY DEF Init, WakeInv, NothingForgotten, LeavesResult
<1>2. TypeInv /\ WakeInv /\ [Next]_vars => WakeInv'
  <2> SUFFICES ASSUME TypeInv, WakeInv, [Next]_vars PROVE WakeInv'
    OBVIOUS
  <2>1. CASE UNCHANGED vars
    BY <2>1 DEF vars, WakeInv, NothingForgotten, LeavesResult
  <2> QED
    BY <2>1, ReconcileWakeInv, OtherWakeInv DEF Next
<1>3. WakeInv => NothingForgotten
  BY DEF WakeInv
<1> QED
  BY <1>1, <1>2, <1>3, TypeInvariance, PTL DEF Spec
-----------------------------------------------------------------------------
(* The contract.  What a reconcile decided must be what the contract asks  *)
(* of the step it is taken for: a TaskRun is looked up only for a          *)
(* Toolchain that wants its image built, and a status about to be written  *)
(* always says something.                                                  *)

DecidedInv ==
    /\ pc = "fetch" => copy.build
    /\ pc = "write" => next.phase # ""

(* Every status the reconciler computes has a phase. *)
LEMMA StatusPhases ==
    ASSUME NEW t \in Toolchains, NEW s
    PROVE  /\ ExternalStatus(t).phase = "Ready"
           /\ SucceededStatus(t).phase = "Ready"
           /\ FailedStatus(t, "TaskRunMissing").phase = "Failed"
           /\ FailedStatus(t, "BuildFailed").phase = "Failed"
           /\ CreatedStatus(t, s).phase = "Building"
           /\ [t.status EXCEPT !.phase = "Building", !.run = s].phase = "Building"
<1>1. t.status \in StatusType
  BY DEF Toolchains
<1> QED
  BY <1>1 DEF ExternalStatus, SucceededStatus, FailedStatus, CreatedStatus, StatusType

(* Only a reconcile that goes on can disturb it. *)
LEMMA DecidedStep == TypeInv /\ DecidedInv /\ [Next]_vars => DecidedInv'
<1> SUFFICES ASSUME TypeInv, DecidedInv, [Next]_vars PROVE DecidedInv'
  OBVIOUS
<1>1. ASSUME UNCHANGED <<pc, copy, next>> PROVE DecidedInv'
  BY <1>1 DEF DecidedInv
<1>2. ASSUME pc' = "idle" PROVE DecidedInv'
  BY <1>2 DEF DecidedInv
<1>3. CASE ReconcileStart
  <2>1. cached # NoToolchain => cached \in Toolchains
    BY DEF TypeInv, TypeOK
  <2>2. cached # NoToolchain => ExternalStatus(cached).phase = "Ready"
    BY <2>1, StatusPhases
  <2> QED
    BY <1>1, <1>3, <2>2 DEF ReconcileStart, Intend, worker, DecidedInv
<1>4. CASE FetchTaskRun
  <2>1. copy \in Toolchains
    BY <1>4 DEF FetchTaskRun, TypeInv, WorkerOK
  <2> QED
    BY <1>2, <1>4, <2>1, StatusPhases DEF FetchTaskRun, Finish, Intend, DecidedInv
<1>5. CASE CreateTaskRun
  <2>1. copy \in Toolchains
    BY <1>5 DEF CreateTaskRun, TypeInv, WorkerOK
  <2>2. CreatedStatus(copy, clock).phase = "Building"
    BY <2>1, StatusPhases
  <2>3. [copy.status EXCEPT !.phase = "Building", !.run = clock].phase = "Building"
    BY <2>1, StatusPhases
  <2>4. pc' = "write" /\ \/ next' = CreatedStatus(copy, clock)
                         \/ next' = [copy.status EXCEPT !.phase = "Building", !.run = clock]
    BY <1>5, Zenon DEF CreateTaskRun, Intend
  <2>5. pc' = "write" /\ next'.phase = "Building"
    BY <2>2, <2>3, <2>4
  <2> QED
    BY <2>5 DEF DecidedInv
<1>6. WriteStatus \/ WriteRefused \/ Fault => pc' = "idle"
  BY DEF WriteStatus, WriteRefused, Fault, RequestFails, WriteFails, Restart, Finish
<1>7. Environment \/ UNCHANGED vars => UNCHANGED <<pc, copy, next>>
  BY DEF Environment, CacheSync, CreateToolchain, EditSpec, DeleteToolchain, UserWrites, Tick,
         TektonEnds, Prune, Collect, TaskRunEvent, worker, vars
<1> QED
  BY <1>1, <1>2, <1>3, <1>4, <1>5, <1>6, <1>7 DEF Next, Reconcile

(* What a reader sees of the statuses the reconciler computes. *)
LEMMA SeenStatuses ==
    ASSUME NEW t \in Toolchains, NEW s
    PROVE  /\ Seen(ExternalStatus(t)) = [says |-> "External", run |-> t.status.run]
           /\ Seen(SucceededStatus(t)) = [says |-> "Built", run |-> t.status.run]
           /\ Seen(FailedStatus(t, "TaskRunMissing")) = [says |-> "Failed", run |-> 0]
           /\ Seen(FailedStatus(t, "BuildFailed")) = [says |-> "Failed", run |-> 0]
           /\ Seen(CreatedStatus(t, s)) = [says |-> "Building", run |-> s]
           /\ Seen([t.status EXCEPT !.phase = "Building", !.run = s])
                = [says |-> "Building", run |-> s]
<1>1. t.status \in StatusType
  BY DEF Toolchains
<1>2. Seen(ExternalStatus(t)) = [says |-> "External", run |-> t.status.run]
  BY <1>1 DEF Seen, ExternalStatus, StatusType
<1>3. Seen(SucceededStatus(t)) = [says |-> "Built", run |-> t.status.run]
  BY <1>1 DEF Seen, SucceededStatus, StatusType
<1>4. /\ Seen(FailedStatus(t, "TaskRunMissing")) = [says |-> "Failed", run |-> 0]
      /\ Seen(FailedStatus(t, "BuildFailed")) = [says |-> "Failed", run |-> 0]
  BY <1>1 DEF Seen, FailedStatus, StatusType
<1>5. /\ Seen(CreatedStatus(t, s)) = [says |-> "Building", run |-> s]
      /\ Seen([t.status EXCEPT !.phase = "Building", !.run = s])
           = [says |-> "Building", run |-> s]
  BY <1>1 DEF Seen, CreatedStatus, StatusType
<1> QED
  BY <1>2, <1>3, <1>4, <1>5

(* The variables of the contract, and what the steps leave of them. *)
ReadyReport == IF pc = "write" /\ copyFresh THEN Seen(next) ELSE Nothing
Shown == IF tc = NoToolchain THEN Nothing ELSE Seen(tc.status)
States == [s \in Seconds |-> tr[s].state]
Kept == {s \in Seconds : tr[s].exists}

(* A step that leaves the store and readies no report is not seen. *)
LEMMA Unseen ==
    ASSUME UNCHANGED <<tc, tr>>, ReadyReport' = ReadyReport
    PROVE  UNCHANGED Contract!contractVars
  BY DEF Contract!contractVars, ReadyReport, Nothing

LEMMA NoReportIsNothing == Contract!NoReport = Nothing /\ Contract!Nothing = Nothing
  BY DEF Contract!NoReport, Contract!Nothing, Nothing

(* The reconciler decides: it provides, observes, or leaves things alone. *)
LEMMA StartKeepsContract ==
    ASSUME TypeInv, ReconcileStart
    PROVE  Contract!ContractNext \/ UNCHANGED Contract!contractVars
<1>1. UNCHANGED <<tc, tr>> /\ ReadyReport = Nothing
  BY DEF ReconcileStart, store, ReadyReport
<1>2. CASE ReadyReport' = Nothing
  BY <1>1, <1>2, Unseen
<1>3. CASE ReadyReport' # Nothing
  <2>1. /\ cached # NoToolchain /\ ~cached.build /\ cached.status.phase # "Ready"
        /\ cacheFresh /\ next' = ExternalStatus(cached) /\ pc' = "write" /\ copyFresh'
    BY <1>3 DEF ReconcileStart, ReadyReport, Intend, worker
  <2>2. cached = tc /\ tc \in Toolchains /\ tc.status \in StatusType
    BY <2>1 DEF TypeInv, TypeOK, CacheOK, Toolchains
  <2>3. ReadyReport' = [says |-> "External", run |-> tc.status.run]
    BY <2>1, <2>2, SeenStatuses DEF ReadyReport, Seen
  <2>4. Shown.run = tc.status.run /\ Shown.says \notin {"External", "Built"}
    BY <2>1, <2>2 DEF Shown, Seen, StatusType, Phases
  <2>5. Contract!Provide
    BY <1>1, <2>1, <2>2, <2>3, <2>4, NoReportIsNothing
       DEF Contract!Provide, ReadyReport, Shown, Nothing
  <2> QED
    BY <2>5 DEF Contract!ContractNext
<1> QED
  BY <1>2, <1>3

(* The TaskRun it looks up is the one that is shown. *)
LEMMA FetchKeepsContract ==
    ASSUME TypeInv, DecidedInv, FetchTaskRun
    PROVE  Contract!ContractNext \/ UNCHANGED Contract!contractVars
<1>1. UNCHANGED <<tc, tr>> /\ ReadyReport = Nothing /\ pc = "fetch"
  BY DEF FetchTaskRun, store, ReadyReport
<1>2. CASE ReadyReport' = Nothing
  BY <1>1, <1>2, Unseen
<1>3. CASE ReadyReport' # Nothing
  <2> DEFINE s == copy.status.run
  <2>1. pc' = "write" /\ copyFresh'
    BY <1>3 DEF ReadyReport
  <2>2. copyFresh
    BY <2>1 DEF FetchTaskRun, Finish
  <2>3. /\ tc = copy /\ tc \in Toolchains /\ tc # NoToolchain /\ tc.build /\ s \in Seconds
        /\ tr[s] \in TaskRuns
    BY <1>1, <2>2, NoToolchainIsNone DEF TypeInv, TypeOK, WorkerOK, DecidedInv
  <2>4. Shown.run = s
    BY <2>3 DEF Shown, Seen
  <2>5. \/ /\ tr[s].exists /\ tr[s].state = "succeeded"
           /\ ReadyReport' = [says |-> "Built", run |-> s]
        \/ /\ tr[s].exists => tr[s].state = "failed"
           /\ ReadyReport' = [says |-> "Failed", run |-> 0]
    <3>1. ReadyReport' = Seen(next')
      BY <2>1 DEF ReadyReport, Seen
    <3>2. CASE ~tr[s].exists /\ next' = FailedStatus(copy, "TaskRunMissing")
      BY <2>3, <3>1, <3>2, SeenStatuses
    <3>3. CASE /\ tr[s].exists /\ TaskRunPhase(tr[s]) = "Succeeded"
               /\ next' = SucceededStatus(copy)
      BY <2>3, <3>1, <3>3, SeenStatuses DEF TaskRunPhase, TaskRuns
    <3>4. CASE /\ TaskRunPhase(tr[s]) = "Failed" /\ next' = FailedStatus(copy, "BuildFailed")
      BY <2>3, <3>1, <3>4, SeenStatuses DEF TaskRunPhase, TaskRuns
    <3> QED
      BY <2>1, <3>2, <3>3, <3>4 DEF FetchTaskRun, Intend, Finish
  <2>6. Contract!Observe
    <3>1. s \in Kept <=> tr[s].exists
      BY <2>3 DEF Kept
    <3>2. States[s] = tr[s].state
      BY <2>3 DEF States
    <3> QED
      BY <1>1, <2>3, <2>4, <2>5, <3>1, <3>2, NoReportIsNothing
         DEF Contract!Observe, ReadyReport, Shown, Kept, States, Nothing
  <2> QED
    BY <2>6 DEF Contract!ContractNext
<1> QED
  BY <1>2, <1>3

(* A TaskRun is created, or one of the same name taken. *)
LEMMA CreateKeepsContract ==
    ASSUME TypeInv, NoEarlySuccess, CreateWants, CreateTaskRun
    PROVE  Contract!ContractNext \/ UNCHANGED Contract!contractVars
<1>1. /\ UNCHANGED <<tc, copyFresh>> /\ ReadyReport = Nothing /\ pc' = "write"
      /\ clock \in Seconds /\ tr \in [Seconds -> TaskRuns]
      /\ copy \in Toolchains /\ Wants(copy)
  BY DEF CreateTaskRun, Intend, ReadyReport, TypeInv, TypeOK, WorkerOK, CreateWants
<1>2. copyFresh => ReadyReport' = [says |-> "Building", run |-> clock]
  <2>1. \/ next' = CreatedStatus(copy, clock)
        \/ next' = [copy.status EXCEPT !.phase = "Building", !.run = clock]
    BY Zenon DEF CreateTaskRun, Intend
  <2>2. Seen(next') = [says |-> "Building", run |-> clock]
    BY <1>1, <2>1, SeenStatuses
  <2> QED
    BY <1>1, <2>2 DEF ReadyReport, Seen
<1>3. ~copyFresh => ReadyReport' = Nothing
  BY <1>1 DEF ReadyReport, Nothing
<1>4. copyFresh => /\ tc # NoToolchain /\ tc.build
                   /\ Shown.run = 0 /\ Shown.says # "Failed"
  <2> SUFFICES ASSUME copyFresh
               PROVE  /\ tc # NoToolchain /\ tc.build
                      /\ Shown.run = 0 /\ Shown.says # "Failed"
    OBVIOUS
  <2>1. tc = copy /\ tc # NoToolchain
    BY <1>1, NoToolchainIsNone DEF TypeInv, WorkerOK
  <2> QED
    BY <1>1, <2>1 DEF Wants, Shown, Seen
<1>5. copyFresh => Contract!Free
  BY <1>4 DEF Contract!Free, Shown, Nothing
<1>6. (clock \in Kept <=> tr[clock].exists) /\ States[clock] = tr[clock].state
  BY <1>1 DEF Kept, States
<1>7. CASE tr[clock].exists
  <2>1. UNCHANGED tr
    BY <1>7 DEF CreateTaskRun
  <2>2. CASE copyFresh
    <3>1. Contract!Take(clock)
      BY <1>1, <1>2, <1>5, <1>6, <1>7, <2>1, <2>2, NoReportIsNothing
         DEF Contract!Take, ReadyReport, Kept, Nothing
    <3> QED
      BY <1>1, <3>1 DEF Contract!ContractNext
  <2>3. CASE ~copyFresh
    BY <1>1, <1>3, <2>1, <2>3, Unseen
  <2> QED
    BY <2>2, <2>3
<1>8. CASE ~tr[clock].exists
  <2>1. tr' = [tr EXCEPT ![clock] = NewTaskRun(copy)]
    BY <1>8 DEF CreateTaskRun
  <2>2. States' = [States EXCEPT ![clock] = "running"] /\ Kept' = Kept \cup {clock}
    BY <1>1, <2>1 DEF States, Kept, NewTaskRun
  <2>3. States[clock] # "succeeded"
    BY <1>1, <1>6, ToolchainAssumption DEF NoEarlySuccess, Seconds
  <2>4. ASSUME NEW s \in Seconds, s = clock PROVE Contract!Begin(s)
    BY <1>1, <1>2, <1>3, <1>5, <1>6, <1>8, <2>2, <2>3, <2>4, NoReportIsNothing
       DEF Contract!Begin, ReadyReport, States, Kept, Nothing
  <2>5. \E s \in Seconds : Contract!Begin(s)
    BY <1>1, <2>4
  <2> QED
    BY <2>5 DEF Contract!ContractNext
<1> QED
  BY <1>7, <1>8

(* The report becomes what is shown. *)
LEMMA WriteKeepsContract ==
    ASSUME TypeInv, DecidedInv, WriteStatus
    PROVE  Contract!ContractNext \/ UNCHANGED Contract!contractVars
<1>1. /\ UNCHANGED tr /\ tc' = [tc EXCEPT !.status = next]
      /\ tc \in Toolchains /\ ReadyReport' = Nothing /\ ReadyReport = Seen(next)
  BY DEF WriteStatus, Finish, ReadyReport, TypeInv, WorkerOK
<1>2. tc' \in Toolchains /\ tc'.status = next /\ tc'.build = tc.build
  BY <1>1 DEF TypeInv, TypeOK, Toolchains
<1>3. Shown' = Seen(next)
  BY <1>2, NoToolchainIsNone DEF Shown, Seen
<1>4. Seen(next) # Nothing
  BY DEF WriteStatus, DecidedInv, Seen, Nothing
<1>5. tc # NoToolchain /\ tc' # NoToolchain
  BY <1>1, <1>2, NoToolchainIsNone
<1>6. Contract!Publish
  BY <1>1, <1>2, <1>3, <1>4, <1>5, NoReportIsNothing
     DEF Contract!Publish, ReadyReport, Shown, Nothing
<1> QED
  BY <1>6 DEF Contract!ContractNext

(* A reconcile that ends otherwise gives its report up. *)
LEMMA IdleKeepsContract ==
    ASSUME UNCHANGED <<tc, tr>>, pc' = "idle"
    PROVE  Contract!ContractNext \/ UNCHANGED Contract!contractVars
<1>1. ReadyReport' = Nothing
  BY DEF ReadyReport, Nothing
<1>2. CASE ReadyReport = Nothing
  BY <1>1, <1>2, Unseen
<1>3. CASE ReadyReport # Nothing
  <2>1. Contract!Lose
    BY <1>1, <1>3, NoReportIsNothing DEF Contract!Lose, ReadyReport, Nothing
  <2> QED
    BY <2>1 DEF Contract!ContractNext
<1> QED
  BY <1>2, <1>3

(* Users make every report void. *)
LEMMA UserKeepsContract ==
    ASSUME TypeInv, CreateToolchain \/ EditSpec \/ DeleteToolchain
    PROVE  Contract!ContractNext \/ UNCHANGED Contract!contractVars
<1>1. UNCHANGED tr /\ ReadyReport' = Nothing
  BY DEF CreateToolchain, EditSpec, DeleteToolchain, UserWrites, ReadyReport, Nothing
<1>2. CASE CreateToolchain
  <2>1. PICK b \in BOOLEAN :
            tc' = [uid |-> uids + 1, gen |-> 1, build |-> b, status |-> EmptyStatus]
    BY <1>2 DEF CreateToolchain
  <2>2. tc = NoToolchain /\ tc' # NoToolchain /\ tc'.build \in BOOLEAN
    <3>1. uids + 1 # 0
      BY DEF TypeInv, TypeOK
    <3>2. tc'.uid = uids + 1
      BY <2>1
    <3>3. NoToolchain.uid = 0
      BY DEF NoToolchain
    <3> QED
      BY <1>2, <2>1, <3>1, <3>2, <3>3 DEF CreateToolchain
  <2>3. Seen(EmptyStatus) = Nothing
    BY DEF Seen, EmptyStatus, Nothing
  <2>4. Shown' = Shown
    BY <2>1, <2>2, <2>3 DEF Shown, Seen, Nothing
  <2>5. Contract!Submit
    BY <1>1, <2>2, <2>4, NoReportIsNothing DEF Contract!Submit, ReadyReport, Shown, Nothing
  <2> QED
    BY <2>5 DEF Contract!ContractNext
<1>3. CASE EditSpec
  <2>1. tc \in Toolchains /\ tc # NoToolchain
    BY <1>3 DEF EditSpec, TypeInv, TypeOK
  <2>2. PICK b \in BOOLEAN : tc' = [tc EXCEPT !.gen = @ + 1, !.build = b]
    BY <1>3 DEF EditSpec
  <2>3. tc'.build \in BOOLEAN /\ tc'.status = tc.status /\ tc'.uid = tc.uid /\ tc.uid # 0
    BY <2>1, <2>2, ToolchainAssumption DEF Toolchains
  <2>4. tc' # NoToolchain
    BY <2>3 DEF NoToolchain
  <2>5. Shown' = Shown
    BY <2>1, <2>3, <2>4 DEF Shown, Seen
  <2>6. Contract!Edit
    BY <1>1, <2>1, <2>3, <2>4, <2>5, NoReportIsNothing
       DEF Contract!Edit, ReadyReport, Shown, Nothing
  <2> QED
    BY <2>6 DEF Contract!ContractNext
<1>4. CASE DeleteToolchain
  <2>1. tc # NoToolchain /\ tc' = NoToolchain
    BY <1>4 DEF DeleteToolchain
  <2>2. Contract!Remove
    BY <1>1, <2>1, NoReportIsNothing DEF Contract!Remove, ReadyReport, Nothing
  <2> QED
    BY <2>2 DEF Contract!ContractNext
<1> QED
  BY <1>2, <1>3, <1>4

(* A TaskRun ends, or is deleted. *)
LEMMA TaskRunKeepsContract ==
    ASSUME TypeInv, NEW s \in Seconds, TektonEnds(s) \/ Prune(s) \/ Collect(s)
    PROVE  Contract!ContractNext \/ UNCHANGED Contract!contractVars
<1>1. UNCHANGED <<tc, pc, copyFresh, next>> /\ tr \in [Seconds -> TaskRuns]
  BY DEF TektonEnds, Prune, Collect, TaskRunEvent, worker, TypeInv, TypeOK
<1>2. ReadyReport' = ReadyReport
  BY <1>1 DEF ReadyReport, Seen, Nothing
<1>3. CASE TektonEnds(s)
  <2>1. PICK e \in {"succeeded", "failed"} : tr' = [tr EXCEPT ![s] = [tr[s] EXCEPT !.state = e]]
    BY <1>3 DEF TektonEnds, TaskRunEvent
  <2>2. States' = [States EXCEPT ![s] = e] /\ Kept' = Kept
    BY <1>1, <2>1 DEF States, Kept, TaskRuns
  <2>3. s \in Kept /\ States[s] = "running"
    BY <1>3 DEF TektonEnds, Building, Kept, States
  <2>4. Contract!End(s, e)
    BY <1>1, <1>2, <2>2, <2>3 DEF Contract!End, ReadyReport, States, Kept, Nothing
  <2> QED
    BY <2>4 DEF Contract!ContractNext
<1>4. CASE Prune(s) \/ Collect(s)
  <2>1. tr' = [tr EXCEPT ![s] = [tr[s] EXCEPT !.exists = FALSE]] /\ tr[s].exists
    BY <1>4 DEF Prune, Collect, TaskRunEvent
  <2>2. States' = States /\ Kept' = Kept \ {s} /\ s \in Kept
    BY <1>1, <2>1 DEF States, Kept, TaskRuns
  <2>3. Contract!Drop(s)
    BY <1>1, <1>2, <2>2 DEF Contract!Drop, ReadyReport, States, Kept, Nothing
  <2> QED
    BY <2>3 DEF Contract!ContractNext
<1> QED
  BY <1>3, <1>4

(* The Toolchain reconciler implements the contract, whatever users,       *)
(* faults and outdated reads do.                                           *)
THEOREM ControllerImplementsContract == Spec => ImplementsContract
<1>1. Init => Contract!ContractInit
  BY DEF Init, NoTaskRun, Contract!ContractInit, Contract!NoReport, Contract!Nothing, Nothing
<1>2. Init => DecidedInv
  BY DEF Init, DecidedInv
<1>3. TypeInv /\ DecidedInv /\ ReportInv /\ ClaimInv /\ [Next]_vars =>
          Contract!ContractNext \/ UNCHANGED Contract!contractVars
  <2> SUFFICES ASSUME TypeInv, DecidedInv, ReportInv, ClaimInv, [Next]_vars
               PROVE  Contract!ContractNext \/ UNCHANGED Contract!contractVars
    OBVIOUS
  <2>1. CASE Reconcile
    <3>1. WriteRefused => UNCHANGED <<tc, tr>> /\ pc' = "idle"
      BY DEF WriteRefused, Finish, store
    <3> QED
      BY <2>1, <3>1, StartKeepsContract, FetchKeepsContract, CreateKeepsContract,
         WriteKeepsContract, IdleKeepsContract DEF Reconcile, ReportInv, ClaimInv
  <2>2. CASE Fault
    <3>1. UNCHANGED <<tc, tr>> /\ pc' = "idle"
      BY <2>2 DEF Fault, RequestFails, WriteFails, Restart, Finish, store
    <3> QED
      BY <3>1, IdleKeepsContract
  <2>3. CASE CacheSync \/ Tick \/ UNCHANGED vars
    <3>1. UNCHANGED <<tc, tr, pc, copyFresh, next>>
      BY <2>3 DEF CacheSync, Tick, worker, store, vars
    <3>2. ReadyReport' = ReadyReport
      BY <3>1 DEF ReadyReport, Seen, Nothing
    <3> QED
      BY <3>1, <3>2, Unseen
  <2> QED
    BY <2>1, <2>2, <2>3, UserKeepsContract, TaskRunKeepsContract DEF Next, Environment
<1> QED
  BY <1>1, <1>2, <1>3, DecidedStep, TypeInvariance, ReportInvariance, ClaimInvariance, PTL
     DEF Spec, ImplementsContract, Contract!ContractSpec
=============================================================================
