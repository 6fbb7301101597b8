----------------------- MODULE BuildJobContract_proof -----------------------
(***************************************************************************)
(* Proofs that the BuildJob reconciler implements BuildContract, that a    *)
(* rejected BuildJob stays due, that runs in progress are tracked, that    *)
(* the outcome and the OCI reference the status reports are those of the   *)
(* run it names, that a run is created under a free name, and that no      *)
(* wake-up of the reconciler is lost.                                      *)
(***************************************************************************)
EXTENDS BuildJobController_proof

-----------------------------------------------------------------------------
(* The fields of the statuses that are written. *)

(* A sync changes neither the run a status names nor the trigger it serves. *)
LEMMA SyncFields ==
    ASSUME NEW b \in BuildJobs, NEW n, NEW r \in RunRecords, NEW t
    PROVE  /\ SyncStatus(b, n, r, t).current = b.status.current
           /\ SyncStatus(b, n, r, t).lastRunAt = b.status.lastRunAt
           /\ SyncStatus(b, n, r, t).phase = PhaseOf(r)
           /\ PhaseOf(r) = "Failed" => SyncStatus(b, n, r, t).reason = "BuildFailed"
  BY DEF SyncStatus, BuildJobs, StatusType

(* An adopted run is in progress, and takes the trigger of the job. *)
LEMMA AdoptFields ==
    ASSUME NEW b \in BuildJobs, NEW n \in Runs, NEW r \in RunRecords, NEW t, Active(r)
    PROVE  /\ AdoptStatus(b, n, r, t).current = n
           /\ AdoptStatus(b, n, r, t).lastRunAt = b.runAt
           /\ AdoptStatus(b, n, r, t).phase = PhaseOf(r)
           /\ PhaseOf(r) \in {"Pending", "Running"}
<1> DEFINE c == [b EXCEPT !.status.current = n, !.status.lastRunAt = b.runAt]
<1>1. n \in 0..MaxRun
  BY BoundsAssumption DEF Runs
<1>2. [b.status EXCEPT !.current = n, !.lastRunAt = b.runAt] \in StatusType
  BY <1>1 DEF BuildJobs, StatusType
<1>3. c = [b EXCEPT !.status = [b.status EXCEPT !.current = n, !.lastRunAt = b.runAt]]
  BY DEF BuildJobs, StatusType
<1>4. c \in BuildJobs
  BY <1>2, <1>3 DEF BuildJobs
<1>5. c.status.current = n /\ c.status.lastRunAt = b.runAt
  BY <1>3 DEF BuildJobs, StatusType
<1>6. PhaseOf(r) \in {"Pending", "Running"}
  BY DEF Active, Terminated, PhaseOf, RunRecords, RunStates
<1>7. AdoptStatus(b, n, r, t) = SyncStatus(c, n, r, t)
  BY DEF AdoptStatus
<1> HIDE DEF c
<1> QED
  BY <1>4, <1>5, <1>6, <1>7, SyncFields

(* So does a created one. *)
LEMMA CreatedFields ==
    ASSUME NEW b \in BuildJobs, NEW n, NEW t
    PROVE  /\ CreatedStatus(b, n, t).current = n
           /\ CreatedStatus(b, n, t).lastRunAt = b.runAt
           /\ CreatedStatus(b, n, t).phase = "Pending"
  BY DEF CreatedStatus, BuildJobs, StatusType

(* A status marked Failed names the run and the trigger it named before. *)
LEMMA FailedFields ==
    ASSUME NEW b \in BuildJobs, NEW why, NEW t
    PROVE  /\ FailedStatus(b, why, t).current = b.status.current
           /\ FailedStatus(b, why, t).lastRunAt = b.status.lastRunAt
           /\ FailedStatus(b, why, t).phase = "Failed"
           /\ FailedStatus(b, why, t).reason = why
  BY DEF FailedStatus, BuildJobs, StatusType

-----------------------------------------------------------------------------
(* The strengthening.  Triggers and the clock only grow, so that a trigger *)
(* that waits is never overwritten by one that was served; and the worker  *)
(* carries from its decision to its write what the decision was about.     *)

Rejections == {"SourcePVCNotFound", "InvalidOCIConfig", "UnsupportedArchitecture"}

InOrder == bj # NoJob => bj.status.lastRunAt <= bj.runAt /\ bj.runAt <= clock

Decided ==
    /\ pc \in {"find", "prepare", "create"} => NeedsNewRun(copy)
    /\ pc = "fetch" => ~NeedsNewRun(copy)

Serving == intent \in {"adopt", "created"}

Written ==
    pc = "write" =>
        /\ copy \in BuildJobs
        /\ next.phase # ""
        /\ Serving => /\ next.current \in Runs /\ next.lastRunAt = copy.runAt
                      /\ next.phase \in {"Pending", "Running"}
        /\ ~Serving => /\ next.current = copy.status.current
                       /\ next.lastRunAt = copy.status.lastRunAt
        /\ next.phase = "Failed" /\ next.reason \in Rejections => NeedsNewRun(copy) /\ ~Serving

TriggerInv == InOrder /\ Decided /\ Written

(* A reconcile that ends decides and writes nothing. *)
LEMMA FinishTrigger ==
    ASSUME NEW later, Finish(later)
    PROVE  Decided' /\ Written'
  BY DEF Finish, Decided, Written

(* A status that changes neither run nor trigger leaves due what was due;  *)
(* one that serves the trigger does not.                                   *)
LEMMA DueAfterStatus ==
    ASSUME NEW b \in BuildJobs, NEW st \in StatusType
    PROVE  LET c == [b EXCEPT !.status = st] IN
           /\ c.status = st /\ c.runAt = b.runAt
           /\ st.current = b.status.current /\ st.lastRunAt = b.status.lastRunAt =>
                  (NeedsNewRun(c) <=> NeedsNewRun(b))
           /\ st.current # 0 /\ st.lastRunAt = b.runAt => ~NeedsNewRun(c)
  BY DEF NeedsNewRun, BuildJobs, StatusType

(* The steps of the reconciler. *)
LEMMA ReconcileTrigger ==
    ASSUME TypeInv, TriggerInv, Reconcile
    PROVE  TriggerInv'
<1>0. TypeOK /\ WorkerOK /\ CacheOK /\ InOrder /\ Decided /\ Written
  BY DEF TypeInv, TriggerInv
<1>w. pc # "idle" => copy \in BuildJobs
  BY <1>0 DEF WorkerOK
<1>c. clock \in Times
  BY <1>0 DEF TypeOK, Times
<1>1. CASE ReconcileStart
  <2>1. InOrder'
    BY <1>0, <1>1 DEF ReconcileStart, InOrder, store
  <2>2. CASE cached = NoJob
    BY <1>0, <1>1, <2>1, <2>2 DEF ReconcileStart, TriggerInv, Decided, Written, Serving, worker, NeedsNewRun
  <2>3. CASE cached # NoJob
    <3>1. copy' = cached /\ pc' = (IF NeedsNewRun(cached) THEN "find" ELSE "fetch")
      BY <1>1, <2>3 DEF ReconcileStart
    <3> QED
      BY <2>1, <3>1 DEF TriggerInv, Decided, Written, NeedsNewRun
  <2> QED
    BY <2>2, <2>3
<1>2. CASE FetchRun
  <2> DEFINE n == copy.status.current
  <2>1. n \in Runs /\ copy \in BuildJobs /\ pr[n] \in RunRecords /\ ~NeedsNewRun(copy)
    BY <1>0, <1>2 DEF FetchRun, WorkerOK, TypeOK, Decided
  <2>2. pc' = "write" /\ copy' = copy /\ UNCHANGED <<bj, clock>>
    BY <1>2 DEF FetchRun, Intend, store
  <2>3. PhaseOf(pr[n]) # ""
    BY <2>1 DEF PhaseOf, RunRecords, RunStates
  <2>4. /\ next'.current = copy.status.current /\ next'.lastRunAt = copy.status.lastRunAt
        /\ next'.phase # "" /\ intent' \in {"sync", "missing"}
        /\ next'.phase = "Failed" => next'.reason \in {"BuildFailed", "PipelineRunNotFound"}
    <3>1. CASE pr[n].exists
      <4>1. next' = SyncStatus(copy, n, pr[n], clock) /\ intent' = "sync"
        BY <1>2, <3>1 DEF FetchRun, Intend
      <4> DEFINE st == SyncStatus(copy, n, pr[n], clock)
      <4>2. /\ st.current = copy.status.current /\ st.lastRunAt = copy.status.lastRunAt
            /\ st.phase = PhaseOf(pr[n])
            /\ PhaseOf(pr[n]) = "Failed" => st.reason = "BuildFailed"
        BY <2>1, SyncFields
      <4> HIDE DEF st
      <4> QED
        BY <2>3, <4>1, <4>2 DEF st
    <3>2. CASE ~pr[n].exists
      <4>1. next' = FailedStatus(copy, "PipelineRunNotFound", clock) /\ intent' = "missing"
        BY <1>2, <3>2 DEF FetchRun, Intend
      <4>2. /\ next'.current = copy.status.current /\ next'.lastRunAt = copy.status.lastRunAt
            /\ next'.phase = "Failed" /\ next'.reason = "PipelineRunNotFound"
        BY <2>1, <4>1, FailedFields
      <4> QED
        BY <4>1, <4>2
    <3> QED
      BY <3>1, <3>2
  <2> QED
    BY <1>0, <2>1, <2>2, <2>4 DEF TriggerInv, InOrder, Decided, Written, Serving, Rejections
<1>3. CASE FindActive
  <2>1. copy \in BuildJobs /\ NeedsNewRun(copy) /\ copy' = copy /\ UNCHANGED <<bj, clock>>
    BY <1>0, <1>w, <1>3 DEF FindActive, Decided, store
  <2>2. CASE pc' = "prepare"
    BY <1>0, <2>1, <2>2 DEF TriggerInv, InOrder, Decided, Written, NeedsNewRun
  <2>3. CASE \E n \in ActiveRuns : Intend("adopt", n, AdoptStatus(copy, n, pr[n], clock))
    <3>1. PICK n \in ActiveRuns : Intend("adopt", n, AdoptStatus(copy, n, pr[n], clock))
      BY <2>3
    <3>2. n \in Runs /\ pr[n] \in RunRecords /\ Active(pr[n])
      BY <1>0 DEF ActiveRuns, TypeOK
    <3>3. /\ next'.current = n /\ next'.lastRunAt = copy.runAt
          /\ next'.phase \in {"Pending", "Running"} /\ intent' = "adopt" /\ pc' = "write"
      BY <2>1, <3>1, <3>2, AdoptFields DEF Intend
    <3> QED
      BY <1>0, <2>1, <3>2, <3>3 DEF TriggerInv, InOrder, Decided, Written, Serving
  <2> QED
    BY <1>3, <2>2, <2>3 DEF FindActive
<1>4. CASE Prepare
  <2> DEFINE why == Rejection(copy, pvcs)
  <2>1. copy \in BuildJobs /\ NeedsNewRun(copy) /\ copy' = copy /\ UNCHANGED <<bj, clock>>
    BY <1>0, <1>w, <1>4 DEF Prepare, Decided
  <2>2. CASE why # ""
    <3>1. Intend("reject", 0, FailedStatus(copy, why, clock))
      BY <1>4, <2>2 DEF Prepare
    <3>2. /\ next'.current = copy.status.current /\ next'.lastRunAt = copy.status.lastRunAt
          /\ next'.phase = "Failed" /\ intent' = "reject" /\ pc' = "write"
      BY <2>1, <3>1, FailedFields DEF Intend
    <3> QED
      BY <1>0, <2>1, <3>2 DEF TriggerInv, InOrder, Decided, Written, Serving, NeedsNewRun
  <2>3. CASE why = ""
    <3>1. pc' = "create"
      BY <1>4, <2>3 DEF Prepare
    <3> QED
      BY <1>0, <2>1, <3>1 DEF TriggerInv, InOrder, Decided, Written, NeedsNewRun
  <2> QED
    BY <2>2, <2>3
<1>5. CASE CreateRun
  <2>0. copy \in BuildJobs /\ run \in Runs /\ InOrder'
    BY <1>0, <1>w, <1>5 DEF CreateRun, InOrder, WorkerOK
  <2>1. CASE pr[run].exists
    BY <1>5, <2>0, <2>1, FinishTrigger DEF CreateRun, TriggerInv
  <2>2. CASE ~pr[run].exists
    <3>1. Intend("created", run, CreatedStatus(copy, run, clock)) /\ copy' = copy
      BY <1>5, <2>2 DEF CreateRun
    <3>2. /\ next'.current = run /\ next'.lastRunAt = copy.runAt
          /\ next'.phase = "Pending" /\ intent' = "created" /\ pc' = "write"
      BY <2>0, <3>1, CreatedFields DEF Intend
    <3> QED
      BY <2>0, <3>1, <3>2 DEF TriggerInv, Decided, Written, Serving
  <2> QED
    BY <2>1, <2>2
<1>6. CASE WriteStatus
  <2>1. bj = copy /\ copy \in BuildJobs /\ next \in StatusType
    BY <1>0, <1>w, <1>6 DEF WriteStatus, WorkerOK, TypeOK
  <2>2. bj' = [copy EXCEPT !.status = next] /\ clock' = clock
    BY <1>6, <2>1 DEF WriteStatus
  <2>3. bj'.status = next /\ bj'.runAt = copy.runAt
    BY <2>1, <2>2, DueAfterStatus
  <2>4. next.lastRunAt <= copy.runAt
    <3>1. copy.status.lastRunAt <= copy.runAt
      BY <1>0, <2>1, NoJobIsNoBuildJob DEF InOrder
    <3>2. copy.runAt \in Int
      BY <2>1, BoundsAssumption DEF BuildJobs, Times
    <3>3. next.lastRunAt \in {copy.runAt, copy.status.lastRunAt}
      BY <1>0, <1>6 DEF WriteStatus, Written
    <3> QED
      BY <3>1, <3>2, <3>3
  <2>5. InOrder'
    BY <1>0, <2>1, <2>2, <2>3, <2>4, NoJobIsNoBuildJob DEF InOrder
  <2> QED
    BY <1>6, <2>5, FinishTrigger DEF WriteStatus, TriggerInv
<1>7. CASE WriteRefused
  BY <1>0, <1>7, FinishTrigger DEF WriteRefused, TriggerInv, InOrder, store
<1> QED
  BY <1>1, <1>2, <1>3, <1>4, <1>5, <1>6, <1>7 DEF Reconcile

(* The faults. *)
LEMMA FaultTrigger ==
    ASSUME TypeInv, TriggerInv, Fault
    PROVE  TriggerInv'
<1>0. InOrder /\ Decided /\ Written
  BY DEF TriggerInv
<1>1. CASE FindFails
  BY <1>0, <1>1 DEF FindFails, TriggerInv, InOrder, Decided, Written, store, NeedsNewRun
<1>2. CASE RequestFails \/ WriteFails
  BY <1>0, <1>2, FinishTrigger DEF RequestFails, WriteFails, TriggerInv, InOrder, store
<1>3. CASE Restart
  BY <1>0, <1>3 DEF Restart, TriggerInv, InOrder, Decided, Written, store
<1> QED
  BY <1>1, <1>2, <1>3 DEF Fault

(* What a user's write may do: nothing, create the job, delete it, or      *)
(* change its spec and its run-at; and the copies are stale after it.      *)
Created == bj = NoJob /\ bj' \in BuildJobs /\ bj'.status = EmptyStatus /\ bj'.runAt = 0
Deleted == bj \in BuildJobs /\ bj' = NoJob
Edited == /\ bj \in BuildJobs /\ bj' \in BuildJobs
          /\ bj'.status = bj.status /\ bj'.runAt \in {bj.runAt, clock}

LEMMA UserWrites ==
    ASSUME TypeInv, User
    PROVE  /\ UserStep
           /\ \/ bj' = bj /\ copyFresh' = copyFresh
              \/ (Created \/ Deleted \/ Edited) /\ copyFresh' = FALSE
<1>0. bj \in BuildJobs \cup {NoJob} /\ bj' \in BuildJobs \cup {NoJob}
  BY UserTypeInv DEF TypeInv, TypeOK
<1>1. UserStep
  BY DEF User, HandleCreateNew, HandleCreateExisting, HandleRun, HandleDelete, AnnotateRunAt, PatchSpec
<1>s. ASSUME NEW new, Store(new), Created \/ Deleted \/ Edited
      PROVE  \/ bj' = bj /\ copyFresh' = copyFresh
             \/ (Created \/ Deleted \/ Edited) /\ copyFresh' = FALSE
  BY <1>s DEF Store
<1>w. ASSUME NEW b \in BuildJobs, NEW sp
      PROVE  /\ WithSpec(b, sp).status = b.status /\ WithSpec(b, sp).runAt = b.runAt
             /\ [WithSpec(b, sp) EXCEPT !.runAt = clock].status = b.status
             /\ [WithSpec(b, sp) EXCEPT !.runAt = clock].runAt = clock
  BY DEF WithSpec, BuildJobs
<1>a. ASSUME NEW b \in BuildJobs
      PROVE  [b EXCEPT !.runAt = clock].status = b.status /\ [b EXCEPT !.runAt = clock].runAt = clock
  BY DEF BuildJobs
<1>2. CASE HandleCreateNew
  <2>1. PICK sp \in Specs : Store([uid |-> uids', gen |-> 1, spec |-> sp,
                                   runAt |-> 0, status |-> EmptyStatus])
    BY <1>2 DEF HandleCreateNew
  <2>2. /\ bj = NoJob
        /\ bj' = [uid |-> uids', gen |-> 1, spec |-> sp, runAt |-> 0, status |-> EmptyStatus]
    BY <1>2, <2>1 DEF HandleCreateNew, Store
  <2>3. bj'.status = EmptyStatus /\ bj'.runAt = 0 /\ bj' # NoJob
    BY <2>2 DEF NoJob
  <2>4. Created
    BY <1>0, <2>2, <2>3 DEF Created
  <2> QED
    BY <1>1, <1>s, <2>1, <2>4
<1>3. CASE HandleCreateExisting
  <2>1. PICK sp \in Specs : Store([WithSpec(bj, sp) EXCEPT !.runAt = clock])
    BY <1>3 DEF HandleCreateExisting
  <2>2. bj \in BuildJobs /\ bj' = [WithSpec(bj, sp) EXCEPT !.runAt = clock]
    BY <1>0, <1>3, <2>1 DEF HandleCreateExisting, Store
  <2>3. bj'.status = bj.status /\ bj'.runAt = clock
    BY <1>w, <2>2
  <2>4. bj' \in BuildJobs
    <3>1. CASE bj' = NoJob
      <4>1. DOMAIN bj = {"uid", "gen", "spec", "runAt", "status"}
        BY <2>2 DEF BuildJobs
      <4>2. DOMAIN WithSpec(bj, sp) = DOMAIN bj
        BY DEF WithSpec
      <4>3. DOMAIN bj' = DOMAIN bj
        BY <2>2, <4>2
      <4> QED
        BY <3>1, <4>1, <4>3 DEF NoJob
    <3> QED
      BY <1>0, <3>1
  <2>5. Edited
    BY <2>2, <2>3, <2>4 DEF Edited
  <2> QED
    BY <1>1, <1>s, <2>1, <2>5
<1>4. CASE HandleRun \/ AnnotateRunAt
  <2>1. bj \in BuildJobs /\ Store([bj EXCEPT !.runAt = clock])
    BY <1>0, <1>4 DEF HandleRun, AnnotateRunAt
  <2>2. bj' = [bj EXCEPT !.runAt = clock]
    BY <2>1 DEF Store
  <2>3. bj' \in BuildJobs
    <3>1. clock \in Times
      BY BoundsAssumption DEF TypeInv, TypeOK, Times
    <3> QED
      BY <2>1, <2>2, <3>1 DEF BuildJobs
  <2>4. Edited
    BY <1>a, <2>1, <2>2, <2>3 DEF Edited
  <2> QED
    BY <1>1, <1>s, <2>1, <2>4
<1>5. CASE PatchSpec
  <2>1. PICK sp \in Specs : Store(WithSpec(bj, sp))
    BY <1>5 DEF PatchSpec
  <2>2. bj \in BuildJobs /\ bj' = WithSpec(bj, sp)
    BY <1>0, <1>5, <2>1 DEF PatchSpec, Store
  <2>3. bj'.status = bj.status /\ bj'.runAt = bj.runAt
    BY <1>w, <2>2
  <2>4. bj' \in BuildJobs
    <3>1. DOMAIN bj' = {"uid", "gen", "spec", "runAt", "status"}
      BY <2>2 DEF WithSpec, BuildJobs
    <3> QED
      BY <1>0, <3>1 DEF NoJob
  <2>5. Edited
    BY <2>2, <2>3, <2>4 DEF Edited
  <2> QED
    BY <1>1, <1>s, <2>1, <2>5
<1>6. CASE HandleDelete
  <2>1. Deleted
    BY <1>0, <1>6 DEF HandleDelete, Store, Deleted
  <2> QED
    BY <1>1, <1>6, <1>s, <2>1 DEF HandleDelete
<1> QED
  BY <1>2, <1>3, <1>4, <1>5, <1>6 DEF User

(* A job that is due stays so when it is edited: run-at takes a second     *)
(* that no run was recorded for.                                           *)
LEMMA EditedStaysDue ==
    ASSUME TypeInv, InOrder, Edited, NeedsNewRun(bj)
    PROVE  NeedsNewRun(bj')
<1>1. clock \in Nat /\ clock > 0
  BY BoundsAssumption DEF TypeInv, TypeOK
<1>2. bj # NoJob
  BY NoJobIsNoBuildJob DEF Edited
<1>3. /\ bj.runAt \in Nat /\ bj.status.lastRunAt \in Nat
      /\ bj.status.lastRunAt <= bj.runAt /\ bj.runAt <= clock
  BY <1>2, BoundsAssumption DEF Edited, BuildJobs, StatusType, Times, InOrder
<1> QED
  BY <1>1, <1>3 DEF NeedsNewRun, Edited

(* A new job is due. *)
LEMMA CreatedIsDue ==
    ASSUME Created
    PROVE  NeedsNewRun(bj')
<1>1. EmptyStatus.current = 0
  BY DEF EmptyStatus
<1> QED
  BY <1>1 DEF Created, NeedsNewRun

(* The users. *)
LEMMA UserTrigger ==
    ASSUME TypeInv, TriggerInv, User
    PROVE  TriggerInv'
<1>0. InOrder /\ Decided /\ Written /\ UserStep
  BY UserWrites DEF TriggerInv
<1>1. Decided' /\ Written'
  BY <1>0 DEF UserStep, Decided, Written, Serving, NeedsNewRun
<1>2. clock \in Nat /\ clock' = clock
  BY <1>0, BoundsAssumption DEF TypeInv, TypeOK, UserStep
<1>3. InOrder'
  <2>1. CASE bj' = bj
    BY <1>0, <1>2, <2>1 DEF InOrder
  <2>2. CASE Created
    <3>1. EmptyStatus.lastRunAt = 0
      BY DEF EmptyStatus
    <3> QED
      BY <1>2, <2>2, <3>1 DEF Created, InOrder
  <2>3. CASE Deleted
    BY <2>3 DEF Deleted, InOrder
  <2>4. CASE Edited
    <3>1. bj.runAt \in Nat /\ bj.status.lastRunAt \in Nat /\ bj # NoJob
      BY <2>4, NoJobIsNoBuildJob, BoundsAssumption DEF Edited, BuildJobs, StatusType, Times
    <3> QED
      BY <1>0, <1>2, <2>4, <3>1 DEF Edited, InOrder
  <2> QED
    BY <2>1, <2>2, <2>3, <2>4, UserWrites
<1> QED
  BY <1>1, <1>3 DEF TriggerInv

(* Tekton, the garbage collector, the informer and the clock. *)
LEMMA EnvironmentKeeps ==
    ASSUME TypeInv, Environment
    PROVE  UNCHANGED <<bj, worker>> /\ clock <= clock'
<1>0. clock \in Int
  BY DEF TypeInv, TypeOK
<1>1. ASSUME NEW n \in Runs, TektonStarts(n) \/ TektonEnds(n) \/ Prune(n) \/ Collect(n)
      PROVE  UNCHANGED <<bj, worker, clock>>
  BY <1>1 DEF TektonStarts, TektonEnds, Prune, Collect, RunEvent
<1>2. CASE CacheSync \/ FlipPVC \/ Resync
  BY <1>0, <1>2 DEF CacheSync, FlipPVC, Resync, store
<1>3. CASE Tick
  BY <1>0, <1>3 DEF Tick
<1> QED
  BY <1>0, <1>1, <1>2, <1>3 DEF Environment

LEMMA EnvironmentTrigger ==
    ASSUME TypeInv, TriggerInv, Environment
    PROVE  TriggerInv'
<1>1. Decided' /\ Written'
  BY EnvironmentKeeps DEF TriggerInv, Decided, Written, Serving, NeedsNewRun, worker
<1>2. InOrder'
  <2> SUFFICES ASSUME bj # NoJob PROVE bj.status.lastRunAt <= bj.runAt /\ bj.runAt <= clock'
    BY EnvironmentKeeps DEF InOrder
  <2>1. clock \in Int /\ bj \in BuildJobs
    BY DEF TypeInv, TypeOK
  <2>2. clock' \in Int
    BY EnvironmentTypeInv DEF TypeInv, TypeOK
  <2>3. bj.runAt \in Int
    BY <2>1, BoundsAssumption DEF BuildJobs, Times
  <2> QED
    BY <2>1, <2>2, <2>3, EnvironmentKeeps DEF TriggerInv, InOrder
<1> QED
  BY <1>1, <1>2 DEF TriggerInv

(* In every behaviour triggers are in order, and what is written is what   *)
(* was decided.                                                            *)
THEOREM TriggerInvariance == Spec => []TriggerInv
<1>1. Init => TriggerInv
  BY DEF Init, TriggerInv, InOrder, Decided, Written
<1>2. TypeInv /\ TriggerInv /\ [Next]_vars => TriggerInv'
  <2> SUFFICES ASSUME TypeInv, TriggerInv, [Next]_vars PROVE TriggerInv'
    OBVIOUS
  <2>1. CASE UNCHANGED vars
    BY <2>1 DEF vars, TriggerInv, InOrder, Decided, Written, Serving, NeedsNewRun
  <2> QED
    BY <2>1, ReconcileTrigger, FaultTrigger, UserTrigger, EnvironmentTrigger DEF Next
<1> QED
  BY <1>1, <1>2, TypeInvariance, PTL DEF Spec

-----------------------------------------------------------------------------
(* A rejected BuildJob stays due. *)

(* Whatever else happens, the trigger of a BuildJob that was rejected (its *)
(* source PVC is missing, its spec is wrong) is not lost: LastRunAt is not *)
(* written, and the next reconcile tries again.                            *)
THEOREM RejectedIsDue == Spec => []RejectedStaysDue
<1>1. Init => RejectedStaysDue
  BY DEF Init, RejectedStaysDue
<1>2. TypeInv /\ TriggerInv /\ RejectedStaysDue /\ [Next]_vars => RejectedStaysDue'
  <2> SUFFICES ASSUME TypeInv, TriggerInv, RejectedStaysDue, [Next]_vars
               PROVE  RejectedStaysDue'
    OBVIOUS
  <2>0. CASE bj' = bj
    BY <2>0 DEF RejectedStaysDue, NeedsNewRun
  <2>1. CASE WriteStatus
    <3>1. bj = copy /\ copy \in BuildJobs /\ next \in StatusType
      BY <2>1 DEF WriteStatus, TypeInv, WorkerOK, TypeOK, TriggerInv, Written
    <3>2. bj' = [copy EXCEPT !.status = next]
      BY <2>1, <3>1 DEF WriteStatus
    <3>3. bj'.status = next
      BY <3>1, <3>2, DueAfterStatus
    <3>4. CASE next.phase = "Failed" /\ next.reason \in Rejections
      <4>1. /\ NeedsNewRun(copy)
            /\ next.current = copy.status.current /\ next.lastRunAt = copy.status.lastRunAt
        BY <2>1, <3>4 DEF WriteStatus, TriggerInv, Written
      <4>2. NeedsNewRun(bj')
        BY <3>1, <3>2, <4>1, DueAfterStatus
      <4> QED
        BY <4>2 DEF RejectedStaysDue, NeedsNewRun
    <3> QED
      BY <3>3, <3>4 DEF RejectedStaysDue, Rejections
  <2>2. CASE User
    <3>1. CASE Created
      <4>1. EmptyStatus.phase = ""
        BY DEF EmptyStatus
      <4> QED
        BY <3>1, <4>1 DEF Created, RejectedStaysDue
    <3>2. CASE Deleted
      BY <3>2 DEF Deleted, RejectedStaysDue
    <3>3. CASE Edited
      <4>1. bj # NoJob /\ bj'.status = bj.status
        BY <3>3, NoJobIsNoBuildJob DEF Edited
      <4>2. NeedsNewRun(bj) => NeedsNewRun(bj')
        BY <3>3, EditedStaysDue DEF TriggerInv
      <4> QED
        BY <4>1, <4>2 DEF RejectedStaysDue, NeedsNewRun
    <3> QED
      BY <2>0, <2>2, <3>1, <3>2, <3>3, UserWrites
  <2>3. CASE Reconcile /\ ~WriteStatus
    BY <2>0, <2>3 DEF Reconcile, ReconcileStart, FetchRun, FindActive, Prepare, CreateRun, WriteRefused, store
  <2>4. CASE Fault
    BY <2>0, <2>4 DEF Fault, FindFails, RequestFails, WriteFails, Restart, store
  <2>5. CASE Environment
    BY <2>0, <2>5, EnvironmentKeeps
  <2>6. CASE UNCHANGED vars
    BY <2>0, <2>6 DEF vars
  <2> QED
    BY <2>1, <2>2, <2>3, <2>4, <2>5, <2>6 DEF Next
<1> QED
  BY <1>1, <1>2, TypeInvariance, TriggerInvariance, PTL DEF Spec

-----------------------------------------------------------------------------
(* The refinement.  With reads of the current BuildJob a reconcile only    *)
(* looks for, or creates, a run for a trigger that is still waiting.       *)

StillDue ==
    pc \in {"find", "prepare", "create"} => bj = NoJob \/ NeedsNewRun(bj)

QuietInv == StillDue /\ budget["stale"] = 0

(* No step gives back a budget. *)
LEMMA NoStaleRead ==
    ASSUME TypeInv, budget["stale"] = 0, [Next]_vars
    PROVE  budget'["stale"] = 0 /\ (ReconcileStart => cacheFresh)
<1>0. budget \in [Events -> Nat] /\ "stale" \in Events
  BY DEF TypeInv, TypeOK, Events
<1>1. ASSUME NEW e \in Events, Spend(e) PROVE e # "stale" /\ budget'["stale"] = 0
  BY <1>0, <1>1 DEF Spend
<1>2. budget'["stale"] = 0
  BY <1>1, StepsSpend
<1>3. ReconcileStart => cacheFresh
  BY <1>0, <1>1 DEF ReconcileStart
<1> QED
  BY <1>2, <1>3

LEMMA QuietStep ==
    ASSUME TypeInv, TriggerInv, QuietInv, [Next]_vars
    PROVE  QuietInv'
<1>1. budget'["stale"] = 0
  BY NoStaleRead DEF QuietInv
<1>2. StillDue'
  <2> SUFFICES ASSUME pc' \in {"find", "prepare", "create"} PROVE bj' = NoJob \/ NeedsNewRun(bj')
    BY DEF StillDue, NeedsNewRun
  <2>1. CASE Reconcile
    <3>1. bj' = bj
      BY <2>1 DEF Reconcile, ReconcileStart, FetchRun, FindActive, Prepare, CreateRun,
                  WriteStatus, WriteRefused, Finish, store
    <3>2. CASE ReconcileStart
      <4>1. cacheFresh /\ cached = bj
        BY <3>2, NoStaleRead DEF QuietInv, TypeInv, CacheOK
      <4> QED
        BY <3>1, <3>2, <4>1 DEF ReconcileStart, worker
    <3>3. CASE ~ReconcileStart
      <4>1. pc \in {"find", "prepare"}
        BY <2>1, <3>3 DEF Reconcile, FetchRun, FindActive, Prepare, CreateRun,
                          WriteStatus, WriteRefused, Finish, Intend
      <4> QED
        BY <3>1, <4>1 DEF QuietInv, StillDue, NeedsNewRun
    <3> QED
      BY <3>2, <3>3
  <2>2. CASE Fault
    <3>1. pc = "find" /\ bj' = bj
      BY <2>2 DEF Fault, FindFails, RequestFails, WriteFails, Restart, Finish, store
    <3> QED
      BY <3>1 DEF QuietInv, StillDue, NeedsNewRun
  <2>3. CASE User
    <3>1. pc' = pc
      BY <2>3, UserWrites DEF UserStep
    <3>2. bj = NoJob \/ NeedsNewRun(bj)
      BY <3>1 DEF QuietInv, StillDue
    <3>3. CASE Edited
      <4>1. NeedsNewRun(bj)
        BY <3>2, <3>3, NoJobIsNoBuildJob DEF Edited
      <4> QED
        BY <3>3, <4>1, EditedStaysDue DEF TriggerInv
    <3> QED
      BY <2>3, <3>2, <3>3, UserWrites, CreatedIsDue DEF Deleted, NeedsNewRun
  <2>4. CASE Environment
    BY <2>4, EnvironmentKeeps DEF worker, QuietInv, StillDue, NeedsNewRun
  <2>5. CASE UNCHANGED vars
    BY <2>5 DEF vars, QuietInv, StillDue, NeedsNewRun
  <2> QED
    BY <2>1, <2>2, <2>3, <2>4, <2>5 DEF Next
<1> QED
  BY <1>1, <1>2 DEF QuietInv

(* Nothing is about to be shown unless a current status is being written. *)
LEMMA NotReady ==
    ASSUME ~(pc = "write" /\ copyFresh)
    PROVE  ReadyReport = Contract!NoReport
  BY DEF ReadyReport, Contract!NoReport

LEMMA NotReadyNext ==
    ASSUME ~(pc' = "write" /\ copyFresh')
    PROVE  ReadyReport' = Contract!NoReport
  BY DEF ReadyReport, Contract!NoReport

(* A step that keeps the BuildJob, the runs and the report is a stutter. *)
LEMMA Stutters ==
    ASSUME bj' = bj, pr' = pr, ReadyReport' = ReadyReport
    PROVE  UNCHANGED Contract!contractVars
  BY DEF Contract!contractVars, Existing, NeedsNewRun

(* The runs the contract calls in progress. *)
LEMMA InProgressIsActive ==
    ASSUME TypeInv
    PROVE  Contract!InProgress = ActiveRuns
  BY DEF Contract!InProgress, Contract!Unfinished, ActiveRuns, Active, Terminated, Existing,
         TypeInv, TypeOK, RunRecords, RunStates

(* What is ready next, when a current status is to be written. *)
LEMMA ReadyNext ==
    ASSUME pc' = "write", copyFresh' = TRUE
    PROVE  ReadyReport' = [run |-> next'.current, phase |-> next'.phase,
                           serves |-> intent' \in {"adopt", "created"}]
  BY DEF ReadyReport

LEMMA ReadyNotServing ==
    ASSUME pc' = "write", copyFresh' = TRUE, intent' \notin {"adopt", "created"}
    PROVE  ReadyReport' = [run |-> next'.current, phase |-> next'.phase, serves |-> FALSE]
<1>1. (intent' \in {"adopt", "created"}) = FALSE
  OBVIOUS
<1> QED
  BY <1>1, ReadyNext

LEMMA ReadyServing ==
    ASSUME pc' = "write", copyFresh' = TRUE, intent' \in {"adopt", "created"}
    PROVE  ReadyReport' = [run |-> next'.current, phase |-> next'.phase, serves |-> TRUE]
<1>1. (intent' \in {"adopt", "created"}) = TRUE
  OBVIOUS
<1> QED
  BY <1>1, ReadyNext

(* The phase of a run is the phase of its state. *)
LEMMA PhaseOfBuild ==
    ASSUME NEW n \in Runs
    PROVE  Contract!PhaseOfState([m \in Runs |-> pr[m].state][n]) = PhaseOf(pr[n])
  BY DEF Contract!PhaseOfState, PhaseOf

LEMMA Observes ==
    ASSUME bj # NoJob, ~NeedsNewRun(bj), bj' = bj, pr' = pr, bj.status.current \in Runs,
           ReadyReport = Contract!NoReport,
           ReadyReport' = [run |-> bj.status.current,
                           phase |-> IF pr[bj.status.current].exists
                                       THEN PhaseOf(pr[bj.status.current]) ELSE "Failed",
                           serves |-> FALSE]
    PROVE  Contract!Observe
<1> DEFINE n == bj.status.current
           ph == IF pr[n].exists THEN PhaseOf(pr[n]) ELSE "Failed"
           sh == IF bj = NoJob THEN [run |-> 0, phase |-> ""] ELSE [run |-> n, phase |-> bj.status.phase]
<1>1. sh.run = n
  OBVIOUS
<1>2. ph = IF sh.run \in Existing
             THEN Contract!PhaseOfState([m \in Runs |-> pr[m].state][sh.run]) ELSE "Failed"
  BY <1>1, PhaseOfBuild DEF Existing
<1>3. ReadyReport' = [run |-> n, phase |-> ph, serves |-> FALSE]
  OBVIOUS
<1>4. ReadyReport' =
        [run |-> sh.run, serves |-> FALSE,
         phase |-> IF sh.run \in Existing
                     THEN Contract!PhaseOfState([m \in Runs |-> pr[m].state][sh.run]) ELSE "Failed"]
  <2> HIDE DEF n, ph, sh
  <2> QED
    BY <1>1, <1>2, <1>3
<1> QED
  BY <1>4 DEF Contract!Observe, Existing, NeedsNewRun

LEMMA Rejects ==
    ASSUME bj # NoJob, NeedsNewRun(bj), bj' = bj, pr' = pr,
           ReadyReport = Contract!NoReport, Contract!InProgress = {},
           ReadyReport' = [run |-> bj.status.current, phase |-> "Failed", serves |-> FALSE]
    PROVE  Contract!Reject
  BY DEF Contract!Reject, Existing, NeedsNewRun

LEMMA Begins ==
    ASSUME NEW n \in Runs, NEW r, r.state = "pending", r.exists = TRUE,
           pr \in [Runs -> RunRecords], ~pr[n].exists, pr' = [pr EXCEPT ![n] = r],
           bj' = bj, bj # NoJob => NeedsNewRun(bj),
           ReadyReport = Contract!NoReport, Contract!InProgress = {},
           \/ bj # NoJob /\ ReadyReport' = [run |-> n, phase |-> "Pending", serves |-> TRUE]
           \/ ReadyReport' = ReadyReport
    PROVE  Contract!Begin(n)
<1>1. [m \in Runs |-> pr[m].state]' = [[m \in Runs |-> pr[m].state] EXCEPT ![n] = "pending"]
  OBVIOUS
<1>2. Existing' = Existing \cup {n} /\ n \notin Existing
  BY DEF Existing
<1> QED
  BY <1>1, <1>2 DEF Contract!Begin, NeedsNewRun

(* A reconcile that gets ready to write a status reads the build, adopts   *)
(* it, starts it, or rejects the trigger.                                  *)
LEMMA PreparesReport ==
    ASSUME TypeInv, TriggerInv, SingleInv, QuietInv,
           FetchRun \/ FindActive \/ Prepare \/ CreateRun
    PROVE  Contract!ContractNext \/ UNCHANGED Contract!contractVars
<1>0. pr \in [Runs -> RunRecords] /\ copy \in BuildJobs
  BY DEF TypeInv, TypeOK, WorkerOK, FetchRun, FindActive, Prepare, CreateRun
<1>1. pc # "write" /\ ReadyReport = Contract!NoReport /\ bj' = bj
  BY NotReady DEF FetchRun, FindActive, Prepare, CreateRun, store
<1>s. ASSUME pr' = pr, ~(pc' = "write" /\ copyFresh') PROVE UNCHANGED Contract!contractVars
  BY <1>1, <1>s, NotReadyNext, Stutters
<1>f. copyFresh => bj = copy /\ bj # NoJob
  BY <1>0, NoJobIsNoBuildJob DEF TypeInv, WorkerOK
<1>2. CASE FetchRun
  <2> DEFINE n == copy.status.current
  <2>1. n \in Runs /\ ~NeedsNewRun(copy) /\ pr' = pr /\ copyFresh' = copyFresh
    BY <1>2 DEF FetchRun, TypeInv, WorkerOK, TriggerInv, Decided, store
  <2>2. CASE copyFresh
    <3>1. /\ pc' = "write" /\ intent' \in {"sync", "missing"} /\ next'.current = n
          /\ next'.phase = IF pr[n].exists THEN PhaseOf(pr[n]) ELSE "Failed"
      <4>1. CASE pr[n].exists
        <5>1. next' = SyncStatus(copy, n, pr[n], clock) /\ intent' = "sync" /\ pc' = "write"
          BY <1>2, <4>1 DEF FetchRun, Intend
        <5>2. pr[n] \in RunRecords
          BY <1>0, <2>1
        <5> QED
          BY <1>0, <4>1, <5>1, <5>2, SyncFields
      <4>2. CASE ~pr[n].exists
        <5>1. /\ next' = FailedStatus(copy, "PipelineRunNotFound", clock)
              /\ intent' = "missing" /\ pc' = "write"
          BY <1>2, <4>2 DEF FetchRun, Intend
        <5> QED
          BY <1>0, <4>2, <5>1, FailedFields
      <4> QED
        BY <4>1, <4>2
    <3>2. ReadyReport' = [run |-> n, serves |-> FALSE,
                          phase |-> IF pr[n].exists THEN PhaseOf(pr[n]) ELSE "Failed"]
      <4> DEFINE ph == IF pr[n].exists THEN PhaseOf(pr[n]) ELSE "Failed"
      <4>1. next'.current = n /\ next'.phase = ph
        BY <3>1
      <4>2. ReadyReport' = [run |-> next'.current, phase |-> next'.phase, serves |-> FALSE]
        BY <2>1, <2>2, <3>1, ReadyNotServing
      <4> HIDE DEF n, ph
      <4> QED
        BY <4>1, <4>2 DEF ph
    <3>3. bj.status.current = n /\ bj # NoJob /\ ~NeedsNewRun(bj)
      BY <1>f, <2>1, <2>2
    <3>4. Contract!Observe
      BY <1>1, <2>1, <3>2, <3>3, Observes
    <3> QED
      BY <3>4 DEF Contract!ContractNext
  <2> QED
    BY <1>s, <2>1, <2>2
<1>3. CASE FindActive
  <2>1. NeedsNewRun(copy) /\ pr' = pr /\ copyFresh' = copyFresh
    BY <1>3 DEF FindActive, TriggerInv, Decided, store
  <2>2. CASE copyFresh /\ \E n \in ActiveRuns : Intend("adopt", n, AdoptStatus(copy, n, pr[n], clock))
    <3>1. PICK n \in ActiveRuns : Intend("adopt", n, AdoptStatus(copy, n, pr[n], clock))
      BY <2>2
    <3>2. n \in Runs /\ pr[n] \in RunRecords /\ Active(pr[n])
      BY <1>0 DEF ActiveRuns
    <3>3. next'.current = n /\ next'.phase = PhaseOf(pr[n]) /\ intent' = "adopt" /\ pc' = "write"
      BY <1>0, <3>1, <3>2, AdoptFields DEF Intend
    <3>4. ReadyReport' = [run |-> n, phase |-> PhaseOf(pr[n]), serves |-> TRUE]
      BY <2>1, <2>2, <3>3, ReadyServing
    <3>5. n \in Contract!InProgress
      BY InProgressIsActive
    <3>6. bj # NoJob /\ NeedsNewRun(bj)
      BY <1>f, <2>1, <2>2
    <3>7. Contract!Adopt(n)
      BY <1>1, <2>1, <3>2, <3>4, <3>5, <3>6
         DEF Contract!Adopt, Existing, PhaseOf, Contract!PhaseOfState, NeedsNewRun
    <3> QED
      BY <3>2, <3>7 DEF Contract!ContractNext
  <2> QED
    BY <1>3, <1>s, <2>1, <2>2 DEF FindActive
<1>4. CASE Prepare
  <2> DEFINE why == Rejection(copy, pvcs)
  <2>1. /\ NeedsNewRun(copy) /\ pr' = pr /\ copyFresh' = copyFresh /\ ActiveRuns = {}
    BY <1>4 DEF Prepare, TriggerInv, Decided, SingleInv, NoneFound
  <2>2. CASE copyFresh /\ why # ""
    <3>1. Intend("reject", 0, FailedStatus(copy, why, clock))
      BY <1>4, <2>2 DEF Prepare
    <3>2. /\ next'.current = copy.status.current /\ next'.phase = "Failed"
          /\ intent' = "reject" /\ pc' = "write"
      BY <1>0, <3>1, FailedFields DEF Intend
    <3>3. ReadyReport' = [run |-> copy.status.current, phase |-> "Failed", serves |-> FALSE]
      BY <2>1, <2>2, <3>2, ReadyNotServing
    <3>4. bj # NoJob /\ NeedsNewRun(bj) /\ bj = copy
      BY <1>f, <2>1, <2>2
    <3>5. Contract!InProgress = {}
      BY <2>1, InProgressIsActive
    <3>6. Contract!Reject
      BY <1>1, <2>1, <3>3, <3>4, <3>5, Rejects
    <3> QED
      BY <3>6 DEF Contract!ContractNext
  <2>3. CASE why = ""
    BY <1>4, <1>s, <2>1, <2>3 DEF Prepare
  <2> QED
    BY <1>s, <2>1, <2>2, <2>3
<1>5. CASE CreateRun
  <2>1. run \in Runs /\ NeedsNewRun(copy) /\ ActiveRuns = {}
    BY <1>5 DEF CreateRun, TypeInv, WorkerOK, TriggerInv, Decided, SingleInv, NoneFound
  <2>2. CASE pr[run].exists
    BY <1>5, <1>s, <2>2 DEF CreateRun, Finish
  <2>3. CASE ~pr[run].exists
    <3> DEFINE r == [exists |-> TRUE, state |-> "pending", uid |-> copy.uid, gen |-> copy.gen,
                     oci |-> copy.spec.oci = "on", git |-> copy.spec.source = "git",
                     runAt |-> copy.runAt]
    <3>1. /\ pr' = [pr EXCEPT ![run] = r]
          /\ Intend("created", run, CreatedStatus(copy, run, clock))
          /\ copyFresh' = copyFresh
      BY <1>5, <2>3 DEF CreateRun
    <3>2. /\ next'.current = run /\ next'.phase = "Pending"
          /\ intent' = "created" /\ pc' = "write"
      BY <1>0, <3>1, CreatedFields DEF Intend
    <3>3. \/ bj # NoJob /\ ReadyReport' = [run |-> run, phase |-> "Pending", serves |-> TRUE]
          \/ ReadyReport' = ReadyReport
      <4>1. CASE copyFresh
        BY <1>f, <3>1, <3>2, <4>1, ReadyServing
      <4>2. CASE ~copyFresh
        BY <1>1, <3>1, <4>2, NotReadyNext
      <4> QED
        BY <4>1, <4>2
    <3>4. bj # NoJob => NeedsNewRun(bj)
      BY <1>5 DEF CreateRun, QuietInv, StillDue
    <3>5. Contract!InProgress = {}
      BY <2>1, InProgressIsActive
    <3>6. r.state = "pending" /\ r.exists = TRUE
      OBVIOUS
    <3> HIDE DEF r
    <3>7. ASSUME NEW n \in Runs, n = run PROVE Contract!Begin(n)
      BY <1>0, <1>1, <2>3, <3>1, <3>3, <3>4, <3>5, <3>6, <3>7, Begins
    <3>8. \E n \in Runs : Contract!Begin(n)
      BY <2>1, <3>7
    <3> QED
      BY <3>8 DEF Contract!ContractNext
  <2> QED
    BY <2>2, <2>3
<1> QED
  BY <1>2, <1>3, <1>4, <1>5
(* A status update shows what was ready, and answers the trigger or not. *)
LEMMA Publishes ==
    ASSUME TypeInv, TriggerInv, WriteStatus
    PROVE  Contract!Publish
<1> DEFINE serves == intent \in {"adopt", "created"}
<1>1. bj = copy /\ copy \in BuildJobs /\ next \in StatusType /\ pc = "write" /\ copyFresh
  BY DEF WriteStatus, TypeInv, WorkerOK, TypeOK, TriggerInv, Written
<1>2. bj' = [copy EXCEPT !.status = next] /\ pr' = pr
  BY <1>1 DEF WriteStatus
<1>3. bj' \in BuildJobs /\ bj'.status = next
  BY <1>1, <1>2 DEF BuildJobs
<1>4. bj # NoJob /\ bj' # NoJob
  BY <1>1, <1>3, NoJobIsNoBuildJob
<1>5. ReadyReport = [run |-> next.current, phase |-> next.phase, serves |-> serves]
  BY <1>1 DEF ReadyReport
<1>6. ReadyReport' = Contract!NoReport
  BY NotReadyNext DEF WriteStatus, Finish
<1>7. ReadyReport # Contract!NoReport
  <2>1. next.phase # ""
    BY <1>1 DEF TriggerInv, Written
  <2>2. ReadyReport.phase = next.phase
    BY <1>5
  <2>3. Contract!NoReport.phase = ""
    BY DEF Contract!NoReport
  <2> QED
    BY <2>1, <2>2, <2>3
<1>8. NeedsNewRun(bj') <=> NeedsNewRun(bj) /\ ~serves
  <2>1. CASE serves
    <3>1. next.current \in Runs /\ next.lastRunAt = copy.runAt
      BY <1>1, <2>1 DEF TriggerInv, Written, Serving
    <3>2. next.current # 0
      BY <3>1, BoundsAssumption DEF Runs
    <3> QED
      BY <1>1, <1>2, <2>1, <3>1, <3>2, DueAfterStatus
  <2>2. CASE ~serves
    <3>1. next.current = copy.status.current /\ next.lastRunAt = copy.status.lastRunAt
      BY <1>1, <2>2 DEF TriggerInv, Written, Serving
    <3> QED
      BY <1>1, <1>2, <2>2, <3>1, DueAfterStatus
  <2> QED
    BY <2>1, <2>2
<1>9. ReadyReport.run = next.current /\ ReadyReport.phase = next.phase /\ ReadyReport.serves = serves
  BY <1>5
<1> HIDE DEF serves
<1> QED
  BY <1>2, <1>3, <1>4, <1>6, <1>7, <1>8, <1>9 DEF Contract!Publish, Existing, NeedsNewRun

(* A reconcile that ends without a write loses what was ready, if anything. *)
LEMMA Loses ==
    ASSUME bj' = bj, pr' = pr, pc' = "idle"
    PROVE  Contract!ContractNext \/ UNCHANGED Contract!contractVars
<1>1. ReadyReport' = Contract!NoReport
  BY NotReadyNext
<1>2. CASE ReadyReport = Contract!NoReport
  BY <1>1, <1>2, Stutters
<1>3. CASE ReadyReport # Contract!NoReport
  <2>1. Contract!Lose
    BY <1>1, <1>3 DEF Contract!Lose, Existing, NeedsNewRun
  <2> QED
    BY <2>1 DEF Contract!ContractNext
<1> QED
  BY <1>2, <1>3

(* Every step of the reconciler. *)
LEMMA ReconcileImplements ==
    ASSUME TypeInv, TriggerInv, SingleInv, QuietInv, Reconcile
    PROVE  Contract!ContractNext \/ UNCHANGED Contract!contractVars
<1>1. CASE ReconcileStart
  <2>1. bj' = bj /\ pr' = pr /\ pc = "idle" /\ pc' # "write"
    BY <1>1 DEF ReconcileStart, store, worker
  <2> QED
    BY <2>1, NotReady, NotReadyNext, Stutters
<1>2. CASE FetchRun \/ FindActive \/ Prepare \/ CreateRun
  BY <1>2, PreparesReport
<1>3. CASE WriteStatus
  BY <1>3, Publishes DEF Contract!ContractNext
<1>4. CASE WriteRefused
  BY <1>4, Loses DEF WriteRefused, Finish, store
<1> QED
  BY <1>1, <1>2, <1>3, <1>4 DEF Reconcile

(* Every fault but a List that fails, which there is not. *)
LEMMA FaultImplements ==
    ASSUME ~FindFails, Fault
    PROVE  Contract!ContractNext \/ UNCHANGED Contract!contractVars
  BY Loses DEF Fault, RequestFails, WriteFails, Restart, Finish, store

(* Every write of a user. *)
LEMMA UserImplements ==
    ASSUME TypeInv, TriggerInv, User
    PROVE  Contract!ContractNext \/ UNCHANGED Contract!contractVars
<1>0. UserStep
  BY UserWrites
<1>1. pr' = pr
  BY <1>0 DEF UserStep
<1>2. CASE bj' = bj /\ copyFresh' = copyFresh
  <2>1. ReadyReport' = ReadyReport
    BY <1>0, <1>2 DEF UserStep, ReadyReport
  <2> QED
    BY <1>1, <1>2, <2>1, Stutters
<1>3. CASE (Created \/ Deleted \/ Edited) /\ copyFresh' = FALSE
  <2>1. ReadyReport' = Contract!NoReport
    BY <1>3, NotReadyNext
  <2>2. CASE Created
    <3>1. bj = NoJob /\ bj' # NoJob /\ NeedsNewRun(bj')
      BY <2>2, NoJobIsNoBuildJob, CreatedIsDue DEF Created
    <3>2. bj'.status.current = 0 /\ bj'.status.phase = ""
      <4>1. EmptyStatus.current = 0 /\ EmptyStatus.phase = ""
        BY DEF EmptyStatus
      <4> QED
        BY <2>2, <4>1 DEF Created
    <3>3. Contract!Submit
      BY <1>1, <2>1, <3>1, <3>2 DEF Contract!Submit, Existing, NeedsNewRun
    <3> QED
      BY <3>3 DEF Contract!ContractNext
  <2>3. CASE Deleted
    <3>1. bj # NoJob /\ bj' = NoJob
      BY <2>3, NoJobIsNoBuildJob DEF Deleted
    <3>2. Contract!Remove
      BY <1>1, <2>1, <3>1 DEF Contract!Remove, Contract!Nothing, Existing, NeedsNewRun
    <3> QED
      BY <3>2 DEF Contract!ContractNext
  <2>4. CASE Edited
    <3>1. bj # NoJob /\ bj' # NoJob /\ bj'.status = bj.status
      BY <2>4, NoJobIsNoBuildJob DEF Edited
    <3>2. CASE NeedsNewRun(bj')
      <4>1. Contract!Request
        BY <1>1, <2>1, <3>1, <3>2 DEF Contract!Request, Existing, NeedsNewRun
      <4> QED
        BY <4>1 DEF Contract!ContractNext
    <3>3. CASE ~NeedsNewRun(bj')
      <4>1. ~NeedsNewRun(bj)
        BY <2>4, <3>3, EditedStaysDue DEF TriggerInv
      <4>2. Contract!Edit
        BY <1>1, <2>1, <3>1, <3>3, <4>1 DEF Contract!Edit, Existing, NeedsNewRun
      <4> QED
        BY <4>2 DEF Contract!ContractNext
    <3> QED
      BY <3>2, <3>3
  <2> QED
    BY <1>3, <2>2, <2>3, <2>4
<1> QED
  BY <1>2, <1>3, UserWrites

(* Every step of the environment. *)
LEMMA EnvironmentImplements ==
    ASSUME TypeInv, Environment
    PROVE  Contract!ContractNext \/ UNCHANGED Contract!contractVars
<1>0. pr \in [Runs -> RunRecords] /\ bj' = bj
  BY EnvironmentKeeps DEF TypeInv, TypeOK
<1>q. ReadyReport' = ReadyReport
  <2>1. UNCHANGED <<pc, next, intent>>
    BY EnvironmentKeeps DEF worker
  <2>2. copyFresh' = copyFresh
    BY EnvironmentKeeps DEF worker
  <2> QED
    BY <2>1, <2>2 DEF ReadyReport
<1>s. ASSUME NEW n \in Runs, NEW s, pr' = [pr EXCEPT ![n] = [pr[n] EXCEPT !.state = s]]
      PROVE  /\ [m \in Runs |-> pr[m].state]' = [[m \in Runs |-> pr[m].state] EXCEPT ![n] = s]
             /\ Existing' = Existing
  BY <1>0, <1>s DEF Existing, RunRecords
<1>d. ASSUME NEW n \in Runs, pr' = [pr EXCEPT ![n] = [pr[n] EXCEPT !.exists = FALSE]]
      PROVE  /\ [m \in Runs |-> pr[m].state]' = [m \in Runs |-> pr[m].state]
             /\ Existing' = Existing \ {n}
  BY <1>0, <1>d DEF Existing, RunRecords
<1>1. ASSUME NEW n \in Runs, TektonStarts(n) PROVE Contract!ContractNext
  <2>1. n \in Existing /\ pr[n].state = "pending"
    BY <1>1 DEF TektonStarts, Existing
  <2>2. pr' = [pr EXCEPT ![n] = [pr[n] EXCEPT !.state = "running"]]
    BY <1>1 DEF TektonStarts, RunEvent
  <2>3. Contract!Start(n)
    BY <1>0, <1>q, <1>s, <2>1, <2>2 DEF Contract!Start, NeedsNewRun
  <2> QED
    BY <2>3 DEF Contract!ContractNext
<1>2. ASSUME NEW n \in Runs, TektonEnds(n) PROVE Contract!ContractNext
  <2>1. PICK s \in {"succeeded", "failed"} : pr' = [pr EXCEPT ![n] = [pr[n] EXCEPT !.state = s]]
    BY <1>2 DEF TektonEnds, RunEvent
  <2>2. n \in Contract!InProgress
    BY <1>2, InProgressIsActive DEF TektonEnds, ActiveRuns
  <2>3. Contract!End(n, s)
    BY <1>0, <1>q, <1>s, <2>1, <2>2 DEF Contract!End, NeedsNewRun
  <2> QED
    BY <2>3 DEF Contract!ContractNext
<1>3. ASSUME NEW n \in Runs, Prune(n) \/ Collect(n) PROVE Contract!ContractNext
  <2>1. n \in Existing
    BY <1>3 DEF Prune, Collect, Existing
  <2>2. pr' = [pr EXCEPT ![n] = [pr[n] EXCEPT !.exists = FALSE]]
    BY <1>3 DEF Prune, Collect, RunEvent
  <2>3. Contract!Drop(n)
    BY <1>0, <1>d, <1>q, <2>1, <2>2 DEF Contract!Drop, NeedsNewRun
  <2> QED
    BY <2>3 DEF Contract!ContractNext
<1>4. CASE CacheSync \/ FlipPVC \/ Tick \/ Resync
  <2>1. pr' = pr
    BY <1>4 DEF CacheSync, FlipPVC, Tick, Resync, store
  <2> QED
    BY <1>0, <1>q, <2>1, Stutters
<1> QED
  BY <1>1, <1>2, <1>3, <1>4 DEF Environment

(* With reads of the current BuildJob and Lists that do not fail, every    *)
(* behaviour of the reconciler, its users, Tekton and the faults is one of *)
(* BuildContract: whatever is created, edited, deleted, pruned, refused or *)
(* crashed in between, a trigger is answered only with a run in progress   *)
(* since, no second run is started beside one, and no trigger is dropped.  *)
THEOREM ControllerImplementsContract ==
    ASSUME MaxListErrors = 0, MaxStaleReads = 0
    PROVE  Spec => ImplementsContract
<1>1. Init => Contract!ContractInit
  BY NotReady DEF Init, Contract!ContractInit, Contract!Nothing, Existing, NoRun
<1>2. Init => QuietInv
  BY DEF Init, QuietInv, StillDue
<1>3. TypeInv /\ TriggerInv /\ SingleInv /\ QuietInv /\ [Next]_vars
        => [Contract!ContractNext]_(Contract!contractVars)
  <2> SUFFICES ASSUME TypeInv, TriggerInv, SingleInv, QuietInv, [Next]_vars
               PROVE  Contract!ContractNext \/ UNCHANGED Contract!contractVars
    OBVIOUS
  <2>1. ~FindFails
    BY NoListFails DEF SingleInv
  <2>2. CASE UNCHANGED vars
    <3>1. ReadyReport' = ReadyReport
      BY <2>2 DEF vars, ReadyReport
    <3> QED
      BY <2>2, <3>1, Stutters DEF vars
  <2> QED
    BY <2>1, <2>2, ReconcileImplements, FaultImplements, UserImplements, EnvironmentImplements
       DEF Next
<1>4. Spec => []SingleInv
  BY SingleInvariance
<1> QED
  BY <1>1, <1>2, <1>3, <1>4, QuietStep, TypeInvariance, TriggerInvariance, PTL
     DEF Spec, ImplementsContract, Contract!ContractSpec

-----------------------------------------------------------------------------
(* An outdated read is outdated by one status update at most: the worker's *)
(* next one would be refused.  So when the stored status is an outcome     *)
(* that serves the trigger, the informer's copy and the worker's, old as   *)
(* they may be, do not ask for a run, and none is created whose number the *)
(* status already holds.                                                   *)

Over(phase) == phase \in {"Succeeded", "Failed"}

SettledSeen ==
    bj # NoJob /\ ~NeedsNewRun(bj) /\ Over(bj.status.phase) =>
        /\ cached # NoJob => ~NeedsNewRun(cached)
        /\ pc # "idle" => ~NeedsNewRun(copy)

CopyIsCached == copyFresh => cached = copy

SettledInv == SettledSeen /\ CopyIsCached

(* The steps of the worker that write nothing. *)
LEMMA WorkerKeepsSettled ==
    ASSUME TypeInv, SettledInv, UNCHANGED <<bj, cached>>,
           \/ UNCHANGED <<copy, copyFresh>> /\ pc # "idle"
           \/ pc' = "idle" /\ ~copyFresh'
           \/ ReconcileStart
    PROVE  SettledInv'
<1>1. CASE UNCHANGED <<copy, copyFresh>> /\ pc # "idle"
  BY <1>1 DEF SettledInv, SettledSeen, CopyIsCached, NeedsNewRun
<1>2. CASE pc' = "idle" /\ ~copyFresh'
  BY <1>2 DEF SettledInv, SettledSeen, CopyIsCached, NeedsNewRun
<1>3. CASE ReconcileStart
  <2>1. ~copyFresh
    BY <1>3 DEF ReconcileStart, TypeInv, WorkerOK
  <2>2. CASE cached = NoJob
    BY <1>3, <2>1, <2>2 DEF ReconcileStart, worker, SettledInv, SettledSeen, CopyIsCached, NeedsNewRun
  <2>3. CASE cached # NoJob
    BY <1>3, <2>1, <2>3 DEF ReconcileStart, SettledInv, SettledSeen, CopyIsCached, NeedsNewRun
  <2> QED
    BY <2>2, <2>3
<1> QED
  BY <1>1, <1>2, <1>3

LEMMA SettledStep ==
    ASSUME TypeInv, TriggerInv, SettledInv, [Next]_vars
    PROVE  SettledInv'
<1>0. SettledSeen /\ CopyIsCached
  BY DEF SettledInv
<1>1. CASE WriteStatus
  <2>1. /\ bj = copy /\ cached = copy /\ copy \in BuildJobs /\ next \in StatusType
        /\ pc = "write" /\ pc' = "idle" /\ ~copyFresh' /\ cached' = cached
    BY <1>0, <1>1 DEF WriteStatus, Finish, CopyIsCached, TypeInv, WorkerOK, TypeOK
  <2>2. bj' = [copy EXCEPT !.status = next] /\ bj'.status = next
    BY <1>1, <2>1, DueAfterStatus DEF WriteStatus
  <2>3. ASSUME ~NeedsNewRun(bj'), Over(bj'.status.phase) PROVE ~NeedsNewRun(cached')
    <3>1. ~Serving
      BY <2>1, <2>2, <2>3 DEF TriggerInv, Written, Over
    <3>2. next.current = copy.status.current /\ next.lastRunAt = copy.status.lastRunAt
      BY <2>1, <3>1 DEF TriggerInv, Written
    <3> QED
      BY <2>1, <2>2, <2>3, <3>2, DueAfterStatus
  <2> QED
    BY <2>1, <2>3 DEF SettledInv, SettledSeen, CopyIsCached, NeedsNewRun, Over
<1>2. CASE Reconcile /\ ~WriteStatus
  <2>1. UNCHANGED <<bj, cached>>
    BY <1>2 DEF Reconcile, ReconcileStart, FetchRun, FindActive, Prepare, CreateRun, WriteRefused, store
  <2>2. \/ UNCHANGED <<copy, copyFresh>> /\ pc # "idle"
        \/ pc' = "idle" /\ ~copyFresh'
        \/ ReconcileStart
    BY <1>2 DEF Reconcile, FetchRun, FindActive, Prepare, CreateRun, WriteRefused, Finish
  <2> QED
    BY <2>1, <2>2, WorkerKeepsSettled
<1>3. CASE Fault
  <2>1. CASE Restart
    BY <2>1 DEF Restart, store, SettledInv, SettledSeen, CopyIsCached, NeedsNewRun, Over
  <2>2. CASE FindFails \/ RequestFails \/ WriteFails
    <3>1. UNCHANGED <<bj, cached>>
      BY <2>2 DEF FindFails, RequestFails, WriteFails, store
    <3>2. \/ UNCHANGED <<copy, copyFresh>> /\ pc # "idle"
          \/ pc' = "idle" /\ ~copyFresh'
      BY <2>2 DEF FindFails, RequestFails, WriteFails, Finish
    <3> QED
      BY <3>1, <3>2, WorkerKeepsSettled
  <2> QED
    BY <1>3, <2>1, <2>2 DEF Fault
<1>4. CASE User
  <2>1. UNCHANGED <<cached, copy, pc>> /\ (copyFresh' => copyFresh)
    <3>1. UNCHANGED <<cached, copy, pc>>
      BY <1>4, UserWrites DEF UserStep
    <3>2. copyFresh' = copyFresh \/ copyFresh' = FALSE
      BY <1>4, UserWrites
    <3> QED
      BY <3>1, <3>2
  <2>2. CASE bj' = bj
    BY <1>0, <2>1, <2>2 DEF SettledInv, SettledSeen, CopyIsCached, NeedsNewRun
  <2>3. CASE Created
    BY <1>0, <2>1, <2>3, CreatedIsDue DEF SettledInv, SettledSeen, CopyIsCached, NeedsNewRun
  <2>4. CASE Deleted
    BY <1>0, <2>1, <2>4 DEF Deleted, SettledInv, SettledSeen, CopyIsCached
  <2>5. CASE Edited
    <3>1. bj # NoJob /\ bj'.status = bj.status /\ (NeedsNewRun(bj) => NeedsNewRun(bj'))
      BY <2>5, NoJobIsNoBuildJob, EditedStaysDue DEF Edited, TriggerInv
    <3> QED
      BY <1>0, <2>1, <3>1 DEF SettledInv, SettledSeen, CopyIsCached, NeedsNewRun
  <2> QED
    BY <1>4, <2>2, <2>3, <2>4, <2>5, UserWrites
<1>5. CASE Environment
  <2>1. UNCHANGED <<bj, copy, copyFresh, pc>>
    BY <1>5, EnvironmentKeeps DEF worker
  <2>2. cached' = bj \/ cached' = cached
    BY <1>5 DEF Environment, TektonStarts, TektonEnds, Prune, Collect, RunEvent, CacheSync,
                FlipPVC, Tick, Resync
  <2>3. copyFresh => bj = copy
    BY DEF TypeInv, WorkerOK
  <2> QED
    BY <1>0, <2>1, <2>2, <2>3 DEF SettledInv, SettledSeen, CopyIsCached, NeedsNewRun
<1>6. CASE UNCHANGED vars
  BY <1>0, <1>6 DEF vars, SettledInv, SettledSeen, CopyIsCached, NeedsNewRun
<1> QED
  BY <1>1, <1>2, <1>3, <1>4, <1>5, <1>6 DEF Next

(* In every behaviour, outdated reads or not. *)
THEOREM SettledInvariance == Spec => []SettledInv
<1>1. Init => SettledInv
  BY DEF Init, SettledInv, SettledSeen, CopyIsCached
<1> QED
  BY <1>1, SettledStep, TypeInvariance, TriggerInvariance, PTL DEF Spec

(* So no run is created while an outcome is shown that serves the trigger. *)
LEMMA NoCreateWhenSettled ==
    ASSUME TriggerInv, SettledInv, bj # NoJob, ~NeedsNewRun(bj), Over(bj.status.phase)
    PROVE  ~CreateRun
  BY DEF CreateRun, TriggerInv, Decided, SettledInv, SettledSeen

-----------------------------------------------------------------------------
(* What the status reports stays true. *)

OutcomeWritten ==
    pc = "write" =>
        /\ next.phase = "Succeeded" =>
               next.current \in Runs /\ pr[next.current].state = "succeeded"
        /\ next.phase = "Failed" /\ next.reason = "BuildFailed" =>
               next.current \in Runs /\ pr[next.current].state = "failed"

(* Only a Create changes the state of a run that ended. *)
LEMMA StatesStay ==
    ASSUME TypeInv, [Next]_vars, ~CreateRun, NEW n \in Runs, Terminated(pr[n])
    PROVE  pr'[n].state = pr[n].state
<1>0. pr \in [Runs -> RunRecords]
  BY DEF TypeInv, TypeOK
<1>1. CASE pr' = pr
  BY <1>1
<1>2. CASE Reconcile
  BY <1>1, <1>2
     DEF Reconcile, ReconcileStart, FetchRun, FindActive, Prepare, WriteStatus, WriteRefused, store
<1>3. CASE Fault
  BY <1>1, <1>3 DEF Fault, FindFails, RequestFails, WriteFails, Restart, store
<1>4. CASE User
  BY <1>1, <1>4, UserWrites DEF UserStep
<1>5. CASE Environment
  <2>1. ASSUME NEW m \in Runs, TektonStarts(m) PROVE pr'[n].state = pr[n].state
    BY <1>0, <2>1 DEF TektonStarts, RunEvent, Terminated, RunRecords
  <2>2. ASSUME NEW m \in Runs, TektonEnds(m) PROVE pr'[n].state = pr[n].state
    <3>1. PICK s : pr' = [pr EXCEPT ![m] = [pr[m] EXCEPT !.state = s]] /\ m # n
      BY <2>2 DEF TektonEnds, RunEvent, Active
    <3> QED
      BY <1>0, <3>1
  <2>3. ASSUME NEW m \in Runs, Prune(m) \/ Collect(m) PROVE pr'[n].state = pr[n].state
    BY <1>0, <2>3 DEF Prune, Collect, RunEvent, RunRecords
  <2>4. CASE CacheSync \/ FlipPVC \/ Tick \/ Resync
    BY <1>1, <2>4 DEF CacheSync, FlipPVC, Tick, Resync, store
  <2> QED
    BY <1>5, <2>1, <2>2, <2>3, <2>4 DEF Environment
<1>6. CASE UNCHANGED vars
  BY <1>1, <1>6 DEF vars
<1> QED
  BY <1>2, <1>3, <1>4, <1>5, <1>6 DEF Next

(* The reconciler writes an outcome only of a run it read. *)
LEMMA OutcomeWrittenStep ==
    ASSUME TypeInv, TriggerInv, OutcomeWritten, [Next]_vars
    PROVE  OutcomeWritten'
<1> SUFFICES ASSUME pc' = "write"
             PROVE  /\ next'.phase = "Succeeded" =>
                          next'.current \in Runs /\ pr'[next'.current].state = "succeeded"
                    /\ next'.phase = "Failed" /\ next'.reason = "BuildFailed" =>
                          next'.current \in Runs /\ pr'[next'.current].state = "failed"
  BY DEF OutcomeWritten
<1>0. pr \in [Runs -> RunRecords]
  BY DEF TypeInv, TypeOK
<1>1. CASE FetchRun
  <2> DEFINE n == copy.status.current
  <2>1. copy \in BuildJobs /\ n \in Runs /\ pr[n] \in RunRecords /\ pr' = pr
    BY <1>0, <1>1 DEF FetchRun, TypeInv, WorkerOK, store
  <2>2. CASE pr[n].exists
    <3>1. next' = SyncStatus(copy, n, pr[n], clock)
      BY <1>1, <2>2 DEF FetchRun, Intend
    <3>2. next'.current = n /\ next'.phase = PhaseOf(pr[n])
      BY <2>1, <3>1, SyncFields
    <3>3. /\ PhaseOf(pr[n]) = "Succeeded" => pr[n].state = "succeeded"
          /\ PhaseOf(pr[n]) = "Failed" => pr[n].state = "failed"
      BY <2>1 DEF PhaseOf, RunRecords, RunStates
    <3> QED
      BY <2>1, <3>2, <3>3
  <2>3. CASE ~pr[n].exists
    <3>1. next' = FailedStatus(copy, "PipelineRunNotFound", clock)
      BY <1>1, <2>3 DEF FetchRun, Intend
    <3>2. next'.phase = "Failed" /\ next'.reason = "PipelineRunNotFound"
      BY <2>1, <3>1, FailedFields
    <3> QED
      BY <3>2
  <2> QED
    BY <2>2, <2>3
<1>2. CASE FindActive
  <2>1. PICK n \in ActiveRuns : Intend("adopt", n, AdoptStatus(copy, n, pr[n], clock))
    BY <1>2 DEF FindActive
  <2>2. /\ copy \in BuildJobs /\ n \in Runs /\ pr[n] \in RunRecords /\ Active(pr[n])
        /\ next' = AdoptStatus(copy, n, pr[n], clock)
    BY <1>0, <1>2, <2>1 DEF ActiveRuns, FindActive, Intend, TypeInv, WorkerOK
  <2>3. next'.phase \in {"Pending", "Running"}
    BY <2>2, AdoptFields
  <2> QED
    BY <2>3
<1>3. CASE Prepare
  <2> DEFINE why == Rejection(copy, pvcs)
  <2>1. copy \in BuildJobs /\ next' = FailedStatus(copy, why, clock)
    BY <1>3 DEF Prepare, Intend, TypeInv, WorkerOK
  <2>2. why # "BuildFailed"
    BY DEF Rejection
  <2> HIDE DEF why
  <2>3. next'.phase = "Failed" /\ next'.reason = why
    BY <2>1, FailedFields
  <2> QED
    BY <2>2, <2>3
<1>4. CASE CreateRun
  <2>1. copy \in BuildJobs /\ next' = CreatedStatus(copy, run, clock)
    BY <1>4 DEF CreateRun, Finish, Intend, TypeInv, WorkerOK
  <2>2. next'.phase = "Pending"
    BY <2>1, CreatedFields
  <2> QED
    BY <2>2
<1>5. CASE pc = "write" /\ next' = next /\ ~CreateRun
  BY <1>5, StatesStay DEF OutcomeWritten, Terminated
<1>6. CASE Reconcile
  BY <1>1, <1>2, <1>3, <1>4, <1>6 DEF Reconcile, ReconcileStart, WriteStatus, WriteRefused, Finish, worker
<1>7. ~Fault
  BY DEF Fault, FindFails, RequestFails, WriteFails, Restart, Finish
<1>8. CASE User
  BY <1>4, <1>5, <1>8, UserWrites DEF UserStep
<1>9. CASE Environment
  BY <1>4, <1>5, <1>9, EnvironmentKeeps DEF worker
<1>10. CASE UNCHANGED vars
  BY <1>4, <1>5, <1>10 DEF vars
<1> QED
  BY <1>6, <1>7, <1>8, <1>9, <1>10 DEF Next

(* "Succeeded" is reported only of a run that succeeded and a build        *)
(* failure only of one that failed: also after the run was pruned, its     *)
(* number used again, the job re-created, or read from an outdated copy.   *)
THEOREM OutcomeIsReported == Spec => []ReportedOutcome
<1>1. Init => OutcomeWritten /\ ReportedOutcome
  BY DEF Init, OutcomeWritten, ReportedOutcome
<1>2. TypeInv /\ TriggerInv /\ SettledInv /\ OutcomeWritten /\ ReportedOutcome /\ [Next]_vars
        => ReportedOutcome'
  <2> SUFFICES ASSUME TypeInv, TriggerInv, SettledInv, OutcomeWritten, ReportedOutcome, [Next]_vars,
                      bj' # NoJob, ~NeedsNewRun(bj'), Over(bj'.status.phase)
               PROVE  /\ bj'.status.phase = "Succeeded" => pr'[bj'.status.current].state = "succeeded"
                      /\ bj'.status.phase = "Failed" /\ bj'.status.reason = "BuildFailed" =>
                             pr'[bj'.status.current].state = "failed"
    BY DEF ReportedOutcome, NeedsNewRun, Over
  <2>1. CASE WriteStatus
    <3>1. bj = copy /\ copy \in BuildJobs /\ next \in StatusType
      BY <2>1 DEF WriteStatus, TypeInv, WorkerOK, TypeOK
    <3>2. bj'.status = next /\ pr' = pr
      BY <2>1, <3>1, DueAfterStatus DEF WriteStatus
    <3> QED
      BY <2>1, <3>2 DEF WriteStatus, OutcomeWritten
  <2>2. CASE bj' = bj /\ ~CreateRun
    <3>1. bj \in BuildJobs /\ bj.status.current # 0
      BY <2>2 DEF TypeInv, TypeOK, NeedsNewRun
    <3>2. bj.status.current \in Runs
      BY <3>1, BoundsAssumption DEF BuildJobs, StatusType, Runs
    <3> QED
      BY <2>2, <3>2, StatesStay DEF ReportedOutcome, Terminated
  <2>3. ~CreateRun
    <3>1. CreateRun => bj' = bj
      BY DEF CreateRun
    <3> QED
      BY <3>1, NoCreateWhenSettled
  <2>4. CASE User
    <3>1. ~Created
      BY CreatedIsDue
    <3>2. CASE Edited
      <4>1. bj # NoJob /\ ~NeedsNewRun(bj) /\ bj'.status = bj.status
        BY <3>2, NoJobIsNoBuildJob, EditedStaysDue DEF Edited, TriggerInv
      <4>2. pr' = pr
        BY <2>4, UserWrites DEF UserStep
      <4> QED
        BY <4>1, <4>2 DEF ReportedOutcome
    <3> QED
      BY <2>2, <2>3, <2>4, <3>1, <3>2, UserWrites DEF Deleted
  <2>5. CASE Reconcile /\ ~WriteStatus
    BY <2>2, <2>3, <2>5 DEF Reconcile, ReconcileStart, FetchRun, FindActive, Prepare, WriteRefused, store
  <2>6. CASE Fault
    BY <2>2, <2>3, <2>6 DEF Fault, FindFails, RequestFails, WriteFails, Restart, store
  <2>7. CASE Environment
    BY <2>2, <2>3, <2>7, EnvironmentKeeps
  <2>8. CASE UNCHANGED vars
    BY <2>2, <2>3, <2>8 DEF vars
  <2> QED
    BY <2>1, <2>4, <2>5, <2>6, <2>7, <2>8 DEF Next
<1> QED
  BY <1>1, <1>2, OutcomeWrittenStep, SettledInvariance, TypeInvariance, TriggerInvariance, PTL DEF Spec

-----------------------------------------------------------------------------
(* Runs in progress are tracked.  While a worker is about to write a       *)
(* status that serves a trigger, the run it names is the only one there    *)
(* is, and the trigger still waits.                                        *)

ServingAlone ==
    pc = "write" /\ Serving =>
        \A n \in Runs : Active(pr[n]) => n = next.current

LEMMA ServingAloneStep ==
    ASSUME TypeInv, TriggerInv, SingleInv, ServingAlone, [Next]_vars
    PROVE  ServingAlone'
<1> SUFFICES ASSUME pc' = "write", intent' \in {"adopt", "created"},
                    NEW n \in Runs, Active(pr'[n])
             PROVE  n = next'.current
  BY DEF ServingAlone, Serving
<1>1. CASE FindActive
  <2>1. PICK m \in ActiveRuns : Intend("adopt", m, AdoptStatus(copy, m, pr[m], clock))
    BY <1>1 DEF FindActive
  <2>2. copy \in BuildJobs /\ m \in Runs /\ pr[m] \in RunRecords /\ Active(pr[m]) /\ pr' = pr
    BY <1>1, <2>1 DEF ActiveRuns, FindActive, TypeInv, TypeOK, WorkerOK, store
  <2>3. next'.current = m
    BY <2>1, <2>2, AdoptFields DEF Intend
  <2> QED
    BY <2>2, <2>3 DEF SingleInv, AtMostOneActiveRun
<1>2. CASE CreateRun
  <2>1. copy \in BuildJobs /\ next' = CreatedStatus(copy, run, clock) /\ ActiveRuns = {}
    BY <1>2 DEF CreateRun, Finish, Intend, TypeInv, WorkerOK, SingleInv, NoneFound
  <2>2. next'.current = run
    BY <2>1, CreatedFields
  <2>3. n = run
    BY <2>1, OnlyCreateActivates DEF ActiveRuns
  <2> QED
    BY <2>2, <2>3
<1>3. CASE UNCHANGED <<pc, next, intent>> /\ ~CreateRun
  BY <1>3, OnlyCreateActivates DEF ServingAlone, Serving
<1>5. CASE Reconcile
  BY <1>1, <1>2, <1>5 DEF Reconcile, ReconcileStart, FetchRun, Prepare, WriteStatus, WriteRefused,
                          Finish, Intend, worker, TypeInv, WorkerOK
<1>6. ~Fault
  BY DEF Fault, FindFails, RequestFails, WriteFails, Restart, Finish
<1>7. CASE User
  BY <1>2, <1>3, <1>7, UserWrites DEF UserStep
<1>8. CASE Environment
  BY <1>2, <1>3, <1>8, EnvironmentKeeps DEF worker
<1>9. CASE UNCHANGED vars
  BY <1>2, <1>3, <1>9 DEF vars
<1> QED
  BY <1>5, <1>6, <1>7, <1>8, <1>9 DEF Next

(* With Lists that do not fail and reads of the current BuildJob, no run   *)
(* in progress is ever forgotten: it is recorded, or a trigger waits and   *)
(* the run will be adopted, whatever writes were refused or lost.          *)
THEOREM RunsAreTracked ==
    ASSUME MaxListErrors = 0, MaxStaleReads = 0
    PROVE  Spec => []ActiveRunTracked
<1>1. Init => ServingAlone /\ ActiveRunTracked /\ QuietInv
  BY DEF Init, ServingAlone, ActiveRunTracked, QuietInv, StillDue
<1>2. TypeInv /\ TriggerInv /\ SingleInv /\ QuietInv /\ ServingAlone /\ ActiveRunTracked /\ [Next]_vars
        => ActiveRunTracked'
  <2> SUFFICES ASSUME TypeInv, TriggerInv, SingleInv, QuietInv, ServingAlone, ActiveRunTracked,
                      [Next]_vars, bj' # NoJob, NEW n \in Runs, Active(pr'[n])
               PROVE  bj'.status.current = n \/ NeedsNewRun(bj')
    BY DEF ActiveRunTracked, NeedsNewRun
  <2>1. CASE CreateRun
    <3>1. bj' = bj
      BY <2>1 DEF CreateRun
    <3> QED
      BY <2>1, <3>1 DEF CreateRun, QuietInv, StillDue
  <2>2. CASE WriteStatus
    <3>1. bj = copy /\ copy \in BuildJobs /\ next \in StatusType
      BY <2>2 DEF WriteStatus, TypeInv, WorkerOK, TypeOK
    <3>2. bj' = [copy EXCEPT !.status = next] /\ pr' = pr /\ pc = "write"
      BY <2>2, <3>1 DEF WriteStatus
    <3>3. bj'.status = next
      BY <3>1, <3>2, DueAfterStatus
    <3>4. CASE Serving
      BY <3>2, <3>3, <3>4 DEF ServingAlone
    <3>5. CASE ~Serving
      <4>1. next.current = copy.status.current /\ next.lastRunAt = copy.status.lastRunAt
        BY <3>2, <3>5 DEF TriggerInv, Written
      <4>2. NeedsNewRun(bj') <=> NeedsNewRun(copy)
        BY <3>1, <3>2, <4>1, DueAfterStatus
      <4>3. copy # NoJob
        BY <3>1, NoJobIsNoBuildJob
      <4> QED
        BY <3>1, <3>2, <3>3, <4>1, <4>2, <4>3 DEF ActiveRunTracked
    <3> QED
      BY <3>4, <3>5
  <2>3. CASE bj' = bj /\ ~CreateRun
    BY <2>3, OnlyCreateActivates DEF ActiveRunTracked, NeedsNewRun
  <2>4. CASE User
    <3>1. CASE Edited /\ ~CreateRun
      <4>1. bj # NoJob /\ bj'.status = bj.status
        BY <3>1, NoJobIsNoBuildJob DEF Edited
      <4> QED
        BY <3>1, <4>1, OnlyCreateActivates, EditedStaysDue DEF ActiveRunTracked, TriggerInv
    <3> QED
      BY <2>1, <2>3, <2>4, <3>1, UserWrites, CreatedIsDue DEF Deleted
  <2>5. CASE Reconcile /\ ~WriteStatus
    BY <2>1, <2>3, <2>5 DEF Reconcile, ReconcileStart, FetchRun, FindActive, Prepare, WriteRefused, store
  <2>6. CASE Fault
    BY <2>1, <2>3, <2>6 DEF Fault, FindFails, RequestFails, WriteFails, Restart, store
  <2>7. CASE Environment
    BY <2>1, <2>3, <2>7, EnvironmentKeeps
  <2>8. CASE UNCHANGED vars
    BY <2>1, <2>3, <2>8 DEF vars
  <2> QED
    BY <2>2, <2>4, <2>5, <2>6, <2>7, <2>8 DEF Next
<1>3. Spec => []SingleInv
  BY SingleInvariance
<1> QED
  BY <1>1, <1>2, <1>3, ServingAloneStep, QuietStep, TypeInvariance, TriggerInvariance, PTL DEF Spec

-----------------------------------------------------------------------------
(* What finished stays finished.  A status that says so, or is about to,   *)
(* names a run that is not in progress, and a worker that has read such a  *)
(* status takes it back only to serve another trigger.                     *)

FinishedInv ==
    bj # NoJob /\ ~NeedsNewRun(bj) /\ Over(bj.status.phase) => ~Active(pr[bj.status.current])

FinishedWritten ==
    pc = "write" =>
        /\ Over(next.phase) =>
               NeedsNewRun(copy) \/ (next.current \in Runs /\ ~Active(pr[next.current]))
        /\ Serving => NeedsNewRun(copy) /\ ~Over(next.phase)
        /\ ~Serving /\ copyFresh /\ ~Over(next.phase) => ~Over(copy.status.phase)

LEMMA FinishedWrittenStep ==
    ASSUME TypeInv, TriggerInv, FinishedInv, FinishedWritten, [Next]_vars
    PROVE  FinishedWritten'
<1> SUFFICES ASSUME pc' = "write"
             PROVE  /\ Over(next'.phase) =>
                          NeedsNewRun(copy') \/ (next'.current \in Runs /\ ~Active(pr'[next'.current]))
                    /\ Serving' => NeedsNewRun(copy') /\ ~Over(next'.phase)
                    /\ ~Serving' /\ copyFresh' /\ ~Over(next'.phase) => ~Over(copy'.status.phase)
  BY DEF FinishedWritten, Over, NeedsNewRun
<1>0. pr \in [Runs -> RunRecords]
  BY DEF TypeInv, TypeOK
<1>1. CASE FetchRun
  <2> DEFINE n == copy.status.current
  <2>1. copy \in BuildJobs /\ n \in Runs /\ pr[n] \in RunRecords /\ pr' = pr /\ ~NeedsNewRun(copy)
    BY <1>0, <1>1 DEF FetchRun, TypeInv, WorkerOK, TriggerInv, Decided, store
  <2>2. ~Serving' /\ copy' = copy /\ copyFresh' = copyFresh
    BY <1>1 DEF FetchRun, Intend, Serving
  <2>3. CASE pr[n].exists
    <3>1. next' = SyncStatus(copy, n, pr[n], clock)
      BY <1>1, <2>3 DEF FetchRun, Intend
    <3>2. next'.current = n /\ next'.phase = PhaseOf(pr[n])
      BY <2>1, <3>1, SyncFields
    <3>3. Over(PhaseOf(pr[n])) <=> ~Active(pr[n])
      BY <2>1, <2>3 DEF Over, PhaseOf, Active, Terminated, RunRecords, RunStates
    <3>4. copyFresh /\ Active(pr[n]) => ~Over(copy.status.phase)
      <4>1. copyFresh => bj = copy
        BY DEF TypeInv, WorkerOK
      <4> QED
        BY <2>1, <4>1, NoJobIsNoBuildJob DEF FinishedInv
    <3> QED
      BY <2>1, <2>2, <3>2, <3>3, <3>4
  <2>4. CASE ~pr[n].exists
    <3>1. next' = FailedStatus(copy, "PipelineRunNotFound", clock)
      BY <1>1, <2>4 DEF FetchRun, Intend
    <3>2. next'.current = n /\ next'.phase = "Failed"
      BY <2>1, <3>1, FailedFields
    <3> QED
      BY <2>1, <2>2, <2>4, <3>2 DEF Over, Active
  <2> QED
    BY <2>3, <2>4
<1>2. CASE FindActive
  <2>1. PICK n \in ActiveRuns : Intend("adopt", n, AdoptStatus(copy, n, pr[n], clock))
    BY <1>2 DEF FindActive
  <2>2. /\ copy \in BuildJobs /\ n \in Runs /\ pr[n] \in RunRecords /\ Active(pr[n])
        /\ NeedsNewRun(copy) /\ copy' = copy /\ Serving'
        /\ next' = AdoptStatus(copy, n, pr[n], clock)
    BY <1>0, <1>2, <2>1 DEF ActiveRuns, FindActive, Intend, TypeInv, WorkerOK, TriggerInv, Decided, Serving
  <2>3. next'.phase \in {"Pending", "Running"}
    BY <2>2, AdoptFields
  <2> QED
    BY <2>2, <2>3 DEF Over
<1>3. CASE Prepare
  <2> DEFINE why == Rejection(copy, pvcs)
  <2>1. /\ copy \in BuildJobs /\ next' = FailedStatus(copy, why, clock)
        /\ NeedsNewRun(copy) /\ copy' = copy /\ ~Serving'
    BY <1>3 DEF Prepare, Intend, TypeInv, WorkerOK, TriggerInv, Decided, Serving
  <2>2. next'.phase = "Failed"
    BY <2>1, FailedFields
  <2> QED
    BY <2>1, <2>2 DEF Over
<1>4. CASE CreateRun
  <2>1. /\ copy \in BuildJobs /\ NeedsNewRun(copy) /\ copy' = copy /\ Serving'
        /\ next' = CreatedStatus(copy, run, clock)
    BY <1>4 DEF CreateRun, Finish, Intend, TypeInv, WorkerOK, TriggerInv, Decided, Serving
  <2>2. next'.phase = "Pending"
    BY <2>1, CreatedFields
  <2> QED
    BY <2>1, <2>2 DEF Over
<1>5. CASE UNCHANGED <<pc, copy, next, intent>> /\ (copyFresh' => copyFresh) /\ ~CreateRun
  BY <1>5, OnlyCreateActivates DEF FinishedWritten, Serving
<1>6. CASE Reconcile
  BY <1>1, <1>2, <1>3, <1>4, <1>6 DEF Reconcile, ReconcileStart, WriteStatus, WriteRefused, Finish, worker,
                                      TypeInv, WorkerOK
<1>7. ~Fault
  BY DEF Fault, FindFails, RequestFails, WriteFails, Restart, Finish
<1>8. CASE User
  BY <1>4, <1>5, <1>8, UserWrites DEF UserStep
<1>9. CASE Environment
  BY <1>4, <1>5, <1>9, EnvironmentKeeps DEF worker
<1>10. CASE UNCHANGED vars
  BY <1>4, <1>5, <1>10 DEF vars
<1> QED
  BY <1>6, <1>7, <1>8, <1>9, <1>10 DEF Next

LEMMA FinishedStep ==
    ASSUME TypeInv, TypeInv', TriggerInv, SettledInv, FinishedInv, FinishedWritten, [Next]_vars
    PROVE  FinishedInv'
<1> SUFFICES ASSUME bj' # NoJob, ~NeedsNewRun(bj'), Over(bj'.status.phase), Active(pr'[bj'.status.current])
             PROVE  FALSE
  BY DEF FinishedInv, Over, NeedsNewRun
<1>0. bj' \in BuildJobs /\ bj'.status.current \in Runs
  <2>1. bj' \in BuildJobs
    BY DEF TypeInv, TypeOK
  <2>2. bj'.status.current # 0
    BY DEF NeedsNewRun
  <2> QED
    BY <2>1, <2>2, BoundsAssumption DEF BuildJobs, StatusType, Runs
<1>1. ~CreateRun
  <2>1. CreateRun => bj' = bj
    BY DEF CreateRun
  <2> QED
    BY <2>1, NoCreateWhenSettled
<1>2. Active(pr[bj'.status.current])
  BY <1>0, <1>1, OnlyCreateActivates
<1>3. CASE WriteStatus
  <2>1. bj = copy /\ copy \in BuildJobs /\ next \in StatusType /\ pc = "write"
    BY <1>3 DEF WriteStatus, TypeInv, WorkerOK, TypeOK
  <2>2. bj' = [copy EXCEPT !.status = next]
    BY <1>3, <2>1 DEF WriteStatus
  <2>3. bj'.status = next
    BY <2>1, <2>2, DueAfterStatus
  <2>4. NeedsNewRun(copy) /\ Over(next.phase)
    BY <1>2, <2>1, <2>3 DEF FinishedWritten
  <2>5. CASE Serving
    BY <2>1, <2>4, <2>5 DEF FinishedWritten
  <2>6. CASE ~Serving
    <3>1. next.current = copy.status.current /\ next.lastRunAt = copy.status.lastRunAt
      BY <2>1, <2>6 DEF TriggerInv, Written
    <3> QED
      BY <2>1, <2>2, <2>4, <3>1, DueAfterStatus
  <2> QED
    BY <2>5, <2>6
<1>4. CASE bj' = bj
  BY <1>2, <1>4 DEF FinishedInv
<1>5. CASE User
  <2>1. CASE Edited
    <3>1. bj # NoJob /\ bj'.status = bj.status /\ ~NeedsNewRun(bj)
      BY <2>1, NoJobIsNoBuildJob, EditedStaysDue DEF Edited, TriggerInv
    <3> QED
      BY <1>2, <3>1 DEF FinishedInv
  <2> QED
    BY <1>4, <1>5, <2>1, UserWrites, CreatedIsDue DEF Deleted
<1>6. CASE Reconcile /\ ~WriteStatus
  BY <1>1, <1>4, <1>6 DEF Reconcile, ReconcileStart, FetchRun, FindActive, Prepare, WriteRefused, store
<1>7. CASE Fault
  BY <1>4, <1>7 DEF Fault, FindFails, RequestFails, WriteFails, Restart, store
<1>8. CASE Environment
  BY <1>4, <1>8, EnvironmentKeeps
<1>9. CASE UNCHANGED vars
  BY <1>4, <1>9 DEF vars
<1> QED
  BY <1>3, <1>5, <1>6, <1>7, <1>8, <1>9 DEF Next

(* A status goes from Succeeded or Failed back to Pending or Running only  *)
(* when it serves another trigger, whatever was read.                      *)
THEOREM FinishedStays == Spec => FinishedStaysFinished
<1>1. Init => FinishedInv /\ FinishedWritten
  BY DEF Init, FinishedInv, FinishedWritten
<1>2. ASSUME TypeInv, TriggerInv, FinishedWritten, [Next]_vars, bj # NoJob, bj'.uid = bj.uid,
             bj.status.current # 0, Over(bj.status.phase), bj'.status.phase \in {"Pending", "Running"}
      PROVE  \/ bj'.status.current # bj.status.current
             \/ bj'.status.lastRunAt # bj.status.lastRunAt
  <2>1. CASE WriteStatus
    <3>1. bj = copy /\ copy \in BuildJobs /\ next \in StatusType /\ pc = "write" /\ copyFresh
      BY <1>2, <2>1 DEF WriteStatus, TypeInv, WorkerOK, TypeOK
    <3>2. bj' = [copy EXCEPT !.status = next]
      BY <2>1, <3>1 DEF WriteStatus
    <3>3. bj'.status = next
      BY <3>1, <3>2, DueAfterStatus
    <3>4. Serving
      BY <1>2, <3>1, <3>3 DEF FinishedWritten, Over
    <3>5. NeedsNewRun(copy) /\ next.lastRunAt = copy.runAt
      BY <1>2, <3>1, <3>4 DEF FinishedWritten, TriggerInv, Written
    <3> QED
      BY <1>2, <3>1, <3>3, <3>5 DEF NeedsNewRun
  <2>2. bj \in BuildJobs
    BY <1>2 DEF TypeInv, TypeOK
  <2>3. CASE bj' = bj
    BY <1>2, <2>3 DEF Over
  <2>4. CASE User
    <3>1. CASE Edited
      BY <1>2, <3>1 DEF Edited, Over
    <3>2. CASE Deleted
      <4>1. bj.uid \in 1..MaxUid /\ bj'.uid = 0
        BY <2>2, <3>2 DEF Deleted, BuildJobs, NoJob
      <4> QED
        BY <1>2, <4>1, BoundsAssumption
    <3>3. ~Created
      BY <1>2 DEF Created
    <3> QED
      BY <1>2, <2>3, <2>4, <3>1, <3>2, <3>3, UserWrites
  <2>5. CASE Reconcile /\ ~WriteStatus
    BY <2>3, <2>5 DEF Reconcile, ReconcileStart, FetchRun, FindActive, Prepare, CreateRun, WriteRefused, store
  <2>6. CASE Fault
    BY <2>3, <2>6 DEF Fault, FindFails, RequestFails, WriteFails, Restart, store
  <2>7. CASE Environment
    BY <1>2, <2>3, <2>7, EnvironmentKeeps
  <2>8. CASE UNCHANGED vars
    BY <2>3, <2>8 DEF vars
  <2> QED
    BY <1>2, <2>1, <2>4, <2>5, <2>6, <2>7, <2>8 DEF Next
<1> QED
  BY <1>1, <1>2, FinishedWrittenStep, FinishedStep, SettledInvariance, TypeInvariance, TriggerInvariance, PTL
     DEF Spec, FinishedStaysFinished, Over

-----------------------------------------------------------------------------
(* The OCI reference.  A generation has one spec, for every copy of the    *)
(* BuildJob and every run made from one; and a success is about to be      *)
(* written with the reference of the copy.  Generations begin anew with a  *)
(* new incarnation, so there may be one only.                              *)

OfSpec(b) == b # NoJob => b.gen <= bj.gen /\ (b.gen = bj.gen => b.spec = bj.spec)

Unused == bj = NoJob /\ cached = NoJob /\ copy = NoJob /\ \A n \in Runs : pr[n].gen = 0

GenerationInv ==
    /\ uids = 0 => Unused
    /\ bj # NoJob =>
         /\ OfSpec(cached) /\ OfSpec(copy)
         /\ \A n \in Runs : pr[n].gen <= bj.gen /\ (pr[n].gen = bj.gen => (pr[n].oci <=> bj.spec.oci = "on"))

RefWritten ==
    pc = "write" /\ next.phase = "Succeeded" /\ copy.spec.oci = "on" => next.ociRef = copy.gen

(* Only a Create says of a run what it was made from. *)
LEMMA MadeFromStays ==
    ASSUME TypeInv, [Next]_vars, ~CreateRun, NEW n \in Runs
    PROVE  pr'[n].gen = pr[n].gen /\ pr'[n].oci = pr[n].oci
<1>0. pr \in [Runs -> RunRecords]
  BY DEF TypeInv, TypeOK
<1>1. CASE pr' = pr
  BY <1>1
<1>2. CASE Reconcile
  BY <1>1, <1>2
     DEF Reconcile, ReconcileStart, FetchRun, FindActive, Prepare, WriteStatus, WriteRefused, store
<1>3. CASE Fault
  BY <1>1, <1>3 DEF Fault, FindFails, RequestFails, WriteFails, Restart, store
<1>4. CASE User
  BY <1>1, <1>4, UserWrites DEF UserStep
<1>5. CASE Environment
  <2>1. ASSUME NEW m \in Runs, NEW r, RunEvent(m, r), r.gen = pr[m].gen, r.oci = pr[m].oci
        PROVE  pr'[n].gen = pr[n].gen /\ pr'[n].oci = pr[n].oci
    BY <1>0, <2>1 DEF RunEvent
  <2>2. ASSUME NEW m \in Runs, NEW s
        PROVE  /\ [pr[m] EXCEPT !.state = s].gen = pr[m].gen /\ [pr[m] EXCEPT !.state = s].oci = pr[m].oci
               /\ [pr[m] EXCEPT !.exists = FALSE].gen = pr[m].gen
               /\ [pr[m] EXCEPT !.exists = FALSE].oci = pr[m].oci
    BY <1>0 DEF RunRecords
  <2>3. ASSUME NEW m \in Runs, TektonStarts(m) \/ TektonEnds(m) \/ Prune(m) \/ Collect(m)
        PROVE  pr'[n].gen = pr[n].gen /\ pr'[n].oci = pr[n].oci
    BY <2>1, <2>2, <2>3 DEF TektonStarts, TektonEnds, Prune, Collect
  <2>4. CASE CacheSync \/ FlipPVC \/ Tick \/ Resync
    BY <1>1, <2>4 DEF CacheSync, FlipPVC, Tick, Resync, store
  <2> QED
    BY <1>5, <2>3, <2>4 DEF Environment
<1>6. CASE UNCHANGED vars
  BY <1>1, <1>6 DEF vars
<1> QED
  BY <1>2, <1>3, <1>4, <1>5, <1>6 DEF Next

(* What a user's write does to the generation. *)
NewIncarnation == bj = NoJob /\ uids < MaxUid /\ uids' = uids + 1 /\ bj' # NoJob
Respecified == /\ bj # NoJob /\ bj' # NoJob
               /\ (bj'.gen = bj.gen /\ bj'.spec = bj.spec) \/ bj'.gen = bj.gen + 1

LEMMA UserGenerations ==
    ASSUME TypeInv, User
    PROVE  NewIncarnation \/ (UNCHANGED uids /\ (bj' = bj \/ bj' = NoJob \/ Respecified))
<1>0. bj \in BuildJobs \cup {NoJob} /\ bj' \in BuildJobs \cup {NoJob}
  BY UserTypeInv DEF TypeInv, TypeOK
<1>1. ASSUME NEW sp, bj # NoJob
      PROVE  /\ \/ WithSpec(bj, sp).gen = bj.gen /\ WithSpec(bj, sp).spec = bj.spec
                \/ WithSpec(bj, sp).gen = bj.gen + 1
             /\ [WithSpec(bj, sp) EXCEPT !.runAt = clock].gen = WithSpec(bj, sp).gen
             /\ [WithSpec(bj, sp) EXCEPT !.runAt = clock].spec = WithSpec(bj, sp).spec
  BY <1>0, <1>1 DEF WithSpec, BuildJobs
<1>2. CASE HandleCreateNew
  <2>1. bj' # NoJob
    BY <1>2 DEF HandleCreateNew, Store, NoJob
  <2> QED
    BY <1>2, <2>1 DEF HandleCreateNew, NewIncarnation
<1>3. CASE HandleCreateExisting \/ PatchSpec
  <2>1. bj # NoJob /\ UNCHANGED uids
    BY <1>3 DEF HandleCreateExisting, PatchSpec
  <2>2. PICK sp : bj' = WithSpec(bj, sp) \/ bj' = [WithSpec(bj, sp) EXCEPT !.runAt = clock]
    BY <1>3 DEF HandleCreateExisting, PatchSpec, Store
  <2>3. (bj'.gen = bj.gen /\ bj'.spec = bj.spec) \/ bj'.gen = bj.gen + 1
    BY <1>1, <2>1, <2>2
  <2> QED
    BY <2>1, <2>3 DEF Respecified
<1>4. CASE HandleRun \/ AnnotateRunAt
  <2>1. bj # NoJob /\ UNCHANGED uids /\ bj' = [bj EXCEPT !.runAt = clock]
    BY <1>4 DEF HandleRun, AnnotateRunAt, Store
  <2>2. bj'.gen = bj.gen /\ bj'.spec = bj.spec
    BY <1>0, <2>1 DEF BuildJobs
  <2> QED
    BY <2>1, <2>2 DEF Respecified
<1>5. CASE HandleDelete
  BY <1>5 DEF HandleDelete, Store
<1> QED
  BY <1>2, <1>3, <1>4, <1>5 DEF User

LEMMA GenerationStep ==
    ASSUME MaxUid = 1, TypeInv, TypeInv', GenerationInv, [Next]_vars
    PROVE  GenerationInv'
<1>0. /\ bj \in BuildJobs \cup {NoJob} /\ cached \in BuildJobs \cup {NoJob} /\ copy \in BuildJobs \cup {NoJob}
      /\ pr \in [Runs -> RunRecords] /\ uids \in 0..1
      /\ bj' \in BuildJobs \cup {NoJob}
  BY DEF TypeInv, TypeOK
<1>1. /\ \A b \in BuildJobs : b.gen \in Int /\ b.gen > 0
      /\ \A n \in Runs : pr[n].gen \in Int /\ pr[n].oci \in BOOLEAN
  BY <1>0, BoundsAssumption DEF BuildJobs, RunRecords
<1>2. ASSUME bj' = bj, uids' = uids, ~CreateRun, cached' \in {cached, bj}, copy' \in {copy, cached, NoJob}
      PROVE  GenerationInv'
  <2>1. \A n \in Runs : pr'[n].gen = pr[n].gen /\ pr'[n].oci = pr[n].oci
    BY <1>2, MadeFromStays
  <2>2. bj # NoJob => bj \in BuildJobs
    BY <1>0
  <2> QED
    BY <1>1, <1>2, <2>1, <2>2 DEF GenerationInv, Unused, OfSpec
<1>3. CASE WriteStatus
  <2>1. bj = copy /\ copy \in BuildJobs /\ pc = "write" /\ bj' = [bj EXCEPT !.status = next]
    BY <1>3 DEF WriteStatus, TypeInv, WorkerOK
  <2>2. bj'.gen = bj.gen /\ bj'.spec = bj.spec /\ bj # NoJob
    BY <2>1, NoJobIsNoBuildJob DEF BuildJobs
  <2>3. pr' = pr /\ uids' = uids /\ cached' = cached /\ copy' = NoJob
    BY <1>3 DEF WriteStatus, Finish
  <2> QED
    BY <1>1, <2>2, <2>3 DEF GenerationInv, Unused, OfSpec
<1>4. CASE CreateRun
  <2>1. /\ copy \in BuildJobs /\ run \in Runs /\ UNCHANGED <<bj, uids, cached>> /\ copy' \in {copy, NoJob}
    BY <1>4 DEF CreateRun, Finish, TypeInv, WorkerOK
  <2>2. uids # 0
    BY <2>1, NoJobIsNoBuildJob DEF GenerationInv, Unused
  <2>3. CASE pr' = pr
    BY <2>1, <2>2, <2>3 DEF GenerationInv, OfSpec
  <2>4. CASE pr' # pr
    <3>1. pr' = [pr EXCEPT ![run] =
                   [exists |-> TRUE, state |-> "pending", uid |-> copy.uid, gen |-> copy.gen,
                    oci |-> copy.spec.oci = "on", git |-> copy.spec.source = "git",
                    runAt |-> copy.runAt]]
      BY <1>4, <2>4 DEF CreateRun
    <3>2. pr'[run].gen = copy.gen /\ (pr'[run].oci <=> copy.spec.oci = "on")
      BY <1>0, <2>1, <3>1
    <3>3. \A n \in Runs : n # run => pr'[n] = pr[n]
      BY <1>0, <3>1
    <3>4. copy # NoJob
      BY <2>1, NoJobIsNoBuildJob
    <3>5. ASSUME bj # NoJob, NEW n \in Runs
          PROVE  pr'[n].gen <= bj.gen /\ (pr'[n].gen = bj.gen => (pr'[n].oci <=> bj.spec.oci = "on"))
      <4>1. CASE n = run
        BY <3>2, <3>4, <3>5, <4>1 DEF GenerationInv, OfSpec
      <4>2. CASE n # run
        BY <3>3, <3>5, <4>2 DEF GenerationInv
      <4> QED
        BY <4>1, <4>2
    <3> QED
      BY <2>1, <2>2, <3>5 DEF GenerationInv, OfSpec
  <2> QED
    BY <2>3, <2>4
<1>5. CASE Reconcile
  BY <1>2, <1>3, <1>4, <1>5
     DEF Reconcile, ReconcileStart, FetchRun, FindActive, Intend, Prepare, WriteRefused, Finish, store, worker
<1>6. CASE Fault
  BY <1>2, <1>4, <1>6 DEF Fault, FindFails, RequestFails, WriteFails, Finish, Restart, store
<1>7. CASE User
  <2>1. UNCHANGED <<pr, cached, copy>>
    BY <1>7, UserWrites DEF UserStep
  <2>2. CASE NewIncarnation
    <3>1. uids = 0 /\ uids' = 1 /\ bj' \in BuildJobs
      BY <1>0, <2>2 DEF NewIncarnation
    <3>2. Unused
      BY <3>1 DEF GenerationInv
    <3> QED
      BY <1>1, <2>1, <3>1, <3>2 DEF GenerationInv, Unused, OfSpec
  <2>3. CASE UNCHANGED uids /\ bj' \in {bj, NoJob}
    BY <2>1, <2>3 DEF GenerationInv, Unused, OfSpec
  <2>4. CASE UNCHANGED uids /\ Respecified
    <3>1. bj # NoJob /\ bj' # NoJob /\ bj \in BuildJobs
      BY <1>0, <2>4 DEF Respecified
    <3>2. \A b : b # NoJob /\ b \in BuildJobs /\ OfSpec(b) =>
             b.gen <= bj'.gen /\ (b.gen = bj'.gen => b.spec = bj'.spec)
      BY <1>1, <2>4, <3>1 DEF Respecified, OfSpec
    <3>3. \A n \in Runs : pr[n].gen <= bj'.gen /\ (pr[n].gen = bj'.gen => (pr[n].oci <=> bj'.spec.oci = "on"))
      BY <1>1, <2>4, <3>1 DEF Respecified, GenerationInv
    <3> QED
      BY <1>0, <2>1, <2>4, <3>1, <3>2, <3>3 DEF GenerationInv, Unused, OfSpec
  <2> QED
    BY <1>7, <2>2, <2>3, <2>4, UserGenerations
<1>8. CASE Environment
  <2>1. UNCHANGED <<bj, copy, pc>>
    BY <1>8, EnvironmentKeeps DEF worker
  <2>2. ~CreateRun
    BY <2>1 DEF CreateRun, Finish, Intend
  <2>3. ASSUME NEW n \in Runs, TektonStarts(n) \/ TektonEnds(n) \/ Prune(n) \/ Collect(n)
        PROVE  UNCHANGED <<uids, cached>>
    BY <2>3 DEF TektonStarts, TektonEnds, Prune, Collect, RunEvent
  <2>4. CacheSync \/ FlipPVC \/ Tick \/ Resync => uids' = uids /\ cached' \in {cached, bj}
    BY DEF CacheSync, FlipPVC, Tick, Resync, store
  <2>5. uids' = uids /\ cached' \in {cached, bj}
    BY <1>8, <2>3, <2>4 DEF Environment
  <2> QED
    BY <1>2, <2>1, <2>2, <2>5
<1>9. CASE UNCHANGED vars
  BY <1>2, <1>4, <1>9 DEF vars, worker
<1> QED
  BY <1>5, <1>6, <1>7, <1>8, <1>9 DEF Next

(* A success is about to be written with the reference of the copy. *)
LEMMA RefWrittenStep ==
    ASSUME TypeInv, RefWritten, [Next]_vars
    PROVE  RefWritten'
<1> SUFFICES ASSUME pc' = "write", next'.phase = "Succeeded", copy'.spec.oci = "on"
             PROVE  next'.ociRef = copy'.gen
  BY DEF RefWritten
<1>0. pr \in [Runs -> RunRecords]
  BY DEF TypeInv, TypeOK
<1>1. CASE FetchRun
  <2> DEFINE n == copy.status.current
  <2>1. copy \in BuildJobs /\ n \in Runs /\ pr[n] \in RunRecords /\ copy' = copy
    BY <1>0, <1>1 DEF FetchRun, TypeInv, WorkerOK
  <2>2. CASE pr[n].exists
    <3>1. next' = SyncStatus(copy, n, pr[n], clock)
      BY <1>1, <2>2 DEF FetchRun, Intend
    <3>2. PhaseOf(pr[n]) = "Succeeded"
      BY <2>1, <3>1, SyncFields
    <3> QED
      BY <2>1, <3>1, <3>2 DEF SyncStatus, ComputeOCIRef, BuildJobs, StatusType
  <2>3. CASE ~pr[n].exists
    <3>1. next' = FailedStatus(copy, "PipelineRunNotFound", clock)
      BY <1>1, <2>3 DEF FetchRun, Intend
    <3> QED
      BY <2>1, <3>1, FailedFields
  <2> QED
    BY <2>2, <2>3
<1>2. ~FindActive
  <2> SUFFICES ASSUME FindActive PROVE FALSE
    OBVIOUS
  <2>1. PICK n \in ActiveRuns : Intend("adopt", n, AdoptStatus(copy, n, pr[n], clock))
    BY DEF FindActive
  <2>2. /\ copy \in BuildJobs /\ n \in Runs /\ pr[n] \in RunRecords /\ Active(pr[n])
        /\ next' = AdoptStatus(copy, n, pr[n], clock)
    BY <1>0, <2>1 DEF ActiveRuns, FindActive, Intend, TypeInv, WorkerOK
  <2>3. next'.phase \in {"Pending", "Running"}
    BY <2>2, AdoptFields
  <2> QED
    BY <2>3
<1>3. ~Prepare
  <2> DEFINE why == Rejection(copy, pvcs)
  <2> SUFFICES ASSUME Prepare PROVE FALSE
    OBVIOUS
  <2>1. copy \in BuildJobs /\ next' = FailedStatus(copy, why, clock)
    BY DEF Prepare, Intend, TypeInv, WorkerOK
  <2> HIDE DEF why
  <2> QED
    BY <2>1, FailedFields
<1>4. ~CreateRun
  BY CreatedFields DEF CreateRun, Finish, Intend, TypeInv, WorkerOK
<1>5. CASE UNCHANGED <<pc, copy, next>>
  BY <1>5 DEF RefWritten
<1>6. CASE Reconcile
  BY <1>1, <1>2, <1>3, <1>4, <1>6 DEF Reconcile, ReconcileStart, WriteStatus, WriteRefused, Finish, worker
<1>7. ~Fault
  BY DEF Fault, FindFails, RequestFails, WriteFails, Restart, Finish
<1>8. CASE User
  BY <1>5, <1>8, UserWrites DEF UserStep
<1>9. CASE Environment
  BY <1>5, <1>9, EnvironmentKeeps DEF worker
<1>10. CASE UNCHANGED vars
  BY <1>5, <1>10 DEF vars
<1> QED
  BY <1>6, <1>7, <1>8, <1>9, <1>10 DEF Next

LEMMA RefStep ==
    ASSUME TypeInv, TypeInv', TriggerInv, SettledInv, GenerationInv, RefWritten, OCIRefOfUneditedSpec,
           [Next]_vars
    PROVE  OCIRefOfUneditedSpec'
<1> DEFINE r == pr'[bj'.status.current]
<1> SUFFICES ASSUME bj' # NoJob, ~NeedsNewRun(bj'), bj'.status.phase = "Succeeded", r.oci, r.gen = bj'.gen
             PROVE  bj'.status.ociRef = r.gen
  BY DEF OCIRefOfUneditedSpec, NeedsNewRun
<1>0. bj' \in BuildJobs /\ bj'.status.current \in Runs
  <2>1. bj' \in BuildJobs
    BY DEF TypeInv, TypeOK
  <2>2. bj'.status.current # 0
    BY DEF NeedsNewRun
  <2> QED
    BY <2>1, <2>2, BoundsAssumption DEF BuildJobs, StatusType, Runs
<1>1. ~CreateRun
  <2>1. CreateRun => bj' = bj
    BY DEF CreateRun
  <2> QED
    BY <2>1, NoCreateWhenSettled DEF Over
<1>2. r.gen = pr[bj'.status.current].gen /\ r.oci = pr[bj'.status.current].oci
  BY <1>0, <1>1, MadeFromStays
<1> HIDE DEF r
<1>3. CASE WriteStatus
  <2>1. bj = copy /\ copy \in BuildJobs /\ next \in StatusType /\ pc = "write"
    BY <1>3 DEF WriteStatus, TypeInv, WorkerOK, TypeOK
  <2>2. bj' = [bj EXCEPT !.status = next] /\ bj # NoJob
    BY <1>3, <2>1, NoJobIsNoBuildJob DEF WriteStatus
  <2>3. bj'.status = next /\ bj'.gen = bj.gen
    BY <2>1, <2>2 DEF BuildJobs
  <2>4. bj.spec.oci = "on"
    BY <1>0, <1>2, <2>2, <2>3 DEF GenerationInv
  <2> QED
    BY <2>1, <2>3, <2>4 DEF RefWritten
<1>4. CASE bj' = bj
  BY <1>2, <1>4 DEF OCIRefOfUneditedSpec
<1>5. CASE User
  <2>1. CASE Edited
    <3>1. bj # NoJob /\ bj \in BuildJobs /\ bj'.status = bj.status /\ ~NeedsNewRun(bj)
      BY <2>1, NoJobIsNoBuildJob, EditedStaysDue DEF Edited, TriggerInv, TypeInv, TypeOK
    <3>2. bj.gen \in Int /\ pr[bj'.status.current].gen <= bj.gen
      BY <1>0, <3>1, BoundsAssumption DEF GenerationInv, BuildJobs
    <3>3. bj'.gen = bj.gen \/ bj'.gen = bj.gen + 1
      BY <1>5, <3>1, UserGenerations DEF NewIncarnation, Respecified
    <3>4. bj'.gen = bj.gen
      BY <1>2, <3>2, <3>3
    <3> QED
      BY <1>2, <3>1, <3>4 DEF OCIRefOfUneditedSpec
  <2> QED
    BY <1>4, <1>5, <2>1, UserWrites, CreatedIsDue DEF Deleted
<1>6. CASE Reconcile /\ ~WriteStatus
  BY <1>1, <1>4, <1>6 DEF Reconcile, ReconcileStart, FetchRun, FindActive, Prepare, WriteRefused, store
<1>7. CASE Fault
  BY <1>4, <1>7 DEF Fault, FindFails, RequestFails, WriteFails, Restart, store
<1>8. CASE Environment
  BY <1>4, <1>8, EnvironmentKeeps
<1>9. CASE UNCHANGED vars
  BY <1>4, <1>9 DEF vars
<1> QED
  BY <1>3, <1>5, <1>6, <1>7, <1>8, <1>9 DEF Next

(* With the name used once, a success shows the reference its run pushed   *)
(* to, unless the spec was edited since the run was created: the reference *)
(* is recomputed from the job as it is.                                    *)
THEOREM RefIsOfTheRun ==
    ASSUME MaxUid = 1
    PROVE  Spec => []OCIRefOfUneditedSpec
<1>1. Init => GenerationInv /\ RefWritten /\ OCIRefOfUneditedSpec
  BY DEF Init, GenerationInv, Unused, NoRun, RefWritten, OCIRefOfUneditedSpec
<1>2. TypeInv /\ TypeInv' /\ GenerationInv /\ [Next]_vars => GenerationInv'
  BY GenerationStep
<1> QED
  BY <1>1, <1>2, RefWrittenStep, RefStep, SettledInvariance, TypeInvariance, TriggerInvariance, PTL DEF Spec

-----------------------------------------------------------------------------
(* A run is created under a free name.  With no run deleted, the runs that *)
(* exist are numbered without a gap, and no copy of the BuildJob, however  *)
(* old, counts more than there are.                                        *)

Count == Cardinality(Existing)

Numbered ==
    /\ Existing = 1..Count
    /\ bj.status.runCount <= Count
    /\ cached # NoJob => cached.status.runCount <= Count
    /\ pc # "idle" => copy.status.runCount <= Count
    /\ pc = "write" => next.runCount <= Count
    /\ pc = "create" => run = Count + 1

NothingYet == bj = NoJob /\ cached = NoJob /\ pc = "idle" /\ Existing = {}

NumberInv ==
    /\ budget["list"] = 0 /\ budget["prune"] = 0
    /\ \A n \in Existing : pr[n].uid # 0
    /\ uids = 0 => NothingYet
    /\ bj # NoJob => Numbered

(* What the status operators write into RunCount. *)
LEMMA RunCounts ==
    ASSUME NEW b \in BuildJobs, NEW n \in Runs, NEW r \in RunRecords, NEW t, NEW why
    PROVE  /\ SyncStatus(b, n, r, t).runCount = b.status.runCount
           /\ AdoptStatus(b, n, r, t).runCount = b.status.runCount
           /\ FailedStatus(b, why, t).runCount = b.status.runCount
           /\ CreatedStatus(b, n, t).runCount = n
<1>1. ASSUME NEW c \in BuildJobs PROVE SyncStatus(c, n, r, t).runCount = c.status.runCount
  BY DEF SyncStatus, BuildJobs, StatusType
<1>2. AdoptStatus(b, n, r, t).runCount = b.status.runCount
  <2> DEFINE c == [b EXCEPT !.status.current = n, !.status.lastRunAt = b.runAt]
             st == [b.status EXCEPT !.current = n, !.lastRunAt = b.runAt]
  <2>1. n \in 0..MaxRun
    BY BoundsAssumption DEF Runs
  <2>2. st \in StatusType /\ st.runCount = b.status.runCount
    BY <2>1 DEF BuildJobs, StatusType
  <2>3. c = [b EXCEPT !.status = st]
    BY DEF BuildJobs, StatusType
  <2>4. c \in BuildJobs /\ c.status = st
    BY <2>2, <2>3 DEF BuildJobs
  <2>5. AdoptStatus(b, n, r, t) = SyncStatus(c, n, r, t)
    BY DEF AdoptStatus
  <2> HIDE DEF c, st
  <2> QED
    BY <1>1, <2>2, <2>4, <2>5
<1>3. /\ FailedStatus(b, why, t).runCount = b.status.runCount
      /\ CreatedStatus(b, n, t).runCount = n
  BY DEF FailedStatus, CreatedStatus, BuildJobs, StatusType
<1> QED
  BY <1>1, <1>2, <1>3

(* No step gives back a budget, and with none left no run is pruned. *)
LEMMA NoneIsPruned ==
    ASSUME TypeInv, budget["prune"] = 0, [Next]_vars
    PROVE  budget'["prune"] = 0 /\ \A n \in Runs : ~Prune(n)
<1>0. budget \in [Events -> Nat] /\ "prune" \in Events
  BY DEF TypeInv, TypeOK, Events
<1>1. ASSUME NEW e \in Events, Spend(e) PROVE e # "prune" /\ budget'["prune"] = 0
  BY <1>0, <1>1 DEF Spend
<1>2. budget'["prune"] = 0
  BY <1>1, StepsSpend
<1>3. ASSUME NEW n \in Runs PROVE ~Prune(n)
  BY <1>0, <1>1 DEF Prune
<1> QED
  BY <1>2, <1>3

(* While the job exists, only a Create changes which runs exist.  A run is *)
(* owned by an incarnation, and with the name used once by this one.       *)
LEMMA ExistingStays ==
    ASSUME TypeInv, NumberInv, [Next]_vars, ~CreateRun
    PROVE  /\ \A n \in Existing' : n \in Existing /\ pr'[n].uid = pr[n].uid
           /\ MaxUid = 1 /\ bj # NoJob => Existing' = Existing
<1>0. pr \in [Runs -> RunRecords] /\ bj \in BuildJobs \cup {NoJob}
  BY DEF TypeInv, TypeOK
<1>1. CASE UNCHANGED pr
  BY <1>1 DEF Existing
<1>2. ASSUME NEW n \in Runs, NEW s \in RunStates, RunEvent(n, [pr[n] EXCEPT !.state = s])
      PROVE  /\ \A m \in Runs : pr'[m].exists = pr[m].exists /\ pr'[m].uid = pr[m].uid
             /\ Existing' = Existing
  BY <1>0, <1>2 DEF RunEvent, RunRecords, Existing
<1>3. ASSUME NEW n \in Runs, TektonStarts(n) \/ TektonEnds(n)
      PROVE  /\ \A m \in Runs : pr'[m].exists = pr[m].exists /\ pr'[m].uid = pr[m].uid
             /\ Existing' = Existing
  BY <1>2, <1>3 DEF TektonStarts, TektonEnds, RunStates
<1>4. ASSUME NEW n \in Runs, Collect(n)
      PROVE  /\ \A m \in Existing' : m \in Existing /\ pr'[m].uid = pr[m].uid
             /\ MaxUid # 1 \/ bj = NoJob
  <2>1. \A m \in Existing' : m \in Existing /\ pr'[m].uid = pr[m].uid
    BY <1>0, <1>4 DEF Collect, RunEvent, RunRecords, Existing
  <2>2. ASSUME MaxUid = 1, bj # NoJob PROVE FALSE
    <3>1. bj.uid = 1
      BY <1>0, <2>2 DEF BuildJobs
    <3>2. pr[n].uid \in 0..1 /\ pr[n].uid # 0
      BY <1>0, <1>4, <2>2 DEF Collect, Existing, NumberInv, RunRecords
    <3> QED
      BY <1>4, <3>1, <3>2 DEF Collect
  <2> QED
    BY <2>1, <2>2
<1>5. \A n \in Runs : ~Prune(n)
  BY NoneIsPruned DEF NumberInv
<1>6. Reconcile \/ Fault \/ User \/ UNCHANGED vars => UNCHANGED pr
  BY DEF Reconcile, ReconcileStart, FetchRun, FindActive, Prepare, WriteStatus, WriteRefused,
         Fault, FindFails, RequestFails, WriteFails, Restart, User, HandleCreateNew,
         HandleCreateExisting, HandleRun, HandleDelete, AnnotateRunAt, PatchSpec, UserStep, store, vars
<1>7. Environment => \/ UNCHANGED pr
                     \/ \E n \in Runs : TektonStarts(n) \/ TektonEnds(n) \/ Collect(n)
  BY <1>5 DEF Environment, CacheSync, FlipPVC, Tick, Resync, store
<1> QED
  BY <1>1, <1>3, <1>4, <1>6, <1>7 DEF Next, Existing

(* The reconciler keeps count. *)
LEMMA ReconcileNumbered ==
    ASSUME TypeInv, NumberInv, MaxUid = 1, bj # NoJob, Reconcile
    PROVE  Numbered'
<1>0. /\ TypeOK /\ WorkerOK /\ Numbered /\ Count \in Nat
      /\ pc # "idle" => copy \in BuildJobs
  BY ExistingIsCounted DEF TypeInv, WorkerOK, NumberInv, Count
<1>n. [Next]_vars
  BY DEF Next
<1>k. ASSUME ~CreateRun PROVE Existing' = Existing /\ Count' = Count
  <2>1. Existing' = Existing
    BY <1>k, <1>n, ExistingStays
  <2> QED
    BY <2>1 DEF Count
<1>1. CASE ReconcileStart
  <2>1. ~CreateRun /\ UNCHANGED <<bj, cached>>
    BY <1>1 DEF ReconcileStart, CreateRun, store
  <2>2. CASE cached = NoJob
    BY <1>0, <1>1, <1>k, <2>1, <2>2 DEF ReconcileStart, worker, Numbered
  <2>3. CASE cached # NoJob
    <3>1. copy' = cached /\ pc' \in {"find", "fetch"}
      BY <1>1, <2>3 DEF ReconcileStart
    <3> QED
      BY <1>0, <1>k, <2>1, <2>3, <3>1 DEF Numbered
  <2> QED
    BY <2>2, <2>3
<1>2. CASE FetchRun
  <2> DEFINE n == copy.status.current
  <2>1. /\ ~CreateRun /\ UNCHANGED <<bj, cached, copy>> /\ pc = "fetch" /\ pc' = "write"
        /\ copy \in BuildJobs /\ n \in Runs /\ pr[n] \in RunRecords
    BY <1>0, <1>2 DEF FetchRun, Intend, CreateRun, store, WorkerOK, TypeOK
  <2>2. \/ next' = SyncStatus(copy, n, pr[n], clock)
        \/ next' = FailedStatus(copy, "PipelineRunNotFound", clock)
    BY <1>2 DEF FetchRun, Intend
  <2>3. next'.runCount = copy.status.runCount
    BY <2>1, <2>2, RunCounts
  <2> QED
    BY <1>0, <1>k, <2>1, <2>3 DEF Numbered
<1>3. CASE FindActive
  <2>1. /\ ~CreateRun /\ UNCHANGED <<bj, cached, copy>> /\ pc = "find" /\ copy \in BuildJobs
    BY <1>0, <1>3 DEF FindActive, Intend, CreateRun, store
  <2>2. CASE pc' = "prepare"
    BY <1>0, <1>k, <2>1, <2>2 DEF Numbered
  <2>3. CASE \E n \in ActiveRuns : Intend("adopt", n, AdoptStatus(copy, n, pr[n], clock))
    <3>1. PICK n \in ActiveRuns : Intend("adopt", n, AdoptStatus(copy, n, pr[n], clock))
      BY <2>3
    <3>2. n \in Runs /\ pr[n] \in RunRecords
      BY <1>0 DEF ActiveRuns, TypeOK
    <3>3. pc' = "write" /\ next'.runCount = copy.status.runCount
      BY <2>1, <3>1, <3>2, RunCounts DEF Intend
    <3> QED
      BY <1>0, <1>k, <2>1, <3>3 DEF Numbered
  <2> QED
    BY <1>3, <2>2, <2>3 DEF FindActive
<1>4. CASE Prepare
  <2> DEFINE why == Rejection(copy, pvcs)
  <2>1. /\ ~CreateRun /\ UNCHANGED <<bj, cached, copy>> /\ pc = "prepare" /\ copy \in BuildJobs
    BY <1>0, <1>4 DEF Prepare, CreateRun
  <2>2. CASE why # ""
    <3>1. pc' = "write" /\ next' = FailedStatus(copy, why, clock)
      BY <1>4, <2>2 DEF Prepare, Intend
    <3>2. next'.runCount = copy.status.runCount
      BY <2>1, <3>1 DEF FailedStatus, BuildJobs, StatusType
    <3> QED
      BY <1>0, <1>k, <2>1, <3>1, <3>2 DEF Numbered
  <2>3. CASE why = ""
    <3>1. ~Spend("list")
      BY DEF NumberInv, Spend
    <3>2. pc' = "create" /\ run' = NextRunNumber(copy, Count)
      BY <1>4, <2>3, <3>1 DEF Prepare, Count
    <3>3. copy.status.runCount \in Nat /\ copy.status.runCount <= Count
      BY <1>0, <2>1 DEF Numbered, BuildJobs, StatusType
    <3>4. run' = Count + 1
      BY <1>0, <3>2, <3>3 DEF NextRunNumber
    <3> QED
      BY <1>0, <1>k, <2>1, <3>2, <3>4 DEF Numbered
  <2> QED
    BY <2>2, <2>3
<1>5. CASE CreateRun
  <2>1. /\ pc = "create" /\ run = Count + 1 /\ run \in Runs /\ copy \in BuildJobs
        /\ UNCHANGED <<bj, cached>>
    BY <1>0, <1>5 DEF CreateRun, Numbered, WorkerOK
  <2>2. ~pr[run].exists
    BY <1>0, <2>1 DEF Numbered, Existing
  <2>3. /\ pc' = "write" /\ next' = CreatedStatus(copy, run, clock) /\ copy' = copy
    BY <1>5, <2>2 DEF CreateRun, Intend
  <2>4. next'.runCount = run
    BY <2>1, <2>3 DEF CreatedStatus, BuildJobs, StatusType
  <2>5. Existing' = 1..(Count + 1)
    <3>1. Existing' = Existing \cup {run}
      BY <1>0, <1>5, <2>1, <2>2 DEF CreateRun, Existing, TypeOK
    <3> QED
      BY <1>0, <2>1, <3>1 DEF Numbered
  <2>6. Count' = Count + 1
    BY <1>0, <2>5, FS_Interval DEF Count
  <2>7. /\ bj.status.runCount \in Nat /\ copy.status.runCount \in Nat
        /\ cached # NoJob => cached.status.runCount \in Nat
    BY <1>0, <2>1 DEF TypeOK, BuildJobs, StatusType
  <2> QED
    BY <1>0, <2>1, <2>3, <2>4, <2>5, <2>6, <2>7 DEF Numbered
<1>6. CASE WriteStatus
  <2>1. /\ ~CreateRun /\ cached' = cached /\ pc = "write" /\ pc' = "idle"
        /\ bj = copy /\ bj' = [copy EXCEPT !.status = next] /\ copy \in BuildJobs
    BY <1>0, <1>6 DEF WriteStatus, Finish, CreateRun, WorkerOK
  <2>2. bj'.status = next
    BY <2>1 DEF BuildJobs
  <2> QED
    BY <1>0, <1>k, <2>1, <2>2 DEF Numbered
<1>7. CASE WriteRefused
  <2>1. ~CreateRun /\ UNCHANGED <<bj, cached>> /\ pc' = "idle"
    BY <1>7 DEF WriteRefused, Finish, CreateRun, store
  <2> QED
    BY <1>0, <1>k, <2>1 DEF Numbered
<1> QED
  BY <1>1, <1>2, <1>3, <1>4, <1>5, <1>6, <1>7 DEF Reconcile

(* So does everyone else. *)
LEMMA NumberedStep ==
    ASSUME TypeInv, NumberInv, MaxUid = 1, [Next]_vars, bj' # NoJob
    PROVE  Numbered'
<1>1. CASE bj = NoJob
  <2>1. User
    <3>1. CASE bj' = bj
      BY <1>1, <3>1
    <3>2. CASE WriteStatus
      BY <1>1, <3>2, NoJobIsNoBuildJob DEF WriteStatus, TypeInv, WorkerOK
    <3>3. CASE Reconcile /\ ~WriteStatus
      BY <3>1, <3>3 DEF Reconcile, ReconcileStart, FetchRun, FindActive, Prepare, CreateRun,
                        WriteRefused, store
    <3>4. CASE Fault
      BY <3>1, <3>4 DEF Fault, FindFails, RequestFails, WriteFails, Restart, store
    <3> QED
      BY <3>1, <3>2, <3>3, <3>4, EnvironmentKeeps DEF Next, vars
  <2>2. HandleCreateNew
    BY <1>1, <2>1 DEF User, HandleCreateExisting, HandleRun, HandleDelete, AnnotateRunAt, PatchSpec
  <2>3. uids = 0
    BY <2>2 DEF HandleCreateNew, TypeInv, TypeOK
  <2>4. Existing' = {} /\ cached' = NoJob /\ pc' = "idle"
    BY <2>2, <2>3 DEF HandleCreateNew, UserStep, NumberInv, NothingYet, Existing
  <2>5. bj'.status.runCount = 0
    <3>1. PICK sp \in Specs : bj' = [uid |-> uids', gen |-> 1, spec |-> sp,
                                     runAt |-> 0, status |-> EmptyStatus]
      BY <2>2 DEF HandleCreateNew, Store
    <3>2. bj'.status = EmptyStatus
      BY <3>1
    <3>3. EmptyStatus.runCount = 0
      BY DEF EmptyStatus
    <3> QED
      BY <3>2, <3>3
  <2>6. Count' = 0
    BY <2>4, FS_EmptySet DEF Count
  <2> QED
    BY <2>4, <2>5, <2>6 DEF Numbered
<1>2. CASE bj # NoJob /\ ~Reconcile
  <2>0. /\ Numbered /\ ~CreateRun
    BY <1>2 DEF NumberInv, Reconcile
  <2>1. Existing' = Existing /\ Count' = Count
    <3>1. Existing' = Existing
      BY <1>2, <2>0, ExistingStays
    <3> QED
      BY <3>1 DEF Count
  <2>2. CASE Fault
    <3>1. CASE Restart
      BY <2>0, <2>1, <3>1 DEF Restart, store, Numbered
    <3>2. CASE FindFails
      BY <2>0, <2>1, <3>2 DEF FindFails, store, Numbered
    <3>3. CASE RequestFails \/ WriteFails
      BY <2>0, <2>1, <3>3 DEF RequestFails, WriteFails, Finish, store, Numbered
    <3> QED
      BY <2>2, <3>1, <3>2, <3>3 DEF Fault
  <2>3. CASE User
    <3>1. UserStep /\ bj'.status = bj.status
      BY <1>2, <2>3, UserWrites DEF Edited, Created, Deleted
    <3> QED
      BY <2>0, <2>1, <3>1 DEF UserStep, Numbered
  <2>4. CASE Environment
    <3>1. UNCHANGED <<bj, worker>>
      BY <2>4, EnvironmentKeeps
    <3>2. cached' = bj \/ cached' = cached
      BY <2>4 DEF Environment, TektonStarts, TektonEnds, Prune, Collect, RunEvent, CacheSync,
                  FlipPVC, Tick, Resync
    <3> QED
      BY <2>0, <2>1, <3>1, <3>2 DEF worker, Numbered
  <2>5. CASE UNCHANGED vars
    BY <2>0, <2>1, <2>5 DEF vars, Numbered
  <2> QED
    BY <1>2, <2>2, <2>3, <2>4, <2>5 DEF Next
<1> QED
  BY <1>1, <1>2, ReconcileNumbered

(* The rest of the invariant. *)
LEMMA NumberStep ==
    ASSUME TypeInv, NumberInv, MaxUid = 1, [Next]_vars
    PROVE  NumberInv'
<1>0. TypeOK /\ WorkerOK
  BY DEF TypeInv
<1>1. budget'["list"] = 0 /\ budget'["prune"] = 0
  BY NoListFails, NoneIsPruned DEF NumberInv
<1>2. \A n \in Existing' : pr'[n].uid # 0
  <2>1. CASE CreateRun
    <3>1. copy \in BuildJobs /\ run \in Runs
      BY <1>0, <2>1 DEF CreateRun, WorkerOK
    <3>2. copy.uid # 0
      BY <3>1, BoundsAssumption DEF BuildJobs
    <3>3. CASE pr[run].exists
      BY <2>1, <3>3 DEF CreateRun, NumberInv, Existing
    <3>4. CASE ~pr[run].exists
      BY <1>0, <2>1, <3>1, <3>2, <3>4 DEF CreateRun, NumberInv, Existing, TypeOK
    <3> QED
      BY <3>3, <3>4
  <2>2. CASE ~CreateRun
    BY <2>2, ExistingStays DEF NumberInv
  <2> QED
    BY <2>1, <2>2
<1>3. uids' = 0 => NothingYet'
  <2> SUFFICES ASSUME uids' = 0 PROVE NothingYet'
    OBVIOUS
  <2>1. ~HandleCreateNew
    BY <1>0 DEF HandleCreateNew, TypeOK
  <2>2. uids = 0
    <3>1. Reconcile \/ Fault \/ Environment \/ UNCHANGED vars => uids' = uids
      BY DEF Reconcile, ReconcileStart, FetchRun, FindActive, Prepare, CreateRun, WriteStatus,
             WriteRefused, Fault, FindFails, RequestFails, WriteFails, Restart, Environment,
             TektonStarts, TektonEnds, Prune, Collect, RunEvent, CacheSync, FlipPVC, Tick, Resync,
             store, vars
    <3>2. User => uids' = uids
      BY <2>1 DEF User, HandleCreateExisting, HandleRun, HandleDelete, AnnotateRunAt, PatchSpec
    <3> QED
      BY <3>1, <3>2 DEF Next
  <2>3. NothingYet
    BY <2>2 DEF NumberInv
  <2>4. ~CreateRun /\ ~User
    BY <2>1, <2>3 DEF NothingYet, CreateRun, User, HandleCreateExisting, HandleRun, HandleDelete,
                      AnnotateRunAt, PatchSpec
  <2>5. Existing' = {}
    BY <2>3, <2>4, ExistingStays DEF NothingYet
  <2>6. CASE Reconcile
    BY <2>3, <2>5, <2>6 DEF NothingYet, Reconcile, ReconcileStart, FetchRun, FindActive, Prepare,
                            CreateRun, WriteStatus, WriteRefused, store, worker
  <2>7. CASE Fault
    BY <2>3, <2>5, <2>7 DEF NothingYet, Fault, FindFails, RequestFails, WriteFails, Restart, Finish,
                            store
  <2>8. CASE Environment
    <3>1. UNCHANGED <<bj, worker>>
      BY <2>8, EnvironmentKeeps
    <3>2. cached' = bj \/ cached' = cached
      BY <2>8 DEF Environment, TektonStarts, TektonEnds, Prune, Collect, RunEvent, CacheSync,
                  FlipPVC, Tick, Resync
    <3> QED
      BY <2>3, <2>5, <3>1, <3>2 DEF NothingYet, worker
  <2>9. CASE UNCHANGED vars
    BY <2>3, <2>5, <2>9 DEF NothingYet, vars
  <2> QED
    BY <2>4, <2>6, <2>7, <2>8, <2>9 DEF Next
<1>4. bj' # NoJob => Numbered'
  BY NumberedStep
<1> QED
  BY <1>1, <1>2, <1>3, <1>4 DEF NumberInv

(* While no run is deleted, no List fails and the name is used once, no    *)
(* Create is refused: also when status updates were lost after a Create,   *)
(* runs were adopted without being counted, or outdated counts were read.  *)
THEOREM CreateIsFree ==
    ASSUME MaxUid = 1, MaxPrunes = 0, MaxListErrors = 0
    PROVE  Spec => []CreateFindsFreeName
<1>1. Init => NumberInv
  BY DEF Init, NumberInv, NothingYet, Existing, NoRun
<1>2. TypeInv /\ NumberInv => CreateFindsFreeName
  <2> SUFFICES ASSUME TypeInv, NumberInv, bj # NoJob, pc = "create" PROVE ~pr[run].exists
    BY DEF CreateFindsFreeName
  <2>1. run = Count + 1 /\ Existing = 1..Count /\ run \in Runs /\ Count \in Nat
    BY ExistingIsCounted DEF NumberInv, Numbered, TypeInv, WorkerOK, Count
  <2> QED
    BY <2>1 DEF Existing
<1> QED
  BY <1>1, <1>2, NumberStep, TypeInvariance, PTL DEF Spec

-----------------------------------------------------------------------------
(* No wake-up is lost.  By itself that is not inductive: an outcome that   *)
(* is about to be written must be that of a job without a trigger, or a    *)
(* rejection.                                                              *)

Rejected(st) == st.phase = "Failed" /\ st.reason \in Rejections

OutcomeAnswers == pc = "write" /\ Over(next.phase) => ~NeedsNewRun(copy) \/ Rejected(next)

WakeInv == NothingForgotten /\ OutcomeAnswers

(* While the worker holds the key, nothing is forgotten. *)
LEMMA BusyWakeInv ==
    ASSUME pc' # "idle" \/ queued', OutcomeAnswers'
    PROVE  WakeInv'
  BY DEF WakeInv, NothingForgotten

(* A reconcile that ends and comes back. *)
LEMMA RetryWakeInv ==
    ASSUME Finish(TRUE)
    PROVE  WakeInv'
  BY DEF Finish, WakeInv, NothingForgotten, OutcomeAnswers

(* The status update of a reconcile that does not come back. *)
LEMMA WriteWakeInv ==
    ASSUME TypeInv, TriggerInv, WakeInv, WriteStatus
    PROVE  WakeInv'
<1>1. /\ bj = copy /\ copy \in BuildJobs /\ next \in StatusType
      /\ pc = "write" /\ pc' = "idle"
      /\ queued' = (queued \/ next.phase \in {"Pending", "Running"})
  BY DEF WriteStatus, Finish, TypeInv, WorkerOK, TypeOK
<1>2. bj' = [copy EXCEPT !.status = next] /\ bj'.status = next
  BY <1>1, DueAfterStatus DEF WriteStatus
<1>3. OutcomeAnswers'
  BY <1>1 DEF OutcomeAnswers
<1>4. ASSUME ~queued' PROVE ~Unanswered'
  <2>1. next.phase \in Phases /\ next.phase # "" /\ next.phase \notin {"Pending", "Running"}
    BY <1>1, <1>4 DEF TriggerInv, Written, StatusType
  <2>2. Over(next.phase)
    BY <2>1 DEF Phases, Over
  <2>3. ~Serving
    BY <1>1, <2>1 DEF TriggerInv, Written
  <2>4. NeedsNewRun(bj') <=> NeedsNewRun(copy)
    <3>1. next.current = copy.status.current /\ next.lastRunAt = copy.status.lastRunAt
      BY <1>1, <2>3 DEF TriggerInv, Written
    <3> QED
      BY <1>1, <1>2, <3>1, DueAfterStatus
  <2>5. ~NeedsNewRun(copy) \/ Rejected(next)
    BY <1>1, <2>2 DEF WakeInv, OutcomeAnswers
  <2> QED
    BY <1>2, <2>2, <2>4, <2>5 DEF Unanswered, Over, Rejected, Rejections
<1> QED
  BY <1>3, <1>4 DEF WakeInv, NothingForgotten

(* The steps of the reconciler. *)
LEMMA ReconcileWakeInv ==
    ASSUME TypeInv, TriggerInv, WakeInv, Reconcile
    PROVE  WakeInv'
<1>1. CASE ReconcileStart
  <2>1. pc = "idle" /\ UNCHANGED <<bj, cacheFresh>> /\ (cacheFresh => cached = bj)
    BY <1>1 DEF ReconcileStart, store, TypeInv, CacheOK
  <2>2. CASE cached = NoJob
    BY <1>1, <2>1, <2>2
       DEF ReconcileStart, worker, WakeInv, NothingForgotten, Unanswered, OutcomeAnswers
  <2>3. CASE cached # NoJob
    <3>1. pc' \in {"find", "fetch"}
      BY <1>1, <2>3 DEF ReconcileStart
    <3> QED
      BY <3>1, BusyWakeInv DEF OutcomeAnswers
  <2> QED
    BY <2>2, <2>3
<1>2. CASE FetchRun
  <2>1. ~NeedsNewRun(copy) /\ copy' = copy /\ pc' = "write"
    BY <1>2 DEF FetchRun, Intend, TriggerInv, Decided
  <2> QED
    BY <2>1, BusyWakeInv DEF OutcomeAnswers, NeedsNewRun
<1>3. CASE FindActive
  <2>1. copy \in BuildJobs
    BY <1>3 DEF FindActive, TypeInv, WorkerOK
  <2>2. CASE pc' = "prepare"
    BY <2>2, BusyWakeInv DEF OutcomeAnswers
  <2>3. ASSUME NEW n \in ActiveRuns, Intend("adopt", n, AdoptStatus(copy, n, pr[n], clock))
        PROVE  WakeInv'
    <3>1. n \in Runs /\ pr[n] \in RunRecords /\ Active(pr[n])
      BY DEF ActiveRuns, TypeInv, TypeOK
    <3>2. next'.phase \in {"Pending", "Running"} /\ pc' = "write"
      BY <2>1, <2>3, <3>1, AdoptFields DEF Intend
    <3> QED
      BY <3>2, BusyWakeInv DEF OutcomeAnswers, Over
  <2> QED
    BY <1>3, <2>2, <2>3 DEF FindActive
<1>4. CASE Prepare
  <2> DEFINE why == Rejection(copy, pvcs)
  <2>1. CASE why # ""
    <3>1. Intend("reject", 0, FailedStatus(copy, why, clock)) /\ copy \in BuildJobs
      BY <1>4, <2>1 DEF Prepare, TypeInv, WorkerOK
    <3>2. next'.phase = "Failed" /\ next'.reason = why /\ pc' = "write"
      BY <3>1, FailedFields DEF Intend
    <3>3. why \in Rejections
      BY <2>1 DEF Rejection, Rejections
    <3> QED
      BY <3>2, <3>3, BusyWakeInv DEF OutcomeAnswers, Rejected
  <2>2. CASE why = ""
    BY <1>4, <2>2, BusyWakeInv DEF Prepare, OutcomeAnswers
  <2> QED
    BY <2>1, <2>2
<1>5. CASE CreateRun
  <2>1. CASE pr[run].exists
    BY <1>5, <2>1, RetryWakeInv DEF CreateRun
  <2>2. CASE ~pr[run].exists
    <3>1. Intend("created", run, CreatedStatus(copy, run, clock)) /\ copy \in BuildJobs
      BY <1>5, <2>2 DEF CreateRun, TypeInv, WorkerOK
    <3>2. next'.phase = "Pending" /\ pc' = "write"
      BY <3>1, CreatedFields DEF Intend
    <3> QED
      BY <3>2, BusyWakeInv DEF OutcomeAnswers, Over
  <2> QED
    BY <2>1, <2>2
<1>6. CASE WriteStatus
  BY <1>6, WriteWakeInv
<1>7. CASE WriteRefused
  BY <1>7, RetryWakeInv DEF WriteRefused
<1> QED
  BY <1>1, <1>2, <1>3, <1>4, <1>5, <1>6, <1>7 DEF Reconcile

(* Faults come back; users leave an event in the watch; the rest of the    *)
(* environment changes nothing that is asked, or queues the key.           *)
LEMMA OtherWakeInv ==
    ASSUME TypeInv, WakeInv, Fault \/ User \/ Environment
    PROVE  WakeInv'
<1>1. CASE FindFails
  BY <1>1, BusyWakeInv DEF FindFails, OutcomeAnswers
<1>2. CASE RequestFails \/ WriteFails
  BY <1>2, RetryWakeInv DEF RequestFails, WriteFails
<1>3. CASE Restart
  BY <1>3 DEF Restart, store, WakeInv, NothingForgotten, Unanswered, OutcomeAnswers
<1>4. CASE User
  <2>1. UNCHANGED <<queued, pc, copy, next>>
    BY <1>4, UserWrites DEF UserStep
  <2>2. (bj' = bj /\ cacheFresh' = cacheFresh) \/ ~cacheFresh'
    BY <1>4 DEF User, HandleCreateNew, HandleCreateExisting, HandleRun, HandleDelete,
                AnnotateRunAt, PatchSpec, Store
  <2> QED
    BY <2>1, <2>2 DEF WakeInv, NothingForgotten, Unanswered, OutcomeAnswers, NeedsNewRun
<1>5. CASE Environment
  <2>1. UNCHANGED <<bj, pc, copy, next>>
    BY <1>5, EnvironmentKeeps DEF worker
  <2>2. queued' \/ UNCHANGED <<queued, cacheFresh>>
    BY <1>5 DEF Environment, TektonStarts, TektonEnds, Prune, Collect, RunEvent, CacheSync,
                FlipPVC, Tick, Resync
  <2> QED
    BY <2>1, <2>2 DEF WakeInv, NothingForgotten, Unanswered, OutcomeAnswers, NeedsNewRun
<1> QED
  BY <1>1, <1>2, <1>3, <1>4, <1>5 DEF Fault

(* A BuildJob with a trigger to answer or an outcome to wait for is never  *)
(* left with nothing to wake its reconciler, whatever fails, crashes, is   *)
(* edited meanwhile, or is read from an outdated cache.                    *)
THEOREM NothingIsForgotten == Spec => []NothingForgotten
<1>1. Init => WakeInv
  BY DEF Init, WakeInv, NothingForgotten, Unanswered, OutcomeAnswers
<1>2. TypeInv /\ TriggerInv /\ WakeInv /\ [Next]_vars => WakeInv'
  <2> SUFFICES ASSUME TypeInv, TriggerInv, WakeInv, [Next]_vars PROVE WakeInv'
    OBVIOUS
  <2>1. CASE UNCHANGED vars
    BY <2>1 DEF vars, WakeInv, NothingForgotten, Unanswered, OutcomeAnswers, NeedsNewRun
  <2> QED
    BY <2>1, ReconcileWakeInv, OtherWakeInv DEF Next
<1>3. WakeInv => NothingForgotten
  BY DEF WakeInv
<1> QED
  BY <1>1, <1>2, <1>3, TypeInvariance, TriggerInvariance, PTL DEF Spec
=============================================================================
