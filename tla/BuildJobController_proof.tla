---------------------- MODULE BuildJobController_proof ----------------------
(***************************************************************************)
(* Proofs about the BuildJob reconciler: type correctness, that a BuildJob *)
(* has at most one PipelineRun in progress, or as many more as Lists       *)
(* failed.                                                                 *)
(***************************************************************************)
EXTENDS BuildJobController, FiniteSetTheorems, TLAPS

-----------------------------------------------------------------------------
(* What the status operators return. *)

(* Every status the reconciler computes from a PipelineRun is a status. *)
LEMMA SyncStatusType ==
    ASSUME NEW b \in BuildJobs, NEW n \in 0..MaxRun, NEW r \in RunRecords, NEW t \in Times
    PROVE  SyncStatus(b, n, r, t) \in StatusType
<1>1. PhaseOf(r) \in Phases
  BY DEF PhaseOf, RunRecords, RunStates, Phases
<1>2. b.status \in StatusType /\ b.gen \in 0..MaxGen
  BY BoundsAssumption DEF BuildJobs
<1> QED
  BY <1>1, <1>2 DEF SyncStatus, StatusType, ComputeOCIRef, Reasons

(* A run that is adopted leaves a status, whatever was in it before. *)
LEMMA AdoptStatusType ==
    ASSUME NEW b \in BuildJobs, NEW n \in Runs, NEW r \in RunRecords, NEW t \in Times
    PROVE  AdoptStatus(b, n, r, t) \in StatusType
<1> DEFINE c == [b EXCEPT !.status.current = n, !.status.lastRunAt = b.runAt]
<1>2. n \in 0..MaxRun
  BY BoundsAssumption DEF Runs
<1>3. [b.status EXCEPT !.current = n, !.lastRunAt = b.runAt] \in StatusType
  BY <1>2 DEF BuildJobs, StatusType
<1>4. c = [b EXCEPT !.status = [b.status EXCEPT !.current = n, !.lastRunAt = b.runAt]]
  BY DEF BuildJobs, StatusType
<1>1. c \in BuildJobs
  BY <1>3, <1>4 DEF BuildJobs
<1> QED
  BY <1>1, <1>2, SyncStatusType DEF AdoptStatus

(* The status after a Create is a status. *)
LEMMA CreatedStatusType ==
    ASSUME NEW b \in BuildJobs, NEW n \in Runs, NEW t \in Times
    PROVE  CreatedStatus(b, n, t) \in StatusType
<1>1. n \in 0..MaxRun
  BY BoundsAssumption DEF Runs
<1>2. b.status \in StatusType /\ b.runAt \in Times /\ 0 \in 0..MaxRun
  BY BoundsAssumption DEF BuildJobs
<1>3. "Pending" \in Phases /\ "" \in Reasons
  BY DEF Phases, Reasons
<1> QED
  BY <1>1, <1>2, <1>3 DEF CreatedStatus, StatusType

(* So is the status of a job that is marked Failed. *)
LEMMA FailedStatusType ==
    ASSUME NEW b \in BuildJobs, NEW why \in Reasons, NEW t \in Times
    PROVE  FailedStatus(b, why, t) \in StatusType
  BY DEF FailedStatus, StatusType, BuildJobs, Phases

(* The checks name a reason the status may hold. *)
LEMMA RejectionType ==
    ASSUME NEW b, NEW p
    PROVE  Rejection(b, p) \in Reasons
  BY DEF Rejection, Reasons

(* A run number is positive: it is never the "no run" of the status. *)
LEMMA NextRunNumberPositive ==
    ASSUME NEW b \in BuildJobs, NEW k \in Nat
    PROVE  /\ NextRunNumber(b, k) \in Nat
           /\ NextRunNumber(b, k) > 0
           /\ NextRunNumber(b, k) > b.status.runCount
           /\ NextRunNumber(b, k) > k
<1>1. b.status.runCount \in Nat
  BY DEF BuildJobs, StatusType
<1> QED
  BY <1>1 DEF NextRunNumber

(* The runs that exist can be counted. *)
LEMMA ExistingIsCounted == Cardinality(Existing) \in Nat
<1>1. IsFiniteSet(Runs)
  BY FS_Interval, BoundsAssumption DEF Runs
<1>2. Existing \in SUBSET Runs
  BY DEF Existing
<1>3. IsFiniteSet(Existing)
  BY <1>1, <1>2, FS_Subset
<1> QED
  BY <1>3, FS_CardinalityType

-----------------------------------------------------------------------------
(* Type correctness.  TypeOK is not inductive: a write puts next into bj,  *)
(* a create uses run as a run number, and both need to know where the      *)
(* worker is.                                                              *)

WorkerOK ==
    /\ pc # "idle" => copy \in BuildJobs
    /\ copyFresh => pc # "idle" /\ bj = copy
    /\ pc = "create" => run \in Runs
    /\ pc = "fetch" => copy.status.current \in Runs

CacheOK == cacheFresh => cached = bj

TypeInv == TypeOK /\ WorkerOK /\ CacheOK

(* The reconciler finds, or does not find, a run to report on. *)
LEMMA NoJobIsNoBuildJob == NoJob \notin BuildJobs
  BY DEF NoJob, BuildJobs

LEMMA EmptyStatusType == EmptyStatus \in StatusType
  BY BoundsAssumption DEF EmptyStatus, StatusType, Phases, Reasons, Times

(* The initial states are well typed. *)
LEMMA InitTypeInv == Init => TypeInv
<1> SUFFICES ASSUME Init PROVE TypeInv
  OBVIOUS
<1>1. pr \in [Runs -> RunRecords]
  BY BoundsAssumption DEF Init, NoRun, RunRecords, RunStates, Times
<1>2. budget \in [Events -> Nat]
  BY BudgetAssumption DEF Init, Events
<1>5. cacheFresh \in BOOLEAN /\ queued \in BOOLEAN /\ copyFresh \in BOOLEAN
  BY DEF Init
<1>6. /\ uids \in 0..MaxUid /\ clock \in 1..MaxTime /\ run \in 0..MaxRun
      /\ activeBuilds \in Int /\ pvcs \subseteq {"source", "cache"}
  BY BoundsAssumption DEF Init
<1>7. pc \in PCs /\ intent \in Intents
  BY DEF Init, PCs, Intents
<1>3. TypeOK
  BY <1>1, <1>2, <1>5, <1>6, <1>7, EmptyStatusType DEF Init, TypeOK
<1>4. WorkerOK
  BY DEF Init, WorkerOK
<1> QED
  BY <1>3, <1>4 DEF TypeInv, CacheOK, Init

(* Spending an event leaves a budget. *)
LEMMA SpendType ==
    ASSUME NEW e \in Events, budget \in [Events -> Nat], Spend(e)
    PROVE  budget' \in [Events -> Nat]
<1>1. budget[e] - 1 \in Nat
  BY DEF Spend
<1> QED
  BY <1>1 DEF Spend

(* A reconcile that ends leaves an idle worker. *)
LEMMA FinishType ==
    ASSUME NEW later \in BOOLEAN, queued \in BOOLEAN, Finish(later)
    PROVE  /\ pc' \in PCs /\ copy' \in BuildJobs \cup {NoJob} /\ copyFresh' \in BOOLEAN
           /\ run' \in 0..MaxRun /\ next' \in StatusType /\ intent' \in Intents
           /\ queued' \in BOOLEAN
           /\ WorkerOK'
<1>1. queued' \in BOOLEAN /\ copyFresh' \in BOOLEAN
  BY DEF Finish
<1>2. pc' \in PCs /\ run' \in 0..MaxRun /\ next' \in StatusType /\ intent' \in Intents
  BY EmptyStatusType, BoundsAssumption DEF Finish, PCs, Intents
<1>3. WorkerOK'
  BY DEF Finish, WorkerOK
<1> QED
  BY <1>1, <1>2, <1>3 DEF Finish

(* Writing the status of a job, or the job itself. *)
LEMMA StoreType ==
    ASSUME NEW new \in BuildJobs \cup {NoJob}, TypeInv, Store(new),
           UNCHANGED <<pc, copy, run, cached>>
    PROVE  /\ bj' \in BuildJobs \cup {NoJob}
           /\ cacheFresh' \in BOOLEAN /\ copyFresh' \in BOOLEAN
           /\ WorkerOK' /\ CacheOK'
<1>1. CASE new = bj
  BY <1>1 DEF Store, TypeInv, TypeOK, WorkerOK, CacheOK
<1>2. CASE new # bj
  BY <1>2 DEF Store, TypeInv, TypeOK, WorkerOK, CacheOK
<1> QED
  BY <1>1, <1>2

(* A status that is about to be written is well typed, and the worker      *)
(* remembers the job it belongs to.                                        *)
LEMMA IntendType ==
    ASSUME NEW what \in Intents, NEW n \in 0..MaxRun, NEW status \in StatusType,
           TypeInv, pc # "idle", Intend(what, n, status), UNCHANGED <<bj, copy, copyFresh>>
    PROVE  /\ pc' \in PCs /\ intent' \in Intents /\ run' \in 0..MaxRun
           /\ next' \in StatusType
           /\ WorkerOK'
  BY DEF Intend, PCs, TypeInv, WorkerOK

(* The steps of the reconciler keep the types. *)
LEMMA ReconcileTypeInv ==
    ASSUME TypeInv, Reconcile
    PROVE  TypeInv'
<1>0. TypeOK /\ WorkerOK /\ CacheOK
  BY DEF TypeInv
<1>w. pc # "idle" => copy \in BuildJobs
  BY <1>0 DEF WorkerOK
<1>1. CASE ReconcileStart
  <2>1. budget' \in [Events -> Nat]
    BY <1>0, <1>1, SpendType DEF ReconcileStart, TypeOK, Events
  <2>3. CASE cached = NoJob
    BY <1>0, <1>1, <2>1, <2>3 DEF ReconcileStart, TypeInv, TypeOK, WorkerOK, CacheOK, store, worker
  <2>4. CASE cached # NoJob
    <3>1. cached \in BuildJobs /\ copy' = cached
      BY <1>0, <1>1, <2>4 DEF ReconcileStart, TypeOK
    <3>2. pc' \in PCs /\ copyFresh' \in BOOLEAN /\ queued' \in BOOLEAN
      BY <1>0, <1>1, <2>4 DEF ReconcileStart, TypeOK, PCs
    <3>3. TypeOK'
      BY <1>0, <1>1, <2>1, <2>4, <3>1, <3>2 DEF ReconcileStart, TypeOK, store
    <3>4. pc' = "fetch" => copy'.status.current \in Runs
      BY <1>1, <2>4, <3>1, BoundsAssumption
         DEF ReconcileStart, NeedsNewRun, BuildJobs, StatusType, Runs
    <3>5. pc' \in {"find", "fetch"} /\ copyFresh' = cacheFresh /\ bj' = bj
      BY <1>1, <2>4 DEF ReconcileStart, store
    <3>6. WorkerOK'
      BY <1>0, <3>1, <3>4, <3>5 DEF WorkerOK, CacheOK
    <3>7. CacheOK'
      BY <1>0, <1>1 DEF ReconcileStart, CacheOK, store
    <3> QED
      BY <3>3, <3>6, <3>7 DEF TypeInv
  <2> QED
    BY <2>3, <2>4
<1>2. CASE FetchRun
  <2> DEFINE n == copy.status.current
  <2>1. n \in Runs /\ copy \in BuildJobs /\ pr[n] \in RunRecords /\ clock \in Times
    BY <1>0, <1>2 DEF FetchRun, WorkerOK, TypeOK, Times
  <2>2. PICK what \in Intents, status \in StatusType : Intend(what, n, status)
    <3>1. CASE pr[n].exists
      <4>1. SyncStatus(copy, n, pr[n], clock) \in StatusType
        BY <2>1, SyncStatusType, BoundsAssumption DEF Runs
      <4> QED
        BY <1>2, <3>1, <4>1 DEF FetchRun, Intents
    <3>2. CASE ~pr[n].exists
      <4>1. FailedStatus(copy, "PipelineRunNotFound", clock) \in StatusType
        BY <2>1, FailedStatusType DEF Reasons
      <4> QED
        BY <1>2, <3>2, <4>1 DEF FetchRun, Intents
    <3> QED
      BY <3>1, <3>2
  <2>3. /\ pc' \in PCs /\ intent' \in Intents /\ run' \in 0..MaxRun
        /\ next' \in StatusType /\ WorkerOK'
    BY <1>2, <2>1, <2>2, IntendType, BoundsAssumption DEF FetchRun, store, Runs
  <2> QED
    BY <1>0, <1>2, <2>3 DEF FetchRun, TypeInv, TypeOK, CacheOK, store
<1>3. CASE FindActive
  <2>1. copy \in BuildJobs /\ clock \in Times
    BY <1>0, <1>w, <1>3 DEF FindActive, TypeOK, Times
  <2>2. CASE ActiveRuns = {} /\ pc' = "prepare" /\ UNCHANGED <<run, next, intent>>
    BY <1>0, <1>3, <2>1, <2>2
       DEF FindActive, TypeInv, TypeOK, WorkerOK, CacheOK, PCs, store
  <2>3. CASE \E n \in ActiveRuns : Intend("adopt", n, AdoptStatus(copy, n, pr[n], clock))
    <3>1. PICK n \in ActiveRuns : Intend("adopt", n, AdoptStatus(copy, n, pr[n], clock))
      BY <2>3
    <3>2. n \in Runs /\ pr[n] \in RunRecords
      BY <1>0 DEF ActiveRuns, TypeOK
    <3>3. AdoptStatus(copy, n, pr[n], clock) \in StatusType
      BY <2>1, <3>2, AdoptStatusType
    <3>4. /\ pc' \in PCs /\ intent' \in Intents /\ run' \in 0..MaxRun
          /\ next' \in StatusType /\ WorkerOK'
      BY <1>3, <3>1, <3>2, <3>3, IntendType, BoundsAssumption DEF FindActive, store, Runs, Intents
    <3> QED
      BY <1>0, <1>3, <3>4 DEF FindActive, TypeInv, TypeOK, CacheOK, store
  <2> QED
    BY <1>3, <2>2, <2>3 DEF FindActive
<1>4. CASE Prepare
  <2> DEFINE why == Rejection(copy, pvcs)
  <2>0. pc = "prepare" /\ UNCHANGED <<bj, copy, copyFresh>>
    BY <1>4 DEF Prepare
  <2>1. copy \in BuildJobs /\ clock \in Times
    BY <1>0, <1>w, <2>0 DEF TypeOK, Times
  <2>2. pvcs' \subseteq {"source", "cache"} /\ bj' = bj /\ CacheOK'
    BY <1>0, <1>4 DEF Prepare, EnsureCachePVCs, TypeOK, CacheOK
  <2>3. CASE why # ""
    <3>1. Intend("reject", 0, FailedStatus(copy, why, clock)) /\ UNCHANGED budget
      BY <1>4, <2>3 DEF Prepare
    <3>2. FailedStatus(copy, why, clock) \in StatusType
      BY <2>1, RejectionType, FailedStatusType
    <3>3. /\ pc' \in PCs /\ intent' \in Intents /\ run' \in 0..MaxRun
          /\ next' \in StatusType /\ WorkerOK'
      BY <2>0, <3>1, <3>2, IntendType, BoundsAssumption DEF Intents
    <3> QED
      BY <1>0, <1>4, <2>2, <3>1, <3>3 DEF Prepare, TypeInv, TypeOK
  <2>4. CASE why = ""
    <3>1. /\ pc' = "create" /\ run' <= MaxRun /\ UNCHANGED <<next, intent>>
          /\ \/ run' = NextRunNumber(copy, Cardinality(Existing)) /\ UNCHANGED budget
             \/ run' = copy.status.runCount + 1 /\ Spend("list")
      BY <1>4, <2>4 DEF Prepare
    <3>2. run' \in Nat /\ run' > 0
      BY <2>1, <3>1, NextRunNumberPositive, ExistingIsCounted DEF BuildJobs, StatusType
    <3>3. run' \in Runs /\ run' \in 0..MaxRun
      BY <3>1, <3>2, BoundsAssumption DEF Runs
    <3>4. budget' \in [Events -> Nat]
      BY <1>0, <3>1, SpendType DEF TypeOK, Events
    <3>5. WorkerOK'
      BY <1>0, <1>4, <2>1, <3>1, <3>3 DEF Prepare, WorkerOK
    <3> QED
      BY <1>0, <1>4, <2>2, <3>1, <3>3, <3>4, <3>5 DEF Prepare, TypeInv, TypeOK, PCs
  <2> QED
    BY <2>3, <2>4
<1>5. CASE CreateRun
  <2>1. copy \in BuildJobs /\ clock \in Times /\ run \in Runs
    BY <1>0, <1>w, <1>5 DEF CreateRun, TypeOK, WorkerOK, Times
  <2>2. bj' = bj /\ CacheOK'
    BY <1>0, <1>5 DEF CreateRun, CacheOK
  <2>3. CASE pr[run].exists
    <3>1. Finish(TRUE) /\ UNCHANGED pr
      BY <1>5, <2>3 DEF CreateRun
    <3> QED
      BY <1>0, <1>5, <2>2, <3>1, FinishType DEF CreateRun, TypeInv, TypeOK
  <2>4. CASE ~pr[run].exists
    <3> DEFINE r == [exists |-> TRUE, state |-> "pending", uid |-> copy.uid, gen |-> copy.gen,
                     oci |-> copy.spec.oci = "on", git |-> copy.spec.source = "git",
                     runAt |-> copy.runAt]
    <3>1. /\ pr' = [pr EXCEPT ![run] = r] /\ queued' = TRUE
          /\ Intend("created", run, CreatedStatus(copy, run, clock))
          /\ UNCHANGED <<copy, copyFresh>>
      BY <1>5, <2>4 DEF CreateRun
    <3>2. r \in RunRecords
      <4>1. copy.uid \in 0..MaxUid /\ copy.gen \in 0..MaxGen /\ copy.runAt \in Times
        BY <2>1, BoundsAssumption DEF BuildJobs
      <4>2. (copy.spec.oci = "on") \in BOOLEAN /\ (copy.spec.source = "git") \in BOOLEAN
        OBVIOUS
      <4> QED
        BY <4>1, <4>2 DEF RunRecords, RunStates
    <3>3. pr' \in [Runs -> RunRecords]
      BY <1>0, <2>1, <3>1, <3>2 DEF TypeOK
    <3>4. CreatedStatus(copy, run, clock) \in StatusType /\ run \in 0..MaxRun
      BY <2>1, CreatedStatusType, BoundsAssumption DEF Runs
    <3>5. /\ pc' \in PCs /\ intent' \in Intents /\ run' \in 0..MaxRun
          /\ next' \in StatusType /\ WorkerOK'
      BY <1>5, <2>2, <3>1, <3>4, IntendType DEF CreateRun, Intents
    <3> QED
      BY <1>0, <1>5, <2>2, <3>1, <3>3, <3>5 DEF CreateRun, TypeInv, TypeOK
  <2> QED
    BY <2>3, <2>4
<1>6. CASE WriteStatus
  <2>1. bj = copy /\ copy \in BuildJobs /\ next \in StatusType
    BY <1>0, <1>w, <1>6 DEF WriteStatus, WorkerOK, TypeOK
  <2>2. bj' \in BuildJobs
    BY <1>6, <2>1 DEF WriteStatus, BuildJobs
  <2>3. cacheFresh' \in BOOLEAN /\ CacheOK'
    BY <1>0, <1>6 DEF WriteStatus, TypeOK, CacheOK
  <2>4. Gauge \in Int
    BY <1>0 DEF Gauge, TypeOK
  <2>5. (next.phase \in {"Pending", "Running"}) \in BOOLEAN
    OBVIOUS
  <2>6. Finish(next.phase \in {"Pending", "Running"})
    BY <1>6 DEF WriteStatus
  <2> QED
    BY <1>0, <1>6, <2>2, <2>3, <2>4, <2>5, <2>6, FinishType DEF WriteStatus, TypeInv, TypeOK
<1>7. CASE WriteRefused
  <2>1. Finish(TRUE)
    BY <1>7 DEF WriteRefused
  <2> QED
    BY <1>0, <1>7, <2>1, FinishType DEF WriteRefused, TypeInv, TypeOK, CacheOK, store
<1> QED
  BY <1>1, <1>2, <1>3, <1>4, <1>5, <1>6, <1>7 DEF Reconcile

(* So do the faults. *)
LEMMA FaultTypeInv ==
    ASSUME TypeInv, Fault
    PROVE  TypeInv'
<1>0. TypeOK /\ WorkerOK /\ CacheOK
  BY DEF TypeInv
<1>1. CASE FindFails
  <2>1. budget' \in [Events -> Nat]
    BY <1>0, <1>1, SpendType DEF FindFails, TypeOK, Events
  <2>2. pc = "find" /\ pc' = "prepare"
    BY <1>1 DEF FindFails
  <2>3. WorkerOK' /\ CacheOK'
    BY <1>0, <1>1, <2>2 DEF FindFails, WorkerOK, CacheOK, store
  <2> QED
    BY <1>0, <1>1, <2>1, <2>2, <2>3 DEF FindFails, TypeInv, TypeOK, PCs, store
<1>2. CASE RequestFails
  <2>1. budget' \in [Events -> Nat]
    BY <1>0, <1>2, SpendType DEF RequestFails, TypeOK, Events
  <2>2. Finish(TRUE)
    BY <1>2 DEF RequestFails
  <2> QED
    BY <1>0, <1>2, <2>1, <2>2, FinishType DEF RequestFails, TypeInv, TypeOK, CacheOK, store
<1>3. CASE WriteFails
  <2>1. budget' \in [Events -> Nat]
    BY <1>0, <1>3, SpendType DEF WriteFails, TypeOK, Events
  <2>2. Finish(TRUE)
    BY <1>3 DEF WriteFails
  <2> QED
    BY <1>0, <1>3, <2>1, <2>2, FinishType DEF WriteFails, TypeInv, TypeOK, CacheOK, store
<1>4. CASE Restart
  <2>1. budget' \in [Events -> Nat]
    BY <1>0, <1>4, SpendType DEF Restart, TypeOK, Events
  <2>2. queued' \in BOOLEAN /\ cacheFresh' \in BOOLEAN /\ copyFresh' \in BOOLEAN
    BY <1>4 DEF Restart
  <2>3. /\ pc' \in PCs /\ run' \in 0..MaxRun /\ next' \in StatusType
        /\ intent' \in Intents /\ activeBuilds' \in Int
    BY <1>4, EmptyStatusType, BoundsAssumption DEF Restart, PCs, Intents
  <2>4. WorkerOK' /\ CacheOK'
    BY <1>4 DEF Restart, WorkerOK, CacheOK, store
  <2> QED
    BY <1>0, <1>4, <2>1, <2>2, <2>3, <2>4 DEF Restart, TypeInv, TypeOK, store
<1> QED
  BY <1>1, <1>2, <1>3, <1>4 DEF Fault

(* So do the users: whatever they store is a BuildJob, or none. *)
LEMMA UserTypeInv ==
    ASSUME TypeInv, User
    PROVE  TypeInv'
<1>0. TypeOK /\ WorkerOK /\ CacheOK
  BY DEF TypeInv
<1>s. ASSUME NEW new \in BuildJobs \cup {NoJob}, Store(new), UserStep, Spend("edit"),
             uids' \in 0..MaxUid
      PROVE  TypeInv'
  <2>1. budget' \in [Events -> Nat]
    BY <1>0, <1>s, SpendType DEF TypeOK, Events
  <2>2. /\ bj' \in BuildJobs \cup {NoJob} /\ WorkerOK' /\ CacheOK'
        /\ cacheFresh' \in BOOLEAN /\ copyFresh' \in BOOLEAN
    BY <1>s, StoreType DEF UserStep
  <2> QED
    BY <1>0, <1>s, <2>1, <2>2 DEF UserStep, TypeInv, TypeOK
<1>a. ASSUME NEW b \in BuildJobs PROVE [b EXCEPT !.runAt = clock] \in BuildJobs
  BY <1>0, BoundsAssumption DEF TypeOK, BuildJobs, Times
<1>w. ASSUME NEW b \in BuildJobs, NEW s \in Specs, s # b.spec => b.gen < MaxGen
      PROVE  WithSpec(b, s) \in BuildJobs
  <2>1. CASE s = b.spec
    BY <2>1 DEF WithSpec
  <2>2. CASE s # b.spec
    <3>1. b.gen + 1 \in 1..MaxGen
      BY <1>w, <2>2, BoundsAssumption DEF BuildJobs
    <3> QED
      BY <2>2, <3>1 DEF WithSpec, BuildJobs
  <2> QED
    BY <2>1, <2>2
<1>j. bj # NoJob => bj \in BuildJobs
  BY <1>0 DEF TypeOK
<1>1. CASE HandleCreateNew
  <2>1. PICK s \in Specs : Store([uid |-> uids', gen |-> 1, spec |-> s,
                                  runAt |-> 0, status |-> EmptyStatus])
    BY <1>1 DEF HandleCreateNew
  <2>2. uids' \in 1..MaxUid
    BY <1>0, <1>1, BoundsAssumption DEF HandleCreateNew, TypeOK
  <2>3. [uid |-> uids', gen |-> 1, spec |-> s, runAt |-> 0, status |-> EmptyStatus] \in BuildJobs
    BY <2>2, EmptyStatusType, BoundsAssumption DEF BuildJobs, Times
  <2> QED
    BY <1>1, <1>s, <2>1, <2>2, <2>3, BoundsAssumption DEF HandleCreateNew
<1>2. CASE HandleCreateExisting
  <2>1. PICK s \in Specs : /\ s # bj.spec => bj.gen < MaxGen
                           /\ Store([WithSpec(bj, s) EXCEPT !.runAt = clock])
    BY <1>2 DEF HandleCreateExisting
  <2>2. [WithSpec(bj, s) EXCEPT !.runAt = clock] \in BuildJobs
    BY <1>2, <1>a, <1>w, <1>j, <2>1 DEF HandleCreateExisting
  <2> QED
    BY <1>0, <1>2, <1>s, <2>1, <2>2 DEF HandleCreateExisting, TypeOK
<1>3. CASE HandleRun
  BY <1>0, <1>3, <1>s, <1>a, <1>j DEF HandleRun, TypeOK
<1>4. CASE HandleDelete
  BY <1>0, <1>4, <1>s DEF HandleDelete, TypeOK
<1>5. CASE AnnotateRunAt
  BY <1>0, <1>5, <1>s, <1>a, <1>j DEF AnnotateRunAt, TypeOK
<1>6. CASE PatchSpec
  <2>1. PICK s \in Specs : Store(WithSpec(bj, s))
    BY <1>6 DEF PatchSpec
  <2>2. WithSpec(bj, s) \in BuildJobs
    BY <1>6, <1>w, <1>j DEF PatchSpec
  <2> QED
    BY <1>0, <1>6, <1>s, <2>1, <2>2 DEF PatchSpec, TypeOK
<1> QED
  BY <1>1, <1>2, <1>3, <1>4, <1>5, <1>6 DEF User

(* And so do Tekton, the garbage collector, the informer and the clock. *)
LEMMA EnvironmentTypeInv ==
    ASSUME TypeInv, Environment
    PROVE  TypeInv'
<1>0. TypeOK /\ WorkerOK /\ CacheOK
  BY DEF TypeInv
<1>r. ASSUME NEW n \in Runs, NEW r \in RunRecords, RunEvent(n, r), budget' \in [Events -> Nat]
      PROVE  TypeInv'
  <2>1. pr' \in [Runs -> RunRecords]
    BY <1>0, <1>r DEF RunEvent, TypeOK
  <2> QED
    BY <1>0, <1>r, <2>1 DEF RunEvent, TypeInv, TypeOK, WorkerOK, CacheOK, worker
<1>1. ASSUME NEW n \in Runs, TektonStarts(n) PROVE TypeInv'
  <2>1. [pr[n] EXCEPT !.state = "running"] \in RunRecords
    BY <1>0 DEF TypeOK, RunRecords, RunStates
  <2> QED
    BY <1>0, <1>1, <1>r, <2>1 DEF TektonStarts, TypeOK
<1>2. ASSUME NEW n \in Runs, TektonEnds(n) PROVE TypeInv'
  <2>1. PICK s \in {"succeeded", "failed"} : RunEvent(n, [pr[n] EXCEPT !.state = s])
    BY <1>2 DEF TektonEnds
  <2>2. [pr[n] EXCEPT !.state = s] \in RunRecords
    BY <1>0 DEF TypeOK, RunRecords, RunStates
  <2> QED
    BY <1>0, <1>2, <1>r, <2>1, <2>2 DEF TektonEnds, TypeOK
<1>d. ASSUME NEW n \in Runs PROVE [pr[n] EXCEPT !.exists = FALSE] \in RunRecords
  BY <1>0 DEF TypeOK, RunRecords
<1>3. ASSUME NEW n \in Runs, Prune(n) PROVE TypeInv'
  <2>1. budget' \in [Events -> Nat]
    BY <1>0, <1>3, SpendType DEF Prune, TypeOK, Events
  <2> QED
    BY <1>3, <1>r, <1>d, <2>1 DEF Prune
<1>4. ASSUME NEW n \in Runs, Collect(n) PROVE TypeInv'
  BY <1>0, <1>4, <1>r, <1>d DEF Collect, TypeOK
<1>5. CASE CacheSync
  BY <1>0, <1>5 DEF CacheSync, TypeInv, TypeOK, WorkerOK, CacheOK, store, worker
<1>6. CASE FlipPVC
  <2>1. budget' \in [Events -> Nat]
    BY <1>0, <1>6, SpendType DEF FlipPVC, TypeOK, Events
  <2>2. pvcs' \subseteq {"source", "cache"}
    BY <1>0, <1>6 DEF FlipPVC, TypeOK
  <2> QED
    BY <1>0, <1>6, <2>1, <2>2 DEF FlipPVC, TypeInv, TypeOK, WorkerOK, CacheOK, worker
<1>7. CASE Tick
  <2>1. clock' \in 1..MaxTime
    BY <1>0, <1>7, BoundsAssumption DEF Tick, TypeOK
  <2> QED
    BY <1>0, <1>7, <2>1 DEF Tick, TypeInv, TypeOK, WorkerOK, CacheOK, worker
<1>8. CASE Resync
  BY <1>0, <1>8 DEF Resync, TypeInv, TypeOK, WorkerOK, CacheOK, store, worker
<1> QED
  BY <1>1, <1>2, <1>3, <1>4, <1>5, <1>6, <1>7, <1>8 DEF Environment

(* Every reachable state is well typed, and the worker's copy, when it is  *)
(* marked fresh, is the stored BuildJob: the resourceVersion check of      *)
(* Status().Update is what makes the write of a status safe.               *)
THEOREM TypeInvariance == Spec => []TypeInv
<1>1. TypeInv /\ [Next]_vars => TypeInv'
  <2> SUFFICES ASSUME TypeInv, [Next]_vars PROVE TypeInv'
    OBVIOUS
  <2>1. CASE UNCHANGED vars
    BY <2>1 DEF vars, TypeInv, TypeOK, WorkerOK, CacheOK
  <2> QED
    BY <2>1, ReconcileTypeInv, FaultTypeInv, UserTypeInv, EnvironmentTypeInv DEF Next
<1> QED
  BY <1>1, InitTypeInv, PTL DEF Spec

(* The variables of the model stay within their types in every behaviour. *)
THEOREM TypeCorrect == Spec => []TypeOK
<1>1. TypeInv => TypeOK
  BY DEF TypeInv
<1> QED
  BY <1>1, TypeInvariance, PTL

-----------------------------------------------------------------------------
(* At most one PipelineRun in progress.  The strengthening: between the    *)
(* List that found no run in progress and the Create, none appears, for    *)
(* only this worker creates runs and a run that ended stays ended.         *)

NoneFound == pc \in {"prepare", "create"} => ActiveRuns = {}

SingleInv == AtMostOneActiveRun /\ NoneFound /\ budget["list"] = 0

(* A run is in progress after a step only if it was before, or if the step *)
(* is the Create that made it.                                             *)
LEMMA OnlyCreateActivates ==
    ASSUME TypeInv, [Next]_vars, NEW n \in Runs, Active(pr'[n])
    PROVE  Active(pr[n]) \/ (CreateRun /\ n = run)
<1>0. pr \in [Runs -> RunRecords]
  BY DEF TypeInv, TypeOK
<1>u. CASE UNCHANGED pr
  BY <1>u
<1>1. CASE Reconcile
  <2>1. CASE CreateRun
    <3>1. CASE pr[run].exists
      BY <1>u, <2>1, <3>1 DEF CreateRun
    <3>2. CASE ~pr[run].exists /\ n # run
      BY <1>0, <2>1, <3>2 DEF CreateRun
    <3> QED
      BY <2>1, <3>1, <3>2
  <2>2. CASE ~CreateRun
    BY <1>1, <1>u, <2>2
       DEF Reconcile, ReconcileStart, FetchRun, FindActive, Prepare, WriteStatus, WriteRefused, store
  <2> QED
    BY <2>1, <2>2
<1>2. CASE Fault
  BY <1>2, <1>u DEF Fault, FindFails, RequestFails, WriteFails, Restart, store
<1>3. CASE User
  BY <1>3, <1>u DEF User, HandleCreateNew, HandleCreateExisting, HandleRun, HandleDelete,
                    AnnotateRunAt, PatchSpec, UserStep
<1>4. CASE Environment
  <2>1. ASSUME NEW m \in Runs, TektonStarts(m) PROVE Active(pr[n])
    BY <1>0, <2>1 DEF TektonStarts, RunEvent, Active, Terminated, RunRecords
  <2>2. ASSUME NEW m \in Runs, TektonEnds(m) PROVE Active(pr[n])
    <3>1. PICK s \in {"succeeded", "failed"} : RunEvent(m, [pr[m] EXCEPT !.state = s])
      BY <2>2 DEF TektonEnds
    <3> QED
      BY <1>0, <3>1 DEF RunEvent, Active, Terminated, RunRecords
  <2>3. ASSUME NEW m \in Runs, RunEvent(m, [pr[m] EXCEPT !.exists = FALSE]) PROVE Active(pr[n])
    BY <1>0, <2>3 DEF RunEvent, Active, Terminated, RunRecords
  <2>4. CASE CacheSync \/ FlipPVC \/ Tick \/ Resync
    BY <1>u, <2>4 DEF CacheSync, FlipPVC, Tick, Resync, store
  <2> QED
    BY <1>4, <2>1, <2>2, <2>3, <2>4 DEF Environment, Prune, Collect
<1>5. CASE UNCHANGED vars
  BY <1>5, <1>u DEF vars
<1> QED
  BY <1>1, <1>2, <1>3, <1>4, <1>5 DEF Next

(* A step leaves the budget alone or spends one event. *)
LEMMA StepsSpend ==
    ASSUME [Next]_vars
    PROVE  UNCHANGED budget \/ \E e \in Events : Spend(e)
<1>e. /\ "edit" \in Events /\ "crash" \in Events /\ "api" \in Events
      /\ "list" \in Events /\ "prune" \in Events /\ "stale" \in Events /\ "pvc" \in Events
  BY DEF Events
<1>2. CASE Reconcile
  <2>1. CASE ReconcileStart
    BY <1>e, <2>1 DEF ReconcileStart
  <2>2. CASE Prepare
    BY <1>e, <2>2 DEF Prepare
  <2>3. CASE FetchRun \/ FindActive \/ CreateRun \/ WriteStatus \/ WriteRefused
    BY <2>3 DEF FetchRun, FindActive, CreateRun, WriteStatus, WriteRefused
  <2> QED
    BY <1>2, <2>1, <2>2, <2>3 DEF Reconcile
<1>3. CASE Fault
  BY <1>e, <1>3 DEF Fault, FindFails, RequestFails, WriteFails, Restart
<1>4. CASE User
  BY <1>e, <1>4 DEF User, HandleCreateNew, HandleCreateExisting, HandleRun, HandleDelete,
                    AnnotateRunAt, PatchSpec
<1>5. CASE Environment
  BY <1>e, <1>5 DEF Environment, TektonStarts, TektonEnds, Prune, Collect, CacheSync,
                    FlipPVC, Tick, Resync
<1>6. CASE UNCHANGED vars
  BY <1>6 DEF vars
<1> QED
  BY <1>2, <1>3, <1>4, <1>5, <1>6 DEF Next

(* No step gives back a budget, and with none left no List request fails. *)
LEMMA NoListFails ==
    ASSUME TypeInv, budget["list"] = 0, [Next]_vars
    PROVE  budget'["list"] = 0 /\ ~FindFails
<1>0. budget \in [Events -> Nat] /\ "list" \in Events
  BY DEF TypeInv, TypeOK, Events
<1>1. ASSUME NEW e \in Events, Spend(e) PROVE e # "list" /\ budget'["list"] = 0
  BY <1>0, <1>1 DEF Spend
<1>2. budget'["list"] = 0
  BY <1>1, StepsSpend
<1>3. ~FindFails
  BY <1>0, <1>1 DEF FindFails
<1> QED
  BY <1>2, <1>3

(* A step that keeps the worker out of "prepare" and "create" or in them   *)
(* without a Create does not disturb that no run was found.                *)
LEMMA NoneFoundStep ==
    ASSUME TypeInv, SingleInv, [Next]_vars
    PROVE  NoneFound'
<1> SUFFICES ASSUME pc' \in {"prepare", "create"} PROVE ActiveRuns' = {}
  BY DEF NoneFound
<1>1. ~FindFails
  BY NoListFails DEF SingleInv
<1>2. ASSUME ActiveRuns = {}, ~CreateRun PROVE ActiveRuns' = {}
  BY <1>2, OnlyCreateActivates DEF ActiveRuns
<1>3. CASE pc \in {"prepare", "create"}
  <2>1. ~CreateRun
    BY DEF CreateRun, Finish, Intend
  <2> QED
    BY <1>2, <1>3, <2>1 DEF SingleInv, NoneFound
<1>4. CASE pc \notin {"prepare", "create"}
  <2>1. FindActive
    <3>1. CASE Reconcile
      BY <1>4, <3>1 DEF Reconcile, ReconcileStart, FetchRun, Prepare, CreateRun,
                        WriteStatus, WriteRefused, Finish, Intend, worker
    <3>2. CASE Fault
      BY <1>1, <1>4, <3>2 DEF Fault, RequestFails, WriteFails, Restart, Finish
    <3>3. CASE User
      BY <1>4, <3>3 DEF User, HandleCreateNew, HandleCreateExisting, HandleRun, HandleDelete,
                        AnnotateRunAt, PatchSpec, UserStep
    <3>4. CASE Environment
      BY <1>4, <3>4 DEF Environment, TektonStarts, TektonEnds, Prune, Collect, RunEvent,
                        CacheSync, FlipPVC, Tick, Resync, worker
    <3>5. CASE UNCHANGED vars
      BY <1>4, <3>5 DEF vars
    <3> QED
      BY <3>1, <3>2, <3>3, <3>4, <3>5 DEF Next
  <2>2. ActiveRuns = {} /\ ~CreateRun
    BY <2>1 DEF FindActive, Intend, CreateRun
  <2> QED
    BY <1>2, <2>2
<1> QED
  BY <1>3, <1>4

(* No run is found in progress when one is created. *)
THEOREM SingleInvariance ==
    ASSUME MaxListErrors = 0
    PROVE  Spec => []SingleInv
<1>1. Init => SingleInv
  BY DEF Init, SingleInv, AtMostOneActiveRun, NoneFound, NoRun, Active
<1>2. TypeInv /\ SingleInv /\ [Next]_vars => SingleInv'
  <2> SUFFICES ASSUME TypeInv, SingleInv, [Next]_vars PROVE SingleInv'
    OBVIOUS
  <2>1. AtMostOneActiveRun'
    <3> SUFFICES ASSUME NEW m \in Runs, NEW n \in Runs, Active(pr'[m]), Active(pr'[n])
                 PROVE  m = n
      BY DEF AtMostOneActiveRun, Active, Terminated
    <3>1. CASE CreateRun
      <4>1. ActiveRuns = {}
        BY <3>1 DEF CreateRun, SingleInv, NoneFound
      <4> QED
        BY <4>1, OnlyCreateActivates DEF ActiveRuns
    <3>2. CASE ~CreateRun
      BY <3>2, OnlyCreateActivates DEF SingleInv, AtMostOneActiveRun
    <3> QED
      BY <3>1, <3>2
  <2>2. NoneFound' /\ budget'["list"] = 0
    BY NoneFoundStep, NoListFails DEF SingleInv
  <2> QED
    BY <2>1, <2>2 DEF SingleInv
<1> QED
  BY <1>1, <1>2, TypeInvariance, PTL DEF Spec

(* With List requests that do not fail, a BuildJob never has two runs in   *)
(* progress: for every number of users' edits, restarts, failed writes,    *)
(* stale reads, pruned runs and incarnations of the name.                  *)
THEOREM AtMostOneActive ==
    ASSUME MaxListErrors = 0
    PROVE  Spec => []AtMostOneActiveRun
<1>1. Spec => []SingleInv
  BY SingleInvariance
<1>2. SingleInv => AtMostOneActiveRun
  BY DEF SingleInv
<1> QED
  BY <1>1, <1>2, PTL

-----------------------------------------------------------------------------
(* How many runs are in progress when List requests may fail.  A failed    *)
(* List pays for the run that is created without it; one that found no run *)
(* leaves only those that were paid for.                                   *)

ListsFailed == MaxListErrors - budget["list"]

PaidRuns == Cardinality(ActiveRuns) <= 1 + ListsFailed

PaidCreate == pc \in {"prepare", "create"} => Cardinality(ActiveRuns) <= ListsFailed

PaidInv == PaidRuns /\ PaidCreate /\ ListsFailed >= 0

LEMMA ActiveIsCounted ==
    /\ IsFiniteSet(ActiveRuns) /\ Cardinality(ActiveRuns) \in Nat
    /\ IsFiniteSet(ActiveRuns') /\ Cardinality(ActiveRuns') \in Nat
<1>1. IsFiniteSet(Runs)
  BY FS_Interval, BoundsAssumption DEF Runs
<1>2. ActiveRuns \in SUBSET Runs /\ ActiveRuns' \in SUBSET Runs
  BY DEF ActiveRuns
<1> QED
  BY <1>1, <1>2, FS_Subset, FS_CardinalityType

(* A Create adds one run to those in progress, no other step adds any. *)
LEMMA ActiveGrows ==
    ASSUME TypeInv, [Next]_vars
    PROVE  /\ CreateRun => Cardinality(ActiveRuns') <= Cardinality(ActiveRuns) + 1
           /\ ~CreateRun => Cardinality(ActiveRuns') <= Cardinality(ActiveRuns)
<1>1. CASE CreateRun
  <2>1. ActiveRuns' \subseteq ActiveRuns \cup {run}
    BY OnlyCreateActivates DEF ActiveRuns
  <2>2. /\ IsFiniteSet(ActiveRuns \cup {run})
        /\ Cardinality(ActiveRuns \cup {run}) =
               IF run \in ActiveRuns THEN Cardinality(ActiveRuns) ELSE Cardinality(ActiveRuns) + 1
    BY ActiveIsCounted, FS_AddElement, Zenon
  <2>3. Cardinality(ActiveRuns') <= Cardinality(ActiveRuns \cup {run})
    BY <2>1, <2>2, FS_Subset
  <2> QED
    BY <1>1, <2>2, <2>3, ActiveIsCounted
<1>2. CASE ~CreateRun
  <2>1. ActiveRuns' \subseteq ActiveRuns
    BY <1>2, OnlyCreateActivates DEF ActiveRuns
  <2>2. Cardinality(ActiveRuns') <= Cardinality(ActiveRuns)
    BY <2>1, ActiveIsCounted, FS_Subset
  <2> QED
    BY <1>2, <2>2
<1> QED
  BY <1>1, <1>2

(* Failed Lists are not forgotten. *)
LEMMA ListsFailedGrows ==
    ASSUME TypeInv, [Next]_vars
    PROVE  /\ ListsFailed \in Int /\ ListsFailed' \in Int /\ ListsFailed <= ListsFailed'
           /\ FindFails => ListsFailed' = ListsFailed + 1
<1>0. budget \in [Events -> Nat] /\ "list" \in Events /\ MaxListErrors \in Nat
  BY BudgetAssumption DEF TypeInv, TypeOK, Events
<1>1. ASSUME NEW e \in Events, Spend(e)
      PROVE  budget'["list"] = budget["list"] - (IF e = "list" THEN 1 ELSE 0)
  BY <1>0, <1>1 DEF Spend
<1>2. budget'["list"] \in {budget["list"], budget["list"] - 1}
  BY <1>0, <1>1, StepsSpend
<1>3. FindFails => budget'["list"] = budget["list"] - 1
  BY <1>0, <1>1 DEF FindFails
<1> QED
  BY <1>0, <1>2, <1>3 DEF ListsFailed

(* The worker gets to a Create through a List. *)
LEMMA CreatesAfterList ==
    ASSUME [Next]_vars, pc' \in {"prepare", "create"}
    PROVE  ~CreateRun /\ (pc \in {"prepare", "create"} \/ ActiveRuns = {} \/ FindFails)
<1>1. ~CreateRun
  BY DEF CreateRun, Finish, Intend
<1>2. ASSUME pc \notin {"prepare", "create"}, ~FindFails PROVE ActiveRuns = {}
  <2>1. CASE Reconcile
    BY <1>2, <2>1 DEF Reconcile, ReconcileStart, FetchRun, FindActive, Prepare, CreateRun,
                      WriteStatus, WriteRefused, Finish, Intend, worker
  <2>2. CASE Fault
    BY <1>2, <2>2 DEF Fault, RequestFails, WriteFails, Restart, Finish
  <2>3. CASE User
    BY <1>2, <2>3 DEF User, HandleCreateNew, HandleCreateExisting, HandleRun, HandleDelete,
                      AnnotateRunAt, PatchSpec, UserStep
  <2>4. CASE Environment
    BY <1>2, <2>4 DEF Environment, TektonStarts, TektonEnds, Prune, Collect, RunEvent,
                      CacheSync, FlipPVC, Tick, Resync, worker
  <2>5. CASE UNCHANGED vars
    BY <1>2, <2>5 DEF vars
  <2> QED
    BY <2>1, <2>2, <2>3, <2>4, <2>5 DEF Next
<1> QED
  BY <1>1, <1>2

LEMMA PaidStep ==
    ASSUME TypeInv, PaidInv, [Next]_vars
    PROVE  PaidInv'
<1> USE ActiveIsCounted, ActiveGrows, ListsFailedGrows
<1>1. PaidRuns'
  <2>1. CASE CreateRun
    <3>1. Cardinality(ActiveRuns) <= ListsFailed
      BY <2>1 DEF CreateRun, PaidInv, PaidCreate
    <3> QED
      BY <2>1, <3>1 DEF PaidRuns
  <2>2. CASE ~CreateRun
    BY <2>2 DEF PaidInv, PaidRuns
  <2> QED
    BY <2>1, <2>2
<1>2. PaidCreate'
  <2> SUFFICES ASSUME pc' \in {"prepare", "create"}
               PROVE  Cardinality(ActiveRuns') <= ListsFailed'
    BY DEF PaidCreate
  <2>1. Cardinality(ActiveRuns') <= Cardinality(ActiveRuns)
    BY CreatesAfterList
  <2>2. CASE pc \in {"prepare", "create"}
    BY <2>1, <2>2 DEF PaidInv, PaidCreate
  <2>3. CASE FindFails
    BY <2>1, <2>3 DEF PaidInv, PaidRuns
  <2>4. CASE ActiveRuns = {}
    <3>1. Cardinality(ActiveRuns) = 0
      BY <2>4, FS_EmptySet
    <3> QED
      BY <2>1, <3>1 DEF PaidInv
  <2> QED
    BY <2>2, <2>3, <2>4, CreatesAfterList
<1>3. ListsFailed' >= 0
  BY DEF PaidInv
<1> QED
  BY <1>1, <1>2, <1>3 DEF PaidInv

(* For every number of Lists that fail: that many more runs side by side,  *)
(* and no more, whatever users, restarts, outdated reads and failed writes *)
(* do besides.                                                             *)
THEOREM RunsAreLimited == Spec => []ParallelRunsNeedListErrors
<1>1. Init => PaidInv
  <2> SUFFICES ASSUME Init PROVE PaidInv
    OBVIOUS
  <2>1. ActiveRuns = {}
    BY DEF Init, ActiveRuns, NoRun, Active
  <2>2. ListsFailed = 0
    BY BudgetAssumption DEF Init, ListsFailed
  <2>3. Cardinality(ActiveRuns) = 0
    BY <2>1, FS_EmptySet
  <2> QED
    BY <2>2, <2>3 DEF PaidInv, PaidRuns, PaidCreate
<1>2. PaidInv => ParallelRunsNeedListErrors
  BY DEF PaidInv, PaidRuns, ParallelRunsNeedListErrors, ListsFailed, ActiveRuns
<1> QED
  BY <1>1, <1>2, PaidStep, TypeInvariance, PTL DEF Spec
=============================================================================
