------------------------- MODULE CacheController_proof -------------------------
(***************************************************************************)
(* Proofs about the Cache reconciler: type correctness, and that the       *)
(* status tells the truth about the PVC whenever nothing is left to        *)
(* deliver or to reconcile.                                                *)
(***************************************************************************)
EXTENDS CacheController, TLAPS

-----------------------------------------------------------------------------
(* Type correctness, with what a fresh copy stands for: a PVC that is not  *)
(* late is as it was seen.                                                 *)

WorkerOK ==
    /\ pc # "idle" => copy \in Caches
    /\ copyFresh => pc # "idle" /\ cache = copy

CopiesOK ==
    /\ cacheFresh => cached = cache
    /\ \A t \in Types \ late : seen[t] = pvc[t]

TypeInv == TypeOK /\ WorkerOK /\ CopiesOK

LEMMA BoundsAreNat ==
    /\ MaxUid \in Nat /\ MaxEdits \in Nat /\ MaxCrashes \in Nat
    /\ MaxApiErrors \in Nat /\ MaxPVCDeletes \in Nat
<1>1. {MaxEdits, MaxCrashes, MaxApiErrors, MaxPVCDeletes} \subseteq Nat /\ MaxUid \in Nat
  BY Zenon, CacheAssumption
<1> QED
  BY <1>1

LEMMA EmptyStatusType == EmptyStatus \in StatusType
  BY DEF EmptyStatus, StatusType

LEMMA StatusTypes ==
    ASSUME NEW c \in Caches
    PROVE  ReadyStatus(c) \in StatusType /\ FailedStatus(c) \in StatusType
<1>1. c.status \in StatusType /\ c.type \in Types
  BY DEF Caches
<1> QED
  BY <1>1 DEF ReadyStatus, FailedStatus, StatusType

(* Spending an event leaves a budget. *)
LEMMA SpendType ==
    ASSUME NEW e \in Events, budget \in [Events -> Nat], Spend(e)
    PROVE  budget' \in [Events -> Nat]
<1>1. budget[e] - 1 \in Nat
  BY DEF Spend
<1> QED
  BY <1>1 DEF Spend

(* The initial states are well typed. *)
LEMMA InitTypeInv == Init => TypeInv
<1> SUFFICES ASSUME Init PROVE TypeInv
  OBVIOUS
<1>1. budget \in [Events -> Nat]
  BY BoundsAreNat DEF Init, Events
<1>2. 0 \in Owners
  BY BoundsAreNat DEF Owners
<1>3. {cacheFresh, copyFresh, queued, retry} \subseteq BOOLEAN
  BY DEF Init
<1>4. pvc \in [Types -> Owners] /\ seen = pvc
  BY <1>2 DEF Init
<1>5. TypeOK
  BY <1>1, <1>2, <1>3, <1>4, EmptyStatusType DEF Init, TypeOK
<1> QED
  BY <1>4, <1>5 DEF Init, TypeInv, WorkerOK, CopiesOK

(* A reconcile that ends leaves the worker well typed. *)
LEMMA FinishTypeInv ==
    ASSUME TypeInv, NEW later \in BOOLEAN, Finish(later),
           UNCHANGED <<uids, pvc, cached, seen, late>>,
           cache' \in Caches \cup {NoCache}, cacheFresh' \in BOOLEAN,
           cacheFresh' => cacheFresh /\ cache' = cache,
           budget' \in [Events -> Nat]
    PROVE  TypeInv'
<1>1. queued' \in BOOLEAN /\ {cacheFresh', copyFresh', queued', retry'} \subseteq BOOLEAN
  BY DEF Finish, TypeInv, TypeOK
<1>2. TypeOK'
  BY <1>1, EmptyStatusType DEF Finish, TypeInv, TypeOK
<1> QED
  BY <1>2 DEF Finish, TypeInv, WorkerOK, CopiesOK

(* An intended status leaves it so too, whatever became of the PVCs. *)
LEMMA IntendTypeInv ==
    ASSUME TypeInv, NEW status \in StatusType, NEW later \in BOOLEAN, pc # "idle",
           Intend(status, later), UNCHANGED <<cache, uids, cached, cacheFresh, seen>>,
           late' \subseteq Types, pvc' \in [Types -> Owners],
           \A t \in Types \ late' : t \notin late /\ pvc'[t] = pvc[t],
           budget' \in [Events -> Nat]
    PROVE  TypeInv'
<1>1. {cacheFresh', copyFresh', queued', retry'} \subseteq BOOLEAN
  BY DEF Intend, TypeInv, TypeOK
<1>2. TypeOK'
  BY <1>1 DEF Intend, TypeInv, TypeOK
<1>3. WorkerOK'
  BY DEF Intend, TypeInv, WorkerOK
<1>4. CopiesOK'
  BY DEF TypeInv, CopiesOK
<1> QED
  BY <1>2, <1>3, <1>4 DEF TypeInv

(* The steps of the reconciler keep the types. *)
LEMMA ReconcileTypeInv == TypeInv /\ Reconcile => TypeInv'
<1> SUFFICES ASSUME TypeInv, Reconcile PROVE TypeInv'
  OBVIOUS
<1>0. /\ cacheFresh \in BOOLEAN /\ copyFresh \in BOOLEAN /\ queued \in BOOLEAN /\ retry \in BOOLEAN
      /\ pc # "idle" => /\ copy \in Caches /\ copy.type \in Types /\ copy.uid \in Owners
                        /\ ReadyStatus(copy) \in StatusType /\ FailedStatus(copy) \in StatusType
  BY StatusTypes, BoundsAreNat DEF TypeInv, TypeOK, WorkerOK, Caches, Owners
<1>1. CASE ReconcileStart
  <2>1. {cacheFresh', copyFresh', queued', retry'} \subseteq BOOLEAN
    BY <1>0, <1>1 DEF ReconcileStart, worker
  <2>2. pc' \in {"idle", "check"} /\ copy' \in Caches \cup {NoCache} /\ next' \in StatusType
    BY <1>1 DEF ReconcileStart, worker, TypeInv, TypeOK
  <2>3. TypeOK'
    BY <1>1, <2>1, <2>2 DEF ReconcileStart, TypeInv, TypeOK
  <2>4. WorkerOK'
    BY <1>1, <2>2 DEF ReconcileStart, worker, TypeInv, TypeOK, WorkerOK, CopiesOK
  <2> QED
    BY <1>1, <2>3, <2>4 DEF ReconcileStart, TypeInv, CopiesOK
<1>2. CASE CheckPVC
  <2>1. CASE Intend(ReadyStatus(copy), FALSE) \/ Intend(FailedStatus(copy), FALSE)
    BY <1>0, <1>2, <2>1, IntendTypeInv DEF CheckPVC, TypeInv, TypeOK
  <2>2. CASE pc' = "create" /\ UNCHANGED <<copy, copyFresh, next, retry, queued>>
    BY <1>2, <2>2 DEF CheckPVC, TypeInv, TypeOK, WorkerOK, CopiesOK
  <2> QED
    BY <1>2, <2>1, <2>2 DEF CheckPVC
<1>3. CASE CreatePVC
  <2>1. late' \subseteq Types /\ pvc' \in [Types -> Owners] /\ UNCHANGED budget
    BY <1>0, <1>3 DEF CreatePVC, TypeInv, TypeOK
  <2>2. \A t \in Types \ late' : t \notin late /\ pvc'[t] = pvc[t]
    BY <1>0, <1>3 DEF CreatePVC, TypeInv, TypeOK
  <2> QED
    BY <1>0, <1>3, <2>1, <2>2, IntendTypeInv DEF CreatePVC, TypeInv, TypeOK
<1>4. CASE WriteStatus
  <2>1. cache \in Caches /\ next \in StatusType
    BY <1>4 DEF WriteStatus, TypeInv, TypeOK, WorkerOK
  <2>2. cache' \in Caches
    BY <1>4, <2>1 DEF WriteStatus, Caches
  <2>3. cacheFresh' \in BOOLEAN /\ (cacheFresh' => cacheFresh /\ cache' = cache)
    BY <1>0, <1>4, Zenon DEF WriteStatus
  <2> QED
    BY <1>0, <1>4, <2>2, <2>3, FinishTypeInv DEF WriteStatus, TypeInv, TypeOK
<1>5. CASE WriteRefused
  BY <1>0, <1>5, FinishTypeInv DEF WriteRefused, TypeInv, TypeOK
<1> QED
  BY <1>1, <1>2, <1>3, <1>4, <1>5 DEF Reconcile

(* Faults keep the types. *)
LEMMA FaultTypeInv == TypeInv /\ Fault => TypeInv'
<1> SUFFICES ASSUME TypeInv, Fault PROVE TypeInv'
  OBVIOUS
<1>0. /\ cacheFresh \in BOOLEAN
      /\ Spend("api") \/ Spend("crash") => budget' \in [Events -> Nat]
  BY SpendType DEF TypeInv, TypeOK, Events
<1>1. CASE CheckFails \/ WriteFails
  <2>1. Finish(TRUE) /\ Spend("api")
        /\ UNCHANGED <<cache, uids, pvc, cached, cacheFresh, seen, late>>
    BY <1>1 DEF CheckFails, WriteFails
  <2> QED
    BY <1>0, <2>1, FinishTypeInv DEF TypeInv, TypeOK
<1>2. CASE CreateFails
  <2>1. pc # "idle" /\ FailedStatus(copy) \in StatusType
    BY <1>2, StatusTypes DEF CreateFails, TypeInv, WorkerOK
  <2>2. \A t \in Types \ late' : t \notin late /\ pvc'[t] = pvc[t]
    BY <1>2 DEF CreateFails
  <2> QED
    BY <1>0, <1>2, <2>1, <2>2, IntendTypeInv DEF CreateFails, TypeInv, TypeOK
<1>3. CASE Restart
  <2>1. queued' \in BOOLEAN
    BY <1>3, Zenon DEF Restart
  <2>2. {cacheFresh', copyFresh', queued', retry'} \subseteq BOOLEAN
    BY <1>3, <2>1 DEF Restart
  <2> QED
    BY <1>0, <1>3, <2>2, EmptyStatusType DEF Restart, TypeInv, TypeOK, WorkerOK, CopiesOK
<1> QED
  BY <1>1, <1>2, <1>3 DEF Fault

(* So do the informers, users and the garbage collector. *)
LEMMA EnvironmentTypeInv == TypeInv /\ Environment => TypeInv'
<1> SUFFICES ASSUME TypeInv, Environment PROVE TypeInv'
  OBVIOUS
<1>1. CASE CacheSync
  <2>1. {cacheFresh', copyFresh', queued', retry'} \subseteq BOOLEAN
    BY <1>1 DEF CacheSync, worker, TypeInv, TypeOK
  <2> QED
    BY <1>1, <2>1 DEF CacheSync, worker, TypeInv, TypeOK, WorkerOK, CopiesOK
<1>2. ASSUME NEW t \in Types, PVCSync(t) PROVE TypeInv'
  <2>1. {cacheFresh', copyFresh', queued', retry'} \subseteq BOOLEAN
    BY <1>2 DEF PVCSync, worker, TypeInv, TypeOK
  <2>2. seen' \in [Types -> Owners] /\ late' \subseteq Types
    BY <1>2 DEF PVCSync, TypeInv, TypeOK
  <2>3. CopiesOK'
    BY <1>2 DEF PVCSync, TypeInv, TypeOK, CopiesOK
  <2> QED
    BY <1>2, <2>1, <2>2, <2>3 DEF PVCSync, worker, TypeInv, TypeOK, WorkerOK
<1>3. ASSUME NEW c \in Caches \cup {NoCache}, UserWrites(c), uids' \in Owners PROVE TypeInv'
  <2>1. budget' \in [Events -> Nat]
    BY <1>3, SpendType DEF UserWrites, TypeInv, TypeOK, Events
  <2>2. {cacheFresh', copyFresh', queued', retry'} \subseteq BOOLEAN
    BY <1>3 DEF UserWrites, TypeInv, TypeOK
  <2> QED
    BY <1>3, <2>1, <2>2 DEF UserWrites, TypeInv, TypeOK, WorkerOK, CopiesOK
<1>4. CASE CreateCache
  <2>1. uids + 1 \in 1..MaxUid /\ uids + 1 \in Owners
    BY <1>4, BoundsAreNat DEF CreateCache, TypeInv, TypeOK, Owners
  <2>2. PICK t \in Types, ok \in BOOLEAN :
            UserWrites([uid |-> uids + 1, type |-> t, sizeOK |-> ok, status |-> EmptyStatus])
    BY <1>4 DEF CreateCache
  <2>3. [uid |-> uids + 1, type |-> t, sizeOK |-> ok, status |-> EmptyStatus] \in Caches
    BY <2>1, EmptyStatusType DEF Caches
  <2> QED
    BY <1>3, <1>4, <2>1, <2>2, <2>3 DEF CreateCache
<1>5. CASE EditCache
  <2>1. PICK t \in Types, ok \in BOOLEAN : UserWrites([cache EXCEPT !.type = t, !.sizeOK = ok])
    BY <1>5 DEF EditCache
  <2>2. [cache EXCEPT !.type = t, !.sizeOK = ok] \in Caches
    BY <1>5 DEF EditCache, TypeInv, TypeOK, Caches
  <2> QED
    BY <1>3, <1>5, <2>1, <2>2 DEF EditCache, TypeInv, TypeOK
<1>6. CASE DeleteCache
  BY <1>3, <1>6 DEF DeleteCache, TypeInv, TypeOK
<1>7. ASSUME NEW t \in Types, RemovePVC(t) PROVE TypeInv'
  <2>1. budget' \in [Events -> Nat]
    BY <1>7, SpendType DEF RemovePVC, TypeInv, TypeOK, Events
  <2>2. pvc' \in [Types -> Owners] /\ late' \subseteq Types
    BY <1>7, BoundsAreNat DEF RemovePVC, TypeInv, TypeOK, Owners
  <2>3. {cacheFresh', copyFresh', queued', retry'} \subseteq BOOLEAN
    BY <1>7 DEF RemovePVC, worker, TypeInv, TypeOK
  <2>4. CopiesOK'
    BY <1>7 DEF RemovePVC, TypeInv, TypeOK, CopiesOK
  <2> QED
    BY <1>7, <2>1, <2>2, <2>3, <2>4 DEF RemovePVC, worker, TypeInv, TypeOK, WorkerOK
<1> QED
  BY <1>1, <1>2, <1>4, <1>5, <1>6, <1>7 DEF Environment

(* Every reachable state is well typed, and what is not marked late is as  *)
(* it was copied.                                                          *)
THEOREM TypeInvariance == Spec => []TypeInv
<1>1. TypeInv /\ [Next]_vars => TypeInv'
  <2> SUFFICES ASSUME TypeInv, [Next]_vars PROVE TypeInv'
    OBVIOUS
  <2>1. CASE UNCHANGED vars
    BY <2>1 DEF vars, worker, TypeInv, TypeOK, WorkerOK, CopiesOK
  <2> QED
    BY <2>1, ReconcileTypeInv, FaultTypeInv, EnvironmentTypeInv DEF Next
<1> QED
  BY <1>1, InitTypeInv, PTL DEF Spec

(* The variables of the model stay within their types in every behaviour. *)
THEOREM TypeCorrect == Spec => []TypeOK
<1>1. TypeInv => TypeOK
  BY DEF TypeInv
<1> QED
  BY <1>1, TypeInvariance, PTL

-----------------------------------------------------------------------------
(* The truth at rest.  A status about to be written is true of the PVCs    *)
(* unless a change of one has yet to be seen, or has been seen since and   *)
(* queued the key; so the last write before the rest is true.              *)

TrueOf(c, st) ==
    IF pvc[c.type] # 0
      THEN st = [phase |-> "Ready", pvcName |-> c.type]
      ELSE ~c.sizeOK /\ st.phase = "Failed"

WriteIsTrue ==
    pc = "write" /\ ~retry /\ ~queued /\ copyFresh /\ late = {} => TrueOf(copy, next)

RestInv == RestIsTrue /\ WriteIsTrue

LEMMA InitRestInv == Init => RestInv
  BY DEF Init, RestInv, RestIsTrue, WriteIsTrue

(* A step that leaves something to do, or nothing to be true of. *)
LEMMA NotAtRest ==
    ASSUME ~AtRest' \/ cache' = NoCache,
           pc' # "write" \/ retry' \/ queued' \/ ~copyFresh' \/ late' # {}
    PROVE  RestInv'
  BY DEF RestInv, RestIsTrue, WriteIsTrue, AtRest

(* The steps of the reconciler. *)
LEMMA ReconcileRestInv == TypeInv /\ RestInv /\ Reconcile => RestInv'
<1> SUFFICES ASSUME TypeInv, RestInv, Reconcile PROVE RestInv'
  OBVIOUS
<1>1. CASE ReconcileStart
  <2>1. CASE cached = NoCache
    BY <1>1, <2>1, NotAtRest DEF ReconcileStart, worker, AtRest, TypeInv, CopiesOK
  <2>2. CASE cached # NoCache
    BY <1>1, <2>2, NotAtRest DEF ReconcileStart, AtRest
  <2> QED
    BY <2>1, <2>2
<1>2. CASE CheckPVC
  <2>0. ~AtRest' /\ UNCHANGED <<pvc, late>>
    BY <1>2 DEF CheckPVC, Intend, AtRest
  <2>1. copy \in Caches /\ copy.type \in Types
    BY <1>2 DEF CheckPVC, TypeInv, WorkerOK, Caches
  <2>2. CASE Intend(ReadyStatus(copy), FALSE) /\ seen[copy.type] # 0
    <3>1. late = {} => TrueOf(copy, ReadyStatus(copy))
      BY <2>1, <2>2 DEF TypeInv, CopiesOK, TrueOf, ReadyStatus
    <3> QED
      BY <2>0, <2>2, <3>1 DEF Intend, RestInv, RestIsTrue, WriteIsTrue, TrueOf
  <2>3. CASE Intend(FailedStatus(copy), FALSE) /\ seen[copy.type] = 0 /\ ~copy.sizeOK
    <3>1. late = {} => TrueOf(copy, FailedStatus(copy))
      BY <2>1, <2>3 DEF TypeInv, CopiesOK, TrueOf, FailedStatus, Caches, StatusType
    <3> QED
      BY <2>0, <2>3, <3>1 DEF Intend, RestInv, RestIsTrue, WriteIsTrue, TrueOf
  <2>4. CASE pc' = "create"
    BY <2>0, <2>4, NotAtRest
  <2> QED
    BY <1>2, <2>2, <2>3, <2>4 DEF CheckPVC
<1>3. CASE CreatePVC
  <2>0. ~AtRest' /\ Intend(ReadyStatus(copy), FALSE)
    BY <1>3 DEF CreatePVC, Intend, AtRest
  <2>1. CASE pvc[copy.type] # 0 /\ UNCHANGED <<pvc, late>>
    <3>1. TrueOf(copy, ReadyStatus(copy))
      BY <2>1 DEF TrueOf, ReadyStatus
    <3> QED
      BY <2>0, <2>1, <3>1 DEF Intend, RestInv, RestIsTrue, WriteIsTrue, TrueOf
  <2>2. CASE late' = late \cup {copy.type}
    <3>1. late' # {}
      BY <2>2
    <3> QED
      BY <2>0, <3>1, NotAtRest
  <2> QED
    BY <1>3, <2>1, <2>2 DEF CreatePVC
<1>4. CASE WriteStatus
  <2>0. pc' = "idle" /\ copy = cache /\ cache \in Caches /\ pc = "write" /\ copyFresh
    BY <1>4 DEF WriteStatus, Finish, TypeInv, WorkerOK
  <2>1. CASE AtRest'
    <3>1. cache'.status = next /\ cache'.type = copy.type /\ cache'.sizeOK = copy.sizeOK
      BY <1>4, <2>0 DEF WriteStatus, Caches
    <3>2. ~retry /\ ~queued /\ late = {} /\ UNCHANGED pvc
      BY <1>4, <2>1 DEF WriteStatus, Finish, AtRest
    <3>3. TrueOf(copy, next)
      BY <2>0, <3>2 DEF RestInv, WriteIsTrue
    <3> QED
      BY <2>0, <3>1, <3>2, <3>3 DEF TrueOf, RestInv, RestIsTrue, WriteIsTrue
  <2>2. CASE ~AtRest'
    BY <2>0, <2>2, NotAtRest
  <2> QED
    BY <2>1, <2>2
<1>5. CASE WriteRefused
  BY <1>5, NotAtRest DEF WriteRefused, Finish, AtRest
<1> QED
  BY <1>1, <1>2, <1>3, <1>4, <1>5 DEF Reconcile

(* A request that fails is retried, and a restart reads everything. *)
LEMMA FaultRestInv == TypeInv /\ RestInv /\ Fault => RestInv'
<1> SUFFICES ASSUME TypeInv, RestInv, Fault PROVE RestInv'
  OBVIOUS
<1>1. CASE CheckFails \/ WriteFails
  BY <1>1, NotAtRest DEF CheckFails, WriteFails, Finish, AtRest
<1>2. CASE CreateFails
  BY <1>2, NotAtRest DEF CreateFails, Intend, AtRest
<1>3. CASE Restart
  BY <1>3, NotAtRest DEF Restart, AtRest
<1> QED
  BY <1>1, <1>2, <1>3 DEF Fault

(* What the environment changes, it leaves to be delivered or reconciled. *)
LEMMA EnvironmentRestInv == TypeInv /\ RestInv /\ Environment => RestInv'
<1> SUFFICES ASSUME TypeInv, RestInv, Environment PROVE RestInv'
  OBVIOUS
<1>1. CASE CacheSync
  BY <1>1, NotAtRest DEF CacheSync, AtRest
<1>2. ASSUME NEW t \in Types, PVCSync(t) PROVE RestInv'
  BY <1>2, NotAtRest DEF PVCSync, AtRest
<1>3. CASE CreateCache \/ EditCache \/ DeleteCache
  <2>1. ~cacheFresh' /\ ~copyFresh'
    BY <1>3 DEF CreateCache, EditCache, DeleteCache, UserWrites
  <2> QED
    BY <2>1, NotAtRest DEF AtRest
<1>4. ASSUME NEW t \in Types, RemovePVC(t) PROVE RestInv'
  <2>1. late' # {}
    BY <1>4 DEF RemovePVC
  <2> QED
    BY <2>1, NotAtRest DEF AtRest
<1> QED
  BY <1>1, <1>2, <1>3, <1>4 DEF Environment

(* When there is nothing left to deliver or to reconcile, the status says  *)
(* what the PVC of the type is.                                            *)
THEOREM RestIsTruth == Spec => []RestIsTrue
<1>1. TypeInv /\ RestInv /\ [Next]_vars => RestInv'
  <2> SUFFICES ASSUME TypeInv, RestInv, [Next]_vars PROVE RestInv'
    OBVIOUS
  <2>1. CASE UNCHANGED vars
    BY <2>1 DEF vars, worker, RestInv, RestIsTrue, WriteIsTrue, AtRest, TrueOf
  <2> QED
    BY <2>1, ReconcileRestInv, FaultRestInv, EnvironmentRestInv DEF Next
<1>2. RestInv => RestIsTrue
  BY DEF RestInv
<1> QED
  BY <1>1, <1>2, InitRestInv, TypeInvariance, PTL DEF Spec
=============================================================================
