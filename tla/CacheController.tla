--------------------------- MODULE CacheController ---------------------------
(***************************************************************************)
(* The Cache reconciler (internal/controller/cache_controller.go): a Cache *)
(* has a PVC named after it and after its type, and a status that says     *)
(* whether the PVC is there.                                               *)
(*                                                                         *)
(* Both the Cache and the PVCs are read from informer caches that lag      *)
(* behind the store, each on its own.  One Cache name is modelled; a PVC   *)
(* of it is identified by the type in its name.  A timestamp that a status *)
(* update may or may not change is a choice in WriteStatus.                *)
(***************************************************************************)
EXTENDS Integers, FiniteSets

CONSTANTS
    Types,        \* the cache types in use
    MaxUid,       \* incarnations of the Cache name are 1..MaxUid
    MaxEdits,     \* bound on creations, edits and deletions by users
    MaxCrashes,   \* bound on restarts of the operator process
    MaxApiErrors, \* bound on create and status requests that fail
    MaxPVCDeletes \* bound on PVCs deleted by users

ASSUME CacheAssumption ==
    /\ Types # {} /\ "" \notin Types
    /\ MaxUid \in Nat
    /\ {MaxEdits, MaxCrashes, MaxApiErrors, MaxPVCDeletes} \subseteq Nat

VARIABLES
    cache,      \* the Cache in the store, NoCache when there is none
    uids,       \* incarnations created so far
    pvc,        \* pvc[t]: the PVC for type t: the uid of its owner, 0 when absent
    cached,     \* the informer's copy of the Cache
    cacheFresh, \* whether it is the stored version
    seen,       \* the informer's copy of pvc
    late,       \* the types whose PVC changed since it was copied
    queued,     \* the key is in the workqueue, or will be when a delay ends
    pc,         \* where the reconcile in progress is
    copy,       \* the Cache it works on
    copyFresh,  \* whether it was read from the stored version
    next,       \* the status it is about to write
    retry,      \* whether the reconcile ends with an error all the same
    budget      \* environment events left

worker == <<pc, copy, copyFresh, next, retry>>
vars == <<cache, uids, pvc, cached, cacheFresh, seen, late, queued, worker, budget>>

StatusType == [phase : {"", "Ready", "Failed"}, pvcName : Types \cup {""}]
EmptyStatus == [phase |-> "", pvcName |-> ""]

(* sizeOK: whether spec.storageSize can be parsed. *)
Caches == [uid : 1..MaxUid, type : Types, sizeOK : BOOLEAN, status : StatusType]
NoCache == [uid |-> 0]
Owners == 0..MaxUid
Events == {"edit", "crash", "api", "pvc"}

TypeOK ==
    /\ cache \in Caches \cup {NoCache} /\ cached \in Caches \cup {NoCache}
    /\ copy \in Caches \cup {NoCache}
    /\ uids \in Owners
    /\ pvc \in [Types -> Owners] /\ seen \in [Types -> Owners]
    /\ late \subseteq Types
    /\ {cacheFresh, copyFresh, queued, retry} \subseteq BOOLEAN
    /\ pc \in {"idle", "check", "create", "write"}
    /\ next \in StatusType
    /\ budget \in [Events -> Nat]

Init ==
    /\ cache = NoCache /\ cached = NoCache /\ cacheFresh = TRUE
    /\ uids = 0
    /\ pvc = [t \in Types |-> 0] /\ seen = pvc /\ late = {}
    /\ queued = FALSE
    /\ pc = "idle" /\ copy = NoCache /\ copyFresh = FALSE
    /\ next = EmptyStatus /\ retry = FALSE
    /\ budget = [edit |-> MaxEdits, crash |-> MaxCrashes, api |-> MaxApiErrors,
                 pvc |-> MaxPVCDeletes]

Spend(event) ==
    /\ budget[event] > 0
    /\ budget' = [budget EXCEPT ![event] = @ - 1]

-----------------------------------------------------------------------------
(* The reconciler *)

(* The reconcile ends; later says whether the key is to be retried. *)
Finish(later) ==
    /\ pc' = "idle" /\ copy' = NoCache /\ copyFresh' = FALSE
    /\ next' = EmptyStatus /\ retry' = FALSE
    /\ queued' = (queued \/ later)

Intend(status, later) ==
    /\ pc' = "write" /\ next' = status /\ retry' = later
    /\ UNCHANGED <<copy, copyFresh, queued>>

ReconcileStart ==
    /\ pc = "idle" /\ queued
    /\ queued' = FALSE
    /\ IF cached = NoCache
         THEN UNCHANGED worker
         ELSE /\ copy' = cached /\ copyFresh' = cacheFresh
              /\ pc' = "check"
              /\ UNCHANGED <<next, retry>>
    /\ UNCHANGED <<cache, uids, pvc, cached, cacheFresh, seen, late, budget>>

FaultyReadyStatus(c) == [c.status EXCEPT !.phase = "Ready", !.pvcName = IF @ = "" THEN c.type ELSE @]

ReadyStatus(c) == [phase |-> "Ready", pvcName |-> c.type]

FaultyFailedStatus(c) == [phase |-> "InvalidStorageSize", pvcName |-> c.status.pvcName]

FailedStatus(c) == [c.status EXCEPT !.phase = "Failed"]

(* The PVC is looked up in the informer's cache: any PVC of that name will *)
(* do, whoever owns it.  The size is parsed only to create one.            *)
CheckPVC ==
    /\ pc = "check"
    /\ IF seen[copy.type] # 0 THEN Intend(ReadyStatus(copy), FALSE)
       ELSE IF ~copy.sizeOK THEN Intend(FailedStatus(copy), FALSE)
       ELSE pc' = "create" /\ UNCHANGED <<copy, copyFresh, next, retry, queued>>
    /\ UNCHANGED <<cache, uids, pvc, cached, cacheFresh, seen, late, budget>>

(* AlreadyExists is as good as a PVC of its own. *)
CreatePVC ==
    /\ pc = "create"
    /\ IF pvc[copy.type] # 0
         THEN UNCHANGED <<pvc, late>>
         ELSE /\ pvc' = [pvc EXCEPT ![copy.type] = copy.uid]
              /\ late' = late \cup {copy.type}
    /\ Intend(ReadyStatus(copy), FALSE)
    /\ UNCHANGED <<cache, uids, cached, cacheFresh, seen, budget>>

CheckFails ==
    /\ pc = "check"
    /\ Spend("api")
    /\ Finish(TRUE)
    /\ UNCHANGED <<cache, uids, pvc, cached, cacheFresh, seen, late>>

(* Any other error of Create is shown in the status and then returned. *)
CreateFails ==
    /\ pc = "create"
    /\ Spend("api")
    /\ Intend(FailedStatus(copy), TRUE)
    /\ UNCHANGED <<cache, uids, pvc, cached, cacheFresh, seen, late>>

(* The update may carry a new LastTransitionTime and change nothing else. *)
WriteStatus ==
    /\ pc = "write" /\ copyFresh
    /\ cache' = [cache EXCEPT !.status = next]
    /\ cacheFresh' \in IF cache' = cache THEN {cacheFresh, FALSE} ELSE {FALSE}
    /\ Finish(retry)
    /\ UNCHANGED <<uids, pvc, cached, seen, late, budget>>

WriteRefused ==
    /\ pc = "write" /\ ~copyFresh
    /\ Finish(TRUE)
    /\ UNCHANGED <<cache, uids, pvc, cached, cacheFresh, seen, late, budget>>

WriteFails ==
    /\ pc = "write"
    /\ Spend("api")
    /\ Finish(TRUE)
    /\ UNCHANGED <<cache, uids, pvc, cached, cacheFresh, seen, late>>

-----------------------------------------------------------------------------
(* The environment *)

Restart ==
    /\ Spend("crash")
    /\ pc' = "idle" /\ copy' = NoCache /\ copyFresh' = FALSE
    /\ next' = EmptyStatus /\ retry' = FALSE
    /\ queued' = (cache # NoCache)
    /\ cached' = cache /\ cacheFresh' = TRUE /\ seen' = pvc /\ late' = {}
    /\ UNCHANGED <<cache, uids, pvc>>

CacheSync ==
    /\ ~cacheFresh
    /\ cached' = cache /\ cacheFresh' = TRUE
    /\ queued' = TRUE
    /\ UNCHANGED <<cache, uids, pvc, seen, late, worker, budget>>

(* A change of a PVC is an event of the Cache that its owner reference     *)
(* names; every incarnation has that name.                                 *)
PVCSync(t) ==
    /\ t \in late
    /\ seen' = [seen EXCEPT ![t] = pvc[t]] /\ late' = late \ {t}
    /\ queued' = TRUE
    /\ UNCHANGED <<cache, uids, pvc, cached, cacheFresh, worker, budget>>

UserWrites(c) ==
    /\ Spend("edit")
    /\ cache' = c /\ cacheFresh' = FALSE /\ copyFresh' = FALSE
    /\ UNCHANGED <<pvc, cached, seen, late, queued, pc, copy, next, retry>>

CreateCache ==
    /\ cache = NoCache /\ uids < MaxUid
    /\ uids' = uids + 1
    /\ \E t \in Types, ok \in BOOLEAN :
          UserWrites([uid |-> uids + 1, type |-> t, sizeOK |-> ok, status |-> EmptyStatus])

EditCache ==
    /\ cache # NoCache
    /\ \E t \in Types, ok \in BOOLEAN :
          /\ <<t, ok>> # <<cache.type, cache.sizeOK>>
          /\ UserWrites([cache EXCEPT !.type = t, !.sizeOK = ok])
    /\ UNCHANGED uids

DeleteCache ==
    /\ cache # NoCache
    /\ UserWrites(NoCache)
    /\ UNCHANGED uids

(* A user deletes the PVC, or the garbage collector does when the Cache    *)
(* that owns it is gone.                                                   *)
RemovePVC(t) ==
    /\ pvc[t] # 0
    /\ IF pvc[t] = cache.uid THEN Spend("pvc") ELSE UNCHANGED budget
    /\ pvc' = [pvc EXCEPT ![t] = 0] /\ late' = late \cup {t}
    /\ UNCHANGED <<cache, uids, cached, cacheFresh, seen, queued, worker>>

-----------------------------------------------------------------------------
Reconcile == ReconcileStart \/ CheckPVC \/ CreatePVC \/ WriteStatus \/ WriteRefused

Fault == CheckFails \/ CreateFails \/ WriteFails \/ Restart

Environment ==
    \/ CacheSync \/ CreateCache \/ EditCache \/ DeleteCache
    \/ \E t \in Types : PVCSync(t) \/ RemovePVC(t)

Next == Reconcile \/ Fault \/ Environment

Spec == Init /\ [][Next]_vars

-----------------------------------------------------------------------------
AtRest == pc = "idle" /\ ~queued /\ cacheFresh /\ late = {}

(* When there is nothing left to deliver or to reconcile, the status tells *)
(* the truth: Ready names the PVC of the type the spec now has, and that   *)
(* PVC exists; Failed means a size no PVC can be made of.  Neither lagging *)
(* caches, refused writes, failed requests, restarts nor the collection of *)
(* an earlier incarnation's PVC leave it otherwise.                        *)
RestIsTrue ==
    AtRest /\ cache # NoCache =>
        IF pvc[cache.type] # 0
          THEN cache.status = [phase |-> "Ready", pvcName |-> cache.type]
          ELSE ~cache.sizeOK /\ cache.status.phase = "Failed"
=============================================================================
