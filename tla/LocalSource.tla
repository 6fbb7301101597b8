----------------------------- MODULE LocalSource -----------------------------
(***************************************************************************)
(* Building from a local directory (cmd/bob/sync.go, build.go).            *)
(* "bob build --local" copies the directory to a PVC through a pod that    *)
(* all commands share, keeps the BuildJob's source in an annotation and    *)
(* makes the BuildJob build the PVC; the next "bob build" puts the source  *)
(* back.  Each is a series of kubectl calls with no lock around it, and    *)
(* any of them can be the last: a call fails, or the user stops waiting.   *)
(*                                                                         *)
(* One BuildJob and one PVC.  What is built of it is in BuildDelivery.     *)
(***************************************************************************)
EXTENDS Naturals, FiniteSets

CONSTANTS
    Sessions,        \* terminals commands are given in, one after the other
    Parts,           \* files a source tree may have
    Trees,           \* Trees[s]: those in the directory of session s
    Revisions,       \* what git sources fetch
    Claims,          \* the PVCs of submitted sources
    Clients,         \* what detectKubeClient may find: "oc", "kubectl", "none"
    Overlapping,     \* commands that may run beside each other
    NewSourceOnTop,  \* whether a source may be submitted while another is kept
    ReadFailures,    \* whether reading the annotation may fail: a subset of BOOLEAN
    MaxCommands,     \* bound on commands
    NoneSuch         \* no session, revision, claim or source

LocalClaim == "source-code"
Kinds == {"local", "sync", "build", "create"}
Archs == {"", "node"}

ASSUME LocalSourceAssumption ==
    /\ Trees \in [Sessions -> SUBSET Parts]
    /\ Clients \subseteq {"oc", "kubectl", "none"}
    /\ Overlapping \subseteq Kinds
    /\ NewSourceOnTop \in BOOLEAN
    /\ ReadFailures \subseteq BOOLEAN
    /\ MaxCommands \in Nat
    /\ LocalClaim \notin Claims \cup Revisions
    /\ NoneSuch \notin Sessions \cup Revisions \cup Claims \cup {LocalClaim}

(* spec.source.  A merge patch replaces the fields it names only. *)
Sources == [type : {"git", "pvc"},
            git  : Revisions \cup {NoneSuch},
            pvc  : Claims \cup {LocalClaim, NoneSuch}]

ASSUME NoSourceAssumption == NoneSuch \notin Sources

Submitted ==
    [type : {"git"}, git : Revisions, pvc : {NoneSuch}]
        \cup [type : {"pvc"}, git : {NoneSuch}, pvc : Claims]

LocalPatch == [type |-> "pvc", git |-> NoneSuch, pvc |-> LocalClaim]

Merge(source, patch) ==
    [type |-> patch.type,
     git  |-> IF patch.git = NoneSuch THEN source.git ELSE patch.git,
     pvc  |-> IF patch.pvc = NoneSuch THEN source.pvc ELSE patch.pvc]

(* What a build of the source takes: the source stage looks at type only. *)
Code(source) == IF source.type = "git" THEN source.git ELSE source.pvc

VARIABLES
    bj,       \* the BuildJob: its source, the annotation original-source, the label
    seen,     \* the BuildJob in the informer of the API
    fresh,    \* whether that is the stored version
    wanted,   \* (history) the source submitted last
    tree,     \* the files on the PVC: tree[p] is the session whose file it is
    pod,      \* the sync pod
    sess,     \* the state of each session
    spoiled,  \* (history) sessions whose tree another one wrote into
    left      \* commands left

vars == <<bj, seen, fresh, wanted, tree, pod, sess, spoiled, left>>

BuildJobs == [source : Sources, saved : Sources \cup {NoneSuch}, local : BOOLEAN]

NoPod == [arch |-> "", phase |-> "none"]
Pods == [arch : Archs, phase : {"none", "Pending", "Running", "Succeeded"}]

(* read: the source it read.  todo: the files it has still to transfer. *)
PCs == {"idle", "pod", "arch", "drop", "make", "wait", "clear", "put", "cleanup",
        "read", "check", "save", "patch", "label", "runat",
        "look", "original", "restore", "unlabel", "unsave", "run",
        "post", "done", "failed"}

States == [cmd    : Kinds \cup {"none"},
           pc     : PCs,
           client : {"oc", "kubectl", "none"},
           read   : Sources \cup {NoneSuch},
           todo   : SUBSET Parts]

Resting == [cmd |-> "none", pc |-> "idle", client |-> "none", read |-> NoneSuch, todo |-> {}]

TypeOK ==
    /\ bj \in BuildJobs
    /\ seen \in BuildJobs
    /\ fresh \in BOOLEAN
    /\ wanted \in Sources
    /\ tree \in [Parts -> Sessions \cup {NoneSuch}]
    /\ pod \in Pods
    /\ sess \in [Sessions -> States]
    /\ spoiled \subseteq Sessions
    /\ left \in Nat

Empty == [p \in Parts |-> NoneSuch]
Whole(s) == [p \in Parts |-> IF p \in Trees[s] THEN s ELSE NoneSuch]

Init ==
    /\ \E source \in Submitted : bj = [source |-> source, saved |-> NoneSuch, local |-> FALSE]
    /\ wanted = bj.source
    /\ seen = bj
    /\ fresh = TRUE
    /\ tree = Empty
    /\ pod = NoPod
    /\ sess = [s \in Sessions |-> Resting]
    /\ spoiled = {}
    /\ left = MaxCommands

-----------------------------------------------------------------------------
(* Calls *)

At(s, pc) == sess[s].pc = pc
Go(s, pc) == sess' = [sess EXCEPT ![s].pc = pc]

Busy(s) == sess[s].pc \notin {"idle", "done", "failed"}

jobVars == <<bj, seen, fresh, wanted>>
pvcVars == <<tree, pod, spoiled>>

(* A kubectl write of the BuildJob: it is not conditional on a version. *)
Write(job) ==
    /\ bj' = job
    /\ fresh' = FALSE
    /\ UNCHANGED <<seen, wanted, pvcVars, left>>

ReadsOnly == UNCHANGED <<jobVars, pvcVars, left>>

CacheSync ==
    /\ ~fresh
    /\ seen' = bj
    /\ fresh' = TRUE
    /\ UNCHANGED <<bj, wanted, pvcVars, sess, left>>

(* A call fails, or the command is interrupted. *)
Fail(s) ==
    /\ Busy(s)
    /\ sess' = [sess EXCEPT ![s] = [Resting EXCEPT !.pc = "failed"]]
    /\ ReadsOnly

(* What another command may run beside. *)
MayStart(s, cmd) ==
    \A t \in Sessions \ {s} : Busy(t) => {cmd, sess[t].cmd} \subseteq Overlapping

FirstCall(cmd, client) ==
    CASE cmd \in {"local", "sync"} -> "pod"
      [] cmd = "build" -> IF client = "none" THEN "run" ELSE "look"
      [] cmd = "create" -> "post"

(* RunE of "bob build" and "bob sync". *)
Start(s, cmd) ==
    /\ ~Busy(s)
    /\ left > 0
    /\ MayStart(s, cmd)
    /\ cmd = "create" /\ ~NewSourceOnTop => bj.saved = NoneSuch
    /\ \E client \in Clients :
         /\ cmd \in {"local", "sync"} => client # "none"
         /\ sess' = [sess EXCEPT ![s] = [Resting EXCEPT
                       !.cmd = cmd, !.pc = FirstCall(cmd, client), !.client = client]]
    /\ left' = left - 1
    /\ UNCHANGED <<jobVars, pvcVars>>

-----------------------------------------------------------------------------
(* ensureSyncPod *)

(* buildJobArch: "bob sync" does not ask for one. *)
NodeArch(s) == IF sess[s].cmd = "local" THEN "node" ELSE ""

(* The phase.  No pod is no special case: the output of the failed "get"   *)
(* is its error message, and so not empty.                                 *)
GetPod(s) ==
    /\ At(s, "pod")
    /\ Go(s, IF pod.phase = "Running" THEN "arch" ELSE "drop")
    /\ ReadsOnly

GetArch(s) ==
    /\ At(s, "arch")
    /\ Go(s, IF pod # NoPod /\ pod.arch = NodeArch(s) THEN "clear" ELSE "drop")
    /\ ReadsOnly

(* delete --force: of whatever pod has that name by now. *)
DropPod(s) ==
    /\ At(s, "drop")
    /\ pod' = NoPod
    /\ Go(s, "make")
    /\ UNCHANGED <<jobVars, tree, spoiled, left>>

(* create: it fails when another session has made the pod. *)
MakePod(s) ==
    /\ At(s, "make")
    /\ pod = NoPod
    /\ pod' = [arch |-> NodeArch(s), phase |-> "Pending"]
    /\ Go(s, "wait")
    /\ UNCHANGED <<jobVars, tree, spoiled, left>>

WaitPod(s) ==
    /\ At(s, "wait")
    /\ pod.phase = "Running"
    /\ Go(s, "clear")
    /\ ReadsOnly

PodStarts ==
    /\ pod.phase = "Pending"
    /\ pod' = [pod EXCEPT !.phase = "Running"]
    /\ UNCHANGED <<jobVars, tree, spoiled, sess, left>>

(* "sleep 3600" is over. *)
PodEnds ==
    /\ pod.phase = "Running"
    /\ pod' = [pod EXCEPT !.phase = "Succeeded"]
    /\ UNCHANGED <<jobVars, tree, spoiled, sess, left>>

EnsureSyncPod(s) == GetPod(s) \/ GetArch(s) \/ DropPod(s) \/ MakePod(s) \/ WaitPod(s)

-----------------------------------------------------------------------------
(* tarUpload, rsyncUpload *)

(* The sessions whose files are on the PVC, or on their way to it. *)
Uploaded == {t \in Sessions : sess[t].cmd \in {"local", "sync"} /\ sess[t].pc \notin
                 {"pod", "arch", "drop", "make", "wait", "clear", "failed"}}

(* kubectl: the PVC is cleared, and the files follow.  oc: rsync --delete  *)
(* goes through all of them.                                               *)
Clear(s) ==
    /\ At(s, "clear")
    /\ pod.phase = "Running"
    /\ LET tar == sess[s].client = "kubectl" IN
         /\ tree' = IF tar THEN Empty ELSE tree
         /\ sess' = [sess EXCEPT ![s].pc = "put", ![s].todo = IF tar THEN Trees[s] ELSE Parts]
    /\ spoiled' = (spoiled \cup Uploaded) \ {s}
    /\ UNCHANGED <<jobVars, pod, left>>

(* A file, or, for rsync, its removal.  The exec may outlive its pod's     *)
(* forced deletion for a while.                                            *)
Put(s, p) ==
    /\ At(s, "put")
    /\ p \in sess[s].todo
    /\ tree' = [tree EXCEPT ![p] = Whole(s)[p]]
    /\ sess' = [sess EXCEPT ![s].todo = @ \ {p}]
    /\ spoiled' = spoiled \cup (Uploaded \ {s})
    /\ UNCHANGED <<jobVars, pod, left>>

FaultyUploadDone(s) ==
    /\ At(s, "put")
    /\ Go(s, IF sess[s].cmd = "local" THEN "cleanup" ELSE "done")
    /\ ReadsOnly

(* The exit status of the remote tar is awaited. *)
UploadDone(s) ==
    /\ At(s, "put")
    /\ sess[s].todo = {}
    /\ Go(s, IF sess[s].cmd = "local" THEN "cleanup" ELSE "done")
    /\ ReadsOnly

(* cleanupSyncPod: errors are ignored. *)
CleanupSyncPod(s) ==
    /\ At(s, "cleanup")
    /\ pod' \in {pod, NoPod}
    /\ Go(s, "read")
    /\ UNCHANGED <<jobVars, tree, spoiled, left>>

Upload(s) == Clear(s) \/ UploadDone(s) \/ CleanupSyncPod(s) \/ \E p \in Parts : Put(s, p)

-----------------------------------------------------------------------------
(* switchToPVCAndTrigger *)

FaultyReadSource(s) ==
    /\ At(s, "read")
    /\ sess' = [sess EXCEPT ![s].pc = "check", ![s].read = [type |-> bj.source.type]]
    /\ ReadsOnly

ReadSource(s) ==
    /\ At(s, "read")
    /\ sess' = [sess EXCEPT ![s].pc = "check", ![s].read = bj.source]
    /\ ReadsOnly

(* The output of a read that fails is not empty either. *)
CheckOriginal(s) ==
    /\ At(s, "check")
    /\ \E failed \in ReadFailures :
         Go(s, IF failed \/ bj.saved # NoneSuch THEN "patch" ELSE "save")
    /\ ReadsOnly

FaultySaveOriginal(s) ==
    /\ At(s, "save")
    /\ Write([bj EXCEPT !.saved = bj.source])
    /\ Go(s, "patch")

SaveOriginal(s) ==
    /\ At(s, "save")
    /\ Write([bj EXCEPT !.saved = sess[s].read])
    /\ Go(s, "patch")

PatchToLocal(s) ==
    /\ At(s, "patch")
    /\ Write([bj EXCEPT !.source = Merge(@, LocalPatch)])
    /\ Go(s, "label")

LabelLocal(s) ==
    /\ At(s, "label")
    /\ Write([bj EXCEPT !.local = TRUE])
    /\ Go(s, "runat")

(* The run-at annotation. *)
TriggerLocal(s) ==
    /\ At(s, "runat")
    /\ Write(bj)
    /\ Go(s, "done")

SwitchToPVCAndTrigger(s) ==
    \/ ReadSource(s) \/ CheckOriginal(s) \/ SaveOriginal(s)
    \/ PatchToLocal(s) \/ LabelLocal(s) \/ TriggerLocal(s)

-----------------------------------------------------------------------------
(* autoRestoreIfLocal, restoreGitSource *)

(* A read that fails makes restoreGitSource fail in turn, or find out. *)
AutoRestoreIfLocal(s) ==
    /\ At(s, "look")
    /\ \E failed \in ReadFailures :
         Go(s, IF failed \/ bj.saved # NoneSuch THEN "original" ELSE "run")
    /\ ReadsOnly

GetOriginal(s) ==
    /\ At(s, "original")
    /\ bj.saved # NoneSuch
    /\ sess' = [sess EXCEPT ![s].pc = "restore", ![s].read = bj.saved]
    /\ ReadsOnly

RestorePatch(s) ==
    /\ At(s, "restore")
    /\ Write([bj EXCEPT !.source = Merge(@, sess[s].read)])
    /\ Go(s, "unlabel")

(* The errors of these two are ignored. *)
Unlabel(s) ==
    /\ At(s, "unlabel")
    /\ Go(s, "unsave")
    /\ Write([bj EXCEPT !.local = FALSE]) \/ ReadsOnly

Unsave(s) ==
    /\ At(s, "unsave")
    /\ Go(s, "run")
    /\ Write([bj EXCEPT !.saved = NoneSuch]) \/ ReadsOnly

RestoreGitSource(s) == GetOriginal(s) \/ RestorePatch(s) \/ Unlabel(s) \/ Unsave(s)

-----------------------------------------------------------------------------
(* The API *)

FaultyUpdate(job) ==
    /\ bj' = job
    /\ fresh' = FALSE
    /\ UNCHANGED <<seen, pvcVars, left>>

(* client.Update of what was read from the informer. *)
Update(job) ==
    /\ fresh
    /\ bj' = job
    /\ fresh' = FALSE
    /\ UNCHANGED <<seen, pvcVars, left>>

(* retrigger: handleRun. *)
Run(s) ==
    /\ At(s, "run")
    /\ Update(seen)
    /\ Go(s, "done")
    /\ UNCHANGED wanted

(* createFromFile: handleCreate replaces the spec and leaves the rest. *)
Create(s) ==
    /\ At(s, "post")
    /\ \E source \in Submitted :
         /\ Update([seen EXCEPT !.source = source])
         /\ wanted' = source
    /\ Go(s, "done")

-----------------------------------------------------------------------------
Step(s) ==
    \/ EnsureSyncPod(s) \/ Upload(s)
    \/ SwitchToPVCAndTrigger(s)
    \/ AutoRestoreIfLocal(s) \/ RestoreGitSource(s)
    \/ Run(s) \/ Create(s)

Next ==
    \/ CacheSync \/ PodStarts \/ PodEnds
    \/ \E s \in Sessions :
         \/ Step(s) \/ Fail(s)
         \/ \E cmd \in Kinds : Start(s, cmd)

Spec == Init /\ [][Next]_vars

-----------------------------------------------------------------------------
(* Whenever the BuildJob builds the PVC, the source it had is still known, *)
(* whatever the commands were interrupted at.  Commands that switch may    *)
(* run side by side; one that restores may not (Overlapping), nor may the  *)
(* annotation be unreadable (ReadFailures): both lose the source.          *)
LocalIsRecoverable ==
    Code(bj.source) = LocalClaim => bj.saved # NoneSuch /\ Code(bj.saved) = Code(wanted)

(* "The next build without --local automatically restores git source":     *)
(* what "bob build" triggers is a build of the source submitted last.  It  *)
(* needs a kubectl to restore with, and no source submitted (build -f)     *)
(* while an older one is kept (NewSourceOnTop).                            *)
NextBuildRestores ==
    [][\A s \in Sessions : At(s, "run") /\ sess'[s].pc = "done" => Code(bj'.source) = Code(wanted)]_vars

(* What "bob build --local" triggers is a build of the PVC with the whole  *)
(* directory and nothing else on it, unless another session uploads too.   *)
LocalBuildsOwnTree ==
    [][\A s \in Sessions : At(s, "runat") /\ sess'[s].pc = "done" =>
           /\ Code(bj'.source) = LocalClaim
           /\ s \in spoiled \/ tree = Whole(s)]_vars
=============================================================================
