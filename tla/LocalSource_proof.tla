--------------------------- MODULE LocalSource_proof ---------------------------
(***************************************************************************)
(* Proofs about building from a local directory: type correctness, that    *)
(* the submitted source is known while the PVC is built, that the next     *)
(* "bob build" triggers it, and that "bob build --local" triggers a build  *)
(* of its whole directory.                                                 *)
(***************************************************************************)
EXTENDS LocalSource, TLAPS

(* What the users have to see to: no restore beside another command, no    *)
(* source submitted while another is kept, and an annotation that can be   *)
(* read.                                                                   *)
Orderly ==
    /\ Overlapping \subseteq {"local", "sync"}
    /\ ~NewSourceOnTop
    /\ TRUE \notin ReadFailures

Waiting == {"idle", "done", "failed"}
LocalPCs == {"pod", "arch", "drop", "make", "wait", "clear", "put", "cleanup",
             "read", "check", "save", "patch", "label", "runat"}
BuildPCs == {"look", "original", "restore", "unlabel", "unsave", "run"}

LEMMA NoneSuchIsNone ==
    /\ NoneSuch \notin Sources /\ NoneSuch # LocalClaim
    /\ NoneSuch \notin Revisions /\ NoneSuch \notin Claims
    /\ LocalClaim \notin Claims /\ LocalClaim \notin Revisions
<1>1. NoneSuch \notin Sources
  BY NoSourceAssumption
<1>2. NoneSuch \notin Sessions \cup Revisions \cup Claims \cup {LocalClaim}
  BY Zenon, LocalSourceAssumption
<1>3. LocalClaim \notin Claims \cup Revisions
  BY Zenon, LocalSourceAssumption
<1> QED
  BY <1>1, <1>2, <1>3

LEMMA TreesAreParts == Trees \in [Sessions -> SUBSET Parts]
  BY Zenon, LocalSourceAssumption

-----------------------------------------------------------------------------
(* Steps of one session *)

(* Only session s moves; what it restores is a source. *)
Moves(s) ==
    /\ sess' \in [Sessions -> States]
    /\ \A t \in Sessions \ {s} : sess'[t] = sess[t]
    /\ sess'[s].pc = "restore" => sess'[s].read \in Sources

(* It moves to pc, and keeps the rest. *)
MovesTo(s, pc) ==
    /\ Moves(s)
    /\ sess'[s].pc = pc /\ sess'[s].cmd = sess[s].cmd
    /\ sess'[s].client = sess[s].client /\ sess'[s].read = sess[s].read
    /\ sess'[s].todo = sess[s].todo

LEMMA GoMoves ==
    ASSUME TypeOK, NEW s \in Sessions, NEW c \in PCs \ {"restore"}, Go(s, c)
    PROVE  MovesTo(s, c)
<1>1. sess \in [Sessions -> States]
  BY DEF TypeOK
<1>2. sess' = [sess EXCEPT ![s] = [sess[s] EXCEPT !.pc = c]]
  BY DEF Go
<1>3. [sess[s] EXCEPT !.pc = c] \in States
  BY <1>1 DEF States
<1>4. /\ [sess[s] EXCEPT !.pc = c].pc = c /\ [sess[s] EXCEPT !.pc = c].cmd = sess[s].cmd
      /\ [sess[s] EXCEPT !.pc = c].client = sess[s].client
      /\ [sess[s] EXCEPT !.pc = c].read = sess[s].read
      /\ [sess[s] EXCEPT !.pc = c].todo = sess[s].todo
  BY <1>1 DEF States
<1>5. sess'[s] = [sess[s] EXCEPT !.pc = c]
  BY <1>1, <1>2
<1>6. Moves(s)
  BY <1>1, <1>2, <1>3, <1>4, <1>5 DEF Moves
<1> QED
  BY <1>4, <1>5, <1>6 DEF MovesTo

LEMMA ReadMoves ==
    ASSUME TypeOK, NEW s \in Sessions, NEW c \in PCs, NEW x \in Sources,
           sess' = [sess EXCEPT ![s].pc = c, ![s].read = x]
    PROVE  Moves(s) /\ sess'[s].pc = c /\ sess'[s].read = x /\ sess'[s].cmd = sess[s].cmd
                    /\ sess'[s].client = sess[s].client
<1>1. sess \in [Sessions -> States]
  BY DEF TypeOK
<1> DEFINE st == [[sess[s] EXCEPT !.pc = c] EXCEPT !.read = x]
<1>2. sess' = [sess EXCEPT ![s] = st]
  BY <1>1
<1>3. /\ st \in States /\ st.pc = c /\ st.read = x /\ st.cmd = sess[s].cmd
      /\ st.client = sess[s].client
  BY <1>1 DEF States
<1> HIDE DEF st
<1> QED
  BY <1>1, <1>2, <1>3 DEF Moves

LEMMA TodoMoves ==
    ASSUME TypeOK, NEW s \in Sessions, NEW c \in PCs \ {"restore"}, NEW x \in SUBSET Parts,
           \/ sess' = [sess EXCEPT ![s].pc = c, ![s].todo = x]
           \/ sess[s].pc = c /\ sess' = [sess EXCEPT ![s].todo = x]
    PROVE  Moves(s) /\ sess'[s].pc = c /\ sess'[s].todo = x /\ sess'[s].cmd = sess[s].cmd
<1>1. sess \in [Sessions -> States]
  BY DEF TypeOK
<1> DEFINE st == [[sess[s] EXCEPT !.pc = c] EXCEPT !.todo = x]
<1>2. sess' = [sess EXCEPT ![s] = st]
  <2>1. CASE sess' = [sess EXCEPT ![s].pc = c, ![s].todo = x]
    BY <1>1, <2>1
  <2>2. CASE sess[s].pc = c /\ sess' = [sess EXCEPT ![s].todo = x]
    <3>1. st = [sess[s] EXCEPT !.todo = x]
      BY <1>1, <2>2 DEF States
    <3> QED
      BY <2>2, <3>1
  <2> QED
    BY <2>1, <2>2
<1>3. st \in States /\ st.pc = c /\ st.todo = x /\ st.cmd = sess[s].cmd
  <2>1. sess[s] \in States /\ c \in PCs
    BY <1>1
  <2> QED
    BY <2>1 DEF States
<1> HIDE DEF st
<1> QED
  BY <1>1, <1>2, <1>3 DEF Moves

-----------------------------------------------------------------------------
(* Type correctness.  TypeOK is not inductive: what a session restores     *)
(* could be no source.                                                     *)

ReadOK == \A s \in Sessions : At(s, "restore") => sess[s].read \in Sources

TypeInv == TypeOK /\ ReadOK

LEMMA SourceTypes ==
    /\ Submitted \subseteq Sources /\ LocalPatch \in Sources
    /\ \A x, y \in Sources : Merge(x, y) \in Sources
<1>1. Submitted \subseteq Sources
  BY DEF Submitted, Sources
<1>2. LocalPatch \in Sources
  BY DEF LocalPatch, Sources
<1>3. \A x, y \in Sources : Merge(x, y) \in Sources
  BY DEF Merge, Sources
<1> QED
  BY <1>1, <1>2, <1>3

LEMMA RestingType ==
    ASSUME NEW k \in Kinds, NEW c \in PCs, NEW client \in {"oc", "kubectl", "none"}
    PROVE  /\ Resting \in States
           /\ [Resting EXCEPT !.pc = "failed"] \in States
           /\ [Resting EXCEPT !.cmd = k, !.pc = c, !.client = client] \in States
  BY DEF Resting, States, PCs

LEMMA PodTypes ==
    /\ NoPod \in Pods
    /\ [arch |-> "node", phase |-> "Pending"] \in Pods
    /\ [arch |-> "", phase |-> "Pending"] \in Pods
  BY DEF NoPod, Pods, Archs

LEMMA InitType == Init => TypeInv
<1> SUFFICES ASSUME Init PROVE TypeInv
  OBVIOUS
<1>1. bj \in BuildJobs /\ wanted \in Sources
  BY SourceTypes DEF Init, BuildJobs
<1>2. Resting \in States
  BY DEF Resting, States, PCs
<1>3. pod \in Pods
  BY DEF Init, NoPod, Pods, Archs
<1>4. left \in Nat
  BY LocalSourceAssumption DEF Init
<1> QED
  <2>1. TypeOK
    BY <1>1, <1>2, <1>3, <1>4 DEF Init, TypeOK, Empty
  <2>2. ReadOK
    BY DEF Init, ReadOK, At, Resting
  <2> QED
    BY <2>1, <2>2 DEF TypeInv

(* The calls of a command keep the types. *)
LEMMA PodType ==
    ASSUME TypeOK, NEW s \in Sessions, EnsureSyncPod(s) PROVE TypeOK' /\ Moves(s)
<1>0. {"arch", "drop", "clear", "make", "wait"} \subseteq PCs \ {"restore"}
  BY DEF PCs
<1>1. \E c \in {"arch", "drop", "clear", "make", "wait"} : Go(s, c)
  BY Zenon DEF EnsureSyncPod, GetPod, GetArch, DropPod, MakePod, WaitPod
<1>2. Moves(s)
  BY <1>0, <1>1, GoMoves DEF MovesTo
<1>3. pod' \in Pods
  <2>1. \/ pod' = pod \/ pod' = NoPod
        \/ pod' = [arch |-> "node", phase |-> "Pending"]
        \/ pod' = [arch |-> "", phase |-> "Pending"]
    BY Zenon DEF EnsureSyncPod, GetPod, GetArch, DropPod, MakePod, WaitPod, NodeArch, ReadsOnly, pvcVars
  <2> QED
    BY <2>1, PodTypes DEF TypeOK
<1>4. UNCHANGED <<bj, seen, fresh, wanted, tree, spoiled, left>>
  BY DEF EnsureSyncPod, GetPod, GetArch, DropPod, MakePod, WaitPod, ReadsOnly, jobVars, pvcVars
<1> QED
  BY <1>2, <1>3, <1>4 DEF Moves, TypeOK

LEMMA UploadType ==
    ASSUME TypeOK, NEW s \in Sessions, Upload(s) PROVE TypeOK' /\ Moves(s)
<1>0. {"put", "cleanup", "done", "read"} \subseteq PCs \ {"restore"}
  BY DEF PCs
<1>1. UNCHANGED <<bj, seen, fresh, wanted, left>>
  BY DEF Upload, Clear, Put, UploadDone, CleanupSyncPod, ReadsOnly, jobVars
<1>2. spoiled' \subseteq Sessions
  BY DEF Upload, Clear, Put, UploadDone, CleanupSyncPod, ReadsOnly, pvcVars, Uploaded, TypeOK
<1>3. pod' \in Pods
  <2>1. pod' \in {pod, NoPod}
    BY Zenon DEF Upload, Clear, Put, UploadDone, CleanupSyncPod, ReadsOnly, pvcVars
  <2> QED
    BY <2>1, PodTypes DEF TypeOK
<1>4. Empty \in [Parts -> Sessions \cup {NoneSuch}] /\ Whole(s) \in [Parts -> Sessions \cup {NoneSuch}]
  BY DEF Empty, Whole
<1>5. tree' \in [Parts -> Sessions \cup {NoneSuch}]
  BY <1>4 DEF Upload, Clear, Put, UploadDone, CleanupSyncPod, ReadsOnly, pvcVars, TypeOK
<1>6. Moves(s)
  <2>1. CASE Clear(s)
    <3>1. (IF sess[s].client = "kubectl" THEN Trees[s] ELSE Parts) \in SUBSET Parts
      BY TreesAreParts
    <3>2. sess' = [sess EXCEPT ![s].pc = "put",
                   ![s].todo = IF sess[s].client = "kubectl" THEN Trees[s] ELSE Parts]
      BY <2>1 DEF Clear
    <3> QED
      BY <1>0, <3>1, <3>2, TodoMoves
  <2>2. ASSUME NEW p \in Parts, Put(s, p) PROVE Moves(s)
    <3>1. sess[s].todo \ {p} \in SUBSET Parts
      BY DEF TypeOK, States
    <3>2. sess[s].pc = "put" /\ sess' = [sess EXCEPT ![s].todo = sess[s].todo \ {p}]
      BY <2>2 DEF Put, At, TypeOK
    <3> QED
      BY <1>0, <3>1, <3>2, TodoMoves
  <2>3. CASE UploadDone(s) \/ CleanupSyncPod(s)
    <3>1. \E c \in {"cleanup", "done", "read"} : Go(s, c)
      BY <2>3 DEF UploadDone, CleanupSyncPod
    <3> QED
      BY <1>0, <3>1, GoMoves DEF MovesTo
  <2> QED
    BY <2>1, <2>2, <2>3 DEF Upload
<1> QED
  BY <1>1, <1>2, <1>3, <1>5, <1>6 DEF Moves, TypeOK

LEMMA WriteType ==
    ASSUME TypeOK, NEW job \in BuildJobs, Write(job), sess' \in [Sessions -> States]
    PROVE  TypeOK'
  BY DEF Write, TypeOK, pvcVars

LEMMA SwitchType ==
    ASSUME TypeOK, NEW s \in Sessions, SwitchToPVCAndTrigger(s) PROVE TypeOK' /\ Moves(s)
<1>0. {"check", "save", "patch", "label", "runat", "done"} \subseteq PCs \ {"restore"}
  BY DEF PCs
<1>1. CASE ReadSource(s)
  <2>1. bj.source \in Sources
    BY DEF TypeOK, BuildJobs
  <2>2. Moves(s)
    BY <1>0, <1>1, <2>1, ReadMoves DEF ReadSource
  <2> QED
    BY <1>1, <2>2 DEF ReadSource, ReadsOnly, jobVars, pvcVars, TypeOK, Moves
<1>2. CASE CheckOriginal(s)
  <2>1. \E c \in {"patch", "save"} : Go(s, c)
    BY <1>2 DEF CheckOriginal
  <2>2. Moves(s)
    BY <1>0, <2>1, GoMoves DEF MovesTo
  <2> QED
    BY <1>2, <2>2 DEF CheckOriginal, ReadsOnly, jobVars, pvcVars, TypeOK, Moves
<1>3. CASE SaveOriginal(s)
  <2>1. [bj EXCEPT !.saved = sess[s].read] \in BuildJobs
    BY DEF TypeOK, BuildJobs, States
  <2>2. Moves(s)
    BY <1>0, <1>3, GoMoves DEF SaveOriginal, MovesTo
  <2> QED
    BY <1>3, <2>1, <2>2, WriteType DEF SaveOriginal, Moves
<1>4. CASE PatchToLocal(s)
  <2>1. [bj EXCEPT !.source = Merge(bj.source, LocalPatch)] \in BuildJobs
    BY SourceTypes DEF TypeOK, BuildJobs
  <2>2. Moves(s)
    BY <1>0, <1>4, GoMoves DEF PatchToLocal, MovesTo
  <2>3. Write([bj EXCEPT !.source = Merge(bj.source, LocalPatch)])
    BY <1>4 DEF PatchToLocal, TypeOK, BuildJobs
  <2> QED
    BY <2>1, <2>2, <2>3, WriteType DEF Moves
<1>5. CASE LabelLocal(s) \/ TriggerLocal(s)
  <2>1. bj \in BuildJobs /\ [bj EXCEPT !.local = TRUE] \in BuildJobs
    BY DEF TypeOK, BuildJobs
  <2>2. Moves(s)
    BY <1>0, <1>5, GoMoves DEF LabelLocal, TriggerLocal, MovesTo
  <2> QED
    BY <1>5, <2>1, <2>2, WriteType DEF LabelLocal, TriggerLocal, Moves
<1> QED
  BY <1>1, <1>2, <1>3, <1>4, <1>5 DEF SwitchToPVCAndTrigger

LEMMA RestoreType ==
    ASSUME TypeOK, ReadOK, NEW s \in Sessions, AutoRestoreIfLocal(s) \/ RestoreGitSource(s)
    PROVE  TypeOK' /\ Moves(s)
<1>0. {"original", "unlabel", "unsave", "run"} \subseteq PCs \ {"restore"} /\ "restore" \in PCs
  BY DEF PCs
<1>1. CASE AutoRestoreIfLocal(s)
  <2>1. \E c \in {"original", "run"} : Go(s, c)
    BY <1>1 DEF AutoRestoreIfLocal
  <2>2. Moves(s)
    BY <1>0, <2>1, GoMoves DEF MovesTo
  <2> QED
    BY <1>1, <2>2 DEF AutoRestoreIfLocal, ReadsOnly, jobVars, pvcVars, TypeOK, Moves
<1>2. CASE GetOriginal(s)
  <2>1. bj.saved \in Sources
    BY <1>2 DEF GetOriginal, TypeOK, BuildJobs
  <2>2. Moves(s)
    BY <1>0, <1>2, <2>1, ReadMoves DEF GetOriginal
  <2> QED
    BY <1>2, <2>2 DEF GetOriginal, ReadsOnly, jobVars, pvcVars, TypeOK, Moves
<1>3. CASE RestorePatch(s)
  <2>0. sess[s].read \in Sources
    BY <1>3 DEF RestorePatch, At, ReadOK
  <2>1. [bj EXCEPT !.source = Merge(bj.source, sess[s].read)] \in BuildJobs
    BY <2>0, SourceTypes DEF TypeOK, BuildJobs
  <2>2. Moves(s)
    BY <1>0, <1>3, GoMoves DEF RestorePatch, MovesTo
  <2>3. Write([bj EXCEPT !.source = Merge(bj.source, sess[s].read)])
    BY <1>3 DEF RestorePatch, TypeOK, BuildJobs
  <2> QED
    BY <2>1, <2>2, <2>3, WriteType DEF Moves
<1>4. CASE Unlabel(s) \/ Unsave(s)
  <2>1. [bj EXCEPT !.local = FALSE] \in BuildJobs /\ [bj EXCEPT !.saved = NoneSuch] \in BuildJobs
    BY DEF TypeOK, BuildJobs
  <2>2. Moves(s)
    BY <1>0, <1>4, GoMoves DEF Unlabel, Unsave, MovesTo
  <2>3. CASE ReadsOnly
    BY <2>2, <2>3 DEF ReadsOnly, jobVars, pvcVars, TypeOK, Moves
  <2> QED
    BY <1>4, <2>1, <2>2, <2>3, WriteType DEF Unlabel, Unsave, Moves
<1> QED
  BY <1>1, <1>2, <1>3, <1>4 DEF RestoreGitSource

LEMMA ApiType ==
    ASSUME TypeOK, NEW s \in Sessions, Run(s) \/ Create(s) PROVE TypeOK' /\ Moves(s)
<1>0. "done" \in PCs \ {"restore"}
  BY DEF PCs
<1>1. Moves(s)
  BY <1>0, GoMoves DEF Run, Create, MovesTo
<1>2. \A job \in BuildJobs : Update(job) /\ wanted' \in Sources => TypeOK'
  BY <1>1 DEF Update, TypeOK, pvcVars, Moves
<1>3. \A source \in Sources : [seen EXCEPT !.source = source] \in BuildJobs
  BY DEF TypeOK, BuildJobs
<1>4. seen \in BuildJobs /\ wanted \in Sources
  BY DEF TypeOK
<1> QED
  BY <1>1, <1>2, <1>3, <1>4, SourceTypes DEF Run, Create

LEMMA StepType ==
    ASSUME TypeInv, NEW s \in Sessions, Step(s) PROVE TypeOK' /\ Moves(s)
  BY PodType, UploadType, SwitchType, RestoreType, ApiType DEF Step, TypeInv

(* A command is given, or stops. *)
LEMMA StartType ==
    ASSUME TypeOK, NEW s \in Sessions, NEW k \in Kinds, Start(s, k)
    PROVE  /\ TypeOK' /\ Moves(s)
           /\ \E client \in Clients :
                /\ sess'[s].cmd = k /\ sess'[s].pc = FirstCall(k, client)
                /\ sess'[s].client = client
<1>1. PICK client \in Clients :
           sess' = [sess EXCEPT ![s] = [Resting EXCEPT
                      !.cmd = k, !.pc = FirstCall(k, client), !.client = client]]
  BY DEF Start
<1>2. FirstCall(k, client) \in PCs \ {"restore"}
  BY DEF FirstCall, Kinds, PCs
<1>3. client \in {"oc", "kubectl", "none"}
  BY LocalSourceAssumption
<1> DEFINE st == [Resting EXCEPT !.cmd = k, !.pc = FirstCall(k, client), !.client = client]
<1>4. st \in States
  BY <1>2, <1>3, RestingType
<1>5. st.cmd = k /\ st.pc = FirstCall(k, client) /\ st.client = client
  BY DEF Resting
<1>6. sess' = [sess EXCEPT ![s] = st]
  BY <1>1
<1> HIDE DEF st
<1>7. Moves(s) /\ sess'[s] = st
  BY <1>2, <1>4, <1>5, <1>6 DEF Moves, TypeOK
<1>8. left' \in Nat
  BY DEF Start, TypeOK
<1>9. TypeOK'
  BY <1>7, <1>8 DEF Start, jobVars, pvcVars, TypeOK, Moves
<1> QED
  BY <1>5, <1>7, <1>9

LEMMA FailType ==
    ASSUME TypeOK, NEW s \in Sessions, Fail(s)
    PROVE  TypeOK' /\ Moves(s) /\ sess'[s].pc = "failed"
<1> DEFINE st == [Resting EXCEPT !.pc = "failed"]
<1>1. st \in States /\ st.pc = "failed"
  BY DEF Resting, States, PCs
<1>2. sess' = [sess EXCEPT ![s] = st]
  BY DEF Fail
<1> HIDE DEF st
<1>3. Moves(s) /\ sess'[s].pc = "failed"
  BY <1>1, <1>2 DEF Moves, TypeOK
<1> QED
  BY <1>3 DEF Fail, ReadsOnly, jobVars, pvcVars, TypeOK, Moves

LEMMA OthersType ==
    ASSUME TypeOK, CacheSync \/ PodStarts \/ PodEnds PROVE TypeOK' /\ UNCHANGED sess
  BY DEF CacheSync, PodStarts, PodEnds, jobVars, pvcVars, TypeOK, Pods

LEMMA NextType == ASSUME TypeInv, [Next]_vars PROVE TypeInv'
<1>1. ASSUME NEW s \in Sessions, TypeOK', Moves(s) PROVE TypeInv'
  BY <1>1 DEF Moves, TypeInv, ReadOK, At
<1>2. ASSUME TypeOK', UNCHANGED sess PROVE TypeInv'
  BY <1>2 DEF TypeInv, ReadOK, At
<1>3. CASE UNCHANGED vars
  BY <1>2, <1>3 DEF vars, TypeInv, TypeOK
<1> QED
  BY <1>1, <1>2, <1>3, StepType, StartType, FailType, OthersType DEF Next, TypeInv

(* Every reachable state is well typed. *)
THEOREM TypeInvariance == Spec => []TypeInv
  BY InitType, NextType, PTL DEF Spec

(* The variables of the model stay within their types in every behaviour. *)
THEOREM TypeCorrect == Spec => []TypeOK
<1>1. TypeInv => TypeOK
  BY DEF TypeInv
<1> QED
  BY <1>1, TypeInvariance, PTL

-----------------------------------------------------------------------------
(* The source.  What a session may be about to do to it, by where it is;   *)
(* and while one restores or submits, the others rest.                     *)

JobOK ==
    /\ wanted \in Submitted
    /\ fresh => seen = bj
    /\ Code(bj.source) \in {Code(wanted), LocalClaim}
    /\ Code(bj.source) = LocalClaim => bj.saved # NoneSuch
    /\ bj.saved # NoneSuch => Code(bj.saved) = Code(wanted)

GoodStates ==
    {st \in States :
        /\ st.pc \in LocalPCs => st.cmd \in {"local", "sync"}
        /\ st.pc \in BuildPCs => st.cmd = "build" /\ st.client \in Clients
        /\ st.pc = "post" => st.cmd = "create" /\ bj.saved = NoneSuch
        /\ st.pc = "check" => /\ st.read # NoneSuch
                              /\ Code(st.read) # Code(wanted) => bj.saved # NoneSuch
        /\ st.pc \in {"save", "restore"} => st.read # NoneSuch /\ Code(st.read) = Code(wanted)
        /\ st.pc = "patch" => bj.saved # NoneSuch
        /\ st.pc \in {"label", "runat"} => Code(bj.source) = LocalClaim
        /\ \/ st.pc \in {"unlabel", "unsave"}
           \/ st.pc = "run" /\ st.client # "none"
           => Code(bj.source) # LocalClaim}

OneAtATime ==
    \A s, t \in Sessions :
        s # t /\ Busy(s) /\ Busy(t) => {sess[s].cmd, sess[t].cmd} \subseteq {"local", "sync"}

SourceInv == JobOK /\ (\A s \in Sessions : sess[s] \in GoodStates) /\ OneAtATime

LEMMA SubmittedCode ==
    ASSUME NEW x \in Submitted PROVE Code(x) \notin {NoneSuch, LocalClaim}
  BY NoneSuchIsNone DEF Submitted, Code

(* A merge patch makes the BuildJob build what the patch names. *)
LEMMA MergeCode ==
    ASSUME NEW x \in Sources, NEW y \in Sources, Code(y) # NoneSuch
    PROVE  Code(Merge(x, y)) = Code(y)
  BY DEF Merge, Code, Sources

LEMMA LocalPatchCode == Code(LocalPatch) = LocalClaim
  BY DEF Code, LocalPatch

(* A session that rests has nothing to be wrong about. *)
LEMMA RestIsGood ==
    ASSUME NEW st \in States, st.pc \in Waiting
    PROVE  st \in GoodStates /\ st \in GoodStates'
  BY DEF GoodStates, Waiting, LocalPCs, BuildPCs

(* An upload or a switch stays right as long as the source is kept. *)
LEMMA LocalStaysGood ==
    ASSUME NEW st \in GoodStates, st.pc \in LocalPCs, UNCHANGED wanted,
           bj.saved # NoneSuch => bj'.saved # NoneSuch,
           Code(bj.source) = LocalClaim => Code(bj'.source) = LocalClaim
    PROVE  st \in GoodStates'
  BY DEF GoodStates, LocalPCs, BuildPCs

(* The others, when one session moves without writing the BuildJob, writes *)
(* it for a switch, or writes it alone.                                    *)
LEMMA OthersStayGood ==
    ASSUME TypeOK, SourceInv, NEW s \in Sessions, NEW t \in Sessions, s # t, Busy(s),
           \/ UNCHANGED <<bj, wanted>>
           \/ /\ sess[s].cmd \in {"local", "sync"} /\ UNCHANGED wanted
              /\ bj.saved # NoneSuch => bj'.saved # NoneSuch
              /\ Code(bj.source) = LocalClaim => Code(bj'.source) = LocalClaim
           \/ sess[s].cmd \notin {"local", "sync"}
    PROVE  sess[t] \in GoodStates'
<1>0. sess[t] \in GoodStates /\ sess[t] \in States
  BY DEF SourceInv, TypeOK
<1>1. CASE UNCHANGED <<bj, wanted>>
  BY <1>0, <1>1 DEF GoodStates
<1>2. CASE sess[t].pc \in Waiting
  BY <1>0, <1>2, RestIsGood
<1>3. CASE sess[t].pc \notin Waiting
  <2>1. {sess[s].cmd, sess[t].cmd} \subseteq {"local", "sync"}
    BY <1>3 DEF SourceInv, OneAtATime, Busy, Waiting
  <2>2. sess[t].pc \in LocalPCs
    BY <1>0, <1>3, <2>1 DEF GoodStates, States, PCs, LocalPCs, BuildPCs, Waiting
  <2> QED
    BY <1>0, <1>1, <2>1, <2>2, LocalStaysGood
<1> QED
  BY <1>2, <1>3

(* What is left to show of the step of a session. *)
LEMMA StepIsGood ==
    ASSUME TypeOK, SourceInv, NEW s \in Sessions, Moves(s), Busy(s),
           sess'[s].cmd = sess[s].cmd \/ sess'[s].pc \in Waiting,
           sess'[s] \in GoodStates', JobOK',
           \/ UNCHANGED <<bj, wanted>>
           \/ /\ sess[s].cmd \in {"local", "sync"} /\ UNCHANGED wanted
              /\ bj.saved # NoneSuch => bj'.saved # NoneSuch
              /\ Code(bj.source) = LocalClaim => Code(bj'.source) = LocalClaim
           \/ sess[s].cmd \notin {"local", "sync"}
    PROVE  SourceInv'
<1>1. \A t \in Sessions : sess'[t] \in GoodStates'
  BY OthersStayGood DEF Moves
<1>2. OneAtATime'
  BY DEF SourceInv, OneAtATime, Busy, Moves, Waiting
<1> QED
  BY <1>1, <1>2 DEF SourceInv

LEMMA InitSourceInv == Init => SourceInv
<1> SUFFICES ASSUME Init PROVE SourceInv
  OBVIOUS
<1>1. Resting \in States /\ Resting.pc = "idle"
  BY DEF Resting, States, PCs
<1>2. Resting \in GoodStates
  BY <1>1, RestIsGood DEF Waiting
<1>3. bj.source \in Submitted /\ bj.saved = NoneSuch /\ wanted = bj.source /\ seen = bj
  BY DEF Init
<1>4. JobOK
  BY <1>3, SubmittedCode DEF JobOK
<1>5. OneAtATime
  BY <1>1 DEF Init, OneAtATime, Busy
<1> QED
  BY <1>2, <1>4, <1>5 DEF Init, SourceInv

(* Calls that leave the BuildJob alone. *)
LEMMA UploadKeepsSource ==
    ASSUME TypeInv, SourceInv, NEW s \in Sessions, EnsureSyncPod(s) \/ Upload(s)
    PROVE  SourceInv'
<1>1. Moves(s) /\ UNCHANGED <<bj, seen, fresh, wanted>>
  <2>1. Moves(s)
    BY PodType, UploadType DEF TypeInv
  <2>2. UNCHANGED <<bj, seen, fresh, wanted>>
    BY DEF EnsureSyncPod, GetPod, GetArch, DropPod, MakePod, WaitPod,
           Upload, Clear, Put, UploadDone, CleanupSyncPod, ReadsOnly, jobVars
  <2> QED
    BY <2>1, <2>2
<1>2. /\ sess[s].pc \in LocalPCs /\ sess'[s].cmd = sess[s].cmd
      /\ sess'[s].pc \in {"arch", "drop", "clear", "make", "wait", "put", "cleanup", "read", "done"}
  <2>1. sess \in [Sessions -> States]
    BY DEF TypeInv, TypeOK
  <2>2. sess[s].pc \in LocalPCs
    BY DEF EnsureSyncPod, GetPod, GetArch, DropPod, MakePod, WaitPod,
           Upload, Clear, Put, UploadDone, CleanupSyncPod, At, LocalPCs
  <2>3. CASE EnsureSyncPod(s) \/ UploadDone(s) \/ CleanupSyncPod(s)
    <3>1. \E c \in {"arch", "drop", "clear", "make", "wait", "cleanup", "read", "done"} : Go(s, c)
      BY <2>3, Zenon DEF EnsureSyncPod, GetPod, GetArch, DropPod, MakePod, WaitPod, UploadDone, CleanupSyncPod
    <3>2. {"arch", "drop", "clear", "make", "wait", "cleanup", "read", "done"} \subseteq PCs \ {"restore"}
      BY DEF PCs
    <3> QED
      BY <2>2, <3>1, <3>2, GoMoves DEF MovesTo, TypeInv
  <2>4. CASE Clear(s)
    BY <2>1, <2>2, <2>4 DEF Clear, States
  <2>5. ASSUME NEW p \in Parts, Put(s, p)
        PROVE  sess'[s].cmd = sess[s].cmd /\ sess'[s].pc = "put"
    BY <2>1, <2>5 DEF Put, At, States
  <2> QED
    BY <2>2, <2>3, <2>4, <2>5 DEF Upload
<1>3. sess[s] \in GoodStates /\ sess'[s] \in States
  BY <1>1 DEF SourceInv, Moves
<1>4. sess'[s] \in GoodStates'
  BY <1>2, <1>3 DEF GoodStates, LocalPCs, BuildPCs
<1>5. JobOK'
  BY <1>1 DEF SourceInv, JobOK
<1>6. Busy(s)
  BY <1>2 DEF Busy, LocalPCs
<1> QED
  BY <1>1, <1>2, <1>4, <1>5, <1>6, StepIsGood DEF TypeInv

(* switchToPVCAndTrigger: the source is kept before it is replaced. *)
LEMMA SwitchKeepsSource ==
    ASSUME Orderly, TypeInv, SourceInv, NEW s \in Sessions, SwitchToPVCAndTrigger(s)
    PROVE  SourceInv'
<1>0. /\ sess[s] \in GoodStates /\ sess[s] \in States /\ Moves(s) /\ TypeOK
      /\ bj \in BuildJobs /\ bj.source \in Sources /\ sess'[s] \in States
      /\ {"check", "save", "patch", "label", "runat", "done"} \subseteq PCs \ {"restore"}
  BY SwitchType DEF TypeInv, TypeOK, SourceInv, BuildJobs, Moves, PCs
<1>1. sess[s].pc \in LocalPCs /\ Busy(s) /\ sess[s].cmd \in {"local", "sync"}
  <2>1. sess[s].pc \in LocalPCs
    BY DEF SwitchToPVCAndTrigger, ReadSource, CheckOriginal, SaveOriginal, PatchToLocal,
           LabelLocal, TriggerLocal, At, LocalPCs
  <2> QED
    BY <1>0, <2>1 DEF GoodStates, Busy, LocalPCs
<1>2. CASE ReadSource(s)
  <2>1. /\ UNCHANGED <<bj, seen, fresh, wanted>> /\ sess'[s].cmd = sess[s].cmd
        /\ sess'[s].pc = "check" /\ sess'[s].read = bj.source
    BY <1>0, <1>2, ReadMoves DEF ReadSource, ReadsOnly, jobVars
  <2>2. bj.source # NoneSuch
    BY <1>0, NoneSuchIsNone
  <2>3. sess'[s] \in GoodStates'
    BY <1>0, <1>1, <2>1, <2>2 DEF GoodStates, SourceInv, JobOK, LocalPCs, BuildPCs
  <2>4. JobOK'
    BY <2>1 DEF SourceInv, JobOK
  <2> QED
    BY <1>0, <1>1, <2>1, <2>3, <2>4, StepIsGood
<1>3. CASE CheckOriginal(s)
  <2>1. UNCHANGED <<bj, seen, fresh, wanted>> /\ sess[s].pc = "check"
    BY <1>3 DEF CheckOriginal, ReadsOnly, jobVars, At
  <2>2. Go(s, IF bj.saved # NoneSuch THEN "patch" ELSE "save")
    <3>1. \A failed \in ReadFailures : failed = FALSE
      BY LocalSourceAssumption DEF Orderly
    <3> QED
      BY <1>3, <3>1 DEF CheckOriginal
  <2>3. MovesTo(s, IF bj.saved # NoneSuch THEN "patch" ELSE "save")
    BY <1>0, <2>2, GoMoves
  <2>4. sess'[s] \in GoodStates'
    BY <1>0, <1>1, <2>1, <2>3 DEF MovesTo, GoodStates, LocalPCs, BuildPCs
  <2>5. JobOK'
    BY <2>1 DEF SourceInv, JobOK
  <2> QED
    BY <1>0, <1>1, <2>1, <2>3, <2>4, <2>5, StepIsGood DEF MovesTo
<1>4. CASE SaveOriginal(s)
  <2>1. sess[s].pc = "save" /\ MovesTo(s, "patch") /\ UNCHANGED wanted /\ fresh' = FALSE
    BY <1>0, <1>4, GoMoves DEF SaveOriginal, At, Write
  <2>2. bj'.source = bj.source /\ bj'.saved = sess[s].read
    BY <1>0, <1>4 DEF SaveOriginal, Write, BuildJobs
  <2>3. sess[s].read # NoneSuch /\ Code(sess[s].read) = Code(wanted)
    BY <1>0, <2>1 DEF GoodStates
  <2>4. JobOK'
    BY <2>1, <2>2, <2>3 DEF SourceInv, JobOK, Code
  <2>5. sess'[s] \in GoodStates'
    BY <1>0, <1>1, <2>1, <2>2, <2>3 DEF MovesTo, GoodStates, LocalPCs, BuildPCs
  <2> QED
    BY <1>0, <1>1, <2>1, <2>2, <2>3, <2>4, <2>5, StepIsGood DEF MovesTo
<1>5. CASE PatchToLocal(s)
  <2>1. sess[s].pc = "patch" /\ MovesTo(s, "label") /\ UNCHANGED wanted /\ fresh' = FALSE
    BY <1>0, <1>5, GoMoves DEF PatchToLocal, At, Write
  <2>2. bj'.source = Merge(bj.source, LocalPatch) /\ bj'.saved = bj.saved
    BY <1>0, <1>5 DEF PatchToLocal, Write, BuildJobs
  <2>3. Code(bj'.source) = LocalClaim
    BY <1>0, <2>2, SourceTypes, MergeCode, LocalPatchCode, NoneSuchIsNone
  <2>4. bj.saved # NoneSuch
    BY <1>0, <2>1 DEF GoodStates
  <2>5. JobOK'
    BY <2>1, <2>2, <2>3, <2>4 DEF SourceInv, JobOK
  <2>6. sess'[s] \in GoodStates'
    BY <1>0, <1>1, <2>1, <2>3 DEF MovesTo, GoodStates, LocalPCs, BuildPCs
  <2> QED
    BY <1>0, <1>1, <2>1, <2>2, <2>3, <2>5, <2>6, StepIsGood DEF MovesTo
<1>6. CASE LabelLocal(s) \/ TriggerLocal(s)
  <2>1. /\ sess[s].pc \in {"label", "runat"} /\ UNCHANGED wanted /\ fresh' = FALSE
        /\ MovesTo(s, "runat") \/ MovesTo(s, "done")
    BY <1>0, <1>6, GoMoves DEF LabelLocal, TriggerLocal, At, Write
  <2>2. bj'.source = bj.source /\ bj'.saved = bj.saved
    BY <1>0, <1>6 DEF LabelLocal, TriggerLocal, Write, BuildJobs
  <2>3. JobOK'
    BY <2>1, <2>2 DEF SourceInv, JobOK
  <2>4. sess'[s] \in GoodStates'
    BY <1>0, <1>1, <2>1, <2>2 DEF MovesTo, GoodStates, LocalPCs, BuildPCs
  <2> QED
    BY <1>0, <1>1, <2>1, <2>2, <2>3, <2>4, StepIsGood DEF MovesTo
<1> QED
  BY <1>2, <1>3, <1>4, <1>5, <1>6 DEF SwitchToPVCAndTrigger

(* autoRestoreIfLocal: what was kept comes back before it is forgotten. *)
LEMMA RestoreKeepsSource ==
    ASSUME Orderly, TypeInv, SourceInv, NEW s \in Sessions,
           AutoRestoreIfLocal(s) \/ RestoreGitSource(s)
    PROVE  SourceInv'
<1>0. /\ sess[s] \in GoodStates /\ sess[s] \in States /\ Moves(s) /\ TypeOK
      /\ bj \in BuildJobs /\ bj.source \in Sources /\ sess'[s] \in States
      /\ {"original", "unlabel", "unsave", "run"} \subseteq PCs \ {"restore"}
  BY RestoreType DEF TypeInv, TypeOK, SourceInv, BuildJobs, Moves, PCs
<1>1. /\ sess[s].pc \in BuildPCs /\ Busy(s) /\ sess[s].cmd = "build" /\ sess[s].client \in Clients
      /\ Code(wanted) \notin {NoneSuch, LocalClaim}
  <2>1. sess[s].pc \in BuildPCs
    BY DEF AutoRestoreIfLocal, RestoreGitSource, GetOriginal, RestorePatch, Unlabel, Unsave, At, BuildPCs
  <2>2. Code(wanted) \notin {NoneSuch, LocalClaim}
    BY SubmittedCode DEF SourceInv, JobOK
  <2> QED
    BY <1>0, <2>1, <2>2 DEF GoodStates, Busy, BuildPCs
<1>2. CASE AutoRestoreIfLocal(s)
  <2>1. UNCHANGED <<bj, seen, fresh, wanted>>
    BY <1>2 DEF AutoRestoreIfLocal, ReadsOnly, jobVars
  <2>2. Go(s, IF bj.saved # NoneSuch THEN "original" ELSE "run")
    <3>1. \A failed \in ReadFailures : failed = FALSE
      BY LocalSourceAssumption DEF Orderly
    <3> QED
      BY <1>2, <3>1 DEF AutoRestoreIfLocal
  <2>3. MovesTo(s, IF bj.saved # NoneSuch THEN "original" ELSE "run")
    BY <1>0, <2>2, GoMoves
  <2>4. sess'[s] \in GoodStates'
    BY <1>0, <1>1, <2>1, <2>3 DEF MovesTo, GoodStates, LocalPCs, BuildPCs, SourceInv, JobOK
  <2>5. JobOK'
    BY <2>1 DEF SourceInv, JobOK
  <2> QED
    BY <1>0, <1>1, <2>1, <2>3, <2>4, <2>5, StepIsGood DEF MovesTo
<1>3. CASE GetOriginal(s)
  <2>1. bj.saved # NoneSuch /\ bj.saved \in Sources
    BY <1>0, <1>3 DEF GetOriginal, BuildJobs
  <2>2. /\ UNCHANGED <<bj, seen, fresh, wanted>> /\ sess'[s].cmd = sess[s].cmd
        /\ sess'[s].client = sess[s].client
        /\ sess'[s].pc = "restore" /\ sess'[s].read = bj.saved
    <3>1. "restore" \in PCs
      BY DEF PCs
    <3> QED
      BY <1>0, <1>3, <2>1, <3>1, ReadMoves DEF GetOriginal, ReadsOnly, jobVars
  <2>3. sess'[s] \in GoodStates'
    BY <1>0, <1>1, <2>1, <2>2 DEF GoodStates, SourceInv, JobOK, LocalPCs, BuildPCs
  <2>4. JobOK'
    BY <2>2 DEF SourceInv, JobOK
  <2> QED
    BY <1>0, <1>1, <2>2, <2>3, <2>4, StepIsGood
<1>4. CASE RestorePatch(s)
  <2>1. sess[s].pc = "restore" /\ MovesTo(s, "unlabel") /\ UNCHANGED wanted /\ fresh' = FALSE
    BY <1>0, <1>4, GoMoves DEF RestorePatch, At, Write
  <2>2. bj'.source = Merge(bj.source, sess[s].read) /\ bj'.saved = bj.saved
    BY <1>0, <1>4 DEF RestorePatch, Write, BuildJobs
  <2>3. sess[s].read \in Sources /\ Code(sess[s].read) = Code(wanted)
    BY <1>0, <2>1 DEF GoodStates, TypeInv, ReadOK, At
  <2>4. Code(bj'.source) = Code(wanted)
    BY <1>0, <1>1, <2>2, <2>3, MergeCode
  <2>5. JobOK'
    BY <1>1, <2>1, <2>2, <2>4 DEF SourceInv, JobOK
  <2>6. sess'[s] \in GoodStates'
    BY <1>0, <1>1, <2>1, <2>4 DEF MovesTo, GoodStates, LocalPCs, BuildPCs
  <2> QED
    BY <1>0, <1>1, <2>1, <2>5, <2>6, StepIsGood DEF MovesTo
<1>5. CASE Unlabel(s) \/ Unsave(s)
  <2>1. /\ sess[s].pc \in {"unlabel", "unsave"} /\ UNCHANGED wanted
        /\ MovesTo(s, "unsave") \/ MovesTo(s, "run")
    BY <1>0, <1>5, GoMoves DEF Unlabel, Unsave, At, Write, ReadsOnly, jobVars
  <2>2. /\ bj'.source = bj.source /\ bj'.saved \in {bj.saved, NoneSuch}
        /\ fresh' = FALSE \/ UNCHANGED <<bj, seen, fresh>>
    BY <1>0, <1>5 DEF Unlabel, Unsave, Write, ReadsOnly, jobVars, BuildJobs
  <2>3. Code(bj.source) # LocalClaim
    BY <1>0, <2>1 DEF GoodStates
  <2>4. JobOK'
    BY <2>1, <2>2, <2>3 DEF SourceInv, JobOK
  <2>5. sess'[s] \in GoodStates'
    BY <1>0, <1>1, <2>1, <2>2, <2>3 DEF MovesTo, GoodStates, LocalPCs, BuildPCs
  <2> QED
    BY <1>0, <1>1, <2>1, <2>4, <2>5, StepIsGood DEF MovesTo
<1> QED
  BY <1>2, <1>3, <1>4, <1>5 DEF RestoreGitSource

(* The API: what it writes back is what is stored. *)
LEMMA ApiKeepsSource ==
    ASSUME TypeInv, SourceInv, NEW s \in Sessions, Run(s) \/ Create(s)
    PROVE  SourceInv'
<1>0. /\ sess[s] \in GoodStates /\ TypeOK /\ bj \in BuildJobs /\ seen = bj
  BY DEF TypeInv, TypeOK, SourceInv, JobOK, Run, Create, Update
<1>1. MovesTo(s, "done") /\ sess'[s] \in States
  <2>1. "done" \in PCs \ {"restore"}
    BY DEF PCs
  <2> QED
    BY <1>0, <2>1, GoMoves DEF Run, Create, MovesTo, Moves
<1>2. /\ Busy(s) /\ sess[s].cmd \in {"build", "create"}
      /\ Create(s) => bj.saved = NoneSuch
  BY <1>0 DEF Run, Create, At, Busy, GoodStates, BuildPCs
<1>3. sess'[s] \in GoodStates'
  BY <1>1, RestIsGood DEF MovesTo, Waiting
<1>4. JobOK'
  <2>1. CASE Run(s)
    BY <1>0, <2>1 DEF Run, Update, SourceInv, JobOK
  <2>2. CASE Create(s)
    <3>1. PICK source \in Submitted : Update([seen EXCEPT !.source = source]) /\ wanted' = source
      BY <2>2 DEF Create
    <3>2. bj'.source = source /\ bj'.saved = NoneSuch /\ fresh' = FALSE
      BY <1>0, <1>2, <2>2, <3>1 DEF Update, BuildJobs
    <3> QED
      BY <3>1, <3>2, SubmittedCode DEF JobOK
  <2> QED
    BY <2>1, <2>2
<1> QED
  BY <1>0, <1>1, <1>2, <1>3, <1>4, StepIsGood DEF MovesTo, Waiting

(* A command starts beside those it may run beside. *)
LEMMA StartKeepsSource ==
    ASSUME Orderly, TypeInv, SourceInv, NEW s \in Sessions, NEW k \in Kinds, Start(s, k)
    PROVE  SourceInv'
<1>0. TypeOK /\ Moves(s) /\ sess'[s] \in States /\ UNCHANGED <<bj, seen, fresh, wanted>>
  BY StartType DEF TypeInv, Moves, Start, jobVars
<1>1. PICK client \in Clients : /\ sess'[s].cmd = k /\ sess'[s].pc = FirstCall(k, client)
                                /\ sess'[s].client = client
  BY <1>0, StartType
<1>2. sess'[s] \in GoodStates'
  <2>1. CASE k \in {"local", "sync"}
    BY <1>0, <1>1, <2>1 DEF FirstCall, GoodStates, LocalPCs, BuildPCs
  <2>2. CASE k = "build"
    BY <1>0, <1>1, <2>2 DEF FirstCall, GoodStates, LocalPCs, BuildPCs
  <2>3. CASE k = "create"
    <3>1. bj.saved = NoneSuch
      BY <2>3 DEF Start, Orderly
    <3> QED
      BY <1>0, <1>1, <2>3, <3>1 DEF FirstCall, GoodStates, LocalPCs, BuildPCs
  <2> QED
    BY <2>1, <2>2, <2>3 DEF Kinds
<1>3. \A t \in Sessions : sess'[t] \in GoodStates'
  <2> SUFFICES ASSUME NEW t \in Sessions, t # s PROVE sess'[t] \in GoodStates'
    BY <1>2
  <2>1. sess'[t] = sess[t] /\ sess[t] \in GoodStates
    BY <1>0 DEF Moves, SourceInv
  <2> QED
    BY <1>0, <2>1 DEF GoodStates
<1>4. \A t \in Sessions \ {s} : Busy(t) => {k, sess[t].cmd} \subseteq {"local", "sync"}
  BY DEF Start, MayStart, Orderly
<1>5. OneAtATime'
  BY <1>0, <1>1, <1>4 DEF SourceInv, OneAtATime, Busy, Moves
<1>6. JobOK'
  BY <1>0 DEF SourceInv, JobOK
<1> QED
  BY <1>3, <1>5, <1>6 DEF SourceInv

(* A command may stop at any call. *)
LEMMA FailKeepsSource ==
    ASSUME TypeInv, SourceInv, NEW s \in Sessions, Fail(s)
    PROVE  SourceInv'
<1>1. TypeOK /\ Moves(s) /\ Busy(s) /\ sess'[s].pc = "failed" /\ sess'[s] \in States
      /\ UNCHANGED <<bj, seen, fresh, wanted>>
  BY FailType DEF TypeInv, Fail, ReadsOnly, jobVars, Moves
<1>2. sess'[s] \in GoodStates'
  BY <1>1, RestIsGood DEF Waiting
<1>3. JobOK'
  BY <1>1 DEF SourceInv, JobOK
<1> QED
  BY <1>1, <1>2, <1>3, StepIsGood DEF Waiting

LEMMA OthersKeepSource ==
    ASSUME SourceInv, CacheSync \/ PodStarts \/ PodEnds \/ UNCHANGED vars
    PROVE  SourceInv'
<1>1. UNCHANGED <<bj, wanted, sess>> /\ (fresh' => (fresh /\ seen' = seen) \/ seen' = bj)
  BY DEF CacheSync, PodStarts, PodEnds, vars, jobVars
<1>2. JobOK'
  BY <1>1 DEF SourceInv, JobOK
<1>3. GoodStates' = GoodStates
  BY <1>1 DEF GoodStates
<1>4. OneAtATime'
  BY <1>1 DEF SourceInv, OneAtATime, Busy
<1> QED
  BY <1>1, <1>2, <1>3, <1>4 DEF SourceInv

(* The submitted source is stored, or kept beside the local one. *)
THEOREM SourceInvariance == ASSUME Orderly PROVE Spec => []SourceInv
<1>1. TypeInv /\ SourceInv /\ [Next]_vars => SourceInv'
  BY UploadKeepsSource, SwitchKeepsSource, RestoreKeepsSource, ApiKeepsSource, StartKeepsSource,
     FailKeepsSource, OthersKeepSource DEF Next, Step
<1> QED
  BY <1>1, InitSourceInv, TypeInvariance, PTL DEF Spec

(* While the PVC is built, the source submitted last is known: whatever    *)
(* the commands were interrupted at, it can be restored.                   *)
THEOREM SourceIsRecoverable == ASSUME Orderly PROVE Spec => []LocalIsRecoverable
<1>1. SourceInv => LocalIsRecoverable
  BY DEF SourceInv, JobOK, LocalIsRecoverable
<1> QED
  BY <1>1, SourceInvariance, PTL

(* A session that moves is the one whose step it is. *)
LEMMA OneMoves ==
    ASSUME TypeInv, [Next]_vars, NEW s \in Sessions, sess'[s] # sess[s]
    PROVE  Step(s) \/ Fail(s) \/ \E cmd \in Kinds : Start(s, cmd)
<1>1. ~UNCHANGED sess /\ Next
  BY DEF vars
<1>2. ~(CacheSync \/ PodStarts \/ PodEnds)
  BY <1>1 DEF CacheSync, PodStarts, PodEnds
<1>3. PICK t \in Sessions : Step(t) \/ Fail(t) \/ \E cmd \in Kinds : Start(t, cmd)
  BY <1>1, <1>2 DEF Next
<1>4. Moves(t)
  BY <1>3, StepType, FailType, StartType DEF TypeInv
<1> QED
  BY <1>3, <1>4 DEF Moves

(* What "bob build" triggers is a build of the source submitted last, when *)
(* there is a kubectl to restore it with.                                  *)
THEOREM NextBuildIsSubmitted ==
    ASSUME Orderly, "none" \notin Clients PROVE Spec => NextBuildRestores
<1>1. ASSUME TypeInv, SourceInv, [Next]_vars, NEW s \in Sessions, At(s, "run"), sess'[s].pc = "done"
      PROVE  Code(bj'.source) = Code(wanted)
  <2>1. Step(s) \/ Fail(s) \/ \E cmd \in Kinds : Start(s, cmd)
    BY <1>1, OneMoves DEF At
  <2>2. ~Fail(s) /\ ~\E cmd \in Kinds : Start(s, cmd)
    BY <1>1, FailType DEF Start, Busy, At, TypeInv
  <2>3. Run(s)
    BY <1>1, <2>1, <2>2
       DEF At, Step, EnsureSyncPod, GetPod, GetArch, DropPod, MakePod, WaitPod, Upload, Clear, Put,
           UploadDone, CleanupSyncPod, SwitchToPVCAndTrigger, ReadSource, CheckOriginal, SaveOriginal,
           PatchToLocal, LabelLocal, TriggerLocal, AutoRestoreIfLocal, RestoreGitSource, GetOriginal,
           RestorePatch, Unlabel, Unsave, Create
  <2>4. bj' = bj
    BY <1>1, <2>3 DEF Run, Update, SourceInv, JobOK
  <2>5. Code(bj.source) # LocalClaim
    BY <1>1 DEF SourceInv, GoodStates, At, BuildPCs
  <2> QED
    BY <1>1, <2>4, <2>5 DEF SourceInv, JobOK
<1>2. TypeInv /\ SourceInv /\ [Next]_vars =>
          [\A s \in Sessions : At(s, "run") /\ sess'[s].pc = "done" => Code(bj'.source) = Code(wanted)]_vars
  BY <1>1
<1> QED
  BY <1>2, TypeInvariance, SourceInvariance, PTL DEF Spec, NextBuildRestores

-----------------------------------------------------------------------------
(* The files.  A session nobody wrote over has put what it has no longer   *)
(* to transfer, and when it has done so its directory is on the PVC.       *)

CopiedPCs == {"cleanup", "read", "check", "save", "patch", "label", "runat"}

TreeOK ==
    \A s \in Sessions \ spoiled :
        /\ At(s, "put") => \A p \in Parts \ sess[s].todo : tree[p] = Whole(s)[p]
        /\ sess[s].pc \in CopiedPCs => tree = Whole(s)

LEMMA UploadsAreCounted ==
    ASSUME SourceInv, NEW s \in Sessions, At(s, "put") \/ sess[s].pc \in CopiedPCs
    PROVE  s \in Uploaded
<1>1. sess[s] \in GoodStates /\ sess[s].pc \in LocalPCs
  BY DEF SourceInv, At, LocalPCs, CopiedPCs
<1>2. sess[s].cmd \in {"local", "sync"}
  BY <1>1 DEF GoodStates
<1> QED
  BY <1>2 DEF Uploaded, At, CopiedPCs

(* Writing to the PVC. *)
LEMMA WritesKeepTree ==
    ASSUME TypeInv, SourceInv, TreeOK, NEW s \in Sessions,
           Clear(s) \/ \E p \in Parts : Put(s, p)
    PROVE  TreeOK'
<1>0. TypeOK /\ Moves(s)
  <2>1. Upload(s)
    BY DEF Upload
  <2> QED
    BY <2>1, UploadType DEF TypeInv
<1>1. ASSUME NEW t \in Sessions \ spoiled', t # s
      PROVE  ~(At(t, "put")') /\ sess'[t].pc \notin CopiedPCs
  <2>1. t \notin Uploaded
    BY <1>1 DEF Clear, Put
  <2> QED
    BY <1>0, <1>1, <2>1, UploadsAreCounted DEF Moves, At
<1>2. sess'[s].pc = "put"
  BY <1>0 DEF Clear, Put, TypeOK, States, At
<1>3. s \notin spoiled' => \A p \in Parts \ sess'[s].todo : tree'[p] = Whole(s)[p]
  <2>1. CASE Clear(s)
    <3> DEFINE tar == sess[s].client = "kubectl"
               left0 == IF tar THEN Trees[s] ELSE Parts
    <3>1. sess' = [sess EXCEPT ![s].pc = "put", ![s].todo = left0]
      BY <2>1 DEF Clear
    <3> HIDE DEF left0
    <3>2. sess'[s].todo = left0
      BY <1>0, <3>1 DEF TypeOK, States
    <3> USE DEF left0
    <3>3. CASE tar
      BY <2>1, <3>2, <3>3 DEF Clear, Empty, Whole
    <3>4. CASE ~tar
      BY <3>2, <3>4
    <3> QED
      BY <3>3, <3>4
  <2>2. ASSUME NEW q \in Parts, Put(s, q), s \notin spoiled'
        PROVE  \A p \in Parts \ sess'[s].todo : tree'[p] = Whole(s)[p]
    <3>1. sess[s].pc = "put" /\ sess' = [sess EXCEPT ![s].todo = sess[s].todo \ {q}]
      BY <1>0, <2>2 DEF Put, At, TypeOK
    <3>2. sess'[s].todo = sess[s].todo \ {q}
      BY <1>0, <3>1 DEF TypeOK, States
    <3>3. \A p \in Parts \ sess[s].todo : tree[p] = Whole(s)[p]
      BY <2>2, <3>1 DEF Put, TreeOK, At
    <3> QED
      BY <1>0, <2>2, <3>2, <3>3 DEF Put, TypeOK
  <2> QED
    BY <2>1, <2>2
<1> QED
  BY <1>1, <1>2, <1>3 DEF TreeOK, At, CopiedPCs, Whole

(* The exit status of the transfer is awaited. *)
LEMMA DoneKeepsTree ==
    ASSUME TypeInv, TreeOK, NEW s \in Sessions, UploadDone(s) PROVE TreeOK'
<1>0. TypeOK /\ UNCHANGED <<tree, spoiled>> /\ sess[s].todo = {} /\ At(s, "put")
  BY DEF TypeInv, UploadDone, ReadsOnly, pvcVars
<1>1. MovesTo(s, "cleanup") \/ MovesTo(s, "done")
  <2>1. {"cleanup", "done"} \subseteq PCs \ {"restore"}
    BY DEF PCs
  <2> QED
    BY <1>0, <2>1, GoMoves DEF UploadDone
<1>2. s \notin spoiled => tree = Whole(s)
  BY <1>0 DEF TreeOK, TypeOK, Whole
<1> QED
  BY <1>0, <1>1, <1>2 DEF MovesTo, Moves, TreeOK, At, Whole, CopiedPCs

(* Every other step leaves the PVC alone. *)
LEMMA RestKeepsTree ==
    ASSUME TreeOK, NEW s \in Sessions, Moves(s), UNCHANGED <<tree, spoiled>>, sess'[s].pc # "put",
           sess'[s].pc \in CopiedPCs => sess[s].pc \in CopiedPCs
    PROVE  TreeOK'
  BY DEF Moves, TreeOK, At, Whole

LEMMA NextKeepsTree ==
    ASSUME TypeInv, SourceInv, TreeOK, [Next]_vars PROVE TreeOK'
<1>0. TypeOK
  BY DEF TypeInv
<1>1. ASSUME NEW s \in Sessions, EnsureSyncPod(s) PROVE TreeOK'
  <2>1. Moves(s) /\ UNCHANGED <<tree, spoiled>>
    BY <1>0, <1>1, PodType DEF EnsureSyncPod, GetPod, GetArch, DropPod, MakePod, WaitPod, ReadsOnly, pvcVars
  <2>2. \E c \in {"arch", "drop", "clear", "make", "wait"} : Go(s, c)
    BY <1>1, Zenon DEF EnsureSyncPod, GetPod, GetArch, DropPod, MakePod, WaitPod
  <2>3. sess'[s].pc \in {"arch", "drop", "clear", "make", "wait"}
    BY <1>0, <2>2, GoMoves DEF MovesTo, PCs
  <2> QED
    BY <2>1, <2>3, RestKeepsTree DEF CopiedPCs
<1>2. ASSUME NEW s \in Sessions, CleanupSyncPod(s) PROVE TreeOK'
  <2>1. MovesTo(s, "read") /\ UNCHANGED <<tree, spoiled>> /\ sess[s].pc = "cleanup"
    BY <1>0, <1>2, GoMoves DEF CleanupSyncPod, At, PCs
  <2> QED
    BY <2>1, RestKeepsTree DEF MovesTo, CopiedPCs
<1>3. ASSUME NEW s \in Sessions, SwitchToPVCAndTrigger(s) PROVE TreeOK'
  <2>1. Moves(s) /\ UNCHANGED <<tree, spoiled>>
    BY <1>0, <1>3, SwitchType
       DEF SwitchToPVCAndTrigger, ReadSource, CheckOriginal, SaveOriginal, PatchToLocal, LabelLocal,
           TriggerLocal, Write, ReadsOnly, pvcVars
  <2>2. sess[s].pc \in CopiedPCs
    BY <1>3 DEF SwitchToPVCAndTrigger, ReadSource, CheckOriginal, SaveOriginal, PatchToLocal,
                LabelLocal, TriggerLocal, At, CopiedPCs
  <2>3. sess'[s].pc # "put"
    <3>1. CASE ReadSource(s)
      <4>1. bj.source \in Sources /\ "check" \in PCs
        BY <1>0 DEF TypeOK, BuildJobs, PCs
      <4> QED
        BY <1>0, <3>1, <4>1, ReadMoves DEF ReadSource
    <3>2. CASE ~ReadSource(s)
      <4>1. \E c \in {"save", "patch", "label", "runat", "done"} : Go(s, c)
        BY <1>3, <3>2 DEF SwitchToPVCAndTrigger, CheckOriginal, SaveOriginal, PatchToLocal, LabelLocal, TriggerLocal
      <4> QED
        BY <1>0, <4>1, GoMoves DEF MovesTo, PCs
    <3> QED
      BY <3>1, <3>2
  <2> QED
    BY <2>1, <2>2, <2>3, RestKeepsTree
<1>4. ASSUME NEW s \in Sessions, AutoRestoreIfLocal(s) \/ RestoreGitSource(s) PROVE TreeOK'
  <2>1. Moves(s) /\ UNCHANGED <<tree, spoiled>>
    BY <1>4, RestoreType
       DEF AutoRestoreIfLocal, RestoreGitSource, GetOriginal, RestorePatch, Unlabel, Unsave,
           Write, ReadsOnly, pvcVars, TypeInv
  <2>2. sess'[s].pc \in {"original", "restore", "unlabel", "unsave", "run"}
    <3>1. CASE GetOriginal(s)
      <4>1. bj.saved \in Sources /\ "restore" \in PCs
        BY <1>0, <3>1 DEF GetOriginal, TypeOK, BuildJobs, PCs
      <4> QED
        BY <1>0, <3>1, <4>1, ReadMoves DEF GetOriginal
    <3>2. CASE ~GetOriginal(s)
      <4>1. \E c \in {"original", "unlabel", "unsave", "run"} : Go(s, c)
        BY <1>4, <3>2 DEF AutoRestoreIfLocal, RestoreGitSource, RestorePatch, Unlabel, Unsave
      <4> QED
        BY <1>0, <4>1, GoMoves DEF MovesTo, PCs
    <3> QED
      BY <3>1, <3>2
  <2> QED
    BY <2>1, <2>2, RestKeepsTree DEF CopiedPCs
<1>5. ASSUME NEW s \in Sessions, Run(s) \/ Create(s) PROVE TreeOK'
  <2>1. MovesTo(s, "done") /\ UNCHANGED <<tree, spoiled>>
    BY <1>0, <1>5, GoMoves DEF Run, Create, Update, pvcVars, PCs
  <2> QED
    BY <2>1, RestKeepsTree DEF MovesTo, CopiedPCs
<1>6. ASSUME NEW s \in Sessions, NEW k \in Kinds, Start(s, k) PROVE TreeOK'
  <2>1. Moves(s) /\ UNCHANGED <<tree, spoiled>>
    BY <1>0, <1>6, StartType DEF Start, pvcVars
  <2>2. \E client \in Clients : sess'[s].pc = FirstCall(k, client)
    BY <1>0, <1>6, StartType
  <2>3. sess'[s].pc \in {"pod", "run", "look", "post"}
    BY <2>2 DEF FirstCall, Kinds
  <2> QED
    BY <2>1, <2>3, RestKeepsTree DEF CopiedPCs
<1>7. ASSUME NEW s \in Sessions, Fail(s) PROVE TreeOK'
  <2>1. Moves(s) /\ UNCHANGED <<tree, spoiled>> /\ sess'[s].pc = "failed"
    BY <1>0, <1>7, FailType DEF Fail, ReadsOnly, pvcVars
  <2> QED
    BY <2>1, RestKeepsTree DEF CopiedPCs
<1>8. CASE CacheSync \/ PodStarts \/ PodEnds \/ UNCHANGED vars
  BY <1>8 DEF CacheSync, PodStarts, PodEnds, vars, pvcVars, TreeOK, At, Whole
<1> QED
  BY <1>1, <1>2, <1>3, <1>4, <1>5, <1>6, <1>7, <1>8, WritesKeepTree, DoneKeepsTree
     DEF Next, Step, Upload

(* What "bob build --local" triggers is a build of its whole directory and *)
(* nothing else, unless another session uploaded too.                      *)
THEOREM LocalBuildIsOwn == ASSUME Orderly PROVE Spec => LocalBuildsOwnTree
<1>1. ASSUME TypeInv, SourceInv, TreeOK, [Next]_vars, NEW s \in Sessions, At(s, "runat"),
             sess'[s].pc = "done"
      PROVE  Code(bj'.source) = LocalClaim /\ (s \in spoiled \/ tree = Whole(s))
  <2>1. Step(s) \/ Fail(s) \/ \E cmd \in Kinds : Start(s, cmd)
    BY <1>1, OneMoves DEF At
  <2>2. ~Fail(s) /\ ~\E cmd \in Kinds : Start(s, cmd)
    BY <1>1, FailType DEF Start, Busy, At, TypeInv
  <2>3. TriggerLocal(s)
    BY <1>1, <2>1, <2>2
       DEF At, Step, EnsureSyncPod, GetPod, GetArch, DropPod, MakePod, WaitPod, Upload, Clear, Put,
           UploadDone, CleanupSyncPod, SwitchToPVCAndTrigger, ReadSource, CheckOriginal, SaveOriginal,
           PatchToLocal, LabelLocal, AutoRestoreIfLocal, RestoreGitSource, GetOriginal,
           RestorePatch, Unlabel, Unsave, Run, Create
  <2>4. bj' = bj
    BY <2>3 DEF TriggerLocal, Write
  <2>5. Code(bj.source) = LocalClaim
    BY <1>1 DEF SourceInv, GoodStates, At
  <2> QED
    BY <1>1, <2>4, <2>5 DEF TreeOK, At, CopiedPCs
<1>2. Init => TreeOK
  BY DEF Init, TreeOK, At, Resting, CopiedPCs
<1>3. TypeInv /\ SourceInv /\ TreeOK /\ [Next]_vars => TreeOK'
  BY NextKeepsTree
<1>4. TypeInv /\ SourceInv /\ TreeOK /\ [Next]_vars =>
          [\A s \in Sessions : At(s, "runat") /\ sess'[s].pc = "done" =>
              /\ Code(bj'.source) = LocalClaim
              /\ s \in spoiled \/ tree = Whole(s)]_vars
  BY <1>1
<1> QED
  BY <1>2, <1>3, <1>4, TypeInvariance, SourceInvariance, PTL DEF Spec, LocalBuildsOwnTree
=============================================================================
