----------------------- MODULE PipelineExecution_proof -----------------------
(***************************************************************************)
(* Proofs about the pipeline of a BuildJob: what the builder makes of any  *)
(* spec, and what Tekton may do with it.                                   *)
(***************************************************************************)
EXTENDS PipelineExecution, FiniteSetTheorems, SequenceTheorems, TLAPS

-----------------------------------------------------------------------------
(* What the builder makes: the source task if any, the stages, and at most *)
(* two publishing tasks.                                                   *)

LEMMA Stages == MaxStages \in Nat /\ \A n \in 0..MaxStages : n \in Nat
<1>1. MaxStages \in Nat
  BY Zenon, StagesAssumption
<1> QED
  BY <1>1

LEMMA NamesAreNames == \A x \in StageNames : x # ""
  BY Zenon, StagesAssumption

LEMMA ChainShape ==
    ASSUME NEW b \in BuildSpecs
    PROVE  /\ Len(SourceTasks(b)) = IF b.source = "none" THEN 0 ELSE 1
           /\ Len(b.stages) \in Nat /\ DOMAIN b.stages = 1..Len(b.stages)
           /\ Len(Chain(b)) = Len(SourceTasks(b)) + Len(b.stages)
           /\ Len(Chain(b)) \in Nat /\ DOMAIN Chain(b) = 1..Len(Chain(b))
           /\ b.source = "git" => Chain(b)[1] = "clone" /\ SourceTasks(b)[1] = BuildCloneTaskSpec
           /\ b.source = "pvc" => Chain(b)[1] = "copy-source" /\ SourceTasks(b)[1] = BuildPVCCopyTaskSpec
           /\ \A i \in 1..Len(b.stages) :
                 /\ b.stages[i] \in StageNames
                 /\ Chain(b)[Len(SourceTasks(b)) + i] = b.stages[i]
           /\ \A i \in 1..Len(Chain(b)) : Chain(b)[i] # ""
<1> DEFINE src == SourceTasks(b)
           first == [i \in 1..Len(src) |-> src[i].name]
<1>1. b.source \in {"git", "pvc", "none"}
  BY DEF BuildSpecs
<1>2. PICK n \in 0..MaxStages : b.stages \in [1..n -> StageNames]
  BY DEF BuildSpecs
<1> DEFINE Words == {"clone", "copy-source"} \cup StageNames
<1>3. /\ b.stages \in Seq(Words) /\ Len(b.stages) \in Nat
      /\ DOMAIN b.stages = 1..Len(b.stages)
      /\ \A i \in 1..Len(b.stages) : b.stages[i] \in StageNames
  <2>1. n \in Nat
    BY Stages
  <2>2. b.stages \in Seq(StageNames) /\ b.stages \in Seq(Words)
    <3>1. b.stages \in [1..n -> Words]
      BY <1>2
    <3> QED
      BY <1>2, <2>1, <3>1
  <2> HIDE DEF Words
  <2> QED
    BY <2>2, LenProperties, ElementOfSeq
<1>4. /\ Len(src) = IF b.source = "none" THEN 0 ELSE 1
      /\ b.source = "git" => src[1] = BuildCloneTaskSpec
      /\ b.source = "pvc" => src[1] = BuildPVCCopyTaskSpec
  BY <1>1 DEF SourceTasks
<1>5. /\ first \in Seq(Words) /\ Len(first) = Len(src)
      /\ b.source = "git" => first[1] = "clone"
      /\ b.source = "pvc" => first[1] = "copy-source"
  <2>0. Len(src) \in Nat /\ Len(first) = Len(src)
    BY <1>4
  <2>1. CASE b.source = "git"
    <3>1. Len(src) = 1 /\ src[1].name = "clone"
      BY <1>4, <2>1 DEF BuildCloneTaskSpec, Task
    <3>2. first = <<"clone">>
      BY <3>1
    <3>3. "clone" \in Words
      OBVIOUS
    <3> HIDE DEF first, Words
    <3> QED
      BY <2>0, <2>1, <3>2, <3>3
  <2>2. CASE b.source = "pvc"
    <3>1. Len(src) = 1 /\ src[1].name = "copy-source"
      BY <1>4, <2>2 DEF BuildPVCCopyTaskSpec, Task
    <3>2. first = <<"copy-source">>
      BY <3>1
    <3>3. "copy-source" \in Words
      OBVIOUS
    <3> HIDE DEF first, Words
    <3> QED
      BY <2>0, <2>2, <3>2, <3>3
  <2>3. CASE b.source = "none"
    <3>1. Len(src) = 0
      BY <1>4, <2>3
    <3>2. first \in [1..0 -> Words]
      BY <3>1
    <3> QED
      BY <2>0, <2>3, <3>1, <3>2
  <2> QED
    BY <1>1, <2>1, <2>2, <2>3
<1>6. Chain(b) = first \o b.stages
  BY DEF Chain
<1> HIDE DEF src, first, Words
<1> HIDE DEF src
<1>9. Len(src) \in {0, 1} /\ Len(src) \in Nat
  BY <1>4
<1>7. /\ Len(Chain(b)) = Len(src) + Len(b.stages)
      /\ Len(Chain(b)) \in Nat /\ DOMAIN Chain(b) = 1..Len(Chain(b))
      /\ \A i \in 1..Len(src) : Chain(b)[i] = first[i]
      /\ \A i \in 1..Len(b.stages) : Chain(b)[Len(src) + i] = b.stages[i]
  <2>1. /\ Chain(b) \in Seq(Words) /\ Len(Chain(b)) = Len(first) + Len(b.stages)
        /\ \A i \in 1..Len(first) + Len(b.stages) :
              Chain(b)[i] = IF i <= Len(first) THEN first[i] ELSE b.stages[i - Len(first)]
    <3>1. first \in Seq(Words) /\ b.stages \in Seq(Words)
      BY <1>3, <1>5
    <3> QED
      BY Zenon, <3>1, <1>6, ConcatProperties
  <2>2. Len(Chain(b)) \in Nat /\ DOMAIN Chain(b) = 1..Len(Chain(b))
    BY <2>1, LenProperties
  <2>3. Len(src) \in {0, 1}
    BY <1>4
  <2> QED
    BY <1>3, <1>5, <2>1, <2>2, <2>3
<1>8. ASSUME NEW i \in 1..Len(Chain(b)) PROVE Chain(b)[i] # ""
  <2>1. CASE i <= Len(src)
    <3>1. Len(src) = 1 /\ i = 1 /\ b.source \in {"git", "pvc"}
      BY <1>1, <1>4, <1>7, <2>1
    <3>2. Chain(b)[1] = first[1]
      BY <1>7, <3>1
    <3> QED
      BY <1>5, <3>1, <3>2
  <2>2. CASE i > Len(src)
    <3>1. i - Len(src) \in 1..Len(b.stages) /\ i = Len(src) + (i - Len(src))
      BY <1>3, <1>7, <1>9, <2>2
    <3>2. Chain(b)[i] \in StageNames
      BY <1>3, <1>7, <3>1
    <3> QED
      BY <3>2, NamesAreNames
  <2>3. i <= Len(src) \/ i > Len(src)
    BY <1>7, <1>9
  <2> QED
    BY Zenon, <2>1, <2>2, <2>3
<1> QED
  <2>1. b.source = "git" => Chain(b)[1] = "clone"
    BY <1>4, <1>5, <1>7
  <2>2. b.source = "pvc" => Chain(b)[1] = "copy-source"
    BY <1>4, <1>5, <1>7
  <2> QED
    BY <1>3, <1>4, <1>7, <1>8, <2>1, <2>2 DEF src

(* The publishing tasks, for any spec. *)
LEMMA PublishShape ==
    ASSUME NEW b \in BuildSpecs
    PROVE  LET prev == Previous(b, Len(Chain(b)) + 1)
               p == PublishTasks(b) IN
           \/ p = <<>> /\ ~(b.path /\ b.dest = "oci" /\ b.oci)
           \/ b.path /\ b.dest # "oci" /\ p = <<BuildCollectTask(prev)>>
           \/ /\ b.path /\ b.dest = "oci" /\ b.oci
              /\ ~b.signing /\ p = <<BuildOCIArtifactTask(prev)>>
           \/ /\ b.path /\ b.dest = "oci" /\ b.oci /\ b.signing
              /\ p = <<BuildOCIArtifactTask(prev), BuildCosignSignTask(prev)>>
<1> DEFINE prev == Previous(b, Len(Chain(b)) + 1)
           push == BuildOCIArtifactTask(prev)
           sign == BuildCosignSignTask(prev)
<1>1. /\ b.path \in BOOLEAN /\ b.oci \in BOOLEAN /\ b.signing \in BOOLEAN
  BY DEF BuildSpecs
<1>2. PublishTasks(b) =
        IF ~b.path THEN <<>>
        ELSE IF b.dest # "oci" THEN <<BuildCollectTask(prev)>>
        ELSE IF ~b.oci THEN <<>>
        ELSE <<push>> \o (IF b.signing THEN <<sign>> ELSE <<>>)
  BY DEF PublishTasks
<1> HIDE DEF prev, push, sign
<1>3. <<push>> \o <<>> = <<push>> /\ <<push>> \o <<sign>> = <<push, sign>>
  <2>1. <<push>> \in Seq({push, sign}) /\ <<sign>> \in Seq({push, sign})
    OBVIOUS
  <2>4. <<push>> \o <<sign>> \in Seq({push, sign}) /\ Len(<<push>> \o <<sign>>) = 2
    BY <2>1, ConcatProperties
  <2>2. <<push>> \o <<>> = <<push>>
    BY <2>1, ConcatEmptySeq
  <2>3. <<push>> \o <<sign>> = <<push, sign>>
    <3>1. <<push, sign>> \in Seq({push, sign}) /\ Len(<<push, sign>>) = 2
      OBVIOUS
    <3>2. \A i \in 1..2 : (<<push>> \o <<sign>>)[i] = <<push, sign>>[i]
      BY <2>1, ConcatProperties
    <3> QED
      BY <2>4, <3>1, <3>2, SeqEqual
  <2> QED
    BY <2>2, <2>3
<1>4. \/ PublishTasks(b) = <<>> /\ ~(b.path /\ b.dest = "oci" /\ b.oci)
      \/ b.path /\ b.dest # "oci" /\ PublishTasks(b) = <<BuildCollectTask(prev)>>
      \/ b.path /\ b.dest = "oci" /\ b.oci /\ ~b.signing /\ PublishTasks(b) = <<push>>
      \/ b.path /\ b.dest = "oci" /\ b.oci /\ b.signing /\ PublishTasks(b) = <<push, sign>>
  BY <1>1, <1>2, <1>3
<1> QED
  BY <1>4 DEF prev, push, sign

Sources(b) == Len(SourceTasks(b))
Built(b) == Len(Chain(b))
Size(b) == Len(BuildPipelineRun(b))

LEMMA Sizes ==
    ASSUME NEW b \in BuildSpecs
    PROVE  /\ Sources(b) = IF b.source = "none" THEN 0 ELSE 1
           /\ Sources(b) \in {0, 1} /\ Built(b) \in Nat /\ Sources(b) <= Built(b)
<1>1. Built(b) = Sources(b) + Len(b.stages) /\ Len(b.stages) \in Nat
  BY ChainShape DEF Built, Sources
<1>2. Sources(b) = IF b.source = "none" THEN 0 ELSE 1
  BY ChainShape DEF Sources
<1>3. Sources(b) \in {0, 1}
  BY <1>2
<1>4. \A x \in {0, 1}, y \in Nat : x + y \in Nat /\ x <= x + y
  OBVIOUS
<1>5. Built(b) \in Nat /\ Sources(b) <= Built(b)
  BY <1>1, <1>3, <1>4
<1> QED
  BY <1>2, <1>3, <1>5

(* The i-th task is that of the chain, or a publishing task after it. *)
LEMMA PipelineShape ==
    ASSUME NEW b \in BuildSpecs
    PROVE  /\ Size(b) \in Nat /\ DOMAIN BuildPipelineRun(b) = 1..Size(b)
           /\ Len(PublishTasks(b)) \in 0..2
           /\ Size(b) = Built(b) + Len(PublishTasks(b))
           /\ \A i \in 1..Built(b) : BuildPipelineRun(b)[i] = ChainTasks(b)[i]
           /\ \A i \in 1..Len(PublishTasks(b)) :
                 BuildPipelineRun(b)[Built(b) + i] = PublishTasks(b)[i]
<1> DEFINE chain == ChainTasks(b)
           p == PublishTasks(b)
           prev == Previous(b, Len(Chain(b)) + 1)
           up == BuildCollectTask(prev)
           push == BuildOCIArtifactTask(prev)
           sign == BuildCosignSignTask(prev)
           Any == {chain[i] : i \in DOMAIN chain} \cup {up, push, sign}
<1>1. Built(b) \in Nat
  BY Sizes
<1>2. chain \in [1..Built(b) -> Any]
  BY DEF ChainTasks, Built
<1>3. p = <<>> \/ p = <<up>> \/ p = <<push>> \/ p = <<push, sign>>
  BY Zenon, PublishShape
<1>4. BuildPipelineRun(b) = chain \o p
  BY DEF BuildPipelineRun
<1>5. up \in Any /\ push \in Any /\ sign \in Any
  OBVIOUS
<1> HIDE DEF chain, p, Any, up, push, sign
<1>6. chain \in Seq(Any) /\ Len(chain) = Built(b)
  BY <1>1, <1>2
<1>7. p \in Seq(Any) /\ Len(p) \in 0..2
  <2>1. CASE p = <<>>
    BY <2>1
  <2>2. CASE p = <<up>>
    BY <1>5, <2>2
  <2>3. CASE p = <<push>>
    BY <1>5, <2>3
  <2>4. CASE p = <<push, sign>>
    BY <1>5, <2>4
  <2> QED
    BY <1>3, <2>1, <2>2, <2>3, <2>4
<1>8. /\ chain \o p \in Seq(Any) /\ Len(chain \o p) = Len(chain) + Len(p)
      /\ \A i \in 1..Len(chain) + Len(p) :
            (chain \o p)[i] = IF i <= Len(chain) THEN chain[i] ELSE p[i - Len(chain)]
  <2>1. chain \in Seq(Any) /\ p \in Seq(Any)
    BY <1>6, <1>7
  <2> QED
    BY Zenon, <2>1, ConcatProperties
<1>9. DOMAIN (chain \o p) = 1..Len(chain \o p) /\ Len(chain \o p) \in Nat
  BY <1>8, LenProperties
<1>10. \A i \in 1..Built(b) : (chain \o p)[i] = chain[i]
  BY <1>1, <1>6, <1>7, <1>8
<1>11. \A i \in 1..Len(p) : (chain \o p)[Built(b) + i] = p[i]
  <2> SUFFICES ASSUME NEW i \in 1..Len(p) PROVE (chain \o p)[Built(b) + i] = p[i]
    OBVIOUS
  <2>1. PICK k \in 1..Len(chain) + Len(p) :
              k = Built(b) + i /\ ~(k <= Len(chain)) /\ k - Len(chain) = i
    BY <1>1, <1>6, <1>7
  <2>2. (chain \o p)[k] = p[k - Len(chain)]
    BY <1>8, <2>1
  <2> QED
    BY <2>1, <2>2
<1>12. Size(b) = Built(b) + Len(p) /\ Size(b) \in Nat /\ DOMAIN BuildPipelineRun(b) = 1..Size(b)
  BY <1>4, <1>6, <1>8, <1>9 DEF Size
<1> QED
  BY <1>4, <1>7, <1>10, <1>11, <1>12 DEF chain, p

(* The task before the publishing tasks. *)
LEMMA EndOfChain ==
    ASSUME NEW b \in BuildSpecs
    PROVE  Previous(b, Len(Chain(b)) + 1) = IF Built(b) = 0 THEN "" ELSE Chain(b)[Built(b)]
<1> DEFINE c == Built(b)
<1>1. c \in Nat /\ c = Len(Chain(b))
  BY Sizes DEF Built
<1> HIDE DEF c
<1>2. CASE c = 0
  <2>1. Len(Chain(b)) + 1 <= 1
    BY <1>1, <1>2
  <2> QED
    BY Zenon, <1>2, <2>1 DEF Previous, c
<1>3. CASE c # 0
  <2>1. PICK j \in Nat : j = Len(Chain(b)) + 1 /\ ~(j <= 1) /\ j - 1 = c
    BY <1>1, <1>3
  <2>2. Previous(b, j) = Chain(b)[j - 1]
    BY Zenon, <2>1 DEF Previous
  <2>3. Previous(b, j) = Chain(b)[c]
    BY <2>1, <2>2
  <2> QED
    BY Zenon, <1>3, <2>1, <2>3 DEF c
<1> QED
  BY <1>2, <1>3

(* Each task of the pipeline, and what it waits for. *)
LEMMA TaskShape ==
    ASSUME NEW b \in BuildSpecs, NEW i \in 1..Size(b)
    PROVE  LET t == BuildPipelineRun(b)[i]
               c == Built(b) IN
           \/ /\ i = 1 /\ Sources(b) = 1 /\ t.script \in {"clone", "copy"}
              /\ t.name = Chain(b)[1] /\ t.runAfter = {} /\ t.params = {}
           \/ /\ Sources(b) < i /\ i <= c /\ t.script = "stage"
              /\ t.name = Chain(b)[i] /\ t.params = {}
              /\ t.runAfter = IF i = 1 THEN {} ELSE {Chain(b)[i - 1]}
           \/ /\ i = c + 1 /\ t.params = {}
              /\ t.runAfter = {IF c = 0 THEN "" ELSE Chain(b)[c]}
              /\ \/ t.script = "upload" /\ t.name = "collect-artifacts" /\ b.dest # "oci"
                 \/ t.script = "push" /\ t.name = "oci-push" /\ b.dest = "oci" /\ b.oci
           \/ /\ i = c + 2 /\ t.script = "sign" /\ t.name = "cosign-sign"
              /\ t.runAfter = {"oci-push"} /\ t.params = {"oci-push"}
              /\ BuildPipelineRun(b)[c + 1].name = "oci-push"
<1> SUFFICES ASSUME NEW t, t = BuildPipelineRun(b)[i], NEW c, c = Built(b),
                    NEW prev, prev = Previous(b, Len(Chain(b)) + 1)
             PROVE  \/ /\ i = 1 /\ Sources(b) = 1 /\ t.script \in {"clone", "copy"}
                       /\ t.name = Chain(b)[1] /\ t.runAfter = {} /\ t.params = {}
                    \/ /\ Sources(b) < i /\ i <= c /\ t.script = "stage"
                       /\ t.name = Chain(b)[i] /\ t.params = {}
                       /\ t.runAfter = IF i = 1 THEN {} ELSE {Chain(b)[i - 1]}
                    \/ /\ i = c + 1 /\ t.params = {}
                       /\ t.runAfter = {IF c = 0 THEN "" ELSE Chain(b)[c]}
                       /\ \/ t.script = "upload" /\ t.name = "collect-artifacts" /\ b.dest # "oci"
                          \/ t.script = "push" /\ t.name = "oci-push" /\ b.dest = "oci" /\ b.oci
                    \/ /\ i = c + 2 /\ t.script = "sign" /\ t.name = "cosign-sign"
                       /\ t.runAfter = {"oci-push"} /\ t.params = {"oci-push"}
                       /\ BuildPipelineRun(b)[c + 1].name = "oci-push"
  BY Zenon
<1>1. c \in Nat /\ Sources(b) \in {0, 1} /\ Sources(b) <= c
  BY Sizes
<1>5. /\ Size(b) \in Nat /\ Len(PublishTasks(b)) \in 0..2
      /\ Size(b) = c + Len(PublishTasks(b))
  BY PipelineShape
<1>2. CASE i <= Sources(b)
  <2>1. i = 1 /\ Sources(b) = 1 /\ 1 \in 1..Len(Chain(b)) /\ i \in 1..c
    BY <1>1, <1>2 DEF Built
  <2>2. t = SourceTasks(b)[1]
    BY <1>2, <2>1, PipelineShape DEF ChainTasks, Sources
  <2>3. b.source \in {"git", "pvc"}
    BY <2>1, Sizes DEF BuildSpecs
  <2>4. \/ t = BuildCloneTaskSpec /\ Chain(b)[1] = "clone"
        \/ t = BuildPVCCopyTaskSpec /\ Chain(b)[1] = "copy-source"
    BY <2>2, <2>3, ChainShape
  <2>5. /\ t.script \in {"clone", "copy"} /\ t.name = Chain(b)[1]
        /\ t.runAfter = {} /\ t.params = {}
    BY <2>4 DEF BuildCloneTaskSpec, BuildPVCCopyTaskSpec, Task
  <2> QED
    BY <2>1, <2>5
<1>3. CASE i > Sources(b) /\ i <= c
  <2>1. i \in 1..c /\ i \in 1..Len(Chain(b)) /\ ~(i <= Sources(b))
    BY <1>1, <1>3 DEF Built
  <2>2. t = BuildTaskSpec(Chain(b)[i], Previous(b, i))
    BY <2>1, PipelineShape DEF ChainTasks, Sources
  <2>3. ASSUME i = 1 PROVE Previous(b, i) = ""
    <3>1. i <= 1
      BY <2>3
    <3> QED
      BY Zenon, <3>1 DEF Previous
  <2>4. ASSUME i # 1 PROVE Previous(b, i) = Chain(b)[i - 1] /\ Chain(b)[i - 1] # ""
    <3>1. ~(i <= 1) /\ i - 1 \in 1..Len(Chain(b))
      BY <1>1, <2>1, <2>4 DEF Built
    <3>2. Chain(b)[i - 1] # ""
      BY <3>1, ChainShape
    <3> QED
      BY Zenon, <3>1, <3>2 DEF Previous
  <2> DEFINE name == Chain(b)[i]
             before == Previous(b, i)
             after == IF before = "" THEN {} ELSE {before}
  <2>7. t = Task(name, "stage", after, {})
    BY Zenon, <2>2 DEF BuildTaskSpec
  <2> HIDE DEF name, before, after
  <2>5. /\ t.script = "stage" /\ t.name = name /\ t.params = {}
        /\ t.runAfter = after
    BY <2>7 DEF Task
  <2>6. t.runAfter = IF i = 1 THEN {} ELSE {Chain(b)[i - 1]}
    BY Zenon, <2>3, <2>4, <2>5 DEF before, after
  <2> QED
    BY <1>3, <2>5, <2>6 DEF name
<1>4. CASE i > c
  <2>1. PICK k \in 1..2 : k \in 1..Len(PublishTasks(b)) /\ i = c + k
    <3> DEFINE p == Len(PublishTasks(b))
    <3>2. p \in {0, 1, 2} /\ Size(b) = c + p /\ c \in Nat /\ i \in 1..Size(b)
      BY <1>1, <1>5
    <3> HIDE DEF p
    <3>3. i \in 1..(c + p)
      BY <3>2
    <3>4. i - c \in 1..p /\ i - c \in 1..2
      BY <1>4, <3>2, <3>3
    <3>1. i - c \in 1..Len(PublishTasks(b)) /\ i - c \in 1..2
      BY <3>4 DEF p
    <3> QED
      BY <1>1, <3>1
  <2>2. t = PublishTasks(b)[k]
    BY <2>1, PipelineShape
  <2>3. prev = IF c = 0 THEN "" ELSE Chain(b)[c]
    BY Zenon, EndOfChain
  <2>4. \/ b.dest # "oci" /\ PublishTasks(b) = <<BuildCollectTask(prev)>>
        \/ b.dest = "oci" /\ b.oci /\ PublishTasks(b) = <<BuildOCIArtifactTask(prev)>>
        \/ b.dest = "oci" /\ b.oci
           /\ PublishTasks(b) = <<BuildOCIArtifactTask(prev), BuildCosignSignTask(prev)>>
    BY <2>1, PublishShape
  <2>5. CASE k = 1
    <3>1. \/ b.dest # "oci" /\ t = BuildCollectTask(prev)
          \/ b.dest = "oci" /\ b.oci /\ t = BuildOCIArtifactTask(prev)
      BY <2>2, <2>4, <2>5
    <3>2. /\ t.runAfter = {prev} /\ t.params = {}
          /\ \/ t.script = "upload" /\ t.name = "collect-artifacts" /\ b.dest # "oci"
             \/ t.script = "push" /\ t.name = "oci-push" /\ b.dest = "oci" /\ b.oci
      BY <3>1 DEF BuildCollectTask, BuildOCIArtifactTask, Task
    <3> QED
      BY <2>1, <2>3, <2>5, <3>2
  <2>6. CASE k = 2
    <3>1. /\ Len(PublishTasks(b)) = 2
          /\ PublishTasks(b) = <<BuildOCIArtifactTask(prev), BuildCosignSignTask(prev)>>
      <4>1. 2 \in 1..Len(PublishTasks(b))
        BY <2>1, <2>6
      <4> QED
        BY <2>4, <4>1
    <3>2. BuildPipelineRun(b)[c + 1] = BuildOCIArtifactTask(prev)
      BY <3>1, PipelineShape
    <3>3. t = BuildCosignSignTask(prev)
      BY <2>2, <2>6, <3>1
    <3>4. /\ t.script = "sign" /\ t.name = "cosign-sign"
          /\ t.runAfter = {"oci-push"} /\ t.params = {"oci-push"}
          /\ BuildPipelineRun(b)[c + 1].name = "oci-push"
      BY <3>2, <3>3 DEF BuildOCIArtifactTask, BuildCosignSignTask, Task
    <3> QED
      BY <2>1, <2>6, <3>4
  <2>7. k = 1 \/ k = 2
    BY <2>1
  <2> QED
    BY Zenon, <2>5, <2>6, <2>7
<1>6. i <= Sources(b) \/ (i > Sources(b) /\ i <= c) \/ i > c
  BY <1>1, <1>5
<1> QED
  BY Zenon, <1>2, <1>3, <1>4, <1>6

(* What a task's script and place have to do with each other. *)
LEMMA Scripts ==
    ASSUME NEW b \in BuildSpecs, NEW i \in 1..Size(b)
    PROVE  LET t == BuildPipelineRun(b)[i] IN
           /\ t.script \in {"clone", "copy"} => i = 1 /\ b.source # "none"
           /\ t.script = "stage" <=> Sources(b) < i /\ i <= Built(b)
           /\ t.script \in {"upload", "push", "sign"} => Built(b) < i
           /\ i = 1 /\ b.source # "none" => t.script \in {"clone", "copy"}
           /\ t.params = IF t.script = "sign" THEN {"oci-push"} ELSE {}
           /\ i <= Built(b) => t.name = Chain(b)[i]
<1> SUFFICES ASSUME NEW t, t = BuildPipelineRun(b)[i]
             PROVE  /\ t.script \in {"clone", "copy"} => i = 1 /\ b.source # "none"
                    /\ t.script = "stage" <=> Sources(b) < i /\ i <= Built(b)
                    /\ t.script \in {"upload", "push", "sign"} => Built(b) < i
                    /\ i = 1 /\ b.source # "none" => t.script \in {"clone", "copy"}
                    /\ t.params = IF t.script = "sign" THEN {"oci-push"} ELSE {}
                    /\ i <= Built(b) => t.name = Chain(b)[i]
  BY Zenon
<1>1. /\ Built(b) \in Nat /\ Sources(b) \in {0, 1} /\ Sources(b) <= Built(b)
      /\ Sources(b) = IF b.source = "none" THEN 0 ELSE 1
  BY Sizes
<1>2. Size(b) \in Nat /\ i \in Nat
  BY PipelineShape
<1>3. CASE /\ i = 1 /\ Sources(b) = 1 /\ t.script \in {"clone", "copy"}
           /\ t.name = Chain(b)[1] /\ t.params = {}
  <2>1. b.source # "none" /\ ~(Sources(b) < i) /\ ~(Built(b) < i)
    BY <1>1, <1>3
  <2> QED
    BY <1>3, <2>1
<1>4. CASE /\ Sources(b) < i /\ i <= Built(b) /\ t.script = "stage"
           /\ t.name = Chain(b)[i] /\ t.params = {}
  <2>1. ~(Built(b) < i) /\ ~(i = 1 /\ b.source # "none")
    BY <1>1, <1>2, <1>4
  <2> QED
    BY <1>4, <2>1
<1>5. CASE i = Built(b) + 1 /\ t.params = {} /\ t.script \in {"upload", "push"}
  <2>1. Built(b) < i /\ ~(i <= Built(b)) /\ ~(i = 1 /\ b.source # "none")
    BY <1>1, <1>5
  <2> QED
    BY <1>5, <2>1
<1>6. CASE i = Built(b) + 2 /\ t.script = "sign" /\ t.params = {"oci-push"}
  <2>1. Built(b) < i /\ ~(i <= Built(b)) /\ i # 1
    BY <1>1, <1>6
  <2> QED
    BY <1>6, <2>1
<1> QED
  BY Zenon, <1>3, <1>4, <1>5, <1>6, TaskShape

(* Every task but the first waits for the one before it. *)
LEMMA EachWaits ==
    ASSUME NEW b \in BuildSpecs, NEW i \in 2..Size(b)
    PROVE  BuildPipelineRun(b)[i - 1].name \in DependsOn(BuildPipelineRun(b)[i])
<1> SUFFICES ASSUME NEW t, t = BuildPipelineRun(b)[i], NEW u, u = BuildPipelineRun(b)[i - 1],
                    NEW c, c = Built(b)
             PROVE  u.name \in t.runAfter \cup t.params
  BY Zenon DEF DependsOn
<1>1. c \in Nat /\ i \in 1..Size(b) /\ i - 1 \in 1..Size(b) /\ i # 1
  BY Sizes, PipelineShape
<1>2. \/ i <= c /\ t.runAfter = IF i = 1 THEN {} ELSE {Chain(b)[i - 1]}
      \/ i = c + 1 /\ t.runAfter = {IF c = 0 THEN "" ELSE Chain(b)[c]}
      \/ i = c + 2 /\ t.params = {"oci-push"} /\ BuildPipelineRun(b)[c + 1].name = "oci-push"
  <2>1. i # 1 /\ i \in 1..Size(b)
    BY <1>1
  <2> QED
    BY Zenon, <2>1, TaskShape
<1>3. CASE i <= c
  <2>1. i - 1 <= Built(b) /\ ~(i = c + 1) /\ ~(i = c + 2)
    BY <1>1, <1>3
  <2>2. u.name = Chain(b)[i - 1]
    BY Zenon, <1>1, <2>1, Scripts
  <2>3. t.runAfter = {Chain(b)[i - 1]}
    BY Zenon, <1>1, <1>2, <2>1
  <2> QED
    BY Zenon, <2>2, <2>3
<1>4. CASE i = c + 1
  <2>1. i - 1 = c /\ c # 0 /\ i - 1 <= Built(b) /\ ~(i <= c) /\ ~(i = c + 2)
    BY <1>1, <1>4
  <2>2. u.name = Chain(b)[i - 1]
    BY Zenon, <1>1, <2>1, Scripts
  <2>3. t.runAfter = {Chain(b)[c]}
    BY Zenon, <1>1, <1>2, <2>1
  <2> QED
    BY Zenon, <2>1, <2>2, <2>3
<1>5. CASE i = c + 2
  <2>1. i - 1 = c + 1 /\ ~(i <= c) /\ ~(i = c + 1)
    BY <1>1, <1>5
  <2>2. t.params = {"oci-push"} /\ BuildPipelineRun(b)[c + 1].name = "oci-push"
    BY Zenon, <1>2, <2>1
  <2> QED
    BY Zenon, <2>1, <2>2
<1> QED
  BY Zenon, <1>2, <1>3, <1>4, <1>5
-----------------------------------------------------------------------------
(* What a run goes through.  The tasks run one after the other, a task that *)
(* was started had its parameters, and what is outside the workspace was   *)
(* put there by a publishing task.                                         *)

Started(i) == task[i] # "waiting"

InSequence == \A i, j \in 1..N : i < j /\ Started(j) => task[i] = "succeeded"
NoneStarted == phase \in {"new", "refused"} => \A i \in 1..N : ~Started(i)
ParamsReady == \A i \in 1..N : Started(i) => tasks[i].params \subseteq results
SourceLeft ==
    \A i \in 1..N : task[i] = "succeeded" /\ tasks[i].script \in {"clone", "copy"} => source
PublishedLate == published # {} => \E i \in 1..N : Started(i) /\ Built(spec) < i
PushedFirst == "signature" \in published \/ "oci-push" \in results => "oci" \in published
ResultsWritten == phase = "succeeded" => ResultTasks(spec) \subseteq results
RefusedForCause == phase = "refused" => ~Admitted(spec)

RunInv ==
    /\ TypeOK
    /\ InSequence /\ NoneStarted /\ ParamsReady /\ SourceLeft
    /\ PublishedLate /\ PushedFirst /\ ResultsWritten /\ RefusedForCause /\ RefMeansPushed
    /\ spec.dest = "oci" => spec.oci

LEMMA Shape ==
    ASSUME spec \in BuildSpecs
    PROVE  /\ N \in Nat /\ N = Size(spec) /\ DOMAIN tasks = 1..N
           /\ \A i \in 1..N :
                 /\ tasks[i].script \in {"clone", "copy"} => i = 1
                 /\ tasks[i].script \in {"upload", "push", "sign"} => Built(spec) < i
                 /\ tasks[i].params = IF tasks[i].script = "sign" THEN {"oci-push"} ELSE {}
           /\ \A i \in 2..N : tasks[i - 1].name \in DependsOn(tasks[i])
<1>1. N = Size(spec)
  BY DEF N, Size, tasks
<1>2. N \in Nat /\ DOMAIN tasks = 1..N
  BY <1>1, PipelineShape DEF tasks
<1>3. ASSUME NEW i \in 1..N
      PROVE  /\ tasks[i].script \in {"clone", "copy"} => i = 1
             /\ tasks[i].script \in {"upload", "push", "sign"} => Built(spec) < i
             /\ tasks[i].params = IF tasks[i].script = "sign" THEN {"oci-push"} ELSE {}
  BY Zenon, <1>1, <1>3, Scripts DEF tasks
<1>4. ASSUME NEW i \in 2..N PROVE tasks[i - 1].name \in DependsOn(tasks[i])
  BY Zenon, <1>1, <1>4, EachWaits DEF tasks
<1> QED
  BY Zenon, <1>1, <1>2, <1>3, <1>4

LEMMA InitRunInv == Init => RunInv
<1> SUFFICES ASSUME Init PROVE RunInv
  OBVIOUS
<1>1. /\ spec \in BuildSpecs /\ phase = "new" /\ (spec.dest = "oci" => spec.oci)
      /\ task = [i \in 1..N |-> "waiting"]
      /\ source = FALSE /\ artifacts = FALSE /\ ociRef = FALSE
      /\ published = {} /\ results = {}
  BY DEF Init
<1>2. TypeOK
  BY <1>1 DEF TypeOK
<1>3. \A i \in 1..N : task[i] = "waiting"
  BY <1>1
<1>4. InSequence /\ NoneStarted /\ ParamsReady /\ SourceLeft
  BY <1>3 DEF InSequence, NoneStarted, ParamsReady, SourceLeft, Started
<1>5. PublishedLate /\ PushedFirst /\ ResultsWritten /\ RefusedForCause /\ RefMeansPushed
  BY <1>1 DEF PublishedLate, PushedFirst, ResultsWritten, RefusedForCause, RefMeansPushed
<1> QED
  BY <1>1, <1>2, <1>4, <1>5 DEF RunInv

(* What stays when the spec and the tasks' states do. *)
LEMMA SameTasks ==
    ASSUME RunInv, UNCHANGED <<spec, task, source, artifacts, published, results>>,
           phase' \in {"new", "refused", "running", "succeeded", "failed", "invalid"},
           ociRef' \in BOOLEAN, ociRef' => "oci" \in published,
           NoneStarted', ResultsWritten', RefusedForCause'
    PROVE  RunInv'
<1>1. tasks' = tasks /\ N' = N /\ Built(spec)' = Built(spec)
  BY DEF tasks, N, Built
<1>2. TypeOK'
  BY <1>1 DEF RunInv, TypeOK
<1>3. InSequence' /\ ParamsReady' /\ SourceLeft'
  BY <1>1 DEF RunInv, InSequence, ParamsReady, SourceLeft, Started
<1>4. PublishedLate' /\ PushedFirst' /\ RefMeansPushed' /\ (spec'.dest = "oci" => spec'.oci)
  BY <1>1 DEF RunInv, PublishedLate, PushedFirst, RefMeansPushed, Started
<1> QED
  BY <1>2, <1>3, <1>4 DEF RunInv

(* The first task has no one before it, and each other one waits. *)
LEMMA StartRunInv ==
    ASSUME RunInv, NEW i \in 1..N, StartTask(i)
    PROVE  RunInv'
<1>1. tasks' = tasks /\ N' = N /\ Built(spec)' = Built(spec)
  BY DEF tasks, N, Built, StartTask
<1>2. /\ spec \in BuildSpecs /\ task \in [1..N -> {"waiting", "running", "succeeded", "failed"}]
      /\ phase = "running" /\ task' = [task EXCEPT ![i] = "running"]
      /\ UNCHANGED <<spec, phase, source, artifacts, published, results, ociRef>>
  BY DEF RunInv, TypeOK, StartTask, Ready
<1>3. TypeOK'
  BY <1>1, <1>2 DEF RunInv, TypeOK
<1>4. \A j \in 1..N : task'[j] = IF j = i THEN "running" ELSE task[j]
  BY <1>2
<1>5. i # 1 => task[i - 1] = "succeeded" /\ i - 1 \in 1..N
  <2> SUFFICES ASSUME i # 1 PROVE task[i - 1] = "succeeded" /\ i - 1 \in 1..N
    OBVIOUS
  <2>1. i \in 2..N /\ i - 1 \in 1..N
    BY <1>2, Shape
  <2>2. tasks[i - 1].name \in DependsOn(tasks[i])
    BY <1>2, <2>1, Shape
  <2> QED
    BY <2>1, <2>2 DEF StartTask, Ready
<1>6. InSequence'
  <2> SUFFICES ASSUME NEW j \in 1..N, NEW k \in 1..N, j < k, task'[k] # "waiting"
               PROVE  task'[j] = "succeeded"
    BY <1>1 DEF InSequence, Started
  <2>1. task[i] = "waiting" /\ N \in Nat
    BY <1>2, Shape DEF StartTask, Ready
  <2>2. j # i
    BY <1>4, <2>1 DEF RunInv, InSequence, Started
  <2>3. CASE k # i
    BY <1>4, <2>2, <2>3 DEF RunInv, InSequence, Started
  <2>4. CASE k = i
    <3>1. i # 1 /\ (j = i - 1 \/ j < i - 1)
      BY <2>1, <2>4
    <3>2. task[j] = "succeeded"
      BY <1>5, <3>1 DEF RunInv, InSequence, Started
    <3> QED
      BY <1>4, <2>2, <3>2
  <2> QED
    BY <2>3, <2>4
<1>7. NoneStarted' /\ ResultsWritten' /\ RefusedForCause'
  BY <1>2 DEF NoneStarted, ResultsWritten, RefusedForCause
<1>8. ParamsReady' /\ SourceLeft'
  BY <1>1, <1>2, <1>4 DEF RunInv, ParamsReady, SourceLeft, Started, StartTask
<1>9. PublishedLate'
  BY <1>1, <1>2, <1>4 DEF RunInv, PublishedLate, Started
<1>10. PushedFirst' /\ RefMeansPushed' /\ (spec'.dest = "oci" => spec'.oci)
  BY <1>2 DEF RunInv, PushedFirst, RefMeansPushed
<1> QED
  BY <1>3, <1>6, <1>7, <1>8, <1>9, <1>10 DEF RunInv

(* A task that ends: only the source tasks make the source, and only the   *)
(* publishing tasks publish.                                               *)
LEMMA EndTaskRunInv ==
    ASSUME RunInv, NEW i \in 1..N, NEW script, EndTask(i, script),
           UNCHANGED <<spec, phase, ociRef>>,
           source' \in BOOLEAN, artifacts' \in BOOLEAN,
           published \subseteq published', published' \subseteq {"upload", "oci", "signature"},
           results \subseteq results', results' \subseteq {"clone", "oci-push", "cosign-sign"},
           script \in {"clone", "copy"} \/ UNCHANGED source,
           script \in {"clone", "copy"} /\ Succeeds(i) => source',
           script \in {"upload", "push", "sign"} \/ UNCHANGED published,
           PushedFirst'
    PROVE  RunInv'
<1>1. tasks' = tasks /\ N' = N /\ Built(spec)' = Built(spec)
  BY DEF tasks, N, Built
<1>2. /\ spec \in BuildSpecs /\ task \in [1..N -> {"waiting", "running", "succeeded", "failed"}]
      /\ phase = "running" /\ task[i] = "running" /\ tasks[i].script = script
  BY DEF RunInv, TypeOK, EndTask
<1>3. PICK end \in {"succeeded", "failed"} : task' = [task EXCEPT ![i] = end]
  BY DEF EndTask
<1>4. \A j \in 1..N : task'[j] = IF j = i THEN end ELSE task[j]
  BY <1>2, <1>3
<1>5. TypeOK'
  BY <1>1, <1>2, <1>3 DEF RunInv, TypeOK
<1>6. InSequence'
  <2> SUFFICES ASSUME NEW j \in 1..N, NEW k \in 1..N, j < k, task'[k] # "waiting"
               PROVE  task'[j] = "succeeded"
    BY <1>1 DEF InSequence, Started
  <2>1. task[k] # "waiting"
    BY <1>2, <1>4
  <2>2. task[j] = "succeeded"
    BY <2>1 DEF RunInv, InSequence, Started
  <2> QED
    BY <1>2, <1>4, <2>2
<1>7. NoneStarted' /\ ResultsWritten' /\ RefusedForCause'
  BY <1>2 DEF NoneStarted, ResultsWritten, RefusedForCause
<1>8. ParamsReady'
  BY <1>1, <1>2, <1>4 DEF RunInv, ParamsReady, Started
<1>9. SourceLeft'
  <2> SUFFICES ASSUME NEW j \in 1..N, task'[j] = "succeeded", tasks[j].script \in {"clone", "copy"}
               PROVE  source'
    BY <1>1 DEF SourceLeft
  <2>1. CASE script \in {"clone", "copy"}
    <3>1. i = 1 /\ j = 1
      BY <1>2, <2>1, Shape
    <3>2. task[i] # "succeeded" /\ Succeeds(i)
      BY <1>2, <3>1 DEF Succeeds
    <3> QED
      BY <2>1, <1>2, <1>3, <3>1, <3>2 DEF Succeeds, RunInv, SourceLeft
  <2>2. CASE script \notin {"clone", "copy"}
    <3>1. j # i /\ source' = source
      BY <1>2, <2>2
    <3> QED
      BY <1>4, <3>1 DEF RunInv, SourceLeft
  <2> QED
    BY <2>1, <2>2
<1>10. PublishedLate'
  <2>1. CASE published' = published
    BY <1>1, <1>2, <1>4, <2>1 DEF RunInv, PublishedLate, Started
  <2>2. CASE script \in {"upload", "push", "sign"}
    <3>1. Built(spec) < i /\ task'[i] # "waiting"
      BY <1>2, <1>4, <2>2, Shape
    <3> QED
      BY <1>1, <3>1 DEF PublishedLate, Started
  <2> QED
    BY <2>1, <2>2
<1>11. RefMeansPushed' /\ (spec'.dest = "oci" => spec'.oci)
  BY DEF RunInv, RefMeansPushed
<1> QED
  BY <1>5, <1>6, <1>7, <1>8, <1>9, <1>10, <1>11 DEF RunInv

LEMMA ScriptsRunInv ==
    ASSUME RunInv, NEW i \in 1..N,
           \/ CloneScript(i) \/ CopyScript(i) \/ StageScript(i)
           \/ UploadScript(i) \/ PushScript(i) \/ SignScript(i)
    PROVE  RunInv'
<1>1. /\ spec \in BuildSpecs /\ source \in BOOLEAN /\ artifacts \in BOOLEAN
      /\ published \subseteq {"upload", "oci", "signature"}
      /\ results \subseteq {"clone", "oci-push", "cosign-sign"} /\ PushedFirst
  BY DEF RunInv, TypeOK
<1>2. CASE CloneScript(i)
  <2>1. PushedFirst'
    BY <1>1, <1>2 DEF CloneScript, PushedFirst
  <2> QED
    BY <1>1, <1>2, <2>1, EndTaskRunInv DEF CloneScript
<1>3. CASE CopyScript(i)
  <2>1. PushedFirst'
    BY <1>1, <1>3 DEF CopyScript, PushedFirst
  <2> QED
    BY <1>1, <1>3, <2>1, EndTaskRunInv DEF CopyScript
<1>4. CASE StageScript(i)
  <2>1. PushedFirst'
    BY <1>1, <1>4 DEF StageScript, PushedFirst
  <2>8. /\ EndTask(i, "stage") /\ UNCHANGED <<spec, phase, ociRef>>
        /\ source' = source /\ source' \in BOOLEAN /\ artifacts' \in BOOLEAN
        /\ published \subseteq published' /\ published' \subseteq {"upload", "oci", "signature"}
        /\ results \subseteq results' /\ results' \subseteq {"clone", "oci-push", "cosign-sign"}
        /\ "stage" \in {"upload", "push", "sign"} \/ UNCHANGED published
        /\ "stage" \notin {"clone", "copy"}
    BY <1>1, <1>4 DEF StageScript
  <2> QED
    BY Zenon, <2>1, <2>8, EndTaskRunInv
<1>5. CASE UploadScript(i)
  <2>2. published \subseteq published' /\ published' \subseteq published \cup {"upload"}
    BY <1>1, <1>5 DEF UploadScript
  <2>1. PushedFirst'
    BY <1>1, <1>5, <2>2 DEF UploadScript, PushedFirst
  <2>8. /\ EndTask(i, "upload") /\ UNCHANGED <<spec, phase, ociRef>>
        /\ source' = source /\ source' \in BOOLEAN /\ artifacts' \in BOOLEAN
        /\ published \subseteq published' /\ published' \subseteq {"upload", "oci", "signature"}
        /\ results \subseteq results' /\ results' \subseteq {"clone", "oci-push", "cosign-sign"}
        /\ "upload" \in {"upload", "push", "sign"} \/ UNCHANGED published
        /\ "upload" \notin {"clone", "copy"}
    BY <1>1, <1>5, <2>2 DEF UploadScript
  <2> QED
    BY Zenon, <2>1, <2>8, EndTaskRunInv
<1>6. CASE PushScript(i)
  <2>2. /\ published \subseteq published' /\ published' \subseteq published \cup {"oci"}
        /\ results \subseteq results' /\ results' \subseteq results \cup {"oci-push"}
        /\ PushedFirst'
    BY <1>1, <1>6 DEF PushScript, PushedFirst
  <2>1. PushedFirst'
    BY <2>2
  <2>8. /\ EndTask(i, "push") /\ UNCHANGED <<spec, phase, ociRef>>
        /\ source' = source /\ source' \in BOOLEAN /\ artifacts' \in BOOLEAN
        /\ published \subseteq published' /\ published' \subseteq {"upload", "oci", "signature"}
        /\ results \subseteq results' /\ results' \subseteq {"clone", "oci-push", "cosign-sign"}
        /\ "push" \in {"upload", "push", "sign"} \/ UNCHANGED published
        /\ "push" \notin {"clone", "copy"}
    BY <1>1, <1>6, <2>2 DEF PushScript
  <2> QED
    BY Zenon, <2>1, <2>8, EndTaskRunInv
<1>7. CASE SignScript(i)
  <2>2. task[i] = "running" /\ tasks[i].script = "sign"
    BY <1>7 DEF SignScript, EndTask
  <2>3. "oci-push" \in results
    BY <1>1, <2>2, Shape DEF RunInv, ParamsReady, Started
  <2>4. /\ published \subseteq published' /\ published' \subseteq published \cup {"signature"}
        /\ results \subseteq results' /\ results' \subseteq results \cup {"cosign-sign"}
    BY <1>1, <1>7 DEF SignScript
  <2>1. PushedFirst'
    BY <1>1, <2>3, <2>4 DEF PushedFirst
  <2>8. /\ EndTask(i, "sign") /\ UNCHANGED <<spec, phase, ociRef>>
        /\ source' = source /\ source' \in BOOLEAN /\ artifacts' \in BOOLEAN
        /\ published \subseteq published' /\ published' \subseteq {"upload", "oci", "signature"}
        /\ results \subseteq results' /\ results' \subseteq {"clone", "oci-push", "cosign-sign"}
        /\ "sign" \in {"upload", "push", "sign"} \/ UNCHANGED published
        /\ "sign" \notin {"clone", "copy"}
    BY <1>1, <1>7, <2>4 DEF SignScript
  <2> QED
    BY Zenon, <2>1, <2>8, EndTaskRunInv
<1> QED
  BY <1>2, <1>3, <1>4, <1>5, <1>6, <1>7

LEMMA NextRunInv == RunInv /\ [Next]_vars => RunInv'
<1> SUFFICES ASSUME RunInv, [Next]_vars PROVE RunInv'
  OBVIOUS
<1>0. ociRef \in BOOLEAN /\ (ociRef => "oci" \in published)
  BY DEF RunInv, TypeOK, RefMeansPushed
<1>1. CASE Create
  <2>1. NoneStarted'
    <3>1. \A j \in 1..N : task[j] = "waiting"
      BY <1>1 DEF Create, RunInv, NoneStarted, Started
    <3>2. N' = N /\ task' = task
      BY <1>1 DEF Create, N, tasks
    <3> QED
      BY <3>1, <3>2 DEF NoneStarted, Started
  <2>2. ResultsWritten' /\ (phase' = "refused" => ~Admitted(spec))
    BY <1>1 DEF Create, ResultsWritten
  <2>3. RefusedForCause'
    BY <1>1, <2>2 DEF Create, RefusedForCause, Admitted, BuildPipelineRun, ResultTasks
  <2> QED
    BY <1>0, <1>1, <2>1, <2>2, <2>3, SameTasks DEF Create
<1>2. CASE Cancel
  BY <1>0, <1>2, SameTasks DEF Cancel, NoneStarted, ResultsWritten, RefusedForCause
<1>3. CASE EndRun
  <2>1. phase' \in {"succeeded", "failed", "invalid"}
        /\ (phase' = "succeeded" => ResultTasks(spec) \subseteq results)
    BY <1>3 DEF EndRun
  <2>2. ResultsWritten'
    BY <1>3, <2>1 DEF EndRun, ResultsWritten
  <2> QED
    BY <1>0, <1>3, <2>1, <2>2, SameTasks DEF EndRun, NoneStarted, RefusedForCause
<1>4. CASE Report
  <2>1. ociRef' \in BOOLEAN /\ (ociRef' => "oci" \in published)
    <3>1. ResultTasks(spec) \subseteq results /\ PushedFirst /\ spec \in BuildSpecs
      BY <1>4 DEF Report, RunInv, TypeOK, ResultsWritten
    <3>2. spec.dest = "oci" /\ spec.oci => "oci-push" \in ResultTasks(spec)
      BY DEF ResultTasks
    <3> QED
      BY <1>4, <3>1, <3>2 DEF Report, PushedFirst, BuildSpecs
  <2> QED
    BY <1>4, <2>1, SameTasks
       DEF Report, RunInv, TypeOK, NoneStarted, ResultsWritten, RefusedForCause
<1>5. ASSUME NEW i \in 1..N, StartTask(i) PROVE RunInv'
  BY <1>5, StartRunInv
<1>6. ASSUME NEW i \in 1..N, ResultMissing(i) PROVE RunInv'
  BY <1>0, <1>6, SameTasks DEF ResultMissing, NoneStarted, ResultsWritten, RefusedForCause
<1>7. CASE UNCHANGED vars
  <2>1. NoneStarted' /\ ResultsWritten' /\ RefusedForCause'
    BY <1>7 DEF vars, RunInv, NoneStarted, ResultsWritten, RefusedForCause, Started, N, tasks
  <2> QED
    BY <1>0, <1>7, <2>1, SameTasks DEF vars, RunInv, TypeOK
<1> QED
  BY <1>1, <1>2, <1>3, <1>4, <1>5, <1>6, <1>7, ScriptsRunInv DEF Next

(* Every reachable state of a run is well typed and in order. *)
THEOREM RunInvariance == Spec => []RunInv
  BY InitRunInv, NextRunInv, PTL DEF Spec

(* The state stays within its types, for every length of a pipeline. *)
THEOREM TypeCorrect == Spec => []TypeOK
<1>1. RunInv => TypeOK
  BY DEF RunInv
<1> QED
  BY <1>1, RunInvariance, PTL

(* No two tasks of a run are in the shared workspace at once: in a sequence *)
(* of tasks each of which succeeded before the next was started, at most    *)
(* one is running.                                                          *)
THEOREM TasksAreSequential == Spec => []OneTaskAtATime
<1>1. ASSUME RunInv PROVE OneTaskAtATime
  <2>1. spec \in BuildSpecs /\ DOMAIN task = 1..N /\ N \in Nat
    BY <1>1, Shape DEF RunInv, TypeOK
  <2>2. ASSUME NEW i \in TaskIn({"running"}), NEW j \in TaskIn({"running"}) PROVE i = j
    <3>1. i \in 1..N /\ j \in 1..N /\ task[i] = "running" /\ task[j] = "running"
      BY <2>1, <2>2 DEF TaskIn
    <3>2. ~(i < j) /\ ~(j < i)
      BY <1>1, <3>1 DEF RunInv, InSequence, Started
    <3> QED
      BY <2>1, <3>1, <3>2
  <2>3. CASE TaskIn({"running"}) = {}
    BY <2>3, FS_EmptySet DEF OneTaskAtATime
  <2>4. CASE TaskIn({"running"}) # {}
    <3>1. PICK i : TaskIn({"running"}) = {i}
      BY <2>2, <2>4
    <3>2. Cardinality(TaskIn({"running"})) = 1
      BY <3>1, FS_Singleton
    <3> QED
      BY <3>2 DEF OneTaskAtATime
  <2> QED
    BY <2>3, <2>4
<1> QED
  BY <1>1, RunInvariance, PTL

(* A stage that was started has the whole source tree before it, and the   *)
(* work of every stage listed before it.                                   *)
THEOREM StagesSeeSource == Spec => []StageSeesSource
<1>1. ASSUME RunInv PROVE StageSeesSource
  <2> SUFFICES ASSUME NEW i \in StageTasks, task[i] # "waiting"
               PROVE  /\ spec.source # "none" => source
                      /\ \A j \in StageTasks : j < i => task[j] = "succeeded"
    BY DEF StageSeesSource
  <2>1. spec \in BuildSpecs /\ DOMAIN task = 1..N /\ N \in Nat /\ N = Size(spec)
    BY <1>1, Shape DEF RunInv, TypeOK
  <2>2. i \in 1..N /\ tasks[i].script = "stage"
    BY <2>1 DEF StageTasks
  <2>3. ASSUME spec.source # "none" PROVE source
    <3>1. Sources(spec) = 1 /\ Sources(spec) < i
      BY Zenon, <2>1, <2>2, <2>3, Sizes, Scripts DEF tasks
    <3>2. 1 \in 1..N /\ 1 < i
      BY <2>1, <2>2, <3>1
    <3>3. tasks[1].script \in {"clone", "copy"}
      BY Zenon, <2>1, <2>3, <3>2, Scripts DEF tasks
    <3>4. task[1] = "succeeded"
      BY <1>1, <2>2, <3>2 DEF RunInv, InSequence, Started
    <3> QED
      BY <1>1, <3>2, <3>3, <3>4 DEF RunInv, SourceLeft
  <2>4. \A j \in StageTasks : j < i => task[j] = "succeeded"
    BY <1>1, <2>1, <2>2 DEF StageTasks, RunInv, InSequence, Started
  <2> QED
    BY <2>3, <2>4
<1> QED
  BY <1>1, RunInvariance, PTL

(* What left the cluster was built by stages that all succeeded, and a     *)
(* signature is that of something pushed.                                  *)
THEOREM PublishedIsBuilt == Spec => []PublishedMeansBuilt
<1>1. ASSUME RunInv PROVE PublishedMeansBuilt
  <2> SUFFICES ASSUME published # {}
               PROVE  /\ \A i \in StageTasks : task[i] = "succeeded"
                      /\ "signature" \in published => "oci" \in published
    BY DEF PublishedMeansBuilt
  <2>1. spec \in BuildSpecs /\ DOMAIN task = 1..N /\ N \in Nat /\ N = Size(spec)
    BY <1>1, Shape DEF RunInv, TypeOK
  <2>2. PICK k \in 1..N : Started(k) /\ Built(spec) < k
    BY <1>1 DEF RunInv, PublishedLate
  <2>3. ASSUME NEW i \in StageTasks PROVE task[i] = "succeeded"
    <3>1. i \in 1..N /\ tasks[i].script = "stage"
      BY <2>1 DEF StageTasks
    <3>2. i <= Built(spec)
      BY Zenon, <2>1, <3>1, Scripts DEF tasks
    <3>3. i < k
      BY <2>1, <2>2, <3>1, <3>2, Sizes
    <3> QED
      BY <1>1, <2>2, <3>1, <3>3 DEF RunInv, InSequence
  <2> QED
    BY <1>1, <2>3 DEF RunInv, PushedFirst
<1> QED
  BY <1>1, RunInvariance, PTL

(* An ociArtifactRef names something that was pushed: a run succeeds only  *)
(* with its declared results, and a push that pushed nothing wrote none.   *)
THEOREM RefIsPushed == Spec => []RefMeansPushed
<1>1. RunInv => RefMeansPushed
  BY DEF RunInv
<1> QED
  BY <1>1, RunInvariance, PTL

-----------------------------------------------------------------------------
(* Admission *)

(* A spec with names of its own and something to publish is admitted.      *)
Good(b) ==
    /\ \A i \in 1..Len(b.stages) : b.stages[i] \notin OwnNames
    /\ \A i, j \in 1..Len(b.stages) : b.stages[i] = b.stages[j] => i = j
    /\ b.source # "none" \/ b.stages # <<>>
    /\ b.dest = "oci" => b.oci /\ b.path

LEMMA GoodNames ==
    ASSUME NEW b \in BuildSpecs, Good(b)
    PROVE  /\ DistinctNames(BuildPipelineRun(b)) /\ Built(b) > 0
           /\ \A i \in 1..Built(b) : Chain(b)[i] \notin {"oci-push", "cosign-sign", "collect-artifacts"}
<1> DEFINE T == BuildPipelineRun(b)
           s == Sources(b)
           c == Built(b)
<1>1. /\ s = IF b.source = "none" THEN 0 ELSE 1
      /\ s \in {0, 1} /\ c \in Nat /\ c = s + Len(b.stages) /\ Len(b.stages) \in Nat
      /\ DOMAIN T = 1..Size(b) /\ Size(b) \in Nat
  BY Sizes, ChainShape, PipelineShape DEF Sources, Built
<1> DEFINE m == Size(b)
           n == Len(b.stages)
<1>0. s \in {0, 1} /\ c \in Nat /\ c = s + n /\ n \in Nat /\ m \in Nat
  BY <1>1
<1> HIDE DEF T, s, c, m, n
<1>2. c > 0
  <2>1. b.stages # <<>> => Len(b.stages) # 0
    <3>1. DOMAIN b.stages = 1..Len(b.stages)
      BY ChainShape
    <3>2. PICK k \in 0..MaxStages : b.stages \in [1..k -> StageNames]
      BY DEF BuildSpecs
    <3>3. k \in Nat
      BY Stages
    <3>4. b.stages \in Seq(StageNames)
      BY <3>2, <3>3
    <3> QED
      BY <3>4, EmptySeq
  <2> QED
    <3>1. s = 1 \/ n # 0
      BY <1>1, <2>1 DEF Good, n
    <3> QED
      BY <1>0, <3>1
<1>3. ASSUME NEW i \in 1..c, s < i
      PROVE  i - s \in 1..Len(b.stages) /\ Chain(b)[i] = b.stages[i - s] /\ Chain(b)[i] \notin OwnNames
  <2>1. i - s \in 1..Len(b.stages) /\ i = s + (i - s)
    <3>1. i - s \in 1..n /\ i = s + (i - s)
      BY <1>0, <1>3
    <3> QED
      BY <3>1 DEF n
  <2>2. \A k \in 1..Len(b.stages) : Chain(b)[s + k] = b.stages[k]
    BY ChainShape DEF Sources, s
  <2> QED
    BY <2>1, <2>2 DEF Good
<1>4. ASSUME NEW i \in 1..c, i <= s PROVE i = 1 /\ Chain(b)[i] \in {"clone", "copy-source"}
  <2>1. i = 1 /\ b.source \in {"git", "pvc"}
    BY <1>1, <1>4 DEF BuildSpecs
  <2> QED
    BY <2>1, ChainShape
<1>5. \A i \in 1..c : Chain(b)[i] \notin {"oci-push", "cosign-sign", "collect-artifacts"}
  <2> SUFFICES ASSUME NEW i \in 1..c
               PROVE Chain(b)[i] \notin {"oci-push", "cosign-sign", "collect-artifacts"}
    OBVIOUS
  <2>1. CASE s < i
    BY <1>3, <2>1 DEF OwnNames
  <2>2. CASE i <= s
    BY <1>4, <2>2
  <2> QED
    BY <1>0, <2>1, <2>2
<1>6. ASSUME NEW i \in 1..c, NEW j \in 1..c, i < j PROVE Chain(b)[i] # Chain(b)[j]
  <2>1. s < j
    BY <1>0, <1>6
  <2>2. CASE s < i
    <3>1. i - s # j - s
      BY <1>0, <1>6
    <3> QED
      BY <1>3, <2>1, <2>2, <3>1 DEF Good
  <2>3. CASE i <= s
    BY <1>3, <1>4, <2>1, <2>3 DEF OwnNames
  <2> QED
    BY <1>0, <2>2, <2>3
<1>7. ASSUME NEW i \in 1..m, i > c
      PROVE  \/ i = c + 1 /\ T[i].name \in {"collect-artifacts", "oci-push"}
             \/ i = c + 2 /\ T[i].name = "cosign-sign"
  <2>1. ~(i = 1 /\ s = 1) /\ ~(i <= c)
    BY <1>0, <1>7
  <2>2. \/ i = 1 /\ s = 1
        \/ i <= c
        \/ i = c + 1 /\ (T[i].name = "collect-artifacts" \/ T[i].name = "oci-push")
        \/ i = c + 2 /\ T[i].name = "cosign-sign"
    BY Zenon, <1>7, TaskShape DEF s, c, T, m
  <2> QED
    BY <2>1, <2>2
<1>8. ASSUME NEW i \in 1..m, i <= c PROVE T[i].name = Chain(b)[i] /\ i \in 1..c
  <2>1. T[i].name = Chain(b)[i]
    BY Zenon, <1>8, Scripts DEF T, c, m
  <2>2. i \in 1..c
    BY <1>0, <1>8
  <2> QED
    BY <2>1, <2>2
<1>9. ASSUME NEW i \in 1..m, NEW j \in 1..m, i < j PROVE T[i].name # T[j].name
  <2>1. CASE j <= c
    <3>1. i <= c
      BY <1>0, <1>9, <2>1
    <3> QED
      BY <1>6, <1>8, <1>9, <2>1, <3>1
  <2>2. CASE j > c /\ i <= c
    BY <1>5, <1>7, <1>8, <2>2
  <2>3. CASE j > c /\ i > c
    <3>1. i = c + 1 /\ j = c + 2
      BY <1>0, <1>7, <1>9, <2>3
    <3>2. T[i].name \in {"collect-artifacts", "oci-push"}
      BY <1>0, <1>7, <2>3, <3>1
    <3>3. T[j].name = "cosign-sign"
      BY <1>0, <1>7, <2>3, <3>1
    <3> QED
      BY <3>2, <3>3
  <2>4. j <= c \/ (j > c /\ i <= c) \/ (j > c /\ i > c)
    BY <1>0
  <2> QED
    BY Zenon, <2>1, <2>2, <2>3, <2>4
<1>10. DistinctNames(T)
  <2>1. \A i, j \in 1..m : i < j \/ j < i \/ i = j
    BY <1>0
  <2>2. DOMAIN T = 1..m
    BY <1>1 DEF m
  <2> QED
    BY <1>9, <2>1, <2>2 DEF DistinctNames
<1> QED
  BY <1>2, <1>5, <1>10 DEF T, c

(* A task waits for the one before it, and for no other. *)
LEMMA WaitsForPrevious ==
    ASSUME NEW b \in BuildSpecs, Good(b), NEW i \in 1..Size(b),
           NEW x \in DependsOn(BuildPipelineRun(b)[i])
    PROVE  i > 1 /\ i - 1 \in 1..Size(b) /\ x = BuildPipelineRun(b)[i - 1].name
<1> SUFFICES ASSUME NEW t, t = BuildPipelineRun(b)[i], NEW c, c = Built(b)
             PROVE  i > 1 /\ i - 1 \in 1..Size(b) /\ x = BuildPipelineRun(b)[i - 1].name
  OBVIOUS
<1>1. c \in Nat /\ c > 0 /\ Size(b) \in Nat
  BY Sizes, PipelineShape, GoodNames
<1>2. x \in t.runAfter \cup t.params
  BY DEF DependsOn
<1>3. \/ t.runAfter = {} /\ t.params = {}
      \/ i <= c /\ t.params = {} /\ t.runAfter = IF i = 1 THEN {} ELSE {Chain(b)[i - 1]}
      \/ i = c + 1 /\ t.params = {} /\ t.runAfter = {IF c = 0 THEN "" ELSE Chain(b)[c]}
      \/ /\ i = c + 2 /\ t.runAfter = {"oci-push"} /\ t.params = {"oci-push"}
         /\ BuildPipelineRun(b)[c + 1].name = "oci-push"
  BY Zenon, TaskShape
<1>4. CASE t.runAfter = {} /\ t.params = {}
  BY <1>2, <1>4
<1>5. CASE i <= c /\ t.params = {} /\ t.runAfter = IF i = 1 THEN {} ELSE {Chain(b)[i - 1]}
  <2>1. i # 1 /\ x = Chain(b)[i - 1]
    BY Zenon, <1>2, <1>5
  <2>2. i > 1 /\ i - 1 \in 1..Size(b) /\ i - 1 <= Built(b)
    BY <1>1, <1>5, <2>1
  <2>3. BuildPipelineRun(b)[i - 1].name = Chain(b)[i - 1]
    BY Zenon, <2>2, Scripts
  <2> QED
    BY Zenon, <2>1, <2>2, <2>3
<1>6. CASE i = c + 1 /\ t.params = {} /\ t.runAfter = {IF c = 0 THEN "" ELSE Chain(b)[c]}
  <2>1. c # 0 /\ i - 1 = c /\ i > 1 /\ i - 1 \in 1..Size(b) /\ i - 1 <= Built(b)
    <3>1. i = c + 1
      BY Zenon, <1>6
    <3> QED
      BY <1>1, <3>1
  <2>2. x = Chain(b)[c]
    BY Zenon, <1>2, <1>6, <2>1
  <2>3. BuildPipelineRun(b)[i - 1].name = Chain(b)[i - 1]
    BY Zenon, <2>1, Scripts
  <2> QED
    BY Zenon, <2>1, <2>2, <2>3
<1>7. CASE /\ i = c + 2 /\ t.runAfter = {"oci-push"} /\ t.params = {"oci-push"}
           /\ BuildPipelineRun(b)[c + 1].name = "oci-push"
  <2>1. i - 1 = c + 1 /\ i > 1 /\ i - 1 \in 1..Size(b)
    BY <1>1, <1>7
  <2>2. x = "oci-push"
    BY <1>2, <1>7
  <2> QED
    BY Zenon, <1>7, <2>1, <2>2
<1> QED
  BY Zenon, <1>3, <1>4, <1>5, <1>6, <1>7

(* The declared results are those of tasks there are. *)
LEMMA ResultsHaveTasks ==
    ASSUME NEW b \in BuildSpecs, Good(b)
    PROVE  ResultTasks(b) \subseteq NamesOf(BuildPipelineRun(b))
<1> DEFINE T == BuildPipelineRun(b)
           c == Built(b)
           p == PublishTasks(b)
           prev == Previous(b, Len(Chain(b)) + 1)
<1>1. /\ c \in Nat /\ c > 0 /\ DOMAIN T = 1..Size(b) /\ Size(b) = c + Len(p)
      /\ Len(p) \in 0..2
      /\ \A i \in 1..Len(p) : T[c + i] = p[i]
  BY Sizes, PipelineShape, GoodNames
<1> HIDE DEF T, c, p
<1>2. ASSUME NEW i \in 1..Size(b) PROVE T[i].name \in NamesOf(T)
  BY <1>1 DEF NamesOf
<1>3. ASSUME b.source = "git" PROVE "clone" \in NamesOf(T)
  <2>1. 1 \in 1..Size(b) /\ 1 <= c
    BY <1>1
  <2>2. T[1].name = Chain(b)[1]
    BY Zenon, <2>1, Scripts DEF T, c
  <2>3. Chain(b)[1] = "clone"
    BY <1>3, ChainShape
  <2> QED
    BY <1>2, <2>1, <2>2, <2>3
<1>4. ASSUME b.dest = "oci", b.oci PROVE "oci-push" \in NamesOf(T)
  <2>1. b.path
    BY <1>4 DEF Good
  <2>2. p = <<BuildOCIArtifactTask(prev)>>
        \/ p = <<BuildOCIArtifactTask(prev), BuildCosignSignTask(prev)>>
    BY Zenon, <1>4, <2>1, PublishShape DEF p
  <2> HIDE DEF prev
  <2>3. 1 \in 1..Len(p) /\ p[1] = BuildOCIArtifactTask(prev)
    BY <2>2
  <2>4. T[c + 1].name = "oci-push"
    BY <1>1, <2>3 DEF BuildOCIArtifactTask, Task
  <2>5. c + 1 \in 1..Size(b)
    BY <1>1, <2>3
  <2> QED
    BY <1>2, <2>4, <2>5
<1>5. ASSUME b.dest = "oci", b.oci, b.signing PROVE "cosign-sign" \in NamesOf(T)
  <2>1. b.path
    BY <1>5 DEF Good
  <2>2. p = <<BuildOCIArtifactTask(prev), BuildCosignSignTask(prev)>>
    BY Zenon, <1>5, <2>1, PublishShape DEF p
  <2> HIDE DEF prev
  <2>3. 2 \in 1..Len(p) /\ p[2] = BuildCosignSignTask(prev)
    BY <2>2
  <2>4. T[c + 2].name = "cosign-sign"
    BY <1>1, <2>3 DEF BuildCosignSignTask, Task
  <2>5. c + 2 \in 1..Size(b)
    BY <1>1, <2>3
  <2> QED
    BY <1>2, <2>4, <2>5
<1> QED
  BY Zenon, <1>3, <1>4, <1>5 DEF ResultTasks, T

LEMMA GoodIsAdmitted ==
    ASSUME NEW b \in BuildSpecs, Good(b)
    PROVE  Admitted(b)
<1> DEFINE T == BuildPipelineRun(b)
<1>1. DOMAIN T = 1..Size(b) /\ Size(b) \in Nat
  BY PipelineShape
<1>2. DistinctNames(T) /\ ResultTasks(b) \subseteq NamesOf(T)
  BY GoodNames, ResultsHaveTasks
<1>3. ASSUME NEW i \in 1..Size(b), NEW x \in DependsOn(T[i])
      PROVE  i > 1 /\ i - 1 \in 1..Size(b) /\ x = T[i - 1].name
  BY WaitsForPrevious
<1> HIDE DEF T
<1>4. \A i \in DOMAIN T : DependsOn(T[i]) \subseteq NamesOf(T)
  BY <1>1, <1>3 DEF NamesOf
<1>5. Acyclic(T)
  <2> DEFINE rank == [i \in DOMAIN T |-> i]
  <2>1. rank \in [DOMAIN T -> DOMAIN T]
    OBVIOUS
  <2>2. ASSUME NEW i \in DOMAIN T, NEW j \in DOMAIN T, T[j].name \in DependsOn(T[i])
        PROVE  rank[j] < rank[i]
    <3>1. i - 1 \in 1..Size(b) /\ T[j].name = T[i - 1].name
      BY <1>1, <1>3, <2>2
    <3>2. j = i - 1
      BY <1>1, <1>2, <3>1 DEF DistinctNames
    <3> QED
      BY <1>1, <3>2
  <2> HIDE DEF rank
  <2> QED
    BY <2>1, <2>2 DEF Acyclic
<1> QED
  BY <1>2, <1>4, <1>5 DEF Admitted, T

(* Tekton refuses the pipeline of a BuildJob only for the faults of a spec *)
(* that OnlyBadSpecsRefused lists, however many stages there are.          *)
THEOREM RefusedIsBad == Spec => []OnlyBadSpecsRefused
<1>1. ASSUME RunInv PROVE OnlyBadSpecsRefused
  <2> SUFFICES ASSUME phase = "refused",
                      ~\E i \in 1..Len(spec.stages) : spec.stages[i] \in OwnNames,
                      ~\E i, j \in 1..Len(spec.stages) : i # j /\ spec.stages[i] = spec.stages[j],
                      ~(spec.source = "none" /\ spec.stages = <<>>),
                      ~(~spec.path /\ spec.dest = "oci")
               PROVE  FALSE
    BY Zenon DEF OnlyBadSpecsRefused
  <2>1. spec \in BuildSpecs /\ ~Admitted(spec) /\ (spec.dest = "oci" => spec.oci)
    BY <1>1 DEF RunInv, TypeOK, RefusedForCause
  <2>2. Good(spec)
    BY Zenon, <2>1 DEF Good
  <2> QED
    BY <2>1, <2>2, GoodIsAdmitted
<1> QED
  BY <1>1, RunInvariance, PTL
=============================================================================
