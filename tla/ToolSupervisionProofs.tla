------------------------ MODULE ToolSupervisionProofs ------------------------
(***************************************************************************)
(* The tool supervisor, proved for any number of hooks, sessions and calls, *)
(* wherever hooks may die and whatever may fail: its types, the accounting  *)
(* of avoided calls, the indexer queue, what the warm cache holds and the   *)
(* count of repeated searches that is taken from it.                       *)
(*                                                                         *)
(* The last section composes them with the v1 traces: HooksSpec, the instance *)
(* TLC runs, is a behaviour of each of its three parts.                     *)
(*                                                                         *)
(* The types are not inductive alone: a hook that answers a call must hold  *)
(* that call (PreFramed), and a descriptor for rtools.bin.tmp only exists   *)
(* as long as that file does (TmpOpen).                                    *)
(***************************************************************************)
EXTENDS MCToolSupervision, TraceProofs

PreFramed == \A h \in Hook : hook[h].pc \in PreLabel => Len(hook[h].lines) = 1
TmpOpen == \A h \in Hook : fd[h] = "tmp" => tmp # NoFile

SupervisionInv == TypeOK /\ PreFramed /\ TmpOpen

-----------------------------------------------------------------------------
(* Sequences and frames *)

LEMMA LabelDef ==
    /\ PreLabel \subseteq Label /\ CacheLabel \subseteq Label
    /\ {"idle", "enqueue", "dead"} \subseteq Label
BY DEF Label

LEMMA LastNTyped ==
    ASSUME NEW S, NEW n \in Nat, NEW q \in Seq(S)
    PROVE  LastN(n, q) \in Seq(S) /\ Len(LastN(n, q)) <= n
<1>1. CASE Len(q) <= n
  BY <1>1 DEF LastN
<1>2. CASE Len(q) > n
  <2>1. Len(q) \in Nat /\ \A i \in Len(q) - n + 1 .. Len(q) : q[i] \in S
    BY <1>2
  <2>2. /\ SubSeq(q, Len(q) - n + 1, Len(q)) \in Seq(S)
        /\ Len(SubSeq(q, Len(q) - n + 1, Len(q))) <= n
    BY <2>1, <1>2, SubSeqProperties
  <2>. QED  BY <1>2, <2>1, <2>2 DEF LastN
<1>. QED  BY <1>1, <1>2

LEMMA EndTyped ==
    ASSUME NEW S, NEW q \in Seq(S), NEW n \in Nat PROVE SubSeq(q, n + 1, Len(q)) \in Seq(S)
<1>1. Len(q) \in Nat /\ \A i \in n + 1 .. Len(q) : q[i] \in S
  OBVIOUS
<1>. QED  BY <1>1, SubSeqProperties

LEMMA BytesTyped == ASSUME NEW q \in Seq(Obs) PROVE Bytes(q) \in Nat
<1>. DEFINE Line(i) == {i} \X (1 .. LineSize[q[i]])
            F == {Line(i) : i \in DOMAIN q}
            f == [i \in DOMAIN q |-> Line(i)]
<1>1. ASSUME NEW i \in DOMAIN q PROVE IsFiniteSet(Line(i))
  <2>1. q[i] \in Obs /\ LineSize \in [Obs -> Nat \ {0}]
    BY SizeAssumption
  <2>2. IsFiniteSet({i}) /\ IsFiniteSet(1 .. LineSize[q[i]])
    <3>1. PICK n \in Int : n = LineSize[q[i]]
      BY <2>1
    <3>2. IsFiniteSet(1 .. n)
      BY FS_Interval
    <3>. QED  BY <3>1, <3>2, FS_Singleton
  <2>. QED  BY <2>2, FS_Product
<1>2. IsFiniteSet(DOMAIN q)
  BY FS_Interval, Len(q) \in Nat
<1>3. f \in Surjection(DOMAIN q, F)
  BY DEF Surjection
<1>4. IsFiniteSet(F)
  BY <1>2, <1>3, FS_Surjection
<1>5. \A x \in F : IsFiniteSet(x)
  BY <1>1
<1>6. IsFiniteSet(UNION F)
  BY <1>4, <1>5, FS_UNION
<1>7. Cardinality(UNION F) \in Nat
  BY <1>6, FS_CardinalityType
<1>. QED  BY <1>7 DEF Bytes

LEMMA BlankTyped == Blank \in Text
<1>1. <<>> \in Seq(Obs) /\ <<>> \in Seq(Nat)
  OBVIOUS
<1>. QED  BY <1>1 DEF Blank, Text

LEMMA ExtendTyped ==
    ASSUME NEW t \in Text, NEW q \in Seq(Obs) PROVE Extend(t, q) \in Text
<1>1. t.lines \in Seq(Obs) /\ t.at \in Seq(Nat) /\ t.size \in Nat /\ Len(q) \in Nat
  BY DEF Text
<1>2. ASSUME NEW i \in DOMAIN q PROVE t.size + Bytes(SubSeq(q, 1, i - 1)) \in Nat
  <2>1. i - 1 \in Int /\ \A j \in 1 .. i - 1 : q[j] \in Obs
    OBVIOUS
  <2>2. SubSeq(q, 1, i - 1) \in Seq(Obs)
    BY <2>1, SubSeqProperties
  <2>3. Bytes(SubSeq(q, 1, i - 1)) \in Nat
    BY <2>2, BytesTyped
  <2>. QED  BY <1>1, <2>3
<1>. DEFINE f == [i \in DOMAIN q |-> t.size + Bytes(SubSeq(q, 1, i - 1))]
<1>3. f \in Seq(Nat)
  <2>1. f \in [1 .. Len(q) -> Nat]
    BY <1>2
  <2>. QED  BY <1>1, <2>1, SeqDef
<1>. HIDE DEF f
<1>4. t.lines \o q \in Seq(Obs) /\ t.at \o f \in Seq(Nat) /\ t.size + Bytes(q) \in Nat
  BY <1>1, <1>3, ConcatProperties, BytesTyped
<1>. QED  BY <1>4 DEF Extend, Text, f

LEMMA StandingTyped ==
    ASSUME NEW q \in Seq(Obs), NEW t \in Text
    PROVE  Cut(q, t) \in Nat /\ Standing(q, t) \in Seq(Obs)
<1>1. t.lines \in Seq(Obs) /\ t.at \in Seq(Nat) /\ DOMAIN t.at = 1 .. Len(t.at)
  BY DEF Text
<1>2. IsFiniteSet(1 .. Len(t.at)) /\ {i \in DOMAIN t.at : t.at[i] < Bytes(q)} \in SUBSET (1 .. Len(t.at))
  BY <1>1, FS_Interval
<1>3. Cut(q, t) \in Nat
  BY <1>2, FS_Subset, FS_CardinalityType DEF Cut
<1>. QED  BY <1>1, <1>3, EndTyped DEF Standing

LEMMA OverwriteTyped ==
    ASSUME NEW q \in Seq(Obs), NEW t \in Text PROVE Overwrite(q, t) \in Text
<1>. DEFINE new == Extend(Blank, q)
<1>1. new \in Text
  BY BlankTyped, ExtendTyped
<1>. HIDE DEF new
<1>2. /\ new.at \in Seq(Nat) /\ new.size \in Nat /\ t.at \in Seq(Nat) /\ t.size \in Nat
      /\ Cut(q, t) \in Nat /\ Standing(q, t) \in Seq(Obs)
  BY <1>1, StandingTyped DEF Text
<1>3. SubSeq(t.at, Cut(q, t) + 1, Len(t.at)) \in Seq(Nat)
  BY <1>2, EndTyped
<1>4. /\ q \o Standing(q, t) \in Seq(Obs)
      /\ new.at \o SubSeq(t.at, Cut(q, t) + 1, Len(t.at)) \in Seq(Nat)
      /\ (IF new.size > t.size THEN new.size ELSE t.size) \in Nat
  BY <1>2, <1>3, ConcatProperties
<1>. QED  BY <1>4 DEF Overwrite, Text, new

LEMMA CountTyped ==
    ASSUME NEW S, NEW q \in Seq(S), NEW s, NEW k
    PROVE  Searches(q, s, k) \in Nat /\ IntentCount(q, s, k) \in Nat
<1>. DEFINE T == {i \in DOMAIN q : /\ q[i].s = s
                                   /\ FamilyOf[q[i].k] = "search"
                                   /\ IntentOf[q[i].k] = IntentOf[k]}
<1>1. IsFiniteSet(1 .. Len(q)) /\ T \in SUBSET (1 .. Len(q))
  BY FS_Interval
<1>2. Cardinality(T) \in Nat
  BY <1>1, FS_Subset, FS_CardinalityType
<1>. QED  BY <1>2 DEF IntentCount, Searches

LEMMA LinesTyped ==
    ASSUME NEW s \in Session, NEW calls \in Seq(Call) PROVE LinesOf(s, calls) \in Seq(Obs)
<1>1. /\ Len(calls) \in Nat /\ DOMAIN calls = 1 .. Len(calls)
      /\ LinesOf(s, calls) \in [1 .. Len(calls) -> Obs]
  BY DEF LinesOf, Obs
<1>. QED  BY <1>1, SeqDef

LEMMA AppendTyped ==
    ASSUME ran \in [Session -> Seq(Call)], NEW s \in Session, NEW k \in Call,
           ran' = [ran EXCEPT ![s] = Append(@, k)]
    PROVE  ran' \in [Session -> Seq(Call)]
<1>1. Append(ran[s], k) \in Seq(Call)
  BY AppendProperties
<1>. QED  BY <1>1

LEMMA GotoMoves ==
    ASSUME hook \in [Hook -> Frame], NEW h \in Hook, NEW l \in Label, Goto(h, l)
    PROVE  /\ hook' \in [Hook -> Frame]
           /\ \A x \in Hook : /\ hook'[x].lines = hook[x].lines /\ hook'[x].mem = hook[x].mem
                              /\ hook'[x].seen = hook[x].seen /\ hook'[x].prior = hook[x].prior
                              /\ hook'[x].pc = IF x = h THEN l ELSE hook[x].pc
<1>. DEFINE f == [hook[h] EXCEPT !.pc = l]
<1>1. /\ f \in Frame /\ f.lines = hook[h].lines /\ f.mem = hook[h].mem
      /\ f.seen = hook[h].seen /\ f.prior = hook[h].prior /\ f.pc = l
  BY DEF Frame
<1>2. hook' = [hook EXCEPT ![h] = f]
  BY DEF Goto
<1>. HIDE DEF f
<1>. QED  BY <1>1, <1>2

LEMMA IdleTyped == /\ Idle \in Frame /\ Idle.pc = "idle" /\ Len(Idle.mem) = 0
                   /\ Idle.lines = << >>
BY LabelDef DEF Idle, Frame

LEMMA FinishMoves ==
    ASSUME hook \in [Hook -> Frame], NEW h \in Hook, Finish(h)
    PROVE  /\ hook' \in [Hook -> Frame]
           /\ hook'[h].pc = "idle" /\ Len(hook'[h].mem) = 0
           /\ \A x \in Hook : x # h => hook'[x] = hook[x]
BY IdleTyped DEF Finish

LEMMA AskedTyped ==
    ASSUME SupervisionInv, NEW h \in Hook, hook[h].pc \in PreLabel
    PROVE  Asked(h) \in Obs /\ Asked(h).s \in Session /\ Asked(h).k \in Call
<1>1. hook[h].lines \in Seq(Obs) /\ Len(hook[h].lines) = 1
  BY DEF SupervisionInv, TypeOK, PreFramed, Frame
<1>2. Asked(h) \in Obs
  BY <1>1 DEF Asked
<1>. QED  BY <1>2 DEF Obs

-----------------------------------------------------------------------------
(* Types *)

\* What a step does to the frames
FramesKept == /\ hook' \in [Hook -> Frame]
              /\ \A h \in Hook : Len(hook'[h].mem) <= Ring
              /\ \A h \in Hook : hook'[h].pc \in PreLabel => Len(hook'[h].lines) = 1

LEMMA GotoKeepsPre ==
    ASSUME SupervisionInv, NEW h \in Hook, NEW l \in Label, Goto(h, l),
           l \in PreLabel => hook[h].pc \in PreLabel
    PROVE  FramesKept
<1>1. hook \in [Hook -> Frame] /\ PreFramed /\ \A x \in Hook : Len(hook[x].mem) <= Ring
  BY DEF SupervisionInv, TypeOK
<1>2. /\ hook' \in [Hook -> Frame]
      /\ \A x \in Hook : /\ hook'[x].lines = hook[x].lines /\ hook'[x].mem = hook[x].mem
                         /\ hook'[x].pc = IF x = h THEN l ELSE hook[x].pc
  BY <1>1, GotoMoves
<1>. QED  BY <1>1, <1>2 DEF FramesKept, PreFramed

LEMMA FinishKeepsPre ==
    ASSUME SupervisionInv, NEW h \in Hook, Finish(h) PROVE FramesKept
<1>1. hook \in [Hook -> Frame] /\ PreFramed /\ \A x \in Hook : Len(hook[x].mem) <= Ring
  BY DEF SupervisionInv, TypeOK
<1>2. /\ hook' \in [Hook -> Frame]
      /\ hook'[h].pc = "idle" /\ Len(hook'[h].mem) = 0
      /\ \A x \in Hook : x # h => hook'[x] = hook[x]
  BY <1>1, FinishMoves
<1>3. "idle" \notin PreLabel /\ 0 <= Ring
  BY SizeAssumption DEF PreLabel
<1>. QED  BY <1>1, <1>2, <1>3 DEF FramesKept, PreFramed

\* A step on the cache, its temporary file and their descriptors
LEMMA CacheStep ==
    ASSUME SupervisionInv, FramesKept, UNCHANGED <<rows, warned, ran, queued, credit, refused, issued>>,
           doubled' \in Seq(Obs), file' \in Text, tmp' \in Text \cup {NoFile}, clean' \in BOOLEAN,
           fd' \in [Hook -> {"none", "file", "tmp", "gone"}],
           \A h \in Hook : fd'[h] = "tmp" => tmp' # NoFile
    PROVE  SupervisionInv'
<1>1. TypeOK'
  BY DEF SupervisionInv, TypeOK, FramesKept
<1>2. PreFramed'
  BY DEF FramesKept, PreFramed
<1>. QED  BY <1>1, <1>2 DEF SupervisionInv, TmpOpen

\* A step that leaves the files alone
LEMMA PreStep ==
    ASSUME SupervisionInv, FramesKept, UNCHANGED <<rows, file, tmp, fd, clean, doubled>>,
           warned' \subseteq Obs, queued' \subseteq Call, ran' \in [Session -> Seq(Call)],
           credit' \in Nat, refused' \in Nat, issued' \in Nat
    PROVE  SupervisionInv'
<1>1. TypeOK'
  BY DEF SupervisionInv, TypeOK, FramesKept
<1>2. PreFramed'
  BY DEF FramesKept, PreFramed
<1>3. TmpOpen'
  BY DEF SupervisionInv, TmpOpen
<1>. QED  BY <1>1, <1>2, <1>3 DEF SupervisionInv

LEMMA InitTyped == Init => SupervisionInv
<1>. SUFFICES ASSUME Init PROVE SupervisionInv
  OBVIOUS
<1>1. TypeOK
  BY IdleTyped, BlankTyped, SizeAssumption DEF Init, TypeOK
<1>. QED  BY <1>1, IdleTyped DEF Init, SupervisionInv, PreFramed, TmpOpen, PreLabel

LEMMA TargetTyped ==
    ASSUME SupervisionInv, NEW h \in Hook
    PROVE  Target(h) \in Text /\ hook[h].mem \in Seq(Obs)
<1>1. /\ file \in Text /\ tmp \in Text \cup {NoFile} /\ hook[h].mem \in Seq(Obs)
      /\ fd[h] = "tmp" => tmp # NoFile
      /\ fd[h] \in {"none", "file", "tmp", "gone"}
  BY DEF SupervisionInv, TypeOK, TmpOpen, Frame
<1>2. CASE fd[h] = "file"
  BY <1>1, <1>2 DEF Target
<1>3. CASE fd[h] = "tmp"
  BY <1>1, <1>3 DEF Target
<1>4. CASE fd[h] # "file" /\ fd[h] # "tmp"
  BY <1>1, <1>4, BlankTyped DEF Target
<1>. QED  BY <1>1, <1>2, <1>3, <1>4

LEMMA RewriteDoubles ==
    ASSUME SupervisionInv, NEW h \in Hook, Rewrite(h) PROVE doubled' \in Seq(Obs)
<1>1. Standing(hook[h].mem, Target(h)) \in Seq(Obs) /\ doubled \in Seq(Obs)
  BY TargetTyped, StandingTyped DEF SupervisionInv, TypeOK
<1>2. Keep(Standing(hook[h].mem, Target(h)), Held(hook[h].mem)) \in Seq(Obs)
  BY <1>1, KeepPlaces
<1>. QED  BY <1>1, <1>2, ConcatProperties DEF Rewrite

LEMMA StepTyped == SupervisionInv /\ [Next]_vars => SupervisionInv'
<1>. SUFFICES ASSUME SupervisionInv, [Next]_vars PROVE SupervisionInv'
  OBVIOUS
<1>a. /\ rows \in Seq(Obs) /\ doubled \in Seq(Obs) /\ file \in Text /\ tmp \in Text \cup {NoFile}
      /\ fd \in [Hook -> {"none", "file", "tmp", "gone"}] /\ hook \in [Hook -> Frame]
      /\ warned \subseteq Obs /\ queued \subseteq Call /\ ran \in [Session -> Seq(Call)]
      /\ credit \in Nat /\ refused \in Nat /\ issued \in Nat /\ clean \in BOOLEAN
      /\ \A h \in Hook : Len(hook[h].mem) <= Ring
  BY DEF SupervisionInv, TypeOK
<1>b. PreFramed /\ TmpOpen
  BY DEF SupervisionInv
<1>. USE SizeAssumption
<1>1. ASSUME NEW h \in Hook, NEW s \in Session, NEW k \in Call, PreToolUse(h, s, k)
      PROVE  SupervisionInv'
  <2>1. /\ ran' = [ran EXCEPT ![s] = Append(@, k)] \/ ran' = ran
        /\ issued' = issued + 1
        /\ UNCHANGED <<rows, file, tmp, fd, warned, queued, credit, refused, clean, doubled>>
    BY <1>1 DEF PreToolUse
  <2>. DEFINE f == [Idle EXCEPT !.pc = "readWarned", !.lines = <<[s |-> s, k |-> k]>>,
                                !.prior = IntentCount(Hydrate(file.lines), s, k)]
  <2>2. f \in Frame /\ Len(f.lines) = 1 /\ Len(f.mem) = 0
    <3>1. Hydrate(file.lines) \in Seq(Obs)
      BY <1>a, LastNTyped DEF Hydrate, Text
    <3>2. IntentCount(Hydrate(file.lines), s, k) \in Nat
      BY <3>1, CountTyped
    <3>3. "readWarned" \in Label /\ <<[s |-> s, k |-> k]>> \in Seq(Obs)
      BY LabelDef DEF PreLabel, Obs
    <3>. QED  BY <3>2, <3>3, IdleTyped DEF Frame
  <2>3. hook' = [hook EXCEPT ![h] = f] \/ hook' = hook
    BY <1>1 DEF PreToolUse
  <2>. HIDE DEF f
  <2>4. /\ hook' \in [Hook -> Frame]
        /\ hook'[h] = f \/ hook'[h] = hook[h]
        /\ \A x \in Hook : x # h => hook'[x] = hook[x]
    BY <1>a, <2>2, <2>3
  <2>5. ran' \in [Session -> Seq(Call)]
    BY <1>a, <2>1, AppendTyped
  <2>6. FramesKept
    <3>1. 0 <= Ring
      OBVIOUS
    <3>2. \A x \in Hook : hook'[x] = hook[x] \/ hook'[x] = f
      BY <2>4
    <3>3. \A x \in Hook : Len(hook'[x].mem) <= Ring
      BY <1>a, <2>2, <3>1, <3>2
    <3>4. \A x \in Hook : hook'[x].pc \in PreLabel => Len(hook'[x].lines) = 1
      BY <1>b, <2>2, <3>2 DEF PreFramed
    <3>. QED  BY <2>4, <3>3, <3>4 DEF FramesKept
  <2>. QED  BY <1>a, <2>1, <2>5, <2>6, PreStep
<1>2. ASSUME NEW h \in Hook, ReadWarned(h) PROVE SupervisionInv'
  <2>1. PICK seen \in {warned} \cup (IF MayFail("readWarned") THEN {{}} ELSE {}) :
            hook' = [hook EXCEPT ![h].pc = "event", ![h].seen = seen]
    BY <1>2 DEF ReadWarned
  <2>. DEFINE f == [hook[h] EXCEPT !.pc = "event", !.seen = seen]
  <2>2. seen \subseteq Obs /\ "event" \in Label
    BY <1>a, LabelDef DEF PreLabel
  <2>3. f \in Frame /\ f.lines = hook[h].lines /\ f.mem = hook[h].mem
    BY <1>a, <2>2 DEF Frame
  <2>4. hook' = [hook EXCEPT ![h] = f]
    BY <2>1
  <2>. HIDE DEF f
  <2>5. /\ hook' \in [Hook -> Frame] /\ hook'[h] = f
        /\ \A x \in Hook : x # h => hook'[x] = hook[x]
    BY <1>a, <2>3, <2>4
  <2>6. UNCHANGED <<rows, file, tmp, fd, warned, ran, queued, credit, refused, issued, clean, doubled>>
    BY <1>2 DEF ReadWarned
  <2>7. Len(hook[h].lines) = 1
    BY <1>2, <1>b DEF ReadWarned, At, PreFramed, PreLabel
  <2>8. FramesKept
    BY <1>a, <1>b, <2>3, <2>5, <2>7 DEF FramesKept, PreFramed
  <2>. QED  BY <1>a, <2>6, <2>8, PreStep
<1>3. ASSUME NEW h \in Hook, LogEvent(h) PROVE SupervisionInv'
  <2>1. PICK l \in {"reply", "mark"} : Goto(h, l)
    BY <1>3 DEF LogEvent
  <2>2. l \in Label /\ hook[h].pc \in PreLabel
    BY <1>3, LabelDef DEF PreLabel, LogEvent, At
  <2>3. /\ UNCHANGED <<rows, file, tmp, fd, warned, ran, queued, refused, issued, clean, doubled>>
        /\ credit' \in Nat
    BY <1>a, <1>3 DEF LogEvent, Log
  <2>. QED  BY <1>a, <2>1, <2>2, <2>3, GotoKeepsPre, PreStep
<1>4. ASSUME NEW h \in Hook, MarkWarned(h) PROVE SupervisionInv'
  <2>1. /\ Goto(h, "reply") /\ hook[h].pc \in PreLabel /\ "reply" \in Label
        /\ UNCHANGED <<rows, file, tmp, fd, ran, queued, credit, refused, issued, clean, doubled>>
        /\ warned' = warned \cup hook[h].seen \cup {Asked(h)} \/ warned' = warned
    BY <1>4, LabelDef DEF MarkWarned, At, PreLabel
  <2>2. Asked(h) \in Obs /\ hook[h].seen \subseteq Obs
    BY <1>a, <2>1, AskedTyped DEF Frame
  <2>3. warned' \subseteq Obs
    BY <1>a, <2>1, <2>2
  <2>. QED  BY <1>a, <2>1, <2>3, GotoKeepsPre, PreStep
<1>5. ASSUME NEW h \in Hook, Reply(h) PROVE SupervisionInv'
  <2>1. /\ Finish(h) /\ hook[h].pc \in PreLabel
        /\ UNCHANGED <<rows, file, tmp, fd, warned, queued, credit, issued, clean, doubled>>
        /\ \/ refused' = refused + 1 /\ ran' = ran
           \/ /\ refused' = refused
              /\ ran' = [ran EXCEPT ![Asked(h).s] = Append(@, Asked(h).k)]
    BY <1>5 DEF Reply, At, PreLabel
  <2>2. refused' \in Nat
    BY <1>a, <2>1
  <2>3. ran' \in [Session -> Seq(Call)]
    <3>1. Asked(h).s \in Session /\ Asked(h).k \in Call
      BY <2>1, AskedTyped
    <3>. QED  BY <1>a, <2>1, <3>1, AppendTyped
  <2>. QED  BY <1>a, <2>1, <2>2, <2>3, FinishKeepsPre, PreStep
<1>6. ASSUME NEW h \in Hook, NEW s \in Session, NEW n \in 1 .. Len(ran[s]), PostToolBatch(h, s, n)
      PROVE  SupervisionInv'
  <2>. DEFINE m == IF n <= MaxBatch THEN n ELSE MaxBatch
              batch == LinesOf(s, SubSeq(ran[s], 1, m))
              f == [Idle EXCEPT !.pc = "stat", !.lines = batch]
  <2>1. /\ \/ rows' = rows \o batch /\ hook' = [hook EXCEPT ![h] = f]
           \/ rows' = rows /\ hook' = hook
        /\ ran' = [ran EXCEPT ![s] = SubSeq(@, n + 1, Len(@))]
        /\ clean' \in BOOLEAN
        /\ UNCHANGED <<file, tmp, fd, warned, queued, credit, refused, issued, doubled>>
    BY <1>6 DEF PostToolBatch
  <2>2. ran[s] \in Seq(Call) /\ Len(ran[s]) \in Nat /\ n \in Nat
    BY <1>a
  <2>3. m \in Int /\ m \in 1 .. Len(ran[s])
    BY <2>2
  <2>. HIDE DEF m
  <2>4. batch \in Seq(Obs)
    <3>1. \A i \in 1 .. m : ran[s][i] \in Call
      BY <2>2, <2>3
    <3>2. SubSeq(ran[s], 1, m) \in Seq(Call)
      BY <2>3, <3>1, SubSeqProperties
    <3>. QED  BY <3>2, LinesTyped
  <2>5. SubSeq(ran[s], n + 1, Len(ran[s])) \in Seq(Call)
    <3>1. \A i \in n + 1 .. Len(ran[s]) : ran[s][i] \in Call
      BY <2>2
    <3>. QED  BY <2>2, <3>1, SubSeqProperties
  <2>6. f \in Frame /\ f.pc = "stat" /\ Len(f.mem) = 0
    BY <2>4, IdleTyped, LabelDef DEF Frame, CacheLabel
  <2>. HIDE DEF f, batch
  <2>7. rows' \in Seq(Obs)
    <3>1. rows \o batch \in Seq(Obs)
      BY <1>a, <2>4, ConcatProperties
    <3>. QED  BY <1>a, <2>1, <3>1
  <2>8. ran' \in [Session -> Seq(Call)]
    BY <1>a, <2>1, <2>5
  <2>9. FramesKept
    <3>1. /\ hook' \in [Hook -> Frame]
          /\ \A x \in Hook : hook'[x] = hook[x] \/ hook'[x] = f
      BY <1>a, <2>1, <2>6
    <3>a. 0 <= Ring
      OBVIOUS
    <3>2. \A x \in Hook : Len(hook'[x].mem) <= Ring
      BY <1>a, <2>6, <3>1, <3>a
    <3>3. \A x \in Hook : hook'[x].pc \in PreLabel => Len(hook'[x].lines) = 1
      BY <1>b, <2>6, <3>1 DEF PreFramed, PreLabel
    <3>. QED  BY <3>1, <3>2, <3>3 DEF FramesKept
  <2>10. TypeOK'
    BY <1>a, <2>1, <2>7, <2>8, <2>9 DEF TypeOK, FramesKept
  <2>11. PreFramed' /\ TmpOpen'
    BY <1>b, <2>1, <2>9 DEF FramesKept, PreFramed, TmpOpen
  <2>. QED  BY <2>10, <2>11 DEF SupervisionInv
<1>7. ASSUME NEW h \in Hook, Stat(h) PROVE SupervisionInv'
  <2>1. PICK l \in {"hydrate", "open"} : Goto(h, l)
    BY <1>7 DEF Stat
  <2>2. l \in Label /\ l \notin PreLabel
    BY LabelDef DEF CacheLabel, PreLabel
  <2>3. UNCHANGED <<rows, file, tmp, fd, warned, ran, queued, credit, refused, issued, clean, doubled>>
    BY <1>7 DEF Stat
  <2>. QED  BY <1>a, <2>1, <2>2, <2>3, GotoKeepsPre, PreStep
<1>8. ASSUME NEW h \in Hook, OpenCache(h) PROVE SupervisionInv'
  <2>1. /\ Goto(h, "append") /\ fd' = [fd EXCEPT ![h] = "file"]
        /\ UNCHANGED <<rows, file, tmp, warned, ran, queued, credit, refused, issued, clean, doubled>>
    BY <1>8 DEF OpenCache
  <2>2. "append" \in Label /\ "append" \notin PreLabel
    BY LabelDef DEF CacheLabel, PreLabel
  <2>3. FramesKept
    BY <2>1, <2>2, GotoKeepsPre
  <2>4. /\ fd' \in [Hook -> {"none", "file", "tmp", "gone"}]
        /\ \A x \in Hook : fd'[x] = "tmp" => tmp' # NoFile
    BY <1>a, <1>b, <2>1 DEF TmpOpen
  <2>. QED  BY <1>a, <2>1, <2>3, <2>4, CacheStep
<1>9. ASSUME NEW h \in Hook, AppendLines(h) PROVE SupervisionInv'
  <2>1. /\ Goto(h, "enqueue") /\ fd' = [fd EXCEPT ![h] = "none"]
        /\ file' = Extend(file, hook[h].lines) \/ file' = file
        /\ UNCHANGED <<rows, tmp, warned, ran, queued, credit, refused, issued, doubled>>
        /\ clean' \in BOOLEAN
    BY <1>9, <1>a DEF AppendLines, CacheDone
  <2>2. "enqueue" \in Label /\ "enqueue" \notin PreLabel
    BY LabelDef DEF PreLabel
  <2>3. FramesKept
    BY <2>1, <2>2, GotoKeepsPre
  <2>4. /\ fd' \in [Hook -> {"none", "file", "tmp", "gone"}]
        /\ \A x \in Hook : fd'[x] = "tmp" => tmp' # NoFile
    BY <1>a, <1>b, <2>1 DEF TmpOpen
  <2>5. file' \in Text
    <3>1. hook[h].lines \in Seq(Obs)
      BY <1>a DEF Frame
    <3>2. Extend(file, hook[h].lines) \in Text
      BY <1>a, <3>1, ExtendTyped
    <3>. QED  BY <1>a, <2>1, <3>2
  <2>. QED  BY <1>a, <2>1, <2>3, <2>4, <2>5, CacheStep
<1>10. ASSUME NEW h \in Hook, HydrateCache(h) PROVE SupervisionInv'
  <2>. DEFINE ring == RingOf(h)
              f == [hook[h] EXCEPT !.pc = "truncate", !.mem = ring]
  <2>1. /\ hook' = [hook EXCEPT ![h] = f]
        /\ UNCHANGED <<rows, file, tmp, fd, warned, ran, queued, credit, refused, issued, clean, doubled>>
    BY <1>10 DEF HydrateCache
  <2>2. ring \in Seq(Obs) /\ Len(ring) <= Ring
    <3>1. Hydrate(file.lines) \in Seq(Obs) /\ hook[h].lines \in Seq(Obs)
      BY <1>a, LastNTyped DEF Frame, Hydrate, Text
    <3>2. Hydrate(file.lines) \o hook[h].lines \in Seq(Obs)
      BY <3>1, ConcatProperties
    <3>. QED  BY <3>2, LastNTyped DEF RingOf, Hydrate
  <2>. HIDE DEF ring
  <2>3. f \in Frame /\ f.pc = "truncate" /\ f.mem = ring
    BY <1>a, <2>2, LabelDef DEF Frame, CacheLabel
  <2>. HIDE DEF f
  <2>4. FramesKept
    <3>1. /\ hook' \in [Hook -> Frame] /\ hook'[h] = f
          /\ \A x \in Hook : x # h => hook'[x] = hook[x]
      BY <1>a, <2>1, <2>3
    <3>2. \A x \in Hook : Len(hook'[x].mem) <= Ring
      BY <1>a, <2>2, <2>3, <3>1
    <3>3. \A x \in Hook : hook'[x].pc \in PreLabel => Len(hook'[x].lines) = 1
      BY <1>b, <2>3, <3>1 DEF PreFramed, PreLabel
    <3>. QED  BY <3>1, <3>2, <3>3 DEF FramesKept
  <2>. QED  BY <1>a, <2>1, <2>4, PreStep
<1>11. ASSUME NEW h \in Hook, Truncate(h) PROVE SupervisionInv'
  <2>1. /\ UNCHANGED <<rows, file, warned, ran, queued, credit, refused, issued, doubled>>
        /\ clean' \in BOOLEAN
        /\ \/ tmp' = Blank /\ fd' = [fd EXCEPT ![h] = "tmp"]
           \/ tmp' = tmp /\ fd' = fd
    BY <1>11, <1>a DEF Truncate
  <2>2. PICK l \in {"rewrite", "enqueue"} : Goto(h, l)
    BY <1>11 DEF Truncate, CacheDone
  <2>3. l \in Label /\ l \notin PreLabel
    BY LabelDef DEF CacheLabel, PreLabel
  <2>4. FramesKept
    BY <2>2, <2>3, GotoKeepsPre
  <2>5. Blank \in Text /\ Blank # NoFile
    BY BlankTyped, NoFileAssumption
  <2>6. /\ fd' \in [Hook -> {"none", "file", "tmp", "gone"}]
        /\ tmp' \in Text \cup {NoFile}
        /\ \A x \in Hook : fd'[x] = "tmp" => tmp' # NoFile
    BY <1>a, <1>b, <2>1, <2>5 DEF TmpOpen
  <2>. QED  BY <1>a, <2>1, <2>4, <2>6, CacheStep
<1>12. ASSUME NEW h \in Hook, Rewrite(h) PROVE SupervisionInv'
  <2>1. /\ Goto(h, "rename") /\ fd' = [fd EXCEPT ![h] = "none"]
        /\ file' = IF fd[h] = "file" THEN Overwrite(hook[h].mem, file) ELSE file
        /\ tmp' = IF fd[h] = "tmp" THEN Overwrite(hook[h].mem, tmp) ELSE tmp
        /\ UNCHANGED <<rows, warned, ran, queued, credit, refused, issued, clean>>
    BY <1>12 DEF Rewrite
  <2>2. "rename" \in Label /\ "rename" \notin PreLabel
    BY LabelDef DEF CacheLabel, PreLabel
  <2>3. FramesKept
    BY <2>1, <2>2, GotoKeepsPre
  <2>4. hook[h].mem \in Seq(Obs)
    BY <1>a DEF Frame
  <2>5. file' \in Text
    BY <1>a, <2>1, <2>4, OverwriteTyped
  <2>6. fd[h] = "tmp" => tmp' \in Text
    BY <1>a, <1>b, <2>1, <2>4, OverwriteTyped DEF TmpOpen
  <2>7. /\ tmp' \in Text \cup {NoFile}
        /\ fd[h] = "tmp" => tmp' # NoFile
    BY <1>a, <2>1, <2>6, NoFileAssumption
  <2>9. doubled' \in Seq(Obs)
    BY <1>a, <1>12, RewriteDoubles
  <2>8. /\ fd' \in [Hook -> {"none", "file", "tmp", "gone"}]
        /\ \A x \in Hook : fd'[x] = "tmp" => tmp' # NoFile
    BY <1>a, <1>b, <2>1, <2>7 DEF TmpOpen
  <2>. QED  BY <1>a, <2>1, <2>3, <2>5, <2>7, <2>8, <2>9, CacheStep
<1>13. ASSUME NEW h \in Hook, Rename(h) PROVE SupervisionInv'
  <2>1. /\ Goto(h, "enqueue")
        /\ UNCHANGED <<rows, warned, ran, queued, credit, refused, issued, clean, doubled>>
        /\ IF tmp = NoFile
           THEN UNCHANGED <<file, tmp, fd>>
           ELSE /\ file' = tmp /\ tmp' = NoFile
                /\ fd' = [x \in Hook |-> CASE fd[x] = "tmp"  -> "file"
                                           [] fd[x] = "file" -> "gone"
                                           [] OTHER          -> fd[x]]
    BY <1>13 DEF Rename, CacheDone
  <2>2. "enqueue" \in Label /\ "enqueue" \notin PreLabel
    BY LabelDef DEF PreLabel
  <2>3. FramesKept
    BY <2>1, <2>2, GotoKeepsPre
  <2>4. file' \in Text /\ tmp' \in Text \cup {NoFile}
    BY <1>a, <2>1
  <2>5. /\ fd' \in [Hook -> {"none", "file", "tmp", "gone"}]
        /\ \A x \in Hook : fd'[x] = "tmp" => tmp' # NoFile
    BY <1>a, <1>b, <2>1 DEF TmpOpen
  <2>. QED  BY <1>a, <2>1, <2>3, <2>4, <2>5, CacheStep
<1>14. ASSUME NEW h \in Hook, Enqueue(h) PROVE SupervisionInv'
  <2>1. /\ Finish(h) /\ queued' \subseteq queued \cup {hook[h].lines[i].k : i \in DOMAIN hook[h].lines}
        /\ UNCHANGED <<rows, file, tmp, fd, warned, ran, credit, refused, issued, clean, doubled>>
    BY <1>14 DEF Enqueue
  <2>2. \A i \in DOMAIN hook[h].lines : hook[h].lines[i].k \in Call
    <3>1. hook[h].lines \in Seq(Obs)
      BY <1>a DEF Frame
    <3>2. \A i \in DOMAIN hook[h].lines : hook[h].lines[i] \in Obs
      BY <3>1
    <3>. QED  BY <3>2 DEF Obs
  <2>3. queued' \subseteq Call
    BY <1>a, <2>1, <2>2
  <2>. QED  BY <1>a, <2>1, <2>3, FinishKeepsPre, PreStep
<1>15. ASSUME NEW h \in Hook, Die(h) PROVE SupervisionInv'
  <2>1. /\ Goto(h, "dead") /\ fd' = [fd EXCEPT ![h] = "none"]
        /\ UNCHANGED <<rows, file, tmp, warned, queued, credit, refused, issued, doubled>>
        /\ \/ ran' = ran
           \/ /\ hook[h].pc \in PreLabel
              /\ ran' = [ran EXCEPT ![Asked(h).s] = Append(@, Asked(h).k)]
        /\ clean' \in BOOLEAN
    BY <1>15, <1>a DEF Die, Goto
  <2>2. "dead" \in Label /\ "dead" \notin PreLabel
    BY LabelDef DEF PreLabel
  <2>3. FramesKept
    BY <2>1, <2>2, GotoKeepsPre
  <2>4. ran' \in [Session -> Seq(Call)]
    <3>1. CASE hook[h].pc \in PreLabel
      <4>1. Asked(h).s \in Session /\ Asked(h).k \in Call
        BY <3>1, AskedTyped
      <4>. QED  BY <1>a, <2>1, <4>1, AppendTyped
    <3>. QED  BY <1>a, <2>1, <3>1
  <2>5. TypeOK'
    BY <1>a, <2>1, <2>3, <2>4 DEF TypeOK, FramesKept
  <2>6. PreFramed' /\ TmpOpen'
    BY <1>a, <1>b, <2>1, <2>3 DEF FramesKept, PreFramed, TmpOpen
  <2>. QED  BY <2>5, <2>6 DEF SupervisionInv
<1>16. CASE UNCHANGED vars
  BY <1>16 DEF vars, SupervisionInv, TypeOK, PreFramed, TmpOpen
<1>. QED
  BY <1>1, <1>2, <1>3, <1>4, <1>5, <1>6, <1>7, <1>8, <1>9, <1>10, <1>11, <1>12, <1>13, <1>14,
     <1>15, <1>16
  DEF Next, Step

LEMMA SupervisionInvariant == Spec => []SupervisionInv
BY InitTyped, StepTyped, PTL DEF Spec

(* The type invariant of the supervisor: capture-pre-tool-use.ts,           *)
(* capture-tool-use.ts and recent-tool-cache.ts, for any number of hooks.   *)
THEOREM SupervisionTyped == Spec => []TypeOK
<1>1. SupervisionInv => TypeOK
  BY DEF SupervisionInv
<1>. QED  BY <1>1, SupervisionInvariant, PTL

-----------------------------------------------------------------------------
(* Every credited block is a refusal *)

Answering == {"mark", "reply", "dead"}
Owed == {h \in Hook : hook[h].pc \in Answering /\ Blocked(h)}

LEMMA OwedCounts == IsFiniteSet(Owed) /\ Cardinality(Owed) \in Nat
<1>1. Owed \in SUBSET Hook
  BY DEF Owed
<1>2. IsFiniteSet(Owed)
  BY <1>1, HookAssumption, FS_Subset
<1>. QED  BY <1>2, FS_CardinalityType

LEMMA OwedCountsNext == IsFiniteSet(Owed') /\ Cardinality(Owed') \in Nat
<1>1. Owed' \in SUBSET Hook
  BY DEF Owed
<1>2. IsFiniteSet(Owed')
  BY <1>1, HookAssumption, FS_Subset
<1>. QED  BY <1>2, FS_CardinalityType

\* Whether a hook blocks depends on what it asks and what it read
LEMMA BlockedKept ==
    ASSUME NEW h \in Hook, hook'[h].lines = hook[h].lines, hook'[h].seen = hook[h].seen,
           hook'[h].prior = hook[h].prior
    PROVE  Blocked(h)' <=> Blocked(h)
BY DEF Blocked, StrictBlock, EscalationBlock, IntentBlock, AlreadyWarned, Asked

\* The hooks a step does not run keep their debt
LEMMA OthersOwe ==
    ASSUME NEW h \in Hook, \A x \in Hook : x # h => hook'[x] = hook[x]
    PROVE  \A x \in Hook : x # h => (x \in Owed' <=> x \in Owed)
<1>. SUFFICES ASSUME NEW x \in Hook, x # h PROVE x \in Owed' <=> x \in Owed
  OBVIOUS
<1>1. hook'[x] = hook[x]
  OBVIOUS
<1>2. Blocked(x)' <=> Blocked(x)
  BY <1>1, BlockedKept
<1>. QED  BY <1>1, <1>2 DEF Owed

LEMMA SavingsKept ==
    ASSUME SupervisionInv, SavingsAreReal, Owed \subseteq Owed',
           credit' = credit, refused' = refused
    PROVE  SavingsAreReal'
<1>1. Cardinality(Owed) <= Cardinality(Owed')
  BY OwedCountsNext, FS_Subset
<1>2. credit \in Nat /\ refused \in Nat
  BY DEF SupervisionInv, TypeOK
<1>3. credit <= refused + Cardinality(Owed)
  BY DEF SavingsAreReal, Owed, Answering
<1>4. credit' <= refused' + Cardinality(Owed')
  BY <1>1, <1>2, <1>3, OwedCounts, OwedCountsNext
<1>. QED  BY <1>4 DEF SavingsAreReal, Owed, Answering

\* A hook that answers nothing owes nothing, before and after its step
LEMMA SavingsElsewhere ==
    ASSUME SupervisionInv, SavingsAreReal, NEW h \in Hook, hook[h].pc \notin Answering,
           \A x \in Hook : x # h => hook'[x] = hook[x],
           credit' = credit, refused' = refused
    PROVE  SavingsAreReal'
<1>1. h \notin Owed
  BY DEF Owed
<1>2. \A x \in Hook : x # h => (x \in Owed' <=> x \in Owed)
  BY OthersOwe
<1>3. Owed \subseteq Owed'
  BY <1>1, <1>2 DEF Owed
<1>. QED  BY <1>3, SavingsKept

\* A hook that goes from one answering label to another keeps its debt
LEMMA SavingsMove ==
    ASSUME SupervisionInv, SavingsAreReal, NEW h \in Hook, NEW l \in Answering \cap Label,
           Goto(h, l), credit' = credit, refused' = refused
    PROVE  SavingsAreReal'
<1>1. /\ \A x \in Hook : /\ hook'[x].lines = hook[x].lines /\ hook'[x].seen = hook[x].seen
                         /\ hook'[x].prior = hook[x].prior
                         /\ hook'[x].pc = IF x = h THEN l ELSE hook[x].pc
  BY GotoMoves DEF SupervisionInv, TypeOK
<1>2. \A x \in Hook : Blocked(x)' <=> Blocked(x)
  BY <1>1, BlockedKept
<1>3. Owed \subseteq Owed'
  BY <1>1, <1>2 DEF Owed
<1>. QED  BY <1>3, SavingsKept

\* Any label change: the other frames stay
LEMMA GotoFrame ==
    ASSUME SupervisionInv, NEW h \in Hook, NEW l, Goto(h, l)
    PROVE  \A x \in Hook : x # h => hook'[x] = hook[x]
BY DEF Goto, SupervisionInv, TypeOK

LEMMA SavingsStep == SupervisionInv /\ SavingsAreReal /\ [Next]_vars => SavingsAreReal'
<1>. SUFFICES ASSUME SupervisionInv, SavingsAreReal, [Next]_vars PROVE SavingsAreReal'
  OBVIOUS
<1>a. hook \in [Hook -> Frame] /\ credit \in Nat /\ refused \in Nat
  BY DEF SupervisionInv, TypeOK
<1>1. ASSUME NEW h \in Hook, NEW s \in Session, NEW k \in Call, PreToolUse(h, s, k)
      PROVE  SavingsAreReal'
  <2>1. /\ hook[h].pc \notin Answering /\ credit' = credit /\ refused' = refused
        /\ \A x \in Hook : x # h => hook'[x] = hook[x]
    BY <1>a, <1>1 DEF PreToolUse, At, Answering
  <2>. QED  BY <2>1, SavingsElsewhere
<1>2. ASSUME NEW h \in Hook, ReadWarned(h) PROVE SavingsAreReal'
  <2>1. /\ hook[h].pc \notin Answering /\ credit' = credit /\ refused' = refused
        /\ \A x \in Hook : x # h => hook'[x] = hook[x]
    BY <1>a, <1>2 DEF ReadWarned, At, Answering
  <2>. QED  BY <2>1, SavingsElsewhere
<1>3. ASSUME NEW h \in Hook, LogEvent(h) PROVE SavingsAreReal'
  <2>1. PICK l \in {"reply", "mark"} : Goto(h, l)
    BY <1>3 DEF LogEvent
  <2>2. l \in Label /\ l \in Answering /\ hook[h].pc = "event" /\ "event" \notin Answering
    BY <1>3, LabelDef DEF PreLabel, LogEvent, At, Answering
  <2>3. /\ \A x \in Hook : /\ hook'[x].lines = hook[x].lines /\ hook'[x].seen = hook[x].seen
                           /\ hook'[x].prior = hook[x].prior
                           /\ hook'[x].pc = IF x = h THEN l ELSE hook[x].pc
    BY <1>a, <2>1, <2>2, GotoMoves
  <2>4. \A x \in Hook : Blocked(x)' <=> Blocked(x)
    BY <2>3, BlockedKept
  <2>5. h \notin Owed /\ Owed' = IF Blocked(h) THEN Owed \cup {h} ELSE Owed
    BY <2>2, <2>3, <2>4 DEF Owed
  <2>6. refused' = refused /\ (credit' = credit \/ (Blocked(h) /\ credit' = credit + 1))
    BY <1>3 DEF LogEvent, Log
  <2>7. Cardinality(Owed \cup {h}) = Cardinality(Owed) + 1
    BY <2>5, OwedCounts, FS_AddElement
  <2>8. credit <= refused + Cardinality(Owed)
    BY DEF SavingsAreReal, Owed, Answering
  <2>9. credit' <= refused' + Cardinality(Owed')
    <3>1. CASE Blocked(h)
      BY <1>a, <2>5, <2>6, <2>7, <2>8, <3>1, OwedCounts
    <3>2. CASE ~Blocked(h)
      BY <2>5, <2>6, <2>8, <3>2
    <3>. QED  BY <3>1, <3>2
  <2>. QED  BY <2>9 DEF SavingsAreReal, Owed, Answering
<1>4. ASSUME NEW h \in Hook, MarkWarned(h) PROVE SavingsAreReal'
  <2>1. Goto(h, "reply") /\ credit' = credit /\ refused' = refused
    BY <1>4 DEF MarkWarned
  <2>2. "reply" \in Answering \cap Label
    BY LabelDef DEF Answering, PreLabel
  <2>. QED  BY <2>1, <2>2, SavingsMove
<1>5. ASSUME NEW h \in Hook, Reply(h) PROVE SavingsAreReal'
  <2>1. /\ Finish(h) /\ hook[h].pc = "reply" /\ credit' = credit
        /\ refused' = IF Blocked(h) THEN refused + 1 ELSE refused
    BY <1>5 DEF Reply, At
  <2>2. hook'[h].pc = "idle" /\ \A x \in Hook : x # h => hook'[x] = hook[x]
    BY <1>a, <2>1, FinishMoves
  <2>3. \A x \in Hook : x # h => (x \in Owed' <=> x \in Owed)
    BY <2>2, OthersOwe
  <2>4. h \notin Owed' /\ (h \in Owed <=> Blocked(h))
    BY <2>1, <2>2 DEF Owed, Answering
  <2>5. Owed' = Owed \ {h}
    BY <2>3, <2>4 DEF Owed
  <2>6. Cardinality(Owed \ {h}) = IF h \in Owed THEN Cardinality(Owed) - 1 ELSE Cardinality(Owed)
    BY OwedCounts, FS_RemoveElement
  <2>7. credit <= refused + Cardinality(Owed)
    BY DEF SavingsAreReal, Owed, Answering
  <2>8. credit' <= refused' + Cardinality(Owed')
    <3>1. CASE Blocked(h)
      BY <1>a, <2>1, <2>4, <2>5, <2>6, <2>7, <3>1, OwedCounts
    <3>2. CASE ~Blocked(h)
      BY <2>1, <2>4, <2>5, <2>6, <2>7, <3>2
    <3>. QED  BY <3>1, <3>2
  <2>. QED  BY <2>8 DEF SavingsAreReal, Owed, Answering
<1>6. ASSUME NEW h \in Hook, NEW s \in Session, NEW n \in 1 .. Len(ran[s]), PostToolBatch(h, s, n)
      PROVE  SavingsAreReal'
  <2>1. /\ hook[h].pc \notin Answering /\ credit' = credit /\ refused' = refused
        /\ \A x \in Hook : x # h => hook'[x] = hook[x]
    BY <1>a, <1>6 DEF PostToolBatch, At, Answering
  <2>. QED  BY <2>1, SavingsElsewhere
<1>7. ASSUME NEW h \in Hook,
             Stat(h) \/ OpenCache(h) \/ AppendLines(h) \/ Truncate(h) \/ Rewrite(h) \/ Rename(h)
      PROVE  SavingsAreReal'
  <2>1. hook[h].pc \notin Answering /\ credit' = credit /\ refused' = refused
    BY <1>7 DEF Stat, OpenCache, AppendLines, Truncate, Rewrite, Rename, At, Answering
  <2>2. \E l : Goto(h, l)
    BY <1>7 DEF Stat, OpenCache, AppendLines, Truncate, Rewrite, Rename, CacheDone
  <2>3. \A x \in Hook : x # h => hook'[x] = hook[x]
    BY <2>2, GotoFrame
  <2>. QED  BY <2>1, <2>3, SavingsElsewhere
<1>8. ASSUME NEW h \in Hook, HydrateCache(h) PROVE SavingsAreReal'
  <2>1. /\ hook[h].pc \notin Answering /\ credit' = credit /\ refused' = refused
        /\ \A x \in Hook : x # h => hook'[x] = hook[x]
    BY <1>a, <1>8 DEF HydrateCache, At, Answering
  <2>. QED  BY <2>1, SavingsElsewhere
<1>9. ASSUME NEW h \in Hook, Enqueue(h) PROVE SavingsAreReal'
  <2>1. /\ hook[h].pc \notin Answering /\ credit' = credit /\ refused' = refused
        /\ \A x \in Hook : x # h => hook'[x] = hook[x]
    BY <1>a, <1>9 DEF Enqueue, At, Answering, Finish
  <2>. QED  BY <2>1, SavingsElsewhere
<1>10. ASSUME NEW h \in Hook, Die(h) PROVE SavingsAreReal'
  <2>1. Goto(h, "dead") /\ credit' = credit /\ refused' = refused
    BY <1>10 DEF Die, Goto
  <2>2. "dead" \in Answering \cap Label
    BY LabelDef DEF Answering
  <2>. QED  BY <2>1, <2>2, SavingsMove
<1>11. CASE UNCHANGED vars
  BY <1>11 DEF vars, SavingsAreReal, Blocked, StrictBlock, EscalationBlock, IntentBlock,
     AlreadyWarned, Asked
<1>. QED
  BY <1>1, <1>2, <1>3, <1>4, <1>5, <1>6, <1>7, <1>8, <1>9, <1>10, <1>11 DEF Next, Step

LEMMA SavingsInit == Init => SavingsAreReal
<1>. SUFFICES ASSUME Init PROVE SavingsAreReal
  OBVIOUS
<1>1. credit = 0 /\ refused = 0
  BY DEF Init
<1>2. credit <= refused + Cardinality(Owed)
  BY <1>1, OwedCounts
<1>. QED  BY <1>2 DEF SavingsAreReal, Owed, Answering

(* However hooks overlap and wherever they die, the avoided calls the       *)
(* analytics report never exceed the calls that were refused, those a hook  *)
(* is about to refuse, and those whose hook was killed before it answered   *)
(* (appendAnalyticsEvent runs before the envelope is printed).              *)
THEOREM CreditIsEarned == Spec => []SavingsAreReal
BY SavingsInit, SavingsStep, SupervisionInvariant, PTL DEF Spec

-----------------------------------------------------------------------------
(* Every recorded write reaches the indexer queue *)

Carrying == CacheLabel \cup {"enqueue", "dead"}

LEMMA WritesKept ==
    ASSUME WritesQueued, UNCHANGED rows, queued \subseteq queued',
           \A x \in Hook : hook[x].pc \in Carrying =>
               hook'[x].pc \in Carrying /\ hook'[x].lines = hook[x].lines
    PROVE  WritesQueued'
BY DEF WritesQueued, Carrying

\* A label change among the carrying ones, or by a hook that carries nothing
LEMMA WritesMove ==
    ASSUME SupervisionInv, WritesQueued, NEW h \in Hook, NEW l \in Label, Goto(h, l),
           hook[h].pc \in Carrying => l \in Carrying,
           UNCHANGED <<rows, queued>>
    PROVE  WritesQueued'
<1>1. \A x \in Hook : /\ hook'[x].lines = hook[x].lines
                      /\ hook'[x].pc = IF x = h THEN l ELSE hook[x].pc
  BY GotoMoves DEF SupervisionInv, TypeOK
<1>. QED  BY <1>1, WritesKept

LEMMA WritesElsewhere ==
    ASSUME WritesQueued, NEW h \in Hook, hook[h].pc \notin Carrying,
           \A x \in Hook : x # h => hook'[x] = hook[x], UNCHANGED <<rows, queued>>
    PROVE  WritesQueued'
BY WritesKept

LEMMA WritesStep == SupervisionInv /\ WritesQueued /\ [Next]_vars => WritesQueued'
<1>. SUFFICES ASSUME SupervisionInv, WritesQueued, [Next]_vars PROVE WritesQueued'
  OBVIOUS
<1>a. hook \in [Hook -> Frame] /\ rows \in Seq(Obs) /\ ran \in [Session -> Seq(Call)]
  BY DEF SupervisionInv, TypeOK
<1>1. ASSUME NEW h \in Hook, NEW s \in Session, NEW k \in Call, PreToolUse(h, s, k)
      PROVE  WritesQueued'
  <2>1. /\ hook[h].pc \notin Carrying /\ UNCHANGED <<rows, queued>>
        /\ \A x \in Hook : x # h => hook'[x] = hook[x]
    BY <1>a, <1>1 DEF PreToolUse, At, Carrying, CacheLabel
  <2>. QED  BY <2>1, WritesElsewhere
<1>2. ASSUME NEW h \in Hook, ReadWarned(h) \/ LogEvent(h) \/ MarkWarned(h) \/ Reply(h)
      PROVE  WritesQueued'
  <2>1. hook[h].pc \notin Carrying /\ UNCHANGED <<rows, queued>>
    BY <1>2 DEF ReadWarned, LogEvent, MarkWarned, Reply, At, Carrying, CacheLabel
  <2>2. \A x \in Hook : x # h => hook'[x] = hook[x]
    BY <1>a, <1>2 DEF ReadWarned, LogEvent, MarkWarned, Reply, Goto, Finish
  <2>. QED  BY <2>1, <2>2, WritesElsewhere
<1>3. ASSUME NEW h \in Hook, NEW s \in Session, NEW n \in 1 .. Len(ran[s]), PostToolBatch(h, s, n)
      PROVE  WritesQueued'
  <2>. DEFINE m == IF n <= MaxBatch THEN n ELSE MaxBatch
              batch == LinesOf(s, SubSeq(ran[s], 1, m))
              f == [Idle EXCEPT !.pc = "stat", !.lines = batch]
  <2>1. /\ \/ rows' = rows \o batch /\ hook' = [hook EXCEPT ![h] = f]
           \/ rows' = rows /\ hook' = hook
        /\ queued' = queued /\ hook[h].pc = "idle"
    BY <1>3 DEF PostToolBatch, At
  <2>2. hook[h].pc \notin Carrying /\ "stat" \in Carrying
    BY <2>1 DEF Carrying, CacheLabel
  <2>3. ran[s] \in Seq(Call) /\ Len(ran[s]) \in Nat /\ n \in Nat
    BY <1>a
  <2>4. m \in Int /\ m \in 1 .. Len(ran[s])
    BY <2>3, SizeAssumption
  <2>. HIDE DEF m
  <2>5. batch \in Seq(Obs)
    <3>1. \A i \in 1 .. m : ran[s][i] \in Call
      BY <2>3, <2>4
    <3>2. SubSeq(ran[s], 1, m) \in Seq(Call)
      BY <2>4, <3>1, SubSeqProperties
    <3>. QED  BY <3>2, LinesTyped
  <2>6. f.pc = "stat" /\ f.lines = batch
    BY DEF Idle
  <2>. HIDE DEF f, batch
  <2>7. CASE rows' = rows /\ hook' = hook
    BY <2>1, <2>7, WritesKept
  <2>8. CASE rows' = rows \o batch /\ hook' = [hook EXCEPT ![h] = f]
    <3>1. hook'[h] = f /\ \A x \in Hook : x # h => hook'[x] = hook[x]
      BY <1>a, <2>8
    <3>2. /\ Len(rows') = Len(rows) + Len(batch)
          /\ \A i \in 1 .. Len(rows) + Len(batch) :
                 rows'[i] = IF i <= Len(rows) THEN rows[i] ELSE batch[i - Len(rows)]
      BY <1>a, <2>5, <2>8, ConcatProperties
    <3>3. Len(rows) \in Nat /\ Len(batch) \in Nat /\ rows' \in Seq(Obs)
      <4>1. rows \o batch \in Seq(Obs)
        BY <1>a, <2>5, ConcatProperties
      <4>. QED  BY <1>a, <2>5, <2>8, <4>1
    <3>. SUFFICES ASSUME "enqueue" \notin Failing, NEW i \in DOMAIN rows',
                         FamilyOf[rows'[i].k] \in WriteLike
                  PROVE  \/ rows'[i].k \in queued'
                         \/ \E x \in Hook : /\ hook'[x].pc \in Carrying
                                            /\ \E j \in DOMAIN hook'[x].lines :
                                                   hook'[x].lines[j] = rows'[i]
      BY DEF WritesQueued, Carrying
    <3>4. i \in 1 .. Len(rows) + Len(batch)
      BY <3>2, <3>3
    <3>5. CASE i <= Len(rows)
      <4>1. i \in DOMAIN rows /\ rows'[i] = rows[i]
        BY <1>a, <3>2, <3>3, <3>4, <3>5
      <4>2. \/ rows[i].k \in queued
            \/ \E x \in Hook : /\ hook[x].pc \in Carrying
                               /\ \E j \in DOMAIN hook[x].lines : hook[x].lines[j] = rows[i]
        BY <4>1 DEF WritesQueued, Carrying
      <4>. QED  BY <2>1, <2>2, <3>1, <4>1, <4>2
    <3>6. CASE i > Len(rows)
      <4>1. i - Len(rows) \in 1 .. Len(batch) /\ rows'[i] = batch[i - Len(rows)]
        BY <3>2, <3>3, <3>4, <3>6
      <4>2. i - Len(rows) \in DOMAIN batch
        BY <2>5, <4>1
      <4>. QED  BY <2>2, <2>6, <3>1, <4>1, <4>2
    <3>. QED  BY <3>3, <3>4, <3>5, <3>6
  <2>. QED  BY <2>1, <2>7, <2>8
<1>4. ASSUME NEW h \in Hook,
             Stat(h) \/ OpenCache(h) \/ AppendLines(h) \/ Truncate(h) \/ Rewrite(h) \/ Rename(h)
      PROVE  WritesQueued'
  <2>1. UNCHANGED <<rows, queued>>
    BY <1>4 DEF Stat, OpenCache, AppendLines, Truncate, Rewrite, Rename
  <2>2. PICK l \in CacheLabel \cup {"enqueue"} : Goto(h, l)
    BY <1>4 DEF Stat, OpenCache, AppendLines, Truncate, Rewrite, Rename, CacheDone, CacheLabel
  <2>3. l \in Label /\ l \in Carrying
    BY LabelDef DEF Carrying
  <2>. QED  BY <2>1, <2>2, <2>3, WritesMove
<1>5. ASSUME NEW h \in Hook, HydrateCache(h) PROVE WritesQueued'
  <2>. DEFINE f == [hook[h] EXCEPT !.pc = "truncate", !.mem = RingOf(h)]
  <2>1. hook' = [hook EXCEPT ![h] = f] /\ UNCHANGED <<rows, queued>>
    BY <1>5 DEF HydrateCache
  <2>2. f.pc \in Carrying /\ f.lines = hook[h].lines
    BY <1>a DEF Frame, Carrying, CacheLabel
  <2>. HIDE DEF f
  <2>3. \A x \in Hook : IF x = h THEN hook'[x] = f ELSE hook'[x] = hook[x]
    BY <1>a, <2>1
  <2>. QED  BY <2>1, <2>2, <2>3, WritesKept
<1>6. ASSUME NEW h \in Hook, Enqueue(h) PROVE WritesQueued'
  <2>. DEFINE written == {hook[h].lines[i].k : i \in DOMAIN hook[h].lines}
  <2>1. /\ Finish(h) /\ rows' = rows
        /\ \/ queued' = queued \cup {k \in written : FamilyOf[k] \in WriteLike}
           \/ "enqueue" \in Failing
    BY <1>6 DEF Enqueue, MayFail
  <2>2. \A x \in Hook : x # h => hook'[x] = hook[x]
    BY <1>a, <2>1, FinishMoves
  <2>. SUFFICES ASSUME "enqueue" \notin Failing, NEW i \in DOMAIN rows,
                       FamilyOf[rows[i].k] \in WriteLike
                PROVE  \/ rows[i].k \in queued'
                       \/ \E x \in Hook : /\ hook'[x].pc \in Carrying
                                          /\ \E j \in DOMAIN hook'[x].lines :
                                                 hook'[x].lines[j] = rows[i]
    BY <2>1 DEF WritesQueued, Carrying
  <2>3. CASE rows[i].k \in queued
    BY <2>1, <2>3
  <2>4. ASSUME NEW x \in Hook, hook[x].pc \in Carrying, NEW j \in DOMAIN hook[x].lines,
               hook[x].lines[j] = rows[i]
        PROVE  \/ rows[i].k \in queued'
               \/ \E y \in Hook : /\ hook'[y].pc \in Carrying
                                  /\ \E n \in DOMAIN hook'[y].lines :
                                         hook'[y].lines[n] = rows[i]
    <3>1. CASE x = h
      <4>1. rows[i].k \in written
        BY <2>4, <3>1
      <4>. QED  BY <2>1, <4>1
    <3>2. CASE x # h
      BY <2>2, <2>4, <3>2
    <3>. QED  BY <3>1, <3>2
  <2>. QED  BY <2>3, <2>4 DEF WritesQueued, Carrying
<1>7. ASSUME NEW h \in Hook, Die(h) PROVE WritesQueued'
  <2>1. Goto(h, "dead") /\ UNCHANGED <<rows, queued>>
    BY <1>7 DEF Die, Goto
  <2>2. "dead" \in Label /\ "dead" \in Carrying
    BY LabelDef DEF Carrying
  <2>. QED  BY <2>1, <2>2, WritesMove
<1>8. CASE UNCHANGED vars
  BY <1>8 DEF vars, WritesQueued
<1>. QED
  BY <1>1, <1>2, <1>3, <1>4, <1>5, <1>6, <1>7, <1>8 DEF Next, Step

(* Unless a queue statement fails, an edit or write the database recorded   *)
(* is queued for the indexer whatever happens to the warm cache, or its     *)
(* hook is still on the way there, or was killed (capture-tool-use.ts).     *)
THEOREM WritesAreQueued == Spec => []WritesQueued
<1>1. Init => WritesQueued
  BY DEF Init, WritesQueued
<1>. QED  BY <1>1, WritesStep, SupervisionInvariant, PTL DEF Spec

-----------------------------------------------------------------------------
(* The cache.  What LastN and Overwrite return, entry by entry. *)

Gap(n, q) == IF Len(q) <= n THEN 0 ELSE Len(q) - n

LEMMA LastNIs ==
    ASSUME NEW S, NEW n \in Nat, NEW q \in Seq(S)
    PROVE  /\ LastN(n, q) \in Seq(S) /\ Gap(n, q) \in Nat
           /\ Len(LastN(n, q)) = Len(q) - Gap(n, q)
           /\ \A i \in 1 .. Len(q) - Gap(n, q) : LastN(n, q)[i] = q[i + Gap(n, q)]
<1>0. Len(q) \in Nat
  OBVIOUS
<1>1. CASE Len(q) <= n
  BY <1>0, <1>1 DEF LastN, Gap
<1>2. CASE ~(Len(q) <= n)
  <2>0. PICK a \in Int, z \in Int : a = Len(q) - n + 1 /\ z = Len(q)
    BY <1>0
  <2>1. \A i \in a .. z : q[i] \in S
    BY <1>0, <1>2, <2>0
  <2>1a. /\ SubSeq(q, a, z) \in Seq(S)
         /\ Len(SubSeq(q, a, z)) = IF a <= z THEN z - a + 1 ELSE 0
         /\ \A i \in 1 .. z - a + 1 : SubSeq(q, a, z)[i] = q[a + i - 1]
    BY <2>1, SubSeqProperties
  <2>2. /\ SubSeq(q, Len(q) - n + 1, Len(q)) \in Seq(S)
        /\ Len(SubSeq(q, Len(q) - n + 1, Len(q))) =
               IF Len(q) - n + 1 <= Len(q) THEN Len(q) - (Len(q) - n + 1) + 1 ELSE 0
        /\ \A i \in 1 .. Len(q) - (Len(q) - n + 1) + 1 :
               SubSeq(q, Len(q) - n + 1, Len(q))[i] = q[(Len(q) - n + 1) + i - 1]
    BY <2>0, <2>1a
  <2>3. LastN(n, q) = SubSeq(q, Len(q) - n + 1, Len(q)) /\ Gap(n, q) = Len(q) - n
    BY <1>2 DEF LastN, Gap
  <2>4. /\ Len(q) - n \in Nat /\ Len(q) - (Len(q) - n) = n
        /\ Len(q) - (Len(q) - n + 1) + 1 = n
        /\ Len(q) - n + 1 <= Len(q) \/ n = 0
    BY <1>0, <1>2
  <2>5. Len(LastN(n, q)) = n
    BY <1>0, <1>2, <2>2, <2>3, <2>4
  <2>6. \A i \in 1 .. n : (Len(q) - n + 1) + i - 1 = i + (Len(q) - n)
    BY <1>0
  <2>7. \A i \in 1 .. n : LastN(n, q)[i] = q[i + (Len(q) - n)]
    BY <2>2, <2>3, <2>4, <2>6
  <2>. QED  BY <2>2, <2>3, <2>4, <2>5, <2>7
<1>. QED  BY <1>1, <1>2

LEMMA LastNOfLast ==
    ASSUME NEW S, NEW n \in Nat, NEW q \in Seq(S), NEW r \in Seq(S)
    PROVE  LastN(n, LastN(n, q) \o r) = LastN(n, q \o r)
<1>. DEFINE p == LastN(n, q)
<1>1. /\ p \in Seq(S) /\ Gap(n, q) \in Nat /\ Len(p) = Len(q) - Gap(n, q)
      /\ \A i \in 1 .. Len(p) : p[i] = q[i + Gap(n, q)]
  BY LastNIs
<1>. HIDE DEF p
<1>2. /\ p \o r \in Seq(S) /\ Len(p \o r) = Len(p) + Len(r)
      /\ \A i \in 1 .. Len(p) + Len(r) : (p \o r)[i] = IF i <= Len(p) THEN p[i] ELSE r[i - Len(p)]
      /\ q \o r \in Seq(S) /\ Len(q \o r) = Len(q) + Len(r)
      /\ \A i \in 1 .. Len(q) + Len(r) : (q \o r)[i] = IF i <= Len(q) THEN q[i] ELSE r[i - Len(q)]
  BY <1>1, ConcatProperties
<1>3. Len(q) \in Nat /\ Len(r) \in Nat /\ Len(p) \in Nat
  BY <1>1
<1>3a. Len(p) = Len(q) - Gap(n, q) /\ Gap(n, q) \in Nat
  BY <1>1
<1>. DEFINE a == p \o r  b == q \o r
<1>4. /\ LastN(n, a) \in Seq(S) /\ Len(LastN(n, a)) = Len(a) - Gap(n, a)
      /\ \A i \in 1 .. Len(a) - Gap(n, a) : LastN(n, a)[i] = a[i + Gap(n, a)]
      /\ LastN(n, b) \in Seq(S) /\ Len(LastN(n, b)) = Len(b) - Gap(n, b)
      /\ \A i \in 1 .. Len(b) - Gap(n, b) : LastN(n, b)[i] = b[i + Gap(n, b)]
  BY <1>2, LastNIs
<1>5. Gap(n, b) = Gap(n, a) + Gap(n, q) /\ Gap(n, a) \in Nat
  <2>1. Len(a) = Len(p) + Len(r) /\ Len(b) = Len(q) + Len(r)
    BY <1>2
  <2>. HIDE DEF a, b
  <2>2. PICK u \in Nat, v \in Nat, w \in Nat : u = Len(q) /\ v = Len(r) /\ w = Len(p)
    BY <1>3
  <2>3. /\ Gap(n, q) = IF u <= n THEN 0 ELSE u - n
        /\ Gap(n, a) = IF w + v <= n THEN 0 ELSE w + v - n
        /\ Gap(n, b) = IF u + v <= n THEN 0 ELSE u + v - n
    BY <2>1, <2>2 DEF Gap
  <2>4. w = IF u <= n THEN u ELSE n
    BY <1>1, <2>2, <2>3
  <2>. QED  BY <2>3, <2>4
<1>6. Len(LastN(n, a)) = Len(LastN(n, b))
  <2>1. /\ Len(a) = Len(p) + Len(r) /\ Len(b) = Len(q) + Len(r)
        /\ Len(LastN(n, a)) = Len(a) - Gap(n, a) /\ Len(LastN(n, b)) = Len(b) - Gap(n, b)
    BY <1>2, <1>4
  <2>. HIDE DEF a, b
  <2>. QED  BY <1>3, <1>3a, <1>5, <2>1
<1>7. ASSUME NEW i \in 1 .. Len(LastN(n, a)) PROVE LastN(n, a)[i] = LastN(n, b)[i]
  <2>0. i \in 1 .. Len(a) - Gap(n, a) /\ i \in 1 .. Len(b) - Gap(n, b)
    BY <1>4, <1>6
  <2>. DEFINE j == i + Gap(n, a)
  <2>1. LastN(n, a)[i] = a[j] /\ LastN(n, b)[i] = b[j + Gap(n, q)] /\ j \in 1 .. Len(a)
    <3>1. i + Gap(n, b) = j + Gap(n, q)
      BY <1>1, <1>5
    <3>2. j \in 1 .. Len(a)
      BY <1>2, <1>3, <1>5, <2>0
    <3>. QED  BY <1>4, <2>0, <3>1, <3>2
  <2>. HIDE DEF j, a, b
  <2>2. a[j] = (p \o r)[j] /\ b[j + Gap(n, q)] = (q \o r)[j + Gap(n, q)] /\ j \in 1 .. Len(p) + Len(r)
    BY <1>2, <2>1 DEF a, b
  <2>3. j + Gap(n, q) \in 1 .. Len(q) + Len(r)
    BY <1>1, <1>3, <2>2
  <2>4. CASE j <= Len(p)
    <3>1. j \in 1 .. Len(p) /\ j + Gap(n, q) <= Len(q)
      BY <1>3, <1>3a, <2>2, <2>4
    <3>. QED  BY <1>1, <1>2, <2>1, <2>2, <2>3, <2>4, <3>1
  <2>5. CASE ~(j <= Len(p))
    <3>1. ~(j + Gap(n, q) <= Len(q)) /\ (j + Gap(n, q)) - Len(q) = j - Len(p)
      <4>1. PICK x \in Int, c \in Int, u \in Int, w \in Int :
                x = j /\ c = Gap(n, q) /\ u = Len(q) /\ w = Len(p)
        BY <1>3, <1>3a, <2>2
      <4>2. w = u - c /\ ~(x <= w)
        BY <1>3a, <2>5, <4>1
      <4>. QED  BY <4>1, <4>2
    <3>2. (p \o r)[j] = r[j - Len(p)]
      BY <1>2, <2>2, <2>5
    <3>3. (q \o r)[j + Gap(n, q)] = r[(j + Gap(n, q)) - Len(q)]
      BY <1>2, <2>3, <3>1
    <3>. QED  BY <2>1, <2>2, <3>1, <3>2, <3>3
  <2>. QED  BY <2>4, <2>5
<1>. HIDE DEF a, b
<1>8. LastN(n, a) = LastN(n, b)
  BY <1>4, <1>6, <1>7, SeqEqual
<1>. QED  BY <1>8 DEF a, b, p

\* Lists that end alike still do after the same is added
LEMMA LastNAlike ==
    ASSUME NEW S, NEW n \in Nat, NEW q \in Seq(S), NEW r \in Seq(S), NEW t \in Seq(S),
           LastN(n, q) = LastN(n, r)
    PROVE  LastN(n, q \o t) = LastN(n, r \o t)
<1>1. LastN(n, LastN(n, q) \o t) = LastN(n, q \o t)
  BY LastNOfLast
<1>2. LastN(n, LastN(n, r) \o t) = LastN(n, r \o t)
  BY LastNOfLast
<1>. QED  BY <1>1, <1>2

LEMMA LastNTwice ==
    ASSUME NEW S, NEW n \in Nat, NEW q \in Seq(S)
    PROVE  LastN(n, LastN(n, q)) = LastN(n, q)
BY LastNTyped, LastN(n, q) \in Seq(S) /\ Len(LastN(n, q)) <= n DEF LastN

\* Nothing stands behind a text that is written to an empty file
LEMMA OverwriteNothing ==
    ASSUME NEW q \in Seq(Obs)
    PROVE  Standing(q, Blank) = <<>> /\ Overwrite(q, Blank).lines = q
<1>1. Cut(q, Blank) \in Nat /\ Blank.lines = <<>> /\ Len(<<>>) = 0
  BY BlankTyped, StandingTyped DEF Blank
<1>2. SubSeq(<<>>, Cut(q, Blank) + 1, 0) = <<>>
  BY <1>1, SubSeqEmpty
<1>3. Standing(q, Blank) = <<>>
  BY <1>1, <1>2 DEF Standing
<1>4. q \o <<>> = q
  BY ConcatEmptySeq
<1>. QED  BY <1>3, <1>4 DEF Overwrite

(***************************************************************************)
(* What a step does to the cache: it is one of the steps of a Post hook     *)
(* there, or the hook leaves the cache to itself (LeavesCache).                  *)
(***************************************************************************)
Others(h) == \A x \in Hook : x # h => hook'[x] = hook[x] /\ fd'[x] = fd[x]

\* The hook is not at the cache afterwards, and if it was and did not finish
\* what it had to do there, the history says so
LeavesCache(h) ==
    /\ Others(h) /\ UNCHANGED <<rows, file, tmp, doubled>>
    /\ hook'[h].pc \notin CacheLabel
    /\ clean' => clean /\ (hook[h].pc \in CacheLabel => hook[h].pc = "append" /\ fd[h] # "file")
    /\ hook'[h].pc \in PreLabel =>
           \/ hook[h].pc \in PreLabel /\ hook'[h].lines = hook[h].lines
                                      /\ hook'[h].prior = hook[h].prior
           \/ \E s \in Session, k \in Call :
                  /\ hook'[h].lines = <<[s |-> s, k |-> k]>>
                  /\ hook'[h].prior = IntentCount(Hydrate(file.lines), s, k)

Reports(h) ==
    /\ Others(h) /\ fd' = fd /\ file' = file /\ tmp' = tmp /\ hook[h].pc = "idle"
    /\ hook'[h].pc = "stat" /\ rows' = rows \o hook'[h].lines /\ doubled' = doubled
    /\ clean' => clean /\ \A x \in Hook : hook[x].pc \notin CacheLabel

\* A step from one label to another that keeps the lines
Moves(h, from, to) ==
    /\ Others(h) /\ rows' = rows /\ (clean' => clean)
    /\ hook[h].pc = from /\ hook'[h].pc = to /\ hook'[h].lines = hook[h].lines

Looks(h) ==
    /\ \/ \E to \in {"hydrate", "open"} : Moves(h, "stat", to) /\ fd' = fd
       \/ Moves(h, "open", "append") /\ fd'[h] = "file"
    /\ file' = file /\ tmp' = tmp /\ doubled' = doubled

Appends(h) ==
    /\ Moves(h, "append", "enqueue") /\ tmp' = tmp /\ fd[h] = "file"
    /\ file' = Extend(file, hook[h].lines) /\ doubled' = doubled

Loads(h) ==
    /\ Moves(h, "hydrate", "truncate") /\ fd' = fd /\ file' = file /\ tmp' = tmp
    /\ hook'[h].mem = LastN(Ring, LastN(Ring, file.lines) \o hook[h].lines)
    /\ doubled' = doubled

Truncates(h) ==
    /\ Moves(h, "truncate", "rewrite") /\ fd'[h] = "tmp" /\ file' = file /\ tmp' = Blank
    /\ hook'[h].mem = hook[h].mem /\ doubled' = doubled

Rewrites(h) ==
    /\ Moves(h, "rewrite", "rename")
    /\ file' = IF fd[h] = "file" THEN Overwrite(hook[h].mem, file) ELSE file
    /\ tmp' = IF fd[h] = "tmp" THEN Overwrite(hook[h].mem, tmp) ELSE tmp
    /\ doubled' = doubled \o Keep(Standing(hook[h].mem, Target(h)), Held(hook[h].mem))

Renames(h) ==
    /\ hook[h].pc = "rename" /\ hook'[h].pc = "enqueue" /\ UNCHANGED <<rows, doubled>>
    /\ (clean' => clean)
    /\ \A x \in Hook : x # h => hook'[x] = hook[x]
    /\ \/ tmp = NoFile /\ UNCHANGED <<file, tmp, fd>>
       \/ /\ tmp # NoFile /\ file' = tmp /\ tmp' = NoFile
          /\ \A x \in Hook : fd'[x] = IF fd[x] = "tmp" THEN "file"
                                      ELSE IF fd[x] = "file" THEN "gone" ELSE fd[x]

LEMMA CacheSteps ==
    ASSUME SupervisionInv, NEW h \in Hook, Step(h)
    PROVE  \/ LeavesCache(h) \/ Reports(h) \/ Looks(h) \/ Appends(h)
           \/ Loads(h) \/ Truncates(h) \/ Rewrites(h) \/ Renames(h)
<1>a. hook \in [Hook -> Frame] /\ fd \in [Hook -> {"none", "file", "tmp", "gone"}]
  BY DEF SupervisionInv, TypeOK
<1>b. \A l \in Label : Goto(h, l) =>
          /\ hook'[h].pc = l /\ hook'[h].lines = hook[h].lines /\ hook'[h].mem = hook[h].mem
          /\ hook'[h].prior = hook[h].prior
          /\ \A x \in Hook : x # h => hook'[x] = hook[x]
  BY <1>a, GotoMoves, Zenon DEF Goto
<1>c. Finish(h) => /\ hook'[h].pc = "idle" /\ \A x \in Hook : x # h => hook'[x] = hook[x]
  BY <1>a, FinishMoves
<1>d. /\ CacheLabel \subseteq Label /\ PreLabel \subseteq Label /\ "enqueue" \in Label
      /\ CacheLabel \cap PreLabel = {} /\ {"idle", "enqueue", "dead"} \cap (CacheLabel \cup PreLabel) = {}
  BY DEF Label, CacheLabel, PreLabel
<1>1. ASSUME NEW s \in Session, NEW k \in Call, PreToolUse(h, s, k) PROVE LeavesCache(h)
  <2>. DEFINE f == [Idle EXCEPT !.pc = "readWarned", !.lines = <<[s |-> s, k |-> k]>>,
                                !.prior = IntentCount(Hydrate(file.lines), s, k)]
  <2>1. /\ hook[h].pc = "idle" /\ UNCHANGED <<rows, file, tmp, fd, clean, doubled>>
        /\ hook' = hook \/ hook' = [hook EXCEPT ![h] = f]
    BY <1>1 DEF PreToolUse, At
  <2>2. /\ f.pc = "readWarned" /\ f.lines = <<[s |-> s, k |-> k]>>
        /\ f.prior = IntentCount(Hydrate(file.lines), s, k)
    BY DEF Idle
  <2>. HIDE DEF f
  <2>3. /\ hook'[h] = hook[h] \/ hook'[h] = f
        /\ \A x \in Hook : x # h => hook'[x] = hook[x]
    BY <1>a, <2>1
  <2>4. hook'[h].pc \notin CacheLabel
    BY <2>1, <2>2, <2>3 DEF CacheLabel
  <2>5. hook'[h].pc \in PreLabel => hook'[h] = f
    BY <1>d, <2>1, <2>3
  <2>. QED  BY <1>d, <2>1, <2>2, <2>3, <2>4, <2>5 DEF LeavesCache, Others
<1>2. CASE ReadWarned(h)
  <2>1. PICK seen : hook' = [hook EXCEPT ![h].pc = "event", ![h].seen = seen]
    BY <1>2 DEF ReadWarned
  <2>2. /\ hook'[h].pc = "event" /\ hook'[h].lines = hook[h].lines
        /\ hook'[h].prior = hook[h].prior /\ hook[h].pc = "readWarned"
        /\ \A x \in Hook : x # h => hook'[x] = hook[x]
        /\ UNCHANGED <<rows, file, tmp, fd, clean, doubled>>
    BY <1>2, <1>a, <2>1 DEF ReadWarned, At, Frame
  <2>3. "event" \in PreLabel /\ "readWarned" \in PreLabel
    BY DEF PreLabel
  <2>. QED  BY <1>d, <2>2, <2>3 DEF LeavesCache, Others
<1>3. CASE LogEvent(h) \/ MarkWarned(h)
  <2>1. PICK l \in {"mark", "reply"} : Goto(h, l)
    BY <1>3 DEF LogEvent, MarkWarned
  <2>2. l \in PreLabel /\ hook[h].pc \in PreLabel /\ UNCHANGED <<rows, file, tmp, fd, clean, doubled>>
    BY <1>3 DEF LogEvent, MarkWarned, At, PreLabel
  <2>. QED  BY <1>b, <1>d, <2>1, <2>2 DEF LeavesCache, Others
<1>4. CASE Reply(h) \/ Enqueue(h)
  <2>1. /\ Finish(h) /\ UNCHANGED <<rows, file, tmp, fd, clean, doubled>>
        /\ hook[h].pc \notin CacheLabel
    BY <1>4 DEF Reply, Enqueue, At, CacheLabel
  <2>. QED  BY <1>c, <1>d, <2>1 DEF LeavesCache, Others
<1>5. ASSUME NEW s \in Session, NEW n \in 1 .. Len(ran[s]), PostToolBatch(h, s, n)
      PROVE  LeavesCache(h) \/ Reports(h)
  <2>1. PICK batch : \/ rows' = rows \o batch
                          /\ hook' = [hook EXCEPT ![h] = [Idle EXCEPT !.pc = "stat", !.lines = batch]]
                     \/ UNCHANGED <<rows, hook>>
    BY <1>5 DEF PostToolBatch
  <2>2. /\ hook[h].pc = "idle" /\ UNCHANGED <<file, tmp, fd, doubled>>
        /\ clean' = (clean /\ \A x \in Hook : hook[x].pc \notin CacheLabel)
    BY <1>5 DEF PostToolBatch, At
  <2>3. CASE rows' = rows \o batch
                  /\ hook' = [hook EXCEPT ![h] = [Idle EXCEPT !.pc = "stat", !.lines = batch]]
    <3>1. /\ hook'[h].pc = "stat" /\ hook'[h].lines = batch
          /\ \A x \in Hook : x # h => hook'[x] = hook[x]
      BY <1>a, <2>3 DEF Idle
    <3>. QED  BY <2>2, <2>3, <3>1 DEF Reports, Others
  <2>4. CASE UNCHANGED <<rows, hook>>
    BY <1>d, <2>2, <2>4 DEF LeavesCache, Others
  <2>. QED  BY <2>1, <2>3, <2>4
<1>6. CASE Stat(h)
  <2>1. PICK l \in {"hydrate", "open"} : Goto(h, l)
    BY <1>6 DEF Stat
  <2>2. l \in CacheLabel /\ hook[h].pc = "stat" /\ UNCHANGED <<rows, file, tmp, fd, clean, doubled>>
    BY <1>6 DEF Stat, At, CacheLabel
  <2>. QED  BY <1>b, <1>d, <2>1, <2>2 DEF Looks, Moves, Others
<1>7. CASE OpenCache(h)
  <2>1. /\ hook[h].pc = "open" /\ Goto(h, "append") /\ UNCHANGED <<rows, file, tmp, clean, doubled>>
        /\ fd'[h] = "file" /\ \A x \in Hook : x # h => fd'[x] = fd[x]
    BY <1>7, <1>a DEF OpenCache, At
  <2>2. "append" \in Label
    BY <1>d DEF CacheLabel
  <2>. QED  BY <1>b, <2>1, <2>2 DEF Looks, Moves, Others
<1>8. CASE AppendLines(h)
  <2>1. /\ hook[h].pc = "append" /\ Goto(h, "enqueue") /\ UNCHANGED <<rows, tmp, doubled>>
        /\ \A x \in Hook : x # h => fd'[x] = fd[x]
        /\ \/ clean' = clean
              /\ file' = IF fd[h] = "file" THEN Extend(file, hook[h].lines) ELSE file
           \/ clean' = FALSE /\ file' = file
    BY <1>8, <1>a DEF AppendLines, At, CacheDone
  <2>2. CASE clean' = clean /\ fd[h] = "file" /\ file' = Extend(file, hook[h].lines)
    BY <1>b, <1>d, <2>1, <2>2 DEF Appends, Moves, Others
  <2>3. CASE file' = file /\ (clean' => clean /\ fd[h] # "file")
    BY <1>b, <1>d, <2>1, <2>3 DEF LeavesCache, Others
  <2>. QED  BY <2>1, <2>2, <2>3
<1>9. CASE HydrateCache(h)
  <2>. DEFINE ring == RingOf(h)
  <2>1. /\ hook[h].pc = "hydrate" /\ UNCHANGED <<rows, file, tmp, fd, clean, doubled>>
        /\ hook' = [hook EXCEPT ![h].pc = "truncate", ![h].mem = ring]
    BY <1>9 DEF HydrateCache, At
  <2>2. ring = LastN(Ring, LastN(Ring, file.lines) \o hook[h].lines)
    BY DEF RingOf, Hydrate
  <2>. HIDE DEF ring
  <2>3. /\ hook'[h].pc = "truncate" /\ hook'[h].mem = ring /\ hook'[h].lines = hook[h].lines
        /\ \A x \in Hook : x # h => hook'[x] = hook[x]
    BY <1>a, <2>1 DEF Frame
  <2>. QED  BY <2>1, <2>2, <2>3 DEF Loads, Moves, Others
<1>10. CASE Truncate(h)
  <2>0. "rewrite" \in Label /\ "enqueue" \in Label
    BY <1>d DEF CacheLabel
  <2>1. hook[h].pc = "truncate" /\ UNCHANGED <<rows, file, doubled>>
    BY <1>10 DEF Truncate, At
  <2>2. CASE tmp' = Blank /\ fd' = [fd EXCEPT ![h] = "tmp"] /\ Goto(h, "rewrite") /\ clean' = clean
    <3>1. fd'[h] = "tmp" /\ \A x \in Hook : x # h => fd'[x] = fd[x]
      BY <1>a, <2>2
    <3>. QED  BY <1>b, <2>0, <2>1, <2>2, <3>1 DEF Truncates, Moves, Others
  <2>3. CASE Goto(h, "enqueue") /\ clean' = FALSE /\ UNCHANGED <<tmp, fd>>
    BY <1>b, <1>d, <2>0, <2>1, <2>3 DEF LeavesCache, Others
  <2>. QED  BY <1>10, <2>2, <2>3 DEF Truncate, CacheDone
<1>11. CASE Rewrite(h)
  <2>1. /\ hook[h].pc = "rewrite" /\ Goto(h, "rename") /\ UNCHANGED <<rows, clean>>
        /\ file' = IF fd[h] = "file" THEN Overwrite(hook[h].mem, file) ELSE file
        /\ tmp' = IF fd[h] = "tmp" THEN Overwrite(hook[h].mem, tmp) ELSE tmp
        /\ doubled' = doubled \o Keep(Standing(hook[h].mem, Target(h)), Held(hook[h].mem))
        /\ \A x \in Hook : x # h => fd'[x] = fd[x]
    BY <1>11, <1>a DEF Rewrite, At
  <2>2. "rename" \in Label
    BY <1>d DEF CacheLabel
  <2>. QED  BY <1>b, <2>1, <2>2 DEF Rewrites, Moves, Others
<1>12. CASE Rename(h)
  <2>1. /\ hook[h].pc = "rename" /\ Goto(h, "enqueue") /\ UNCHANGED <<rows, clean, doubled>>
    BY <1>12 DEF Rename, At, CacheDone
  <2>2. CASE tmp = NoFile
    <3>1. UNCHANGED <<file, tmp, fd>>
      BY <1>12, <2>2 DEF Rename
    <3>. QED  BY <1>b, <1>d, <2>1, <2>2, <3>1 DEF Renames
  <2>3. CASE tmp # NoFile
    <3>1. /\ file' = tmp /\ tmp' = NoFile
          /\ fd' = [x \in Hook |-> CASE fd[x] = "tmp"  -> "file"
                                     [] fd[x] = "file" -> "gone"
                                     [] OTHER          -> fd[x]]
      BY <1>12, <2>3 DEF Rename
    <3>2. \A x \in Hook : fd'[x] = IF fd[x] = "tmp" THEN "file"
                                   ELSE IF fd[x] = "file" THEN "gone" ELSE fd[x]
      BY <3>1
    <3>. QED  BY <1>b, <1>d, <2>1, <2>3, <3>1, <3>2 DEF Renames
  <2>. QED  BY <2>2, <2>3
<1>13. CASE Die(h)
  <2>1. /\ hook' = [hook EXCEPT ![h].pc = "dead"] /\ fd' = [fd EXCEPT ![h] = "none"]
        /\ clean' = (clean /\ hook[h].pc \notin CacheLabel) /\ UNCHANGED <<rows, file, tmp, doubled>>
    BY <1>13 DEF Die
  <2>2. /\ hook'[h].pc = "dead"
        /\ \A x \in Hook : x # h => hook'[x] = hook[x] /\ fd'[x] = fd[x]
    BY <1>a, <2>1 DEF Frame
  <2>. QED  BY <1>d, <2>1, <2>2 DEF LeavesCache, Others
<1>. QED  BY <1>1, <1>2, <1>3, <1>4, <1>5, <1>6, <1>7, <1>8, <1>9, <1>10, <1>11, <1>12, <1>13
          DEF Step

-----------------------------------------------------------------------------
(* As long as Post hooks take turns, the one at the cache leaves it as the  *)
(* end of the table, whichever way it goes.                                *)

EndsLikeRows(q) == LastN(Ring, q) = LastN(Ring, rows)
Pending == {"stat", "open", "append", "hydrate"}

AtCache(h) ==
    /\ \A g \in Hook : hook[g].pc \in CacheLabel => g = h
    /\ hook[h].pc \in Pending => EndsLikeRows(file.lines \o hook[h].lines)
    /\ hook[h].pc = "append" => fd[h] = "file"
    /\ hook[h].pc \in {"truncate", "rewrite"} => hook[h].mem = LastN(Ring, rows)
    /\ hook[h].pc = "rewrite" => fd[h] = "tmp" /\ tmp = Blank
    /\ hook[h].pc = "rename" => tmp # NoFile /\ EndsLikeRows(tmp.lines)

TurnsTaken ==
    clean => /\ \A h \in Hook : hook[h].pc \in CacheLabel => AtCache(h)
             /\ (\A h \in Hook : hook[h].pc \notin CacheLabel) => EndsLikeRows(file.lines)

LEMMA TurnsTakenStep ==
    ASSUME SupervisionInv, TurnsTaken, NEW h \in Hook, Step(h)
    PROVE  TurnsTaken'
<1>a. /\ rows \in Seq(Obs) /\ file \in Text /\ file.lines \in Seq(Obs) /\ tmp \in Text \cup {NoFile}
      /\ hook[h].lines \in Seq(Obs) /\ hook[h].mem \in Seq(Obs) /\ Ring \in Nat
  BY SizeAssumption DEF SupervisionInv, TypeOK, Frame, Text
<1>l. CacheLabel = Pending \cup {"truncate", "rewrite", "rename"} /\ "enqueue" \notin CacheLabel
      /\ "idle" \notin CacheLabel
  BY DEF CacheLabel, Pending
<1>. SUFFICES ASSUME clean'
              PROVE  /\ \A x \in Hook : hook'[x].pc \in CacheLabel => AtCache(x)'
                     /\ (\A x \in Hook : hook'[x].pc \notin CacheLabel) => EndsLikeRows(file.lines)'
  BY DEF TurnsTaken
\* A hook that goes on at the cache: it was alone, and is
<1>m. ASSUME NEW from \in CacheLabel, NEW to \in CacheLabel \cup {"enqueue"},
             \A x \in Hook : x # h => hook'[x] = hook[x],
             hook[h].pc = from, hook'[h].pc = to, clean,
             to # "enqueue" => AtCache(h)', to = "enqueue" => EndsLikeRows(file.lines)'
      PROVE  /\ \A x \in Hook : hook'[x].pc \in CacheLabel => AtCache(x)'
             /\ (\A x \in Hook : hook'[x].pc \notin CacheLabel) => EndsLikeRows(file.lines)'
  <2>1. \A x \in Hook : hook[x].pc \in CacheLabel => x = h
    BY <1>m DEF TurnsTaken, AtCache
  <2>2. \A x \in Hook : hook'[x].pc \in CacheLabel => x = h
    BY <1>m, <2>1
  <2>. QED  BY <1>l, <1>m, <2>2
\* What it finds
<1>f. ASSUME clean, hook[h].pc \in CacheLabel PROVE AtCache(h)
  BY <1>f DEF TurnsTaken
<1>o. ASSUME NEW from \in CacheLabel, NEW to, Moves(h, from, to)
      PROVE  /\ clean /\ \A x \in Hook : x # h => hook'[x] = hook[x]
             /\ \A g \in Hook : hook'[g].pc \in CacheLabel => g = h
             /\ AtCache(h) /\ rows' = rows /\ hook'[h].lines = hook[h].lines
             /\ hook[h].pc = from /\ hook'[h].pc = to
  <2>1. clean /\ AtCache(h)
    BY <1>f, <1>o DEF Moves
  <2>. QED  BY <1>o, <2>1 DEF Moves, Others, AtCache
<1>1. CASE LeavesCache(h)
  <2>1. /\ clean /\ UNCHANGED <<rows, file, tmp, doubled>> /\ hook'[h].pc \notin CacheLabel
        /\ \A x \in Hook : x # h => hook'[x] = hook[x] /\ fd'[x] = fd[x]
        /\ hook[h].pc \in CacheLabel => hook[h].pc = "append" /\ fd[h] # "file"
    BY <1>1 DEF LeavesCache, Others
  <2>2. hook[h].pc \notin CacheLabel
    BY <1>f, <2>1 DEF AtCache
  <2>3. ASSUME NEW x \in Hook, hook'[x].pc \in CacheLabel PROVE AtCache(x)'
    <3>1. x # h /\ hook'[x] = hook[x] /\ fd'[x] = fd[x] /\ AtCache(x)
      BY <2>1, <2>3 DEF TurnsTaken
    <3>2. \A g \in Hook : hook'[g].pc \in CacheLabel => g = x
      BY <2>1, <3>1 DEF AtCache
    <3>. QED  BY <2>1, <3>1, <3>2 DEF AtCache, EndsLikeRows
  <2>4. ASSUME \A x \in Hook : hook'[x].pc \notin CacheLabel PROVE EndsLikeRows(file.lines)'
    <3>1. \A x \in Hook : hook[x].pc \notin CacheLabel
      BY <2>1, <2>2, <2>4
    <3>. QED  BY <2>1, <3>1 DEF TurnsTaken, EndsLikeRows
  <2>. QED  BY <2>3, <2>4
<1>2. CASE Reports(h)
  <2>1. /\ clean /\ EndsLikeRows(file.lines) /\ \A x \in Hook : hook[x].pc \notin CacheLabel
    BY <1>2 DEF Reports, TurnsTaken
  <2>2. /\ \A x \in Hook : x # h => hook'[x] = hook[x]
        /\ hook'[h].pc = "stat" /\ rows' = rows \o hook'[h].lines /\ file' = file
    BY <1>2 DEF Reports, Others
  <2>3. hook'[h].lines \in Seq(Obs)
    BY StepTyped DEF Next, SupervisionInv, TypeOK, Frame
  <2>4. EndsLikeRows(file.lines \o hook[h].lines)'
    <3>1. PICK new \in Seq(Obs) : new = hook'[h].lines
      BY <2>3
    <3>2. LastN(Ring, file.lines) = LastN(Ring, rows)
      BY <2>1 DEF EndsLikeRows
    <3>3. LastN(Ring, file.lines \o new) = LastN(Ring, rows \o new)
      BY <1>a, <3>2, LastNAlike
    <3>. QED  BY <2>2, <3>1, <3>3 DEF EndsLikeRows
  <2>5. \A x \in Hook : hook'[x].pc \in CacheLabel => x = h
    BY <2>1, <2>2
  <2>6. AtCache(h)'
    BY <2>2, <2>4, <2>5 DEF AtCache, Pending
  <2>. QED  BY <1>l, <2>2, <2>5, <2>6 DEF Pending
<1>3. CASE Looks(h)
  <2>1. PICK from \in Pending, to \in Pending :
            Moves(h, from, to) /\ (to = "append" => fd'[h] = "file") /\ file' = file
    BY <1>3 DEF Looks, Pending
  <2>2. /\ EndsLikeRows(file.lines \o hook[h].lines) /\ rows' = rows /\ hook'[h].lines = hook[h].lines
        /\ hook'[h].pc = to /\ \A g \in Hook : hook'[g].pc \in CacheLabel => g = h
    BY <1>l, <1>o, <2>1 DEF AtCache
  <2>3. AtCache(h)'
    BY <2>1, <2>2 DEF AtCache, EndsLikeRows, Pending
  <2>4. to # "enqueue" /\ to \in CacheLabel /\ from \in CacheLabel
    BY <1>l, <2>1 DEF Pending
  <2>. QED  BY <1>m, <1>o, <2>1, <2>3, <2>4
<1>4. CASE Appends(h)
  <2>1. Moves(h, "append", "enqueue") /\ file' = Extend(file, hook[h].lines) /\ "append" \in CacheLabel
    BY <1>4 DEF Appends, CacheLabel
  <2>2. EndsLikeRows(file.lines \o hook[h].lines) /\ rows' = rows
    BY <1>o, <2>1 DEF AtCache, Pending
  <2>3. EndsLikeRows(file.lines)'
    BY <2>1, <2>2 DEF EndsLikeRows, Extend
  <2>. QED  BY <1>m, <1>o, <2>1, <2>3
<1>5. CASE Loads(h)
  <2>1. /\ Moves(h, "hydrate", "truncate") /\ {"hydrate", "truncate"} \subseteq CacheLabel
        /\ hook'[h].mem = LastN(Ring, LastN(Ring, file.lines) \o hook[h].lines)
    BY <1>5 DEF Loads, CacheLabel
  <2>2. EndsLikeRows(file.lines \o hook[h].lines) /\ rows' = rows /\ hook'[h].pc = "truncate"
        /\ \A g \in Hook : hook'[g].pc \in CacheLabel => g = h
    BY <1>o, <2>1 DEF AtCache, Pending
  <2>3. hook'[h].mem = LastN(Ring, rows)
    BY <1>a, <2>1, <2>2, LastNOfLast DEF EndsLikeRows
  <2>4. AtCache(h)'
    BY <2>2, <2>3 DEF AtCache, Pending
  <2>. QED  BY <1>m, <1>o, <2>1, <2>4
<1>6. CASE Truncates(h)
  <2>1. /\ Moves(h, "truncate", "rewrite") /\ {"rewrite", "truncate"} \subseteq CacheLabel
        /\ hook'[h].mem = hook[h].mem /\ fd'[h] = "tmp" /\ tmp' = Blank
    BY <1>6 DEF Truncates, CacheLabel
  <2>2. hook[h].mem = LastN(Ring, rows) /\ rows' = rows /\ hook'[h].pc = "rewrite"
        /\ \A g \in Hook : hook'[g].pc \in CacheLabel => g = h
    BY <1>o, <2>1 DEF AtCache, Pending
  <2>3. AtCache(h)'
    BY <2>1, <2>2 DEF AtCache, Pending
  <2>. QED  BY <1>m, <1>o, <2>1, <2>3
<1>7. CASE Rewrites(h)
  <2>1. /\ Moves(h, "rewrite", "rename") /\ {"rewrite", "rename"} \subseteq CacheLabel
        /\ fd[h] = "tmp" => tmp' = Overwrite(hook[h].mem, tmp)
    BY <1>7 DEF Rewrites, CacheLabel
  <2>2. /\ hook[h].mem = LastN(Ring, rows) /\ rows' = rows /\ hook'[h].pc = "rename"
        /\ fd[h] = "tmp" /\ tmp = Blank /\ \A g \in Hook : hook'[g].pc \in CacheLabel => g = h
    BY <1>o, <2>1 DEF AtCache, Pending
  <2>3. tmp'.lines = LastN(Ring, rows) /\ tmp' \in Text
    <3>1. Overwrite(hook[h].mem, Blank).lines = hook[h].mem
      BY <1>a, OverwriteNothing
    <3>2. Overwrite(hook[h].mem, Blank) \in Text
      BY <1>a, BlankTyped, OverwriteTyped
    <3>. QED  BY <2>1, <2>2, <3>1, <3>2
  <2>4. tmp' # NoFile /\ EndsLikeRows(tmp.lines)'
    BY <1>a, <2>2, <2>3, LastNTwice, NoFileAssumption DEF EndsLikeRows
  <2>5. AtCache(h)'
    BY <2>2, <2>4 DEF AtCache, Pending
  <2>. QED  BY <1>m, <1>o, <2>1, <2>5
<1>8. CASE Renames(h)
  <2>1. /\ hook[h].pc = "rename" /\ hook'[h].pc = "enqueue" /\ rows' = rows /\ clean
        /\ \A x \in Hook : x # h => hook'[x] = hook[x]
        /\ tmp # NoFile => file' = tmp
    BY <1>8 DEF Renames
  <2>2. tmp # NoFile /\ EndsLikeRows(tmp.lines) /\ "rename" \in CacheLabel
    BY <1>f, <2>1 DEF AtCache, CacheLabel
  <2>3. EndsLikeRows(file.lines)'
    BY <2>1, <2>2 DEF EndsLikeRows
  <2>. QED  BY <1>m, <2>1, <2>2, <2>3
<1>. QED  BY <1>1, <1>2, <1>3, <1>4, <1>5, <1>6, <1>7, <1>8, CacheSteps

\* As long as Post hooks do not overlap or fail, the warm cache ends with what
\* the table ends with, through any number of appends and rotations, whatever the
\* cap (appendBatchToDisk)
THEOREM CacheStaysTail == Spec => []CacheIsTail
<1>1. Init => TurnsTaken
  BY IdleTyped DEF Init, TurnsTaken, EndsLikeRows, CacheLabel, Blank
<1>2. SupervisionInv /\ TurnsTaken /\ [Next]_vars => TurnsTaken'
  <2>. SUFFICES ASSUME SupervisionInv, TurnsTaken, [Next]_vars PROVE TurnsTaken'
    OBVIOUS
  <2>1. CASE Next
    BY <2>1, TurnsTakenStep DEF Next
  <2>2. CASE UNCHANGED vars
    BY <2>2 DEF vars, TurnsTaken, AtCache, EndsLikeRows
  <2>. QED  BY <2>1, <2>2
<1>3. TurnsTaken => CacheIsTail
  BY DEF TurnsTaken, CacheIsTail, EndsLikeRows
<1>. QED  BY <1>1, <1>2, <1>3, SupervisionInvariant, PTL DEF Spec

-----------------------------------------------------------------------------
(***************************************************************************)
(* However Post hooks overlap, die or fail, what the cache holds is in the  *)
(* table.  The argument counts lines: of any set P of observations a text,  *)
(* or the ring of a rotation, has no more lines than the table has, with    *)
(* those that were left standing behind a copy, less what batches on their  *)
(* way to the cache still hold.  A rewrite is taken value by value: of what *)
(* it holds itself, only what it writes counts, or is left standing; of the *)
(* rest, only what stood there before.                                     *)
(***************************************************************************)
Tally(q, P) == Cardinality({i \in DOMAIN q : q[i] \in P})

LEMMA TallyTyped ==
    ASSUME NEW S, NEW q \in Seq(S), NEW P
    PROVE  /\ IsFiniteSet({i \in DOMAIN q : q[i] \in P}) /\ Tally(q, P) \in Nat
           /\ (\A i \in DOMAIN q : q[i] \notin P) <=> Tally(q, P) = 0
<1>. DEFINE A == {i \in DOMAIN q : q[i] \in P}
<1>1. IsFiniteSet(1 .. Len(q)) /\ A \in SUBSET (1 .. Len(q))
  BY FS_Interval
<1>. HIDE DEF A
<1>2. IsFiniteSet(A)
  BY <1>1, FS_Subset
<1>3. Cardinality(A) \in Nat /\ (Cardinality(A) = 0 <=> A = {})
  BY <1>2, FS_CardinalityType, FS_EmptySet
<1>. QED  BY <1>2, <1>3 DEF Tally, A

LEMMA CountApart ==
    ASSUME NEW A, NEW B, IsFiniteSet(A), IsFiniteSet(B), A \cap B = {}
    PROVE  /\ IsFiniteSet(A \cup B) /\ Cardinality(A \cup B) = Cardinality(A) + Cardinality(B)
           /\ {Cardinality(A), Cardinality(B)} \subseteq Nat
<1>1. Cardinality(A) \in Nat /\ Cardinality(B) \in Nat
  BY FS_CardinalityType
<1>2. /\ IsFiniteSet(A \cup B)
      /\ Cardinality(A \cup B) = Cardinality(A) + Cardinality(B) - Cardinality(A \cap B)
  BY FS_Union
<1>3. Cardinality(A \cap B) = 0
  BY FS_EmptySet
<1>. QED  BY <1>1, <1>2, <1>3

\* What can be put into another set has no more members
LEMMA CountInto ==
    ASSUME NEW A, NEW B, IsFiniteSet(B), NEW f,
           \A i \in A : f[i] \in B, \A i, j \in A : f[i] = f[j] => i = j
    PROVE  Cardinality(A) <= Cardinality(B)
<1>. DEFINE g == [i \in A |-> f[i]]
<1>1. g \in Injection(A, B)
  BY DEF Injection, IsInjective
<1>. HIDE DEF g
<1>. QED  BY <1>1, FS_Injection

LEMMA TallyConcat ==
    ASSUME NEW S, NEW q \in Seq(S), NEW r \in Seq(S), NEW P
    PROVE  Tally(q \o r, P) = Tally(q, P) + Tally(r, P)
<1>. DEFINE A == {i \in DOMAIN q : q[i] \in P}
            B == {i \in DOMAIN r : r[i] \in P}
            C == {i \in DOMAIN (q \o r) : (q \o r)[i] \in P}
            D == {i \in C : ~(i <= Len(q))}
<1>1. /\ DOMAIN q = 1 .. Len(q) /\ DOMAIN r = 1 .. Len(r) /\ Len(q) \in Nat /\ Len(r) \in Nat
      /\ DOMAIN (q \o r) = 1 .. Len(q) + Len(r)
      /\ \A i \in 1 .. Len(q) + Len(r) :
             (q \o r)[i] = IF i <= Len(q) THEN q[i] ELSE r[i - Len(q)]
  BY ConcatProperties
<1>2. IsFiniteSet(A) /\ IsFiniteSet(B)
  BY TallyTyped
<1>3. C = A \cup D /\ A \cap D = {}
  <2>1. \A i \in C : i <= Len(q) => i \in A
    BY <1>1
  <2>2. \A i \in A : i \in C /\ i <= Len(q)
    BY <1>1
  <2>. QED  BY <2>1, <2>2
<1>4. ExistsBijection(B, D)
  <2>. DEFINE f == [i \in B |-> i + Len(q)]
  <2>1. \A i \in B : f[i] \in D
    BY <1>1
  <2>2. \A i, j \in B : f[i] = f[j] => i = j
    BY <1>1
  <2>3. ASSUME NEW d \in D PROVE \E i \in B : f[i] = d
    <3>1. d - Len(q) \in B /\ (d - Len(q)) + Len(q) = d
      BY <1>1
    <3>. QED  BY <3>1
  <2>4. f \in Bijection(B, D)
    <3>1. f \in [B -> D]
      BY <2>1
    <3>2. f \in Injection(B, D) /\ f \in Surjection(B, D)
      BY <2>2, <2>3, <3>1 DEF Injection, IsInjective, Surjection
    <3>. QED  BY <3>2 DEF Bijection
  <2>. QED  BY <2>4 DEF ExistsBijection
<1>. HIDE DEF A, B, D
<1>5. IsFiniteSet(D) /\ Cardinality(D) = Cardinality(B)
  BY <1>2, <1>4, FS_Bijection
<1>6. Cardinality(C) = Cardinality(A) + Cardinality(D)
  BY <1>2, <1>3, <1>5, CountApart
<1>. QED  BY <1>5, <1>6 DEF Tally, A, B

LEMMA TallySplit ==
    ASSUME NEW S, NEW q \in Seq(S), NEW P, NEW P1, NEW P2, P1 \cup P2 = P, P1 \cap P2 = {}
    PROVE  Tally(q, P) = Tally(q, P1) + Tally(q, P2)
<1>. DEFINE A == {i \in DOMAIN q : q[i] \in P1}
            B == {i \in DOMAIN q : q[i] \in P2}
            C == {i \in DOMAIN q : q[i] \in P}
<1>1. IsFiniteSet(A)
  BY TallyTyped
<1>1a. IsFiniteSet(B)
  BY TallyTyped
<1>2. C = A \cup B /\ A \cap B = {}
  OBVIOUS
<1>. HIDE DEF A, B, C
<1>3. Cardinality(C) = Cardinality(A) + Cardinality(B)
  BY <1>1, <1>1a, <1>2, CountApart
<1>. QED  BY <1>3 DEF Tally, A, B, C

\* The end of a list holds no more than the list
LEMMA TallyEnd ==
    ASSUME NEW S, NEW q \in Seq(S), NEW n \in Nat, NEW P
    PROVE  Tally(SubSeq(q, n + 1, Len(q)), P) <= Tally(q, P)
<1>1. Len(q) \in Nat /\ \A i \in n + 1 .. Len(q) : q[i] \in S
  OBVIOUS
<1>2. PICK r : r = SubSeq(q, n + 1, Len(q))
  OBVIOUS
<1>3. /\ r \in Seq(S)
      /\ Len(r) = IF n + 1 <= Len(q) THEN Len(q) - (n + 1) + 1 ELSE 0
      /\ \A i \in 1 .. Len(q) - (n + 1) + 1 : r[i] = q[(n + 1) + i - 1]
  BY <1>1, <1>2, SubSeqProperties
<1>. DEFINE A == {i \in DOMAIN r : r[i] \in P}
            B == {i \in DOMAIN q : q[i] \in P}
            f == [i \in A |-> i + n]
<1>4. \A i \in A : i \in Nat /\ f[i] = i + n /\ f[i] \in B
  <2>1. ASSUME NEW i \in A PROVE i \in Nat /\ i + n \in 1 .. Len(q) /\ r[i] = q[i + n]
    <3>1. i \in 1 .. Len(q) - (n + 1) + 1 /\ (n + 1) + i - 1 = i + n
      BY <1>1, <1>3
    <3>2. i \in Nat /\ i + n \in 1 .. Len(q)
      BY <1>1, <3>1
    <3>3. r[i] = q[(n + 1) + i - 1]
      BY <1>3, <3>1
    <3>. QED  BY <3>1, <3>2, <3>3
  <2>. QED  BY <2>1
<1>5. \A i, j \in A : f[i] = f[j] => i = j
  BY <1>4
<1>6. IsFiniteSet(B)
  BY TallyTyped
<1>. HIDE DEF A, B, f
<1>7. Cardinality(A) <= Cardinality(B)
  BY <1>4, <1>5, <1>6, CountInto
<1>. QED  BY <1>2, <1>7 DEF Tally, A, B

LEMMA TallyLast ==
    ASSUME NEW S, NEW q \in Seq(S), NEW n \in Nat, NEW P
    PROVE  Tally(LastN(n, q), P) <= Tally(q, P)
<1>1. CASE Len(q) <= n
  <2>1. LastN(n, q) = q /\ Tally(q, P) \in Nat
    BY <1>1, TallyTyped DEF LastN
  <2>. QED  BY <2>1
<1>2. CASE ~(Len(q) <= n)
  <2>1. PICK m \in Nat : m = Len(q) - n
    BY <1>2, Len(q) \in Nat
  <2>2. LastN(n, q) = SubSeq(q, m + 1, Len(q))
    BY <1>2, <2>1 DEF LastN
  <2>. QED  BY <2>2, TallyEnd
<1>. QED  BY <1>1, <1>2

\* What Keep leaves is all there was of it
LEMMA TallyKeep ==
    ASSUME NEW S, NEW q \in Seq(S), NEW left, NEW P
    PROVE  Tally(q, P \cap left) <= Tally(Keep(q, left), P)
<1>1. Keep(q, left) \in Seq(S) /\ \E g : Places(q, left, Len(q), Keep(q, left), g)
  BY KeepPlaces
<1>2. PICK r : r = Keep(q, left)
  OBVIOUS
<1>3. PICK g : Places(q, left, Len(q), r, g)
  BY <1>1, <1>2
<1>. DEFINE A == {i \in DOMAIN q : q[i] \in P \cap left}
            B == {i \in DOMAIN r : r[i] \in P}
            f == [i \in A |-> CHOOSE k \in 1 .. Len(r) : g[k] = i]
<1>4. ASSUME NEW i \in A PROVE f[i] \in B /\ g[f[i]] = i
  <2>1. \E k \in 1 .. Len(r) : g[k] = i
    BY <1>3 DEF Places
  <2>2. f[i] \in 1 .. Len(r) /\ g[f[i]] = i
    BY <2>1
  <2>3. r[f[i]] = q[g[f[i]]]
    BY <1>3, <2>2 DEF Places
  <2>4. DOMAIN r = 1 .. Len(r)
    BY <1>1, <1>2
  <2>. QED  BY <2>2, <2>3, <2>4
<1>5. \A i, j \in A : f[i] = f[j] => i = j
  BY <1>4
<1>6. IsFiniteSet(B)
  BY <1>1, <1>2, TallyTyped
<1>. HIDE DEF A, B, f
<1>7. Cardinality(A) <= Cardinality(B)
  BY <1>4, <1>5, <1>6, CountInto
<1>. QED  BY <1>2, <1>7 DEF Tally, A, B

-----------------------------------------------------------------------------
(* The batches on their way to the cache *)

Share(h, P) == {h} \X {i \in DOMAIN hook[h].lines : hook[h].lines[i] \in P}
OnTheWay(P) ==
    {e \in Hook \X Nat : hook[e[1]].pc \in Pending /\ e \in Share(e[1], P)}
Due(P) == Cardinality(OnTheWay(P))

LEMMA ShareTyped ==
    ASSUME NEW P, hook \in [Hook -> Frame], NEW h \in Hook
    PROVE  /\ IsFiniteSet(Share(h, P)) /\ Cardinality(Share(h, P)) = Tally(hook[h].lines, P)
           /\ Share(h, P) \subseteq Hook \X Nat /\ hook[h].lines \in Seq(Obs)
           /\ \A e \in Share(h, P) : e[1] = h
<1>1. hook[h].lines \in Seq(Obs)
  BY DEF Frame
<1>2. PICK A : A = {i \in DOMAIN hook[h].lines : hook[h].lines[i] \in P}
  OBVIOUS
<1>3. IsFiniteSet(A) /\ Cardinality(A) = Tally(hook[h].lines, P) /\ Cardinality(A) \in Nat
  BY <1>1, <1>2, TallyTyped DEF Tally
<1>4. IsFiniteSet({h}) /\ Cardinality({h}) = 1
  BY FS_Singleton
<1>5. IsFiniteSet({h} \X A) /\ Cardinality({h} \X A) = Cardinality({h}) * Cardinality(A)
  BY <1>3, <1>4, FS_Product
<1>6. Share(h, P) = {h} \X A /\ A \subseteq Nat
  BY <1>1, <1>2 DEF Share
<1>7. Cardinality({h} \X A) = Tally(hook[h].lines, P)
  BY <1>3, <1>4, <1>5
<1>8. {h} \X A \subseteq Hook \X Nat /\ \A e \in {h} \X A : e[1] = h
  BY <1>6
<1>. QED  BY <1>1, <1>5, <1>6, <1>7, <1>8

LEMMA DueTyped ==
    ASSUME NEW P, hook \in [Hook -> Frame]
    PROVE  IsFiniteSet(OnTheWay(P)) /\ Due(P) \in Nat
<1>. DEFINE F == {Share(h, P) : h \in Hook}
            f == [h \in Hook |-> Share(h, P)]
<1>1. \A T \in F : IsFiniteSet(T)
  BY ShareTyped
<1>2. f \in Surjection(Hook, F)
  BY DEF Surjection
<1>3. IsFiniteSet(F)
  BY <1>2, HookAssumption, FS_Surjection
<1>4. IsFiniteSet(UNION F)
  BY <1>1, <1>3, FS_UNION
<1>5. OnTheWay(P) \in SUBSET (UNION F)
  BY DEF OnTheWay
<1>. HIDE DEF F
<1>6. IsFiniteSet(OnTheWay(P))
  BY <1>4, <1>5, FS_Subset
<1>. QED  BY <1>6, FS_CardinalityType DEF Due

LEMMA DueSplit ==
    ASSUME NEW P, NEW P1, NEW P2, P1 \cup P2 = P, P1 \cap P2 = {}, hook \in [Hook -> Frame]
    PROVE  Due(P) = Due(P1) + Due(P2)
<1>1. IsFiniteSet(OnTheWay(P1)) /\ IsFiniteSet(OnTheWay(P2))
  BY DueTyped
<1>2. /\ OnTheWay(P) = OnTheWay(P1) \cup OnTheWay(P2)
      /\ OnTheWay(P1) \cap OnTheWay(P2) = {}
  BY DEF OnTheWay, Share
<1>. QED  BY <1>1, <1>2, CountApart DEF Due

\* Only the batch of the hook that moves can come or go
OwnDue(h, P) == IF hook[h].pc \in Pending THEN Tally(hook[h].lines, P) ELSE 0

LEMMA DueMoves ==
    ASSUME NEW P, hook \in [Hook -> Frame], hook' \in [Hook -> Frame], NEW h \in Hook,
           \A x \in Hook : x # h => hook'[x] = hook[x]
    PROVE  /\ Due(P)' + OwnDue(h, P) = Due(P) + OwnDue(h, P)'
           /\ Due(P) \in Nat /\ Due(P)' \in Nat /\ OwnDue(h, P) \in Nat /\ OwnDue(h, P)' \in Nat
           /\ OwnDue(h, P) <= Due(P)
<1>. DEFINE Own == IF hook[h].pc \in Pending THEN Share(h, P) ELSE {}
            Own2 == IF hook'[h].pc \in Pending THEN Share(h, P)' ELSE {}
            Rest == {e \in OnTheWay(P) : e[1] # h}
<1>1. IsFiniteSet(Own) /\ Cardinality(Own) = OwnDue(h, P)
  BY ShareTyped, FS_EmptySet DEF OwnDue
<1>2. IsFiniteSet(Own2) /\ Cardinality(Own2) = OwnDue(h, P)'
  <2>1. /\ IsFiniteSet(Share(h, P)') /\ Cardinality(Share(h, P)') = Tally(hook'[h].lines, P)
    <3>1. hook'[h].lines \in Seq(Obs)
      BY DEF Frame
    <3>2. PICK A : A = {i \in DOMAIN hook'[h].lines : hook'[h].lines[i] \in P}
      OBVIOUS
    <3>3. IsFiniteSet(A) /\ Cardinality(A) = Tally(hook'[h].lines, P) /\ Cardinality(A) \in Nat
      BY <3>1, <3>2, TallyTyped DEF Tally
    <3>4. IsFiniteSet({h}) /\ Cardinality({h}) = 1
      BY FS_Singleton
    <3>5. IsFiniteSet({h} \X A) /\ Cardinality({h} \X A) = Cardinality({h}) * Cardinality(A)
      BY <3>3, <3>4, FS_Product
    <3>. QED  BY <3>2, <3>3, <3>4, <3>5 DEF Share
  <2>. QED  BY <2>1, FS_EmptySet DEF OwnDue
<1>3. IsFiniteSet(OnTheWay(P)) /\ Rest \in SUBSET OnTheWay(P)
  BY DueTyped
<1>4. IsFiniteSet(Rest)
  BY <1>3, FS_Subset
<1>5. OnTheWay(P) = Rest \cup Own /\ Rest \cap Own = {}
  <2>1. \A e \in Share(h, P) : e[1] = h /\ e \in Hook \X Nat
    BY ShareTyped
  <2>. QED  BY <2>1 DEF OnTheWay
<1>6. OnTheWay(P)' = Rest \cup Own2 /\ Rest \cap Own2 = {}
  <2>1. \A e \in Share(h, P)' : e[1] = h /\ e \in Hook \X Nat
    <3>1. hook'[h].lines \in Seq(Obs)
      BY DEF Frame
    <3>. QED  BY <3>1 DEF Share
  <2>2. \A e \in Hook \X Nat : e[1] # h => (e \in Share(e[1], P)' <=> e \in Share(e[1], P))
    BY DEF Share
  <2>3. \A e \in Hook \X Nat : e[1] # h => hook'[e[1]].pc = hook[e[1]].pc
    OBVIOUS
  <2>4. \A e \in Hook \X Nat : e[1] = h => (e \in OnTheWay(P)' <=> e \in Own2)
    BY DEF OnTheWay
  <2>5. \A e \in Hook \X Nat : e[1] # h => (e \in OnTheWay(P)' <=> e \in Rest)
    BY <2>2, <2>3 DEF OnTheWay
  <2>6. OnTheWay(P)' \subseteq Hook \X Nat /\ Rest \subseteq Hook \X Nat /\ Own2 \subseteq Hook \X Nat
    BY <2>1 DEF OnTheWay
  <2>7. \A e \in Rest : e[1] # h
    OBVIOUS
  <2>8. \A e \in Own2 : e[1] = h
    BY <2>1
  <2>. HIDE DEF Rest, Own2
  <2>. QED  BY <2>4, <2>5, <2>6, <2>7, <2>8
<1>. HIDE DEF Own, Own2, Rest
<1>7. Due(P) = Cardinality(Rest) + Cardinality(Own) /\ {Cardinality(Rest), Cardinality(Own)} \subseteq Nat
  BY <1>1, <1>4, <1>5, CountApart DEF Due
<1>8. Due(P)' = Cardinality(Rest) + Cardinality(Own2) /\ Cardinality(Own2) \in Nat
  BY <1>2, <1>4, <1>6, CountApart DEF Due
<1>. QED  BY <1>1, <1>2, <1>7, <1>8

-----------------------------------------------------------------------------
(* The invariant *)

Room(P) == Tally(rows, P) + Tally(doubled, P)
Within(q, P) == Tally(q, P) + Due(P) <= Room(P)

AtRing == {"truncate", "rewrite"}

LinesCounted ==
    \A P \in SUBSET Obs :
        /\ Within(file.lines, P)
        /\ tmp # NoFile => Within(tmp.lines, P)
        /\ \A h \in Hook : hook[h].pc \in AtRing => Within(hook[h].mem, P)
        /\ Tally(rows, P) = 0 => Tally(doubled, P) = 0

LEMMA LinesCountedInit == Init => LinesCounted
<1>. SUFFICES ASSUME Init, NEW P \in SUBSET Obs
              PROVE  /\ Within(file.lines, P) /\ Tally(doubled, P) = 0
                     /\ tmp = NoFile /\ \A h \in Hook : hook[h].pc \notin AtRing
  BY DEF LinesCounted
<1>1. /\ rows = <<>> /\ doubled = <<>> /\ file.lines = <<>> /\ tmp = NoFile
      /\ \A h \in Hook : hook[h].pc = "idle"
  BY IdleTyped DEF Init, Blank
<1>2. Tally(<<>>, P) = 0
  <2>1. {i \in DOMAIN <<>> : <<>>[i] \in P} = {}
    OBVIOUS
  <2>. QED  BY <2>1, FS_EmptySet DEF Tally
<1>3. OnTheWay(P) = {}
  BY <1>1 DEF OnTheWay, Pending
<1>4. Due(P) = 0
  BY <1>3, FS_EmptySet DEF Due
<1>5. \A h \in Hook : hook[h].pc \notin AtRing
  BY <1>1 DEF AtRing
<1>. QED  BY <1>1, <1>2, <1>4, <1>5 DEF Within, Room

\* What a rotation leaves in a file: its text, and what stood behind it
LEMMA WithinOverwrite ==
    ASSUME NEW q \in Seq(Obs), NEW t \in Text, rows \in Seq(Obs), doubled \in Seq(Obs),
           hook \in [Hook -> Frame],
           \A P \in SUBSET Obs : Within(q, P) /\ Within(t.lines, P)
    PROVE  \A P \in SUBSET Obs :
               Tally(Overwrite(q, t).lines, P) + Due(P)
                   <= Room(P) + Tally(Keep(Standing(q, t), Held(q)), P)
<1>. SUFFICES ASSUME NEW P \in SUBSET Obs
              PROVE  Tally(Overwrite(q, t).lines, P) + Due(P)
                         <= Room(P) + Tally(Keep(Standing(q, t), Held(q)), P)
  OBVIOUS
<1>1. PICK a : a = Standing(q, t)
  OBVIOUS
<1>2. PICK P1 \in SUBSET Obs, P2 \in SUBSET Obs : P1 = P \cap Held(q) /\ P2 = P \ Held(q)
  OBVIOUS
<1>2a. P1 \cup P2 = P /\ P1 \cap P2 = {}
  BY <1>2
<1>3. t.lines \in Seq(Obs) /\ a \in Seq(Obs) /\ Keep(a, Held(q)) \in Seq(Obs)
  BY <1>1, StandingTyped, KeepPlaces DEF Text
<1>4. Overwrite(q, t).lines = q \o a
  BY <1>1 DEF Overwrite
<1>5. Tally(q \o a, P) = Tally(q, P) + Tally(a, P)
  BY <1>3, TallyConcat
<1>6. /\ Tally(q, P) = Tally(q, P1) + Tally(q, P2) /\ Tally(a, P) = Tally(a, P1) + Tally(a, P2)
      /\ Tally(rows, P) = Tally(rows, P1) + Tally(rows, P2)
      /\ Tally(doubled, P) = Tally(doubled, P1) + Tally(doubled, P2)
      /\ Due(P) = Due(P1) + Due(P2)
  <2>1. ASSUME NEW x \in Seq(Obs) PROVE Tally(x, P) = Tally(x, P1) + Tally(x, P2)
    BY <1>2a, TallySplit
  <2>2. Due(P) = Due(P1) + Due(P2)
    BY <1>2a, DueSplit
  <2>. QED  BY <1>3, <2>1, <2>2
<1>7. Tally(q, P2) = 0
  <2>1. \A i \in DOMAIN q : q[i] \notin P2
    BY <1>2 DEF Held
  <2>. QED  BY <2>1, TallyTyped
<1>8. Tally(a, P1) <= Tally(Keep(a, Held(q)), P)
  BY <1>2, <1>3, TallyKeep
<1>9. Tally(a, P2) <= Tally(t.lines, P2)
  BY <1>1, <1>3, StandingTyped, TallyEnd DEF Standing
<1>10. Tally(q, P1) + Due(P1) <= Tally(rows, P1) + Tally(doubled, P1)
  BY DEF Within, Room
<1>11. Tally(t.lines, P2) + Due(P2) <= Tally(rows, P2) + Tally(doubled, P2)
  BY DEF Within, Room
<1>12. /\ Tally(q, P1) \in Nat /\ Tally(q, P2) \in Nat /\ Tally(a, P1) \in Nat /\ Tally(a, P2) \in Nat
       /\ Tally(rows, P1) \in Nat /\ Tally(rows, P2) \in Nat /\ Tally(t.lines, P2) \in Nat
       /\ Tally(doubled, P1) \in Nat /\ Tally(doubled, P2) \in Nat
       /\ Due(P1) \in Nat /\ Due(P2) \in Nat /\ Tally(Keep(a, Held(q)), P) \in Nat
  BY <1>3, TallyTyped, DueTyped
<1>13. Room(P) = Tally(rows, P1) + Tally(rows, P2) + (Tally(doubled, P1) + Tally(doubled, P2))
  BY <1>6 DEF Room
<1>14. Tally(Overwrite(q, t).lines, P) = Tally(q, P1) + Tally(q, P2) + (Tally(a, P1) + Tally(a, P2))
  BY <1>4, <1>5, <1>6
<1>15. PICK q1 \in Nat, a1 \in Nat, a2 \in Nat :
           q1 = Tally(q, P1) /\ a1 = Tally(a, P1) /\ a2 = Tally(a, P2)
  BY <1>12
<1>15a. PICK d1 \in Nat, d2 \in Nat, r1 \in Nat, r2 \in Nat :
            d1 = Due(P1) /\ d2 = Due(P2) /\ r1 = Tally(rows, P1) /\ r2 = Tally(rows, P2)
  BY <1>12
<1>15b. PICK e1 \in Nat, e2 \in Nat, n2 \in Nat :
            e1 = Tally(doubled, P1) /\ e2 = Tally(doubled, P2) /\ n2 = Tally(t.lines, P2)
  BY <1>12
<1>16. q1 + d1 <= r1 + e1 /\ a2 + d2 <= r2 + e2
  <2>1. q1 + d1 <= r1 + e1
    BY <1>10, <1>15, <1>15a, <1>15b
  <2>2. n2 + d2 <= r2 + e2 /\ a2 <= n2
    BY <1>9, <1>11, <1>15, <1>15a, <1>15b
  <2>. QED  BY <2>1, <2>2
<1>17. /\ Tally(Overwrite(q, t).lines, P) + Due(P) = (q1 + 0 + (a1 + a2)) + (d1 + d2)
       /\ Room(P) = r1 + r2 + (e1 + e2)
  BY <1>6, <1>7, <1>13, <1>14, <1>15, <1>15a, <1>15b
<1>18. PICK k \in Nat : k = Tally(Keep(a, Held(q)), P) /\ a1 <= k
  BY <1>8, <1>12, <1>15
<1>19. (q1 + 0 + (a1 + a2)) + (d1 + d2) <= (r1 + r2 + (e1 + e2)) + k
  BY <1>16, <1>18
<1>. QED  BY <1>1, <1>17, <1>18, <1>19

\* What was within its room still is, when the room grows by as much as is due
\* or by what is left standing
LEMMA WithinKept ==
    ASSUME NEW q \in Seq(Obs), NEW P, Within(q, P), NEW n \in Int, Due(P) \in Nat, Due(P)' \in Nat,
           rows \in Seq(Obs), doubled \in Seq(Obs), rows' \in Seq(Obs), doubled' \in Seq(Obs),
           Due(P)' <= Due(P) + n, Room(P) + n <= Room(P)'
    PROVE  Tally(q, P) + Due(P)' <= Room(P)'
<1>1. Tally(q, P) \in Nat /\ Room(P) \in Nat /\ Room(P)' \in Nat
  <2>1. /\ Tally(q, P) \in Nat /\ Tally(rows, P) \in Nat /\ Tally(doubled, P) \in Nat
        /\ Tally(rows', P) \in Nat /\ Tally(doubled', P) \in Nat
    BY TallyTyped
  <2>. QED  BY <2>1 DEF Room, Tally
<1>. QED  BY <1>1 DEF Within

LEMMA LinesCountedStep ==
    ASSUME SupervisionInv, LinesCounted, NEW h \in Hook, Step(h)
    PROVE  LinesCounted'
<1>a. /\ rows \in Seq(Obs) /\ doubled \in Seq(Obs) /\ file \in Text /\ tmp \in Text \cup {NoFile}
      /\ file.lines \in Seq(Obs) /\ (tmp # NoFile => tmp.lines \in Seq(Obs))
      /\ hook \in [Hook -> Frame] /\ \A x \in Hook : hook[x].mem \in Seq(Obs) /\ hook[x].lines \in Seq(Obs)
  BY DEF SupervisionInv, TypeOK, Frame, Text
<1>b. /\ rows' \in Seq(Obs) /\ doubled' \in Seq(Obs) /\ hook' \in [Hook -> Frame]
      /\ hook'[h].lines \in Seq(Obs)
  BY StepTyped DEF Next, SupervisionInv, TypeOK, Frame
<1>o. \A x \in Hook : x # h => hook'[x] = hook[x]
  BY CacheSteps DEF LeavesCache, Reports, Looks, Appends, Loads, Truncates, Rewrites, Renames,
                    Moves, Others
<1>. SUFFICES ASSUME NEW P \in SUBSET Obs
              PROVE  /\ Tally(file'.lines, P) + Due(P)' <= Room(P)'
                     /\ tmp' # NoFile => Tally(tmp'.lines, P) + Due(P)' <= Room(P)'
                     /\ \A x \in Hook : hook'[x].pc \in AtRing =>
                            Tally(hook'[x].mem, P) + Due(P)' <= Room(P)'
                     /\ Tally(rows', P) = 0 => Tally(doubled', P) = 0
  BY DEF LinesCounted, Within, Tally
<1>d. /\ Due(P)' + OwnDue(h, P) = Due(P) + OwnDue(h, P)'
      /\ Due(P) \in Nat /\ Due(P)' \in Nat /\ OwnDue(h, P) \in Nat /\ OwnDue(h, P)' \in Nat
  BY <1>a, <1>b, <1>o, DueMoves
<1>w. /\ Within(file.lines, P) /\ (tmp # NoFile => Within(tmp.lines, P))
      /\ \A x \in Hook : hook[x].pc \in AtRing => Within(hook[x].mem, P)
      /\ Tally(rows, P) = 0 => Tally(doubled, P) = 0
  BY DEF LinesCounted
<1>r. Room(P)' = Tally(rows', P) + Tally(doubled', P)
  BY DEF Room, Tally
<1>n. /\ Tally(rows, P) \in Nat /\ Tally(doubled, P) \in Nat /\ Tally(file.lines, P) \in Nat
      /\ Tally(rows', P) \in Nat /\ Tally(doubled', P) \in Nat /\ Tally(hook[h].lines, P) \in Nat
      /\ Tally(hook'[h].lines, P) \in Nat
  BY <1>a, <1>b, TallyTyped
\* A text or a ring that stays as it is
<1>k. ASSUME NEW n \in Nat, Due(P)' <= Due(P) + n, Room(P) + n <= Room(P)',
             NEW q \in Seq(Obs), Within(q, P)
      PROVE  Tally(q, P) + Due(P)' <= Room(P)'
  BY <1>a, <1>b, <1>d, <1>k, WithinKept
\* The rings of the other hooks, and of this one
<1>g. ASSUME NEW n \in Nat, Due(P)' <= Due(P) + n, Room(P) + n <= Room(P)',
             hook'[h].pc \in AtRing => Tally(hook'[h].mem, P) + Due(P)' <= Room(P)'
      PROVE  \A x \in Hook : hook'[x].pc \in AtRing =>
                 Tally(hook'[x].mem, P) + Due(P)' <= Room(P)'
  <2>1. ASSUME NEW x \in Hook, x # h, hook'[x].pc \in AtRing
        PROVE  Tally(hook'[x].mem, P) + Due(P)' <= Room(P)'
    <3>1. hook'[x] = hook[x] /\ Within(hook[x].mem, P)
      BY <1>o, <1>w, <2>1
    <3>. QED  BY <1>a, <1>g, <1>k, <3>1
  <2>. QED  BY <1>g, <2>1
<1>l. /\ AtRing \cap Pending = {} /\ AtRing \subseteq CacheLabel /\ Pending \subseteq CacheLabel
      /\ {"idle", "enqueue", "rename"} \cap (AtRing \cup Pending) = {}
  BY DEF AtRing, Pending, CacheLabel
\* The table stays, and no batch sets out
<1>s. ASSUME rows' = rows, doubled' = doubled, OwnDue(h, P)' <= OwnDue(h, P)
      PROVE  /\ Due(P)' <= Due(P) + 0 /\ Room(P) + 0 <= Room(P)' /\ 0 \in Nat
             /\ Tally(rows', P) = 0 => Tally(doubled', P) = 0
  BY <1>d, <1>n, <1>r, <1>s, <1>w DEF Room
<1>1. CASE LeavesCache(h)
  <2>1. UNCHANGED <<rows, file, tmp, doubled>> /\ hook'[h].pc \notin CacheLabel
    BY <1>1 DEF LeavesCache
  <2>2. OwnDue(h, P)' = 0 /\ hook'[h].pc \notin AtRing
    BY <1>l, <2>1 DEF OwnDue
  <2>3. OwnDue(h, P)' <= OwnDue(h, P)
    BY <1>d, <2>2
  <2>. QED  BY <1>a, <1>g, <1>k, <1>s, <1>w, <2>1, <2>2, <2>3
<1>2. CASE Reports(h)
  <2>1. /\ rows' = rows \o hook'[h].lines /\ UNCHANGED <<file, tmp, doubled>>
        /\ hook[h].pc = "idle" /\ hook'[h].pc = "stat"
    BY <1>2 DEF Reports
  <2>2. OwnDue(h, P) = 0 /\ OwnDue(h, P)' = Tally(hook'[h].lines, P) /\ hook'[h].pc \notin AtRing
    BY <2>1 DEF OwnDue, Pending, AtRing, Tally
  <2>3. Tally(rows', P) = Tally(rows, P) + Tally(hook'[h].lines, P)
    BY <1>a, <1>b, <2>1, TallyConcat
  <2>4. PICK n \in Nat : n = Tally(hook'[h].lines, P)
    BY <1>n
  <2>5. Due(P)' <= Due(P) + n
    BY <1>d, <2>2, <2>4
  <2>6. Room(P) + n <= Room(P)'
    BY <1>n, <1>r, <2>1, <2>3, <2>4 DEF Room
  <2>7. Tally(rows', P) = 0 => Tally(doubled', P) = 0
    BY <1>n, <1>w, <2>1, <2>3
  <2>. QED  BY <1>a, <1>g, <1>k, <1>w, <2>1, <2>2, <2>5, <2>6, <2>7
<1>3. CASE Looks(h)
  <2>1. /\ UNCHANGED <<rows, file, tmp, doubled>> /\ hook'[h].pc \in Pending /\ hook[h].pc \in Pending
        /\ hook'[h].lines = hook[h].lines
    BY <1>3 DEF Looks, Moves, Pending
  <2>2. OwnDue(h, P)' <= OwnDue(h, P)
    <3>1. OwnDue(h, P)' = Tally(hook'[h].lines, P)
      BY <2>1 DEF OwnDue, Tally
    <3>. QED  BY <1>n, <2>1, <3>1 DEF OwnDue
  <2>3. hook'[h].pc \notin AtRing
    BY <1>l, <2>1
  <2>. QED  BY <1>a, <1>g, <1>k, <1>s, <1>w, <2>1, <2>2, <2>3
<1>4. CASE Appends(h)
  <2>1. /\ UNCHANGED <<rows, tmp, doubled>> /\ file' = Extend(file, hook[h].lines)
        /\ hook[h].pc = "append" /\ hook'[h].pc = "enqueue"
    BY <1>4 DEF Appends, Moves
  <2>2. OwnDue(h, P) = Tally(hook[h].lines, P) /\ OwnDue(h, P)' = 0 /\ hook'[h].pc \notin AtRing
    BY <1>l, <2>1 DEF OwnDue, Pending
  <2>3. Tally(file'.lines, P) = Tally(file.lines, P) + Tally(hook[h].lines, P)
    BY <1>a, <2>1, TallyConcat DEF Extend
  <2>4. Room(P)' = Room(P)
    BY <1>r, <2>1 DEF Room
  <2>5. Tally(file.lines, P) + Due(P) <= Room(P)
    BY <1>w DEF Within
  <2>6. Tally(file'.lines, P) + Due(P)' <= Room(P)'
    BY <1>d, <1>n, <2>2, <2>3, <2>4, <2>5 DEF Room
  <2>7. OwnDue(h, P)' <= OwnDue(h, P)
    BY <1>n, <2>2
  <2>. QED  BY <1>a, <1>g, <1>k, <1>s, <1>w, <2>1, <2>2, <2>6, <2>7
<1>5. CASE Loads(h)
  <2>1. /\ UNCHANGED <<rows, file, tmp, doubled>>
        /\ hook[h].pc = "hydrate" /\ hook'[h].pc = "truncate"
        /\ hook'[h].mem = LastN(Ring, LastN(Ring, file.lines) \o hook[h].lines)
    BY <1>5 DEF Loads, Moves
  <2>2. OwnDue(h, P) = Tally(hook[h].lines, P) /\ OwnDue(h, P)' = 0
    BY <1>l, <2>1 DEF OwnDue, Pending, AtRing
  <2>3. Tally(hook'[h].mem, P) <= Tally(file.lines, P) + Tally(hook[h].lines, P)
    <3>1. PICK q \in Seq(Obs) : q = LastN(Ring, file.lines)
      BY <1>a, SizeAssumption, LastNTyped
    <3>2. Tally(q, P) <= Tally(file.lines, P)
      BY <1>a, <3>1, SizeAssumption, TallyLast
    <3>3. PICK r \in Seq(Obs) : r = q \o hook[h].lines
      BY <1>a, <3>1, ConcatProperties
    <3>4. Tally(r, P) = Tally(q, P) + Tally(hook[h].lines, P)
      BY <1>a, <3>3, TallyConcat
    <3>5. Tally(LastN(Ring, r), P) <= Tally(r, P) /\ LastN(Ring, r) \in Seq(Obs)
      BY <3>3, SizeAssumption, LastNTyped, TallyLast
    <3>6. Tally(LastN(Ring, r), P) \in Nat /\ Tally(r, P) \in Nat /\ Tally(q, P) \in Nat
      BY <3>1, <3>3, <3>5, TallyTyped
    <3>. QED  BY <1>n, <2>1, <3>1, <3>2, <3>3, <3>4, <3>5, <3>6
  <2>4. Room(P)' = Room(P)
    BY <1>r, <2>1 DEF Room
  <2>5. Tally(file.lines, P) + Due(P) <= Room(P)
    BY <1>w DEF Within
  <2>6. Tally(hook'[h].mem, P) \in Nat
    <3>1. hook'[h].mem \in Seq(Obs)
      BY <1>b DEF Frame
    <3>. QED  BY <3>1, TallyTyped
  <2>7. Tally(hook'[h].mem, P) + Due(P)' <= Room(P)'
    BY <1>d, <1>n, <2>2, <2>3, <2>4, <2>5, <2>6 DEF Room
  <2>8. OwnDue(h, P)' <= OwnDue(h, P)
    BY <1>n, <2>2
  <2>. QED  BY <1>a, <1>g, <1>k, <1>s, <1>w, <2>1, <2>7, <2>8
<1>6. CASE Truncates(h)
  <2>1. /\ UNCHANGED <<rows, file, doubled>> /\ tmp' = Blank
        /\ hook[h].pc = "truncate" /\ hook'[h].pc = "rewrite" /\ hook'[h].mem = hook[h].mem
    BY <1>6 DEF Truncates, Moves
  <2>2. OwnDue(h, P)' = 0 /\ OwnDue(h, P)' <= OwnDue(h, P) /\ hook[h].pc \in AtRing
    <3>1. OwnDue(h, P)' = 0 /\ hook[h].pc \in AtRing
      BY <1>l, <2>1 DEF OwnDue, Pending, AtRing
    <3>. QED  BY <1>d, <3>1
  <2>3. Tally(file.lines, P) + Due(P)' <= Room(P)'
    BY <1>a, <1>k, <1>s, <1>w, <2>1, <2>2
  <2>4. Tally(Blank.lines, P) = 0
    <3>1. <<>> \in Seq(Obs) /\ \A i \in DOMAIN <<>> : <<>>[i] \notin P
      OBVIOUS
    <3>. QED  BY <3>1, TallyTyped DEF Blank
  <2>5. Tally(tmp'.lines, P) + Due(P)' <= Room(P)'
    BY <1>d, <1>n, <1>r, <2>1, <2>3, <2>4
  <2>6. Tally(hook'[h].mem, P) + Due(P)' <= Room(P)'
    BY <1>a, <1>k, <1>s, <1>w, <2>1, <2>2
  <2>. QED  BY <1>g, <1>s, <2>1, <2>2, <2>3, <2>5, <2>6
<1>7. CASE Rewrites(h)
  <2>. DEFINE left == Keep(Standing(hook[h].mem, Target(h)), Held(hook[h].mem))
  <2>1. /\ rows' = rows /\ doubled' = doubled \o left
        /\ hook[h].pc = "rewrite" /\ hook'[h].pc = "rename"
        /\ file' = IF fd[h] = "file" THEN Overwrite(hook[h].mem, file) ELSE file
        /\ tmp' = IF fd[h] = "tmp" THEN Overwrite(hook[h].mem, tmp) ELSE tmp
    BY <1>7 DEF Rewrites, Moves
  <2>2. Target(h) \in Text /\ hook[h].mem \in Seq(Obs)
    BY TargetTyped
  <2>3. Standing(hook[h].mem, Target(h)) \in Seq(Obs) /\ left \in Seq(Obs)
    BY <2>2, StandingTyped, KeepPlaces
  <2>4. Tally(doubled', P) = Tally(doubled, P) + Tally(left, P) /\ Tally(left, P) \in Nat
    <3>. HIDE DEF left
    <3>1. Tally(doubled \o left, P) = Tally(doubled, P) + Tally(left, P)
      BY <1>a, <2>3, TallyConcat
    <3>2. Tally(left, P) \in Nat
      BY <2>3, TallyTyped
    <3>. QED  BY <2>1, <3>1, <3>2
  <2>5. OwnDue(h, P) = 0 /\ OwnDue(h, P)' = 0 /\ hook'[h].pc \notin AtRing
    BY <1>l, <2>1 DEF OwnDue, Pending
  <2>6. Due(P)' = Due(P) /\ Room(P)' = Room(P) + Tally(left, P)
    <3>. HIDE DEF left
    <3>. QED  BY <1>d, <1>n, <1>r, <2>1, <2>4, <2>5 DEF Room
  <2>7. Due(P)' <= Due(P) + 0 /\ Room(P) + 0 <= Room(P)'
    <3>. HIDE DEF left
    <3>. QED  BY <1>d, <1>n, <2>4, <2>6 DEF Room
  <2>8. ASSUME NEW t \in Text, t = Target(h), \A R \in SUBSET Obs : Within(t.lines, R)
        PROVE  Tally(Overwrite(hook[h].mem, t).lines, P) + Due(P)' <= Room(P)'
    <3>1. \A R \in SUBSET Obs : Within(hook[h].mem, R)
      BY <2>1 DEF LinesCounted, AtRing
    <3>2. \A R \in SUBSET Obs :
              Tally(Overwrite(hook[h].mem, t).lines, R) + Due(R)
                  <= Room(R) + Tally(Keep(Standing(hook[h].mem, t), Held(hook[h].mem)), R)
      BY <1>a, <2>2, <2>8, <3>1, WithinOverwrite
    <3>. QED  BY <2>6, <2>8, <3>2
  <2>9. Tally(file'.lines, P) + Due(P)' <= Room(P)'
    <3>1. CASE fd[h] = "file"
      <4>1. file = Target(h) /\ \A R \in SUBSET Obs : Within(file.lines, R)
        BY <3>1 DEF Target, LinesCounted
      <4>. QED  BY <1>a, <2>1, <2>8, <3>1, <4>1
    <3>2. CASE fd[h] # "file"
      BY <1>a, <1>k, <1>w, <2>1, <2>7, <3>2
    <3>. QED  BY <3>1, <3>2
  <2>10. ASSUME tmp' # NoFile PROVE Tally(tmp'.lines, P) + Due(P)' <= Room(P)'
    <3>1. CASE fd[h] = "tmp"
      <4>1. tmp = Target(h) /\ tmp # NoFile
        BY <3>1 DEF Target, SupervisionInv, TmpOpen
      <4>2. tmp \in Text /\ \A R \in SUBSET Obs : Within(tmp.lines, R)
        BY <1>a, <4>1 DEF LinesCounted
      <4>. QED  BY <2>1, <2>8, <3>1, <4>1, <4>2
    <3>2. CASE fd[h] # "tmp"
      BY <1>a, <1>k, <1>w, <2>1, <2>7, <2>10, <3>2
    <3>. QED  BY <3>1, <3>2
  <2>11. Tally(rows', P) = 0 => Tally(doubled', P) = 0
    <3>1. SUFFICES ASSUME Tally(rows, P) = 0 PROVE Tally(left, P) = 0 /\ Tally(doubled, P) = 0
      <4>. HIDE DEF left
      <4>. QED  BY <2>1, <2>4
    <3>2. Tally(doubled, P) = 0 /\ Room(P) = 0
      BY <1>w, <3>1 DEF Room
    <3>3. \A i \in DOMAIN hook[h].mem : hook[h].mem[i] \notin P
      <4>1. Tally(hook[h].mem, P) + Due(P) <= Room(P) /\ Tally(hook[h].mem, P) \in Nat
        BY <1>w, <2>1, <2>2, TallyTyped DEF AtRing, Within
      <4>2. Tally(hook[h].mem, P) = 0
        BY <1>d, <3>2, <4>1
      <4>. QED  BY <2>2, <4>2, TallyTyped
    <3>4. \A o \in P : o \notin Held(hook[h].mem)
      BY <3>3 DEF Held
    <3>5. \A i \in DOMAIN left : left[i] \in Held(hook[h].mem)
      <4>1. PICK a \in Seq(Obs) : a = Standing(hook[h].mem, Target(h))
        BY <2>3
      <4>2. {left[i] : i \in DOMAIN left} = {a[i] : i \in DOMAIN a} \cap Held(hook[h].mem)
        BY <4>1, KeepEntries
      <4>. HIDE DEF left
      <4>. QED  BY <4>2
    <3>6. \A i \in DOMAIN left : left[i] \notin P
      BY <3>4, <3>5
    <3>. HIDE DEF left
    <3>. QED  BY <2>3, <3>2, <3>6, TallyTyped
  <2>. HIDE DEF left
  <2>. QED  BY <1>g, <2>5, <2>7, <2>9, <2>10, <2>11
<1>8. CASE Renames(h)
  <2>1. /\ UNCHANGED <<rows, doubled>> /\ hook[h].pc = "rename" /\ hook'[h].pc = "enqueue"
        /\ \/ file' = file /\ tmp' = tmp
           \/ tmp # NoFile /\ file' = tmp /\ tmp' = NoFile
    BY <1>8, Zenon DEF Renames
  <2>2. OwnDue(h, P)' = 0 /\ OwnDue(h, P)' <= OwnDue(h, P) /\ hook'[h].pc \notin AtRing
    <3>1. OwnDue(h, P)' = 0 /\ hook'[h].pc \notin AtRing
      BY <1>l, <2>1 DEF OwnDue
    <3>. QED  BY <1>d, <3>1
  <2>3. Tally(file'.lines, P) + Due(P)' <= Room(P)'
    BY <1>a, <1>k, <1>s, <1>w, <2>1, <2>2
  <2>4. tmp' # NoFile => Tally(tmp'.lines, P) + Due(P)' <= Room(P)'
    BY <1>a, <1>k, <1>s, <1>w, <2>1, <2>2
  <2>. QED  BY <1>g, <1>s, <2>1, <2>2, <2>3, <2>4
<1>. QED  BY <1>1, <1>2, <1>3, <1>4, <1>5, <1>6, <1>7, <1>8, CacheSteps

LEMMA LinesCountedNext == SupervisionInv /\ LinesCounted /\ [Next]_vars => LinesCounted'
<1>. SUFFICES ASSUME SupervisionInv, LinesCounted, [Next]_vars PROVE LinesCounted'
  OBVIOUS
<1>1. CASE Next
  BY <1>1, LinesCountedStep DEF Next
<1>2. CASE UNCHANGED vars
  BY <1>2 DEF vars, LinesCounted, Within, Room, Due, OnTheWay, Share
<1>. QED  BY <1>1, <1>2

\* However hooks overlap, die or fail while they append to the warm cache or
\* rotate it, a line of the cache is an observation the table holds, and it is
\* there no more often than in the table, but for copies that a rotation left
\* standing behind a text shorter than theirs (appendBatchToDisk, flush)
THEOREM CacheHoldsObserved == Spec => []CacheIsObserved
<1>1. SupervisionInv /\ LinesCounted => CacheIsObserved
  <2>. SUFFICES ASSUME SupervisionInv, LinesCounted, NEW o \in Obs
                PROVE  /\ Occurs(file.lines, o) > 0 => Occurs(rows, o) > 0
                       /\ Occurs(file.lines, o) <= Occurs(rows, o) + Occurs(doubled, o)
    BY DEF CacheIsObserved
  <2>1. file.lines \in Seq(Obs) /\ rows \in Seq(Obs) /\ doubled \in Seq(Obs) /\ hook \in [Hook -> Frame]
    BY DEF SupervisionInv, TypeOK, Text
  <2>2. PICK P \in SUBSET Obs : P = {o}
    OBVIOUS
  <2>3. /\ Occurs(file.lines, o) = Tally(file.lines, P) /\ Occurs(rows, o) = Tally(rows, P)
        /\ Occurs(doubled, o) = Tally(doubled, P)
    BY <2>2 DEF Occurs, Tally
  <2>4. /\ Tally(file.lines, P) + Due(P) <= Tally(rows, P) + Tally(doubled, P)
        /\ Tally(rows, P) = 0 => Tally(doubled, P) = 0
    BY DEF LinesCounted, Within, Room
  <2>5. /\ Tally(file.lines, P) \in Nat /\ Tally(rows, P) \in Nat /\ Tally(doubled, P) \in Nat
        /\ Due(P) \in Nat
    BY <2>1, TallyTyped, DueTyped
  <2>. QED  BY <2>3, <2>4, <2>5
<1>. QED  BY <1>1, LinesCountedInit, LinesCountedNext, SupervisionInvariant, PTL DEF Spec

-----------------------------------------------------------------------------
(* The count of a repeated search is taken over the cache, so what it counts *)
(* is in the table or was left standing, and nothing is ever taken back.    *)

OfIntent(s, k) ==
    {o \in Obs : o.s = s /\ FamilyOf[o.k] = "search" /\ IntentOf[o.k] = IntentOf[k]}

LEMMA SearchesTallied ==
    ASSUME NEW q \in Seq(Obs), NEW s, NEW k PROVE Searches(q, s, k) = Tally(q, OfIntent(s, k))
<1>1. \A i \in DOMAIN q : q[i] \in Obs
  OBVIOUS
<1>2. {i \in DOMAIN q : q[i] \in OfIntent(s, k)} =
          {i \in DOMAIN q : /\ q[i].s = s
                            /\ FamilyOf[q[i].k] = "search"
                            /\ IntentOf[q[i].k] = IntentOf[k]}
  BY <1>1 DEF OfIntent
<1>. QED  BY <1>2 DEF Searches, Tally

Tried(s, k) == Searches(rows, s, k) + Searches(doubled, s, k)

\* The count a hook takes from the cache when it starts
LEMMA CountedTried ==
    ASSUME SupervisionInv, LinesCounted, NEW s \in Session, NEW k \in Call
    PROVE  IntentCount(Hydrate(file.lines), s, k) <= Tried(s, k) /\ Tried(s, k) \in Nat
<1>1. file.lines \in Seq(Obs) /\ rows \in Seq(Obs) /\ doubled \in Seq(Obs) /\ hook \in [Hook -> Frame]
  BY DEF SupervisionInv, TypeOK, Text
<1>2. PICK P \in SUBSET Obs : P = OfIntent(s, k)
  BY DEF OfIntent
<1>3. PICK q \in Seq(Obs) : q = Hydrate(file.lines)
  BY <1>1, LastNTyped, SizeAssumption DEF Hydrate
<1>4. Tally(q, P) <= Tally(file.lines, P)
  BY <1>1, <1>3, SizeAssumption, TallyLast DEF Hydrate
<1>5. Tally(file.lines, P) + Due(P) <= Tally(rows, P) + Tally(doubled, P)
  BY DEF LinesCounted, Within, Room
<1>6. /\ Tally(q, P) \in Nat /\ Tally(file.lines, P) \in Nat /\ Tally(rows, P) \in Nat
      /\ Tally(doubled, P) \in Nat /\ Due(P) \in Nat
  BY <1>1, TallyTyped, DueTyped
<1>7. Searches(q, s, k) = Tally(q, P) /\ Tried(s, k) = Tally(rows, P) + Tally(doubled, P)
  BY <1>1, <1>2, SearchesTallied DEF Tried
<1>8. Searches(q, s, k) <= Tried(s, k) /\ Tried(s, k) \in Nat
  BY <1>4, <1>5, <1>6, <1>7
<1>. QED  BY <1>3, <1>8 DEF IntentCount

\* Rows are only added, and so is what was left standing
LEMMA TriedGrows ==
    ASSUME SupervisionInv, NEW s, NEW k, NEW l \in Seq(Obs), NEW r \in Seq(Obs),
           rows' = rows \/ rows' = rows \o l, doubled' = doubled \/ doubled' = doubled \o r
    PROVE  Tried(s, k) <= Tried(s, k)' /\ Tried(s, k) \in Nat /\ Tried(s, k)' \in Nat
<1>1. rows \in Seq(Obs) /\ doubled \in Seq(Obs)
  BY DEF SupervisionInv, TypeOK
<1>2. ASSUME NEW q \in Seq(Obs), NEW b \in Seq(Obs), NEW z, z = q \/ z = q \o b
      PROVE  /\ Searches(q, s, k) <= Searches(z, s, k)
             /\ Searches(q, s, k) \in Nat /\ Searches(z, s, k) \in Nat
  <2>1. q \o b \in Seq(Obs)
    BY ConcatProperties
  <2>2. z \in Seq(Obs)
    BY <1>2, <2>1
  <2>3. Searches(q, s, k) = Tally(q, OfIntent(s, k)) /\ Searches(z, s, k) = Tally(z, OfIntent(s, k))
    BY <2>2, SearchesTallied
  <2>4. Tally(q \o b, OfIntent(s, k)) = Tally(q, OfIntent(s, k)) + Tally(b, OfIntent(s, k))
    BY TallyConcat
  <2>5. /\ Tally(q, OfIntent(s, k)) \in Nat /\ Tally(b, OfIntent(s, k)) \in Nat
        /\ Tally(z, OfIntent(s, k)) \in Nat
    BY <2>2, TallyTyped
  <2>6. Tally(q, OfIntent(s, k)) <= Tally(z, OfIntent(s, k))
    <3>1. CASE z = q
      BY <2>5, <3>1
    <3>2. CASE z = q \o b
      BY <2>4, <2>5, <3>2
    <3>. QED  BY <1>2, <3>1, <3>2
  <2>. QED  BY <2>3, <2>5, <2>6
<1>3. /\ Searches(rows, s, k) <= Searches(rows', s, k)
      /\ Searches(rows, s, k) \in Nat /\ Searches(rows', s, k) \in Nat
  BY <1>1, <1>2
<1>4. /\ Searches(doubled, s, k) <= Searches(doubled', s, k)
      /\ Searches(doubled, s, k) \in Nat /\ Searches(doubled', s, k) \in Nat
  BY <1>1, <1>2
<1>5. Tried(s, k)' = Searches(rows', s, k) + Searches(doubled', s, k)
  BY DEF Tried, Searches
<1>. QED  BY <1>3, <1>4, <1>5 DEF Tried

IntentsHonest ==
    \A h \in Hook : hook[h].pc \in PreLabel =>
        hook[h].prior <= Tried(Asked(h).s, Asked(h).k)

LEMMA IntentsHonestStep ==
    ASSUME SupervisionInv, LinesCounted, IntentsHonest, NEW h \in Hook, Step(h)
    PROVE  IntentsHonest'
<1>1. SupervisionInv'
  BY StepTyped DEF Next
<1>2. \A x \in Hook : x # h => hook'[x] = hook[x]
  BY CacheSteps DEF LeavesCache, Reports, Looks, Appends, Loads, Truncates, Rewrites, Renames,
                    Moves, Others
<1>3. PICK l \in Seq(Obs) : rows' = rows \/ rows' = rows \o l
  <2>1. hook'[h].lines \in Seq(Obs)
    BY <1>1 DEF SupervisionInv, TypeOK, Frame
  <2>2. rows' = rows \/ rows' = rows \o hook'[h].lines
    BY CacheSteps DEF LeavesCache, Reports, Looks, Appends, Loads, Truncates, Rewrites, Renames, Moves
  <2>. QED  BY <2>1, <2>2
<1>3a. PICK r \in Seq(Obs) : doubled' = doubled \/ doubled' = doubled \o r
  <2>. DEFINE left == Keep(Standing(hook[h].mem, Target(h)), Held(hook[h].mem))
  <2>1. left \in Seq(Obs)
    BY TargetTyped, StandingTyped, KeepPlaces
  <2>2. doubled' = doubled \/ doubled' = doubled \o left
    BY CacheSteps DEF LeavesCache, Reports, Looks, Appends, Loads, Truncates, Rewrites, Renames, Moves
  <2>. HIDE DEF left
  <2>. QED  BY <2>1, <2>2
<1>4. ASSUME NEW s, NEW k, NEW n \in Nat, n <= Tried(s, k)
      PROVE  n <= Tried(s, k)'
  BY <1>3, <1>3a, <1>4, TriedGrows
<1>5. \A x \in Hook : hook[x].prior \in Nat
  BY DEF SupervisionInv, TypeOK, Frame
\* A hook that was answering still asks about the same call
<1>6. ASSUME NEW x \in Hook, hook[x].pc \in PreLabel,
             hook'[x].prior = hook[x].prior, hook'[x].lines = hook[x].lines
      PROVE  hook'[x].prior <= Tried(Asked(x).s, Asked(x).k)'
  <2>1. PICK s, k : s = Asked(x).s /\ k = Asked(x).k
    OBVIOUS
  <2>2. hook[x].prior <= Tried(s, k)
    BY <1>6, <2>1 DEF IntentsHonest
  <2>3. hook[x].prior <= Tried(s, k)'
    BY <1>4, <1>5, <2>2
  <2>4. Asked(x)' = Asked(x)
    BY <1>6 DEF Asked
  <2>5. Tried(Asked(x).s, Asked(x).k)' = Tried(s, k)'
    BY <2>1, <2>4
  <2>. QED  BY <1>6, <2>3, <2>5
<1>7. ASSUME NEW x \in Hook, hook'[x].pc \in PreLabel
      PROVE  hook'[x].prior <= Tried(Asked(x).s, Asked(x).k)'
  <2>1. CASE x # h
    BY <1>2, <1>6, <1>7, <2>1
  <2>2. CASE x = h
    <3>1. LeavesCache(h)
      <4>1. hook'[h].pc \notin CacheLabel \cup {"enqueue"}
        BY <1>7, <2>2 DEF PreLabel, CacheLabel
      <4>. QED  BY <4>1, CacheSteps DEF Reports, Looks, Appends, Loads, Truncates, Rewrites,
                                        Renames, Moves, CacheLabel
    <3>2. CASE hook[h].pc \in PreLabel /\ hook'[h].lines = hook[h].lines
                                       /\ hook'[h].prior = hook[h].prior
      BY <1>6, <2>2, <3>2
    <3>3. ASSUME NEW s \in Session, NEW k \in Call, hook'[h].lines = <<[s |-> s, k |-> k]>>,
                 hook'[h].prior = IntentCount(Hydrate(file.lines), s, k)
          PROVE  hook'[h].prior <= Tried(Asked(h).s, Asked(h).k)'
      <4>1. hook'[h].prior <= Tried(s, k)
        BY <3>3, CountedTried
      <4>2. hook'[h].prior \in Nat
        BY <1>1 DEF SupervisionInv, TypeOK, Frame
      <4>3. hook'[h].prior <= Tried(s, k)'
        BY <1>4, <4>1, <4>2
      <4>4. Asked(h)'.s = s /\ Asked(h)'.k = k
        BY <3>3 DEF Asked
      <4>5. Tried(Asked(h).s, Asked(h).k)' = Tried(s, k)'
        BY <4>4
      <4>. QED  BY <4>3, <4>5
    <3>. QED  BY <1>7, <2>2, <3>1, <3>2, <3>3 DEF LeavesCache
  <2>. QED  BY <2>1, <2>2
<1>. QED  BY <1>7 DEF IntentsHonest

\* However stale, rotated or raced over the cache is, the count that blocks a
\* repeated search is never more than the searches of that intent the table holds
\* for that session, but for copies that a rotation left standing
\* (recentIntentCount)
THEOREM IntentsAreCounted == Spec => []IntentCountHonest
<1>1. Init => IntentsHonest
  BY IdleTyped DEF Init, IntentsHonest, PreLabel
<1>2. SupervisionInv /\ LinesCounted /\ IntentsHonest /\ [Next]_vars => IntentsHonest'
  <2>. SUFFICES ASSUME SupervisionInv, LinesCounted, IntentsHonest, [Next]_vars
                PROVE  IntentsHonest'
    OBVIOUS
  <2>1. CASE Next
    BY <2>1, IntentsHonestStep DEF Next
  <2>2. CASE UNCHANGED vars
    BY <2>2 DEF vars, IntentsHonest, Tried, Asked
  <2>. QED  BY <2>1, <2>2
<1>3. IntentsHonest => IntentCountHonest
  BY DEF IntentsHonest, IntentCountHonest, Tried
<1>. QED  BY <1>1, <1>2, <1>3, LinesCountedInit, LinesCountedNext, SupervisionInvariant, PTL
          DEF Spec

-----------------------------------------------------------------------------
(* The hooks next to the v1 traces *)

\* What moves one of the parts is a step of that part (of the hooks, in two of
\* them) and a stutter of the others, so that a behaviour of all is one of each.
LEMMA EachMovesAlone == HooksSpec => Spec /\ TraceStoreSpec /\ FeedbackSpec
<1>1. HooksInit => Init /\ TraceStoreInit /\ FeedbackInit
  BY DEF HooksInit
<1>2. ASSUME [HooksNext]_<<part, vars, traceVars, voteVars>>
      PROVE  [Next]_vars /\ [TraceStoreNext]_traceVars /\ [FeedbackNext]_voteVars
  BY <1>2 DEF HooksNext, Rotations
<1>. QED  BY <1>1, <1>2, PTL DEF HooksSpec, Spec, TraceStoreSpec, FeedbackSpec

\* The hooks and the two halves of the v1 engine keep their types, composed as TLC
\* runs them; the hooks, the trace store and the votes share no table.
THEOREM HooksTyped == HooksSpec => []HooksTypeOK
<1>1. HooksInit => part \in Part
  BY DEF HooksInit
<1>2. ASSUME part \in Part, [HooksNext]_<<part, vars, traceVars, voteVars>>
      PROVE  (part \in Part)'
  BY <1>2 DEF HooksNext
<1>3. HooksSpec => [](part \in Part)
  BY <1>1, <1>2, PTL DEF HooksSpec
<1>4. part \in Part /\ TypeOK /\ TraceStoreTypeOK /\ FeedbackTypeOK => HooksTypeOK
  BY DEF HooksTypeOK
<1>. QED  BY <1>3, <1>4, EachMovesAlone, SupervisionTyped, TracesTyped, VotesTyped, PTL

\* So the run of the hooks next to the v1 traces cannot fail, whatever the values
\* of its constants: the supervisor, the trace store and the feedback keep what each
\* promises.
THEOREM HooksKeepTheirPromises ==
    HooksSpec => /\ []CacheIsObserved /\ []CacheIsTail /\ []IntentCountHonest
                 /\ []SavingsAreReal /\ []WritesQueued
                 /\ []NoEmbeddingForgotten /\ []LimitAtRest /\ []LearnsOncePerRecall
BY EachMovesAlone, CacheHoldsObserved, CacheStaysTail, IntentsAreCounted, CreditIsEarned,
   WritesAreQueued, EmbeddingsNotForgotten, LimitHoldsAtRest, LearnsOnce

=============================================================================
