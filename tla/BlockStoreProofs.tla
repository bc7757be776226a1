-------------------------- MODULE BlockStoreProofs --------------------------
(***************************************************************************)
(* What holds of BlockStore for any number of clients, blocks, traces and  *)
(* refs, in both regimes, and whichever processes die.                     *)
(***************************************************************************)
EXTENDS BlockStore, TLAPS

(* Types.  A call that stands at a statement about a block has one, and a  *)
(* call that will cite a trace has one.                                    *)

NeedsTrace == {"distill", "find", "supported", "collide", "insert", "pattern",
               "get", "link"}
NeedsBlock == Label \ {"idle", "distill", "detach", "orphan"}

WellFormed(f) ==
    /\ f \in Frame
    /\ f.pc \in NeedsBlock => f.blk \in Block
    /\ f.pc \in NeedsTrace => f.trace \in Trace

Typed == TypeOK /\ \A c \in Client : WellFormed(call[c])

LEMMA IdleWellFormed == Idle \in Frame /\ WellFormed(Idle)
  BY DEF Idle, Frame, Label, Live, Role, WellFormed, NeedsBlock, NeedsTrace

LEMMA GoalType ==
    \A o \in DOMAIN Goal :
        o \in {"promote", "demote", "retire"} /\ Goal[o] \in {"active", "demoted", "retired"}
<1>1. DOMAIN Goal = {"promote", "demote", "retire"}
  BY DEF Goal
<1>2. Goal["promote"] = "active" /\ Goal["demote"] = "demoted" /\ Goal["retire"] = "retired"
  BY DEF Goal
<1> QED BY <1>1, <1>2

\* A step that gives one client a well-formed frame keeps the frames typed.
LEMMA FrameStep ==
    ASSUME Typed, NEW c \in Client, NEW f, WellFormed(f),
           call' = [call EXCEPT ![c] = f]
    PROVE  call' \in [Client -> Frame] /\ \A d \in Client : WellFormed(call'[d])
<1>1. f \in Frame
  BY DEF WellFormed
<1>2. call \in [Client -> Frame]
  BY DEF Typed, TypeOK
<1>3. \A d \in Client : call'[d] = IF d = c THEN f ELSE call[d]
  BY <1>2
<1>4. call' \in [Client -> Frame]
  BY <1>1, <1>2
<1> QED BY <1>3, <1>4 DEF Typed

LEMMA ReturnStep ==
    ASSUME Typed, NEW c \in Client, Return(c)
    PROVE  call' \in [Client -> Frame] /\ \A d \in Client : WellFormed(call'[d])
  BY FrameStep, IdleWellFormed DEF Return

LEMMA GotoStep ==
    ASSUME Typed, NEW c \in Client, NEW l \in Label, Goto(c, l),
           l \in NeedsBlock => call[c].blk \in Block,
           l \in NeedsTrace => call[c].trace \in Trace
    PROVE  call' \in [Client -> Frame] /\ \A d \in Client : WellFormed(call'[d])
<1> DEFINE f == [call[c] EXCEPT !.pc = l]
<1>1. call[c] \in Frame
  BY DEF Typed, TypeOK
<1>2. WellFormed(f)
  BY <1>1 DEF WellFormed, Frame
<1>3. call' = [call EXCEPT ![c] = f]
  BY DEF Goto
<1> QED BY <1>2, <1>3, FrameStep

LEMMA EnterStep ==
    ASSUME Typed, NEW c \in Client, NEW f, WellFormed(f), Enter(c, f)
    PROVE  Typed'
  BY FrameStep DEF Typed, TypeOK, Enter, db

LEMMA EntersType ==
    ASSUME Typed, NEW c \in Client, Enters(c)
    PROVE  Typed'
<1>1. CASE DistillTrace(c)
  <2>1. PICK t \in known, lane \in {"success", "failure"} :
           Enter(c, [Idle EXCEPT !.op = lane, !.pc = "distill", !.trace = t])
    BY <1>1 DEF DistillTrace
  <2>2. WellFormed([Idle EXCEPT !.op = lane, !.pc = "distill", !.trace = t])
    BY <2>1 DEF WellFormed, NeedsBlock, NeedsTrace, Idle, Frame, Label, Live, Role, Operations, Typed, TypeOK
  <2> QED BY <2>1, <2>2, EnterStep
<1>2. CASE StorePattern(c)
  <2>1. PICK t \in Trace, b \in Unminted :
           Enter(c, [Idle EXCEPT !.op = "pattern", !.pc = "find", !.blk = b, !.trace = t])
    BY <1>2 DEF StorePattern
  <2>2. WellFormed([Idle EXCEPT !.op = "pattern", !.pc = "find", !.blk = b, !.trace = t])
    BY <2>1 DEF WellFormed, NeedsBlock, NeedsTrace, Idle, Frame, Label, Live, Role, Operations, Unminted
  <2> QED BY <2>1, <2>2, EnterStep
<1>3. CASE DistillDomain(c)
  <2>1. PICK t \in Trace, b \in Unminted :
           Enter(c, [Idle EXCEPT !.op = "primer", !.pc = "find", !.blk = b, !.trace = t])
    BY <1>3 DEF DistillDomain
  <2>2. WellFormed([Idle EXCEPT !.op = "primer", !.pc = "find", !.blk = b, !.trace = t])
    BY <2>1 DEF WellFormed, NeedsBlock, NeedsTrace, Idle, Frame, Label, Live, Role, Operations, Unminted
  <2> QED BY <2>1, <2>2, EnterStep
<1>4. CASE ReadForWriteBack(c)
  <2>1. PICK b \in Named, o \in {"reverify", "sync"} :
           /\ Exists(b)
           /\ Enter(c, [Idle EXCEPT !.op = o, !.blk = b, !.val = status[b],
                                 !.pc = IF o = "reverify" THEN "verify"
                                        ELSE IF status[b] = "active" THEN "origin"
                                        ELSE "write"])
    BY <1>4 DEF ReadForWriteBack
  <2>2. WellFormed([Idle EXCEPT !.op = o, !.blk = b, !.val = status[b],
                     !.pc = IF o = "reverify" THEN "verify"
                            ELSE IF status[b] = "active" THEN "origin"
                            ELSE "write"])
    BY <2>1 DEF WellFormed, NeedsBlock, NeedsTrace, Idle, Frame, Label, Live, Role, Operations, Named, Exists
  <2> QED BY <2>1, <2>2, EnterStep
<1>5. CASE UpdateBlockStatus(c)
  <2>1. PICK b \in Named, o \in DOMAIN Goal :
           Enter(c, [Idle EXCEPT !.op = o, !.pc = "update", !.blk = b, !.val = Goal[o]])
    BY <1>5 DEF UpdateBlockStatus
  <2>2. WellFormed([Idle EXCEPT !.op = o, !.pc = "update", !.blk = b, !.val = Goal[o]])
    BY <2>1, GoalType DEF WellFormed, NeedsBlock, NeedsTrace, Idle, Frame, Label, Live, Role, Operations, Named
  <2> QED BY <2>1, <2>2, EnterStep
<1>6. CASE AttachCounter(c)
  <2>1. PICK b \in Named, t \in Trace :
           Enter(c, [Idle EXCEPT !.op = "counter", !.pc = "get", !.blk = b,
                                 !.trace = t, !.role = "counter"])
    BY <1>6 DEF AttachCounter
  <2>2. WellFormed([Idle EXCEPT !.op = "counter", !.pc = "get", !.blk = b,
                     !.trace = t, !.role = "counter"])
    BY <2>1 DEF WellFormed, NeedsBlock, NeedsTrace, Idle, Frame, Label, Live, Role, Operations, Named
  <2> QED BY <2>1, <2>2, EnterStep
<1>7. CASE MergeBlocks(c)
  <2>1. PICK w \in Named, l \in Named :
           /\ Exists(w)
           /\ Enter(c, [Idle EXCEPT !.op = "merge", !.pc = "loser", !.blk = w,
                                    !.peer = l, !.val = status[w]])
    BY <1>7 DEF MergeBlocks
  <2>2. WellFormed([Idle EXCEPT !.op = "merge", !.pc = "loser", !.blk = w,
                     !.peer = l, !.val = status[w]])
    BY <2>1 DEF WellFormed, NeedsBlock, NeedsTrace, Idle, Frame, Label, Live, Role, Operations, Named, Exists
  <2> QED BY <2>1, <2>2, EnterStep
<1>8. CASE DetachCaseRef(c)
  <2>1. PICK r \in refs :
           Enter(c, [Idle EXCEPT !.op = "detach", !.pc = "detach", !.todo = {r}])
    BY <1>8 DEF DetachCaseRef
  <2>2. WellFormed([Idle EXCEPT !.op = "detach", !.pc = "detach", !.todo = {r}])
    BY <2>1 DEF WellFormed, NeedsBlock, NeedsTrace, Idle, Frame, Label, Live, Role, Operations, Typed, TypeOK
  <2> QED BY <2>1, <2>2, EnterStep
<1>9. CASE OrphanMissingRefs(c)
  <2> DEFINE lost == {r \in refs : r.role # "orphan" /\ r.trace \notin known}
  <2>1. Enter(c, [Idle EXCEPT !.op = "sweep", !.pc = "orphan", !.todo = lost])
    BY <1>9 DEF OrphanMissingRefs
  <2>2. WellFormed([Idle EXCEPT !.op = "sweep", !.pc = "orphan", !.todo = lost])
    BY DEF WellFormed, NeedsBlock, NeedsTrace, Idle, Frame, Label, Live, Role, Operations, Typed, TypeOK
  <2> QED BY <2>1, <2>2, EnterStep
<1>10. CASE HardDeleteBlock(c)
  <2>1. PICK b \in Named :
           Enter(c, [Idle EXCEPT !.op = "erase", !.pc = "erase", !.blk = b])
    BY <1>10 DEF HardDeleteBlock
  <2>2. WellFormed([Idle EXCEPT !.op = "erase", !.pc = "erase", !.blk = b])
    BY <2>1 DEF WellFormed, NeedsBlock, NeedsTrace, Idle, Frame, Label, Live, Role, Operations, Named
  <2> QED BY <2>1, <2>2, EnterStep
<1>11. CASE DeleteBlock(c)
  BY <1>11 DEF DeleteBlock, DropBlock, Typed, TypeOK, Status, Named
<1> QED BY <1>1, <1>2, <1>3, <1>4, <1>5, <1>6, <1>7, <1>8, <1>9, <1>10, <1>11
       DEF Enters


LEMMA AddRefStep ==
    ASSUME Typed, NEW b \in Block, NEW t \in Trace, NEW role \in Role, AddRef(b, t, role)
    PROVE  refs' \subseteq Ref /\ spent' \subseteq RefId
<1>1. PICK i \in RefId \ spent :
         /\ refs' = refs \cup {[id |-> i, block |-> b, trace |-> t, role |-> role]}
         /\ spent' = spent \cup {i}
  BY DEF AddRef
<1>2. [id |-> i, block |-> b, trace |-> t, role |-> role] \in Ref
  BY DEF Ref
<1> QED BY <1>1, <1>2 DEF Typed, TypeOK

LEMMA SetStatusStep ==
    ASSUME Typed, NEW b \in Block, NEW s \in Live, SetStatus(b, s)
    PROVE  status' \in [Block -> Status]
  BY DEF SetStatus, Typed, TypeOK, Status, Exists

LEMMA RunsType ==
    ASSUME Typed, NEW c \in Client, Runs(c)
    PROVE  Typed'
<1> DEFINE f == call[c]
<1> DEFINE FramesTyped == call' \in [Client -> Frame] /\ \A d \in Client : WellFormed(call'[d])
<1>f. f \in Frame /\ WellFormed(f)
  BY DEF Typed, TypeOK
<1>t. ASSUME FramesTyped, UNCHANGED db PROVE Typed'
  BY <1>t DEF Typed, TypeOK, db
<1>1. CASE Distilled(c)
  <2>1. CASE Return(c)
    BY <1>1, <1>t, <2>1, ReturnStep DEF Distilled
  <2>2. CASE \E b \in Unminted : call' = [call EXCEPT ![c].pc = "find", ![c].blk = b]
    <3>1. PICK b \in Block : call' = [call EXCEPT ![c] = [f EXCEPT !.pc = "find", !.blk = b]]
      BY <2>2 DEF Unminted
    <3>2. WellFormed([f EXCEPT !.pc = "find", !.blk = b])
      BY <1>1, <1>f DEF Distilled, At, WellFormed, Frame, Label, NeedsBlock, NeedsTrace
    <3> QED BY <1>1, <1>t, <3>1, <3>2, FrameStep DEF Distilled
  <2> QED BY <1>1, <2>1, <2>2 DEF Distilled
<1>2. CASE Find(c)
  <2>p. f.pc = "find"
    BY <1>2 DEF Find, At
  <2>1. CASE \E a \in SameKey(f.blk) : call' = [call EXCEPT ![c] = OnHit(@, a)]
    <3>1. PICK a \in Block : call' = [call EXCEPT ![c] = OnHit(f, a)]
      BY <2>1 DEF SameKey
    <3>2. CASE f.op = "primer"
      <4>1. OnHit(f, a) = [f EXCEPT !.blk = a, !.val = "active", !.pc = "origin"]
        BY <3>2 DEF OnHit
      <4>2. WellFormed([f EXCEPT !.blk = a, !.val = "active", !.pc = "origin"])
        BY <1>f, <2>p DEF WellFormed, Frame, Label, Live, NeedsBlock, NeedsTrace
      <4> QED BY <1>2, <1>t, <3>1, <4>1, <4>2, FrameStep DEF Find
    <3>3. CASE f.op = "pattern"
      <4>1. OnHit(f, a) = [f EXCEPT !.blk = a, !.role = "supporting", !.pc = "supported"]
        BY <3>3 DEF OnHit
      <4>2. WellFormed([f EXCEPT !.blk = a, !.role = "supporting", !.pc = "supported"])
        BY <1>f, <2>p DEF WellFormed, Frame, Label, Role, NeedsBlock, NeedsTrace
      <4> QED BY <1>2, <1>t, <3>1, <4>1, <4>2, FrameStep DEF Find
    <3>4. CASE f.op \notin {"primer", "pattern"}
      <4>1. OnHit(f, a) = [f EXCEPT !.blk = a, !.role = "supporting", !.pc = "get"]
        BY <3>4 DEF OnHit
      <4>2. WellFormed([f EXCEPT !.blk = a, !.role = "supporting", !.pc = "get"])
        BY <1>f, <2>p DEF WellFormed, Frame, Label, Role, NeedsBlock, NeedsTrace
      <4> QED BY <1>2, <1>t, <3>1, <4>1, <4>2, FrameStep DEF Find
    <3> QED BY <3>2, <3>3, <3>4
  <2>2. CASE call' = [call EXCEPT ![c] = OnMiss(@)]
    <3>1. WellFormed(OnMiss(f))
      BY <1>f, <2>p DEF OnMiss, WellFormed, Frame, Label, NeedsBlock, NeedsTrace
    <3>2. call' = [call EXCEPT ![c] = OnMiss(f)]
      BY <2>2
    <3> QED BY <1>2, <1>t, <3>1, <3>2, FrameStep DEF Find
  <2> QED BY <1>2, <2>1, <2>2 DEF Find
<1>3. CASE AlreadySupported(c)
  <2>1. f.blk \in Block /\ f.trace \in Trace /\ "get" \in Label
    BY <1>3, <1>f DEF AlreadySupported, At, WellFormed, NeedsBlock, NeedsTrace, Label
  <2> QED BY <1>3, <1>t, <2>1, ReturnStep, GotoStep DEF AlreadySupported
<1>4. CASE CommitPattern(c)
  <2>1. f.blk \in Block /\ f.trace \in Trace /\ "origin" \in Role
    BY <1>4, <1>f DEF CommitPattern, At, WellFormed, NeedsBlock, NeedsTrace, Label, Role
  <2>2. FramesTyped
    BY <1>4, ReturnStep DEF CommitPattern
  <2>3. refs' \subseteq Ref /\ spent' \subseteq RefId
    <3>1. CASE AddRef(f.blk, f.trace, "origin")
      BY <2>1, <3>1, AddRefStep
    <3>2. CASE UNCHANGED <<status, refs, spent>>
      BY <3>2 DEF Typed, TypeOK
    <3> QED BY <1>4, <3>1, <3>2 DEF CommitPattern
  <2>4. status' \in [Block -> Status]
    BY <1>4 DEF CommitPattern, Typed, TypeOK, Status, Live
  <2> QED BY <1>4, <2>2, <2>3, <2>4 DEF CommitPattern, Typed, TypeOK
<1>5. CASE Collide(c)
  <2>1. f.blk \in Block /\ f.trace \in Trace /\ "insert" \in Label
    BY <1>5, <1>f DEF Collide, At, WellFormed, NeedsBlock, NeedsTrace, Label
  <2> QED BY <1>5, <1>t, <2>1, ReturnStep, GotoStep DEF Collide
<1>6. CASE StoreBlock(c)
  <2>1. WellFormed([f EXCEPT !.pc = "get", !.role = "origin"])
    BY <1>6, <1>f DEF StoreBlock, At, WellFormed, Frame, Label, Role, NeedsBlock, NeedsTrace
  <2>2. call' = [call EXCEPT ![c] = [f EXCEPT !.pc = "get", !.role = "origin"]]
    BY <1>6 DEF StoreBlock
  <2>3. FramesTyped
    BY <2>1, <2>2, FrameStep
  <2>4. status' \in [Block -> Status]
    BY <1>6 DEF StoreBlock, Insert, Typed, TypeOK, Status, Live
  <2> QED BY <1>6, <2>3, <2>4 DEF StoreBlock, Typed, TypeOK
<1>7. CASE GetBlock(c)
  <2>1. CASE Exists(f.blk)
    <3>1. WellFormed([f EXCEPT !.pc = "link", !.val = status[f.blk]])
      BY <1>7, <1>f, <2>1 DEF GetBlock, At, WellFormed, Frame, Label, NeedsBlock,
                              NeedsTrace, Exists
    <3>2. call' = [call EXCEPT ![c] = [f EXCEPT !.pc = "link", !.val = status[f.blk]]]
      BY <1>7, <2>1 DEF GetBlock
    <3> QED BY <1>7, <1>t, <3>1, <3>2, FrameStep DEF GetBlock
  <2>2. CASE ~Exists(f.blk)
    BY <1>7, <1>t, <2>2, ReturnStep DEF GetBlock
  <2> QED BY <2>1, <2>2
<1>8. CASE LinkRef(c)
  <2>1. f.blk \in Block /\ f.trace \in Trace /\ f.role \in Role /\ f.pc = "link"
    BY <1>8, <1>f DEF LinkRef, At, WellFormed, Frame, NeedsBlock, NeedsTrace, Label
  <2>2. CASE Linkable(f.blk, f.trace, f.role)
    <3>1. FramesTyped
      <4>1. CASE Promotes(f)
        <5>1. WellFormed([f EXCEPT !.pc = "update", !.val = "active"])
          BY <1>f, <2>1 DEF WellFormed, Frame, Label, Live, NeedsBlock, NeedsTrace
        <5>2. call' = [call EXCEPT ![c] = [f EXCEPT !.pc = "update", !.val = "active"]]
          BY <1>8, <2>2, <4>1 DEF LinkRef
        <5> QED BY <5>1, <5>2, FrameStep
      <4>2. CASE ~Promotes(f)
        BY <1>8, <2>2, <4>2, ReturnStep DEF LinkRef
      <4> QED BY <4>1, <4>2
    <3>2. refs' \subseteq Ref /\ spent' \subseteq RefId
      BY <1>8, <2>1, <2>2, AddRefStep DEF LinkRef
    <3>3. status' \in [Block -> Status]
      <4>1. "demoted" \in Live
        BY DEF Live
      <4>2. CASE UNCHANGED status
        BY <4>2 DEF Typed, TypeOK
      <4> QED BY <1>8, <2>1, <2>2, <4>1, <4>2, SetStatusStep DEF LinkRef
    <3> QED BY <1>8, <3>1, <3>2, <3>3 DEF LinkRef, Typed, TypeOK
  <2>3. CASE ~Linkable(f.blk, f.trace, f.role)
    <3>1. Return(c) /\ UNCHANGED db
      BY <1>8, <2>3 DEF LinkRef, db
    <3> QED BY <1>t, <3>1, ReturnStep
  <2> QED BY <2>2, <2>3
<1>9. CASE Update(c)
  <2>1. f.blk \in Block /\ "origin" \in Label \ NeedsTrace /\ "write" \in Label \ NeedsTrace
    BY <1>9, <1>f DEF Update, At, WellFormed, NeedsBlock, NeedsTrace, Label
  <2> QED BY <1>9, <1>t, <2>1, ReturnStep, GotoStep DEF Update
<1>10. CASE CheckOrigin(c)
  <2>1. f.blk \in Block /\ "counter" \in Label \ NeedsTrace
    BY <1>10, <1>f DEF CheckOrigin, At, WellFormed, NeedsBlock, NeedsTrace, Label
  <2> QED BY <1>10, <1>t, <2>1, ReturnStep, GotoStep DEF CheckOrigin
<1>11. CASE CheckCounter(c)
  <2>1. f.blk \in Block /\ "write" \in Label \ NeedsTrace
    BY <1>11, <1>f DEF CheckCounter, At, WellFormed, NeedsBlock, NeedsTrace, Label
  <2> QED BY <1>11, <1>t, <2>1, ReturnStep, GotoStep DEF CheckCounter
<1>12. CASE Write(c)
  <2>1. f.blk \in Block /\ f.val \in Live /\ f.pc = "write"
    BY <1>12, <1>f DEF Write, At, WellFormed, Frame, NeedsBlock, Label
  <2>2. FramesTyped
    <3>1. CASE f.op = "success"
      <4>1. WellFormed([f EXCEPT !.op = "reverify", !.pc = "verify"])
        BY <1>f, <2>1 DEF WellFormed, Frame, Label, Operations, NeedsBlock, NeedsTrace
      <4>2. call' = [call EXCEPT ![c] = [f EXCEPT !.op = "reverify", !.pc = "verify"]]
        BY <1>12, <3>1 DEF Write
      <4> QED BY <4>1, <4>2, FrameStep
    <3>2. CASE f.op # "success"
      BY <1>12, <3>2, ReturnStep DEF Write
    <3> QED BY <3>1, <3>2
  <2>3. status' \in [Block -> Status]
    BY <1>12, <2>1, SetStatusStep DEF Write
  <2> QED BY <1>12, <2>2, <2>3 DEF Write, Typed, TypeOK
<1>13. CASE Verified(c)
  <2>1. f.blk \in Block /\ "origin" \in Label \ NeedsTrace /\ "write" \in Label \ NeedsTrace
    BY <1>13, <1>f DEF Verified, At, WellFormed, NeedsBlock, NeedsTrace, Label
  <2> QED BY <1>13, <1>t, <2>1, GotoStep DEF Verified
<1>14. CASE GetLoser(c)
  <2>1. f.blk \in Block /\ "merge" \in Label \ NeedsTrace
    BY <1>14, <1>f DEF GetLoser, At, WellFormed, NeedsBlock, NeedsTrace, Label
  <2> QED BY <1>14, <1>t, <2>1, ReturnStep, GotoStep DEF GetLoser
<1>15. CASE MergeTx(c)
  <2>1. f.blk \in Block /\ f.val \in Live
    BY <1>15, <1>f DEF MergeTx, At, WellFormed, Frame, NeedsBlock, Label
  <2>2. FramesTyped
    BY <1>15, ReturnStep DEF MergeTx
  <2>3. status' \in [Block -> Status]
    BY <1>15, <2>1 DEF MergeTx, Typed, TypeOK, Status, Live
  <2>4. Repointed(f.blk, f.peer) \subseteq Ref
    BY <2>1 DEF Repointed, Typed, TypeOK, Ref
  <2>5. refs' \subseteq Ref
    BY <1>15, <2>4 DEF MergeTx, Typed, TypeOK
  <2> QED BY <1>15, <2>2, <2>3, <2>5 DEF MergeTx, Typed, TypeOK
<1>16. CASE DetachRow(c)
  <2>1. PICK r \in f.todo :
           /\ refs' = {q \in refs : q.id # r.id}
           /\ IF r.role = "origin" /\ refs' # refs
              THEN call' = [call EXCEPT ![c] = [f EXCEPT !.pc = "stillHas",
                                                !.blk = r.block, !.todo = {}]]
              ELSE Return(c)
    BY <1>16 DEF DetachRow
  <2>2. r \in Ref
    BY <1>f, <2>1 DEF Frame
  <2>3. WellFormed([f EXCEPT !.pc = "stillHas", !.blk = r.block, !.todo = {}])
    BY <1>f, <2>2 DEF WellFormed, Frame, Label, NeedsBlock, NeedsTrace, Ref
  <2>4. FramesTyped
    BY <2>1, <2>3, FrameStep, ReturnStep
  <2> QED BY <1>16, <2>1, <2>4 DEF DetachRow, Typed, TypeOK
<1>17. CASE Orphan(c)
  <2>1. CASE Return(c) /\ UNCHANGED refs
    <3>1. UNCHANGED db
      BY <1>17, <2>1 DEF Orphan, db
    <3> QED BY <1>t, <2>1, <3>1, ReturnStep
  <2>2. ASSUME NEW r \in f.todo, NEW rows, rows = {q \in refs : q.id = r.id},
               refs' = (refs \ rows) \cup {[q EXCEPT !.role = "orphan"] : q \in rows},
               call' = [call EXCEPT ![c].todo = @ \ {r}, ![c].blk = r.block,
                                    ![c].pc = IF r.role = "origin" THEN "stillHas"
                                              ELSE "orphan"]
        PROVE  Typed'
    <3> DEFINE g == [f EXCEPT !.todo = @ \ {r}, !.blk = r.block,
                              !.pc = IF r.role = "origin" THEN "stillHas" ELSE "orphan"]
    <3>1. r \in Ref
      BY <1>f, <2>2 DEF Frame
    <3>2. WellFormed(g)
      BY <1>f, <3>1 DEF WellFormed, Frame, Label, NeedsBlock, NeedsTrace, Ref
    <3>3. call' = [call EXCEPT ![c] = g]
      BY <2>2
    <3>4. FramesTyped
      BY <3>2, <3>3, FrameStep
    <3>5. refs' \subseteq Ref
      BY <2>2 DEF Typed, TypeOK, Ref, Role
    <3> QED BY <1>17, <3>4, <3>5 DEF Orphan, Typed, TypeOK
  <2> QED BY <1>17, <2>1, <2>2 DEF Orphan
<1>18. CASE StillHas(c)
  <2>1. f.blk \in Block /\ "quarantine" \in Label \ NeedsTrace
                        /\ "orphan" \in Label \ (NeedsTrace \cup NeedsBlock)
    BY <1>18, <1>f DEF StillHas, At, WellFormed, NeedsBlock, NeedsTrace, Label
  <2> QED BY <1>18, <1>t, <2>1, ReturnStep, GotoStep DEF StillHas, Resume
<1>19. CASE Quarantine(c)
  <2>1. "orphan" \in Label \ (NeedsTrace \cup NeedsBlock)
    BY DEF NeedsBlock, NeedsTrace, Label
  <2>2. FramesTyped
    BY <1>19, <2>1, ReturnStep, GotoStep DEF Quarantine, Resume
  <2>3. status' \in [Block -> Status]
    BY <1>19 DEF Quarantine, Quarantined, Typed, TypeOK, Status, Live
  <2> QED BY <1>19, <2>2, <2>3 DEF Quarantine, Typed, TypeOK
<1>20. CASE EraseTx(c)
  <2>1. f.blk \in Block
    BY <1>20, <1>f DEF EraseTx, At, WellFormed, NeedsBlock, Label
  <2>2. FramesTyped
    BY <1>20, ReturnStep DEF EraseTx
  <2>3. status' \in [Block -> Status] /\ refs' \subseteq Ref /\ tombs' \in [Block -> Nat]
    BY <1>20, <2>1 DEF EraseTx, DropBlock, Typed, TypeOK, Status
  <2> QED BY <1>20, <2>2, <2>3 DEF EraseTx, Typed, TypeOK
<1> QED BY <1>1, <1>2, <1>3, <1>4, <1>5, <1>6, <1>7, <1>8, <1>9, <1>10, <1>11,
           <1>12, <1>13, <1>14, <1>15, <1>16, <1>17, <1>18, <1>19, <1>20 DEF Runs

LEMMA TypedInit == Init => Typed
  BY IdleWellFormed DEF Init, Typed, TypeOK, Status

LEMMA TypedStep == Typed /\ [Next]_vars => Typed'
<1> SUFFICES ASSUME Typed, [Next]_vars PROVE Typed'
  OBVIOUS
<1>1. CASE \E c \in Client : Enters(c)
  BY <1>1, EntersType
<1>2. CASE \E c \in Client : Runs(c)
  BY <1>2, RunsType
<1>3. CASE \E c \in Client : Fail(c)
  BY <1>3, ReturnStep DEF Fail, db, Typed, TypeOK
<1>4. CASE \E t \in Trace : DeleteTrace(t)
  BY <1>4 DEF DeleteTrace, Typed, TypeOK
<1>5. CASE UNCHANGED vars
  BY <1>5 DEF vars, Typed, TypeOK
<1> QED BY <1>1, <1>2, <1>3, <1>4, <1>5 DEF Next

\* The tables and the frames are well typed, for any number of clients,
\* blocks, traces and refs, and whichever processes die.
THEOREM TypeCorrect == Spec => []TypeOK
<1>1. Typed => TypeOK
  BY DEF Typed
<1> QED BY <1>1, TypedInit, TypedStep, PTL DEF Spec

-----------------------------------------------------------------------------
(* Erasure.  An id is fresh until its INSERT and belongs to one call while *)
(* it is a draft, every other block a call names was in the table once; so *)
(* no statement of a call can bring a deleted block back.                  *)

Draft == {"find", "collide", "insert", "pattern"}

DraftsFresh ==
    \A c \in Client : call[c].pc \in Draft =>
        /\ status[call[c].blk] = "fresh"
        /\ \A d \in Client \ {c} : call[d].blk # call[c].blk

NamedOnce ==
    \A c \in Client :
        /\ call[c].pc \notin Draft =>
              call[c].blk = NoBlock \/ status[call[c].blk] # "fresh"
        /\ \A r \in call[c].todo : status[r.block] # "fresh"

Catalogued == Typed /\ DraftsFresh /\ NamedOnce /\ NoDanglingRef

\* What a step of one call does to the tables.
TableMoves(c) ==
    /\ \A b \in Block : status[b] = "gone" => status'[b] = "gone"
    /\ \A b \in Block : status[b] # "fresh" => status'[b] # "fresh"
    /\ \A b \in Block : status[b] = "fresh" /\ status'[b] # "fresh" =>
          call[c].pc \in {"insert", "pattern"} /\ b = call[c].blk
    /\ \A r \in refs' : status'[r.block] \in Live

\* What it does to the frames.
FrameMoves(c) ==
    /\ \A d \in Client \ {c} : call'[d] = call[d]
    /\ call'[c].pc \in Draft =>
          /\ UNCHANGED status
          /\ status[call'[c].blk] = "fresh"
          /\ \A d \in Client \ {c} : call[d].blk # call'[c].blk
    /\ call'[c].pc \notin Draft =>
          call'[c].blk = NoBlock \/ status'[call'[c].blk] # "fresh"
    /\ \A r \in call'[c].todo : status[r.block] # "fresh"

LEMMA MovesKeepCatalogue ==
    ASSUME Catalogued, Typed', NEW c \in Client, TableMoves(c), FrameMoves(c)
    PROVE  Catalogued'
<1>1. NoDanglingRef'
  BY DEF TableMoves, NoDanglingRef, Exists
<1>2. DraftsFresh'
  <2> SUFFICES ASSUME NEW d \in Client, call'[d].pc \in Draft
               PROVE  /\ status'[call'[d].blk] = "fresh"
                      /\ \A e \in Client \ {d} : call'[e].blk # call'[d].blk
    BY DEF DraftsFresh
  <2>1. CASE d = c
    BY <2>1 DEF FrameMoves
  <2>2. CASE d # c
    <3>1. /\ call'[d] = call[d]
          /\ status[call[d].blk] = "fresh"
          /\ \A e \in Client \ {d} : call[e].blk # call[d].blk
      BY <2>2 DEF FrameMoves, Catalogued, DraftsFresh
    <3>2. call[d].blk \in Block
      BY <3>1 DEF Catalogued, Typed, WellFormed, NeedsBlock, Draft, Label
    <3>3. status'[call[d].blk] = "fresh"
      BY <2>2, <3>1, <3>2 DEF TableMoves
    <3>4. call'[c].blk # call[d].blk
      <4>1. CASE call'[c].pc \in Draft
        BY <2>2, <4>1 DEF FrameMoves
      <4>2. CASE call'[c].pc \notin Draft
        BY <3>2, <3>3, <4>2, SentinelAssumption DEF FrameMoves
      <4> QED BY <4>1, <4>2
    <3> QED BY <2>2, <3>1, <3>3, <3>4 DEF FrameMoves
  <2> QED BY <2>1, <2>2
<1>3. NamedOnce'
  <2> SUFFICES ASSUME NEW d \in Client
               PROVE  /\ call'[d].pc \notin Draft =>
                            call'[d].blk = NoBlock \/ status'[call'[d].blk] # "fresh"
                      /\ \A r \in call'[d].todo : status'[r.block] # "fresh"
    BY DEF NamedOnce
  <2>1. call'[d] \in Frame /\ \A r \in call'[d].todo : r.block \in Block
    BY DEF Typed, TypeOK, Frame, Ref
  <2>2. \A r \in call'[d].todo : status[r.block] # "fresh"
    BY DEF FrameMoves, Catalogued, NamedOnce
  <2>3. call'[d].pc \notin Draft => call'[d].blk = NoBlock \/ status'[call'[d].blk] # "fresh"
    <3>1. CASE d = c
      BY <3>1 DEF FrameMoves
    <3>2. CASE d # c
      <4>1. call'[d] = call[d] /\ call[d].blk \in Block \cup {NoBlock}
        BY <3>2, <2>1 DEF FrameMoves, Frame
      <4> QED BY <3>2, <4>1 DEF TableMoves, Catalogued, NamedOnce
    <3> QED BY <3>1, <3>2
  <2> QED BY <2>1, <2>2, <2>3 DEF TableMoves
<1> QED BY <1>1, <1>2, <1>3 DEF Catalogued

\* Statements that only read, and calls that start, leave the tables alone.
LEMMA ReadsMoveNoRow ==
    ASSUME Catalogued, NEW c \in Client, UNCHANGED db
    PROVE  TableMoves(c)
  BY DEF Catalogued, NoDanglingRef, Exists, TableMoves, db

LEMMA ReturnMoves ==
    ASSUME Catalogued, NEW c \in Client, Return(c)
    PROVE  FrameMoves(c)
  BY DEF Catalogued, Typed, TypeOK, Return, Idle, FrameMoves, Draft

\* A frame that names a draft nobody holds, or rows that were inserted.
NamesRows(f) ==
    /\ f \in Frame
    /\ f.pc \in Draft => f.blk \in Unminted
    /\ f.pc \notin Draft => f.blk \in Named \cup {NoBlock}
    /\ \A r \in f.todo : status[r.block] # "fresh"

LEMMA ReadMoves ==
    ASSUME Catalogued, NEW c \in Client, NEW f, NamesRows(f), UNCHANGED db,
           call' = [call EXCEPT ![c] = f]
    PROVE  TableMoves(c) /\ FrameMoves(c)
<1>1. TableMoves(c)
  BY ReadsMoveNoRow
<1>2. call'[c] = f /\ \A d \in Client \ {c} : call'[d] = call[d]
  BY DEF Catalogued, Typed, TypeOK
<1>3. UNCHANGED status
  BY DEF db
<1> QED BY <1>1, <1>2, <1>3 DEF FrameMoves, Unminted, Named, NamesRows

LEMMA EnterMoves ==
    ASSUME Catalogued, NEW c \in Client, NEW f, NamesRows(f), Enter(c, f)
    PROVE  TableMoves(c) /\ FrameMoves(c)
  BY ReadMoves DEF Enter

\* A deletion takes the block's refs along and touches no other row.
LEMMA DropMoves ==
    ASSUME Catalogued, NEW c \in Client, NEW b \in Block, DropBlock(b)
    PROVE  TableMoves(c)
<1>1. \A a \in Block : status'[a] = status[a] \/ (a = b /\ Exists(b) /\ status'[a] = "gone")
  BY DEF DropBlock, Catalogued, Typed, TypeOK
<1>2. \A r \in refs' : r \in refs /\ r.block # b /\ r.block \in Block
  BY DEF DropBlock, Catalogued, Typed, TypeOK, Ref
<1>3. "fresh" \notin Live /\ "gone" \notin Live
  BY DEF Live
<1> QED BY <1>1, <1>2, <1>3 DEF TableMoves, Exists, Catalogued, NoDanglingRef

LEMMA EntersMoves ==
    ASSUME Catalogued, NEW c \in Client, Enters(c)
    PROVE  TableMoves(c) /\ FrameMoves(c)
<1>1. CASE DistillTrace(c)
  <2>1. PICK t \in known, lane \in {"success", "failure"} :
           Enter(c, [Idle EXCEPT !.op = lane, !.pc = "distill", !.trace = t])
    BY <1>1 DEF DistillTrace
  <2>2. NamesRows([Idle EXCEPT !.op = lane, !.pc = "distill", !.trace = t])
    BY <2>1 DEF NamesRows, Draft, Idle, Frame, Label, Live, Role, Operations, Catalogued, Typed, TypeOK, NoDanglingRef, Exists
  <2> QED BY <2>1, <2>2, EnterMoves
<1>2. CASE StorePattern(c)
  <2>1. PICK t \in Trace, b \in Unminted :
           Enter(c, [Idle EXCEPT !.op = "pattern", !.pc = "find", !.blk = b, !.trace = t])
    BY <1>2 DEF StorePattern
  <2>2. NamesRows([Idle EXCEPT !.op = "pattern", !.pc = "find", !.blk = b, !.trace = t])
    BY <2>1 DEF NamesRows, Draft, Idle, Frame, Label, Live, Role, Operations, Unminted
  <2> QED BY <2>1, <2>2, EnterMoves
<1>3. CASE DistillDomain(c)
  <2>1. PICK t \in Trace, b \in Unminted :
           Enter(c, [Idle EXCEPT !.op = "primer", !.pc = "find", !.blk = b, !.trace = t])
    BY <1>3 DEF DistillDomain
  <2>2. NamesRows([Idle EXCEPT !.op = "primer", !.pc = "find", !.blk = b, !.trace = t])
    BY <2>1 DEF NamesRows, Draft, Idle, Frame, Label, Live, Role, Operations, Unminted
  <2> QED BY <2>1, <2>2, EnterMoves
<1>4. CASE ReadForWriteBack(c)
  <2>1. PICK b \in Named, o \in {"reverify", "sync"} :
           /\ Exists(b)
           /\ Enter(c, [Idle EXCEPT !.op = o, !.blk = b, !.val = status[b],
                                 !.pc = IF o = "reverify" THEN "verify"
                                        ELSE IF status[b] = "active" THEN "origin"
                                        ELSE "write"])
    BY <1>4 DEF ReadForWriteBack
  <2>2. NamesRows([Idle EXCEPT !.op = o, !.blk = b, !.val = status[b],
                     !.pc = IF o = "reverify" THEN "verify"
                            ELSE IF status[b] = "active" THEN "origin"
                            ELSE "write"])
    BY <2>1 DEF NamesRows, Draft, Idle, Frame, Label, Live, Role, Operations, Named, Exists
  <2> QED BY <2>1, <2>2, EnterMoves
<1>5. CASE UpdateBlockStatus(c)
  <2>1. PICK b \in Named, o \in DOMAIN Goal :
           Enter(c, [Idle EXCEPT !.op = o, !.pc = "update", !.blk = b, !.val = Goal[o]])
    BY <1>5 DEF UpdateBlockStatus
  <2>2. NamesRows([Idle EXCEPT !.op = o, !.pc = "update", !.blk = b, !.val = Goal[o]])
    BY <2>1, GoalType DEF NamesRows, Draft, Idle, Frame, Label, Live, Role, Operations, Named
  <2> QED BY <2>1, <2>2, EnterMoves
<1>6. CASE AttachCounter(c)
  <2>1. PICK b \in Named, t \in Trace :
           Enter(c, [Idle EXCEPT !.op = "counter", !.pc = "get", !.blk = b,
                                 !.trace = t, !.role = "counter"])
    BY <1>6 DEF AttachCounter
  <2>2. NamesRows([Idle EXCEPT !.op = "counter", !.pc = "get", !.blk = b,
                     !.trace = t, !.role = "counter"])
    BY <2>1 DEF NamesRows, Draft, Idle, Frame, Label, Live, Role, Operations, Named
  <2> QED BY <2>1, <2>2, EnterMoves
<1>7. CASE MergeBlocks(c)
  <2>1. PICK w \in Named, l \in Named :
           /\ Exists(w)
           /\ Enter(c, [Idle EXCEPT !.op = "merge", !.pc = "loser", !.blk = w,
                                    !.peer = l, !.val = status[w]])
    BY <1>7 DEF MergeBlocks
  <2>2. NamesRows([Idle EXCEPT !.op = "merge", !.pc = "loser", !.blk = w,
                     !.peer = l, !.val = status[w]])
    BY <2>1 DEF NamesRows, Draft, Idle, Frame, Label, Live, Role, Operations, Named, Exists
  <2> QED BY <2>1, <2>2, EnterMoves
<1>8. CASE DetachCaseRef(c)
  <2>1. PICK r \in refs :
           Enter(c, [Idle EXCEPT !.op = "detach", !.pc = "detach", !.todo = {r}])
    BY <1>8 DEF DetachCaseRef
  <2>2. NamesRows([Idle EXCEPT !.op = "detach", !.pc = "detach", !.todo = {r}])
    BY <2>1 DEF NamesRows, Draft, Idle, Frame, Label, Live, Role, Operations, Catalogued, Typed, TypeOK, NoDanglingRef, Exists
  <2> QED BY <2>1, <2>2, EnterMoves
<1>9. CASE OrphanMissingRefs(c)
  <2> DEFINE lost == {r \in refs : r.role # "orphan" /\ r.trace \notin known}
  <2>1. Enter(c, [Idle EXCEPT !.op = "sweep", !.pc = "orphan", !.todo = lost])
    BY <1>9 DEF OrphanMissingRefs
  <2>2. NamesRows([Idle EXCEPT !.op = "sweep", !.pc = "orphan", !.todo = lost])
    BY DEF NamesRows, Draft, Idle, Frame, Label, Live, Role, Operations, Catalogued, Typed, TypeOK, NoDanglingRef, Exists
  <2> QED BY <2>1, <2>2, EnterMoves
<1>10. CASE HardDeleteBlock(c)
  <2>1. PICK b \in Named :
           Enter(c, [Idle EXCEPT !.op = "erase", !.pc = "erase", !.blk = b])
    BY <1>10 DEF HardDeleteBlock
  <2>2. NamesRows([Idle EXCEPT !.op = "erase", !.pc = "erase", !.blk = b])
    BY <2>1 DEF NamesRows, Draft, Idle, Frame, Label, Live, Role, Operations, Named
  <2> QED BY <2>1, <2>2, EnterMoves
<1>11. CASE DeleteBlock(c)
  <2>1. PICK b \in Block : DropBlock(b) /\ UNCHANGED call
    BY <1>11 DEF DeleteBlock, Named
  <2>2. TableMoves(c)
    BY <2>1, DropMoves
  <2>3. call[c].pc = "idle"
    BY <1>11 DEF DeleteBlock, At
  <2>4. call[c].blk = NoBlock \/ status[call[c].blk] # "fresh"
    BY <2>3 DEF Catalogued, NamedOnce, Draft
  <2>5. call[c].blk \in Block \cup {NoBlock} /\ call'[c] = call[c]
    BY <2>1 DEF Catalogued, Typed, TypeOK, Frame
  <2> QED BY <2>1, <2>2, <2>3, <2>4, <2>5 DEF FrameMoves, TableMoves, Catalogued, NamedOnce, Draft
<1> QED BY <1>1, <1>2, <1>3, <1>4, <1>5, <1>6, <1>7, <1>8, <1>9, <1>10, <1>11
       DEF Enters

\* Writes that keep inserted rows inserted, insert the writer's own draft, and
\* point refs at inserted rows.
RefsLand == \A r \in refs' : r \in refs \/ (r.block \in Block /\ status'[r.block] \in Live)

RowLands(c, a) ==
    \/ status'[a] = status[a]
    \/ status[a] \in Live /\ status'[a] \in Live
    \/ /\ status[a] = "fresh" /\ status'[a] \in Live
       /\ a = call[c].blk /\ call[c].pc \in {"insert", "pattern"}

LEMMA RowsMove ==
    ASSUME Catalogued, NEW c \in Client, RefsLand, \A a \in Block : RowLands(c, a)
    PROVE  TableMoves(c)
<1>1. \A r \in refs : r.block \in Block /\ status[r.block] \in Live
  BY DEF Catalogued, Typed, TypeOK, Ref, NoDanglingRef, Exists
<1>2. "fresh" \notin Live /\ "gone" \notin Live
  BY DEF Live
<1> QED BY <1>1, <1>2 DEF TableMoves, RefsLand, RowLands

LEMMA AddedRef ==
    ASSUME NEW b, NEW t, NEW role, AddRef(b, t, role)
    PROVE  \A r \in refs' : r \in refs \/ r.block = b
  BY DEF AddRef

LEMMA SetStatusRows ==
    ASSUME Catalogued, NEW b \in Block, NEW s \in Live, SetStatus(b, s)
    PROVE  \A a \in Block :
              status'[a] = status[a] \/ (status[a] \in Live /\ status'[a] \in Live)
  BY DEF SetStatus, Catalogued, Typed, TypeOK, Exists

\* A call that stays with its draft, or with the row it works on.
LEMMA SameBlockMoves ==
    ASSUME Catalogued, NEW c \in Client, NEW g, TableMoves(c),
           call' = [call EXCEPT ![c] = g],
           g.blk = call[c].blk, g.todo = call[c].todo,
           \/ g.pc \in Draft /\ call[c].pc \in Draft /\ UNCHANGED status
           \/ g.pc \notin Draft /\ call[c].pc \notin Draft
           \/ g.pc \notin Draft /\ status'[g.blk] # "fresh"
    PROVE  FrameMoves(c)
<1>1. call'[c] = g /\ \A d \in Client \ {c} : call'[d] = call[d]
  BY DEF Catalogued, Typed, TypeOK
<1>2. call[c].blk \in Block \cup {NoBlock}
  BY DEF Catalogued, Typed, TypeOK, Frame
<1> QED BY <1>1, <1>2 DEF FrameMoves, TableMoves, Catalogued, DraftsFresh, NamedOnce

LEMMA GotoMoves ==
    ASSUME Catalogued, NEW c \in Client, NEW l, TableMoves(c), Goto(c, l),
           \/ l \in Draft /\ call[c].pc \in Draft /\ UNCHANGED status
           \/ l \notin Draft /\ call[c].pc \notin Draft
    PROVE  FrameMoves(c)
<1> DEFINE g == [call[c] EXCEPT !.pc = l]
<1>1. g.blk = call[c].blk /\ g.todo = call[c].todo /\ g.pc = l
  BY DEF Catalogued, Typed, TypeOK, Frame
<1>2. call' = [call EXCEPT ![c] = g]
  BY DEF Goto
<1> QED BY <1>1, <1>2, SameBlockMoves

LEMMA RunsMoves ==
    ASSUME Catalogued, NEW c \in Client, Runs(c)
    PROVE  TableMoves(c) /\ FrameMoves(c)
<1> DEFINE f == call[c]
<1>f. f \in Frame /\ WellFormed(f) /\ f \in [op : Operations \cup {"none"}, pc : Label,
          blk : Block \cup {NoBlock}, peer : Block \cup {NoBlock},
          trace : Trace \cup {NoTrace}, role : Role,
          val : Live, todo : SUBSET Ref]
  BY DEF Catalogued, Typed, TypeOK, Frame
<1>l. "fresh" \notin Live /\ "gone" \notin Live
  BY DEF Live
<1>1. CASE Distilled(c)
  <2>1. CASE Return(c)
    BY <1>1, <2>1, ReturnMoves, ReadsMoveNoRow DEF Distilled
  <2>2. CASE \E b \in Unminted : call' = [call EXCEPT ![c].pc = "find", ![c].blk = b]
    <3>1. PICK b \in Unminted : call' = [call EXCEPT ![c] = [f EXCEPT !.pc = "find", !.blk = b]]
      BY <2>2
    <3>2. NamesRows([f EXCEPT !.pc = "find", !.blk = b])
      BY <3>1, <1>f DEF NamesRows, Draft, Frame, Label, Unminted, Catalogued, NamedOnce
    <3> QED BY <1>1, <3>1, <3>2, ReadMoves DEF Distilled
  <2> QED BY <1>1, <2>1, <2>2 DEF Distilled
<1>2. CASE Find(c)
  <2>p. f.pc = "find" /\ UNCHANGED db /\ TableMoves(c)
    BY <1>2, ReadsMoveNoRow DEF Find, At
  <2>1. CASE \E a \in SameKey(f.blk) : call' = [call EXCEPT ![c] = OnHit(@, a)]
    <3>1. PICK a \in Named : call' = [call EXCEPT ![c] = OnHit(f, a)]
      BY <2>1, <1>l DEF SameKey, Named, Exists
    <3>2. a \in Block
      BY <3>1 DEF Named
    <3>3. \A r \in f.todo : status[r.block] # "fresh"
      BY DEF Catalogued, NamedOnce
    <3>4. CASE f.op = "primer"
      <4>1. OnHit(f, a) = [f EXCEPT !.blk = a, !.val = "active", !.pc = "origin"]
        BY <3>4 DEF OnHit
      <4>2. NamesRows([f EXCEPT !.blk = a, !.val = "active", !.pc = "origin"])
        BY <1>f, <3>1, <3>2, <3>3 DEF NamesRows, Draft, Frame, Label, Live
      <4> QED BY <2>p, <3>1, <4>1, <4>2, ReadMoves
    <3>5. CASE f.op = "pattern"
      <4>1. OnHit(f, a) = [f EXCEPT !.blk = a, !.role = "supporting", !.pc = "supported"]
        BY <3>5 DEF OnHit
      <4>2. NamesRows([f EXCEPT !.blk = a, !.role = "supporting", !.pc = "supported"])
        BY <1>f, <3>1, <3>2, <3>3 DEF NamesRows, Draft, Frame, Label, Role
      <4> QED BY <2>p, <3>1, <4>1, <4>2, ReadMoves
    <3>6. CASE f.op \notin {"primer", "pattern"}
      <4>1. OnHit(f, a) = [f EXCEPT !.blk = a, !.role = "supporting", !.pc = "get"]
        BY <3>6 DEF OnHit
      <4>2. NamesRows([f EXCEPT !.blk = a, !.role = "supporting", !.pc = "get"])
        BY <1>f, <3>1, <3>2, <3>3 DEF NamesRows, Draft, Frame, Label, Role
      <4> QED BY <2>p, <3>1, <4>1, <4>2, ReadMoves
    <3> QED BY <3>4, <3>5, <3>6
  <2>2. CASE call' = [call EXCEPT ![c] = OnMiss(@)]
    <3>1. call' = [call EXCEPT ![c] = OnMiss(f)]
      BY <2>2
    <3>2. /\ OnMiss(f).blk = f.blk /\ OnMiss(f).todo = f.todo
          /\ OnMiss(f).pc \in Draft /\ f.pc \in Draft
      BY <1>f, <2>p DEF OnMiss, Draft
    <3>3. UNCHANGED status
      BY <2>p DEF db
    <3> QED BY <2>p, <3>1, <3>2, <3>3, SameBlockMoves
  <2> QED BY <1>2, <2>1, <2>2 DEF Find
<1>3. CASE AlreadySupported(c)
  <2>1. f.pc \notin Draft /\ "get" \notin Draft /\ TableMoves(c)
    BY <1>3, ReadsMoveNoRow DEF AlreadySupported, At, Draft
  <2> QED BY <1>3, <2>1, ReturnMoves, GotoMoves DEF AlreadySupported
<1>4. CASE CommitPattern(c)
  <2>1. FrameMoves(c)
    BY <1>4, ReturnMoves DEF CommitPattern
  <2>2. CASE UNCHANGED <<status, refs, spent>>
    BY <1>4, <2>1, <2>2, ReadsMoveNoRow DEF CommitPattern, db
  <2>3. CASE AddRef(f.blk, f.trace, "origin") /\ status' = [status EXCEPT ![f.blk] = "active"]
    <3>1. f.pc = "pattern" /\ f.blk \in Block /\ status[f.blk] = "fresh"
      BY <1>4, <1>f DEF CommitPattern, At, WellFormed, NeedsBlock, Label, Catalogued,
                        DraftsFresh, Draft
    <3>2. \A a \in Block : status'[a] = IF a = f.blk THEN "active" ELSE status[a]
      BY <2>3 DEF Catalogued, Typed, TypeOK
    <3>3. "active" \in Live
      BY DEF Live
    <3>4. RefsLand
      BY <2>3, <3>1, <3>2, <3>3, AddedRef DEF RefsLand
    <3>5. \A a \in Block : RowLands(c, a)
      BY <3>1, <3>2, <3>3 DEF RowLands
    <3> QED BY <2>1, <3>4, <3>5, RowsMove
  <2> QED BY <1>4, <2>1, <2>2, <2>3 DEF CommitPattern
<1>5. CASE Collide(c)
  <2>1. f.pc \in Draft /\ "insert" \in Draft /\ TableMoves(c) /\ UNCHANGED status
    BY <1>5, ReadsMoveNoRow DEF Collide, At, Draft, db
  <2> QED BY <1>5, <2>1, ReturnMoves, GotoMoves DEF Collide
<1>6. CASE StoreBlock(c)
  <2>1. f.pc = "insert" /\ f.blk \in Block /\ status[f.blk] = "fresh"
    BY <1>6, <1>f DEF StoreBlock, At, WellFormed, NeedsBlock, Label, Catalogued,
                      DraftsFresh, Draft
  <2>2. \A a \in Block : status'[a] = IF a = f.blk THEN "candidate" ELSE status[a]
    BY <1>6 DEF StoreBlock, Insert, Catalogued, Typed, TypeOK
  <2>3. "candidate" \in Live /\ refs' = refs
    BY <1>6 DEF Live, StoreBlock
  <2>4. TableMoves(c)
    <3>1. RefsLand
      BY <2>3 DEF RefsLand
    <3>2. \A a \in Block : RowLands(c, a)
      BY <2>1, <2>2, <2>3 DEF RowLands
    <3> QED BY <3>1, <3>2, RowsMove
  <2> DEFINE g == [f EXCEPT !.pc = "get", !.role = "origin"]
  <2>5. call' = [call EXCEPT ![c] = g]
    BY <1>6 DEF StoreBlock
  <2>6. g.blk = f.blk /\ g.todo = f.todo /\ g.pc = "get" /\ "get" \notin Draft
    BY <1>f DEF Draft
  <2>7. status'[f.blk] # "fresh"
    BY <2>1, <2>2
  <2> QED BY <2>4, <2>5, <2>6, <2>7, SameBlockMoves
<1>7. CASE GetBlock(c)
  <2>1. f.pc \notin Draft /\ TableMoves(c)
    BY <1>7, ReadsMoveNoRow DEF GetBlock, At, Draft
  <2>2. CASE Exists(f.blk)
    <3> DEFINE g == [f EXCEPT !.pc = "link", !.val = status[f.blk]]
    <3>1. call' = [call EXCEPT ![c] = g]
      BY <1>7, <2>2 DEF GetBlock
    <3>2. g.blk = f.blk /\ g.todo = f.todo /\ g.pc = "link" /\ "link" \notin Draft
      BY <1>f DEF Draft
    <3> QED BY <2>1, <3>1, <3>2, SameBlockMoves
  <2>3. CASE ~Exists(f.blk)
    BY <1>7, <2>1, <2>3, ReturnMoves DEF GetBlock
  <2> QED BY <2>2, <2>3
<1>8. CASE LinkRef(c)
  <2>1. f.blk \in Block /\ f.pc = "link" /\ f.pc \notin Draft /\ "demoted" \in Live
    BY <1>8, <1>f DEF LinkRef, At, WellFormed, NeedsBlock, Label, Draft, Live
  <2>2. CASE Linkable(f.blk, f.trace, f.role)
    <3>1. \A a \in Block :
             status'[a] = status[a] \/ (status[a] \in Live /\ status'[a] \in Live)
      BY <1>8, <2>1, <2>2, SetStatusRows DEF LinkRef
    <3>2. \A r \in refs' : r \in refs \/ r.block = f.blk
      BY <1>8, <2>2, AddedRef DEF LinkRef
    <3>3. status[f.blk] \in Live
      BY <2>2 DEF Linkable, Exists
    <3>4. TableMoves(c)
      <4>1. status'[f.blk] \in Live
        BY <2>1, <3>1, <3>3
      <4>2. RefsLand
        BY <2>1, <3>2, <4>1 DEF RefsLand
      <4>3. \A a \in Block : RowLands(c, a)
        BY <3>1 DEF RowLands
      <4> QED BY <4>2, <4>3, RowsMove
    <3>5. CASE Promotes(f)
      <4> DEFINE g == [f EXCEPT !.pc = "update", !.val = "active"]
      <4>1. call' = [call EXCEPT ![c] = g]
        BY <1>8, <2>2, <3>5 DEF LinkRef
      <4>2. g.blk = f.blk /\ g.todo = f.todo /\ g.pc = "update" /\ "update" \notin Draft
        BY <1>f DEF Draft
      <4> QED BY <2>1, <3>4, <4>1, <4>2, SameBlockMoves
    <3>6. CASE ~Promotes(f)
      BY <1>8, <2>2, <3>4, <3>6, ReturnMoves DEF LinkRef
    <3> QED BY <3>5, <3>6
  <2>3. CASE ~Linkable(f.blk, f.trace, f.role)
    BY <1>8, <2>3, ReturnMoves, ReadsMoveNoRow DEF LinkRef, db
  <2> QED BY <2>2, <2>3
<1>9. CASE Update(c)
  <2>1. f.pc \notin Draft /\ "origin" \notin Draft /\ "write" \notin Draft /\ TableMoves(c)
    BY <1>9, ReadsMoveNoRow DEF Update, At, Draft
  <2> QED BY <1>9, <2>1, ReturnMoves, GotoMoves DEF Update
<1>10. CASE CheckOrigin(c)
  <2>1. f.pc \notin Draft /\ "counter" \notin Draft /\ TableMoves(c)
    BY <1>10, ReadsMoveNoRow DEF CheckOrigin, At, Draft
  <2> QED BY <1>10, <2>1, ReturnMoves, GotoMoves DEF CheckOrigin
<1>11. CASE CheckCounter(c)
  <2>1. f.pc \notin Draft /\ "write" \notin Draft /\ TableMoves(c)
    BY <1>11, ReadsMoveNoRow DEF CheckCounter, At, Draft
  <2> QED BY <1>11, <2>1, ReturnMoves, GotoMoves DEF CheckCounter
<1>12. CASE Write(c)
  <2>1. f.blk \in Block /\ f.val \in Live /\ f.pc \notin Draft
    BY <1>12, <1>f DEF Write, At, WellFormed, NeedsBlock, Label, Draft
  <2>2. TableMoves(c)
    <3>1. \A a \in Block :
             status'[a] = status[a] \/ (status[a] \in Live /\ status'[a] \in Live)
      BY <1>12, <2>1, SetStatusRows DEF Write
    <3>2. RefsLand
      BY <1>12 DEF Write, RefsLand
    <3>3. \A a \in Block : RowLands(c, a)
      BY <3>1 DEF RowLands
    <3> QED BY <3>2, <3>3, RowsMove
  <2>3. CASE f.op = "success"
    <3> DEFINE g == [f EXCEPT !.op = "reverify", !.pc = "verify"]
    <3>1. call' = [call EXCEPT ![c] = g]
      BY <1>12, <2>3 DEF Write
    <3>2. g.blk = f.blk /\ g.todo = f.todo /\ g.pc = "verify" /\ "verify" \notin Draft
      BY <1>f DEF Draft
    <3> QED BY <2>1, <2>2, <3>1, <3>2, SameBlockMoves
  <2>4. CASE f.op # "success"
    BY <1>12, <2>2, <2>4, ReturnMoves DEF Write
  <2> QED BY <2>3, <2>4
<1>13. CASE Verified(c)
  <2>1. f.pc \notin Draft /\ "origin" \notin Draft /\ "write" \notin Draft /\ TableMoves(c)
    BY <1>13, ReadsMoveNoRow DEF Verified, At, Draft
  <2> QED BY <1>13, <2>1, GotoMoves DEF Verified
<1>14. CASE GetLoser(c)
  <2>1. f.pc \notin Draft /\ "merge" \notin Draft /\ TableMoves(c)
    BY <1>14, ReadsMoveNoRow DEF GetLoser, At, Draft
  <2> QED BY <1>14, <2>1, ReturnMoves, GotoMoves DEF GetLoser
<1>15. CASE MergeTx(c)
  <2>1. f.blk \in Block /\ f.val \in Live
    BY <1>15, <1>f DEF MergeTx, At, WellFormed, NeedsBlock, Label
  <2>2. FrameMoves(c)
    BY <1>15, ReturnMoves DEF MergeTx
  <2>3. CASE UNCHANGED <<status, refs>>
    BY <1>15, <2>2, <2>3, ReadsMoveNoRow DEF MergeTx, db
  <2>4. CASE /\ MergeCommits(f) /\ refs' = Repointed(f.blk, f.peer)
             /\ status' = [b \in Block |->
                             IF b = f.blk /\ Exists(b) THEN f.val
                             ELSE IF b = f.peer /\ Exists(b) THEN "merged"
                             ELSE status[b]]
    <3>1. \A a \in Block :
             status'[a] = status[a] \/ (status[a] \in Live /\ status'[a] \in Live)
      BY <2>1, <2>4 DEF Exists, Live
    <3>2. \A r \in refs' : r \in refs \/ (r.block = f.blk /\ Exists(f.blk))
      <4>1. \A q \in refs : [q EXCEPT !.block = f.blk].block = f.blk
        BY DEF Catalogued, Typed, TypeOK, Ref
      <4> QED BY <2>4, <4>1 DEF Repointed, MergeCommits
    <3>3. Exists(f.blk) => status'[f.blk] \in Live
      BY <2>1, <2>4 DEF Exists
    <3>4. RefsLand
      BY <2>1, <3>2, <3>3 DEF RefsLand
    <3>5. \A a \in Block : RowLands(c, a)
      BY <3>1 DEF RowLands
    <3> QED BY <2>2, <3>4, <3>5, RowsMove
  <2> QED BY <1>15, <2>2, <2>3, <2>4 DEF MergeTx
<1>16. CASE DetachRow(c)
  <2>1. PICK r \in f.todo :
           /\ refs' = {q \in refs : q.id # r.id}
           /\ IF r.role = "origin" /\ refs' # refs
              THEN call' = [call EXCEPT ![c] = [f EXCEPT !.pc = "stillHas",
                                                !.blk = r.block, !.todo = {}]]
              ELSE Return(c)
    BY <1>16 DEF DetachRow
  <2>2. TableMoves(c)
    <3>1. RefsLand
      BY <2>1 DEF RefsLand
    <3>2. \A a \in Block : RowLands(c, a)
      BY <1>16 DEF DetachRow, RowLands
    <3> QED BY <3>1, <3>2, RowsMove
  <2>3. r.block \in Block /\ status[r.block] # "fresh"
    BY <1>f, <2>1 DEF Ref, Catalogued, NamedOnce
  <2>4. CASE Return(c)
    BY <2>2, <2>4, ReturnMoves
  <2>5. CASE call' = [call EXCEPT ![c] = [f EXCEPT !.pc = "stillHas",
                                          !.blk = r.block, !.todo = {}]]
    <3>1. /\ call'[c].pc = "stillHas" /\ call'[c].blk = r.block /\ call'[c].todo = {}
          /\ \A d \in Client \ {c} : call'[d] = call[d]
      BY <1>f, <2>5 DEF Catalogued, Typed, TypeOK
    <3> QED BY <1>16, <2>2, <2>3, <3>1 DEF FrameMoves, Draft, DetachRow
  <2> QED BY <2>1, <2>4, <2>5
<1>17. CASE Orphan(c)
  <2>1. CASE Return(c) /\ UNCHANGED refs
    BY <1>17, <2>1, ReturnMoves, ReadsMoveNoRow DEF Orphan, db
  <2>2. ASSUME NEW r \in f.todo, NEW rows, rows = {q \in refs : q.id = r.id},
               refs' = (refs \ rows) \cup {[q EXCEPT !.role = "orphan"] : q \in rows},
               call' = [call EXCEPT ![c].todo = @ \ {r}, ![c].blk = r.block,
                                    ![c].pc = IF r.role = "origin" THEN "stillHas"
                                              ELSE "orphan"]
        PROVE  TableMoves(c) /\ FrameMoves(c)
    <3>1. r.block \in Block /\ status[r.block] # "fresh"
      BY <1>f, <2>2 DEF Ref, Catalogued, NamedOnce
    <3>2. \A q \in refs : /\ [q EXCEPT !.role = "orphan"].block = q.block
                          /\ q.block \in Block /\ status[q.block] \in Live
      BY DEF Catalogued, Typed, TypeOK, Ref, NoDanglingRef, Exists
    <3>3. UNCHANGED status
      BY <1>17 DEF Orphan
    <3>4. TableMoves(c)
      <4>1. RefsLand
        BY <2>2, <3>2, <3>3 DEF RefsLand
      <4>2. \A a \in Block : RowLands(c, a)
        BY <3>3 DEF RowLands
      <4> QED BY <4>1, <4>2, RowsMove
    <3>5. /\ call'[c].pc \in {"stillHas", "orphan"} /\ call'[c].blk = r.block
          /\ call'[c].todo \subseteq f.todo
          /\ \A d \in Client \ {c} : call'[d] = call[d]
      BY <1>f, <2>2 DEF Catalogued, Typed, TypeOK
    <3> QED BY <3>1, <3>3, <3>4, <3>5 DEF FrameMoves, Draft, Catalogued, NamedOnce
  <2> QED BY <1>17, <2>1, <2>2 DEF Orphan
<1>18. CASE StillHas(c)
  <2>1. f.pc \notin Draft /\ "quarantine" \notin Draft /\ "orphan" \notin Draft /\ TableMoves(c)
    BY <1>18, ReadsMoveNoRow DEF StillHas, At, Draft
  <2> QED BY <1>18, <2>1, ReturnMoves, GotoMoves DEF StillHas, Resume
<1>19. CASE Quarantine(c)
  <2>1. f.pc \notin Draft /\ "orphan" \notin Draft
    BY <1>19 DEF Quarantine, At, Draft
  <2>2. \A a \in Block :
           status'[a] = status[a] \/ (status[a] \in Live /\ status'[a] \in Live)
    BY <1>19 DEF Quarantine, Quarantined, Catalogued, Typed, TypeOK, Live
  <2>3. TableMoves(c)
    <3>1. RefsLand
      BY <1>19 DEF Quarantine, RefsLand
    <3>2. \A a \in Block : RowLands(c, a)
      BY <2>2 DEF RowLands
    <3> QED BY <3>1, <3>2, RowsMove
  <2> QED BY <1>19, <2>1, <2>3, ReturnMoves, GotoMoves DEF Quarantine, Resume
<1>20. CASE EraseTx(c)
  <2>1. f.blk \in Block
    BY <1>20, <1>f DEF EraseTx, At, WellFormed, NeedsBlock, Label
  <2> QED BY <1>20, <2>1, DropMoves, ReturnMoves DEF EraseTx
<1> QED BY <1>1, <1>2, <1>3, <1>4, <1>5, <1>6, <1>7, <1>8, <1>9, <1>10, <1>11,
           <1>12, <1>13, <1>14, <1>15, <1>16, <1>17, <1>18, <1>19, <1>20 DEF Runs

LEMMA CatalogueInit == Init => Catalogued
<1> SUFFICES ASSUME Init PROVE Catalogued
  OBVIOUS
<1>1. \A c \in Client : call[c] = Idle
  BY DEF Init
<1>2. Idle.pc \notin Draft /\ Idle.blk = NoBlock /\ Idle.todo = {}
  BY DEF Idle, Draft
<1>3. NoDanglingRef
  BY DEF Init, NoDanglingRef
<1> QED BY <1>1, <1>2, <1>3, TypedInit DEF Catalogued, DraftsFresh, NamedOnce

LEMMA CatalogueStep == Catalogued /\ [Next]_vars => Catalogued'
<1> SUFFICES ASSUME Catalogued, [Next]_vars PROVE Catalogued'
  OBVIOUS
<1>0. Typed'
  BY TypedStep DEF Catalogued
<1>1. CASE \E c \in Client : Enters(c)
  BY <1>0, <1>1, EntersMoves, MovesKeepCatalogue
<1>2. CASE \E c \in Client : Runs(c)
  BY <1>0, <1>2, RunsMoves, MovesKeepCatalogue
<1>3. CASE \E c \in Client : Fail(c)
  BY <1>0, <1>3, ReturnMoves, ReadsMoveNoRow, MovesKeepCatalogue DEF Fail
<1>4. CASE \E t \in Trace : DeleteTrace(t)
  BY <1>0, <1>4 DEF DeleteTrace, Catalogued, DraftsFresh, NamedOnce, NoDanglingRef, Exists
<1>5. CASE UNCHANGED vars
  BY <1>0, <1>5 DEF vars, Catalogued, DraftsFresh, NamedOnce, NoDanglingRef, Exists
<1> QED BY <1>1, <1>2, <1>3, <1>4, <1>5 DEF Next

\* No case ref outlives its block or precedes it.
THEOREM RefsHaveBlocks == Spec => []NoDanglingRef
<1>1. Catalogued => NoDanglingRef
  BY DEF Catalogued
<1> QED BY <1>1, CatalogueInit, CatalogueStep, PTL DEF Spec

\* No interleaving of any number of processes, and no copy held across an
\* await or a crash, brings an erased block or evidence for it back.
THEOREM ErasedForGood == Spec => ErasureIsFinal
<1> DEFINE Final == \A b \in Block : status[b] = "gone" =>
                      status'[b] = "gone" /\ \A r \in refs' : r.block # b
<1>1. Catalogued /\ Catalogued' /\ [Next]_vars => [Final]_vars
  <2> SUFFICES ASSUME Catalogued, Catalogued', Next,
                      NEW b \in Block, status[b] = "gone"
               PROVE  status'[b] = "gone" /\ \A r \in refs' : r.block # b
    OBVIOUS
  <2>1. status'[b] = "gone"
    <3>1. CASE \E c \in Client : Enters(c) \/ Runs(c)
      BY <3>1, EntersMoves, RunsMoves DEF TableMoves
    <3>2. CASE \E c \in Client : Fail(c)
      BY <3>2 DEF Fail, db
    <3>3. CASE \E t \in Trace : DeleteTrace(t)
      BY <3>3 DEF DeleteTrace
    <3> QED BY <3>1, <3>2, <3>3 DEF Next
  <2>2. \A r \in refs' : r.block # b
    BY <2>1 DEF Catalogued, NoDanglingRef, Exists, Live
  <2> QED BY <2>1, <2>2
<1> QED BY <1>1, CatalogueInit, CatalogueStep, PTL DEF Spec, ErasureIsFinal

-----------------------------------------------------------------------------
(* The pitfall lane.  No frame ever carries "active" for a pitfall block:  *)
(* the lanes that promote draw other keys, and every other path copies the *)
(* status it read.                                                         *)

Promoting == {"success", "pattern", "primer", "promote"}

Unpromoted(f) ==
    /\ f.blk \in Block /\ KeyOf[f.blk] \in PitfallKey =>
          f.op \notin Promoting /\ f.val # "active"
    /\ f.pc \in {"distill", "detach", "orphan"} => f.val # "active"
    /\ f.pc \in {"detach", "orphan", "stillHas", "quarantine"} =>
          f.op \in {"detach", "sweep"} /\ f.val # "active"
    /\ f.pc = "pattern" => f.op = "pattern"

PitfallsHeld ==
    /\ Typed
    /\ \A c \in Client : Unpromoted(call[c])
    /\ PitfallNotServed

\* A step keeps the lane closed when the frame it writes does, and what it
\* sets active is no pitfall.
PitfallMoves(c) ==
    /\ \A d \in Client \ {c} : call'[d] = call[d]
    /\ Unpromoted(call'[c])
    /\ \A b \in Block : status'[b] = "active" =>
          status[b] = "active" \/ KeyOf[b] \notin PitfallKey

LEMMA PitfallFrame ==
    ASSUME PitfallsHeld, NEW c \in Client, NEW f, Unpromoted(f), UNCHANGED status,
           call' = [call EXCEPT ![c] = f]
    PROVE  PitfallMoves(c)
  BY DEF PitfallsHeld, Typed, TypeOK, PitfallMoves

LEMMA PitfallReturn ==
    ASSUME PitfallsHeld, NEW c \in Client, Return(c),
           \A b \in Block : status'[b] = "active" =>
              status[b] = "active" \/ KeyOf[b] \notin PitfallKey
    PROVE  PitfallMoves(c)
  BY SentinelAssumption DEF PitfallsHeld, Typed, TypeOK, PitfallMoves, Return, Idle, Unpromoted

LEMMA PitfallGoto ==
    ASSUME PitfallsHeld, NEW c \in Client, NEW l, Goto(c, l), l \notin {"distill", "detach", "stillHas", "pattern"},
           l \in {"orphan", "quarantine"} =>
              call[c].op \in {"detach", "sweep"} /\ call[c].val # "active",
           \A b \in Block : status'[b] = "active" =>
              status[b] = "active" \/ KeyOf[b] \notin PitfallKey
    PROVE  PitfallMoves(c)
<1>1. /\ \A d \in Client \ {c} : call'[d] = call[d]
      /\ call'[c].blk = call[c].blk /\ call'[c].op = call[c].op /\ call'[c].val = call[c].val
      /\ call'[c].pc = l
  BY DEF PitfallsHeld, Typed, TypeOK, Goto, Frame
<1> QED BY <1>1 DEF PitfallsHeld, PitfallMoves, Unpromoted

LEMMA PitfallEnter ==
    ASSUME PitfallsHeld, NEW c \in Client, NEW f, Unpromoted(f), Enter(c, f)
    PROVE  PitfallMoves(c)
  BY PitfallFrame DEF Enter, db

LEMMA EntersNoPitfall ==
    ASSUME PitfallsHeld, "promote" \notin Ops, NEW c \in Client, Enters(c)
    PROVE  PitfallMoves(c)
<1>k. PrimerKey \cap PitfallKey = {} /\ NoBlock \notin Block
  BY KeyAssumption, SentinelAssumption
<1>1. CASE DistillTrace(c)
  <2>1. PICK t \in known, lane \in {"success", "failure"} :
           Enter(c, [Idle EXCEPT !.op = lane, !.pc = "distill", !.trace = t])
    BY <1>1 DEF DistillTrace
  <2>2. Unpromoted([Idle EXCEPT !.op = lane, !.pc = "distill", !.trace = t])
    BY <1>k DEF Unpromoted, Idle
  <2> QED BY <2>1, <2>2, PitfallEnter
<1>2. CASE StorePattern(c)
  <2>1. PICK t \in Trace, b \in Unminted :
           /\ KeyOf[b] \notin PitfallKey \cup PrimerKey
           /\ Enter(c, [Idle EXCEPT !.op = "pattern", !.pc = "find", !.blk = b, !.trace = t])
    BY <1>2 DEF StorePattern
  <2>2. Unpromoted([Idle EXCEPT !.op = "pattern", !.pc = "find", !.blk = b, !.trace = t])
    BY <2>1 DEF Unpromoted, Idle
  <2> QED BY <2>1, <2>2, PitfallEnter
<1>3. CASE DistillDomain(c)
  <2>1. PICK t \in Trace, b \in Unminted :
           /\ KeyOf[b] \in PrimerKey
           /\ Enter(c, [Idle EXCEPT !.op = "primer", !.pc = "find", !.blk = b, !.trace = t])
    BY <1>3 DEF DistillDomain
  <2>2. Unpromoted([Idle EXCEPT !.op = "primer", !.pc = "find", !.blk = b, !.trace = t])
    BY <1>k, <2>1 DEF Unpromoted, Idle
  <2> QED BY <2>1, <2>2, PitfallEnter
<1>4. CASE ReadForWriteBack(c)
  <2>1. PICK b \in Named, o \in {"reverify", "sync"} :
           Enter(c, [Idle EXCEPT !.op = o, !.blk = b, !.val = status[b],
                                 !.pc = IF o = "reverify" THEN "verify"
                                        ELSE IF status[b] = "active" THEN "origin"
                                        ELSE "write"])
    BY <1>4 DEF ReadForWriteBack
  <2>2. Unpromoted([Idle EXCEPT !.op = o, !.blk = b, !.val = status[b],
                                !.pc = IF o = "reverify" THEN "verify"
                                       ELSE IF status[b] = "active" THEN "origin"
                                       ELSE "write"])
    BY <2>1 DEF Unpromoted, Idle, PitfallsHeld, PitfallNotServed, Promoting
  <2> QED BY <2>1, <2>2, PitfallEnter
<1>5. CASE UpdateBlockStatus(c)
  <2>1. PICK b \in Named, o \in DOMAIN Goal :
           Enter(c, [Idle EXCEPT !.op = o, !.pc = "update", !.blk = b, !.val = Goal[o]])
    BY <1>5 DEF UpdateBlockStatus
  <2>2. o \in {"demote", "retire"} /\ Goal[o] # "active"
    <3>1. o \in Ops
      BY <2>1 DEF Enter, Idle
    <3>2. Goal["demote"] = "demoted" /\ Goal["retire"] = "retired"
      BY DEF Goal
    <3> QED BY <3>1, <3>2, GoalType
  <2>3. Unpromoted([Idle EXCEPT !.op = o, !.pc = "update", !.blk = b, !.val = Goal[o]])
    BY <2>2 DEF Unpromoted, Idle, Promoting
  <2> QED BY <2>1, <2>3, PitfallEnter
<1>6. CASE AttachCounter(c)
  <2>1. PICK b \in Named, t \in Trace :
           Enter(c, [Idle EXCEPT !.op = "counter", !.pc = "get", !.blk = b,
                                 !.trace = t, !.role = "counter"])
    BY <1>6 DEF AttachCounter
  <2>2. Unpromoted([Idle EXCEPT !.op = "counter", !.pc = "get", !.blk = b,
                                !.trace = t, !.role = "counter"])
    BY DEF Unpromoted, Idle, Promoting
  <2> QED BY <2>1, <2>2, PitfallEnter
<1>7. CASE MergeBlocks(c)
  <2>1. PICK w \in Named, l \in Named :
           Enter(c, [Idle EXCEPT !.op = "merge", !.pc = "loser", !.blk = w,
                                 !.peer = l, !.val = status[w]])
    BY <1>7 DEF MergeBlocks
  <2>2. Unpromoted([Idle EXCEPT !.op = "merge", !.pc = "loser", !.blk = w,
                                !.peer = l, !.val = status[w]])
    BY DEF Unpromoted, Idle, PitfallsHeld, PitfallNotServed, Promoting
  <2> QED BY <2>1, <2>2, PitfallEnter
<1>8. CASE DetachCaseRef(c)
  <2>1. PICK r \in refs :
           Enter(c, [Idle EXCEPT !.op = "detach", !.pc = "detach", !.todo = {r}])
    BY <1>8 DEF DetachCaseRef
  <2>2. Unpromoted([Idle EXCEPT !.op = "detach", !.pc = "detach", !.todo = {r}])
    BY <1>k DEF Unpromoted, Idle
  <2> QED BY <2>1, <2>2, PitfallEnter
<1>9. CASE OrphanMissingRefs(c)
  <2> DEFINE lost == {r \in refs : r.role # "orphan" /\ r.trace \notin known}
  <2>1. Enter(c, [Idle EXCEPT !.op = "sweep", !.pc = "orphan", !.todo = lost])
    BY <1>9 DEF OrphanMissingRefs
  <2>2. Unpromoted([Idle EXCEPT !.op = "sweep", !.pc = "orphan", !.todo = lost])
    BY <1>k DEF Unpromoted, Idle
  <2> QED BY <2>1, <2>2, PitfallEnter
<1>10. CASE HardDeleteBlock(c)
  <2>1. PICK b \in Named :
           Enter(c, [Idle EXCEPT !.op = "erase", !.pc = "erase", !.blk = b])
    BY <1>10 DEF HardDeleteBlock
  <2>2. Unpromoted([Idle EXCEPT !.op = "erase", !.pc = "erase", !.blk = b])
    BY DEF Unpromoted, Idle, Promoting
  <2> QED BY <2>1, <2>2, PitfallEnter
<1>11. CASE DeleteBlock(c)
  <2>1. \A b \in Block : status'[b] = "active" => status[b] = "active"
    BY <1>11 DEF DeleteBlock, DropBlock, PitfallsHeld, Typed, TypeOK
  <2>2. UNCHANGED call
    BY <1>11 DEF DeleteBlock
  <2> QED BY <2>1, <2>2 DEF PitfallMoves, PitfallsHeld
<1> QED BY <1>1, <1>2, <1>3, <1>4, <1>5, <1>6, <1>7, <1>8, <1>9, <1>10, <1>11
       DEF Enters

LEMMA RunsNoPitfall ==
    ASSUME PitfallsHeld, NEW c \in Client, Runs(c)
    PROVE  PitfallMoves(c)
<1> DEFINE f == call[c]
<1>f. /\ f \in [op : Operations \cup {"none"}, pc : Label,
                blk : Block \cup {NoBlock}, peer : Block \cup {NoBlock},
                trace : Trace \cup {NoTrace}, role : Role,
                val : Live, todo : SUBSET Ref]
      /\ Unpromoted(f) /\ WellFormed(f)
  BY DEF PitfallsHeld, Typed, TypeOK, Frame
<1>s. ASSUME UNCHANGED status
      PROVE  \A b \in Block : status'[b] = "active" =>
                status[b] = "active" \/ KeyOf[b] \notin PitfallKey
  BY <1>s
<1>1. CASE Distilled(c)
  <2>0. UNCHANGED status /\ f.pc = "distill"
    BY <1>1 DEF Distilled, db, At
  <2>1. CASE Return(c)
    BY <1>s, <2>0, <2>1, PitfallReturn
  <2>2. CASE \E b \in Unminted :
               /\ (KeyOf[b] \in PitfallKey) = (f.op = "failure")
               /\ call' = [call EXCEPT ![c].pc = "find", ![c].blk = b]
    <3>1. PICK b \in Unminted :
             /\ (KeyOf[b] \in PitfallKey) = (f.op = "failure")
             /\ call' = [call EXCEPT ![c] = [f EXCEPT !.pc = "find", !.blk = b]]
      BY <2>2
    <3>2. Unpromoted([f EXCEPT !.pc = "find", !.blk = b])
      BY <1>f, <2>0, <3>1 DEF Unpromoted, Promoting, PitfallsHeld
    <3> QED BY <2>0, <3>1, <3>2, PitfallFrame
  <2> QED BY <1>1, <2>1, <2>2 DEF Distilled
<1>2. CASE Find(c)
  <2>0. UNCHANGED status /\ f.pc = "find" /\ f.blk \in Block
    BY <1>2, <1>f DEF Find, db, At, WellFormed, NeedsBlock, Label
  <2>1. CASE \E a \in SameKey(f.blk) : call' = [call EXCEPT ![c] = OnHit(@, a)]
    <3>1. PICK a \in Block : KeyOf[a] = KeyOf[f.blk] /\ call' = [call EXCEPT ![c] = OnHit(f, a)]
      BY <2>1 DEF SameKey
    <3>2. CASE f.op = "primer"
      <4>1. OnHit(f, a) = [f EXCEPT !.blk = a, !.val = "active", !.pc = "origin"]
        BY <3>2 DEF OnHit
      <4>2. Unpromoted([f EXCEPT !.blk = a, !.val = "active", !.pc = "origin"])
        BY <1>f, <2>0, <3>1, <3>2 DEF Unpromoted, Promoting
      <4> QED BY <2>0, <3>1, <4>1, <4>2, PitfallFrame
    <3>3. CASE f.op = "pattern"
      <4>1. OnHit(f, a) = [f EXCEPT !.blk = a, !.role = "supporting", !.pc = "supported"]
        BY <3>3 DEF OnHit
      <4>2. Unpromoted([f EXCEPT !.blk = a, !.role = "supporting", !.pc = "supported"])
        BY <1>f, <2>0, <3>1, <3>3 DEF Unpromoted, Promoting
      <4> QED BY <2>0, <3>1, <4>1, <4>2, PitfallFrame
    <3>4. CASE f.op \notin {"primer", "pattern"}
      <4>1. OnHit(f, a) = [f EXCEPT !.blk = a, !.role = "supporting", !.pc = "get"]
        BY <3>4 DEF OnHit
      <4>2. Unpromoted([f EXCEPT !.blk = a, !.role = "supporting", !.pc = "get"])
        BY <1>f, <2>0, <3>1 DEF Unpromoted
      <4> QED BY <2>0, <3>1, <4>1, <4>2, PitfallFrame
    <3> QED BY <3>2, <3>3, <3>4
  <2>2. CASE call' = [call EXCEPT ![c] = OnMiss(@)]
    <3>1. call' = [call EXCEPT ![c] = OnMiss(f)]
      BY <2>2
    <3>2. Unpromoted(OnMiss(f))
      BY <1>f DEF OnMiss, Unpromoted
    <3> QED BY <2>0, <3>1, <3>2, PitfallFrame
  <2> QED BY <1>2, <2>1, <2>2 DEF Find
<1>4. CASE CommitPattern(c)
  <2>1. f.pc = "pattern" /\ f.blk \in Block
    BY <1>4, <1>f DEF CommitPattern, At, WellFormed, NeedsBlock, Label
  <2>2. CASE UNCHANGED status
    BY <1>4, <1>s, <2>2, PitfallReturn DEF CommitPattern
  <2>3. CASE status' = [status EXCEPT ![f.blk] = "active"]
    <3>1. f.op = "pattern"
      BY <1>f, <2>1 DEF Unpromoted
    <3>2. KeyOf[f.blk] \notin PitfallKey
      BY <1>f, <2>1, <3>1 DEF Unpromoted, Promoting
    <3> QED BY <1>4, <2>3, <3>2, PitfallReturn DEF CommitPattern, PitfallsHeld, Typed, TypeOK
  <2> QED BY <1>4, <2>2, <2>3 DEF CommitPattern
<1>6. CASE StoreBlock(c)
  <2>1. \A b \in Block : status'[b] = "active" => status[b] = "active"
    BY <1>6 DEF StoreBlock, Insert, PitfallsHeld, Typed, TypeOK
  <2>2. /\ \A d \in Client \ {c} : call'[d] = call[d]
        /\ call'[c].blk = f.blk /\ call'[c].op = f.op /\ call'[c].val = f.val
        /\ call'[c].pc = "get"
    BY <1>6, <1>f DEF StoreBlock, PitfallsHeld, Typed, TypeOK
  <2> QED BY <1>f, <2>1, <2>2 DEF PitfallMoves, Unpromoted
<1>7. CASE GetBlock(c)
  <2>0. UNCHANGED status /\ f.blk \in Block
    BY <1>7, <1>f DEF GetBlock, db, At, WellFormed, NeedsBlock, Label
  <2>1. CASE Exists(f.blk)
    <3>1. call' = [call EXCEPT ![c] = [f EXCEPT !.pc = "link", !.val = status[f.blk]]]
      BY <1>7, <2>1 DEF GetBlock
    <3>2. Unpromoted([f EXCEPT !.pc = "link", !.val = status[f.blk]])
      BY <1>f, <2>0 DEF Unpromoted, PitfallsHeld, PitfallNotServed
    <3> QED BY <2>0, <3>1, <3>2, PitfallFrame
  <2>2. CASE ~Exists(f.blk)
    BY <1>7, <1>s, <2>0, <2>2, PitfallReturn DEF GetBlock
  <2> QED BY <2>1, <2>2
<1>8. CASE LinkRef(c)
  <2>1. \A b \in Block : status'[b] = "active" => status[b] = "active"
    BY <1>8 DEF LinkRef, SetStatus, PitfallsHeld, Typed, TypeOK
  <2>2. f.pc = "link" /\ f.blk \in Block
    BY <1>8, <1>f DEF LinkRef, At, WellFormed, NeedsBlock, Label
  <2>3. CASE Linkable(f.blk, f.trace, f.role) /\ Promotes(f)
    <3>1. /\ \A d \in Client \ {c} : call'[d] = call[d]
          /\ call'[c].blk = f.blk /\ call'[c].op = f.op /\ call'[c].pc = "update"
      BY <1>8, <1>f, <2>3 DEF LinkRef, PitfallsHeld, Typed, TypeOK
    <3>2. KeyOf[f.blk] \notin PitfallKey
      BY <1>f, <2>2, <2>3 DEF Unpromoted, Promotes, Promoting
    <3> QED BY <2>1, <3>1, <3>2 DEF PitfallMoves, Unpromoted
  <2>4. CASE ~(Linkable(f.blk, f.trace, f.role) /\ Promotes(f))
    <3>1. Return(c)
      BY <1>8, <2>4 DEF LinkRef
    <3> QED BY <2>1, <3>1, PitfallReturn
  <2> QED BY <2>3, <2>4
<1>12. CASE Write(c)
  <2>1. f.blk \in Block /\ f.pc = "write"
    BY <1>12, <1>f DEF Write, At, WellFormed, NeedsBlock, Label
  <2>2. \A b \in Block : status'[b] = "active" =>
           status[b] = "active" \/ KeyOf[b] \notin PitfallKey
    BY <1>12, <1>f, <2>1 DEF Write, SetStatus, Unpromoted, PitfallsHeld, Typed, TypeOK
  <2>3. CASE f.op = "success"
    <3>1. /\ \A d \in Client \ {c} : call'[d] = call[d]
          /\ call'[c].blk = f.blk /\ call'[c].pc = "verify"
      BY <1>12, <1>f, <2>3 DEF Write, PitfallsHeld, Typed, TypeOK
    <3>2. KeyOf[f.blk] \notin PitfallKey
      BY <1>f, <2>1, <2>3 DEF Unpromoted, Promoting
    <3> QED BY <2>2, <3>1, <3>2 DEF PitfallMoves, Unpromoted
  <2>4. CASE f.op # "success"
    BY <1>12, <2>2, <2>4, PitfallReturn DEF Write
  <2> QED BY <2>3, <2>4
<1>15. CASE MergeTx(c)
  <2>1. f.blk \in Block
    BY <1>15, <1>f DEF MergeTx, At, WellFormed, NeedsBlock, Label
  <2>2. \A b \in Block : status'[b] = "active" =>
           status[b] = "active" \/ KeyOf[b] \notin PitfallKey
    BY <1>15, <1>f, <2>1 DEF MergeTx, Unpromoted
  <2> QED BY <1>15, <2>2, PitfallReturn DEF MergeTx
<1>16. CASE DetachRow(c)
  <2>0. UNCHANGED status /\ f.pc = "detach"
    BY <1>16 DEF DetachRow, At
  <2>1. PICK r \in f.todo :
           \/ Return(c)
           \/ call' = [call EXCEPT ![c] = [f EXCEPT !.pc = "stillHas", !.blk = r.block,
                                          !.todo = {}]]
    BY <1>16 DEF DetachRow
  <2>2. Unpromoted([f EXCEPT !.pc = "stillHas", !.blk = r.block, !.todo = {}])
    BY <1>f, <2>0 DEF Unpromoted, PitfallsHeld, Promoting
  <2> QED BY <1>s, <2>0, <2>1, <2>2, PitfallReturn, PitfallFrame
<1>17. CASE Orphan(c)
  <2>0. UNCHANGED status /\ f.pc = "orphan"
    BY <1>17 DEF Orphan, At
  <2>1. CASE Return(c)
    BY <1>s, <2>0, <2>1, PitfallReturn
  <2>2. ASSUME NEW r \in f.todo,
               call' = [call EXCEPT ![c].todo = @ \ {r}, ![c].blk = r.block,
                                    ![c].pc = IF r.role = "origin" THEN "stillHas"
                                              ELSE "orphan"]
        PROVE  PitfallMoves(c)
    <3> DEFINE g == [f EXCEPT !.todo = @ \ {r}, !.blk = r.block,
                              !.pc = IF r.role = "origin" THEN "stillHas" ELSE "orphan"]
    <3>1. call' = [call EXCEPT ![c] = g]
      BY <2>2
    <3>2. Unpromoted(g)
      BY <1>f, <2>0 DEF Unpromoted, PitfallsHeld, Promoting
    <3> HIDE DEF g
    <3> QED BY <2>0, <3>1, <3>2, PitfallFrame
  <2> QED BY <1>17, <2>1, <2>2 DEF Orphan
<1>19. CASE Quarantine(c)
  <2>1. \A b \in Block : status'[b] = "active" => status[b] = "active"
    BY <1>19 DEF Quarantine, Quarantined, PitfallsHeld, Typed, TypeOK
  <2>2. f.op \in {"detach", "sweep"} /\ f.val # "active"
    BY <1>19, <1>f DEF Quarantine, At, Unpromoted
  <2> QED BY <1>19, <2>1, <2>2, PitfallReturn, PitfallGoto DEF Quarantine, Resume
<1>20. CASE EraseTx(c)
  <2>1. \A b \in Block : status'[b] = "active" => status[b] = "active"
    BY <1>20 DEF EraseTx, DropBlock, PitfallsHeld, Typed, TypeOK
  <2> QED BY <1>20, <2>1, PitfallReturn DEF EraseTx
<1>3. CASE AlreadySupported(c)
  <2>1. UNCHANGED status
    BY <1>3 DEF AlreadySupported, db
  <2> QED BY <1>3, <1>s, <2>1, PitfallReturn, PitfallGoto DEF AlreadySupported
<1>5. CASE Collide(c)
  <2>1. UNCHANGED status
    BY <1>5 DEF Collide, db
  <2> QED BY <1>5, <1>s, <2>1, PitfallReturn, PitfallGoto DEF Collide
<1>9. CASE Update(c)
  <2>1. UNCHANGED status
    BY <1>9 DEF Update, db
  <2> QED BY <1>9, <1>s, <2>1, PitfallReturn, PitfallGoto DEF Update
<1>10. CASE CheckOrigin(c)
  <2>1. UNCHANGED status
    BY <1>10 DEF CheckOrigin, db
  <2> QED BY <1>10, <1>s, <2>1, PitfallReturn, PitfallGoto DEF CheckOrigin
<1>11. CASE CheckCounter(c)
  <2>1. UNCHANGED status
    BY <1>11 DEF CheckCounter, db
  <2> QED BY <1>11, <1>s, <2>1, PitfallReturn, PitfallGoto DEF CheckCounter
<1>13. CASE Verified(c)
  <2>1. UNCHANGED status
    BY <1>13 DEF Verified, db
  <2> QED BY <1>13, <1>s, <2>1, PitfallReturn, PitfallGoto DEF Verified
<1>14. CASE GetLoser(c)
  <2>1. UNCHANGED status
    BY <1>14 DEF GetLoser, db
  <2> QED BY <1>14, <1>s, <2>1, PitfallReturn, PitfallGoto DEF GetLoser
<1>18. CASE StillHas(c)
  <2>1. UNCHANGED status
    BY <1>18 DEF StillHas, db
  <2>2. f.op \in {"detach", "sweep"} /\ f.val # "active"
    BY <1>18, <1>f DEF StillHas, At, Unpromoted
  <2> QED BY <1>18, <1>s, <2>1, <2>2, PitfallReturn, PitfallGoto DEF StillHas, Resume
<1> QED BY <1>1, <1>2, <1>3, <1>4, <1>5, <1>6, <1>7, <1>8, <1>9, <1>10, <1>11,
           <1>12, <1>13, <1>14, <1>15, <1>16, <1>17, <1>18, <1>19, <1>20 DEF Runs

\* Unless a caller promotes it by hand, a pitfall block is never served,
\* whatever the processes interleave and whenever they die.
THEOREM PitfallsStayUnserved ==
    ASSUME "promote" \notin Ops
    PROVE  Spec => []PitfallNotServed
<1>1. Init => PitfallsHeld
  <2> SUFFICES ASSUME Init PROVE PitfallsHeld
    OBVIOUS
  <2>1. \A c \in Client : call[c] = Idle
    BY DEF Init
  <2>2. Unpromoted(Idle)
    BY SentinelAssumption DEF Idle, Unpromoted
  <2>3. PitfallNotServed
    BY DEF Init, PitfallNotServed
  <2> QED BY <2>1, <2>2, <2>3, TypedInit DEF PitfallsHeld
<1>2. PitfallsHeld /\ [Next]_vars => PitfallsHeld'
  <2> SUFFICES ASSUME PitfallsHeld, [Next]_vars PROVE PitfallsHeld'
    OBVIOUS
  <2>0. Typed'
    BY TypedStep DEF PitfallsHeld
  <2>1. ASSUME NEW c \in Client, PitfallMoves(c) PROVE PitfallsHeld'
    BY <2>0, <2>1 DEF PitfallsHeld, PitfallMoves, PitfallNotServed
  <2>2. CASE \E c \in Client : Enters(c) \/ Runs(c)
    BY <2>1, <2>2, EntersNoPitfall, RunsNoPitfall
  <2>3. CASE \E c \in Client : Fail(c)
    BY <2>1, <2>3, PitfallReturn DEF Fail, db
  <2>4. CASE \E t \in Trace : DeleteTrace(t)
    BY <2>0, <2>4 DEF DeleteTrace, PitfallsHeld, PitfallNotServed
  <2>5. CASE UNCHANGED vars
    BY <2>0, <2>5 DEF vars, PitfallsHeld, PitfallNotServed
  <2> QED BY <2>2, <2>3, <2>4, <2>5 DEF Next
<1>3. PitfallsHeld => PitfallNotServed
  BY DEF PitfallsHeld
<1> QED BY <1>1, <1>2, <1>3, PTL DEF Spec

-----------------------------------------------------------------------------
(* What the shipped commands, hooks and servers do to served blocks.  None *)
(* of them attaches counter evidence, merges, detaches or sweeps, so an    *)
(* origin ref only goes with its block; a check that found one is still    *)
(* true when the write it allows is made, or the row is gone and the write *)
(* is void.  No transaction is needed for that, and no lock.               *)

Contesting == {"counter", "merge", "detach", "sweep"}
ContestLabel == {"loser", "merge", "detach", "orphan", "stillHas", "quarantine"}

Earned(b) == status[b] = "gone" \/ Has(b, "origin")

Earning(f) ==
    /\ f.role # "counter"
    /\ f.pc \notin ContestLabel
    /\ f.pc \in {"counter", "write"} /\ f.val = "active" => Earned(f.blk)

Uncontested ==
    /\ Catalogued
    /\ \A c \in Client : Earning(call[c])
    /\ \A r \in refs : r.role # "counter"
    /\ \A b \in Block : status[b] = "active" => Has(b, "origin")

RefsStay == \A r \in refs : r \in refs' \/ status'[r.block] = "gone"
NoCounterCame == \A r \in refs' : r \in refs \/ r.role # "counter"
ServedEarned ==
    \A b \in Block : status'[b] = "active" =>
        Earned(b) \/ \E r \in refs' : r.block = b /\ r.role = "origin"

EarningMoves(c) ==
    /\ \A d \in Client \ {c} : call'[d] = call[d]
    /\ Earning(call'[c])
    /\ RefsStay /\ NoCounterCame /\ ServedEarned

LEMMA EarningKept ==
    ASSUME Uncontested, Catalogued', NEW c \in Client, EarningMoves(c),
           \A b \in Block : status[b] = "gone" => status'[b] = "gone"
    PROVE  Uncontested'
<1>1. ASSUME NEW b \in Block, Earned(b) PROVE Earned(b)'
  <2>1. CASE status[b] = "gone"
    BY <2>1 DEF Earned
  <2>2. CASE Has(b, "origin")
    BY <2>2 DEF Has, EarningMoves, RefsStay, Earned
  <2> QED BY <1>1, <2>1, <2>2 DEF Earned
<1>2. \A r \in refs' : r.role # "counter"
  BY DEF Uncontested, EarningMoves, NoCounterCame
<1>3. \A b \in Block : status'[b] = "active" => Has(b, "origin")'
  <2> SUFFICES ASSUME NEW b \in Block, status'[b] = "active" PROVE Has(b, "origin")'
    OBVIOUS
  <2>1. CASE Earned(b)
    BY <1>1, <2>1 DEF Earned
  <2>2. CASE \E r \in refs' : r.block = b /\ r.role = "origin"
    BY <2>2 DEF Has
  <2> QED BY <2>1, <2>2 DEF EarningMoves, ServedEarned
<1>4. ASSUME NEW d \in Client PROVE Earning(call[d])'
  <2>1. Earning(call'[d])
    BY DEF Uncontested, EarningMoves
  <2>2. call'[d].pc \in {"counter", "write"} => call'[d].blk \in Block
    BY DEF Catalogued, Typed, WellFormed, NeedsBlock, Label
  <2> QED BY <1>1, <2>1, <2>2 DEF Earning
<1> QED BY <1>2, <1>3, <1>4 DEF Uncontested

\* Reads: the frame alone moves.
LEMMA EarningRead ==
    ASSUME Uncontested, NEW c \in Client, NEW f, Earning(f), UNCHANGED <<status, refs>>,
           call' = [call EXCEPT ![c] = f]
    PROVE  EarningMoves(c)
<1>1. call'[c] = f /\ \A d \in Client \ {c} : call'[d] = call[d]
  BY DEF Uncontested, Catalogued, Typed, TypeOK
<1> QED BY <1>1 DEF Uncontested, EarningMoves, RefsStay, NoCounterCame, ServedEarned, Earned

LEMMA EarningReturn ==
    ASSUME Uncontested, NEW c \in Client, Return(c), RefsStay, NoCounterCame, ServedEarned
    PROVE  EarningMoves(c)
<1>1. call'[c] = Idle /\ \A d \in Client \ {c} : call'[d] = call[d]
  BY DEF Return, Uncontested, Catalogued, Typed, TypeOK
<1>2. Earning(Idle)
  BY DEF Idle, Earning, ContestLabel
<1> QED BY <1>1, <1>2 DEF EarningMoves

LEMMA EarningGoto ==
    ASSUME Uncontested, NEW c \in Client, NEW l, Goto(c, l), l \notin ContestLabel,
           l \in {"counter", "write"} /\ call[c].val = "active" => Earned(call[c].blk),
           UNCHANGED <<status, refs>>
    PROVE  EarningMoves(c)
<1> DEFINE f == [call[c] EXCEPT !.pc = l]
<1>1. f.pc = l /\ f.role = call[c].role /\ f.val = call[c].val /\ f.blk = call[c].blk
  BY DEF Uncontested, Catalogued, Typed, TypeOK, Frame
<1>2. Earning(f)
  BY <1>1 DEF Earning, Uncontested
<1>3. call' = [call EXCEPT ![c] = f]
  BY DEF Goto
<1> HIDE DEF f
<1> QED BY <1>2, <1>3, EarningRead

LEMMA StillTables ==
    ASSUME Uncontested, UNCHANGED <<status, refs>>
    PROVE  RefsStay /\ NoCounterCame /\ ServedEarned
  BY DEF Uncontested, RefsStay, NoCounterCame, ServedEarned, Earned

LEMMA EarningEnter ==
    ASSUME Uncontested, NEW c \in Client, NEW f, Earning(f), Enter(c, f)
    PROVE  EarningMoves(c)
  BY EarningRead DEF Enter, db

LEMMA DropStays ==
    ASSUME Uncontested, NEW b \in Block, DropBlock(b)
    PROVE  RefsStay /\ NoCounterCame /\ ServedEarned
<1>1. \A a \in Block : status'[a] = status[a] \/ (a = b /\ status'[a] = "gone")
  BY DEF DropBlock, Uncontested, Catalogued, Typed, TypeOK
<1>2. Exists(b) => status'[b] = "gone"
  BY DEF DropBlock, Uncontested, Catalogued, Typed, TypeOK
<1>3. \A r \in refs : r \in refs' \/ (r.block = b /\ Exists(b))
  BY DEF DropBlock, Uncontested, Catalogued, NoDanglingRef
<1>4. refs' \subseteq refs
  BY DEF DropBlock
<1> QED BY <1>1, <1>2, <1>3, <1>4 DEF RefsStay, NoCounterCame, ServedEarned, Earned, Uncontested

LEMMA EntersEarn ==
    ASSUME Uncontested, Ops \cap Contesting = {}, NEW c \in Client, Enters(c)
    PROVE  EarningMoves(c)
<1>1. CASE DistillTrace(c)
  <2>1. PICK t \in known, lane \in {"success", "failure"} :
           Enter(c, [Idle EXCEPT !.op = lane, !.pc = "distill", !.trace = t])
    BY <1>1 DEF DistillTrace
  <2>2. Earning([Idle EXCEPT !.op = lane, !.pc = "distill", !.trace = t])
    BY DEF Earning, ContestLabel, Idle
  <2> QED BY <2>1, <2>2, EarningEnter
<1>2. CASE StorePattern(c)
  <2>1. PICK t \in Trace, b \in Unminted :
           /\ KeyOf[b] \notin PitfallKey \cup PrimerKey
           /\ Enter(c, [Idle EXCEPT !.op = "pattern", !.pc = "find", !.blk = b, !.trace = t])
    BY <1>2 DEF StorePattern
  <2>2. Earning([Idle EXCEPT !.op = "pattern", !.pc = "find", !.blk = b, !.trace = t])
    BY DEF Earning, ContestLabel, Idle
  <2> QED BY <2>1, <2>2, EarningEnter
<1>3. CASE DistillDomain(c)
  <2>1. PICK t \in Trace, b \in Unminted :
           /\ KeyOf[b] \in PrimerKey
           /\ Enter(c, [Idle EXCEPT !.op = "primer", !.pc = "find", !.blk = b, !.trace = t])
    BY <1>3 DEF DistillDomain
  <2>2. Earning([Idle EXCEPT !.op = "primer", !.pc = "find", !.blk = b, !.trace = t])
    BY DEF Earning, ContestLabel, Idle
  <2> QED BY <2>1, <2>2, EarningEnter
<1>4. CASE ReadForWriteBack(c)
  <2>1. PICK b \in Named, o \in {"reverify", "sync"} :
           Enter(c, [Idle EXCEPT !.op = o, !.blk = b, !.val = status[b],
                                 !.pc = IF o = "reverify" THEN "verify"
                                        ELSE IF status[b] = "active" THEN "origin"
                                        ELSE "write"])
    BY <1>4 DEF ReadForWriteBack
  <2>2. Earning([Idle EXCEPT !.op = o, !.blk = b, !.val = status[b],
                                !.pc = IF o = "reverify" THEN "verify"
                                       ELSE IF status[b] = "active" THEN "origin"
                                       ELSE "write"])
    BY DEF Earning, ContestLabel, Idle
  <2> QED BY <2>1, <2>2, EarningEnter
<1>5. CASE UpdateBlockStatus(c)
  <2>1. PICK b \in Named, o \in DOMAIN Goal :
           Enter(c, [Idle EXCEPT !.op = o, !.pc = "update", !.blk = b, !.val = Goal[o]])
    BY <1>5 DEF UpdateBlockStatus
  <2>2. Earning([Idle EXCEPT !.op = o, !.pc = "update", !.blk = b, !.val = Goal[o]])
    BY DEF Earning, ContestLabel, Idle
  <2> QED BY <2>1, <2>2, EarningEnter
<1>6. CASE AttachCounter(c)
  <2>1. "counter" \in Ops
    BY <1>6 DEF AttachCounter, Enter, Idle
  <2> QED BY <2>1 DEF Contesting
<1>7. CASE MergeBlocks(c)
  <2>1. "merge" \in Ops
    BY <1>7 DEF MergeBlocks, Enter, Idle
  <2> QED BY <2>1 DEF Contesting
<1>8. CASE DetachCaseRef(c)
  <2>1. "detach" \in Ops
    BY <1>8 DEF DetachCaseRef, Enter, Idle
  <2> QED BY <2>1 DEF Contesting
<1>9. CASE OrphanMissingRefs(c)
  <2>1. "sweep" \in Ops
    BY <1>9 DEF OrphanMissingRefs, Enter, Idle
  <2> QED BY <2>1 DEF Contesting
<1>10. CASE HardDeleteBlock(c)
  <2>1. PICK b \in Named :
           Enter(c, [Idle EXCEPT !.op = "erase", !.pc = "erase", !.blk = b])
    BY <1>10 DEF HardDeleteBlock
  <2>2. Earning([Idle EXCEPT !.op = "erase", !.pc = "erase", !.blk = b])
    BY DEF Earning, ContestLabel, Idle
  <2> QED BY <2>1, <2>2, EarningEnter
<1>11. CASE DeleteBlock(c)
  <2>1. PICK b \in Block : DropBlock(b) /\ UNCHANGED call
    BY <1>11 DEF DeleteBlock, Named
  <2> QED BY <2>1, DropStays DEF EarningMoves, Uncontested
<1> QED BY <1>1, <1>2, <1>3, <1>4, <1>5, <1>6, <1>7, <1>8, <1>9, <1>10, <1>11
       DEF Enters

LEMMA RunsEarn ==
    ASSUME Uncontested, NEW c \in Client, Runs(c)
    PROVE  EarningMoves(c)
<1> DEFINE f == call[c]
<1>f. /\ f \in [op : Operations \cup {"none"}, pc : Label,
                blk : Block \cup {NoBlock}, peer : Block \cup {NoBlock},
                trace : Trace \cup {NoTrace}, role : Role,
                val : Live, todo : SUBSET Ref]
      /\ Earning(f) /\ WellFormed(f)
  BY DEF Uncontested, Catalogued, Typed, TypeOK, Frame
<1>1. CASE Distilled(c)
  <2>0. UNCHANGED <<status, refs>>
    BY <1>1 DEF Distilled, db
  <2>1. CASE Return(c)
    BY <2>0, <2>1, StillTables, EarningReturn
  <2>2. CASE \E b \in Unminted : call' = [call EXCEPT ![c].pc = "find", ![c].blk = b]
    <3>1. PICK b \in Unminted : call' = [call EXCEPT ![c] = [f EXCEPT !.pc = "find", !.blk = b]]
      BY <2>2
    <3>2. Earning([f EXCEPT !.pc = "find", !.blk = b])
      BY <1>f DEF Earning, ContestLabel
    <3> QED BY <2>0, <3>1, <3>2, EarningRead
  <2> QED BY <1>1, <2>1, <2>2 DEF Distilled
<1>2. CASE Find(c)
  <2>0. UNCHANGED <<status, refs>>
    BY <1>2 DEF Find, db
  <2>1. CASE \E a \in SameKey(f.blk) : call' = [call EXCEPT ![c] = OnHit(@, a)]
    <3>1. PICK a : call' = [call EXCEPT ![c] = OnHit(f, a)]
      BY <2>1
    <3>2. Earning(OnHit(f, a))
      BY <1>f DEF OnHit, Earning, ContestLabel
    <3> QED BY <2>0, <3>1, <3>2, EarningRead
  <2>2. CASE call' = [call EXCEPT ![c] = OnMiss(@)]
    <3>1. call' = [call EXCEPT ![c] = OnMiss(f)]
      BY <2>2
    <3>2. Earning(OnMiss(f))
      BY <1>f DEF OnMiss, Earning, ContestLabel
    <3> QED BY <2>0, <3>1, <3>2, EarningRead
  <2> QED BY <1>2, <2>1, <2>2 DEF Find
<1>3. CASE AlreadySupported(c)
  <2>0. UNCHANGED <<status, refs>> /\ "get" \notin ContestLabel
    BY <1>3 DEF AlreadySupported, db, ContestLabel
  <2> QED BY <1>3, <2>0, StillTables, EarningReturn, EarningGoto DEF AlreadySupported
<1>4. CASE CommitPattern(c)
  <2>1. CASE UNCHANGED <<status, refs, spent>>
    BY <1>4, <2>1, StillTables, EarningReturn DEF CommitPattern
  <2>2. CASE AddRef(f.blk, f.trace, "origin") /\ status' = [status EXCEPT ![f.blk] = "active"]
    <3>1. PICK i \in RefId : refs' = refs \cup {[id |-> i, block |-> f.blk,
                                                  trace |-> f.trace, role |-> "origin"]}
      BY <2>2 DEF AddRef
    <3>2. RefsStay /\ NoCounterCame
      BY <3>1 DEF RefsStay, NoCounterCame
    <3>3. ServedEarned
      <4> SUFFICES ASSUME NEW b \in Block, status'[b] = "active"
                   PROVE  Earned(b) \/ \E r \in refs' : r.block = b /\ r.role = "origin"
        BY DEF ServedEarned
      <4>1. CASE b = f.blk
        <5> DEFINE r == [id |-> i, block |-> f.blk, trace |-> f.trace, role |-> "origin"]
        <5>1. r \in refs' /\ r.block = b /\ r.role = "origin"
          BY <3>1, <4>1
        <5> QED BY <5>1
      <4>2. CASE b # f.blk
        BY <2>2, <4>2 DEF Uncontested, Catalogued, Typed, TypeOK, Earned
      <4> QED BY <4>1, <4>2
    <3> QED BY <1>4, <3>2, <3>3, EarningReturn DEF CommitPattern
  <2> QED BY <1>4, <2>1, <2>2 DEF CommitPattern
<1>5. CASE Collide(c)
  <2>0. UNCHANGED <<status, refs>> /\ "insert" \notin ContestLabel
    BY <1>5 DEF Collide, db, ContestLabel
  <2> QED BY <1>5, <2>0, StillTables, EarningReturn, EarningGoto DEF Collide
<1>6. CASE StoreBlock(c)
  <2>1. RefsStay /\ NoCounterCame
    BY <1>6 DEF StoreBlock, RefsStay, NoCounterCame
  <2>2. ServedEarned
    BY <1>6 DEF StoreBlock, Insert, ServedEarned, Earned, Uncontested, Catalogued, Typed, TypeOK
  <2>3. /\ \A d \in Client \ {c} : call'[d] = call[d]
        /\ call'[c].role = "origin" /\ call'[c].pc = "get"
    BY <1>6, <1>f DEF StoreBlock, Uncontested, Catalogued, Typed, TypeOK
  <2> QED BY <2>1, <2>2, <2>3 DEF EarningMoves, Earning, ContestLabel
<1>7. CASE GetBlock(c)
  <2>0. UNCHANGED <<status, refs>>
    BY <1>7 DEF GetBlock, db
  <2>1. CASE Exists(f.blk)
    <3>1. call' = [call EXCEPT ![c] = [f EXCEPT !.pc = "link", !.val = status[f.blk]]]
      BY <1>7, <2>1 DEF GetBlock
    <3>2. Earning([f EXCEPT !.pc = "link", !.val = status[f.blk]])
      BY <1>f DEF Earning, ContestLabel
    <3> QED BY <2>0, <3>1, <3>2, EarningRead
  <2>2. CASE ~Exists(f.blk)
    BY <1>7, <2>0, <2>2, StillTables, EarningReturn DEF GetBlock
  <2> QED BY <2>1, <2>2
<1>8. CASE LinkRef(c)
  <2>1. CASE Linkable(f.blk, f.trace, f.role)
    <3>1. UNCHANGED status /\ f.role # "counter"
      BY <1>8, <1>f, <2>1 DEF LinkRef, Earning
    <3>2. PICK i \in RefId : refs' = refs \cup {[id |-> i, block |-> f.blk,
                                                  trace |-> f.trace, role |-> f.role]}
      BY <1>8, <2>1 DEF LinkRef, AddRef
    <3>3. RefsStay /\ NoCounterCame
      BY <3>1, <3>2 DEF RefsStay, NoCounterCame
    <3>4. ServedEarned
      BY <3>1 DEF ServedEarned, Uncontested, Earned
    <3>5. CASE Promotes(f)
      <4>1. /\ \A d \in Client \ {c} : call'[d] = call[d]
            /\ call'[c].role = f.role /\ call'[c].pc = "update"
        BY <1>8, <1>f, <2>1, <3>5 DEF LinkRef, Uncontested, Catalogued, Typed, TypeOK
      <4> QED BY <3>1, <3>3, <3>4, <4>1 DEF EarningMoves, Earning, ContestLabel
    <3>6. CASE ~Promotes(f)
      BY <1>8, <2>1, <3>3, <3>4, <3>6, EarningReturn DEF LinkRef
    <3> QED BY <3>5, <3>6
  <2>2. CASE ~Linkable(f.blk, f.trace, f.role)
    BY <1>8, <2>2, StillTables, EarningReturn DEF LinkRef
  <2> QED BY <2>1, <2>2
<1>9. CASE Update(c)
  <2>0. UNCHANGED <<status, refs>> /\ "origin" \notin ContestLabel /\ "write" \notin ContestLabel
    BY <1>9 DEF Update, db, ContestLabel
  <2> QED BY <1>9, <2>0, StillTables, EarningReturn, EarningGoto DEF Update
<1>10. CASE CheckOrigin(c)
  <2>0. UNCHANGED <<status, refs>> /\ "counter" \notin ContestLabel
    BY <1>10 DEF CheckOrigin, db, ContestLabel
  <2> QED BY <1>10, <2>0, StillTables, EarningReturn, EarningGoto DEF CheckOrigin, Earned
<1>11. CASE CheckCounter(c)
  <2>0. UNCHANGED <<status, refs>> /\ "write" \notin ContestLabel
    BY <1>11 DEF CheckCounter, db, ContestLabel
  <2>1. f.val = "active" => Earned(f.blk)
    BY <1>11, <1>f DEF CheckCounter, At, Earning
  <2> QED BY <1>11, <2>0, <2>1, StillTables, EarningReturn, EarningGoto DEF CheckCounter
<1>12. CASE Write(c)
  <2>1. f.blk \in Block /\ (f.val = "active" => Earned(f.blk))
    BY <1>12, <1>f DEF Write, At, WellFormed, NeedsBlock, Label, Earning
  <2>2. RefsStay /\ NoCounterCame
    BY <1>12 DEF Write, RefsStay, NoCounterCame
  <2>3. ServedEarned
    BY <1>12, <1>f, <2>1 DEF Write, SetStatus, ServedEarned, Earned, Uncontested, Catalogued, Typed, TypeOK
  <2>4. CASE f.op = "success"
    <3>1. /\ \A d \in Client \ {c} : call'[d] = call[d]
          /\ call'[c].role = f.role /\ call'[c].pc = "verify"
      BY <1>12, <1>f, <2>4 DEF Write, Uncontested, Catalogued, Typed, TypeOK
    <3> QED BY <1>f, <2>2, <2>3, <3>1 DEF EarningMoves, Earning, ContestLabel
  <2>5. CASE f.op # "success"
    BY <1>12, <2>2, <2>3, <2>5, EarningReturn DEF Write
  <2> QED BY <2>4, <2>5
<1>13. CASE Verified(c)
  <2>0. UNCHANGED <<status, refs>> /\ "origin" \notin ContestLabel /\ "write" \notin ContestLabel
    BY <1>13 DEF Verified, db, ContestLabel
  <2> QED BY <1>13, <2>0, EarningGoto DEF Verified
<1>14. CASE EraseTx(c)
  <2>1. f.blk \in Block
    BY <1>14, <1>f DEF EraseTx, At, WellFormed, NeedsBlock, Label
  <2> QED BY <1>14, <2>1, DropStays, EarningReturn DEF EraseTx
<1>15. f.pc \notin ContestLabel
  BY <1>f DEF Earning
<1>16. ~(GetLoser(c) \/ MergeTx(c) \/ DetachRow(c) \/ Orphan(c) \/ StillHas(c) \/ Quarantine(c))
  BY <1>15 DEF GetLoser, MergeTx, DetachRow, Orphan, StillHas, Quarantine, At, ContestLabel
<1> QED BY <1>1, <1>2, <1>3, <1>4, <1>5, <1>6, <1>7, <1>8, <1>9, <1>10, <1>11,
           <1>12, <1>13, <1>14, <1>16 DEF Runs

\* Every block another process can read as active has an origin ref and no
\* counter ref, in every state, for any number of processes that interleave
\* between statements and die at any of them.
THEOREM ServedIsJustified ==
    ASSUME Ops \cap Contesting = {}
    PROVE  Spec => []AlwaysJustified
<1>1. Init => Uncontested
  <2> SUFFICES ASSUME Init PROVE Uncontested
    OBVIOUS
  <2>1. \A c \in Client : call[c] = Idle
    BY DEF Init
  <2>2. Earning(Idle)
    BY DEF Idle, Earning, ContestLabel
  <2>3. refs = {} /\ \A b \in Block : status[b] = "fresh"
    BY DEF Init
  <2> QED BY <2>1, <2>2, <2>3, CatalogueInit DEF Uncontested
<1>2. Uncontested /\ [Next]_vars => Uncontested'
  <2> SUFFICES ASSUME Uncontested, [Next]_vars PROVE Uncontested'
    OBVIOUS
  <2>0. Catalogued /\ Catalogued'
    BY CatalogueStep DEF Uncontested
  <2>1. CASE \E c \in Client : Enters(c)
    BY <2>0, <2>1, EntersMoves, EntersEarn, EarningKept DEF TableMoves
  <2>2. CASE \E c \in Client : Runs(c)
    BY <2>0, <2>2, RunsMoves, RunsEarn, EarningKept DEF TableMoves
  <2>3. CASE \E c \in Client : Fail(c)
    <3>1. PICK c \in Client : Return(c) /\ UNCHANGED <<status, refs>>
      BY <2>3 DEF Fail, db
    <3>2. EarningMoves(c)
      BY <3>1, StillTables, EarningReturn
    <3> QED BY <2>0, <3>1, <3>2, EarningKept
  <2>4. CASE \E t \in Trace : DeleteTrace(t)
    BY <2>0, <2>4 DEF DeleteTrace, Uncontested, Earning, Earned, Has
  <2>5. CASE UNCHANGED vars
    BY <2>0, <2>5 DEF vars, Uncontested, Earning, Earned, Has
  <2> QED BY <2>1, <2>2, <2>3, <2>4, <2>5 DEF Next
<1>3. Uncontested => AlwaysJustified
  BY DEF Uncontested, AlwaysJustified, Has
<1> QED BY <1>1, <1>2, <1>3, PTL DEF Spec

=============================================================================
