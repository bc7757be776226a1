---------------------------- MODULE CatalogProofs ----------------------------
(***************************************************************************)
(* What the catalogue owes to its readers and to its evidence: merges lose *)
(* no evidence, whichever processes run and die; a block without an origin *)
(* has a call that brings one; and while one process writes, no trigger    *)
(* has two blocks, what is served is justified, and the store implements   *)
(* the shelf of module Catalog.                                            *)
(***************************************************************************)
EXTENDS BlockStoreProofs

-----------------------------------------------------------------------------
(* Merging.  A call that is about to merge names two different blocks of   *)
(* one trigger.                                                            *)

Merging(f) ==
    /\ f.pc \in {"loser", "merge"} => f.peer \in Block /\ f.peer # f.blk
    /\ f.pc = "merge" => KeyOf[f.peer] = KeyOf[f.blk]

Merges == \A c \in Client : Merging(call[c])

LEMMA AfterReturn ==
    ASSUME Typed, NEW c \in Client, Return(c)
    PROVE  call'[c] = Idle /\ \A d \in Client \ {c} : call'[d] = call[d]
  BY DEF Typed, TypeOK, Return

LEMMA AfterGoto ==
    ASSUME Typed, NEW c \in Client, NEW l, Goto(c, l)
    PROVE  /\ call'[c].pc = l /\ call'[c].op = call[c].op
           /\ call'[c].blk = call[c].blk /\ call'[c].peer = call[c].peer
           /\ call'[c].trace = call[c].trace /\ call'[c].role = call[c].role
           /\ call'[c].val = call[c].val /\ call'[c].todo = call[c].todo
           /\ \A d \in Client \ {c} : call'[d] = call[d]
  BY DEF Typed, TypeOK, Frame, Goto

\* The frames that FrameStep's callers write
LEMMA AfterFrame ==
    ASSUME Typed, NEW c \in Client, NEW g, call' = [call EXCEPT ![c] = g]
    PROVE  call'[c] = g /\ \A d \in Client \ {c} : call'[d] = call[d]
  BY DEF Typed, TypeOK

LEMMA StartsMerging ==
    ASSUME Catalogued, Merges, NEW c \in Client, Enters(c)
    PROVE  Merging(call'[c])
<1>f. call \in [Client -> Frame] /\ Merging(call[c])
  BY DEF Catalogued, Typed, TypeOK, Merges
<1>e. \A f : Enter(c, f) => call'[c] = f
  BY <1>f DEF Enter
<1>1. CASE MergeBlocks(c)
  <2>1. PICK w \in Named, l \in Named :
           /\ w # l
           /\ Enter(c, [Idle EXCEPT !.op = "merge", !.pc = "loser", !.blk = w,
                                    !.peer = l, !.val = status[w]])
    BY <1>1 DEF MergeBlocks
  <2>2. call'[c] = [Idle EXCEPT !.op = "merge", !.pc = "loser", !.blk = w,
                                !.peer = l, !.val = status[w]]
    BY <1>e, <2>1
  <2> QED BY <2>1, <2>2 DEF Merging, Idle, Named
<1>2. CASE DeleteBlock(c)
  BY <1>2, <1>f DEF DeleteBlock
<1>3. CASE \/ DistillTrace(c) \/ StorePattern(c) \/ DistillDomain(c) \/ UpdateBlockStatus(c)
           \/ AttachCounter(c) \/ DetachCaseRef(c) \/ OrphanMissingRefs(c) \/ HardDeleteBlock(c)
  <2>1. call'[c].pc \notin {"loser", "merge"}
    BY <1>3, <1>e DEF DistillTrace, StorePattern, DistillDomain, UpdateBlockStatus,
       AttachCounter, DetachCaseRef, OrphanMissingRefs, HardDeleteBlock, Idle
  <2> QED BY <2>1 DEF Merging
<1>4. CASE ReadForWriteBack(c)
  <2>1. call'[c].pc \notin {"loser", "merge"}
    BY <1>4, <1>e DEF ReadForWriteBack, Idle
  <2> QED BY <2>1 DEF Merging
<1> QED BY <1>1, <1>2, <1>3, <1>4 DEF Enters

LEMMA RunsOnMerging ==
    ASSUME Catalogued, Merges, NEW c \in Client, Runs(c)
    PROVE  Merging(call'[c])
<1> DEFINE f == call[c]
<1>f. /\ call \in [Client -> Frame] /\ Merging(f)
      /\ f \in [op : Operations \cup {"none"}, pc : Label,
                blk : Block \cup {NoBlock}, peer : Block \cup {NoBlock},
                trace : Trace \cup {NoTrace}, role : Role,
                val : Live, todo : SUBSET Ref]
  BY DEF Catalogued, Typed, TypeOK, Merges, Frame
<1>r. Return(c) => call'[c].pc = "idle"
  BY <1>f DEF Return, Idle
<1>g. \A l : Goto(c, l) => call'[c] = [f EXCEPT !.pc = l]
  BY <1>f DEF Goto
<1>1. CASE GetLoser(c)
  <2>1. CASE Goto(c, "merge") /\ KeyOf[f.peer] = KeyOf[f.blk]
    BY <1>1, <1>f, <1>g, <2>1 DEF GetLoser, At, Merging
  <2>2. CASE Return(c)
    BY <1>r, <2>2 DEF Merging
  <2> QED BY <1>1, <2>1, <2>2 DEF GetLoser
<1>2. CASE \/ AlreadySupported(c) \/ Collide(c) \/ Update(c) \/ CheckOrigin(c)
           \/ CheckCounter(c) \/ Verified(c) \/ StillHas(c) \/ Quarantine(c)
  <2>1. Return(c) \/ \E l \in Label \ {"loser", "merge"} : Goto(c, l)
    BY <1>2 DEF AlreadySupported, Collide, Update, CheckOrigin, CheckCounter, Verified,
       StillHas, Quarantine, Resume, Label
  <2>2. call'[c].pc \notin {"loser", "merge"}
    BY <1>r, <2>1, AfterGoto DEF Catalogued
  <2> QED BY <2>2 DEF Merging
<1>3. CASE Distilled(c) \/ StoreBlock(c) \/ GetBlock(c) \/ LinkRef(c) \/ Write(c)
  <2>1. CASE Distilled(c)
    <3>1. Return(c) \/ \E b : call' = [call EXCEPT ![c] = [f EXCEPT !.pc = "find", !.blk = b]]
      BY <2>1 DEF Distilled
    <3>2. ASSUME NEW b, call' = [call EXCEPT ![c] = [f EXCEPT !.pc = "find", !.blk = b]]
          PROVE  call'[c].pc = "find"
      BY <1>f, <3>2
    <3>3. call'[c].pc \in {"idle", "find"}
      BY <1>r, <3>1, <3>2
    <3> QED BY <3>3 DEF Merging
  <2>2. CASE StoreBlock(c)
    BY <1>f, <2>2 DEF StoreBlock, Merging
  <2>3. CASE GetBlock(c)
    BY <1>f, <1>r, <2>3 DEF GetBlock, Merging
  <2>4. CASE LinkRef(c)
    BY <1>f, <1>r, <2>4 DEF LinkRef, Merging
  <2>5. CASE Write(c)
    BY <1>f, <1>r, <2>5 DEF Write, Merging
  <2> QED BY <1>3, <2>1, <2>2, <2>3, <2>4, <2>5
<1>4. CASE CommitPattern(c) \/ MergeTx(c) \/ EraseTx(c)
  BY <1>4, <1>r DEF CommitPattern, MergeTx, EraseTx, Merging
<1>5. CASE Find(c)
  <2>1. CASE \E a \in SameKey(f.blk) : call' = [call EXCEPT ![c] = OnHit(@, a)]
    <3>1. PICK a : call'[c] = OnHit(f, a)
      BY <1>f, <2>1
    <3>2. OnHit(f, a).pc \in {"origin", "supported", "get"}
      BY <1>f DEF OnHit
    <3> QED BY <3>1, <3>2 DEF Merging
  <2>2. CASE call' = [call EXCEPT ![c] = OnMiss(@)]
    BY <1>f, <2>2 DEF OnMiss, Merging
  <2> QED BY <1>5, <2>1, <2>2 DEF Find
<1>6. CASE DetachRow(c)
  <2>1. Return(c) \/ \E r : call'[c] = [f EXCEPT !.pc = "stillHas", !.blk = r.block, !.todo = {}]
    BY <1>6, <1>f DEF DetachRow
  <2> QED BY <1>r, <1>f, <2>1 DEF Merging
<1>7. CASE Orphan(c)
  <2>1. \/ Return(c)
        \/ \E r : call'[c] = [f EXCEPT !.todo = @ \ {r}, !.blk = r.block,
                                       !.pc = IF r.role = "origin" THEN "stillHas"
                                              ELSE "orphan"]
    BY <1>7, <1>f DEF Orphan
  <2> QED BY <1>r, <1>f, <2>1 DEF Merging
<1> QED BY <1>1, <1>2, <1>3, <1>4, <1>5, <1>6, <1>7 DEF Runs

LEMMA MergesInit == Init => Merges
  BY DEF Init, Idle, Merges, Merging

LEMMA MergesStep == Catalogued /\ Merges /\ [Next]_vars => Merges'
<1> SUFFICES ASSUME Catalogued, Merges, [Next]_vars PROVE Merges'
  OBVIOUS
<1>1. ASSUME NEW c \in Client, Enters(c) \/ Runs(c) PROVE Merges'
  <2>1. \A d \in Client \ {c} : call'[d] = call[d]
    BY <1>1, EntersMoves, RunsMoves DEF FrameMoves
  <2>2. Merging(call'[c])
    BY <1>1, StartsMerging, RunsOnMerging
  <2> QED BY <2>1, <2>2 DEF Merges, Merging
<1>2. CASE \E c \in Client : Fail(c)
  BY <1>2 DEF Fail, Return, Idle, Merges, Merging, Catalogued, Typed, TypeOK
<1>3. CASE \E t \in Trace : DeleteTrace(t)
  BY <1>3 DEF DeleteTrace, Merges, Merging
<1>4. CASE UNCHANGED vars
  BY <1>4 DEF vars, Merges, Merging
<1> QED BY <1>1, <1>2, <1>3, <1>4 DEF Next

-----------------------------------------------------------------------------
(* Evidence.  A ref leaves its row in three ways only: repointed to the    *)
(* winner of a merge, which cites the trace already or from then on;       *)
(* orphaned; or deleted with its block or by the call that detaches it.    *)

RefKept(r) ==
    \/ \E q \in refs' : /\ KeyOf[q.block] = KeyOf[r.block]
                        /\ q.trace = r.trace
                        /\ q.role \in {r.role, "orphan"}
    \/ status'[r.block] = "gone"
    \/ \E c \in Client : call[c].pc = "detach" /\ r.id \in {q.id : q \in call[c].todo}

LEMMA StaysKept ==
    ASSUME NEW r \in refs, r \in refs'
    PROVE  RefKept(r)
  BY DEF RefKept

LEMMA DropKeeps ==
    ASSUME Catalogued, NEW b \in Block, DropBlock(b), NEW r \in refs
    PROVE  RefKept(r)
<1>1. CASE r.block = b
  <2>1. Exists(b)
    BY <1>1 DEF Catalogued, NoDanglingRef
  <2> QED BY <1>1, <2>1 DEF DropBlock, RefKept, Catalogued, Typed, TypeOK
<1>2. CASE r.block # b
  BY <1>2, StaysKept DEF DropBlock
<1> QED BY <1>1, <1>2

\* UPDATE OR IGNORE loses no evidence: what it ignores, the winner cites.
LEMMA MergeKeeps ==
    ASSUME Catalogued, Merges, NEW c \in Client, MergeTx(c), NEW r \in refs
    PROVE  RefKept(r)
<1> DEFINE w == call[c].blk
           l == call[c].peer
<1>1. w \in Block /\ l \in Block /\ KeyOf[l] = KeyOf[w]
  BY DEF MergeTx, At, Merges, Merging, Catalogued, Typed, WellFormed, NeedsBlock, Label
<1>2. CASE UNCHANGED refs
  BY <1>2, StaysKept
<1>3. CASE refs' = Repointed(w, l)
  <2>1. CASE r.block # l
    BY <1>3, <2>1, StaysKept DEF Repointed
  <2>2. CASE r.block = l /\ Cited(w, r.trace, r.role)
    <3>1. PICK q \in refs : q.block = w /\ q.trace = r.trace /\ q.role = r.role
      BY <2>2 DEF Cited
    <3>2. w # l
      BY DEF MergeTx, At, Merges, Merging
    <3>3. q \in refs'
      BY <1>3, <3>1, <3>2 DEF Repointed
    <3> QED BY <1>1, <2>2, <3>1, <3>3 DEF RefKept
  <2>3. CASE r.block = l /\ ~Cited(w, r.trace, r.role)
    <3> DEFINE q == [r EXCEPT !.block = w]
    <3>1. q \in refs'
      BY <1>3, <2>3 DEF Repointed
    <3>2. r \in [id : RefId, block : Block, trace : Trace, role : Role]
      BY DEF Catalogued, Typed, TypeOK, Ref
    <3>3. q.block = w /\ q.trace = r.trace /\ q.role = r.role
      BY <3>2
    <3> QED BY <1>1, <2>3, <3>1, <3>3 DEF RefKept
  <2> QED BY <2>1, <2>2, <2>3
<1> QED BY <1>2, <1>3 DEF MergeTx

LEMMA OrphanKeeps ==
    ASSUME Catalogued, NEW c \in Client, Orphan(c), NEW r \in refs
    PROVE  RefKept(r)
<1>1. CASE UNCHANGED refs
  BY <1>1, StaysKept
<1>2. CASE \E s \in call[c].todo : LET rows == {q \in refs : q.id = s.id} IN
             refs' = (refs \ rows) \cup {[q EXCEPT !.role = "orphan"] : q \in rows}
  <2>1. PICK s \in call[c].todo :
           refs' = (refs \ {q \in refs : q.id = s.id})
                      \cup {[q EXCEPT !.role = "orphan"] : q \in {q \in refs : q.id = s.id}}
    BY <1>2
  <2>2. CASE r.id = s.id
    <3> DEFINE q == [r EXCEPT !.role = "orphan"]
    <3>1. q \in refs'
      BY <2>1, <2>2
    <3>2. r \in [id : RefId, block : Block, trace : Trace, role : Role]
      BY DEF Catalogued, Typed, TypeOK, Ref
    <3>3. q.block = r.block /\ q.trace = r.trace /\ q.role = "orphan"
      BY <3>2
    <3> QED BY <3>1, <3>3 DEF RefKept
  <2>3. CASE r.id # s.id
    BY <2>1, <2>3, StaysKept
  <2> QED BY <2>2, <2>3
<1> QED BY <1>1, <1>2 DEF Orphan

LEMMA StepKeeps ==
    ASSUME Catalogued, Merges, NEW c \in Client, Enters(c) \/ Runs(c), NEW r \in refs
    PROVE  RefKept(r)
<1>1. CASE \/ DistillTrace(c) \/ StorePattern(c) \/ DistillDomain(c) \/ ReadForWriteBack(c)
           \/ UpdateBlockStatus(c) \/ AttachCounter(c) \/ MergeBlocks(c) \/ DetachCaseRef(c)
           \/ OrphanMissingRefs(c) \/ HardDeleteBlock(c)
  <2>1. UNCHANGED refs
    BY <1>1 DEF DistillTrace, StorePattern, DistillDomain, ReadForWriteBack,
       UpdateBlockStatus, AttachCounter, MergeBlocks, DetachCaseRef, OrphanMissingRefs,
       HardDeleteBlock, Enter, db
  <2> QED BY <2>1, StaysKept
<1>2. CASE DeleteBlock(c)
  BY <1>2, DropKeeps DEF DeleteBlock, Named
<1>3. CASE \/ Distilled(c) \/ Find(c) \/ AlreadySupported(c) \/ Collide(c) \/ StoreBlock(c)
           \/ GetBlock(c) \/ Update(c) \/ CheckOrigin(c) \/ CheckCounter(c) \/ Write(c)
           \/ Verified(c) \/ GetLoser(c) \/ StillHas(c) \/ Quarantine(c)
  <2>1. UNCHANGED refs
    BY <1>3 DEF Distilled, Find, AlreadySupported, Collide, StoreBlock, GetBlock, Update,
       CheckOrigin, CheckCounter, Write, Verified, GetLoser, StillHas, Quarantine, db
  <2> QED BY <2>1, StaysKept
<1>4. CASE CommitPattern(c) \/ LinkRef(c)
  <2>1. refs \subseteq refs'
    BY <1>4 DEF CommitPattern, LinkRef, AddRef
  <2> QED BY <2>1, StaysKept
<1>5. CASE MergeTx(c)
  BY <1>5, MergeKeeps
<1>6. CASE DetachRow(c)
  <2>1. PICK s \in call[c].todo : refs' = {q \in refs : q.id # s.id}
    BY <1>6 DEF DetachRow
  <2>2. CASE r.id = s.id
    BY <1>6, <2>1, <2>2 DEF DetachRow, At, RefKept
  <2>3. CASE r.id # s.id
    BY <2>1, <2>3, StaysKept
  <2> QED BY <2>2, <2>3
<1>7. CASE Orphan(c)
  BY <1>7, OrphanKeeps
<1>8. CASE EraseTx(c)
  <2>1. call[c].blk \in Block /\ DropBlock(call[c].blk)
    BY <1>8 DEF EraseTx, At, Catalogued, Typed, WellFormed, NeedsBlock, Label
  <2> QED BY <2>1, DropKeeps
<1> QED BY <1>1, <1>2, <1>3, <1>4, <1>5, <1>6, <1>7, <1>8 DEF Enters, Runs

\* Whatever processes run and wherever they die, merging, sweeping and erasing
\* lose no case ref by accident.
THEOREM EvidenceSurvives == Spec => EvidenceKept
<1> DEFINE Kept == \A r \in refs : RefKept(r)
<1>1. Catalogued /\ Merges /\ [Next]_vars => [Kept]_vars
  <2> SUFFICES ASSUME Catalogued, Merges, Next, NEW r \in refs PROVE RefKept(r)
    OBVIOUS
  <2>1. CASE \E c \in Client : Enters(c) \/ Runs(c)
    BY <2>1, StepKeeps
  <2>2. CASE (\E c \in Client : Fail(c)) \/ \E t \in Trace : DeleteTrace(t)
    BY <2>2, StaysKept DEF Fail, db, DeleteTrace
  <2> QED BY <2>1, <2>2 DEF Next
<1>2. [Kept]_vars => [\A r \in refs :
          \/ \E q \in refs' : /\ KeyOf[q.block] = KeyOf[r.block]
                              /\ q.trace = r.trace
                              /\ q.role \in {r.role, "orphan"}
          \/ status'[r.block] = "gone"
          \/ \E c \in Client : call[c].pc = "detach" /\ r.id \in {q.id : q \in call[c].todo}]_vars
  BY DEF RefKept
<1> QED BY <1>1, <1>2, CatalogueInit, CatalogueStep, MergesInit, MergesStep, PTL DEF Spec, EvidenceKept

-----------------------------------------------------------------------------
(* One process.  A call that is not at rest is the only one, so what it    *)
(* found out since it last rested is still true.                           *)

Alone == \A c, d \in Client : Resting(c) \/ Resting(d) \/ c = d

\* A call that dies here leaves a served block without its origin
Spared == Killable \cap {"detach", "sweep"} = {}

Doubting == {"stillHas", "quarantine"}

\* What a frame at a label knows of the tables
Sound(f) ==
    /\ f.pc = "insert" => SameKey(f.blk) = {}
    /\ f.pc = "link" => Exists(f.blk) /\ f.val = status[f.blk]
    /\ f.pc = "counter" => Has(f.blk, "origin")
    /\ f.pc = "write" /\ f.val = "active" => Has(f.blk, "origin") /\ ~Has(f.blk, "counter")
    /\ f.pc = "quarantine" => ~Has(f.blk, "origin")
    /\ f.pc = "loser" => Exists(f.blk) /\ f.peer \in Block /\ f.peer # f.blk
    /\ f.pc # "merge"
    /\ f.pc \in Doubting => f.op \in {"detach", "sweep"}
    /\ f.pc \in {"detach", "orphan"} \cup Doubting => f.todo \subseteq refs
    /\ f.pc = "detach" => f.op = "detach"
    /\ f.pc = "orphan" => f.op = "sweep"

\* An id names one ref, and is never minted again
Minted ==
    /\ \A r \in refs : r.id \in spent
    /\ \A q, r \in refs : q.id = r.id => q = r

\* A served block is not contradicted, and has an origin unless the call that
\* took the last one away is about to withdraw it
Backed(b) ==
    /\ ~Has(b, "counter")
    /\ Has(b, "origin") \/ \E c \in Client : call[c].pc \in Doubting /\ call[c].blk = b

AllBacked == Spared => \A b \in Block : status[b] = "active" => Backed(b)

Single ==
    /\ Catalogued /\ Alone /\ Minted
    /\ \A c \in Client : Sound(call[c])
    /\ OneBlockPerTrigger
    /\ AllBacked

\* Where a call has found out nothing it still relies on
Quiet == Label \ ({"insert", "link", "counter", "write", "loser", "merge", "detach", "orphan"}
                    \cup Doubting)

LEMMA QuietSound ==
    ASSUME NEW c \in Client, call'[c].pc \in Quiet
    PROVE  Sound(call[c])'
  BY DEF Quiet, Sound, Doubting

LEMMA OneAtATime ==
    ASSUME NEW c \in Client, Enters(c) \/ Runs(c)
    PROVE  Turn(c)
<1>1. CASE Enters(c)
  BY <1>1 DEF Enters, DistillTrace, StorePattern, DistillDomain, ReadForWriteBack,
     UpdateBlockStatus, AttachCounter, MergeBlocks, DetachCaseRef, OrphanMissingRefs,
     HardDeleteBlock, DeleteBlock, Enter, At
<1>2. CASE Runs(c)
  BY <1>2 DEF Runs, Distilled, Find, AlreadySupported, CommitPattern, Collide, StoreBlock,
     GetBlock, LinkRef, Update, CheckOrigin, CheckCounter, Write, Verified, GetLoser,
     MergeTx, DetachRow, Orphan, StillHas, Quarantine, EraseTx, At
<1> QED BY <1>1, <1>2

\* The calls that do not move are at rest, and rely on nothing.
LEMMA SingleMoves ==
    ASSUME Single, OneProcess, Catalogued', NEW c \in Client, Turn(c),
           \A d \in Client \ {c} : call'[d] = call[d],
           Sound(call[c])', Minted', OneBlockPerTrigger', AllBacked'
    PROVE  Single'
<1>1. \A d \in Client \ {c} : call'[d].pc \in {"idle", "distill", "verify"}
  BY DEF Turn, Resting, Await
<1>2. Alone'
  BY <1>1 DEF Alone, Resting, Await
<1>3. \A d \in Client \ {c} : Sound(call[d])'
  BY <1>1, QuietSound DEF Quiet, Label, Doubting
<1> QED BY <1>2, <1>3 DEF Single

LEMMA ReadSingle ==
    ASSUME Single, OneProcess, Catalogued', NEW c \in Client, Turn(c), UNCHANGED db,
           \A d \in Client \ {c} : call'[d] = call[d], Sound(call[c])',
           call[c].pc \in Doubting /\ ~Has(call[c].blk, "origin") =>
              call'[c].pc \in Doubting /\ call'[c].blk = call[c].blk
    PROVE  Single'
<1>1. Minted' /\ OneBlockPerTrigger'
  BY DEF db, Single, Minted, OneBlockPerTrigger, Exists
<1>2. AllBacked'
  <2> SUFFICES ASSUME Spared, NEW b \in Block, status[b] = "active"
               PROVE  Backed(b)'
    BY DEF AllBacked, db
  <2>1. Backed(b)
    BY DEF Single, AllBacked
  <2>2. \A d \in Client \ {c} : call[d].pc \notin Doubting
    BY DEF Turn, Resting, Await, Doubting
  <2>3. CASE Has(b, "origin")
    BY <2>1, <2>3 DEF Backed, Has, db
  <2>4. CASE ~Has(b, "origin")
    BY <2>1, <2>2, <2>4 DEF Backed, Has, db
  <2> QED BY <2>3, <2>4
<1> QED BY <1>1, <1>2, SingleMoves

LEMMA EnterSingle ==
    ASSUME Single, OneProcess, Catalogued', NEW c \in Client, NEW f, Enter(c, f),
           Sound(f)'
    PROVE  Single'
<1>1. call'[c] = f /\ \A d \in Client \ {c} : call'[d] = call[d]
  BY AfterFrame DEF Enter, Single, Catalogued
<1>2. call[c].pc \notin Doubting /\ Turn(c) /\ UNCHANGED db
  BY DEF Enter, At, Doubting
<1> QED BY <1>1, <1>2, ReadSingle

\* A deletion leaves nothing of the row that was served.
LEMMA DropSingle ==
    ASSUME Single, OneProcess, Catalogued', NEW c \in Client, Turn(c),
           call[c].pc \notin Doubting, NEW b \in Block, DropBlock(b), spent' = spent,
           \A d \in Client \ {c} : call'[d] = call[d], call'[c].pc = "idle"
    PROVE  Single'
<1>1. \A a \in Block : status'[a] = IF a = b /\ Exists(b) THEN "gone" ELSE status[a]
  BY DEF DropBlock, Single, Catalogued, Typed, TypeOK
<1>2. refs' \subseteq refs /\ \A r \in refs : r \in refs' \/ r.block = b
  BY DEF DropBlock
<1>3. Minted'
  BY <1>2 DEF Single, Minted
<1>4. OneBlockPerTrigger'
  BY <1>1 DEF Single, OneBlockPerTrigger, Exists, Live
<1>5. AllBacked'
  <2> SUFFICES ASSUME Spared, NEW a \in Block, status'[a] = "active"
               PROVE  Backed(a)'
    BY DEF AllBacked
  <2>1. a # b /\ status[a] = "active"
    BY <1>1 DEF Exists, Live
  <2>2. Backed(a) /\ \A d \in Client : call[d].pc \notin Doubting
    BY <2>1 DEF Single, AllBacked, Turn, Resting, Await, Doubting
  <2> QED BY <1>2, <2>1, <2>2 DEF Backed, Has
<1>6. Sound(call[c])'
  BY QuietSound DEF Quiet, Label, Doubting
<1> QED BY <1>3, <1>4, <1>5, <1>6, SingleMoves

LEMMA EntersSingle ==
    ASSUME Single, OneProcess, Catalogued', NEW c \in Client, Enters(c)
    PROVE  Single'
<1>1. CASE DistillTrace(c)
  <2>1. PICK t \in known, lane \in {"success", "failure"} :
           Enter(c, [Idle EXCEPT !.op = lane, !.pc = "distill", !.trace = t])
    BY <1>1 DEF DistillTrace
  <2>2. Sound([Idle EXCEPT !.op = lane, !.pc = "distill", !.trace = t])'
    BY DEF Sound, Doubting, Idle
  <2> QED BY <2>1, <2>2, EnterSingle
<1>2. CASE StorePattern(c)
  <2>1. PICK t \in Trace, b \in Unminted :
           Enter(c, [Idle EXCEPT !.op = "pattern", !.pc = "find", !.blk = b, !.trace = t])
    BY <1>2 DEF StorePattern
  <2>2. Sound([Idle EXCEPT !.op = "pattern", !.pc = "find", !.blk = b, !.trace = t])'
    BY DEF Sound, Doubting, Idle
  <2> QED BY <2>1, <2>2, EnterSingle
<1>3. CASE DistillDomain(c)
  <2>1. PICK t \in Trace, b \in Unminted :
           Enter(c, [Idle EXCEPT !.op = "primer", !.pc = "find", !.blk = b, !.trace = t])
    BY <1>3 DEF DistillDomain
  <2>2. Sound([Idle EXCEPT !.op = "primer", !.pc = "find", !.blk = b, !.trace = t])'
    BY DEF Sound, Doubting, Idle
  <2> QED BY <2>1, <2>2, EnterSingle
<1>4. CASE ReadForWriteBack(c)
  <2>1. PICK b \in Named, o \in {"reverify", "sync"}, v \in Live :
           Enter(c, [Idle EXCEPT !.op = o, !.blk = b, !.val = v,
                                 !.pc = IF o = "reverify" THEN "verify"
                                           ELSE IF v = "active" THEN "origin"
                                           ELSE "write"])
    BY <1>4 DEF ReadForWriteBack, Exists
  <2>2. Sound([Idle EXCEPT !.op = o, !.blk = b, !.val = v,
                     !.pc = IF o = "reverify" THEN "verify"
                            ELSE IF v = "active" THEN "origin"
                            ELSE "write"])'
    BY <2>1 DEF Sound, Doubting, Idle
  <2> QED BY <2>1, <2>2, EnterSingle
<1>5. CASE UpdateBlockStatus(c)
  <2>1. PICK b \in Named, o \in DOMAIN Goal :
           Enter(c, [Idle EXCEPT !.op = o, !.pc = "update", !.blk = b, !.val = Goal[o]])
    BY <1>5 DEF UpdateBlockStatus
  <2>2. Sound([Idle EXCEPT !.op = o, !.pc = "update", !.blk = b, !.val = Goal[o]])'
    BY DEF Sound, Doubting, Idle
  <2> QED BY <2>1, <2>2, EnterSingle
<1>6. CASE AttachCounter(c)
  <2>1. PICK b \in Named, t \in Trace :
           Enter(c, [Idle EXCEPT !.op = "counter", !.pc = "get", !.blk = b,
                                 !.trace = t, !.role = "counter"])
    BY <1>6 DEF AttachCounter
  <2>2. Sound([Idle EXCEPT !.op = "counter", !.pc = "get", !.blk = b,
                     !.trace = t, !.role = "counter"])'
    BY DEF Sound, Doubting, Idle
  <2> QED BY <2>1, <2>2, EnterSingle
<1>7. CASE MergeBlocks(c)
  <2>1. PICK w \in Named, l \in Named, v \in Live :
           /\ w # l /\ Exists(w)
           /\ Enter(c, [Idle EXCEPT !.op = "merge", !.pc = "loser", !.blk = w,
                                    !.peer = l, !.val = v])
    BY <1>7 DEF MergeBlocks, Exists
  <2>2. UNCHANGED status
    BY <2>1 DEF Enter, db
  <2>3. Sound([Idle EXCEPT !.op = "merge", !.pc = "loser", !.blk = w,
                     !.peer = l, !.val = v])'
    BY <2>1, <2>2 DEF Sound, Doubting, Idle, Exists, Named
  <2> QED BY <2>1, <2>3, EnterSingle
<1>8. CASE DetachCaseRef(c)
  <2>1. PICK r \in refs :
           Enter(c, [Idle EXCEPT !.op = "detach", !.pc = "detach", !.todo = {r}])
    BY <1>8 DEF DetachCaseRef
  <2>2. UNCHANGED refs
    BY <2>1 DEF Enter, db
  <2>3. Sound([Idle EXCEPT !.op = "detach", !.pc = "detach", !.todo = {r}])'
    BY <2>1, <2>2 DEF Sound, Doubting, Idle
  <2> QED BY <2>1, <2>3, EnterSingle
<1>9. CASE OrphanMissingRefs(c)
  <2>1. PICK lost \in {{r \in refs : r.role # "orphan" /\ r.trace \notin known}} :
           Enter(c, [Idle EXCEPT !.op = "sweep", !.pc = "orphan", !.todo = lost])
    BY <1>9 DEF OrphanMissingRefs
  <2>2. UNCHANGED refs /\ lost \subseteq refs
    BY <2>1 DEF Enter, db
  <2>3. Sound([Idle EXCEPT !.op = "sweep", !.pc = "orphan", !.todo = lost])'
    BY <2>2 DEF Sound, Doubting, Idle
  <2> QED BY <2>1, <2>3, EnterSingle
<1>10. CASE HardDeleteBlock(c)
  <2>1. PICK b \in Named :
           Enter(c, [Idle EXCEPT !.op = "erase", !.pc = "erase", !.blk = b])
    BY <1>10 DEF HardDeleteBlock
  <2>2. Sound([Idle EXCEPT !.op = "erase", !.pc = "erase", !.blk = b])'
    BY DEF Sound, Doubting, Idle
  <2> QED BY <2>1, <2>2, EnterSingle
<1>11. CASE DeleteBlock(c)
  <2>1. PICK b \in Block : DropBlock(b) /\ UNCHANGED <<spent, call>>
    BY <1>11 DEF DeleteBlock, Named
  <2>2. call[c].pc = "idle" /\ call[c].pc \notin Doubting /\ Turn(c)
    BY <1>11 DEF DeleteBlock, At, Doubting
  <2> QED BY <2>1, <2>2, DropSingle
<1> QED BY <1>1, <1>2, <1>3, <1>4, <1>5, <1>6, <1>7, <1>8, <1>9, <1>10, <1>11
       DEF Enters

LEMMA ReturnSingle ==
    ASSUME Single, OneProcess, Catalogued', NEW c \in Client, Turn(c), UNCHANGED db,
           Return(c), call[c].pc \in Doubting => Has(call[c].blk, "origin")
    PROVE  Single'
<1>1. call'[c] = Idle /\ \A d \in Client \ {c} : call'[d] = call[d]
  BY AfterReturn DEF Single, Catalogued
<1>2. Sound(call[c])'
  BY <1>1, QuietSound DEF Idle, Quiet, Label, Doubting
<1> QED BY <1>1, <1>2, ReadSingle

LEMMA GotoSingle ==
    ASSUME Single, OneProcess, Catalogued', NEW c \in Client, Turn(c), UNCHANGED db,
           NEW l, Goto(c, l), l \in Quiet \/ Sound(call[c])',
           call[c].pc \in Doubting => Has(call[c].blk, "origin") \/ l \in Doubting
    PROVE  Single'
<1>1. /\ call'[c].pc = l /\ call'[c].blk = call[c].blk
      /\ \A d \in Client \ {c} : call'[d] = call[d]
  BY AfterGoto DEF Single, Catalogued
<1>2. Sound(call[c])'
  BY <1>1, QuietSound
<1> QED BY <1>1, <1>2, ReadSingle

LEMMA ReadsSingle ==
    ASSUME Single, OneProcess, Catalogued', NEW c \in Client, Turn(c),
           \/ Distilled(c) \/ Find(c) \/ AlreadySupported(c) \/ Collide(c) \/ GetBlock(c)
           \/ Update(c) \/ CheckOrigin(c) \/ CheckCounter(c) \/ Verified(c) \/ GetLoser(c)
           \/ StillHas(c)
    PROVE  Single'
<1> DEFINE f == call[c]
<1>f. /\ f \in [op : Operations \cup {"none"}, pc : Label,
                blk : Block \cup {NoBlock}, peer : Block \cup {NoBlock},
                trace : Trace \cup {NoTrace}, role : Role,
                val : Live, todo : SUBSET Ref]
      /\ Typed /\ WellFormed(f) /\ Sound(f)
  BY DEF Single, Catalogued, Typed, TypeOK, Frame
<1>d. UNCHANGED db /\ (f.pc = "stillHas" \/ f.pc \notin Doubting)
  BY DEF Distilled, Find, AlreadySupported, Collide, GetBlock, Update, CheckOrigin,
     CheckCounter, Verified, GetLoser, StillHas, At, Doubting
<1>q. /\ {"find", "get", "origin", "supported", "collide", "update"} \subseteq Quiet
      /\ "quarantine" \in Doubting
  BY DEF Quiet, Label, Doubting
<1>u. status' = status /\ refs' = refs
  BY <1>d DEF db
<1>1. CASE Distilled(c)
  <2>1. CASE Return(c)
    BY <1>1, <1>d, <2>1, ReturnSingle DEF Distilled, At
  <2>2. CASE \E b \in Unminted : call' = [call EXCEPT ![c].pc = "find", ![c].blk = b]
    <3>1. PICK b \in Unminted : call' = [call EXCEPT ![c] = [f EXCEPT !.pc = "find", !.blk = b]]
      BY <2>2
    <3>2. call'[c].pc = "find" /\ \A d \in Client \ {c} : call'[d] = call[d]
      BY <1>f, <3>1 DEF Typed, TypeOK
    <3>3. Sound(call[c])'
      BY <1>q, <3>2, QuietSound
    <3> QED BY <1>1, <1>d, <3>2, <3>3, ReadSingle DEF Distilled, At
  <2> QED BY <1>1, <2>1, <2>2 DEF Distilled
<1>2. CASE Find(c)
  <2>0. f.pc = "find"
    BY <1>2 DEF Find, At
  <2>1. CASE \E a \in SameKey(f.blk) : call' = [call EXCEPT ![c] = OnHit(@, a)]
    <3>1. PICK a : call' = [call EXCEPT ![c] = OnHit(f, a)]
      BY <2>1
    <3>2. OnHit(f, a).pc \in {"origin", "supported", "get"}
      BY <1>f DEF OnHit
    <3>3. Sound(call[c])' /\ \A d \in Client \ {c} : call'[d] = call[d]
      BY <1>f, <1>q, <3>1, <3>2, QuietSound DEF Typed, TypeOK
    <3> QED BY <1>d, <2>0, <3>3, ReadSingle
  <2>2. CASE call' = [call EXCEPT ![c] = OnMiss(@)]
    <3>1. OnMiss(f).pc \in {"pattern", "collide"}
      BY <1>f DEF OnMiss
    <3>2. Sound(call[c])' /\ \A d \in Client \ {c} : call'[d] = call[d]
      BY <1>f, <2>2, <3>1, QuietSound DEF Typed, TypeOK, Quiet, Label, Doubting
    <3> QED BY <1>d, <2>0, <3>2, ReadSingle
  <2> QED BY <1>2, <2>1, <2>2 DEF Find
<1>3. CASE AlreadySupported(c)
  BY <1>3, <1>d, <1>q, ReturnSingle, GotoSingle DEF AlreadySupported, At
<1>4. CASE Collide(c)
  <2>1. CASE Return(c)
    BY <1>4, <1>d, <2>1, ReturnSingle DEF Collide, At
  <2>2. CASE Goto(c, "insert") /\ SameKey(f.blk) = {}
    <3>1. call'[c].pc = "insert" /\ call'[c].blk = f.blk
      BY <1>f, <2>2, AfterGoto
    <3>2. Sound(call[c])'
      BY <1>u, <2>2, <3>1 DEF Sound, Doubting, SameKey, Exists
    <3> QED BY <1>4, <1>d, <2>2, <3>2, GotoSingle DEF Collide, At
  <2> QED BY <1>4, <2>1, <2>2 DEF Collide
<1>5. CASE GetBlock(c)
  <2>0. f.pc = "get"
    BY <1>5 DEF GetBlock, At
  <2>1. CASE Exists(f.blk)
    <3>1. call' = [call EXCEPT ![c] = [f EXCEPT !.pc = "link", !.val = status[f.blk]]]
      BY <1>5, <2>1 DEF GetBlock
    <3>2. /\ call'[c].pc = "link" /\ call'[c].val = status[f.blk] /\ call'[c].blk = f.blk
          /\ \A d \in Client \ {c} : call'[d] = call[d]
      BY <1>f, <3>1 DEF Typed, TypeOK
    <3>3. Sound(call[c])'
      BY <1>u, <2>1, <3>2 DEF Sound, Doubting, Exists
    <3> QED BY <1>d, <2>0, <3>2, <3>3, ReadSingle
  <2>2. CASE ~Exists(f.blk)
    BY <1>5, <1>d, <2>0, <2>2, ReturnSingle DEF GetBlock
  <2> QED BY <2>1, <2>2
<1>6. CASE Update(c)
  <2>1. CASE Return(c) \/ Goto(c, "origin")
    BY <1>6, <1>d, <1>q, <2>1, ReturnSingle, GotoSingle DEF Update, At
  <2>2. CASE Goto(c, "write") /\ f.val # "active"
    <3>1. Sound(call[c])'
      BY <1>f, <2>2, AfterGoto DEF Sound, Doubting
    <3> QED BY <1>6, <1>d, <2>2, <3>1, GotoSingle DEF Update, At
  <2> QED BY <1>6, <2>1, <2>2 DEF Update
<1>7. CASE CheckOrigin(c)
  <2>1. CASE Return(c)
    BY <1>7, <1>d, <2>1, ReturnSingle DEF CheckOrigin, At
  <2>2. CASE Goto(c, "counter") /\ Has(f.blk, "origin")
    <3>1. call'[c].pc = "counter" /\ call'[c].blk = f.blk
      BY <1>f, <2>2, AfterGoto
    <3>2. Sound(call[c])'
      BY <1>u, <2>2, <3>1 DEF Sound, Doubting, Has
    <3> QED BY <1>7, <1>d, <2>2, <3>2, GotoSingle DEF CheckOrigin, At
  <2> QED BY <1>7, <2>1, <2>2 DEF CheckOrigin
<1>8. CASE CheckCounter(c)
  <2>1. CASE Return(c)
    BY <1>8, <1>d, <2>1, ReturnSingle DEF CheckCounter, At
  <2>2. CASE Goto(c, "write") /\ ~Has(f.blk, "counter")
    <3>1. call'[c].pc = "write" /\ call'[c].blk = f.blk
      BY <1>f, <2>2, AfterGoto
    <3>2. Has(f.blk, "origin")
      BY <1>8, <1>f DEF CheckCounter, At, Sound
    <3>3. Sound(call[c])'
      BY <1>u, <2>2, <3>1, <3>2 DEF Sound, Doubting, Has
    <3> QED BY <1>8, <1>d, <2>2, <3>3, GotoSingle DEF CheckCounter, At
  <2> QED BY <1>8, <2>1, <2>2 DEF CheckCounter
<1>9. CASE Verified(c)
  <2>1. CASE Goto(c, "origin")
    BY <1>9, <1>d, <1>q, <2>1, GotoSingle DEF Verified, At
  <2>2. CASE Goto(c, "write") /\ f.val # "active"
    <3>1. Sound(call[c])'
      BY <1>f, <2>2, AfterGoto DEF Sound, Doubting
    <3> QED BY <1>9, <1>d, <2>2, <3>1, GotoSingle DEF Verified, At
  <2> QED BY <1>9, <2>1, <2>2 DEF Verified
<1>10. CASE GetLoser(c)
  <2>1. Exists(f.blk) /\ f.blk \in Block /\ f.peer \in Block /\ f.peer # f.blk
    BY <1>10, <1>f DEF GetLoser, At, Sound, WellFormed, NeedsBlock, Label
  <2>2. ~(Exists(f.peer) /\ KeyOf[f.peer] = KeyOf[f.blk])
    BY <2>1 DEF Single, OneBlockPerTrigger
  <2> QED BY <1>10, <1>d, <2>2, ReturnSingle DEF GetLoser, At
<1>11. CASE StillHas(c)
  <2>0. f.pc = "stillHas" /\ f.op \in {"detach", "sweep"} /\ f.todo \subseteq refs
    BY <1>11, <1>f DEF StillHas, At, Sound, Doubting
  <2>1. CASE Has(f.blk, "origin") /\ Return(c)
    BY <1>d, <2>1, ReturnSingle
  <2>2. CASE Has(f.blk, "origin") /\ Goto(c, "orphan") /\ f.op = "sweep"
    <3>1. Sound(call[c])'
      BY <1>f, <1>u, <2>0, <2>2, AfterGoto DEF Sound, Doubting
    <3> QED BY <1>d, <2>2, <3>1, GotoSingle
  <2>3. CASE ~Has(f.blk, "origin") /\ Goto(c, "quarantine")
    <3>1. /\ call'[c].pc = "quarantine" /\ call'[c].blk = f.blk /\ call'[c].op = f.op
          /\ call'[c].todo = f.todo
      BY <1>f, <2>3, AfterGoto
    <3>2. Sound(call[c])'
      BY <1>u, <2>0, <2>3, <3>1 DEF Sound, Doubting, Has
    <3> QED BY <1>d, <1>q, <2>3, <3>2, GotoSingle
  <2> QED BY <1>11, <2>0, <2>1, <2>2, <2>3 DEF StillHas, Resume
<1> QED BY <1>1, <1>2, <1>3, <1>4, <1>5, <1>6, <1>7, <1>8, <1>9, <1>10, <1>11

LEMMA AddMints ==
    ASSUME Minted, NEW b, NEW t, NEW role, AddRef(b, t, role)
    PROVE  Minted'
<1>1. PICK i \in RefId \ spent :
         /\ refs' = refs \cup {[id |-> i, block |-> b, trace |-> t, role |-> role]}
         /\ spent' = spent \cup {i}
  BY DEF AddRef
<1> DEFINE n == [id |-> i, block |-> b, trace |-> t, role |-> role]
<1>2. n.id = i /\ \A r \in refs : r.id # i
  BY <1>1 DEF Minted
<1> HIDE DEF n
<1>3. refs' = refs \cup {n}
  BY <1>1 DEF n
<1> QED BY <1>1, <1>2, <1>3 DEF Minted

\* Rows that were not there have a trigger of their own.
LEMMA TriggersApart ==
    ASSUME OneBlockPerTrigger, NEW b, SameKey(b) = {},
           \A a \in Block : status'[a] \in Live => status[a] \in Live \/ a = b
    PROVE  OneBlockPerTrigger'
  BY DEF OneBlockPerTrigger, SameKey, Exists

LEMMA NoNewTrigger ==
    ASSUME OneBlockPerTrigger, \A a \in Block : status'[a] \in Live => status[a] \in Live
    PROVE  OneBlockPerTrigger'
  BY DEF OneBlockPerTrigger, Exists

\* A statement about one block leaves the others backed.
RefsOf(b) == {r \in refs : r.block = b}

LEMMA OthersBacked ==
    ASSUME Single, OneProcess, NEW c \in Client, Turn(c), NEW b \in Block,
           call[c].pc \in Doubting => call[c].blk = b,
           \A a \in Block \ {b} : status'[a] = status[a] /\ RefsOf(a)' = RefsOf(a),
           Spared /\ status'[b] = "active" => Backed(b)'
    PROVE  AllBacked'
<1> SUFFICES ASSUME Spared, NEW a \in Block, status'[a] = "active", a # b
             PROVE  Backed(a)'
  BY DEF AllBacked
<1>1. Backed(a) /\ RefsOf(a)' = RefsOf(a)
  BY DEF Single, AllBacked
<1>2. \A d \in Client : call[d].pc \in Doubting => call[d].blk # a
  BY DEF Turn, Resting, Await, Doubting
<1>3. Has(a, "origin") /\ ~Has(a, "counter")
  BY <1>1, <1>2 DEF Backed
<1> QED BY <1>1, <1>3 DEF Backed, Has, RefsOf

\* Adding a ref to a block changes no other block's refs.
LEMMA AddedElsewhere ==
    ASSUME NEW b, NEW t, NEW role, AddRef(b, t, role)
    PROVE  /\ \A a \in Block \ {b} : RefsOf(a)' = RefsOf(a)
           /\ Has(b, role)'
           /\ \A q : Has(b, q)' => Has(b, q) \/ q = role
           /\ \A q : Has(b, q) => Has(b, q)'
<1>1. PICK i : refs' = refs \cup {[id |-> i, block |-> b, trace |-> t, role |-> role]}
  BY DEF AddRef
<1> DEFINE n == [id |-> i, block |-> b, trace |-> t, role |-> role]
<1>2. n.block = b /\ n.role = role
  OBVIOUS
<1> HIDE DEF n
<1>3. refs' = refs \cup {n}
  BY <1>1 DEF n
<1>4. \A a \in Block \ {b} : RefsOf(a)' = RefsOf(a)
  BY <1>2, <1>3 DEF RefsOf
<1> QED BY <1>2, <1>3, <1>4 DEF Has

LEMMA PatternSingle ==
    ASSUME Single, OneProcess, Catalogued', NEW c \in Client, Turn(c), CommitPattern(c)
    PROVE  Single'
<1>0. PICK b \in Block, t \in Trace :
         b = call[c].blk /\ t = call[c].trace /\ call[c].pc = "pattern"
  BY DEF CommitPattern, At, Single, Catalogued, Typed, WellFormed, NeedsBlock, NeedsTrace, Label
<1>1. status[b] = "fresh" /\ ~Has(b, "counter")
  BY <1>0 DEF Single, Catalogued, DraftsFresh, Draft, NoDanglingRef, Exists, Has, Live
<1>2. Return(c) /\ \A d \in Client \ {c} : call'[d] = call[d]
  BY AfterReturn DEF CommitPattern, Single, Catalogued
<1>3. CASE UNCHANGED <<status, refs, spent>>
  BY <1>0, <1>2, <1>3, ReturnSingle DEF CommitPattern, db, Doubting
<1>4. CASE /\ SameKey(b) = {}
           /\ AddRef(b, t, "origin")
           /\ status' = [status EXCEPT ![b] = "active"]
  <2>1. \A a \in Block : status'[a] = IF a = b THEN "active" ELSE status[a]
    BY <1>4 DEF Single, Catalogued, Typed, TypeOK
  <2>2. Minted'
    BY <1>4, AddMints DEF Single
  <2>3. OneBlockPerTrigger'
    BY <1>4, <2>1, TriggersApart DEF Single
  <2>4. Backed(b)'
    BY <1>1, <1>4, AddedElsewhere DEF Backed
  <2>5. AllBacked'
    BY <1>0, <1>4, <2>1, <2>4, AddedElsewhere, OthersBacked DEF Doubting
  <2>6. Sound(call[c])'
    BY <1>2, AfterReturn, QuietSound DEF Single, Catalogued, Idle, Quiet, Label, Doubting
  <2> QED BY <1>2, <2>2, <2>3, <2>5, <2>6, SingleMoves
<1> QED BY <1>0, <1>3, <1>4 DEF CommitPattern

LEMMA StoreSingle ==
    ASSUME Single, OneProcess, Catalogued', NEW c \in Client, Turn(c), StoreBlock(c)
    PROVE  Single'
<1> DEFINE f == call[c]
<1>1. f.pc = "insert" /\ f.blk \in Block /\ SameKey(f.blk) = {}
  BY DEF StoreBlock, At, Single, Sound, Catalogued, Typed, WellFormed, NeedsBlock, Label
<1>2. \A a \in Block : status'[a] = IF a = f.blk THEN "candidate" ELSE status[a]
  BY DEF StoreBlock, Insert, Single, Catalogued, Typed, TypeOK
<1>3. UNCHANGED <<refs, spent>>
  BY DEF StoreBlock
<1>4. call'[c].pc = "get" /\ \A d \in Client \ {c} : call'[d] = call[d]
  BY DEF StoreBlock, Single, Catalogued, Typed, TypeOK, Frame
<1>5. Minted'
  BY <1>3 DEF Single, Minted
<1>6. OneBlockPerTrigger'
  BY <1>1, <1>2, TriggersApart DEF Single
<1>7. AllBacked'
  <2>1. status'[f.blk] # "active" /\ f.pc \notin Doubting
    BY <1>1, <1>2 DEF Doubting
  <2>2. \A a \in Block \ {f.blk} : status'[a] = status[a] /\ RefsOf(a)' = RefsOf(a)
    BY <1>2, <1>3 DEF RefsOf
  <2> QED BY <1>1, <2>1, <2>2, OthersBacked
<1>8. Sound(call[c])'
  BY <1>4, QuietSound DEF Quiet, Label, Doubting
<1> QED BY <1>4, <1>5, <1>6, <1>7, <1>8, SingleMoves

LEMMA LinkSingle ==
    ASSUME Single, OneProcess, Catalogued', NEW c \in Client, Turn(c), LinkRef(c)
    PROVE  Single'
<1> DEFINE f == call[c]
<1>0. PICK b \in Block, t \in Trace, role \in Role :
         /\ b = f.blk /\ t = f.trace /\ role = f.role /\ f.pc = "link"
         /\ f.val = status[b] /\ f.pc \notin Doubting
  BY DEF LinkRef, At, Single, Sound, Catalogued, Typed, WellFormed, NeedsBlock, NeedsTrace,
     Label, Doubting, Frame
<1>2. CASE ~Linkable(b, t, role)
  BY <1>0, <1>2, ReturnSingle DEF LinkRef, db
<1>3. CASE Linkable(b, t, role)
  <2>1. AddRef(b, t, role) /\ status[b] \in Live
    BY <1>0, <1>3 DEF LinkRef, Linkable, Exists
  <2>2. \A a \in Block : status'[a] =
           IF a = b /\ role = "counter" /\ status[b] = "active" THEN "demoted" ELSE status[a]
    BY <1>0, <1>3, <2>1 DEF LinkRef, SetStatus, Exists, Single, Catalogued, Typed, TypeOK
  <2>3. call'[c].pc \in {"idle", "update"} /\ \A d \in Client \ {c} : call'[d] = call[d]
    BY <1>0, <1>3 DEF LinkRef, Return, Idle, Single, Catalogued, Typed, TypeOK, Frame
  <2>4. Minted'
    BY <2>1, AddMints DEF Single
  <2>5. OneBlockPerTrigger'
    BY <1>0, <2>1, <2>2, NoNewTrigger DEF Single
  <2>6. Spared /\ status'[b] = "active" => Backed(b)'
    <3>1. SUFFICES ASSUME Spared, status'[b] = "active" PROVE Backed(b)'
      OBVIOUS
    <3>2. status[b] = "active" /\ role # "counter"
      BY <1>0, <2>2, <3>1
    <3>3. Backed(b) /\ \A d \in Client : call[d].pc \notin Doubting
      BY <1>0, <3>1, <3>2 DEF Single, AllBacked, Turn, Resting, Await, Doubting
    <3> QED BY <2>1, <3>2, <3>3, AddedElsewhere DEF Backed
  <2>7. AllBacked'
    <3>1. \A a \in Block \ {b} : status'[a] = status[a] /\ RefsOf(a)' = RefsOf(a)
      BY <2>1, <2>2, AddedElsewhere
    <3> QED BY <1>0, <2>6, <3>1, OthersBacked
  <2>8. Sound(call[c])'
    BY <2>3, QuietSound DEF Quiet, Label, Doubting
  <2> QED BY <2>3, <2>4, <2>5, <2>7, <2>8, SingleMoves
<1> QED BY <1>2, <1>3

LEMMA WriteSingle ==
    ASSUME Single, OneProcess, Catalogued', NEW c \in Client, Turn(c), Write(c)
    PROVE  Single'
<1> DEFINE f == call[c]
<1>0. PICK b \in Block : b = f.blk /\ f.pc = "write" /\ f.pc \notin Doubting
  BY DEF Write, At, Single, Catalogued, Typed, WellFormed, NeedsBlock, Label, Doubting
<1>1. UNCHANGED <<refs, spent>> /\ SetStatus(b, f.val)
  BY <1>0 DEF Write
<1>2. /\ \A a \in Block : status'[a] = IF a = b /\ Exists(b) THEN f.val ELSE status[a]
      /\ f.val \in Live
  BY <1>1 DEF SetStatus, Single, Catalogued, Typed, TypeOK, Frame
<1>3. call'[c].pc \in {"idle", "verify"} /\ \A d \in Client \ {c} : call'[d] = call[d]
  BY DEF Write, Return, Idle, Single, Catalogued, Typed, TypeOK, Frame
<1>4. Minted'
  BY <1>1 DEF Single, Minted
<1>5. OneBlockPerTrigger'
  BY <1>2, NoNewTrigger DEF Single, Exists
<1>6. Spared /\ status'[b] = "active" => Backed(b)'
  <2>1. SUFFICES ASSUME Spared, status'[b] = "active" PROVE Backed(b)'
    OBVIOUS
  <2>2. f.val = "active"
    BY <1>2, <2>1 DEF Exists, Live
  <2>3. Has(b, "origin") /\ ~Has(b, "counter")
    BY <1>0, <2>2 DEF Single, Sound
  <2> QED BY <1>1, <2>3 DEF Backed, Has
<1>7. AllBacked'
  <2>1. \A a \in Block \ {b} : status'[a] = status[a] /\ RefsOf(a)' = RefsOf(a)
    BY <1>1, <1>2 DEF RefsOf
  <2> QED BY <1>0, <1>6, <2>1, OthersBacked
<1>8. Sound(call[c])'
  BY <1>3, QuietSound DEF Quiet, Label, Doubting
<1> QED BY <1>3, <1>4, <1>5, <1>7, <1>8, SingleMoves

\* The demotion settles the doubt, and the sweep goes on.
LEMMA QuarantineSingle ==
    ASSUME Single, OneProcess, Catalogued', NEW c \in Client, Turn(c), Quarantine(c)
    PROVE  Single'
<1> DEFINE f == call[c]
<1>0. PICK b \in Block :
         b = f.blk /\ f.pc = "quarantine" /\ f.op \in {"detach", "sweep"} /\ f.todo \subseteq refs
  BY DEF Quarantine, At, Single, Sound, Doubting, Catalogued, Typed, WellFormed, NeedsBlock, Label
<1>1. /\ UNCHANGED <<refs, spent>>
      /\ status' = IF status[b] = "active" THEN [status EXCEPT ![b] = "candidate"] ELSE status
      /\ Resume(c)
  BY <1>0 DEF Quarantine, Quarantined
<1>2. /\ \A a \in Block \ {b} : status'[a] = status[a]
      /\ status'[b] # "active"
      /\ \A a \in Block : status'[a] \in Live => status[a] \in Live
  BY <1>1 DEF Single, Catalogued, Typed, TypeOK, Live
<1>3. /\ \A d \in Client \ {c} : call'[d] = call[d]
      /\ call'[c].pc = "idle" \/ (call'[c].pc = "orphan" /\ call'[c].todo = f.todo /\ f.op = "sweep" /\ call'[c].op = f.op)
  BY <1>1, AfterReturn, AfterGoto DEF Resume, Idle, Single, Catalogued
<1>4. Minted'
  BY <1>1 DEF Single, Minted
<1>5. OneBlockPerTrigger'
  BY <1>2, NoNewTrigger DEF Single
<1>6. AllBacked'
  <2>1. \A a \in Block \ {b} : status'[a] = status[a] /\ RefsOf(a)' = RefsOf(a)
    BY <1>1, <1>2 DEF RefsOf
  <2> QED BY <1>0, <1>2, <2>1, OthersBacked
<1>7. Sound(call[c])'
  <2>1. CASE call'[c].pc = "idle"
    BY <2>1, QuietSound DEF Quiet, Label, Doubting
  <2>2. CASE call'[c].pc = "orphan"
    BY <1>0, <1>1, <1>3, <2>2 DEF Sound, Doubting
  <2> QED BY <1>3, <2>1, <2>2
<1> QED BY <1>3, <1>4, <1>5, <1>6, <1>7, SingleMoves

LEMMA EraseSingle ==
    ASSUME Single, OneProcess, Catalogued', NEW c \in Client, Turn(c), EraseTx(c)
    PROVE  Single'
<1>0. PICK b \in Block : b = call[c].blk /\ call[c].pc = "erase" /\ call[c].pc \notin Doubting
  BY DEF EraseTx, At, Single, Catalogued, Typed, WellFormed, NeedsBlock, Label, Doubting
<1>1. DropBlock(b) /\ spent' = spent
  BY <1>0 DEF EraseTx
<1>2. call'[c].pc = "idle" /\ \A d \in Client \ {c} : call'[d] = call[d]
  BY AfterReturn DEF EraseTx, Idle, Single, Catalogued
<1> QED BY <1>0, <1>1, <1>2, DropSingle

\* The call that takes an origin away looks at the block again.
LEMMA DetachSingle ==
    ASSUME Single, OneProcess, Catalogued', NEW c \in Client, Turn(c), DetachRow(c)
    PROVE  Single'
<1> DEFINE f == call[c]
<1>0. /\ f.pc = "detach" /\ f.pc \notin Doubting /\ f.op = "detach" /\ f.todo \subseteq refs
      /\ f \in [op : Operations \cup {"none"}, pc : Label,
                blk : Block \cup {NoBlock}, peer : Block \cup {NoBlock},
                trace : Trace \cup {NoTrace}, role : Role,
                val : Live, todo : SUBSET Ref]
      /\ Typed
  BY DEF DetachRow, At, Single, Sound, Doubting, Catalogued, Typed, TypeOK, Frame
<1>1. PICK r \in f.todo :
         /\ refs' = {q \in refs : q.id # r.id}
         /\ IF r.role = "origin" /\ refs' # refs
            THEN call' = [call EXCEPT ![c] = [f EXCEPT !.pc = "stillHas", !.blk = r.block, !.todo = {}]]
            ELSE Return(c)
  BY DEF DetachRow
<1>2. r \in refs /\ r.block \in Block /\ UNCHANGED <<status, spent>>
  BY <1>0 DEF Ref, DetachRow
<1>3. refs' = refs \ {r}
  BY <1>1, <1>2 DEF Single, Minted
<1>4. /\ \A d \in Client \ {c} : call'[d] = call[d]
      /\ IF r.role = "origin"
         THEN /\ call'[c].pc = "stillHas" /\ call'[c].blk = r.block /\ call'[c].op = f.op
              /\ call'[c].todo = {}
         ELSE call'[c].pc = "idle"
  <2>1. refs' # refs
    BY <1>2, <1>3
  <2>2. CASE r.role = "origin"
    <3>1. call' = [call EXCEPT ![c] = [f EXCEPT !.pc = "stillHas", !.blk = r.block, !.todo = {}]]
      BY <1>1, <2>1, <2>2
    <3> QED BY <1>0, <2>2, <3>1 DEF Typed, TypeOK
  <2>3. CASE r.role # "origin"
    BY <1>0, <1>1, <2>3, AfterReturn DEF Idle
  <2> QED BY <2>2, <2>3
<1>5. Minted'
  BY <1>2, <1>3 DEF Single, Minted
<1>6. OneBlockPerTrigger'
  BY <1>2, NoNewTrigger DEF Single
<1>7. Spared /\ status'[r.block] = "active" => Backed(r.block)'
  <2>1. SUFFICES ASSUME Spared, status[r.block] = "active" PROVE Backed(r.block)'
    BY <1>2
  <2>2. Backed(r.block) /\ \A d \in Client : call[d].pc \notin Doubting
    BY <1>0, <1>2, <2>1 DEF Single, AllBacked, Turn, Resting, Await, Doubting
  <2>3. ~Has(r.block, "counter")'
    BY <1>3, <2>2 DEF Backed, Has
  <2>4. CASE r.role = "origin"
    BY <1>4, <2>3, <2>4 DEF Backed, Doubting
  <2>5. CASE r.role # "origin"
    BY <1>3, <2>2, <2>3, <2>5 DEF Backed, Has
  <2> QED BY <2>4, <2>5
<1>8. AllBacked'
  <2>1. \A a \in Block \ {r.block} : status'[a] = status[a] /\ RefsOf(a)' = RefsOf(a)
    BY <1>2, <1>3 DEF RefsOf
  <2> QED BY <1>0, <1>2, <1>7, <2>1, OthersBacked
<1>9. Sound(call[c])'
  <2>1. CASE r.role = "origin"
    BY <1>0, <1>4, <2>1 DEF Sound, Doubting
  <2>2. CASE r.role # "origin"
    BY <1>4, <2>2, QuietSound DEF Quiet, Label, Doubting
  <2> QED BY <2>1, <2>2
<1> QED BY <1>4, <1>5, <1>6, <1>8, <1>9, SingleMoves

LEMMA OrphanSingle ==
    ASSUME Single, OneProcess, Catalogued', NEW c \in Client, Turn(c), Orphan(c)
    PROVE  Single'
<1> DEFINE f == call[c]
<1>0. /\ f.pc = "orphan" /\ f.pc \notin Doubting /\ f.op = "sweep" /\ f.todo \subseteq refs
      /\ f \in [op : Operations \cup {"none"}, pc : Label,
                blk : Block \cup {NoBlock}, peer : Block \cup {NoBlock},
                trace : Trace \cup {NoTrace}, role : Role,
                val : Live, todo : SUBSET Ref]
      /\ Typed
  BY DEF Orphan, At, Single, Sound, Doubting, Catalogued, Typed, TypeOK, Frame
<1>1. CASE Return(c) /\ UNCHANGED refs
  BY <1>0, <1>1, ReturnSingle DEF Orphan, db
<1>2. ASSUME NEW r \in f.todo,
             refs' = (refs \ {q \in refs : q.id = r.id})
                        \cup {[q EXCEPT !.role = "orphan"] : q \in {q \in refs : q.id = r.id}},
             call' = [call EXCEPT ![c] = [f EXCEPT !.todo = @ \ {r}, !.blk = r.block,
                                            !.pc = IF r.role = "origin" THEN "stillHas"
                                                   ELSE "orphan"]]
      PROVE  Single'
  <2>1. r \in refs /\ r.block \in Block /\ UNCHANGED <<status, spent>>
    BY <1>0 DEF Ref, Orphan
  <2>2. PICK n \in {[r EXCEPT !.role = "orphan"]} :
           n.id = r.id /\ n.block = r.block /\ n.role = "orphan"
    BY <1>0 DEF Ref
  <2>3. refs' = (refs \ {r}) \cup {n}
    <3>1. {q \in refs : q.id = r.id} = {r}
      BY <2>1 DEF Single, Minted
    <3> QED BY <1>2, <2>2, <3>1
  <2>4. /\ \A d \in Client \ {c} : call'[d] = call[d]
        /\ call'[c].todo = f.todo \ {r} /\ call'[c].blk = r.block /\ call'[c].op = "sweep"
        /\ call'[c].pc = IF r.role = "origin" THEN "stillHas" ELSE "orphan"
    BY <1>0, <1>2 DEF Typed, TypeOK
  <2>5. Minted'
    BY <2>1, <2>2, <2>3 DEF Single, Minted
  <2>6. OneBlockPerTrigger'
    BY <2>1, NoNewTrigger DEF Single
  <2>7. Spared /\ status'[r.block] = "active" => Backed(r.block)'
    <3>1. SUFFICES ASSUME Spared, status[r.block] = "active" PROVE Backed(r.block)'
      BY <2>1
    <3>2. Backed(r.block) /\ \A d \in Client : call[d].pc \notin Doubting
      BY <1>0, <2>1, <3>1 DEF Single, AllBacked, Turn, Resting, Await, Doubting
    <3>3. ~Has(r.block, "counter")'
      BY <2>2, <2>3, <3>2 DEF Backed, Has
    <3>4. CASE r.role = "origin"
      BY <2>4, <3>3, <3>4 DEF Backed, Doubting
    <3>5. CASE r.role # "origin"
      BY <2>3, <3>2, <3>3, <3>5 DEF Backed, Has
    <3> QED BY <3>4, <3>5
  <2>8. AllBacked'
    <3>1. \A a \in Block \ {r.block} : status'[a] = status[a] /\ RefsOf(a)' = RefsOf(a)
      BY <2>1, <2>2, <2>3 DEF RefsOf
    <3> QED BY <1>0, <2>1, <2>7, <3>1, OthersBacked
  <2>9. Sound(call[c])'
    BY <1>0, <2>3, <2>4 DEF Sound, Doubting
  <2> QED BY <2>4, <2>5, <2>6, <2>8, <2>9, SingleMoves
<1>3. ASSUME NEW r \in f.todo,
             call' = [call EXCEPT ![c].todo = @ \ {r}, ![c].blk = r.block,
                                  ![c].pc = IF r.role = "origin" THEN "stillHas"
                                            ELSE "orphan"]
      PROVE  call' = [call EXCEPT ![c] = [f EXCEPT !.todo = @ \ {r}, !.blk = r.block,
                                            !.pc = IF r.role = "origin" THEN "stillHas"
                                                   ELSE "orphan"]]
  BY <1>3
<1> QED BY <1>1, <1>2, <1>3 DEF Orphan

LEMMA RunsSingle ==
    ASSUME Single, OneProcess, Catalogued', NEW c \in Client, Runs(c)
    PROVE  Single'
<1>1. Turn(c)
  BY OneAtATime
<1>2. ~MergeTx(c)
  BY DEF MergeTx, At, Single, Sound
<1> QED BY <1>1, <1>2, ReadsSingle, PatternSingle, StoreSingle, LinkSingle, WriteSingle,
           DetachSingle, OrphanSingle, QuarantineSingle, EraseSingle DEF Runs

\* A call that dies with its doubt would leave a served block without origin.
LEMMA FailSingle ==
    ASSUME Single, Catalogued', NEW c \in Client, Fail(c)
    PROVE  Single'
<1>1. /\ call'[c] = Idle /\ \A d \in Client \ {c} : call'[d] = call[d]
      /\ UNCHANGED <<status, refs, spent>>
  BY AfterReturn DEF Fail, db, Single, Catalogued
<1>2. Alone'
  BY <1>1 DEF Single, Alone, Resting, Idle
<1>3. Minted' /\ OneBlockPerTrigger'
  BY <1>1 DEF Single, Minted, OneBlockPerTrigger, Exists
<1>4. \A d \in Client : Sound(call[d])'
  <2>1. Sound(call[c])'
    BY <1>1, QuietSound DEF Idle, Quiet, Label, Doubting
  <2>2. ASSUME NEW d \in Client \ {c} PROVE Sound(call[d])'
    BY <1>1 DEF Single, Sound, SameKey, Exists, Has
  <2> QED BY <2>1, <2>2
<1>5. AllBacked'
  <2>1. Spared => call[c].pc \notin Doubting
    BY DEF Fail, Spared, Single, Sound
  <2> QED BY <1>1, <2>1 DEF Single, AllBacked, Backed, Has
<1> QED BY <1>2, <1>3, <1>4, <1>5 DEF Single

LEMMA SingleInit == Init => Single
<1> SUFFICES ASSUME Init PROVE Single
  OBVIOUS
<1>1. \A c \in Client : call[c] = Idle
  BY DEF Init
<1>2. /\ refs = {} /\ \A b \in Block : status[b] = "fresh"
  BY DEF Init
<1>3. Alone /\ \A c \in Client : Sound(call[c])
  BY <1>1 DEF Alone, Resting, Idle, Sound, Doubting
<1>4. Minted /\ OneBlockPerTrigger /\ AllBacked
  BY <1>2 DEF Minted, OneBlockPerTrigger, AllBacked, Exists, Live
<1> QED BY <1>3, <1>4, CatalogueInit DEF Single

LEMMA SingleStep ==
    ASSUME OneProcess
    PROVE  Single /\ [Next]_vars => Single'
<1> SUFFICES ASSUME Single, [Next]_vars PROVE Single'
  OBVIOUS
<1>0. Catalogued'
  BY CatalogueStep DEF Single
<1>1. CASE \E c \in Client : Enters(c) \/ Runs(c) \/ Fail(c)
  BY <1>0, <1>1, EntersSingle, RunsSingle, FailSingle
<1>2. CASE (\E t \in Trace : DeleteTrace(t)) \/ UNCHANGED vars
  <2>1. UNCHANGED <<status, refs, spent, call>>
    BY <1>2 DEF DeleteTrace, vars
  <2>2. Alone' /\ Minted' /\ OneBlockPerTrigger' /\ AllBacked'
    BY <2>1 DEF Single, Alone, Resting, Minted, OneBlockPerTrigger, Exists, AllBacked,
       Backed, Has
  <2>3. \A c \in Client : Sound(call[c])'
    BY <2>1 DEF Single, Sound, SameKey, Exists, Has
  <2> QED BY <1>0, <2>2, <2>3 DEF Single
<1> QED BY <1>1, <1>2 DEF Next

\* While one process writes, the lookup before an insert is not stale when
\* the insert runs, whatever a call awaits in between and wherever one dies.
THEOREM TriggersUnique ==
    ASSUME OneProcess
    PROVE  Spec => []OneBlockPerTrigger
<1>1. Single => OneBlockPerTrigger
  BY DEF Single
<1> QED BY <1>1, SingleInit, SingleStep, PTL DEF Spec

\* Between the statements of one process, every block that is served has an
\* origin and no counter, unless a detach or a sweep dies before it looked
\* again: no stale copy, verdict or status brings an unjustified one back.
THEOREM ServedAtRest ==
    ASSUME OneProcess, Spared
    PROVE  Spec => []ActiveJustified
<1>1. Single => ActiveJustified
  BY DEF Single, AllBacked, Backed, ActiveJustified, AtRest, Resting, Await, Doubting
<1> QED BY <1>1, SingleInit, SingleStep, PTL DEF Spec

-----------------------------------------------------------------------------
(* The shelf.  A step changes the tables of one block at most, and what it *)
(* changes there is one of the steps of module Catalog, or nothing that a  *)
(* reader sees.                                                            *)

Shown(b) ==
    CASE status[b] = "fresh" -> "absent"
      [] status[b] = "gone" -> "erased"
      [] status[b] = "active" /\ Has(b, "origin") -> "served"
      [] OTHER -> "kept"

LEMMA ServedIsShown ==
    Single /\ Spared => \A b \in Block : EntryOf(b) = Shown(b)
<1> SUFFICES ASSUME Single, Spared, NEW b \in Block PROVE EntryOf(b) = Shown(b)
  OBVIOUS
<1>1. status[b] = "active" => (Has(b, "origin") <=> ~Doubted(b))
  BY DEF Single, AllBacked, Backed, Doubted, Doubting
<1> QED BY <1>1 DEF EntryOf, Shown

LEMMA ShownKinds ==
    ASSUME Single, NEW b \in Block
    PROVE  /\ Shown(b) = "absent" <=> status[b] = "fresh"
           /\ Shown(b) = "erased" <=> status[b] = "gone"
           /\ Shown(b) \in {"kept", "served"} <=> Exists(b)
           /\ Shown(b) = "served" <=> status[b] = "active" /\ Has(b, "origin")
<1>1. status[b] \in Status
  BY DEF Single, Catalogued, Typed, TypeOK
<1> QED BY <1>1 DEF Shown, Exists, Status, Live

Same(b, role) == Has(b, role)' <=> Has(b, role)

Shift(b) ==
    \/ Shown(b)' = Shown(b) /\ Same(b, "origin") /\ Same(b, "counter")
    \/ /\ Shown(b) = "absent" /\ SameKey(b) = {} /\ Shown(b)' = "kept"
       /\ Same(b, "origin") /\ Same(b, "counter")
    \/ /\ Shown(b) = "absent" /\ SameKey(b) = {} /\ Shown(b)' = "served"
       /\ Has(b, "origin")' /\ Same(b, "counter")
    \/ Exists(b) /\ Shown(b)' = Shown(b) /\ Has(b, "origin")' /\ Same(b, "counter")
    \/ /\ Shown(b) = "kept" /\ Has(b, "origin") /\ ~Has(b, "counter") /\ Shown(b)' = "served"
       /\ Same(b, "origin") /\ Same(b, "counter")
    \/ /\ Shown(b) = "served" /\ Shown(b)' = "kept"
       /\ Same(b, "origin") /\ Same(b, "counter")
    \/ Exists(b) /\ Shown(b)' = "kept" /\ Has(b, "counter")' /\ Same(b, "origin")
    \/ /\ Has(b, "origin") /\ ~Has(b, "origin")' /\ Same(b, "counter")
       /\ Shown(b)' = IF Shown(b) = "served" THEN "kept" ELSE Shown(b)
    \/ /\ Has(b, "counter") /\ ~Has(b, "counter")' /\ Same(b, "origin")
       /\ Shown(b)' = Shown(b)
    \/ Exists(b) /\ Shown(b)' = "erased" /\ ~Has(b, "origin")' /\ ~Has(b, "counter")'

Only(b) == \A a \in Block \ {b} : status'[a] = status[a] /\ RefsOf(a)' = RefsOf(a)

ShelfMoves == UNCHANGED <<status, refs>> \/ \E b \in Block : Only(b) /\ Shift(b)

LEMMA OnlyShows ==
    ASSUME NEW b \in Block, Only(b), NEW a \in Block \ {b}
    PROVE  Shown(a)' = Shown(a) /\ Same(a, "origin") /\ Same(a, "counter")
<1>1. status'[a] = status[a] /\ RefsOf(a)' = RefsOf(a)
  BY DEF Only
<1>2. \A role : Has(a, role)' <=> Has(a, role)
  BY <1>1 DEF RefsOf, Has
<1> QED BY <1>1, <1>2 DEF Same, Shown

LEMMA ShelfMovesRefine ==
    ASSUME Single, Single', Spared, ShelfMoves
    PROVE  [Cat!Next]_(Cat!shelf)
<1> DEFINE entry == [b \in Block |-> EntryOf(b)]
           origin == {b \in Block : Has(b, "origin")}
           counter == {b \in Block : Has(b, "counter")}
<1>e. /\ entry = [b \in Block |-> Shown(b)]
      /\ entry' = [b \in Block |-> Shown(b)']
  <2>1. (\A b \in Block : EntryOf(b) = Shown(b))'
    <3>1. (Single /\ Spared => \A b \in Block : EntryOf(b) = Shown(b))'
      BY ServedIsShown, PTL
    <3> QED BY <3>1
  <2> QED BY <2>1, ServedIsShown
<1>1. CASE UNCHANGED <<status, refs>>
  <2>1. \A b \in Block : Shown(b)' = Shown(b)
    BY <1>1 DEF Shown, Has
  <2>2. origin' = origin /\ counter' = counter
    BY <1>1 DEF Has
  <2> QED BY <1>e, <2>1, <2>2 DEF Cat!shelf
<1>2. ASSUME NEW b \in Block, Only(b), Shift(b)
      PROVE  [Cat!Next]_(Cat!shelf)
  <2>1. \A e : Shown(b)' = e => Cat!Put(b, e)
    BY <1>e, <1>2, OnlyShows DEF Cat!Put
  <2>2. \A a \in Block \ {b} : (a \in origin' <=> a \in origin) /\ (a \in counter' <=> a \in counter)
    BY <1>2, OnlyShows DEF Same
  <2>3. \A a \in Block : entry[a] = Shown(a)
    BY <1>e
  <2>4. \A a \in Block : Cat!Present(a) <=> Exists(a)
    BY <2>3, ShownKinds DEF Cat!Present
  <2>5. Same(b, "origin") => origin' = origin
    BY <2>2 DEF Same
  <2>6. Same(b, "counter") => counter' = counter
    BY <2>2 DEF Same
  <2>7. Has(b, "origin")' => origin' = origin \cup {b}
    BY <2>2
  <2>8. ~Has(b, "origin")' => origin' = origin \ {b}
    BY <2>2
  <2>9. Has(b, "counter")' => counter' = counter \cup {b}
    BY <2>2
  <2>10. ~Has(b, "counter")' => counter' = counter \ {b}
    BY <2>2
  <2>11. SameKey(b) = {} => Cat!NoRival(b)
    BY <2>4 DEF Cat!NoRival, SameKey
  <2>12. Shown(b)' = Shown(b) => entry' = entry
    BY <1>e, <1>2, OnlyShows
  <2>h. (b \in origin <=> Has(b, "origin")) /\ (b \in counter <=> Has(b, "counter"))
    OBVIOUS
  <2>13. CASE Shown(b)' = Shown(b) /\ Same(b, "origin") /\ Same(b, "counter")
    BY <2>5, <2>6, <2>12, <2>13 DEF Cat!shelf
  <2>14. CASE /\ Shown(b) = "absent" /\ SameKey(b) = {} /\ Shown(b)' = "kept"
              /\ Same(b, "origin") /\ Same(b, "counter")
    <3>1. Cat!Learn(b)
      BY <2>1, <2>3, <2>5, <2>6, <2>11, <2>14 DEF Cat!Learn
    <3> QED BY <3>1 DEF Cat!Next
  <2>15. CASE /\ Shown(b) = "absent" /\ SameKey(b) = {} /\ Shown(b)' = "served"
              /\ Has(b, "origin")' /\ Same(b, "counter")
    <3>1. Cat!Report(b)
      BY <2>1, <2>3, <2>6, <2>7, <2>11, <2>15 DEF Cat!Report
    <3> QED BY <3>1 DEF Cat!Next
  <2>16. CASE Exists(b) /\ Shown(b)' = Shown(b) /\ Has(b, "origin")' /\ Same(b, "counter")
    <3>1. Cat!Found(b)
      BY <2>4, <2>6, <2>7, <2>12, <2>16 DEF Cat!Found
    <3> QED BY <3>1 DEF Cat!Next
  <2>17. CASE /\ Shown(b) = "kept" /\ Has(b, "origin") /\ ~Has(b, "counter")
              /\ Shown(b)' = "served" /\ Same(b, "origin") /\ Same(b, "counter")
    <3>1. Cat!Serve(b)
      BY <2>1, <2>3, <2>5, <2>6, <2>17, <2>h DEF Cat!Serve
    <3> QED BY <3>1 DEF Cat!Next
  <2>18. CASE /\ Shown(b) = "served" /\ Shown(b)' = "kept"
              /\ Same(b, "origin") /\ Same(b, "counter")
    <3>1. Cat!Withdraw(b)
      BY <2>1, <2>3, <2>5, <2>6, <2>18 DEF Cat!Withdraw
    <3> QED BY <3>1 DEF Cat!Next
  <2>19. CASE Exists(b) /\ Shown(b)' = "kept" /\ Has(b, "counter")' /\ Same(b, "origin")
    <3>1. Cat!Contradict(b)
      BY <2>1, <2>4, <2>5, <2>9, <2>19 DEF Cat!Contradict
    <3> QED BY <3>1 DEF Cat!Next
  <2>20. CASE /\ Has(b, "origin") /\ ~Has(b, "origin")' /\ Same(b, "counter")
              /\ Shown(b)' = IF Shown(b) = "served" THEN "kept" ELSE Shown(b)
    <3>1. Cat!Unground(b)
      BY <2>1, <2>3, <2>6, <2>8, <2>20, <2>h DEF Cat!Unground
    <3> QED BY <3>1 DEF Cat!Next
  <2>21. CASE /\ Has(b, "counter") /\ ~Has(b, "counter")' /\ Same(b, "origin")
              /\ Shown(b)' = Shown(b)
    <3>1. Cat!Absolve(b)
      BY <2>5, <2>10, <2>12, <2>21, <2>h DEF Cat!Absolve
    <3> QED BY <3>1 DEF Cat!Next
  <2>22. CASE Exists(b) /\ Shown(b)' = "erased" /\ ~Has(b, "origin")' /\ ~Has(b, "counter")'
    <3>1. Cat!Erase(b)
      BY <2>1, <2>4, <2>8, <2>10, <2>22 DEF Cat!Erase
    <3> QED BY <3>1 DEF Cat!Next
  <2> QED BY <1>2, <2>13, <2>14, <2>15, <2>16, <2>17, <2>18, <2>19, <2>20, <2>21, <2>22
         DEF Shift
<1> QED BY <1>1, <1>2 DEF ShelfMoves

LEMMA PatternShelf ==
    ASSUME Single, NEW c \in Client, CommitPattern(c)
    PROVE  ShelfMoves
<1>0. PICK b \in Block, t \in Trace :
         b = call[c].blk /\ t = call[c].trace /\ call[c].pc = "pattern"
  BY DEF CommitPattern, At, Single, Catalogued, Typed, WellFormed, NeedsBlock, NeedsTrace, Label
<1>1. status[b] = "fresh"
  BY <1>0 DEF Single, Catalogued, DraftsFresh, Draft
<1>2. CASE UNCHANGED <<status, refs, spent>>
  BY <1>2 DEF ShelfMoves
<1>3. CASE /\ SameKey(b) = {}
           /\ AddRef(b, t, "origin")
           /\ status' = [status EXCEPT ![b] = "active"]
  <2>1. \A a \in Block : status'[a] = IF a = b THEN "active" ELSE status[a]
    BY <1>3 DEF Single, Catalogued, Typed, TypeOK
  <2>2. Only(b)
    BY <1>3, <2>1, AddedElsewhere DEF Only
  <2>3. Has(b, "origin")' /\ Same(b, "counter")
    BY <1>3, AddedElsewhere DEF Same
  <2>4. Shown(b) = "absent" /\ Shown(b)' = "served"
    BY <1>1, <2>1, <2>3 DEF Shown
  <2> QED BY <1>3, <2>2, <2>3, <2>4 DEF ShelfMoves, Shift
<1> QED BY <1>0, <1>2, <1>3 DEF CommitPattern

LEMMA StoreShelf ==
    ASSUME Single, NEW c \in Client, StoreBlock(c)
    PROVE  ShelfMoves
<1>0. PICK b \in Block : b = call[c].blk /\ call[c].pc = "insert"
  BY DEF StoreBlock, At, Single, Catalogued, Typed, WellFormed, NeedsBlock, Label
<1>1. status[b] = "fresh" /\ SameKey(b) = {}
  BY <1>0 DEF Single, Sound, Catalogued, DraftsFresh, Draft
<1>2. \A a \in Block : status'[a] = IF a = b THEN "candidate" ELSE status[a]
  BY <1>0 DEF StoreBlock, Insert, Single, Catalogued, Typed, TypeOK
<1>3. UNCHANGED refs
  BY DEF StoreBlock
<1>4. Only(b) /\ Same(b, "origin") /\ Same(b, "counter")
  BY <1>2, <1>3 DEF Only, RefsOf, Same, Has
<1>5. Shown(b) = "absent" /\ Shown(b)' = "kept"
  BY <1>1, <1>2 DEF Shown
<1> QED BY <1>1, <1>4, <1>5 DEF ShelfMoves, Shift

LEMMA LinkShelf ==
    ASSUME Single, Spared, OneProcess, NEW c \in Client, LinkRef(c)
    PROVE  ShelfMoves
<1> DEFINE f == call[c]
<1>0. PICK b \in Block, t \in Trace, role \in Role :
         /\ b = f.blk /\ t = f.trace /\ role = f.role /\ f.pc = "link"
         /\ f.val = status[b] /\ f.pc \notin Doubting /\ Turn(c)
  BY DEF LinkRef, At, Single, Sound, Catalogued, Typed, WellFormed, NeedsBlock, NeedsTrace,
     Label, Doubting, Frame
<1>1. CASE ~Linkable(b, t, role)
  BY <1>0, <1>1 DEF LinkRef, ShelfMoves
<1>2. CASE Linkable(b, t, role)
  <2>1. AddRef(b, t, role) /\ Exists(b)
    BY <1>0, <1>2 DEF LinkRef, Linkable
  <2>2. \A a \in Block : status'[a] =
           IF a = b /\ role = "counter" /\ status[b] = "active" THEN "demoted" ELSE status[a]
    BY <1>0, <1>2, <2>1 DEF LinkRef, SetStatus, Single, Catalogued, Typed, TypeOK
  <2>3. Only(b)
    BY <2>1, <2>2, AddedElsewhere DEF Only
  <2>4. status[b] = "active" => Has(b, "origin")
    BY <1>0 DEF Single, AllBacked, Backed, Turn, Resting, Await, Doubting
  <2>5. CASE role = "counter"
    <3>1. Has(b, "counter")' /\ Same(b, "origin")
      BY <2>1, <2>5, AddedElsewhere DEF Same
    <3>2. Shown(b)' = "kept"
      BY <2>1, <2>2, <2>5 DEF Shown, Exists, Live
    <3> QED BY <2>1, <2>3, <3>1, <3>2 DEF ShelfMoves, Shift
  <2>6. CASE role = "origin"
    <3>1. Has(b, "origin")' /\ Same(b, "counter")
      BY <2>1, <2>6, AddedElsewhere DEF Same
    <3>2. Shown(b)' = Shown(b)
      BY <2>2, <2>4, <2>6, <3>1 DEF Shown
    <3> QED BY <2>1, <2>3, <3>1, <3>2 DEF ShelfMoves, Shift
  <2>7. CASE role \notin {"origin", "counter"}
    <3>1. Same(b, "origin") /\ Same(b, "counter")
      BY <2>1, <2>7, AddedElsewhere DEF Same
    <3>2. Shown(b)' = Shown(b)
      BY <2>2, <2>7, <3>1 DEF Shown, Same
    <3> QED BY <2>3, <3>1, <3>2 DEF ShelfMoves, Shift
  <2> QED BY <2>5, <2>6, <2>7
<1> QED BY <1>1, <1>2

LEMMA WriteShelf ==
    ASSUME Single, NEW c \in Client, Write(c)
    PROVE  ShelfMoves
<1> DEFINE f == call[c]
<1>0. PICK b \in Block : b = f.blk /\ f.pc = "write"
  BY DEF Write, At, Single, Catalogued, Typed, WellFormed, NeedsBlock, Label
<1>1. UNCHANGED refs /\ SetStatus(b, f.val)
  BY <1>0 DEF Write
<1>2. /\ \A a \in Block : status'[a] = IF a = b /\ Exists(b) THEN f.val ELSE status[a]
      /\ f.val \in Live
  BY <1>1 DEF SetStatus, Single, Catalogued, Typed, TypeOK, Frame
<1>3. Only(b) /\ Same(b, "origin") /\ Same(b, "counter")
  BY <1>1, <1>2 DEF Only, RefsOf, Same, Has
<1>4. CASE ~Exists(b)
  <2>1. Shown(b)' = Shown(b)
    BY <1>2, <1>3, <1>4 DEF Shown, Same
  <2> QED BY <1>3, <2>1 DEF ShelfMoves, Shift
<1>5. CASE Exists(b) /\ f.val = "active"
  <2>1. Has(b, "origin") /\ ~Has(b, "counter")
    BY <1>0, <1>5 DEF Single, Sound
  <2>2. Shown(b)' = "served" /\ Shown(b) \in {"kept", "served"}
    BY <1>2, <1>3, <1>5, <2>1 DEF Shown, Same, Exists, Live
  <2> QED BY <1>3, <2>1, <2>2 DEF ShelfMoves, Shift
<1>6. CASE Exists(b) /\ f.val # "active"
  <2>1. Shown(b)' = "kept" /\ Shown(b) \in {"kept", "served"}
    BY <1>2, <1>6 DEF Shown, Exists, Live
  <2> QED BY <1>3, <2>1 DEF ShelfMoves, Shift
<1> QED BY <1>4, <1>5, <1>6

\* Nobody sees the demotion: the block left the shelf with its last origin.
LEMMA QuarantineShelf ==
    ASSUME Single, NEW c \in Client, Quarantine(c)
    PROVE  ShelfMoves
<1>0. PICK b \in Block : b = call[c].blk /\ ~Has(b, "origin")
  BY DEF Quarantine, At, Single, Sound, Catalogued, Typed, WellFormed, NeedsBlock, Label
<1>1. UNCHANGED refs /\ status' = Quarantined(b)
  BY <1>0 DEF Quarantine
<1>2. \A a \in Block : status'[a] =
         IF a = b /\ status[b] = "active" THEN "candidate" ELSE status[a]
  BY <1>1 DEF Quarantined, Single, Catalogued, Typed, TypeOK
<1>3. Only(b) /\ Same(b, "origin") /\ Same(b, "counter")
  BY <1>1, <1>2 DEF Only, RefsOf, Same, Has
<1>4. Shown(b)' = Shown(b)
  BY <1>0, <1>2, <1>3 DEF Shown, Same
<1> QED BY <1>3, <1>4 DEF ShelfMoves, Shift

LEMMA DropShelf ==
    ASSUME Single, NEW b \in Block, DropBlock(b)
    PROVE  ShelfMoves
<1>1. \A a \in Block : status'[a] = IF a = b /\ Exists(b) THEN "gone" ELSE status[a]
  BY DEF DropBlock, Single, Catalogued, Typed, TypeOK
<1>2. Only(b) /\ ~Has(b, "origin")' /\ ~Has(b, "counter")'
  BY <1>1 DEF DropBlock, Only, RefsOf, Has
<1>3. CASE Exists(b)
  <2>1. Shown(b)' = "erased"
    BY <1>1, <1>3 DEF Shown
  <2> QED BY <1>2, <1>3, <2>1 DEF ShelfMoves, Shift
<1>4. CASE ~Exists(b)
  <2>1. ~Has(b, "origin") /\ ~Has(b, "counter")
    BY <1>4 DEF Single, Catalogued, NoDanglingRef, Has
  <2>2. Shown(b)' = Shown(b)
    BY <1>1, <1>2, <1>4, <2>1 DEF Shown
  <2> QED BY <1>2, <2>1, <2>2 DEF ShelfMoves, Shift, Same
<1> QED BY <1>3, <1>4

\* A ref taken away, or turned into an orphan
LEMMA LostShelf ==
    ASSUME Single, NEW b \in Block, NEW r \in refs, r.block = b, UNCHANGED status,
           NEW n, n.block = b, n.role = "orphan",
           refs' = refs \ {r} \/ refs' = (refs \ {r}) \cup {n}
    PROVE  ShelfMoves
<1>1. Only(b)
  BY DEF Only, RefsOf
<1>2. \A role \in {"origin", "counter"} :
         (Has(b, role)' => Has(b, role)) /\ (r.role # role => Same(b, role))
  BY DEF Has, Same
<1>3. status[b] \in Live
  BY DEF Single, Catalogued, NoDanglingRef, Exists
<1>4. CASE Same(b, "origin")
  <2>1. Shown(b)' = Shown(b)
    BY <1>4 DEF Shown, Same
  <2>2. Same(b, "counter") \/ (Has(b, "counter") /\ ~Has(b, "counter")')
    BY <1>2 DEF Same
  <2> QED BY <1>1, <1>4, <2>1, <2>2 DEF ShelfMoves, Shift
<1>5. CASE ~Same(b, "origin")
  <2>1. Has(b, "origin") /\ ~Has(b, "origin")' /\ Same(b, "counter")
    BY <1>2, <1>5 DEF Same
  <2>2. Shown(b)' = IF Shown(b) = "served" THEN "kept" ELSE Shown(b)
    BY <1>3, <2>1 DEF Shown, Live
  <2> QED BY <1>1, <2>1, <2>2 DEF ShelfMoves, Shift
<1> QED BY <1>4, <1>5

LEMMA DetachShelf ==
    ASSUME Single, NEW c \in Client, DetachRow(c)
    PROVE  ShelfMoves
<1>1. PICK r \in call[c].todo : refs' = {q \in refs : q.id # r.id}
  BY DEF DetachRow
<1>2. r \in refs /\ r \in Ref /\ UNCHANGED status
  BY DEF DetachRow, At, Single, Sound, Catalogued, Typed, TypeOK
<1>3. refs' = refs \ {r}
  BY <1>1, <1>2 DEF Single, Minted
<1>4. PICK n : n = [block |-> r.block, role |-> "orphan"]
  OBVIOUS
<1> QED BY <1>2, <1>3, <1>4, LostShelf DEF Ref

LEMMA OrphanShelf ==
    ASSUME Single, NEW c \in Client, Orphan(c)
    PROVE  ShelfMoves
<1>0. UNCHANGED status /\ call[c].todo \subseteq refs /\ refs \subseteq Ref
  BY DEF Orphan, At, Single, Sound, Catalogued, Typed, TypeOK
<1>1. CASE UNCHANGED refs
  BY <1>0, <1>1 DEF ShelfMoves
<1>2. ASSUME NEW r \in call[c].todo,
             refs' = (refs \ {q \in refs : q.id = r.id})
                        \cup {[q EXCEPT !.role = "orphan"] : q \in {q \in refs : q.id = r.id}}
      PROVE  ShelfMoves
  <2>1. r \in refs /\ r.block \in Block
    BY <1>0 DEF Ref
  <2>2. PICK n \in {[r EXCEPT !.role = "orphan"]} : n.block = r.block /\ n.role = "orphan"
    BY <1>0, <2>1 DEF Ref
  <2>3. refs' = (refs \ {r}) \cup {n}
    <3>1. {q \in refs : q.id = r.id} = {r}
      BY <2>1 DEF Single, Minted
    <3> QED BY <1>2, <2>2, <3>1
  <2> QED BY <1>0, <2>1, <2>2, <2>3, LostShelf
<1> QED BY <1>1, <1>2 DEF Orphan

LEMMA ShelfStep ==
    ASSUME OneProcess, Spared, Single, Next
    PROVE  ShelfMoves
<1>1. CASE \E c \in Client : Enters(c)
  <2>1. PICK c \in Client : Enters(c)
    BY <1>1
  <2>2. CASE DeleteBlock(c)
    BY <2>2, DropShelf DEF DeleteBlock, Named
  <2>3. CASE ~DeleteBlock(c)
    <3>1. UNCHANGED db
      BY <2>1, <2>3 DEF Enters, DistillTrace, StorePattern, DistillDomain,
         ReadForWriteBack, UpdateBlockStatus, AttachCounter, MergeBlocks, DetachCaseRef,
         OrphanMissingRefs, HardDeleteBlock, Enter
    <3> QED BY <3>1 DEF db, ShelfMoves
  <2> QED BY <2>2, <2>3
<1>2. CASE \E c \in Client : Runs(c)
  <2>1. PICK c \in Client : Runs(c)
    BY <1>2
  <2>2. CASE \/ Distilled(c) \/ Find(c) \/ AlreadySupported(c) \/ Collide(c) \/ GetBlock(c)
             \/ Update(c) \/ CheckOrigin(c) \/ CheckCounter(c) \/ Verified(c)
             \/ GetLoser(c) \/ StillHas(c)
    BY <2>2 DEF Distilled, Find, AlreadySupported, Collide, GetBlock, Update, CheckOrigin,
       CheckCounter, Verified, GetLoser, StillHas, db, ShelfMoves
  <2>3. CASE EraseTx(c)
    <3>1. call[c].blk \in Block /\ DropBlock(call[c].blk)
      BY <2>3 DEF EraseTx, At, Single, Catalogued, Typed, WellFormed, NeedsBlock, Label
    <3> QED BY <3>1, DropShelf
  <2>4. ~MergeTx(c)
    BY DEF MergeTx, At, Single, Sound
  <2> QED BY <2>1, <2>2, <2>3, <2>4, PatternShelf, StoreShelf, LinkShelf, WriteShelf,
             QuarantineShelf, DetachShelf, OrphanShelf DEF Runs
<1>3. CASE (\E c \in Client : Fail(c)) \/ \E t \in Trace : DeleteTrace(t)
  BY <1>3 DEF Fail, DeleteTrace, db, ShelfMoves
<1> QED BY <1>1, <1>2, <1>3 DEF Next

\* While one process writes, the store is the shelf of module Catalog: each
\* statement of each call is one of its steps or changes nothing a reader sees.
THEOREM StoreIsShelf ==
    ASSUME OneProcess, Spared
    PROVE  Spec => ImplementsCatalog
<1>1. Init => Cat!Init
  <2> SUFFICES ASSUME Init PROVE Cat!Init
    OBVIOUS
  <2>1. refs = {} /\ \A b \in Block : status[b] = "fresh"
    BY DEF Init
  <2>2. \A b \in Block : EntryOf(b) = "absent"
    BY <2>1 DEF EntryOf
  <2> QED BY <2>1, <2>2 DEF Cat!Init, Has
<1>2. Single /\ Single' /\ [Next]_vars => [Cat!Next]_(Cat!shelf)
  <2> SUFFICES ASSUME Single, Single', [Next]_vars PROVE [Cat!Next]_(Cat!shelf)
    OBVIOUS
  <2>1. ShelfMoves
    BY ShelfStep DEF vars, ShelfMoves
  <2> QED BY <2>1, ShelfMovesRefine
<1> QED BY <1>1, <1>2, SingleInit, SingleStep, PTL DEF Spec, ImplementsCatalog, Cat!Spec

-----------------------------------------------------------------------------
(* Origins.  Where no process merges, detaches or sweeps, the call that    *)
(* inserts a row stays on its way to cite the row's origin until it has.   *)

Drafting == {"success", "failure", "primer"}

OnItsWay(f) ==
    /\ f.pc \notin {"loser", "merge", "detach", "orphan", "stillHas", "quarantine"}
    /\ f.pc = "distill" => f.op \in {"success", "failure"}
    /\ f.pc = "find" => f.op \in Drafting \cup {"pattern"}
    /\ f.pc \in {"collide", "insert"} => f.op \in Drafting
    /\ f.pc = "supported" => f.role # "origin"
    /\ f.pc \in {"get", "link"} /\ f.role = "origin" => f.op \in Drafting

Followed == Catalogued /\ OriginFollows /\ \A c \in Client : OnItsWay(call[c])

Brings(f, b) == f.blk = b /\ f.role = "origin" /\ f.pc \in {"get", "link"}
Bare(b) == Exists(b) /\ ~Has(b, "origin")

\* What a step may do: strip no row it leaves, bring an origin for the row it
\* adds, and not give up on one.
Follows(c) ==
    /\ \A d \in Client \ {c} : call'[d] = call[d]
    /\ OnItsWay(call'[c])
    /\ \A b \in Block : Bare(b)' => Bare(b) \/ Brings(call'[c], b)
    /\ \A b \in Block : Bare(b)' /\ Brings(call[c], b) => Brings(call'[c], b)

LEMMA FollowsKeeps ==
    ASSUME Followed, Catalogued', NEW c \in Client, Follows(c)
    PROVE  Followed'
<1>1. \A d \in Client : OnItsWay(call'[d])
  BY DEF Followed, Follows
<1>2. \A b \in Block : Bare(b)' => \E d \in Client : Brings(call'[d], b)
  <2> SUFFICES ASSUME NEW b \in Block, Bare(b)' PROVE \E d \in Client : Brings(call'[d], b)
    OBVIOUS
  <2>1. CASE Brings(call'[c], b)
    BY <2>1
  <2>2. CASE ~Brings(call'[c], b)
    <3>1. PICK d \in Client : Brings(call[d], b)
      BY <2>2 DEF Follows, Followed, OriginFollows, Bare, Brings
    <3>2. d # c
      BY <2>2, <3>1 DEF Follows
    <3> QED BY <3>1, <3>2 DEF Follows
  <2> QED BY <2>1, <2>2
<1> QED BY <1>1, <1>2 DEF Followed, OriginFollows, Bare, Brings, OnItsWay

LEMMA ReadFollows ==
    ASSUME Followed, NEW c \in Client, UNCHANGED <<status, refs>>,
           \A d \in Client \ {c} : call'[d] = call[d], OnItsWay(call'[c]),
           \A b \in Block : Brings(call[c], b) /\ Bare(b) => Brings(call'[c], b)
    PROVE  Follows(c)
<1>1. \A b \in Block : Bare(b)' <=> Bare(b)
  BY DEF Bare, Exists, Has
<1> QED BY <1>1 DEF Follows

LEMMA IdleOnItsWay == OnItsWay(Idle) /\ \A b : ~Brings(Idle, b)
  BY DEF OnItsWay, Idle, Brings

LEMMA ReturnFollows ==
    ASSUME Followed, NEW c \in Client, UNCHANGED <<status, refs>>, Return(c),
           \A b \in Block : Brings(call[c], b) => ~Bare(b)
    PROVE  Follows(c)
<1>1. call'[c] = Idle /\ \A d \in Client \ {c} : call'[d] = call[d]
  BY AfterReturn DEF Followed, Catalogued
<1> QED BY <1>1, IdleOnItsWay, ReadFollows

\* A step to a label where a call has no draft or origin in hand
LEMMA GotoFollows ==
    ASSUME Followed, NEW c \in Client, UNCHANGED <<status, refs>>, NEW l, Goto(c, l),
           call[c].pc \notin {"get", "link"},
           \/ l \in {"origin", "counter", "write"}
           \/ l = "get" /\ call[c].role # "origin"
           \/ l = "insert" /\ call[c].pc = "collide"
    PROVE  Follows(c)
<1>1. /\ call'[c].pc = l /\ call'[c].op = call[c].op /\ call'[c].role = call[c].role
      /\ \A d \in Client \ {c} : call'[d] = call[d]
  BY AfterGoto DEF Followed, Catalogued
<1>2. OnItsWay(call'[c])
  BY <1>1 DEF Followed, OnItsWay
<1>3. \A b \in Block : ~Brings(call[c], b)
  BY DEF Brings
<1> QED BY <1>1, <1>2, <1>3, ReadFollows

LEMMA EnterFollows ==
    ASSUME Followed, NEW c \in Client, NEW f, Enter(c, f), OnItsWay(f)
    PROVE  Follows(c)
<1>1. call'[c] = f /\ \A d \in Client \ {c} : call'[d] = call[d]
  BY AfterFrame DEF Enter, Followed, Catalogued
<1>2. call[c].pc = "idle" /\ UNCHANGED <<status, refs>>
  BY DEF Enter, At, db
<1> QED BY <1>1, <1>2, ReadFollows DEF Brings

LEMMA DropFollows ==
    ASSUME Followed, NEW b \in Block, DropBlock(b)
    PROVE  \A a \in Block : Bare(a)' => Bare(a) /\ a # b
<1>1. \A a \in Block : status'[a] = IF a = b /\ Exists(b) THEN "gone" ELSE status[a]
  BY DEF DropBlock, Followed, Catalogued, Typed, TypeOK
<1>2. \A a \in Block \ {b} : Has(a, "origin")' <=> Has(a, "origin")
  BY DEF DropBlock, Has
<1> QED BY <1>1, <1>2 DEF Bare, Exists, Live

Stripping == {"merge", "detach", "sweep"}

LEMMA EntersFollow ==
    ASSUME Followed, Ops \cap Stripping = {}, NEW c \in Client, Enters(c)
    PROVE  Follows(c)
<1>1. CASE DistillTrace(c)
  <2>1. PICK t \in known, lane \in {"success", "failure"} :
           Enter(c, [Idle EXCEPT !.op = lane, !.pc = "distill", !.trace = t])
    BY <1>1 DEF DistillTrace
  <2>2. OnItsWay([Idle EXCEPT !.op = lane, !.pc = "distill", !.trace = t])
    BY DEF OnItsWay, Idle
  <2> QED BY <2>1, <2>2, EnterFollows
<1>2. CASE StorePattern(c)
  <2>1. PICK t \in Trace, b \in Unminted :
           Enter(c, [Idle EXCEPT !.op = "pattern", !.pc = "find", !.blk = b, !.trace = t])
    BY <1>2 DEF StorePattern
  <2>2. OnItsWay([Idle EXCEPT !.op = "pattern", !.pc = "find", !.blk = b, !.trace = t])
    BY DEF OnItsWay, Idle
  <2> QED BY <2>1, <2>2, EnterFollows
<1>3. CASE DistillDomain(c)
  <2>1. PICK t \in Trace, b \in Unminted :
           Enter(c, [Idle EXCEPT !.op = "primer", !.pc = "find", !.blk = b, !.trace = t])
    BY <1>3 DEF DistillDomain
  <2>2. OnItsWay([Idle EXCEPT !.op = "primer", !.pc = "find", !.blk = b, !.trace = t])
    BY DEF OnItsWay, Idle, Drafting
  <2> QED BY <2>1, <2>2, EnterFollows
<1>4. CASE ReadForWriteBack(c)
  <2>1. PICK b \in Named, o \in {"reverify", "sync"}, v \in Live :
           Enter(c, [Idle EXCEPT !.op = o, !.blk = b, !.val = v,
                                 !.pc = IF o = "reverify" THEN "verify"
                                        ELSE IF v = "active" THEN "origin"
                                        ELSE "write"])
    BY <1>4 DEF ReadForWriteBack, Exists
  <2>2. OnItsWay([Idle EXCEPT !.op = o, !.blk = b, !.val = v,
                     !.pc = IF o = "reverify" THEN "verify"
                            ELSE IF v = "active" THEN "origin"
                            ELSE "write"])
    BY DEF OnItsWay, Idle
  <2> QED BY <2>1, <2>2, EnterFollows
<1>5. CASE UpdateBlockStatus(c)
  <2>1. PICK b \in Named, o \in DOMAIN Goal :
           Enter(c, [Idle EXCEPT !.op = o, !.pc = "update", !.blk = b, !.val = Goal[o]])
    BY <1>5 DEF UpdateBlockStatus
  <2>2. OnItsWay([Idle EXCEPT !.op = o, !.pc = "update", !.blk = b, !.val = Goal[o]])
    BY DEF OnItsWay, Idle
  <2> QED BY <2>1, <2>2, EnterFollows
<1>6. CASE AttachCounter(c)
  <2>1. PICK b \in Named, t \in Trace :
           Enter(c, [Idle EXCEPT !.op = "counter", !.pc = "get", !.blk = b,
                                 !.trace = t, !.role = "counter"])
    BY <1>6 DEF AttachCounter
  <2>2. OnItsWay([Idle EXCEPT !.op = "counter", !.pc = "get", !.blk = b,
                     !.trace = t, !.role = "counter"])
    BY DEF OnItsWay, Idle
  <2> QED BY <2>1, <2>2, EnterFollows
<1>7. ~(MergeBlocks(c) \/ DetachCaseRef(c) \/ OrphanMissingRefs(c))
  BY DEF MergeBlocks, DetachCaseRef, OrphanMissingRefs, Enter, Idle, Stripping
<1>8. CASE HardDeleteBlock(c)
  <2>1. PICK b \in Named :
           Enter(c, [Idle EXCEPT !.op = "erase", !.pc = "erase", !.blk = b])
    BY <1>8 DEF HardDeleteBlock
  <2>2. OnItsWay([Idle EXCEPT !.op = "erase", !.pc = "erase", !.blk = b])
    BY DEF OnItsWay, Idle
  <2> QED BY <2>1, <2>2, EnterFollows
<1>9. CASE DeleteBlock(c)
  <2>1. PICK b \in Block : DropBlock(b) /\ UNCHANGED call
    BY <1>9 DEF DeleteBlock, Named
  <2> QED BY <2>1, DropFollows DEF Follows, Followed
<1> QED BY <1>1, <1>2, <1>3, <1>4, <1>5, <1>6, <1>7, <1>8, <1>9 DEF Enters

\* The two statements that add a row, and the one that cites for it
LEMMA StoreFollows ==
    ASSUME Followed, NEW c \in Client, StoreBlock(c)
    PROVE  Follows(c)
<1> DEFINE f == call[c]
<1>1. f.pc = "insert" /\ f.op \in Drafting /\ f.blk \in Block
  BY DEF StoreBlock, At, Followed, OnItsWay, Catalogued, Typed, WellFormed, NeedsBlock, Label
<1>2. /\ call'[c].pc = "get" /\ call'[c].role = "origin"
      /\ call'[c].op = f.op /\ call'[c].blk = f.blk
      /\ \A d \in Client \ {c} : call'[d] = call[d]
  BY DEF StoreBlock, Followed, Catalogued, Typed, TypeOK, Frame
<1>3. \A b \in Block : Bare(b)' => Bare(b) \/ b = f.blk
  BY DEF StoreBlock, Insert, Bare, Exists, Has, Followed, Catalogued, Typed, TypeOK
<1>4. OnItsWay(call'[c]) /\ Brings(call'[c], f.blk)
  BY <1>1, <1>2 DEF OnItsWay, Brings
<1>5. \A b \in Block : ~Brings(f, b)
  BY <1>1 DEF Brings
<1> QED BY <1>2, <1>3, <1>4, <1>5 DEF Follows

LEMMA PatternFollows ==
    ASSUME Followed, NEW c \in Client, CommitPattern(c)
    PROVE  Follows(c)
<1>0. PICK b \in Block, t \in Trace :
         b = call[c].blk /\ t = call[c].trace /\ call[c].pc = "pattern"
  BY DEF CommitPattern, At, Followed, Catalogued, Typed, WellFormed, NeedsBlock, NeedsTrace, Label
<1>1. Return(c) /\ \A a : ~Brings(call[c], a)
  BY <1>0 DEF CommitPattern, Brings
<1>2. CASE UNCHANGED <<status, refs, spent>>
  BY <1>1, <1>2, ReturnFollows
<1>3. CASE AddRef(b, t, "origin") /\ status' = [status EXCEPT ![b] = "active"]
  <2>1. Has(b, "origin")' /\ \A a \in Block \ {b} : RefsOf(a)' = RefsOf(a)
    BY <1>3, AddedElsewhere
  <2>2. \A a \in Block : Bare(a)' => Bare(a)
    <3> SUFFICES ASSUME NEW a \in Block, Bare(a)' PROVE Bare(a)
      OBVIOUS
    <3>1. a # b
      BY <2>1 DEF Bare
    <3> QED BY <1>3, <2>1, <3>1 DEF Bare, Exists, Has, RefsOf, Followed, Catalogued, Typed, TypeOK
  <2> QED BY <1>1, <2>2, AfterReturn, IdleOnItsWay DEF Follows, Followed, Catalogued
<1> QED BY <1>0, <1>2, <1>3 DEF CommitPattern

LEMMA LinkFollows ==
    ASSUME Followed, NEW c \in Client, LinkRef(c)
    PROVE  Follows(c)
<1> DEFINE f == call[c]
<1>0. PICK b \in Block, t \in Trace, role \in Role :
         b = f.blk /\ t = f.trace /\ role = f.role /\ f.pc = "link"
  BY DEF LinkRef, At, Followed, Catalogued, Typed, WellFormed, NeedsBlock, NeedsTrace, Label, Frame
<1>1. \A a : Brings(f, a) => a = b /\ role = "origin"
  BY <1>0 DEF Brings
<1>2. CASE ~Linkable(b, t, role)
  <2>1. role = "origin" => ~Bare(b)
    BY <1>2 DEF Linkable, Cited, Bare, Has
  <2> QED BY <1>0, <1>1, <1>2, <2>1, ReturnFollows DEF LinkRef
<1>3. CASE Linkable(b, t, role)
  <2>1. AddRef(b, t, role) /\ Exists(b)
    BY <1>0, <1>3 DEF LinkRef, Linkable
  <2>2. \A a \in Block : Exists(a)' => Exists(a)
    BY <1>0, <1>3 DEF LinkRef, SetStatus, Exists, Followed, Catalogued, Typed, TypeOK, Live
  <2>3. \A a \in Block : Has(a, "origin") => Has(a, "origin")'
    BY <2>1 DEF AddRef, Has
  <2>4. role = "origin" => Has(b, "origin")'
    BY <2>1, AddedElsewhere
  <2>5. call'[c].pc \in {"idle", "update"} /\ \A d \in Client \ {c} : call'[d] = call[d]
    BY <1>0, <1>3 DEF LinkRef, Return, Idle, Followed, Catalogued, Typed, TypeOK, Frame
  <2>6. OnItsWay(call'[c])
    BY <2>5 DEF OnItsWay
  <2>7. \A a \in Block : Bare(a)' => Bare(a) /\ ~Brings(f, a)
    BY <1>1, <2>2, <2>3, <2>4 DEF Bare
  <2> QED BY <2>5, <2>6, <2>7 DEF Follows
<1> QED BY <1>2, <1>3

LEMMA RunsFollow ==
    ASSUME Followed, NEW c \in Client, Runs(c)
    PROVE  Follows(c)
<1> DEFINE f == call[c]
<1>f. /\ f \in [op : Operations \cup {"none"}, pc : Label,
                blk : Block \cup {NoBlock}, peer : Block \cup {NoBlock},
                trace : Trace \cup {NoTrace}, role : Role,
                val : Live, todo : SUBSET Ref]
      /\ Typed /\ WellFormed(f) /\ OnItsWay(f)
  BY DEF Followed, Catalogued, Typed, TypeOK, Frame
<1>b. f.pc \notin {"get", "link"} => \A b : ~Brings(f, b)
  BY DEF Brings
<1>1. CASE Distilled(c)
  <2>0. f.pc = "distill" /\ UNCHANGED <<status, refs>>
    BY <1>1 DEF Distilled, At, db
  <2>1. CASE Return(c)
    BY <1>b, <2>0, <2>1, ReturnFollows
  <2>2. CASE \E b \in Unminted : call' = [call EXCEPT ![c].pc = "find", ![c].blk = b]
    <3>1. PICK b : call' = [call EXCEPT ![c] = [f EXCEPT !.pc = "find", !.blk = b]]
      BY <2>2
    <3>2. /\ call'[c].pc = "find" /\ call'[c].op = f.op
          /\ \A d \in Client \ {c} : call'[d] = call[d]
      BY <1>f, <3>1 DEF Typed, TypeOK
    <3>3. OnItsWay(call'[c])
      BY <1>f, <2>0, <3>2 DEF OnItsWay, Drafting
    <3> QED BY <1>b, <2>0, <3>2, <3>3, ReadFollows
  <2> QED BY <1>1, <2>1, <2>2 DEF Distilled
<1>2. CASE Find(c)
  <2>0. f.pc = "find" /\ UNCHANGED <<status, refs>>
    BY <1>2 DEF Find, At, db
  <2>1. CASE \E a \in SameKey(f.blk) : call' = [call EXCEPT ![c] = OnHit(@, a)]
    <3>1. PICK a : call' = [call EXCEPT ![c] = OnHit(f, a)]
      BY <2>1
    <3>2. OnItsWay(OnHit(f, a))
      BY <1>f DEF OnHit, OnItsWay
    <3> QED BY <1>f, <1>b, <2>0, <3>1, <3>2, ReadFollows DEF Typed, TypeOK
  <2>2. CASE call' = [call EXCEPT ![c] = OnMiss(@)]
    <3>1. OnItsWay(OnMiss(f))
      BY <1>f, <2>0 DEF OnMiss, OnItsWay
    <3> QED BY <1>f, <1>b, <2>0, <2>2, <3>1, ReadFollows DEF Typed, TypeOK
  <2> QED BY <1>2, <2>1, <2>2 DEF Find
<1>3. CASE AlreadySupported(c)
  <2>1. f.pc = "supported" /\ f.role # "origin" /\ UNCHANGED <<status, refs>>
    BY <1>3, <1>f DEF OnItsWay, AlreadySupported, At, db
  <2> QED BY <1>3, <1>b, <2>1, ReturnFollows, GotoFollows DEF AlreadySupported
<1>4. CASE Collide(c)
  <2>1. f.pc = "collide" /\ UNCHANGED <<status, refs>>
    BY <1>4 DEF Collide, At, db
  <2> QED BY <1>4, <1>b, <2>1, ReturnFollows, GotoFollows DEF Collide
<1>5. CASE GetBlock(c)
  <2>0. f.pc = "get" /\ UNCHANGED <<status, refs>>
    BY <1>5 DEF GetBlock, At, db
  <2>1. CASE Exists(f.blk)
    <3>1. call' = [call EXCEPT ![c] = [f EXCEPT !.pc = "link", !.val = status[f.blk]]]
      BY <1>5, <2>1 DEF GetBlock
    <3>2. /\ call'[c].pc = "link" /\ call'[c].op = f.op /\ call'[c].blk = f.blk
          /\ call'[c].role = f.role /\ \A d \in Client \ {c} : call'[d] = call[d]
      BY <1>f, <3>1 DEF Typed, TypeOK
    <3>3. OnItsWay(call'[c]) /\ \A b : Brings(f, b) => Brings(call'[c], b)
      BY <1>f, <2>0, <3>2 DEF OnItsWay, Brings
    <3> QED BY <2>0, <3>2, <3>3, ReadFollows
  <2>2. CASE ~Exists(f.blk)
    BY <1>5, <2>0, <2>2, ReturnFollows DEF GetBlock, Brings, Bare
  <2> QED BY <2>1, <2>2
<1>6. CASE Update(c)
  <2>1. f.pc = "update" /\ UNCHANGED <<status, refs>>
    BY <1>6 DEF Update, At, db
  <2> QED BY <1>6, <1>b, <2>1, ReturnFollows, GotoFollows DEF Update
<1>7. CASE CheckOrigin(c)
  <2>1. f.pc = "origin" /\ UNCHANGED <<status, refs>>
    BY <1>7 DEF CheckOrigin, At, db
  <2> QED BY <1>7, <1>b, <2>1, ReturnFollows, GotoFollows DEF CheckOrigin
<1>8. CASE CheckCounter(c)
  <2>1. f.pc = "counter" /\ UNCHANGED <<status, refs>>
    BY <1>8 DEF CheckCounter, At, db
  <2> QED BY <1>8, <1>b, <2>1, ReturnFollows, GotoFollows DEF CheckCounter
<1>9. CASE Verified(c)
  <2>1. f.pc = "verify" /\ UNCHANGED <<status, refs>>
    BY <1>9 DEF Verified, At, db
  <2> QED BY <1>9, <2>1, GotoFollows DEF Verified
<1>10. CASE Write(c)
  <2>1. f.pc = "write" /\ f.blk \in Block /\ UNCHANGED refs
    BY <1>10, <1>f DEF Write, At, WellFormed, NeedsBlock, Label
  <2>2. \A b \in Block : Bare(b)' => Bare(b)
    BY <1>10, <2>1 DEF Write, SetStatus, Bare, Exists, Has, Followed, Catalogued, Typed, TypeOK
  <2>3. call'[c].pc \in {"idle", "verify"} /\ \A d \in Client \ {c} : call'[d] = call[d]
    BY <1>10, <1>f DEF Write, Return, Idle, Typed, TypeOK
  <2>4. OnItsWay(call'[c])
    BY <2>3 DEF OnItsWay
  <2> QED BY <1>b, <2>1, <2>2, <2>3, <2>4 DEF Follows
<1>11. CASE EraseTx(c)
  <2>1. f.pc = "erase" /\ f.blk \in Block /\ DropBlock(f.blk) /\ Return(c)
    BY <1>11, <1>f DEF EraseTx, At, WellFormed, NeedsBlock, Label
  <2>2. call'[c] = Idle /\ \A d \in Client \ {c} : call'[d] = call[d]
    BY <1>f, <2>1, AfterReturn
  <2> QED BY <1>b, <2>1, <2>2, DropFollows, IdleOnItsWay DEF Follows
<1>12. ~(\/ GetLoser(c) \/ MergeTx(c) \/ DetachRow(c) \/ Orphan(c) \/ StillHas(c) \/ Quarantine(c))
  BY <1>f DEF OnItsWay, GetLoser, MergeTx, DetachRow, Orphan, StillHas, Quarantine, At
<1> QED BY <1>1, <1>2, <1>3, <1>4, <1>5, <1>6, <1>7, <1>8, <1>9, <1>10, <1>11, <1>12,
           StoreFollows, PatternFollows, LinkFollows DEF Runs

\* However processes race for a trigger, a row without an origin ref has a
\* call on its way to cite one, as long as the lanes that draft blocks do not
\* die half-way and no process takes refs away.
THEOREM OriginsFollow ==
    ASSUME Ops \cap Stripping = {}, Killable \cap Drafting = {}
    PROVE  Spec => []OriginFollows
<1>1. Init => Followed
  <2> SUFFICES ASSUME Init PROVE Followed
    OBVIOUS
  <2>1. (\A c \in Client : call[c] = Idle) /\ \A b \in Block : status[b] = "fresh"
    BY DEF Init
  <2>2. OriginFollows
    BY <2>1 DEF OriginFollows, Exists, Live
  <2> QED BY <2>1, <2>2, CatalogueInit, IdleOnItsWay DEF Followed
<1>2. Followed /\ [Next]_vars => Followed'
  <2> SUFFICES ASSUME Followed, [Next]_vars PROVE Followed'
    OBVIOUS
  <2>0. Catalogued'
    BY CatalogueStep DEF Followed
  <2>1. CASE \E c \in Client : Enters(c) \/ Runs(c)
    BY <2>0, <2>1, EntersFollow, RunsFollow, FollowsKeeps
  <2>2. CASE \E c \in Client : Fail(c)
    <3>1. PICK c \in Client : Fail(c)
      BY <2>2
    <3>2. \A b \in Block : ~Brings(call[c], b)
      BY <3>1 DEF Fail, Followed, OnItsWay, Brings
    <3> QED BY <2>0, <3>1, <3>2, ReturnFollows, FollowsKeeps DEF Fail, db
  <2>3. CASE (\E t \in Trace : DeleteTrace(t)) \/ UNCHANGED vars
    <3>1. UNCHANGED <<status, refs, call>>
      BY <2>3 DEF DeleteTrace, vars
    <3> QED BY <2>0, <3>1 DEF Followed, OriginFollows, Exists, Has, OnItsWay
  <2> QED BY <2>1, <2>2, <2>3 DEF Next
<1>3. Followed => OriginFollows
  BY DEF Followed
<1> QED BY <1>1, <1>2, <1>3, PTL DEF Spec

=============================================================================
