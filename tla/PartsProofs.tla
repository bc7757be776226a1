----------------------------- MODULE PartsProofs -----------------------------
(***************************************************************************)
(* What the table of facts, the schema walker, the file index, the GitHub   *)
(* ingest, the context fold and device linking promise, for any number of   *)
(* processes, keys, rows, files, entries, turns, sessions and users; and    *)
(* what they promise side by side with the learning loop (TurnsProofs).     *)
(***************************************************************************)
EXTENDS MCParts, TurnsProofs

(***************************************************************************)
(* The facts.  ErasedIffAudited is not inductive alone: it needs that no    *)
(* two keys share an id, that no id is ahead of the counter, and that a    *)
(* frame names an id only together with the one key that may hold it.      *)
(***************************************************************************)
RowsWellFormed ==
    \A k \in FactKey :
        /\ facts[k].id = NoId <=> facts[k] = NoFact
        /\ facts[k].id <= issued
        /\ facts[k].status = "retired" => facts[k].id # NoId

IdsApart ==
    \A k, l \in FactKey : facts[k].id # NoId /\ facts[k].id = facts[l].id => k = l

FramesWellFormed ==
    \A c \in Caller :
        /\ task[c].found.id = NoId <=> task[c].found = NoFact
        /\ task[c].found.id <= issued
        /\ task[c].pc = "erase" => task[c].found.id # NoId
        /\ \A k \in FactKey :
               task[c].found.id # NoId /\ facts[k].id = task[c].found.id => k = task[c].key

NotYetAudited == \A i \in FactId : i > issued => audits[i] = 0

FactsInv ==
    FactsTypeOK /\ RowsWellFormed /\ IdsApart /\ FramesWellFormed /\ NotYetAudited
        /\ ErasedIffAudited

LEMMA AnyKeyIsKey == AnyKey \in FactKey
BY FactsAssumption DEF AnyKey

LEMMA IdleTask ==
    \A k \in FactKey : /\ NoTask(k) \in [pc : {"idle", "store", "erase"}, key : FactKey,
                                         found : FactRow]
                       /\ NoTask(k).found = NoFact /\ NoTask(k).pc = "idle"
                       /\ NoFact \in FactRow /\ NoFact.id = NoId
BY DEF NoTask, NoFact, FactRow, NoId

LEMMA InitFactsInv == FactsInit => FactsInv
<1>. SUFFICES ASSUME FactsInit PROVE FactsInv
  OBVIOUS
<1>1. FactsTypeOK
  BY AnyKeyIsKey, IdleTask, FactsAssumption DEF FactsInit, FactsTypeOK
<1>2. RowsWellFormed /\ IdsApart /\ NotYetAudited /\ ErasedIffAudited
  BY DEF FactsInit, RowsWellFormed, IdsApart, NotYetAudited, ErasedIffAudited, NoFact, NoId
<1>3. FramesWellFormed
  BY AnyKeyIsKey, IdleTask DEF FactsInit, FramesWellFormed, NoFact, NoId
<1>. QED  BY <1>1, <1>2, <1>3 DEF FactsInv

\* A step that changes no id, and no frame but to an idle one, keeps the invariant
LEMMA SameIds ==
    ASSUME FactsInv, facts' \in [FactKey -> FactRow],
           \A k \in FactKey : /\ facts'[k].id = facts[k].id
                              /\ facts'[k].id = NoId <=> facts'[k] = NoFact
                              /\ facts'[k].status = "retired" => facts'[k].id # NoId,
           UNCHANGED <<issued, audits>>,
           task' = task \/ \E c \in Caller : task' = [task EXCEPT ![c] = NoTask(AnyKey)]
    PROVE  FactsInv'
<1>. USE AnyKeyIsKey, IdleTask
<1>1. FactsTypeOK'
  BY DEF FactsInv, FactsTypeOK
<1>2. RowsWellFormed' /\ IdsApart'
  BY DEF FactsInv, RowsWellFormed, IdsApart
<1>3. FramesWellFormed'
  <2>1. \A c \in Caller : task'[c] = task[c] \/ task'[c] = NoTask(AnyKey)
    BY DEF FactsInv, FactsTypeOK
  <2>2. 0 <= issued
    BY FactsAssumption DEF FactsInv, FactsTypeOK
  <2>. QED  BY <2>1, <2>2 DEF FactsInv, FramesWellFormed, NoId
<1>4. NotYetAudited' /\ ErasedIffAudited'
  BY DEF FactsInv, NotYetAudited, ErasedIffAudited
<1>. QED  BY <1>1, <1>2, <1>3, <1>4 DEF FactsInv

\* Each step keeps the invariant, one case per action
LEMMA StepFactsInv == FactsInv /\ [FactsNext]_factVars => FactsInv'
<1>. SUFFICES ASSUME FactsInv, [FactsNext]_factVars PROVE FactsInv'
  OBVIOUS
<1>. USE AnyKeyIsKey, IdleTask, FactsAssumption DEF FactsInv, FactId
<1>a. /\ FactsTypeOK /\ RowsWellFormed /\ IdsApart /\ FramesWellFormed /\ NotYetAudited
      /\ ErasedIffAudited
  OBVIOUS
<1>1. ASSUME SweepExpiredFacts PROVE FactsInv'
  <2>1. /\ \A k \in FactKey : /\ facts'[k] \in FactRow /\ facts'[k].id = facts[k].id
                              /\ facts'[k].id = NoId <=> facts'[k] = NoFact
                              /\ facts'[k].status = "retired" => facts'[k].id # NoId
        /\ UNCHANGED <<issued, audits, task>>
        /\ facts' \in [FactKey -> FactRow]
    BY <1>1 DEF SweepExpiredFacts, FactsTypeOK, FactRow, RowsWellFormed, NoFact, NoId
  <2>. QED  BY <2>1, SameIds
<1>2. ASSUME NEW k \in FactKey, DeadlinePasses(k) PROVE FactsInv'
  <2>1. /\ \A l \in FactKey : /\ facts'[l] \in FactRow /\ facts'[l].id = facts[l].id
                              /\ facts'[l].id = NoId <=> facts'[l] = NoFact
                              /\ facts'[l].status = "retired" => facts'[l].id # NoId
        /\ UNCHANGED <<issued, audits, task>>
        /\ facts' \in [FactKey -> FactRow]
    BY <1>2 DEF DeadlinePasses, FactsTypeOK, FactRow, RowsWellFormed, NoFact, NoId
  <2>. QED  BY <2>1, SameIds
<1>3. ASSUME NEW c \in Caller, NEW k \in FactKey, LookUp(c, k) \/ FindFact(c, k) PROVE FactsInv'
  <2>1. PICK label \in {"store", "erase"} :
            /\ label = "erase" => facts[k] # NoFact
            /\ task' = [task EXCEPT ![c] = [pc |-> label, key |-> k, found |-> facts[k]]]
            /\ UNCHANGED <<facts, issued, audits>>
    BY <1>3 DEF LookUp, FindFact
  <2>2. FactsTypeOK'
    BY <2>1 DEF FactsTypeOK
  <2>3. FramesWellFormed'
    BY <2>1 DEF FactsTypeOK, FramesWellFormed, RowsWellFormed, IdsApart
  <2>. QED  BY <2>1, <2>2, <2>3 DEF RowsWellFormed, IdsApart, NotYetAudited, ErasedIffAudited
<1>4. ASSUME NEW c \in Caller, RestateFact(c) PROVE FactsInv'
  <2>1. task[c].key \in FactKey
    BY DEF FactsTypeOK
  <2>2. \A l \in FactKey : /\ facts'[l] \in FactRow /\ facts'[l].id = facts[l].id
                           /\ facts'[l].id = NoId <=> facts'[l] = NoFact
                           /\ facts'[l].status = "retired" => facts'[l].id # NoId
    BY <1>4, <2>1 DEF RestateFact, Restated, FactsTypeOK, FactRow, RowsWellFormed,
                      FramesWellFormed, NoFact, NoId
  <2>3. /\ facts' \in [FactKey -> FactRow] /\ UNCHANGED <<issued, audits>>
        /\ task' = [task EXCEPT ![c] = NoTask(AnyKey)]
    BY <1>4, <2>1, <2>2 DEF RestateFact, Finish, FactsTypeOK
  <2>. QED  BY <2>2, <2>3, SameIds
<1>5. ASSUME NEW c \in Caller, NEW ttl \in {"none", "ahead"}, InsertFact(c, ttl) PROVE FactsInv'
  <2>. DEFINE k == task[c].key
              row == [id |-> issued + 1, status |-> "active", ttl |-> ttl]
  <2>1. /\ k \in FactKey /\ facts[k] = NoFact /\ issued < MaxFacts /\ issued' = issued + 1
        /\ facts' = [facts EXCEPT ![k] = row] /\ UNCHANGED audits
        /\ task' = [task EXCEPT ![c] = NoTask(AnyKey)]
    BY <1>5 DEF InsertFact, Ours, Finish, FactsTypeOK
  <2>2. /\ issued \in Nat /\ issued + 1 \in FactId /\ row \in FactRow /\ row.id = issued + 1
        /\ row # NoFact /\ row.status = "active"
    BY <2>1 DEF FactsTypeOK, FactRow, NoFact, NoId
  <2>. HIDE DEF k, row
  <2>3. FactsTypeOK'
    BY <2>1, <2>2 DEF FactsTypeOK
  <2>4. RowsWellFormed'
    BY <2>1, <2>2 DEF FactsTypeOK, RowsWellFormed, FactRow, NoId
  <2>5. IdsApart'
    BY <2>1, <2>2 DEF FactsTypeOK, RowsWellFormed, IdsApart, FactRow, NoId
  <2>6. FramesWellFormed'
    BY <2>1, <2>2 DEF FactsTypeOK, FramesWellFormed, FactRow, NoId
  <2>7. NotYetAudited'
    BY <2>1, <2>2 DEF FactsTypeOK, NotYetAudited
  <2>8. ErasedIffAudited'
    <3>1. \A l \in FactKey : facts'[l].id = IF l = k THEN issued + 1 ELSE facts[l].id
      BY <2>1, <2>2 DEF FactsTypeOK
    <3>2. facts[k].id = 0 /\ \A l \in FactKey : facts[l].id <= issued /\ facts[l].id \in Nat
      BY <2>1, IdleTask DEF FactsTypeOK, RowsWellFormed, FactRow, NoId
    <3>3. ASSUME NEW i \in 1 .. issued PROVE audits'[i] > 0 <=> \A l \in FactKey : facts'[l].id # i
      BY <2>1, <2>2, <3>1, <3>2, <3>3 DEF ErasedIffAudited
    <3>4. audits[issued + 1] = 0
      BY <2>2 DEF NotYetAudited
    <3>5. ~(audits'[issued + 1] > 0) /\ facts'[k].id = issued + 1
      BY <2>1, <3>1, <3>4
    <3>6. \A i \in 1 .. issued' : i \in 1 .. issued \/ i = issued + 1
      BY <2>1, <2>2
    <3>. QED  BY <2>1, <3>3, <3>5, <3>6 DEF ErasedIffAudited
  <2>. QED  BY <2>3, <2>4, <2>5, <2>6, <2>7, <2>8
<1>6. ASSUME NEW c \in Caller, StoreFails(c) PROVE FactsInv'
  <2>1. /\ task' = [task EXCEPT ![c] = NoTask(AnyKey)] /\ UNCHANGED <<facts, issued, audits>>
    BY <1>6 DEF StoreFails, Finish
  <2>2. /\ facts' \in [FactKey -> FactRow]
        /\ \A k \in FactKey : /\ facts'[k].id = NoId <=> facts'[k] = NoFact
                              /\ facts'[k].status = "retired" => facts'[k].id # NoId
    BY <2>1 DEF FactsTypeOK, RowsWellFormed
  <2>. QED  BY <2>1, <2>2, SameIds
<1>7. ASSUME NEW c \in Caller, EraseFact(c) PROVE FactsInv'
  <2>. DEFINE k == task[c].key
              i == task[c].found.id
  <2>1. /\ k \in FactKey /\ i \in FactId /\ i <= issued
        /\ \A l \in FactKey : facts[l].id = i => l = k
    BY <1>7 DEF EraseFact, FactsTypeOK, FramesWellFormed, FactRow, NoId
  <2>2. /\ facts' = [facts EXCEPT ![k] = IF facts[k].id = i THEN NoFact ELSE facts[k]]
        /\ audits' = [audits EXCEPT ![i] = audits[i] + 1]
        /\ task' = [task EXCEPT ![c] = NoTask(AnyKey)] /\ UNCHANGED issued
    BY <1>7 DEF EraseFact, Finish
  <2>. HIDE DEF k, i
  <2>3. FactsTypeOK'
    BY <2>1, <2>2 DEF FactsTypeOK
  <2>4. RowsWellFormed' /\ IdsApart'
    BY <2>1, <2>2 DEF FactsTypeOK, RowsWellFormed, IdsApart, NoId, NoFact
  <2>5. FramesWellFormed'
    BY <2>1, <2>2 DEF FactsTypeOK, FramesWellFormed, NoId, NoFact
  <2>6. NotYetAudited'
    BY <2>1, <2>2 DEF FactsTypeOK, NotYetAudited
  <2>7. ErasedIffAudited'
    BY <2>1, <2>2 DEF FactsTypeOK, ErasedIffAudited, NoId, NoFact
  <2>. QED  BY <2>3, <2>4, <2>5, <2>6, <2>7
<1>8. CASE UNCHANGED factVars
  BY <1>8 DEF factVars, FactsTypeOK, RowsWellFormed, IdsApart, FramesWellFormed, NotYetAudited,
              ErasedIffAudited
<1>. QED  BY <1>1, <1>2, <1>3, <1>4, <1>5, <1>6, <1>7, <1>8 DEF FactsNext

LEMMA FactsInvariant == FactsSpec => []FactsInv
BY InitFactsInv, StepFactsInv, PTL DEF FactsSpec

\* The table and the frames keep their types, whatever the processes do.
THEOREM FactsTyped == FactsSpec => []FactsTypeOK
BY FactsInvariant, PTL DEF FactsInv

\* Erasing a fact and its audit row go together, and an erased row stays away,
\* for any number of processes storing and erasing it (hardDeleteFact, storeFact).
THEOREM ErasureIsAudited == FactsSpec => []ErasedIffAudited
BY FactsInvariant, PTL DEF FactsInv

\* One step never brings an expired row back into service
LEMMA StepKeepsRetired ==
    FactsInv /\ [FactsNext]_factVars =>
        \A k \in FactKey : facts[k].status = "retired" =>
            facts'[k].status = "retired" \/ facts'[k].id # facts[k].id
<1>. SUFFICES ASSUME FactsInv, [FactsNext]_factVars, NEW k \in FactKey,
                     facts[k].status = "retired"
              PROVE  facts'[k].status = "retired" \/ facts'[k].id # facts[k].id
  OBVIOUS
<1>1. /\ FactsTypeOK /\ facts[k] # NoFact /\ facts[k].id # NoId /\ facts[k] \in FactRow
  BY DEF FactsInv, FactsTypeOK, RowsWellFormed, NoFact
<1>2. ASSUME SweepExpiredFacts \/ \E l \in FactKey : DeadlinePasses(l)
      PROVE  facts'[k].status = "retired"
  BY <1>1, <1>2 DEF SweepExpiredFacts, DeadlinePasses, FactsTypeOK, FactRow
<1>3. ASSUME NEW c \in Caller, RestateFact(c) PROVE facts'[k].status = "retired"
  BY <1>1, <1>3 DEF RestateFact, Restated, FactsTypeOK, FactRow
<1>4. ASSUME NEW c \in Caller, NEW ttl \in {"none", "ahead"}, InsertFact(c, ttl)
      PROVE  facts'[k].status = "retired"
  BY <1>1, <1>4 DEF InsertFact, Ours, FactsTypeOK
<1>5. ASSUME NEW c \in Caller, EraseFact(c)
      PROVE  facts'[k].status = "retired" \/ facts'[k].id # facts[k].id
  BY <1>1, <1>5 DEF EraseFact, FactsTypeOK, NoFact
<1>6. ASSUME NEW c \in Caller,
             StoreFails(c) \/ \E l \in FactKey : LookUp(c, l) \/ FindFact(c, l)
      PROVE  facts'[k].status = "retired"
  BY <1>6 DEF StoreFails, LookUp, FindFact
<1>. QED  BY <1>2, <1>3, <1>4, <1>5, <1>6 DEF FactsNext, factVars

\* A fact past its deadline is out of service until its row is erased, though
\* hooks that looked it up before the sweep go on to restate it (storeFact,
\* sweepExpiredFacts).
THEOREM ExpiryIsFinal == FactsSpec => ExpiredStaysRetired
<1>1. FactsInv /\ [FactsNext]_factVars =>
        [\A k \in FactKey : facts[k].status = "retired" =>
            \/ facts'[k].status = "retired"
            \/ facts'[k].id # facts[k].id]_factVars
  BY StepKeepsRetired
<1>. QED  BY <1>1, FactsInvariant, PTL DEF FactsSpec, ExpiredStaysRetired

-----------------------------------------------------------------------------
(***************************************************************************)
(* The schema walker.  SchemaIsWhole speaks of three kinds of history, and  *)
(* each has an invariant of its own: a file walked by one process at a     *)
(* time carries exactly the tables of its number; an empty one is never    *)
(* walked step by step; and from version 7 on no step takes anything away, *)
(* so that the tables of every walker's number are there, although a slow   *)
(* walker may set the number back.                                         *)
(***************************************************************************)
Walking(p) == opener[p].pc = "walk"

WalkedAlone == ~shared =>
    /\ \A p, q \in Opener : Walking(p) /\ Walking(q) => p = q
    /\ \A p \in Opener : Walking(p) => opener[p].at = version
    /\ \A p \in Opener : opener[p].pc = "open" => version = Latest
    /\ has = 2 .. version /\ dropped = {}
    /\ "fact_id" \in held => version >= 2
    /\ "ttl_until_at" \in held => version >= 7

StartedEmpty == born = 0 =>
    /\ version \in {0, Latest} /\ has = 2 .. version /\ dropped = {}
    /\ \A p \in Opener : Walking(p) => opener[p].at = 0

StartedLate == born >= 7 =>
    /\ version >= 7 /\ 2 .. version \subseteq has /\ dropped = {}
    /\ \A p \in Opener : Walking(p) => opener[p].at >= 7 /\ 2 .. opener[p].at \subseteq has

SchemaInv ==
    /\ SchemaTypeOK
    /\ \A p \in Opener : Walking(p) => opener[p].at < Latest
    /\ WalkedAlone /\ StartedEmpty /\ StartedLate

LEMMA InitSchemaInv == SchemaInit => SchemaInv
<1>. SUFFICES ASSUME SchemaInit PROVE SchemaInv
  OBVIOUS
<1>. USE DEF Latest, Step
<1>1. \A p \in Opener : opener[p] = NotOpen
  BY DEF SchemaInit
<1>2. /\ "fact_id" \in held => version >= 2
      /\ "ttl_until_at" \in held => version >= 7
      /\ held \subseteq Column
  BY DEF SchemaInit, Column
<1>3. SchemaTypeOK
  <2>1. version \in 0 .. 15 /\ born \in 0 .. 15 /\ has \subseteq 2 .. 15
    BY DEF SchemaInit
  <2>2. dropped \subseteq Column /\ shared \in BOOLEAN
    BY DEF SchemaInit
  <2>3. opener \in [Opener -> [pc : {"closed", "walk", "open"}, at : 0 .. 15]]
    BY DEF SchemaInit, NotOpen
  <2>. QED  BY <1>2, <2>1, <2>2, <2>3 DEF SchemaTypeOK
<1>4. WalkedAlone
  BY <1>1, <1>2 DEF SchemaInit, WalkedAlone, Walking, NotOpen
<1>5. StartedEmpty /\ StartedLate
  BY <1>1 DEF SchemaInit, StartedEmpty, StartedLate, Walking, NotOpen
<1>. QED  BY <1>1, <1>3, <1>4, <1>5 DEF SchemaInv, Walking, NotOpen

LEMMA StepSchemaInv == SchemaInv /\ [SchemaNext]_schemaVars => SchemaInv'
<1>. SUFFICES ASSUME SchemaInv, [SchemaNext]_schemaVars PROVE SchemaInv'
  OBVIOUS
<1>. USE DEF SchemaInv, Walking, Latest
<1>1. ASSUME NEW p \in Opener, ReadVersion(p) PROVE SchemaInv'
  <2>1. SchemaTypeOK' /\ \A q \in Opener : Walking(q)' => opener'[q].at < Latest
    BY <1>1 DEF ReadVersion, SchemaTypeOK
  <2>2. WalkedAlone'
    BY <1>1 DEF ReadVersion, SchemaTypeOK, WalkedAlone
  <2>3. StartedEmpty' /\ StartedLate'
    BY <1>1 DEF ReadVersion, SchemaTypeOK, StartedEmpty, StartedLate
  <2>. QED  BY <2>1, <2>2, <2>3
<1>2. ASSUME NEW p \in Opener, FreshInit(p) PROVE SchemaInv'
  <2>1. SchemaTypeOK' /\ \A q \in Opener : Walking(q)' => opener'[q].at < Latest
    BY <1>2 DEF FreshInit, SchemaTypeOK
  <2>2. WalkedAlone'
    BY <1>2 DEF FreshInit, SchemaTypeOK, WalkedAlone, Step
  <2>3. StartedEmpty' /\ StartedLate'
    BY <1>2 DEF FreshInit, SchemaTypeOK, StartedEmpty, StartedLate, Step
  <2>. QED  BY <2>1, <2>2, <2>3
<1>3. ASSUME NEW p \in Opener, RunStep(p) PROVE SchemaInv'
  <2>. DEFINE v == opener[p].at + 1
  <2>1. /\ Walking(p) /\ opener[p].at \in 1 .. Latest - 1 /\ v \in Step
        /\ version' = v /\ has' = (has \ RebuiltWithout(v)) \cup {v}
        /\ dropped' = dropped \cup (Drops(v) \cap held)
        /\ opener' = [opener EXCEPT ![p] = [pc |-> IF v = Latest THEN "open" ELSE "walk",
                                            at |-> v]]
        /\ UNCHANGED <<held, born, shared>>
    BY <1>3 DEF RunStep, SchemaTypeOK, Step
  <2>. HIDE DEF v
  <2>2. SchemaTypeOK' /\ \A q \in Opener : Walking(q)' => opener'[q].at < Latest
    BY <2>1 DEF SchemaTypeOK, Step, Drops, Column
  <2>3. WalkedAlone'
    BY <2>1 DEF WalkedAlone, SchemaTypeOK, Step, RebuiltWithout, Drops, v
  <2>4. StartedEmpty' /\ StartedLate'
    BY <2>1 DEF StartedEmpty, StartedLate, SchemaTypeOK, Step, RebuiltWithout, Drops, v
  <2>. QED  BY <2>2, <2>3, <2>4
<1>4. ASSUME NEW p \in Opener, CloseStore(p) PROVE SchemaInv'
  BY <1>4 DEF CloseStore, NotOpen, SchemaTypeOK, WalkedAlone, StartedEmpty, StartedLate
<1>5. ASSUME NEW p \in Opener, NEW column \in Column, WriteRows(p, column) PROVE SchemaInv'
  BY <1>5 DEF WriteRows, SchemaTypeOK, WalkedAlone, StartedEmpty, StartedLate
<1>6. CASE UNCHANGED schemaVars
  BY <1>6 DEF schemaVars, SchemaTypeOK, WalkedAlone, StartedEmpty, StartedLate
<1>. QED  BY <1>1, <1>2, <1>3, <1>4, <1>5, <1>6 DEF SchemaNext

LEMMA SchemaInvariant == SchemaSpec => []SchemaInv
BY InitSchemaInv, StepSchemaInv, PTL DEF SchemaSpec

LEMMA SchemaInvIsEnough == SchemaInv => SchemaIsWhole
BY DEF SchemaInv, SchemaIsWhole, SchemaTypeOK, WalkedAlone, StartedEmpty, StartedLate, Runs,
       Bare, Latest

\* The number in the file is always one the walker knows.
THEOREM SchemaTyped == SchemaSpec => []SchemaTypeOK
BY SchemaInvariant, PTL DEF SchemaInv

\* The tables are those of the number in the file and the next step can run,
\* for any number of processes that open it, whichever of them is killed in
\* between (migrate of core/block-store.ts).
THEOREM SchemaStaysWhole == SchemaSpec => []SchemaIsWhole
BY SchemaInvariant, SchemaInvIsEnough, PTL

-----------------------------------------------------------------------------
(***************************************************************************)
(* The file memory.  What FilesBelow computes level by level is what a tree *)
(* is: the files of a directory are its own and those below its             *)
(* subdirectories.  The depth of a path, which the assumption of FileIndex  *)
(* gives, makes the levels enough.                                         *)
(***************************************************************************)
Path == File \cup Dir
Levels == Cardinality(Dir)
Depth == CHOOSE depth \in [Path -> 0 .. Levels] :
             \A x \in DOMAIN Parent : depth[x] = depth[Parent[x]] + 1

LEMMA DepthIs ==
    /\ Levels \in Nat /\ Levels # 0
    /\ \A x \in Path : Depth[x] \in Nat /\ Depth[x] <= Levels
    /\ \A d \in Dir : \A x \in Children(d) : x \in Path /\ Depth[x] = Depth[d] + 1
<1>1. Levels \in Nat /\ Levels # 0
  BY FileIndexAssumption, FS_CardinalityType, FS_EmptySet DEF Levels
<1>2. /\ Depth \in [Path -> 0 .. Levels]
      /\ \A x \in DOMAIN Parent : Depth[x] = Depth[Parent[x]] + 1
  BY FileIndexAssumption DEF Depth, Path, Levels
<1>3. ASSUME NEW x \in Path PROVE Depth[x] \in Nat /\ Depth[x] <= Levels
  BY <1>1, <1>2
<1>4. ASSUME NEW d \in Dir, NEW x \in Children(d) PROVE x \in Path /\ Depth[x] = Depth[d] + 1
  BY <1>2, FileIndexAssumption DEF Children, Path
<1>. QED  BY <1>1, <1>3, <1>4

\* The levels below a directory, one after the other
Wider(S) == S \cup UNION {Children(e) : e \in S \cap Dir}
Down(d, n, g) ==
    /\ DOMAIN g = 0 .. n /\ g[0] = {d}
    /\ \A i \in 1 .. n : g[i] = Wider(g[i - 1])

LEMMA DownExists ==
    ASSUME NEW d \in Dir
    PROVE  \E g : Down(d, Levels, g) /\ FilesBelow(d) = g[Levels] \cap File
<1>0. Levels \in Nat
  BY DepthIs
<1>. DEFINE S == {n \in Nat : \E g : Down(d, n, g)}
<1>1. 0 \in S
  <2>1. Down(d, 0, [i \in 0 .. 0 |-> {d}])
    BY DEF Down
  <2>. QED  BY <2>1
<1>2. ASSUME NEW n \in S PROVE n + 1 \in S
  <2>1. PICK g : Down(d, n, g)
    OBVIOUS
  <2>. DEFINE h == [i \in 0 .. n + 1 |-> IF i = n + 1 THEN Wider(g[n]) ELSE g[i]]
  <2>2. \A i \in 1 .. n + 1 : h[i] = Wider(h[i - 1])
    <3>1. TAKE i \in 1 .. n + 1
    <3>2. CASE i = n + 1
      BY <3>2
    <3>3. CASE i # n + 1
      <4>1. i \in 1 .. n /\ i - 1 \in 0 .. n
        BY <3>3
      <4>2. g[i] = Wider(g[i - 1])
        BY <2>1, <4>1 DEF Down
      <4>. QED  BY <3>3, <4>1, <4>2
    <3>. QED  BY <3>2, <3>3
  <2>3. Down(d, n + 1, h)
    BY <2>1, <2>2 DEF Down
  <2>. QED  BY <2>3
<1>. HIDE DEF S
<1>3. S = Nat
  BY <1>1, <1>2, SetOfNat DEF S
<1>4. PICK f : Down(d, Levels, f)
  BY <1>0, <1>3 DEF S
<1>. DEFINE Build(f1) == [n \in 0 .. Cardinality(Dir) |->
                 IF n = 0 THEN {d}
                 ELSE f1[n - 1] \cup UNION {Children(e) : e \in f1[n - 1] \cap Dir}]
            down == CHOOSE f1 : f1 = Build(f1)
<1>5. PICK g : g = [i \in DOMAIN f |-> f[i]]
  OBVIOUS
<1>6. g = Build(g)
  BY <1>0, <1>4, <1>5 DEF Down, Wider, Levels
<1>7. down = Build(down)
  BY <1>6
<1>8. FilesBelow(d) = down[Levels] \cap File
  BY DEF FilesBelow, Levels
<1>. HIDE DEF down
<1>9. DOMAIN down = 0 .. Levels /\ \A n \in 0 .. Levels : down[n] = Build(down)[n]
  BY <1>7 DEF Levels
<1>10. down[0] = {d} /\ \A n \in 1 .. Levels : down[n] = Wider(down[n - 1])
  BY <1>0, <1>9 DEF Wider, Levels
<1>11. Down(d, Levels, down)
  BY <1>9, <1>10 DEF Down
<1>. QED  BY <1>8, <1>11

LEMMA DownStarts ==
    ASSUME NEW d, NEW m \in Nat, m # 0, NEW g, Down(d, m, g)
    PROVE  g[0] = {d} /\ g[1] = Wider({d})
<1>1. g[1] = Wider(g[1 - 1])
  BY DEF Down
<1>2. 1 - 1 = 0
  OBVIOUS
<1>. QED  BY <1>1, <1>2 DEF Down

LEMMA DownGrows ==
    ASSUME NEW d \in Dir, NEW m \in Nat, NEW g, Down(d, m, g),
           NEW i \in 0 .. m, NEW j \in 0 .. m, i <= j
    PROVE  g[i] \subseteq g[j]
<1>. DEFINE S == {n \in Nat : i + n <= m => g[i] \subseteq g[i + n]}
<1>1. 0 \in S
  OBVIOUS
<1>2. ASSUME NEW n \in S PROVE n + 1 \in S
  <2>1. SUFFICES ASSUME i + (n + 1) <= m PROVE g[i] \subseteq g[i + (n + 1)]
    OBVIOUS
  <2>2. i + n <= m /\ i + (n + 1) \in 1 .. m /\ (i + (n + 1)) - 1 = i + n
    BY <2>1
  <2>3. g[i + (n + 1)] = Wider(g[i + n])
    BY <2>2 DEF Down
  <2>. QED  BY <1>2, <2>2, <2>3 DEF Wider
<1>. HIDE DEF S
<1>3. S = Nat
  BY <1>1, <1>2, SetOfNat DEF S
<1>4. PICK k \in Nat : j = i + k
  <2>1. j - i \in Nat /\ j = i + (j - i)
    OBVIOUS
  <2>. QED  BY <2>1
<1>5. k \in S /\ i + k <= m
  BY <1>3, <1>4
<1>. QED  BY <1>4, <1>5 DEF S

\* What lies below lies deeper
LEMMA DownIsDeeper ==
    ASSUME NEW d \in Dir, NEW m \in Nat, NEW g, Down(d, m, g)
    PROVE  \A n \in 0 .. m : \A x \in g[n] : x \in Path /\ Depth[x] >= Depth[d]
<1>. DEFINE S == {n \in Nat : n <= m => \A x \in g[n] : x \in Path /\ Depth[x] >= Depth[d]}
<1>0. Depth[d] \in Nat /\ d \in Path
  BY DepthIs DEF Path
<1>1. 0 \in S
  BY <1>0 DEF Down
<1>2. ASSUME NEW n \in S PROVE n + 1 \in S
  <2>1. SUFFICES ASSUME n + 1 <= m, NEW x \in g[n + 1]
                 PROVE  x \in Path /\ Depth[x] >= Depth[d]
    OBVIOUS
  <2>2. \A y \in g[n] : y \in Path /\ Depth[y] >= Depth[d]
    BY <1>2, <2>1
  <2>3. g[n + 1] = Wider(g[n])
    BY <2>1 DEF Down
  <2>4. CASE x \in g[n]
    BY <2>2, <2>4
  <2>5. CASE x \notin g[n]
    <3>1. PICK e \in g[n] \cap Dir : x \in Children(e)
      BY <2>1, <2>3, <2>5 DEF Wider
    <3>2. x \in Path /\ Depth[x] = Depth[e] + 1 /\ Depth[e] >= Depth[d] /\ Depth[e] \in Nat
      BY <2>2, <3>1, DepthIs
    <3>. QED  BY <1>0, <3>2
  <2>. QED  BY <2>4, <2>5
<1>. HIDE DEF S
<1>3. S = Nat
  BY <1>1, <1>2, SetOfNat DEF S
<1>. QED  BY <1>3 DEF S

\* A path is found at the level its depth gives it
LEMMA DownByDepth ==
    ASSUME NEW d \in Dir, NEW m \in Nat, NEW g, Down(d, m, g)
    PROVE  \A n \in 0 .. m : \A x \in g[n] : \A k \in 0 .. m :
               Depth[x] <= Depth[d] + k => x \in g[k]
<1>. DEFINE S == {n \in Nat : n <= m => \A x \in g[n] : \A k \in 0 .. m :
                                Depth[x] <= Depth[d] + k => x \in g[k]}
<1>0. Depth[d] \in Nat
  BY DepthIs DEF Path
<1>1. 0 \in S
  <2>1. SUFFICES ASSUME NEW k \in 0 .. m PROVE d \in g[k]
    BY DEF Down
  <2>. QED  BY DownGrows DEF Down
<1>2. ASSUME NEW n \in S PROVE n + 1 \in S
  <2>1. SUFFICES ASSUME n + 1 <= m, NEW x \in g[n + 1], NEW k \in 0 .. m,
                        Depth[x] <= Depth[d] + k
                 PROVE  x \in g[k]
    OBVIOUS
  <2>2. \A y \in g[n] : \A l \in 0 .. m : Depth[y] <= Depth[d] + l => y \in g[l]
    BY <1>2, <2>1
  <2>3. g[n + 1] = Wider(g[n])
    BY <2>1 DEF Down
  <2>4. CASE x \in g[n]
    BY <2>1, <2>2, <2>4
  <2>5. CASE x \notin g[n]
    <3>1. PICK e \in g[n] \cap Dir : x \in Children(e)
      BY <2>1, <2>3, <2>5 DEF Wider
    <3>2. n \in 0 .. m
      BY <2>1
    <3>3. Depth[x] = Depth[e] + 1 /\ Depth[e] >= Depth[d] /\ Depth[e] \in Nat
      BY <3>1, <3>2, DepthIs, DownIsDeeper DEF Path
    <3>4. k # 0 /\ k - 1 \in 0 .. m /\ Depth[e] <= Depth[d] + (k - 1)
      BY <1>0, <2>1, <3>3
    <3>5. e \in g[k - 1]
      BY <2>2, <3>1, <3>4
    <3>6. g[k] = Wider(g[k - 1])
      <4>1. k \in 1 .. m
        BY <2>1, <3>4
      <4>2. \A i \in 1 .. m : g[i] = Wider(g[i - 1])
        BY DEF Down
      <4>. QED  BY <4>1, <4>2
    <3>. QED  BY <3>1, <3>5, <3>6 DEF Wider
  <2>. QED  BY <2>4, <2>5
<1>. HIDE DEF S
<1>3. S = Nat
  BY <1>1, <1>2, SetOfNat DEF S
<1>. QED  BY <1>3 DEF S

LEMMA OwnFiles ==
    ASSUME NEW d \in Dir, NEW f \in File, f \in Children(d)
    PROVE  f \in FilesBelow(d)
<1>0. Levels \in Nat /\ Levels # 0
  BY DepthIs
<1>1. PICK g : Down(d, Levels, g) /\ FilesBelow(d) = g[Levels] \cap File
  BY DownExists
<1>2. g[1] = Wider({d})
  BY <1>0, <1>1, DownStarts
<1>3. f \in g[1]
  BY <1>2 DEF Wider
<1>4. g[1] \subseteq g[Levels]
  BY <1>0, <1>1, DownGrows
<1>. QED  BY <1>1, <1>3, <1>4

LEMMA FilesOfSubdirectory ==
    ASSUME NEW d \in Dir, NEW c \in Dir, c \in Children(d)
    PROVE  FilesBelow(c) \subseteq FilesBelow(d)
<1>0. Levels \in Nat /\ Levels # 0 /\ Depth[d] \in Nat
  BY DepthIs DEF Path
<1>1. PICK g : Down(d, Levels, g) /\ FilesBelow(d) = g[Levels] \cap File
  BY DownExists
<1>2. PICK h : Down(c, Levels, h) /\ FilesBelow(c) = h[Levels] \cap File
  BY DownExists
<1>. DEFINE S == {n \in Nat : n <= Levels => h[n] \subseteq g[Levels]}
<1>3. 0 \in S
  <2>1. g[1] = Wider({d}) /\ h[0] = {c}
    BY <1>0, <1>1, <1>2, DownStarts
  <2>2. c \in g[1]
    BY <2>1 DEF Wider
  <2>3. g[1] \subseteq g[Levels]
    BY <1>0, <1>1, DownGrows
  <2>. QED  BY <2>1, <2>2, <2>3
<1>4. ASSUME NEW n \in S PROVE n + 1 \in S
  <2>1. SUFFICES ASSUME n + 1 <= Levels, NEW x \in h[n + 1] PROVE x \in g[Levels]
    OBVIOUS
  <2>2. h[n] \subseteq g[Levels]
    BY <1>0, <1>4, <2>1
  <2>3. h[n + 1] = Wider(h[n])
    BY <1>0, <1>2, <2>1 DEF Down
  <2>4. CASE x \in h[n]
    BY <2>2, <2>4
  <2>5. CASE x \notin h[n]
    <3>1. PICK e \in h[n] \cap Dir : x \in Children(e)
      BY <2>1, <2>3, <2>5 DEF Wider
    <3>2. Depth[x] = Depth[e] + 1 /\ Depth[e] \in Nat /\ Depth[x] <= Levels
      BY <3>1, DepthIs DEF Path
    <3>3. Depth[e] <= Depth[d] + (Levels - 1) /\ Levels - 1 \in 0 .. Levels
      BY <1>0, <3>2
    <3>4. e \in g[Levels]
      BY <2>2, <3>1
    <3>5. e \in g[Levels - 1]
      BY <1>0, <1>1, <3>3, <3>4, DownByDepth
    <3>6. g[Levels] = Wider(g[Levels - 1])
      BY <1>0, <1>1 DEF Down
    <3>. QED  BY <3>1, <3>5, <3>6 DEF Wider
  <2>. QED  BY <2>4, <2>5
<1>. HIDE DEF S
<1>5. S = Nat
  BY <1>3, <1>4, SetOfNat DEF S
<1>6. h[Levels] \subseteq g[Levels]
  BY <1>0, <1>5 DEF S
<1>. QED  BY <1>1, <1>2, <1>6

LEMMA FilesAreBelow ==
    ASSUME NEW d \in Dir, NEW f \in FilesBelow(d)
    PROVE  /\ f \in File
           /\ f \in Children(d) \/ \E c \in Children(d) \cap Dir : f \in FilesBelow(c)
<1>0. Levels \in Nat
  BY DepthIs
<1>1. PICK g : Down(d, Levels, g) /\ FilesBelow(d) = g[Levels] \cap File
  BY DownExists
<1>. DEFINE Via(x, n) ==
                \/ x = d \/ x \in Children(d)
                \/ \E c \in Children(d) \cap Dir : \E h :
                       Down(c, Levels, h) /\ FilesBelow(c) = h[Levels] \cap File /\ x \in h[n]
            S == {n \in Nat : n <= Levels => \A x \in g[n] : Via(x, n)}
<1>2. 0 \in S
  BY <1>1 DEF Down
<1>3. ASSUME NEW n \in S PROVE n + 1 \in S
  <2>1. SUFFICES ASSUME n + 1 <= Levels, NEW x \in g[n + 1] PROVE Via(x, n + 1)
    OBVIOUS
  <2>2. \A y \in g[n] : Via(y, n)
    BY <1>0, <1>3, <2>1
  <2>3. g[n + 1] = Wider(g[n])
    BY <1>0, <1>1, <2>1 DEF Down
  <2>4. ASSUME NEW c \in Children(d) \cap Dir, NEW h, Down(c, Levels, h)
        PROVE  h[n + 1] = Wider(h[n])
    BY <1>0, <2>1, <2>4 DEF Down
  <2>5. CASE x \in g[n]
    <3>1. CASE x = d \/ x \in Children(d)
      BY <3>1
    <3>2. ASSUME NEW c \in Children(d) \cap Dir, NEW h,
                 Down(c, Levels, h), FilesBelow(c) = h[Levels] \cap File, x \in h[n]
          PROVE  Via(x, n + 1)
      <4>1. x \in h[n + 1]
        BY <2>4, <3>2 DEF Wider
      <4>. QED  BY <3>2, <4>1
    <3>. QED  BY <2>2, <2>5, <3>1, <3>2
  <2>6. CASE x \notin g[n]
    <3>1. PICK e \in g[n] \cap Dir : x \in Children(e)
      BY <2>1, <2>3, <2>6 DEF Wider
    <3>2. CASE e = d
      BY <3>1, <3>2
    <3>3. CASE e \in Children(d)
      <4>1. PICK h : Down(e, Levels, h) /\ FilesBelow(e) = h[Levels] \cap File
        BY <3>1, DownExists
      <4>2. h[1] = Wider({e})
        <5>1. Levels # 0
          BY <1>0, <2>1
        <5>. QED  BY <1>0, <4>1, <5>1, DownStarts
      <4>3. x \in h[1]
        BY <3>1, <4>2 DEF Wider
      <4>4. h[1] \subseteq h[n + 1]
        BY <1>0, <2>1, <3>1, <4>1, DownGrows
      <4>. QED  BY <3>1, <3>3, <4>1, <4>3, <4>4
    <3>4. ASSUME NEW c \in Children(d) \cap Dir, NEW h,
                 Down(c, Levels, h), FilesBelow(c) = h[Levels] \cap File, e \in h[n]
          PROVE  Via(x, n + 1)
      <4>1. x \in h[n + 1]
        BY <2>4, <3>1, <3>4 DEF Wider
      <4>. QED  BY <3>4, <4>1
    <3>. QED  BY <2>2, <3>1, <3>2, <3>3, <3>4
  <2>. QED  BY <2>5, <2>6
<1>. HIDE DEF S
<1>4. S = Nat
  BY <1>2, <1>3, SetOfNat DEF S
<1>5. f \in File /\ f \in g[Levels]
  BY <1>1
<1>6. Via(f, Levels)
  BY <1>0, <1>4, <1>5 DEF S
<1>7. f # d
  BY <1>5, FileIndexAssumption
<1>8. CASE f \in Children(d)
  BY <1>5, <1>8
<1>9. ASSUME NEW c \in Children(d) \cap Dir, NEW h,
             FilesBelow(c) = h[Levels] \cap File, f \in h[Levels]
      PROVE  f \in FilesBelow(c)
  BY <1>5, <1>9
<1>. QED  BY <1>5, <1>6, <1>7, <1>8, <1>9

-----------------------------------------------------------------------------
(***************************************************************************)
(* Nothing else is forgotten.  While a process drains a directory row, that *)
(* row is no protection: it will drop it.  Each file below it is Kept, or   *)
(* led to by a row that lies deeper, or still in the hands of the process:  *)
(* ahead of its walk, read, or to be queued (Handled).  "Deeper" is what    *)
(* keeps two processes from each relying on the row the other will drop.    *)
(* What a process has read is what the disk holds, or the file is lost      *)
(* (Reads), so that whoever writes a row writes the truth.                  *)
(***************************************************************************)
In(s) == {s[i] : i \in DOMAIN s}

Kept(f) == index[f] = disk[f] \/ f \in due \/ disk[f] \in Refused \cup {Gone}
LeadsTo(rows, f, n) ==
    \/ FileRow(f) \in rows
    \/ \E d \in Dir : DirRow(d) \in rows /\ f \in FilesBelow(d) /\ Depth[d] >= n
Ahead(r, f) ==
    \/ f \in r.entries
    \/ \E d \in (r.entries \cap Dir) \cup In(r.todo) : f \in FilesBelow(d)

Carrying == {"walk", "persist", "write", "unqueue"}
Handled(r, f) ==
    \/ Kept(f) \/ LeadsTo(queue, f, Depth[r.from] + 1)
    \/ r.pc \in Carrying /\ (f \in Names(r.read) \/ LeadsTo(r.again, f, Depth[r.from] + 1))
    \/ r.pc = "walk" /\ Ahead(r, f)
    \/ r.pc = "write" /\ f = r.at
Draining(r) == r.from # Gone /\ r.pc \in Carrying \cup {"drop"}

UpTo(d, from) == d = from \/ Depth[d] >= Depth[from] + 1
Walks(r) ==
    /\ r.pc # "walk" => r.entries = {}
    /\ r.entries # {} => r.entries \subseteq Children(r.cur)
    /\ r.pc = "walk" /\ r.from # Gone =>
        /\ \A d \in In(r.todo) : UpTo(d, r.from)
        /\ r.entries # {} => UpTo(r.cur, r.from)

Current(f, ver) == f \in lost \/ disk[f] = ver
Reads(r) ==
    /\ \A e \in In(r.read) : Current(e.file, e.ver)
    /\ r.pc \in {"write", "write1"} =>
        /\ r.at \in File /\ Current(r.at, r.ver)
        /\ r.at \in lost \/ r.old # disk[r.at] \/ index[r.at] = disk[r.at]
    /\ r.pc = "unqueue" => r.at \in File /\ (r.at \in lost \/ index[r.at] = disk[r.at])
    /\ r.pc = "drop1" => r.at \in File /\ (r.at \in lost \/ index[r.at] = disk[r.at]
                                            \/ disk[r.at] \in Refused \cup {Gone})

Accounts(r) ==
    /\ Walks(r) /\ Reads(r)
    /\ Draining(r) => \A f \in FilesBelow(r.from) \ lost : Handled(r, f)

Reading == [file : File, ver : Version]
WalkFrame == [pc : WalkLabel, from : Dir \cup {Gone}, dirs : SUBSET Dir, rows : SUBSET File,
              todo : Seq(Dir), cur : Dir, entries : SUBSET Path, read : Seq(Reading),
              again : SUBSET Row, at : File \cup {Gone}, ver : Maybe, old : Maybe]
TablesTyped ==
    /\ disk \in [File -> Maybe] /\ index \in [File -> Maybe \ Refused]
    /\ queue \subseteq Row /\ due \subseteq File /\ lost \subseteq File

IndexInv ==
    /\ TablesTyped /\ walk \in [Walker -> WalkFrame] /\ NothingElseForgotten
    /\ \A p \in Walker : Accounts(walk[p])

-----------------------------------------------------------------------------
LEMMA InAppend ==
    ASSUME NEW T, NEW s \in Seq(T), NEW e \in T
    PROVE  In(Append(s, e)) = In(s) \cup {e} /\ Append(s, e) \in Seq(T)
<1>. DEFINE t == Append(s, e)
<1>1. /\ t \in Seq(T) /\ DOMAIN t = 1 .. Len(s) + 1 /\ DOMAIN s = 1 .. Len(s)
      /\ \A i \in 1 .. Len(s) : t[i] = s[i]
      /\ t[Len(s) + 1] = e /\ Len(s) \in Nat
  BY AppendProperties
<1>. HIDE DEF t
<1>. QED  BY <1>1 DEF In, t

LEMMA InTail ==
    ASSUME NEW T, NEW s \in Seq(T), s # << >>
    PROVE  /\ Head(s) \in T /\ Head(s) \in In(s) /\ Tail(s) \in Seq(T)
           /\ In(Tail(s)) \subseteq In(s) /\ In(s) = {Head(s)} \cup In(Tail(s))
<1>1. Len(s) \in Nat /\ Len(s) >= 1 /\ DOMAIN s = 1 .. Len(s) /\ Head(s) = s[1] /\ s[1] \in T
  BY EmptySeq
<1>2. /\ Tail(s) \in Seq(T) /\ DOMAIN Tail(s) = 1 .. Len(s) - 1
      /\ \A i \in 1 .. Len(s) - 1 : Tail(s)[i] = s[i + 1]
  BY <1>1, HeadTailProperties
<1>3. ASSUME NEW i \in DOMAIN Tail(s) PROVE Tail(s)[i] \in In(s)
  BY <1>1, <1>2 DEF In
<1>4. ASSUME NEW i \in DOMAIN s, i # 1 PROVE s[i] \in In(Tail(s))
  <2>1. i - 1 \in DOMAIN Tail(s) /\ Tail(s)[i - 1] = s[i]
    BY <1>1, <1>2, <1>4
  <2>. QED  BY <2>1 DEF In
<1>5. In(Tail(s)) \subseteq In(s)
  BY <1>3 DEF In
<1>6. In(s) \subseteq {Head(s)} \cup In(Tail(s))
  BY <1>1, <1>4 DEF In
<1>7. Head(s) \in In(s)
  BY <1>1 DEF In
<1>. QED  BY <1>1, <1>2, <1>5, <1>6, <1>7

LEMMA InEmpty == In(<< >>) = {} /\ Names(<< >>) = {}
BY DEF In, Names

LEMMA InOne == ASSUME NEW x PROVE In(<<x>>) = {x}
BY DEF In

LEMMA NamesIn == ASSUME NEW s PROVE Names(s) = {e.file : e \in In(s)}
BY DEF Names, In

LEMMA QueuedIs ==
    ASSUME NEW f \in File
    PROVE  /\ Queued(f) <=> LeadsTo(queue, f, 0)
           /\ Queued(f)' <=> LeadsTo(queue', f, 0)
<1>1. \A d \in Dir : Depth[d] >= 0
  BY DepthIs DEF Path
<1>. QED  BY <1>1 DEF Queued, LeadsTo

\* What a step leaves of the protection of every file that it does not lose
Steady ==
    /\ lost \subseteq lost'
    /\ \A f \in File \ lost' :
        /\ index'[f] \in {index[f], disk'[f]}
        /\ Kept(f) => Kept(f)' \/ FileRow(f) \in queue'
        /\ \A n \in Nat : LeadsTo(queue, f, n) => Kept(f)' \/ LeadsTo(queue', f, n)
Unedited(r) == \A f \in ((Names(r.read) \cup {r.at}) \cap File) \ lost' : disk'[f] = disk[f]

LEMMA Undisturbed ==
    ASSUME Steady, NEW r \in WalkFrame, Accounts(r), Unedited(r)
    PROVE  Accounts(r)'
<1>1. Walks(r)'
  BY DEF Accounts, Walks, UpTo
<1>2. Reads(r)'
  <2>1. ASSUME NEW e \in In(r.read) PROVE Current(e.file, e.ver)'
    <3>1. e.file \in Names(r.read) /\ e \in Reading
      BY NamesIn DEF WalkFrame, In
    <3>2. e.file \in File
      BY <3>1 DEF Reading
    <3>. QED  BY <3>1, <3>2 DEF Accounts, Reads, Current, Unedited, Steady
  <2>2. ASSUME r.pc \in {"write", "write1", "unqueue", "drop1"}, r.at \notin lost'
        PROVE  /\ r.at \in File \ lost' /\ r.at \notin lost /\ disk'[r.at] = disk[r.at]
               /\ index'[r.at] \in {index[r.at], disk'[r.at]}
    BY <2>2 DEF Accounts, Reads, Unedited, Steady
  <2>3. r.pc \in {"write", "write1", "unqueue", "drop1"} => r.at \in File
    BY DEF Accounts, Reads
  <2>. QED  BY <2>1, <2>2, <2>3 DEF Accounts, Reads, Current
<1>3. ASSUME Draining(r), NEW f \in FilesBelow(r.from) \ lost' PROVE Handled(r, f)'
  <2>1. r.from \in Dir /\ Depth[r.from] + 1 \in Nat
    BY <1>3, DepthIs DEF Draining, WalkFrame, Path
  <2>2. f \in File \ lost'
    BY <2>1, FilesAreBelow
  <2>3. Handled(r, f)
    BY <1>3, <2>2 DEF Accounts, Steady
  <2>4. CASE Kept(f)
    BY <2>2, <2>4 DEF Steady, Handled, LeadsTo
  <2>5. CASE LeadsTo(queue, f, Depth[r.from] + 1)
    BY <2>1, <2>2, <2>5 DEF Steady, Handled
  <2>6. CASE /\ ~Kept(f) /\ ~LeadsTo(queue, f, Depth[r.from] + 1)
    BY <2>3, <2>6 DEF Handled, LeadsTo, Ahead
  <2>. QED  BY <2>4, <2>5, <2>6
<1>. QED  BY <1>1, <1>2, <1>3 DEF Accounts, Draining

LEMMA SetMoves ==
    ASSUME walk \in [Walker -> WalkFrame], NEW p \in Walker, NEW r \in WalkFrame, Set(p, r)
    PROVE  /\ walk' \in [Walker -> WalkFrame] /\ walk'[p] = r
           /\ \A q \in Walker : q # p => walk'[q] = walk[q]
BY DEF Set

LEMMA StillRemembered ==
    ASSUME NothingElseForgotten, Steady
    PROVE  NothingElseForgotten'
<1>1. SUFFICES ASSUME NEW f \in File \ lost'
               PROVE  Kept(f)' \/ Queued(f)'
  BY DEF NothingElseForgotten, Kept
<1>2. Kept(f) \/ Queued(f)
  BY DEF NothingElseForgotten, Kept, Steady
<1>3. CASE Kept(f)
  BY <1>3, QueuedIs DEF Steady, LeadsTo
<1>4. CASE Queued(f)
  BY <1>4, QueuedIs DEF Steady
<1>. QED  BY <1>2, <1>3, <1>4

\* A step of one process
LEMMA IndexMoves ==
    ASSUME IndexInv, NEW p \in Walker, NEW r \in WalkFrame, Set(p, r), UNCHANGED disk,
           TablesTyped', Steady, Accounts(r)'
    PROVE  IndexInv'
<1>1. /\ walk' \in [Walker -> WalkFrame] /\ walk'[p] = r
      /\ \A q \in Walker : q # p => walk'[q] = walk[q]
  BY SetMoves DEF IndexInv
<1>2. NothingElseForgotten'
  BY StillRemembered DEF IndexInv
<1>3. ASSUME NEW q \in Walker PROVE Accounts(walk[q])'
  <2>1. PICK s : s = walk'[q]
    OBVIOUS
  <2>2. CASE q = p
    BY <1>1, <2>2
  <2>3. CASE q # p
    <3>1. s \in WalkFrame /\ Accounts(s) /\ Unedited(s)
      BY <1>1, <2>1, <2>3 DEF IndexInv, Unedited
    <3>. QED  BY <2>1, <3>1, Undisturbed DEF Accounts, Walks, Reads, Draining, Handled
  <2>. QED  BY <2>2, <2>3
<1>. QED  BY <1>1, <1>2, <1>3 DEF IndexInv

\* ... that leaves the tables alone
LEMMA QuietStep ==
    ASSUME IndexInv, NEW p \in Walker, NEW r \in WalkFrame, Set(p, r), Accounts(r),
           UNCHANGED <<disk, index, queue, due, lost>>
    PROVE  IndexInv'
<1>1. TablesTyped'
  BY DEF IndexInv, TablesTyped
<1>2. Steady
  BY DEF Steady, Kept
<1>3. Unedited(r)
  BY DEF Unedited
<1>4. Accounts(r)'
  BY <1>2, <1>3, Undisturbed
<1>. QED  BY <1>1, <1>2, <1>4, IndexMoves

LEMMA NoWalkTyped ==
    /\ NoWalk \in WalkFrame /\ NoWalk.pc = "idle" /\ NoWalk.from = Gone
    /\ NoWalk.entries = {} /\ NoWalk.read = << >>
<1>1. << >> \in Seq(Dir) /\ << >> \in Seq(Reading) /\ Root \in Dir
  BY FileIndexAssumption
<1>. QED  BY <1>1 DEF NoWalk, WalkFrame, WalkLabel, Maybe

\* A process that holds nothing
LEMMA RestAccounts ==
    ASSUME NEW r, r.pc \in {"idle", "dirs", "files"}, r.entries = {},
           \A e \in In(r.read) : Current(e.file, e.ver)
    PROVE  Accounts(r)
BY DEF Accounts, Walks, Reads, Draining, Carrying

LEMMA NoWalkAccounts == Accounts(NoWalk) /\ Accounts(NoWalk)'
<1>1. Accounts(NoWalk)
  BY NoWalkTyped, InEmpty, RestAccounts
<1>2. Accounts(NoWalk)'
  BY NoWalkTyped, InEmpty DEF Accounts, Walks, Reads, Draining, Carrying
<1>. QED  BY <1>1, <1>2

LEMMA FrameIs ==
    ASSUME IndexInv, NEW p \in Walker
    PROVE  /\ Fr(p) \in WalkFrame /\ Accounts(Fr(p)) /\ Fr(p) = walk[p]
           /\ \A e \in In(Fr(p).read) : e \in Reading /\ Current(e.file, e.ver)
           /\ Fr(p).pc # "walk" => Fr(p).entries = {}
<1>1. walk[p] \in WalkFrame /\ Accounts(walk[p])
  BY DEF IndexInv
<1>. QED  BY <1>1 DEF Fr, Accounts, Reads, Walks, WalkFrame, In

-----------------------------------------------------------------------------
(* The walk *)

LEMMA FullWalkKeeps ==
    ASSUME IndexInv, NEW p \in Walker, FullWalk(p)
    PROVE  IndexInv'
<1>0. Fr(p) \in WalkFrame
  BY FrameIs
<1>1. <<Root>> \in Seq(Dir) /\ << >> \in Seq(Reading)
  BY FileIndexAssumption
<1>2. PICK r \in WalkFrame : /\ Set(p, r) /\ r.pc = "walk" /\ r.from = Gone
                             /\ r.entries = {} /\ r.read = << >>
  <2>. DEFINE r == [Fr(p) EXCEPT !.pc = "walk", !.from = Gone, !.entries = {}, !.read = << >>,
                                 !.again = {}, !.todo = <<Root>>]
  <2>1. Set(p, r)
    BY DEF FullWalk, Begin
  <2>2. r \in WalkFrame /\ r.pc = "walk" /\ r.from = Gone /\ r.entries = {} /\ r.read = << >>
    BY <1>0, <1>1 DEF WalkFrame, WalkLabel
  <2>. QED  BY <2>1, <2>2
<1>3. Accounts(r)
  BY <1>2, InEmpty DEF Accounts, Walks, Reads, Draining
<1>. QED  BY <1>2, <1>3, QuietStep DEF FullWalk

\* The files of the directory entered are among its entries, or below one
LEMMA EnterKeeps ==
    ASSUME IndexInv, NEW p \in Walker, Enter(p)
    PROVE  IndexInv'
<1>0. Fr(p) \in WalkFrame /\ Accounts(Fr(p)) /\ Fr(p).pc = "walk" /\ Fr(p).todo # << >>
      /\ Fr(p).entries = {}
  BY FrameIs DEF Enter
<1>. DEFINE d == Head(Fr(p).todo)
<1>1. Fr(p).todo \in Seq(Dir)
  BY <1>0 DEF WalkFrame
<1>2. /\ d \in Dir /\ d \in In(Fr(p).todo) /\ Tail(Fr(p).todo) \in Seq(Dir)
      /\ In(Fr(p).todo) = {d} \cup In(Tail(Fr(p).todo))
  BY <1>0, <1>1, InTail
<1>3. Children(d) \in SUBSET Path
  BY <1>2, DepthIs
<1>4. PICK r \in WalkFrame :
          /\ Set(p, r) /\ r.pc = "walk" /\ r.from = Fr(p).from /\ r.read = Fr(p).read
          /\ r.again = Fr(p).again /\ r.cur = d /\ r.entries = Children(d)
          /\ r.todo = Tail(Fr(p).todo)
  <2>. DEFINE r == [Fr(p) EXCEPT !.cur = d, !.todo = Tail(@), !.entries = Children(d)]
  <2>1. Set(p, r)
    BY DEF Enter
  <2>. HIDE DEF d
  <2>2. /\ r \in WalkFrame /\ r.pc = "walk" /\ r.from = Fr(p).from /\ r.read = Fr(p).read
        /\ r.again = Fr(p).again /\ r.cur = d /\ r.entries = Children(d)
        /\ r.todo = Tail(Fr(p).todo)
    BY <1>0, <1>2, <1>3 DEF WalkFrame
  <2>. QED  BY <2>1, <2>2
<1>. HIDE DEF d
<1>5. Walks(r)
  <2>1. Fr(p).from # Gone => \A e \in In(Fr(p).todo) : UpTo(e, Fr(p).from)
    BY <1>0 DEF Accounts, Walks
  <2>. QED  BY <1>2, <1>4, <2>1 DEF Walks
<1>6. Reads(r)
  BY <1>0, <1>4 DEF Accounts, Reads
<1>7. ASSUME Draining(r), NEW f \in FilesBelow(r.from) \ lost PROVE Handled(r, f)
  <2>1. Handled(Fr(p), f)
    BY <1>0, <1>4, <1>7 DEF Accounts, Draining
  <2>2. CASE Ahead(Fr(p), f)
    <3>1. PICK e \in In(Fr(p).todo) : f \in FilesBelow(e)
      BY <1>0, <2>2 DEF Ahead
    <3>2. CASE e = d
      <4>1. f \in Children(d) \/ \E c \in Children(d) \cap Dir : f \in FilesBelow(c)
        BY <1>2, <3>1, <3>2, FilesAreBelow
      <4>2. Ahead(r, f)
        BY <1>4, <4>1 DEF Ahead
      <4>. QED  BY <1>4, <4>2 DEF Handled
    <3>3. CASE e # d
      <4>1. e \in In(r.todo)
        BY <1>2, <1>4, <3>1, <3>3
      <4>2. Ahead(r, f)
        BY <3>1, <4>1 DEF Ahead
      <4>. QED  BY <1>4, <4>2 DEF Handled
    <3>. QED  BY <3>2, <3>3
  <2>3. CASE ~Ahead(Fr(p), f)
    BY <1>0, <1>4, <2>1, <2>3 DEF Handled
  <2>. QED  BY <2>2, <2>3
<1>8. Accounts(r)
  BY <1>5, <1>6, <1>7 DEF Accounts
<1>. QED  BY <1>4, <1>8, QuietStep DEF Enter

\* An entry leaves the walk for the list of directories, for what has been read
\* or for what is to be queued; or there is no such file
LEMMA EntryMoves ==
    ASSUME IndexInv, NEW p \in Walker, Fr(p).pc = "walk", NEW x \in Fr(p).entries,
           NEW r \in WalkFrame, Set(p, r), UNCHANGED <<disk, index, queue, due, lost>>,
           r.pc = "walk", r.from = Fr(p).from, r.cur = Fr(p).cur,
           r.entries = Fr(p).entries \ {x},
           In(Fr(p).read) \subseteq In(r.read), In(Fr(p).todo) \subseteq In(r.todo),
           In(r.todo) \subseteq In(Fr(p).todo) \cup ({x} \cap Dir),
           Fr(p).again \subseteq r.again,
           \A e \in In(r.read) : Current(e.file, e.ver),
           x \in Dir => x \in In(r.todo),
           x \in File => disk[x] = Gone \/ x \in Names(r.read) \/ FileRow(x) \in r.again
    PROVE  IndexInv'
<1>0. /\ Fr(p) \in WalkFrame /\ Accounts(Fr(p)) /\ Fr(p).cur \in Dir
      /\ Fr(p).entries # {} /\ x \in Path
  BY FrameIs DEF WalkFrame
<1>1. Walks(r)
  <2>1. /\ Fr(p).entries \subseteq Children(Fr(p).cur)
        /\ Fr(p).from # Gone => /\ UpTo(Fr(p).cur, Fr(p).from)
                                /\ \A e \in In(Fr(p).todo) : UpTo(e, Fr(p).from)
    BY <1>0 DEF Accounts, Walks
  <2>2. Depth[x] = Depth[Fr(p).cur] + 1
    BY <1>0, <2>1, DepthIs
  <2>3. ASSUME Fr(p).from # Gone PROVE UpTo(x, Fr(p).from)
    <3>1. Depth[Fr(p).cur] \in Nat /\ Depth[Fr(p).from] \in Nat
      BY <1>0, <2>3, DepthIs DEF WalkFrame, Path
    <3>. QED  BY <2>1, <2>2, <2>3, <3>1 DEF UpTo
  <2>. QED  BY <2>1, <2>3 DEF Walks
<1>2. Reads(r)
  BY DEF Reads
<1>3. Names(Fr(p).read) \subseteq Names(r.read)
  BY NamesIn
<1>4. ASSUME Draining(r), NEW f \in FilesBelow(r.from) \ lost PROVE Handled(r, f)
  <2>1. Handled(Fr(p), f) /\ f \in File
    <3>1. r.from \in Dir
      BY <1>4 DEF Draining, WalkFrame
    <3>2. f \in File
      BY <3>1, FilesAreBelow
    <3>. QED  BY <1>0, <1>4, <3>2 DEF Accounts, Draining
  <2>2. CASE Kept(f) \/ LeadsTo(queue, f, Depth[r.from] + 1)
    BY <2>2 DEF Handled
  <2>3. CASE f \in Names(Fr(p).read) \/ LeadsTo(Fr(p).again, f, Depth[r.from] + 1)
    <3>1. f \in Names(r.read) \/ LeadsTo(r.again, f, Depth[r.from] + 1)
      BY <1>3, <2>3 DEF LeadsTo
    <3>. QED  BY <3>1 DEF Handled, Carrying
  <2>4. CASE f \in Fr(p).entries
    <3>1. CASE f = x
      <4>1. disk[f] = Gone => Kept(f)
        BY DEF Kept
      <4>2. FileRow(f) \in r.again => LeadsTo(r.again, f, Depth[r.from] + 1)
        BY DEF LeadsTo
      <4>. QED  BY <2>1, <3>1, <4>1, <4>2 DEF Handled, Carrying
    <3>2. CASE f # x
      BY <2>4, <3>2 DEF Handled, Ahead
    <3>. QED  BY <3>1, <3>2
  <2>5. ASSUME NEW e \in (Fr(p).entries \cap Dir) \cup In(Fr(p).todo), f \in FilesBelow(e)
        PROVE  Handled(r, f)
    <3>1. e \in (r.entries \cap Dir) \cup In(r.todo)
      OBVIOUS
    <3>. QED  BY <2>5, <3>1 DEF Handled, Ahead
  <2>. QED  BY <2>1, <2>2, <2>3, <2>4, <2>5 DEF Handled, Ahead
<1>5. Accounts(r)
  BY <1>1, <1>2, <1>4 DEF Accounts
<1>. QED  BY <1>5, QuietStep

LEMMA VisitKeeps ==
    ASSUME IndexInv, NEW p \in Walker, Visit(p)
    PROVE  IndexInv'
<1>. DEFINE x == Next1(Fr(p).entries)
            rest == [Fr(p) EXCEPT !.entries = @ \ {x}]
<1>0. /\ Fr(p) \in WalkFrame /\ Fr(p).pc = "walk" /\ Fr(p).entries # {}
      /\ \A e \in In(Fr(p).read) : Current(e.file, e.ver)
      /\ UNCHANGED <<disk, index, queue, due, lost>>
  BY FrameIs DEF Visit
<1>1. x \in Fr(p).entries
  BY <1>0 DEF Next1
<1>2. Set(p, CASE x \in Dir -> [rest EXCEPT !.todo = Append(@, x)]
               [] x \in File /\ disk[x] = Gone -> rest
               [] x \in File /\ disk[x] # Gone ->
                      [rest EXCEPT !.read = Append(@, [file |-> x, ver |-> disk[x]])])
  BY DEF Visit
<1>. HIDE DEF x
<1>3. x \in Path /\ Fr(p).todo \in Seq(Dir) /\ Fr(p).read \in Seq(Reading)
  BY <1>0, <1>1 DEF WalkFrame
<1>4. CASE x \in Dir
  <2>. DEFINE r == [rest EXCEPT !.todo = Append(@, x)]
  <2>0. x \notin File
    BY <1>4, FileIndexAssumption
  <2>1. Set(p, r)
    BY <1>2, <1>4, <2>0
  <2>2. Append(Fr(p).todo, x) \in Seq(Dir) /\ In(Append(Fr(p).todo, x)) = In(Fr(p).todo) \cup {x}
    BY <1>3, <1>4, InAppend
  <2>3. /\ r \in WalkFrame /\ r.pc = "walk" /\ r.from = Fr(p).from /\ r.cur = Fr(p).cur
        /\ r.entries = Fr(p).entries \ {x} /\ r.read = Fr(p).read /\ r.again = Fr(p).again
        /\ r.todo = Append(Fr(p).todo, x)
    BY <1>0, <2>2 DEF WalkFrame
  <2>. HIDE DEF r
  <2>4. In(r.todo) = In(Fr(p).todo) \cup {x}
    BY <2>2, <2>3
  <2>. QED  BY <1>0, <1>1, <1>4, <2>0, <2>1, <2>3, <2>4, EntryMoves
<1>5. CASE x \notin Dir /\ disk[x] = Gone
  <2>1. Set(p, rest)
    BY <1>2, <1>3, <1>5 DEF Path
  <2>3. /\ rest \in WalkFrame /\ rest.pc = "walk" /\ rest.from = Fr(p).from
        /\ rest.cur = Fr(p).cur /\ rest.entries = Fr(p).entries \ {x}
        /\ rest.read = Fr(p).read /\ rest.again = Fr(p).again /\ rest.todo = Fr(p).todo
    BY <1>0 DEF WalkFrame
  <2>. HIDE DEF rest
  <2>. QED  BY <1>0, <1>1, <1>5, <2>1, <2>3, EntryMoves
<1>6. CASE x \notin Dir /\ disk[x] # Gone
  <2>. DEFINE e == [file |-> x, ver |-> disk[x]]
              r == [rest EXCEPT !.read = Append(@, e)]
  <2>1. Set(p, r)
    BY <1>2, <1>3, <1>6 DEF Path
  <2>2. e \in Reading /\ Current(e.file, e.ver) /\ e.file = x
    BY <1>3, <1>6 DEF Path, IndexInv, TablesTyped, Maybe, Reading, Current
  <2>. HIDE DEF e
  <2>3. Append(Fr(p).read, e) \in Seq(Reading) /\ In(Append(Fr(p).read, e)) = In(Fr(p).read) \cup {e}
    BY <1>3, <2>2, InAppend
  <2>4. /\ r \in WalkFrame /\ r.pc = "walk" /\ r.from = Fr(p).from /\ r.cur = Fr(p).cur
        /\ r.entries = Fr(p).entries \ {x} /\ r.read = Append(Fr(p).read, e)
        /\ r.again = Fr(p).again /\ r.todo = Fr(p).todo
    BY <1>0, <2>3 DEF WalkFrame
  <2>. HIDE DEF r
  <2>5. x \in Names(r.read)
    BY <2>2, <2>3, <2>4, NamesIn
  <2>. QED  BY <1>0, <1>1, <1>6, <2>1, <2>2, <2>3, <2>4, <2>5, EntryMoves
<1>. QED  BY <1>4, <1>5, <1>6

LEMMA OverweightKeeps ==
    ASSUME IndexInv, NEW p \in Walker, Overweight(p)
    PROVE  IndexInv'
<1>. DEFINE x == Next1(Fr(p).entries)
            r == [Fr(p) EXCEPT !.entries = @ \ {x}, !.again = @ \cup {FileRow(x)}]
<1>0. /\ Fr(p) \in WalkFrame /\ Fr(p).pc = "walk" /\ Fr(p).entries # {}
      /\ \A e \in In(Fr(p).read) : Current(e.file, e.ver)
      /\ UNCHANGED <<disk, index, queue, due, lost>>
  BY FrameIs DEF Overweight
<1>1. x \in Fr(p).entries /\ x \in File /\ Set(p, r)
  BY <1>0 DEF Next1, Overweight
<1>. HIDE DEF x
<1>2. FileRow(x) \in Row /\ x \notin Dir
  BY <1>1, FileIndexAssumption DEF FileRow, Row
<1>3. /\ r \in WalkFrame /\ r.pc = "walk" /\ r.from = Fr(p).from /\ r.cur = Fr(p).cur
      /\ r.entries = Fr(p).entries \ {x} /\ r.read = Fr(p).read
      /\ r.again = Fr(p).again \cup {FileRow(x)} /\ r.todo = Fr(p).todo
  BY <1>0, <1>2 DEF WalkFrame
<1>. HIDE DEF r
<1>. QED  BY <1>0, <1>1, <1>2, <1>3, EntryMoves

LEMMA RemainingIs ==
    ASSUME IndexInv, NEW p \in Walker
    PROVE  /\ Remaining(p) = In(Fr(p).todo) \cup (IF Fr(p).entries = {} THEN {} ELSE {Fr(p).cur})
           /\ Remaining(p) \subseteq Dir
<1>1. Fr(p).todo \in Seq(Dir) /\ Fr(p).cur \in Dir
  BY FrameIs DEF WalkFrame
<1>2. In(Fr(p).todo) \subseteq Dir
  BY <1>1 DEF In
<1>. QED  BY <1>1, <1>2 DEF Remaining, In

\* What is ahead of a walk lies below what it has not finished
LEMMA AheadRemains ==
    ASSUME IndexInv, NEW p \in Walker, NEW f \in File, Ahead(Fr(p), f)
    PROVE  \E d \in Remaining(p) : f \in FilesBelow(d)
<1>0. Fr(p) \in WalkFrame /\ Accounts(Fr(p)) /\ Fr(p).cur \in Dir
  BY FrameIs DEF WalkFrame
<1>1. Fr(p).entries # {} =>
          Fr(p).cur \in Remaining(p) /\ Fr(p).entries \subseteq Children(Fr(p).cur)
  BY <1>0, RemainingIs DEF Accounts, Walks
<1>2. CASE f \in Fr(p).entries
  BY <1>0, <1>1, <1>2, OwnFiles
<1>3. ASSUME NEW d \in Fr(p).entries \cap Dir, f \in FilesBelow(d)
      PROVE  f \in FilesBelow(Fr(p).cur) /\ Fr(p).cur \in Remaining(p)
  BY <1>0, <1>1, <1>3, FilesOfSubdirectory
<1>4. In(Fr(p).todo) \subseteq Remaining(p)
  BY RemainingIs
<1>. QED  BY <1>2, <1>3, <1>4 DEF Ahead

LEMMA LossIsSteady ==
    ASSUME UNCHANGED <<disk, index, queue, due>>, lost \subseteq lost'
    PROVE  Steady /\ \A r : Unedited(r)
BY DEF Steady, Kept, Unedited

\* A step that leaves some files aside, and changes nothing else in the tables
LEMMA LeavesAside ==
    ASSUME IndexInv, NEW p \in Walker, NEW r \in WalkFrame, Set(p, r), NEW S,
           Fr(p).from # Gone => S \subseteq File,
           UNCHANGED <<disk, index, queue, due>>, lost' = lost \cup Abandoned(p, S),
           Walks(r), Reads(r),
           Draining(r) => /\ r.from = Fr(p).from
                          /\ \A f \in FilesBelow(r.from) \ lost : Handled(r, f) \/ f \in S
    PROVE  IndexInv'
<1>1. lost \subseteq lost' /\ lost' \subseteq File
  BY DEF Abandoned, IndexInv, TablesTyped
<1>2. Steady
  BY <1>1, LossIsSteady
<1>3. TablesTyped'
  BY <1>1 DEF IndexInv, TablesTyped
<1>4. Walks(r)' /\ Reads(r)'
  BY <1>1 DEF Walks, Reads, UpTo, Current
<1>5. ASSUME Draining(r), NEW f \in FilesBelow(r.from) \ lost' PROVE Handled(r, f)'
  <2>1. CASE Handled(r, f)
    BY <2>1 DEF Handled, Kept, LeadsTo, Ahead
  <2>2. CASE ~Handled(r, f)
    <3>1. f \in S /\ Fr(p).from # Gone
      BY <1>1, <1>5, <2>2 DEF Draining
    <3>2. index[f] = disk[f]
      BY <1>5, <3>1 DEF Abandoned
    <3>. QED  BY <3>2 DEF Handled, Kept
  <2>. QED  BY <2>1, <2>2
<1>6. Accounts(r)'
  BY <1>4, <1>5 DEF Accounts, Draining
<1>. QED  BY <1>2, <1>3, <1>6, IndexMoves

\* What lies below a directory that cannot be listed is left aside
LEMMA EnterFailsKeeps ==
    ASSUME IndexInv, NEW p \in Walker, EnterFails(p)
    PROVE  IndexInv'
<1>0. Fr(p) \in WalkFrame /\ Accounts(Fr(p)) /\ Fr(p).pc = "walk" /\ Fr(p).todo # << >>
      /\ Fr(p).entries = {} /\ UNCHANGED <<disk, index, queue, due>>
  BY FrameIs DEF EnterFails
<1>. DEFINE d == Head(Fr(p).todo)
<1>1. Fr(p).todo \in Seq(Dir)
  BY <1>0 DEF WalkFrame
<1>2. /\ d \in Dir /\ d \in In(Fr(p).todo) /\ Tail(Fr(p).todo) \in Seq(Dir)
      /\ In(Fr(p).todo) = {d} \cup In(Tail(Fr(p).todo))
  BY <1>0, <1>1, InTail
<1>3. PICK r \in WalkFrame :
          /\ Set(p, r) /\ r.pc = "walk" /\ r.from = Fr(p).from /\ r.read = Fr(p).read
          /\ r.again = Fr(p).again /\ r.entries = {} /\ r.todo = Tail(Fr(p).todo)
  <2>. DEFINE r == [Fr(p) EXCEPT !.todo = Tail(@)]
  <2>1. Set(p, r)
    BY DEF EnterFails
  <2>. HIDE DEF d
  <2>2. /\ r \in WalkFrame /\ r.pc = "walk" /\ r.from = Fr(p).from /\ r.read = Fr(p).read
        /\ r.again = Fr(p).again /\ r.entries = {} /\ r.todo = Tail(Fr(p).todo)
    BY <1>0, <1>2 DEF WalkFrame
  <2>. QED  BY <2>1, <2>2
<1>4. lost' = lost \cup Abandoned(p, FilesBelow(d)) /\ FilesBelow(d) \subseteq File
  BY <1>2, FilesAreBelow DEF EnterFails
<1>. HIDE DEF d
<1>5. Walks(r)
  <2>1. Fr(p).from # Gone => \A e \in In(Fr(p).todo) : UpTo(e, Fr(p).from)
    BY <1>0 DEF Accounts, Walks
  <2>. QED  BY <1>2, <1>3, <2>1 DEF Walks
<1>6. Reads(r)
  BY <1>0, <1>3 DEF Accounts, Reads
<1>7. ASSUME Draining(r), NEW f \in FilesBelow(r.from) \ lost
      PROVE  Handled(r, f) \/ f \in FilesBelow(d)
  <2>1. Handled(Fr(p), f)
    BY <1>0, <1>3, <1>7 DEF Accounts, Draining
  <2>2. CASE Ahead(Fr(p), f)
    <3>1. PICK e \in In(Fr(p).todo) : f \in FilesBelow(e)
      BY <1>0, <2>2 DEF Ahead
    <3>2. e # d => Ahead(r, f)
      BY <1>2, <1>3, <3>1 DEF Ahead
    <3>. QED  BY <1>3, <3>1, <3>2 DEF Handled
  <2>3. CASE ~Ahead(Fr(p), f)
    BY <1>0, <1>3, <2>1, <2>3 DEF Handled
  <2>. QED  BY <2>2, <2>3
<1>. QED  BY <1>0, <1>3, <1>4, <1>5, <1>6, <1>7, LeavesAside

\* So is an entry that cannot be read, with what lies below it
LEMMA VisitFailsKeeps ==
    ASSUME IndexInv, NEW p \in Walker, VisitFails(p)
    PROVE  IndexInv'
<1>. DEFINE x == Next1(Fr(p).entries)
            S == IF x \in Dir THEN FilesBelow(x) ELSE {x}
            r == [Fr(p) EXCEPT !.entries = @ \ {x}]
<1>0. /\ Fr(p) \in WalkFrame /\ Accounts(Fr(p)) /\ Fr(p).pc = "walk" /\ Fr(p).entries # {}
      /\ UNCHANGED <<disk, index, queue, due>>
  BY FrameIs DEF VisitFails
<1>1. x \in Fr(p).entries /\ Set(p, r) /\ lost' = lost \cup Abandoned(p, S)
  BY <1>0 DEF Next1, VisitFails
<1>. HIDE DEF x
<1>2. x \in Path
  BY <1>0, <1>1 DEF WalkFrame
<1>3. S \subseteq File
  BY <1>2, FilesAreBelow DEF Path
<1>4. /\ r \in WalkFrame /\ r.pc = "walk" /\ r.from = Fr(p).from /\ r.cur = Fr(p).cur
      /\ r.read = Fr(p).read /\ r.again = Fr(p).again /\ r.todo = Fr(p).todo
      /\ r.entries = Fr(p).entries \ {x}
  BY <1>0 DEF WalkFrame
<1>. HIDE DEF r
<1>5. Walks(r)
  BY <1>0, <1>4 DEF Accounts, Walks
<1>6. Reads(r)
  BY <1>0, <1>4 DEF Accounts, Reads
<1>7. ASSUME Draining(r), NEW f \in FilesBelow(r.from) \ lost PROVE Handled(r, f) \/ f \in S
  <2>1. Handled(Fr(p), f) /\ f \in File
    <3>1. r.from \in Dir
      BY <1>4, <1>7 DEF Draining, WalkFrame
    <3>. QED  BY <1>0, <1>4, <1>7, <3>1, FilesAreBelow DEF Accounts, Draining
  <2>2. CASE f \in Fr(p).entries
    <3>1. f \notin Dir
      BY <2>1, FileIndexAssumption
    <3>2. f # x => Ahead(r, f)
      BY <1>4, <2>2 DEF Ahead
    <3>. QED  BY <1>4, <3>1, <3>2 DEF Handled
  <2>3. ASSUME NEW e \in (Fr(p).entries \cap Dir) \cup In(Fr(p).todo), f \in FilesBelow(e)
        PROVE  Handled(r, f) \/ f \in S
    <3>1. CASE e \in (r.entries \cap Dir) \cup In(r.todo)
      BY <1>4, <2>3, <3>1 DEF Handled, Ahead
    <3>2. CASE e \notin (r.entries \cap Dir) \cup In(r.todo)
      BY <1>4, <2>3, <3>2
    <3>. QED  BY <3>1, <3>2
  <2>4. CASE ~Ahead(Fr(p), f)
    BY <1>0, <1>4, <2>1, <2>4 DEF Handled
  <2>. QED  BY <2>2, <2>3, <2>4 DEF Ahead
<1>. HIDE DEF S
<1>. QED  BY <1>0, <1>1, <1>3, <1>4, <1>5, <1>6, <1>7, LeavesAside

LEMMA CutKeeps ==
    ASSUME IndexInv, NEW p \in Walker, Cut(p)
    PROVE  IndexInv'
<1>0. /\ Fr(p) \in WalkFrame /\ Fr(p).pc = "walk" /\ Accounts(Fr(p))
      /\ UNCHANGED <<disk, index, queue, due>>
  BY FrameIs DEF Cut
<1>. DEFINE R == Remaining(p)
            rows == {DirRow(d) : d \in R}
            from == Fr(p).from
<1>1. R \subseteq Dir
  BY RemainingIs
<1>2. rows \subseteq Row
  BY <1>1 DEF DirRow, Row
<1>3. lost' = IF from \in R THEN lost \cup Abandoned(p, FilesBelow(from) \ Names(Fr(p).read))
              ELSE lost
  BY DEF Cut
<1>4. PICK r \in WalkFrame :
          /\ Set(p, r) /\ r.pc = "persist" /\ r.from = from /\ r.entries = {}
          /\ r.read = Fr(p).read /\ r.again = Fr(p).again \cup rows
  <2>. DEFINE r == [Fr(p) EXCEPT !.pc = "persist", !.todo = << >>, !.entries = {}, !.cur = Root,
                                 !.again = @ \cup rows]
  <2>1. Set(p, r)
    BY DEF Cut
  <2>. HIDE DEF rows
  <2>2. << >> \in Seq(Dir) /\ Root \in Dir
    BY FileIndexAssumption
  <2>3. /\ r \in WalkFrame /\ r.pc = "persist" /\ r.from = from /\ r.entries = {}
        /\ r.read = Fr(p).read /\ r.again = Fr(p).again \cup rows
    BY <1>0, <1>2, <2>2 DEF WalkFrame, WalkLabel
  <2>. QED  BY <2>1, <2>3
<1>5. lost \subseteq lost' /\ lost' \subseteq File
  <2>1. lost \subseteq File
    BY DEF IndexInv, TablesTyped
  <2>2. \A d \in R : FilesBelow(d) \subseteq File
    BY <1>1, FilesAreBelow
  <2>. QED  BY <1>3, <2>1, <2>2 DEF Abandoned
<1>6. Steady /\ Unedited(r)
  BY <1>0, <1>5, LossIsSteady
<1>7. TablesTyped'
  BY <1>0, <1>5 DEF IndexInv, TablesTyped
<1>8. Walks(r)'
  BY <1>4 DEF Walks
<1>9. Reads(r)'
  BY <1>0, <1>4, <1>5 DEF Accounts, Reads, Current
<1>10. ASSUME Draining(r), NEW f \in FilesBelow(r.from) \ lost' PROVE Handled(r, f)'
  <2>0. from \in Dir /\ f \in File /\ from # Gone
    <3>1. from \in Dir /\ from # Gone
      BY <1>4, <1>10 DEF Draining, WalkFrame
    <3>. QED  BY <1>4, <3>1, FilesAreBelow
  <2>1. CASE from \in R
    <3>1. f \in Names(r.read) \/ index[f] = disk[f]
      BY <1>3, <1>4, <1>10, <2>0, <2>1 DEF Abandoned
    <3>. QED  BY <1>0, <1>4, <3>1 DEF Handled, Carrying, Kept
  <2>2. CASE from \notin R
    <3>1. Handled(Fr(p), f)
      BY <1>0, <1>4, <1>5, <1>10, <2>0 DEF Accounts, Draining, Carrying
    <3>2. CASE Kept(f) \/ LeadsTo(queue, f, Depth[r.from] + 1)
      BY <1>0, <3>2 DEF Handled, Kept
    <3>3. CASE f \in Names(Fr(p).read) \/ LeadsTo(Fr(p).again, f, Depth[r.from] + 1)
      <4>1. f \in Names(r.read) \/ LeadsTo(r.again, f, Depth[r.from] + 1)
        BY <1>4, <3>3 DEF LeadsTo
      <4>. QED  BY <1>4, <4>1 DEF Handled, Carrying
    <3>4. CASE Ahead(Fr(p), f)
      <4>1. PICK d \in R : f \in FilesBelow(d)
        BY <2>0, <3>4, AheadRemains
      <4>2. UpTo(d, from) /\ d # from
        <5>1. /\ \A e \in In(Fr(p).todo) : UpTo(e, from)
              /\ Fr(p).entries # {} => UpTo(Fr(p).cur, from)
          BY <1>0, <2>0 DEF Accounts, Walks
        <5>. QED  BY <2>2, <4>1, <5>1, RemainingIs
      <4>3. LeadsTo(r.again, f, Depth[r.from] + 1)
        BY <1>1, <1>4, <4>1, <4>2 DEF LeadsTo, UpTo
      <4>. QED  BY <1>4, <4>3 DEF Handled, Carrying
    <3>. QED  BY <1>0, <1>4, <3>1, <3>2, <3>3, <3>4 DEF Handled
  <2>. QED  BY <2>1, <2>2
<1>11. Accounts(r)'
  BY <1>8, <1>9, <1>10 DEF Accounts, Draining
<1>. QED  BY <1>0, <1>4, <1>6, <1>7, <1>11, IndexMoves

LEMMA WalkedKeeps ==
    ASSUME IndexInv, NEW p \in Walker, Walked(p)
    PROVE  IndexInv'
<1>0. /\ Fr(p) \in WalkFrame /\ Fr(p).pc = "walk" /\ Accounts(Fr(p)) /\ Remaining(p) = {}
      /\ UNCHANGED <<disk, index, queue, due, lost>>
  BY FrameIs DEF Walked
<1>1. Fr(p).entries = {} /\ In(Fr(p).todo) = {}
  BY <1>0, RemainingIs
<1>2. PICK r \in WalkFrame :
          /\ Set(p, r) /\ r.pc = "persist" /\ r.from = Fr(p).from /\ r.entries = {}
          /\ r.read = Fr(p).read /\ r.again = Fr(p).again
  <2>. DEFINE r == [Fr(p) EXCEPT !.pc = "persist", !.cur = Root]
  <2>1. Set(p, r)
    BY DEF Walked
  <2>2. /\ r \in WalkFrame /\ r.pc = "persist" /\ r.from = Fr(p).from /\ r.entries = {}
        /\ r.read = Fr(p).read /\ r.again = Fr(p).again
    BY <1>0, <1>1, FileIndexAssumption DEF WalkFrame, WalkLabel
  <2>. QED  BY <2>1, <2>2
<1>3. Walks(r)
  BY <1>2 DEF Walks
<1>4. Reads(r)
  BY <1>0, <1>2 DEF Accounts, Reads
<1>5. ASSUME Draining(r), NEW f \in FilesBelow(r.from) \ lost PROVE Handled(r, f)
  <2>1. Handled(Fr(p), f)
    BY <1>0, <1>2, <1>5 DEF Accounts, Draining, Carrying
  <2>2. ~Ahead(Fr(p), f)
    BY <1>1 DEF Ahead
  <2>. QED  BY <1>0, <1>2, <2>1, <2>2 DEF Handled, Carrying
<1>6. Accounts(r)
  BY <1>3, <1>4, <1>5 DEF Accounts
<1>. QED  BY <1>0, <1>2, <1>6, QuietStep

-----------------------------------------------------------------------------
(* What was read reaches the table *)

LEMMA TakeKeeps ==
    ASSUME IndexInv, NEW p \in Walker, Take(p)
    PROVE  IndexInv'
<1>0. /\ Fr(p) \in WalkFrame /\ Fr(p).pc = "persist" /\ Accounts(Fr(p)) /\ Fr(p).read # << >>
      /\ Fr(p).entries = {} /\ UNCHANGED <<disk, index, queue, due, lost>>
  BY FrameIs DEF Take
<1>. DEFINE e == Head(Fr(p).read)
<1>1. Fr(p).read \in Seq(Reading)
  BY <1>0 DEF WalkFrame
<1>2. /\ e \in Reading /\ e \in In(Fr(p).read) /\ Tail(Fr(p).read) \in Seq(Reading)
      /\ In(Fr(p).read) = {e} \cup In(Tail(Fr(p).read))
  BY <1>0, <1>1, InTail
<1>3. Set(p, [Fr(p) EXCEPT !.pc = "write", !.at = e.file, !.ver = e.ver,
                           !.old = index[e.file], !.read = Tail(@)])
  BY DEF Take
<1>. HIDE DEF e
<1>4. e.file \in File /\ e.ver \in Version /\ Current(e.file, e.ver) /\ index[e.file] \in Maybe
  BY <1>2, FrameIs DEF Reading, IndexInv, TablesTyped
<1>5. PICK r \in WalkFrame :
          /\ Set(p, r) /\ r.pc = "write" /\ r.from = Fr(p).from /\ r.entries = {}
          /\ r.read = Tail(Fr(p).read) /\ r.again = Fr(p).again
          /\ r.at = e.file /\ r.ver = e.ver /\ r.old = index[e.file]
  <2>. DEFINE r == [Fr(p) EXCEPT !.pc = "write", !.at = e.file, !.ver = e.ver,
                                 !.old = index[e.file], !.read = Tail(@)]
  <2>1. /\ r \in WalkFrame /\ r.pc = "write" /\ r.from = Fr(p).from /\ r.entries = {}
        /\ r.read = Tail(Fr(p).read) /\ r.again = Fr(p).again
        /\ r.at = e.file /\ r.ver = e.ver /\ r.old = index[e.file]
    BY <1>0, <1>2, <1>4 DEF WalkFrame, WalkLabel, Maybe
  <2>. QED  BY <1>3, <2>1
<1>6. Walks(r)
  BY <1>5 DEF Walks
<1>7. Reads(r)
  BY <1>0, <1>2, <1>4, <1>5 DEF Accounts, Reads
<1>8. ASSUME Draining(r), NEW f \in FilesBelow(r.from) \ lost PROVE Handled(r, f)
  <2>1. Handled(Fr(p), f)
    BY <1>0, <1>5, <1>8 DEF Accounts, Draining, Carrying
  <2>2. f \in Names(Fr(p).read) => f = r.at \/ f \in Names(r.read)
    BY <1>2, <1>5, NamesIn
  <2>. QED  BY <1>0, <1>5, <2>1, <2>2 DEF Handled, Carrying
<1>9. Accounts(r)
  BY <1>6, <1>7, <1>8 DEF Accounts
<1>. QED  BY <1>0, <1>5, <1>9, QuietStep

LEMMA SettledIs ==
    ASSUME IndexInv, NEW p \in Walker, NEW pc \in WalkLabel
    PROVE  /\ Settled(p, pc) \in WalkFrame /\ Settled(p, pc).pc = pc
           /\ Settled(p, pc).from = Fr(p).from /\ Settled(p, pc).entries = Fr(p).entries
           /\ Settled(p, pc).read = Fr(p).read /\ Settled(p, pc).again = Fr(p).again
BY FrameIs DEF Settled, WalkFrame, Maybe

\* A file whose row is right already, or whose version is refused
LEMMA PassedIsKept ==
    ASSUME IndexInv, NEW p \in Walker, Fr(p).pc \in {"write", "write1"},
           Passed(p) \/ Fr(p).ver = Gone
    PROVE  Fr(p).at \in File /\ (Fr(p).at \in lost \/ Kept(Fr(p).at))
<1>1. Reads(Fr(p))
  BY FrameIs DEF Accounts
<1>. QED  BY <1>1 DEF Reads, Current, Passed, Kept

LEMMA SkipWriteKeeps ==
    ASSUME IndexInv, NEW p \in Walker, SkipWrite(p)
    PROVE  IndexInv'
<1>0. /\ Fr(p) \in WalkFrame /\ Fr(p).pc = "write" /\ Accounts(Fr(p)) /\ Fr(p).entries = {}
      /\ Passed(p) /\ UNCHANGED <<disk, index, queue, due, lost>>
  BY FrameIs DEF SkipWrite
<1>1. PICK r \in WalkFrame :
          /\ Set(p, r) /\ r.pc = "persist" /\ r.from = Fr(p).from /\ r.entries = {}
          /\ r.read = Fr(p).read /\ r.again = Fr(p).again
  <2>1. "persist" \in WalkLabel
    BY DEF WalkLabel
  <2>. QED  BY <1>0, <2>1, SettledIs DEF SkipWrite
<1>2. Walks(r) /\ Reads(r)
  BY <1>0, <1>1 DEF Walks, Accounts, Reads
<1>3. ASSUME Draining(r), NEW f \in FilesBelow(r.from) \ lost PROVE Handled(r, f)
  <2>1. Handled(Fr(p), f)
    BY <1>0, <1>1, <1>3 DEF Accounts, Draining, Carrying
  <2>2. f = Fr(p).at => Kept(f)
    BY <1>0, <1>3, PassedIsKept
  <2>. QED  BY <1>0, <1>1, <2>1, <2>2 DEF Handled, Carrying
<1>4. Accounts(r)
  BY <1>2, <1>3 DEF Accounts
<1>. QED  BY <1>0, <1>1, <1>4, QuietStep

\* Who writes a row writes what the disk holds, or the file is lost
LEMMA UpsertIsSteady ==
    ASSUME IndexInv, NEW p \in Walker, Fr(p).pc \in {"write", "write1"}, ~Passed(p), Upserted(p),
           UNCHANGED <<disk, queue, due, lost>>
    PROVE  /\ Steady /\ TablesTyped' /\ \A r : Unedited(r)
           /\ Fr(p).at \in File /\ (Fr(p).at \in lost \/ index'[Fr(p).at] = disk[Fr(p).at])
<1>1. Reads(Fr(p)) /\ Fr(p) \in WalkFrame
  BY FrameIs DEF Accounts
<1>2. PICK f, v : f = Fr(p).at /\ v = Fr(p).ver
  OBVIOUS
<1>3. f \in File /\ (f \in lost \/ disk[f] = v) /\ v \in Maybe \ Refused
  BY <1>1, <1>2 DEF Reads, Current, Passed, WalkFrame
<1>4. index' = [index EXCEPT ![f] = v] /\ index \in [File -> Maybe \ Refused]
  BY <1>2 DEF Upserted, IndexInv, TablesTyped
<1>5. index' \in [File -> Maybe \ Refused] /\ index'[f] = v
      /\ \A g \in File : g # f => index'[g] = index[g]
  BY <1>3, <1>4
<1>6. TablesTyped'
  BY <1>5 DEF IndexInv, TablesTyped
<1>7. \A g \in File \ lost : index'[g] \in {index[g], disk[g]}
  BY <1>3, <1>5
<1>8. Steady
  BY <1>7 DEF Steady, Kept
<1>. QED  BY <1>2, <1>3, <1>5, <1>6, <1>8 DEF Unedited

LEMMA WriteKeeps ==
    ASSUME IndexInv, NEW p \in Walker, Write(p)
    PROVE  IndexInv'
<1>0. /\ Fr(p) \in WalkFrame /\ Fr(p).pc = "write" /\ Accounts(Fr(p)) /\ Fr(p).entries = {}
      /\ UNCHANGED <<disk, queue, due, lost>>
  BY FrameIs DEF Write
<1>1. PICK r \in WalkFrame :
          /\ Set(p, r) /\ r.pc = "unqueue" /\ r.from = Fr(p).from /\ r.entries = {}
          /\ r.read = Fr(p).read /\ r.again = Fr(p).again /\ r.at = Fr(p).at
  <2>. DEFINE r == [Fr(p) EXCEPT !.pc = "unqueue"]
  <2>1. /\ r \in WalkFrame /\ r.pc = "unqueue" /\ r.from = Fr(p).from /\ r.entries = {}
        /\ r.read = Fr(p).read /\ r.again = Fr(p).again /\ r.at = Fr(p).at
    BY <1>0 DEF WalkFrame, WalkLabel
  <2>. QED  BY <2>1 DEF Write
<1>2. /\ Steady /\ TablesTyped'
      /\ r.at \in File /\ (r.at \in lost \/ index'[r.at] = disk[r.at])
  BY <1>0, <1>1, UpsertIsSteady DEF Write
<1>3. Walks(r)'
  BY <1>1 DEF Walks
<1>4. Reads(r)'
  BY <1>0, <1>1, <1>2 DEF Accounts, Reads, Current
<1>5. ASSUME Draining(r), NEW f \in FilesBelow(r.from) \ lost PROVE Handled(r, f)'
  <2>1. Handled(Fr(p), f)
    BY <1>0, <1>1, <1>5 DEF Accounts, Draining, Carrying
  <2>2. CASE f = r.at
    BY <1>0, <1>2, <1>5, <2>2 DEF Handled, Kept
  <2>3. Kept(f) => Kept(f)' \/ FileRow(f) \in queue
    <3>1. f \in File
      BY <1>5, FilesAreBelow DEF Draining, WalkFrame
    <3>. QED  BY <1>0, <1>2, <1>5, <3>1 DEF Steady
  <2>. QED  BY <1>0, <1>1, <2>1, <2>2, <2>3 DEF Handled, Carrying, LeadsTo
<1>6. Accounts(r)'
  BY <1>0, <1>3, <1>4, <1>5 DEF Accounts, Draining
<1>. QED  BY <1>0, <1>1, <1>2, <1>6, IndexMoves

\* A file's row may leave the queue once the file is Kept
LEMMA DropIsSteady ==
    ASSUME IndexInv, NEW g \in File, g \in lost \/ Kept(g), queue' = queue \ {FileRow(g)},
           UNCHANGED <<disk, index, due, lost>>
    PROVE  Steady /\ TablesTyped' /\ \A r : Unedited(r)
<1>1. TablesTyped'
  BY DEF IndexInv, TablesTyped
<1>2. ASSUME NEW f \in File \ lost PROVE Kept(f) => Kept(f)'
  BY DEF Kept
<1>3. ASSUME NEW f \in File \ lost, NEW n \in Nat, LeadsTo(queue, f, n)
      PROVE  Kept(f)' \/ LeadsTo(queue', f, n)
  <2>1. CASE f = g
    BY <1>2, <1>3, <2>1
  <2>2. CASE f # g
    <3>1. FileRow(f) # FileRow(g) /\ \A d : DirRow(d) # FileRow(g)
      BY <2>2 DEF FileRow, DirRow
    <3>. QED  BY <1>3, <3>1 DEF LeadsTo
  <2>. QED  BY <2>1, <2>2
<1>. QED  BY <1>1, <1>2, <1>3 DEF Steady, Unedited

LEMMA UnqueueKeeps ==
    ASSUME IndexInv, NEW p \in Walker, Unqueue(p)
    PROVE  IndexInv'
<1>0. /\ Fr(p) \in WalkFrame /\ Fr(p).pc = "unqueue" /\ Accounts(Fr(p)) /\ Fr(p).entries = {}
      /\ UNCHANGED <<disk, index, due, lost>>
  BY FrameIs DEF Unqueue
<1>1. Fr(p).at \in File /\ (Fr(p).at \in lost \/ Kept(Fr(p).at))
  BY <1>0 DEF Accounts, Reads, Kept
<1>2. PICK r \in WalkFrame :
          /\ Set(p, r) /\ r.pc = "persist" /\ r.from = Fr(p).from /\ r.entries = {}
          /\ r.read = Fr(p).read /\ r.again = Fr(p).again
  <2>1. "persist" \in WalkLabel
    BY DEF WalkLabel
  <2>. QED  BY <1>0, <2>1, SettledIs DEF Unqueue
<1>3. Walks(r) /\ Reads(r)
  BY <1>0, <1>2 DEF Walks, Accounts, Reads
<1>4. ASSUME Draining(r), NEW f \in FilesBelow(r.from) \ lost PROVE Handled(r, f)
  <2>1. Handled(Fr(p), f)
    BY <1>0, <1>2, <1>4 DEF Accounts, Draining, Carrying
  <2>. QED  BY <1>0, <1>2, <2>1 DEF Handled, Carrying
<1>5. Accounts(r)
  BY <1>3, <1>4 DEF Accounts
<1>6. Steady /\ TablesTyped' /\ Unedited(r)
  BY <1>0, <1>1, DropIsSteady DEF Unqueue
<1>. QED  BY <1>0, <1>2, <1>5, <1>6, Undisturbed, IndexMoves

LEMMA LeaveWalkKeeps ==
    ASSUME IndexInv, NEW p \in Walker, LeaveWalk(p), Fr(p).pc \in {"persist", "write", "unqueue"}
    PROVE  IndexInv'
<1>0. /\ Fr(p) \in WalkFrame /\ Fr(p).entries = {} /\ UNCHANGED <<disk, index, queue, due>>
      /\ lost' = lost \cup Abandoned(p, FilesBelow(Fr(p).from))
  BY FrameIs DEF LeaveWalk
<1>1. CASE Fr(p).from = Gone
  <2>1. Set(p, NoWalk) /\ UNCHANGED lost
    BY <1>0, <1>1 DEF LeaveWalk, Abandoned
  <2>. QED  BY <1>0, <2>1, NoWalkTyped, NoWalkAccounts, QuietStep
<1>2. CASE Fr(p).from # Gone
  <2>1. Set(p, [Settled(p, "drop") EXCEPT !.read = << >>, !.again = {}])
    BY <1>2 DEF LeaveWalk
  <2>2. PICK r \in WalkFrame : /\ Set(p, r) /\ r.pc = "drop" /\ r.from = Fr(p).from
                               /\ r.entries = {} /\ r.read = << >>
    <3>. DEFINE s == Settled(p, "drop")
                r == [s EXCEPT !.read = << >>, !.again = {}]
    <3>1. "drop" \in WalkLabel /\ << >> \in Seq(Reading)
      BY DEF WalkLabel
    <3>2. s \in WalkFrame /\ s.pc = "drop" /\ s.from = Fr(p).from /\ s.entries = {}
      BY <1>0, <3>1, SettledIs
    <3>. HIDE DEF s
    <3>3. /\ r \in WalkFrame /\ r.pc = "drop" /\ r.from = Fr(p).from
          /\ r.entries = {} /\ r.read = << >>
      BY <3>1, <3>2 DEF WalkFrame
    <3>. QED  BY <2>1, <3>3 DEF s
  <2>3. FilesBelow(Fr(p).from) \subseteq File
    BY <1>0, <1>2, FilesAreBelow DEF WalkFrame
  <2>4. Walks(r) /\ Reads(r)
    BY <2>2, InEmpty DEF Walks, Reads
  <2>. QED  BY <1>0, <2>2, <2>3, <2>4, LeavesAside
<1>. QED  BY <1>1, <1>2

LEMMA WriteFailsKeeps ==
    ASSUME IndexInv, NEW p \in Walker, WriteFails(p) \/ StatementFails(p)
    PROVE  IndexInv'
BY LeaveWalkKeeps DEF WriteFails, StatementFails

\* What the walk did not finish is queued, row by row
LEMMA RequeueKeeps ==
    ASSUME IndexInv, NEW p \in Walker, Requeue(p)
    PROVE  IndexInv'
<1>0. /\ Fr(p) \in WalkFrame /\ Fr(p).pc = "persist" /\ Accounts(Fr(p)) /\ Fr(p).entries = {}
      /\ Fr(p).read = << >> /\ UNCHANGED <<disk, index, due, lost>>
  BY FrameIs DEF Requeue
<1>1. PICK row \in Fr(p).again :
          /\ queue' = queue \cup {row} /\ Set(p, [Fr(p) EXCEPT !.again = @ \ {row}])
  BY DEF Requeue
<1>2. TablesTyped'
  BY <1>0, <1>1 DEF IndexInv, TablesTyped, WalkFrame
<1>3. Steady
  BY <1>0, <1>1 DEF Steady, Kept, LeadsTo
<1>4. PICK r \in WalkFrame :
          /\ Set(p, r) /\ r.pc = "persist" /\ r.from = Fr(p).from /\ r.entries = {}
          /\ r.read = << >> /\ r.again = Fr(p).again \ {row}
  <2>. DEFINE r == [Fr(p) EXCEPT !.again = @ \ {row}]
  <2>1. /\ r \in WalkFrame /\ r.pc = "persist" /\ r.from = Fr(p).from /\ r.entries = {}
        /\ r.read = << >> /\ r.again = Fr(p).again \ {row}
    BY <1>0 DEF WalkFrame
  <2>. QED  BY <1>1, <2>1
<1>5. ASSUME Draining(r), NEW f \in FilesBelow(r.from) \ lost PROVE Handled(r, f)'
  <2>1. Handled(Fr(p), f)
    BY <1>0, <1>4, <1>5 DEF Accounts, Draining, Carrying
  <2>2. f \notin Names(Fr(p).read)
    BY <1>0, InEmpty
  <2>3. CASE LeadsTo(Fr(p).again, f, Depth[r.from] + 1)
    <3>1. LeadsTo(queue', f, Depth[r.from] + 1) \/ LeadsTo(r.again, f, Depth[r.from] + 1)
      BY <1>1, <1>4, <2>3 DEF LeadsTo
    <3>. QED  BY <1>4, <3>1 DEF Handled, Carrying
  <2>4. CASE Kept(f) \/ LeadsTo(queue, f, Depth[r.from] + 1)
    <3>1. Kept(f)' \/ LeadsTo(queue', f, Depth[r.from] + 1)
      BY <1>0, <1>1, <2>4 DEF Kept, LeadsTo
    <3>. QED  BY <3>1 DEF Handled
  <2>. QED  BY <1>0, <1>4, <2>1, <2>2, <2>3, <2>4 DEF Handled
<1>6. Walks(r)' /\ Reads(r)'
  BY <1>4, InEmpty DEF Walks, Reads
<1>7. Accounts(r)'
  BY <1>0, <1>5, <1>6 DEF Accounts, Draining
<1>. QED  BY <1>0, <1>2, <1>3, <1>4, <1>7, IndexMoves

LEMMA PersistedKeeps ==
    ASSUME IndexInv, NEW p \in Walker, Persisted(p)
    PROVE  IndexInv'
<1>0. /\ Fr(p) \in WalkFrame /\ Fr(p).pc = "persist" /\ Accounts(Fr(p)) /\ Fr(p).entries = {}
      /\ Fr(p).read = << >> /\ Fr(p).again = {} /\ UNCHANGED <<disk, index, queue, due, lost>>
  BY FrameIs DEF Persisted
<1>1. CASE Fr(p).from = Gone
  <2>1. Set(p, NoWalk)
    BY <1>1 DEF Persisted
  <2>. QED  BY <1>0, <2>1, NoWalkTyped, NoWalkAccounts, QuietStep
<1>2. CASE Fr(p).from # Gone
  <2>1. PICK r \in WalkFrame : /\ Set(p, r) /\ r.pc = "drop" /\ r.from = Fr(p).from
                               /\ r.entries = {} /\ r.read = << >>
    <3>. DEFINE r == [Fr(p) EXCEPT !.pc = "drop"]
    <3>1. /\ r \in WalkFrame /\ r.pc = "drop" /\ r.from = Fr(p).from
          /\ r.entries = {} /\ r.read = << >>
      BY <1>0 DEF WalkFrame, WalkLabel
    <3>. QED  BY <1>2, <3>1 DEF Persisted
  <2>2. ASSUME Draining(r), NEW f \in FilesBelow(r.from) \ lost PROVE Handled(r, f)
    <3>1. Handled(Fr(p), f)
      BY <1>0, <1>2, <2>1, <2>2 DEF Accounts, Draining, Carrying
    <3>2. f \notin Names(Fr(p).read) /\ ~LeadsTo({}, f, Depth[r.from] + 1)
      BY <1>0, InEmpty DEF LeadsTo
    <3>. QED  BY <1>0, <2>1, <3>1, <3>2 DEF Handled
  <2>3. Accounts(r)
    BY <1>0, <2>1, <2>2, InEmpty DEF Accounts, Walks, Reads, Draining
  <2>. QED  BY <1>0, <2>1, <2>3, QuietStep
<1>. QED  BY <1>1, <1>2

-----------------------------------------------------------------------------
(* The drain *)

\* Between two rows
LEMMA RestStep ==
    ASSUME IndexInv, NEW p \in Walker, NEW r \in WalkFrame, Set(p, r), Fr(p).pc # "walk",
           r.pc \in {"idle", "dirs", "files"}, r.entries = Fr(p).entries, r.read = Fr(p).read,
           UNCHANGED <<disk, index, queue, due, lost>>
    PROVE  IndexInv'
<1>1. Accounts(r)
  BY FrameIs, RestAccounts
<1>. QED  BY <1>1, QuietStep

LEMMA StartDrainKeeps ==
    ASSUME IndexInv, NEW p \in Walker, StartDrain(p)
    PROVE  IndexInv'
<1>. DEFINE D == {d \in Dir : DirRow(d) \in queue}
            r == [Fr(p) EXCEPT !.pc = "dirs", !.dirs = D]
<1>1. D \subseteq Dir /\ Set(p, r) /\ Fr(p).pc = "idle"
  BY DEF StartDrain
<1>. HIDE DEF D
<1>2. r \in WalkFrame /\ r.pc = "dirs" /\ r.entries = Fr(p).entries /\ r.read = Fr(p).read
  BY <1>1, FrameIs DEF WalkFrame, WalkLabel
<1>. HIDE DEF r
<1>. QED  BY <1>1, <1>2, RestStep DEF StartDrain

LEMMA FetchFilesKeeps ==
    ASSUME IndexInv, NEW p \in Walker, FetchFiles(p)
    PROVE  IndexInv'
<1>. DEFINE F == {f \in File : FileRow(f) \in queue}
            r == [Fr(p) EXCEPT !.pc = "files", !.rows = F]
<1>1. F \subseteq File /\ Set(p, r) /\ Fr(p).pc = "dirs"
  BY DEF FetchFiles
<1>. HIDE DEF F
<1>2. r \in WalkFrame /\ r.pc = "files" /\ r.entries = Fr(p).entries /\ r.read = Fr(p).read
  BY <1>1, FrameIs DEF WalkFrame, WalkLabel
<1>. HIDE DEF r
<1>. QED  BY <1>1, <1>2, RestStep DEF FetchFiles

\* The whole directory lies ahead
LEMMA DrainDirKeeps ==
    ASSUME IndexInv, NEW p \in Walker, DrainDir(p)
    PROVE  IndexInv'
<1>0. /\ Fr(p) \in WalkFrame /\ Fr(p).pc = "dirs" /\ Accounts(Fr(p)) /\ Fr(p).entries = {}
      /\ UNCHANGED <<disk, index, queue, due, lost>>
  BY FrameIs DEF DrainDir
<1>1. PICK d \in Fr(p).dirs :
          Set(p, [Fr(p) EXCEPT !.pc = "walk", !.from = d, !.todo = <<d>>, !.dirs = @ \ {d}])
  BY DEF DrainDir
<1>2. d \in Dir /\ <<d>> \in Seq(Dir)
  BY <1>0 DEF WalkFrame
<1>3. PICK r \in WalkFrame :
          /\ Set(p, r) /\ r.pc = "walk" /\ r.from = d /\ r.todo = <<d>> /\ r.entries = {}
          /\ r.read = Fr(p).read
  <2>. DEFINE r == [Fr(p) EXCEPT !.pc = "walk", !.from = d, !.todo = <<d>>, !.dirs = @ \ {d}]
  <2>1. /\ r \in WalkFrame /\ r.pc = "walk" /\ r.from = d /\ r.todo = <<d>> /\ r.entries = {}
        /\ r.read = Fr(p).read
    BY <1>0, <1>2 DEF WalkFrame, WalkLabel
  <2>. QED  BY <1>1, <2>1
<1>4. In(r.todo) = {d}
  BY <1>3, InOne
<1>5. Walks(r) /\ Reads(r)
  BY <1>0, <1>3, <1>4 DEF Walks, Accounts, Reads, UpTo
<1>6. ASSUME NEW f \in FilesBelow(r.from) PROVE Handled(r, f)
  <2>1. Ahead(r, f)
    BY <1>3, <1>4 DEF Ahead
  <2>. QED  BY <1>3, <2>1 DEF Handled
<1>7. Accounts(r)
  BY <1>5, <1>6 DEF Accounts
<1>. QED  BY <1>0, <1>3, <1>7, QuietStep

\* A directory row is dropped when every file below it is in other hands
LEMMA DropDirKeeps ==
    ASSUME IndexInv, NEW p \in Walker, DropDir(p)
    PROVE  IndexInv'
<1>0. /\ Fr(p) \in WalkFrame /\ Fr(p).pc = "drop" /\ Accounts(Fr(p)) /\ Fr(p).entries = {}
      /\ queue' = queue \ {DirRow(Fr(p).from)} /\ UNCHANGED <<disk, index, due, lost>>
  BY FrameIs DEF DropDir
<1>1. TablesTyped'
  BY <1>0 DEF IndexInv, TablesTyped
<1>2. PICK d : d = Fr(p).from
  OBVIOUS
<1>3. PICK r \in WalkFrame : /\ Set(p, r) /\ r.pc = "dirs" /\ r.entries = {}
                             /\ r.read = Fr(p).read
  <2>. DEFINE r == [Fr(p) EXCEPT !.pc = "dirs", !.from = Gone]
  <2>1. r \in WalkFrame /\ r.pc = "dirs" /\ r.entries = {} /\ r.read = Fr(p).read
    BY <1>0 DEF WalkFrame, WalkLabel
  <2>. QED  BY <2>1 DEF DropDir
<1>4. \A f \in File \ lost : Kept(f) => Kept(f)'
  BY <1>0 DEF Kept
<1>5. ASSUME NEW f \in File \ lost, NEW n \in Nat, LeadsTo(queue, f, n)
      PROVE  Kept(f)' \/ LeadsTo(queue', f, n)
  <2>1. \A g : FileRow(g) # DirRow(d)
    BY DEF FileRow, DirRow
  <2>2. \A e : e # d => DirRow(e) # DirRow(d)
    BY DEF DirRow
  <2>3. CASE FileRow(f) \in queue
    BY <1>0, <1>2, <2>1, <2>3 DEF LeadsTo
  <2>4. ASSUME NEW e \in Dir, DirRow(e) \in queue, f \in FilesBelow(e), Depth[e] >= n, e # d
        PROVE  LeadsTo(queue', f, n)
    BY <1>0, <1>2, <2>2, <2>4 DEF LeadsTo
  <2>5. CASE d \in Dir /\ f \in FilesBelow(d) /\ Depth[d] >= n
    <3>1. Draining(Fr(p))
      BY <1>0, <1>2, <2>5, FileIndexAssumption DEF Draining
    <3>2. Handled(Fr(p), f)
      BY <1>0, <1>2, <2>5, <3>1 DEF Accounts
    <3>3. Kept(f) \/ LeadsTo(queue, f, Depth[d] + 1)
      BY <1>0, <1>2, <3>2 DEF Handled, Carrying
    <3>4. ASSUME NEW e \in Dir, Depth[e] >= Depth[d] + 1 PROVE e # d /\ Depth[e] >= n
      BY <2>5, <3>4, DepthIs DEF Path
    <3>5. LeadsTo(queue, f, Depth[d] + 1) => Kept(f)' \/ LeadsTo(queue', f, n)
      <4>1. ASSUME NEW e \in Dir, DirRow(e) \in queue, f \in FilesBelow(e),
                   Depth[e] >= Depth[d] + 1
            PROVE  LeadsTo(queue', f, n)
        BY <2>4, <3>4, <4>1
      <4>. QED  BY <2>3, <4>1 DEF LeadsTo
    <3>. QED  BY <1>4, <3>3, <3>5
  <2>. QED  BY <1>5, <2>3, <2>4, <2>5 DEF LeadsTo
<1>6. Steady /\ Unedited(r)
  BY <1>0, <1>4, <1>5 DEF Steady, Unedited
<1>7. Accounts(r)
  BY <1>3, FrameIs, RestAccounts
<1>. QED  BY <1>0, <1>1, <1>3, <1>6, <1>7, Undisturbed, IndexMoves

LEMMA TakeFileKeeps ==
    ASSUME IndexInv, NEW p \in Walker, TakeFile(p)
    PROVE  IndexInv'
<1>0. /\ Fr(p) \in WalkFrame /\ Fr(p).pc = "files" /\ Accounts(Fr(p)) /\ Fr(p).entries = {}
      /\ UNCHANGED <<disk, index, queue, due, lost>>
  BY FrameIs DEF TakeFile
<1>1. PICK f \in Fr(p).rows :
          Set(p, [Fr(p) EXCEPT !.pc = "write1", !.rows = @ \ {f}, !.at = f, !.ver = disk[f],
                               !.old = index[f]])
  BY DEF TakeFile
<1>2. f \in File /\ disk[f] \in Maybe /\ index[f] \in Maybe
  BY <1>0 DEF WalkFrame, IndexInv, TablesTyped
<1>3. PICK r \in WalkFrame :
          /\ Set(p, r) /\ r.pc = "write1" /\ r.entries = {} /\ r.read = Fr(p).read
          /\ r.at = f /\ r.ver = disk[f] /\ r.old = index[f]
  <2>. DEFINE r == [Fr(p) EXCEPT !.pc = "write1", !.rows = @ \ {f}, !.at = f, !.ver = disk[f],
                                 !.old = index[f]]
  <2>1. /\ r \in WalkFrame /\ r.pc = "write1" /\ r.entries = {} /\ r.read = Fr(p).read
        /\ r.at = f /\ r.ver = disk[f] /\ r.old = index[f]
    BY <1>0, <1>2 DEF WalkFrame, WalkLabel
  <2>. QED  BY <1>1, <2>1
<1>4. Accounts(r)
  BY <1>0, <1>2, <1>3 DEF Accounts, Walks, Reads, Draining, Carrying, Current
<1>. QED  BY <1>0, <1>3, <1>4, QuietStep

\* A queued file that cannot be read
LEMMA TakeFileFailsKeeps ==
    ASSUME IndexInv, NEW p \in Walker, TakeFileFails(p)
    PROVE  IndexInv'
<1>0. /\ Fr(p) \in WalkFrame /\ Fr(p).pc = "files" /\ Accounts(Fr(p)) /\ Fr(p).entries = {}
      /\ UNCHANGED <<disk, index, queue, due>>
  BY FrameIs DEF TakeFileFails
<1>1. PICK f \in Fr(p).rows :
          /\ lost' = IF index[f] = disk[f] THEN lost ELSE lost \cup {f}
          /\ Set(p, [Fr(p) EXCEPT !.pc = "drop1", !.rows = @ \ {f}, !.at = f])
  BY DEF TakeFileFails
<1>2. f \in File
  BY <1>0 DEF WalkFrame
<1>3. PICK r \in WalkFrame :
          /\ Set(p, r) /\ r.pc = "drop1" /\ r.entries = {} /\ r.read = Fr(p).read /\ r.at = f
  <2>. DEFINE r == [Fr(p) EXCEPT !.pc = "drop1", !.rows = @ \ {f}, !.at = f]
  <2>1. r \in WalkFrame /\ r.pc = "drop1" /\ r.entries = {} /\ r.read = Fr(p).read /\ r.at = f
    BY <1>0, <1>2 DEF WalkFrame, WalkLabel
  <2>. QED  BY <1>1, <2>1
<1>4. lost \subseteq lost' /\ lost' \subseteq File /\ (f \in lost' \/ index[f] = disk[f])
  BY <1>1, <1>2 DEF IndexInv, TablesTyped
<1>5. Steady
  BY <1>0, <1>4, LossIsSteady
<1>6. TablesTyped'
  BY <1>0, <1>4 DEF IndexInv, TablesTyped
<1>7. Accounts(r)'
  BY <1>0, <1>2, <1>3, <1>4 DEF Accounts, Walks, Reads, Draining, Carrying, Current
<1>. QED  BY <1>0, <1>3, <1>5, <1>6, <1>7, IndexMoves

\* A queued file whose row needs no change, or cannot have one
LEMMA SkipFileKeeps ==
    ASSUME IndexInv, NEW p \in Walker, SkipFile(p)
    PROVE  IndexInv'
<1>0. /\ Fr(p) \in WalkFrame /\ Fr(p).pc = "write1" /\ Accounts(Fr(p)) /\ Fr(p).entries = {}
      /\ (Passed(p) \/ Fr(p).ver = Gone) /\ UNCHANGED <<disk, index, queue, due, lost>>
  BY FrameIs DEF SkipFile
<1>1. PICK r \in WalkFrame :
          /\ Set(p, r) /\ r.pc = "drop1" /\ r.entries = {} /\ r.read = Fr(p).read
          /\ r.at = Fr(p).at
  <2>. DEFINE r == [Fr(p) EXCEPT !.pc = "drop1"]
  <2>1. /\ r \in WalkFrame /\ r.pc = "drop1" /\ r.entries = {} /\ r.read = Fr(p).read
        /\ r.at = Fr(p).at
    BY <1>0 DEF WalkFrame, WalkLabel
  <2>. QED  BY <2>1 DEF SkipFile
<1>2. /\ r.at \in File
      /\ r.at \in lost \/ index[r.at] = disk[r.at] \/ disk[r.at] \in Refused \cup {Gone}
  BY <1>0, <1>1 DEF Accounts, Reads, Current, Passed
<1>3. Accounts(r)
  BY <1>0, <1>1, <1>2 DEF Accounts, Walks, Reads, Draining, Carrying
<1>. QED  BY <1>0, <1>1, <1>3, QuietStep

LEMMA WriteFileKeeps ==
    ASSUME IndexInv, NEW p \in Walker, WriteFile(p)
    PROVE  IndexInv'
<1>0. /\ Fr(p) \in WalkFrame /\ Fr(p).pc = "write1" /\ Accounts(Fr(p)) /\ Fr(p).entries = {}
      /\ ~Passed(p) /\ Upserted(p) /\ UNCHANGED <<disk, queue, due, lost>>
  BY FrameIs DEF WriteFile
<1>1. PICK r \in WalkFrame :
          /\ Set(p, r) /\ r.pc = "drop1" /\ r.entries = {} /\ r.read = Fr(p).read
          /\ r.at = Fr(p).at
  <2>. DEFINE r == [Fr(p) EXCEPT !.pc = "drop1"]
  <2>1. /\ r \in WalkFrame /\ r.pc = "drop1" /\ r.entries = {} /\ r.read = Fr(p).read
        /\ r.at = Fr(p).at
    BY <1>0 DEF WalkFrame, WalkLabel
  <2>. QED  BY <2>1 DEF WriteFile
<1>2. /\ Steady /\ TablesTyped'
      /\ r.at \in File /\ (r.at \in lost \/ index'[r.at] = disk[r.at])
  BY <1>0, <1>1, UpsertIsSteady
<1>3. Accounts(r)'
  BY <1>0, <1>1, <1>2 DEF Accounts, Walks, Reads, Draining, Carrying, Current
<1>. QED  BY <1>0, <1>1, <1>2, <1>3, IndexMoves

LEMMA DropFileKeeps ==
    ASSUME IndexInv, NEW p \in Walker, DropFile(p)
    PROVE  IndexInv'
<1>0. /\ Fr(p) \in WalkFrame /\ Fr(p).pc = "drop1" /\ Accounts(Fr(p)) /\ Fr(p).entries = {}
      /\ UNCHANGED <<disk, index, due, lost>>
  BY FrameIs DEF DropFile
<1>1. Fr(p).at \in File /\ (Fr(p).at \in lost \/ Kept(Fr(p).at))
  BY <1>0 DEF Accounts, Reads, Kept
<1>2. PICK r \in WalkFrame : /\ Set(p, r) /\ r.pc = "files" /\ r.entries = {}
                             /\ r.read = Fr(p).read
  <2>1. "files" \in WalkLabel
    BY DEF WalkLabel
  <2>. QED  BY <1>0, <2>1, SettledIs DEF DropFile
<1>3. Accounts(r)
  BY <1>2, FrameIs, RestAccounts
<1>4. Steady /\ TablesTyped' /\ Unedited(r)
  BY <1>0, <1>1, DropIsSteady DEF DropFile
<1>. QED  BY <1>0, <1>2, <1>3, <1>4, Undisturbed, IndexMoves

-----------------------------------------------------------------------------
(* The workspace *)

\* No process moves
LEMMA IndexBeside ==
    ASSUME IndexInv, UNCHANGED walk, TablesTyped', Steady, \A p \in Walker : Unedited(walk[p])
    PROVE  IndexInv'
<1>1. walk' \in [Walker -> WalkFrame]
  BY DEF IndexInv
<1>2. NothingElseForgotten'
  BY StillRemembered DEF IndexInv
<1>3. ASSUME NEW p \in Walker PROVE Accounts(walk[p])'
  <2>1. PICK s \in WalkFrame : s = walk[p] /\ s = walk'[p]
    BY DEF IndexInv
  <2>2. Accounts(s)'
    BY <2>1, Undisturbed DEF IndexInv
  <2>. QED  BY <2>1, <2>2 DEF Accounts, Walks, Reads, Draining, Handled
<1>. QED  BY <1>1, <1>2, <1>3 DEF IndexInv

\* Whoever edits a file that a process holds loses it
LEMMA EditsKeep ==
    ASSUME IndexInv, NEW f \in File, NEW v \in Maybe, disk' = [disk EXCEPT ![f] = v],
           UNCHANGED <<index, queue, walk>>,
           \/ lost' = lost \cup {f} /\ UNCHANGED due
           \/ due' = due \cup {f} /\ lost' = (IF Held(f) THEN lost \cup {f} ELSE lost)
    PROVE  IndexInv'
<1>1. disk' \in [File -> Maybe] /\ \A g \in File : g # f => disk'[g] = disk[g]
  BY DEF IndexInv, TablesTyped
<1>2. TablesTyped'
  BY <1>1 DEF IndexInv, TablesTyped
<1>3. lost \subseteq lost' /\ due \subseteq due' /\ (f \notin lost' => f \in due' /\ ~Held(f))
  OBVIOUS
<1>4. ASSUME NEW g \in File \ lost' PROVE Kept(g) => Kept(g)'
  BY <1>1, <1>3 DEF Kept
<1>5. Steady
  BY <1>3, <1>4 DEF Steady
<1>6. ASSUME NEW p \in Walker PROVE Unedited(walk[p])
  BY <1>1, <1>3 DEF Unedited, Held, Fr
<1>. QED  BY <1>2, <1>5, <1>6, IndexBeside

LEMMA HookKeeps ==
    ASSUME IndexInv, NEW f \in File, HookEnqueue(f)
    PROVE  IndexInv'
<1>1. /\ due' = due \ {f} /\ queue' = queue \cup {FileRow(f)}
      /\ UNCHANGED <<disk, index, walk, lost>>
  BY DEF HookEnqueue
<1>2. TablesTyped'
  BY <1>1 DEF IndexInv, TablesTyped, FileRow, Row
<1>3. Steady
  BY <1>1 DEF Steady, Kept, LeadsTo
<1>4. \A p \in Walker : Unedited(walk[p])
  BY <1>1 DEF Unedited
<1>. QED  BY <1>1, <1>2, <1>3, <1>4, IndexBeside

LEMMA IndexInvInit == IndexInit => IndexInv
<1>. SUFFICES ASSUME IndexInit PROVE IndexInv
  OBVIOUS
<1>1. TablesTyped
  BY FileIndexAssumption DEF IndexInit, TablesTyped, Maybe, Row, DirRow
<1>2. walk \in [Walker -> WalkFrame] /\ \A p \in Walker : walk[p] = NoWalk
  BY NoWalkTyped DEF IndexInit
<1>3. \A p \in Walker : Accounts(walk[p])
  BY <1>2, NoWalkAccounts
<1>4. ASSUME NEW f \in File PROVE f \in FilesBelow(Root)
  <2>. DEFINE Reached(x) == /\ x \in File => x \in FilesBelow(Root)
                            /\ x \in Dir => FilesBelow(x) \subseteq FilesBelow(Root)
              S == {n \in Nat : \A x \in Path : Depth[x] <= n => Reached(x)}
  <2>1. ASSUME NEW x \in Path, x # Root
        PROVE  /\ Parent[x] \in Dir /\ x \in Children(Parent[x])
               /\ Depth[x] = Depth[Parent[x]] + 1
    BY <2>1, FileIndexAssumption, DepthIs DEF Children, Path
  <2>2. 0 \in S
    <3>1. ASSUME NEW x \in Path, Depth[x] <= 0 PROVE x = Root
      BY <2>1, <3>1, DepthIs DEF Path
    <3>2. Reached(Root)
      BY FileIndexAssumption
    <3>. QED  BY <3>1, <3>2
  <2>3. ASSUME NEW n \in S PROVE n + 1 \in S
    <3>1. SUFFICES ASSUME NEW x \in Path, Depth[x] <= n + 1, x # Root PROVE Reached(x)
      <4>1. Reached(Root)
        BY FileIndexAssumption
      <4>. HIDE DEF Reached
      <4>. QED  BY <4>1
    <3>2. PICK e \in Dir : e = Parent[x] /\ x \in Children(e) /\ Depth[x] = Depth[e] + 1
      BY <2>1, <3>1
    <3>3. e \in Path /\ Depth[e] <= n
      BY <3>1, <3>2, DepthIs DEF Path
    <3>4. FilesBelow(e) \subseteq FilesBelow(Root)
      BY <2>3, <3>2, <3>3
    <3>5. x \in File => x \in FilesBelow(Root)
      BY <3>2, <3>4, OwnFiles
    <3>6. x \in Dir => FilesBelow(x) \subseteq FilesBelow(Root)
      BY <3>2, <3>4, FilesOfSubdirectory
    <3>. QED  BY <3>5, <3>6
  <2>. HIDE DEF S
  <2>4. S = Nat
    BY <2>2, <2>3, SetOfNat DEF S
  <2>5. PICK n \in Nat : n = Depth[f]
    BY DepthIs DEF Path
  <2>6. f \in Path /\ n \in S /\ Depth[f] <= n
    BY <2>4, <2>5, DepthIs DEF Path
  <2>. QED  BY <2>6 DEF S
<1>5. NothingElseForgotten
  BY <1>4, FileIndexAssumption DEF NothingElseForgotten, IndexInit, Queued
<1>. QED  BY <1>1, <1>2, <1>3, <1>5 DEF IndexInv

LEMMA IndexInvStep ==
    ASSUME IndexInv, [IndexNext]_indexVars
    PROVE  IndexInv'
<1>1. CASE UNCHANGED indexVars
  <2>1. TablesTyped' /\ Steady /\ \A p \in Walker : Unedited(walk[p])
    BY <1>1 DEF indexVars, IndexInv, TablesTyped, Steady, Unedited, Kept, LeadsTo
  <2>. QED  BY <1>1, <2>1, IndexBeside DEF indexVars
<1>2. ASSUME NEW p \in Walker, EndDrain(p) \/ DieWalking(p) \/ WriteFileFails(p) PROVE IndexInv'
  <2>1. Set(p, NoWalk) /\ UNCHANGED <<disk, index, queue, due, lost>>
    BY <1>2 DEF EndDrain, DieWalking, WriteFileFails
  <2>. QED  BY <2>1, NoWalkTyped, NoWalkAccounts, QuietStep
<1>3. ASSUME NEW p \in Walker, WalkNext(p) PROVE IndexInv'
  BY <1>2, <1>3, FullWalkKeeps, EnterKeeps, EnterFailsKeeps, VisitKeeps, VisitFailsKeeps,
     OverweightKeeps, CutKeeps, WalkedKeeps, TakeKeeps, SkipWriteKeeps, WriteKeeps,
     UnqueueKeeps, WriteFailsKeeps, RequeueKeeps, PersistedKeeps, StartDrainKeeps,
     DrainDirKeeps, DropDirKeeps, FetchFilesKeeps, TakeFileKeeps, TakeFileFailsKeeps, SkipFileKeeps, WriteFileKeeps, DropFileKeeps DEF WalkNext
<1>4. ASSUME NEW f \in File, NEW v \in Maybe, ToolEdit(f, v) \/ OtherEdit(f, v) PROVE IndexInv'
  BY <1>4, EditsKeep DEF ToolEdit, OtherEdit
<1>. QED  BY <1>1, <1>3, <1>4, HookKeeps DEF IndexNext, Maybe

-----------------------------------------------------------------------------
\* No refused version is ever indexed, and tables and frames keep their types
THEOREM IndexTyped == IndexSpec => []IndexTypeOK
<1>1. IndexInit => IndexInv
  BY IndexInvInit
<1>2. IndexInv /\ [IndexNext]_indexVars => IndexInv'
  BY IndexInvStep
<1>3. IndexInv => IndexTypeOK
  BY DEF IndexInv, TablesTyped, IndexTypeOK, WalkFrame, Reading, Fr
<1>. QED  BY <1>1, <1>2, <1>3, PTL DEF IndexSpec

\* In any workspace, with any number of processes that walk, drain, race, fail and
\* die: the index forgets no file but those an edit passed by unseen or under a
\* read, and those behind a row that was dropped though its walk or its read was
\* cut short or threw
THEOREM NothingForgotten == IndexSpec => []NothingElseForgotten
<1>1. IndexInit => IndexInv
  BY IndexInvInit
<1>2. IndexInv /\ [IndexNext]_indexVars => IndexInv'
  BY IndexInvStep
<1>3. IndexInv => NothingElseForgotten
  BY DEF IndexInv
<1>. QED  BY <1>1, <1>2, <1>3, PTL DEF IndexSpec

(***************************************************************************)
(* The GitHub ingest.  First the lists, for any two states of a repository. *)
(***************************************************************************)
Apart(s) == \A i, j \in DOMAIN s : s[i] = s[j] => i = j

LEMMA KeepIn ==
    ASSUME NEW T, NEW s \in Seq(T), NEW kept
    PROVE  /\ Keep(s, kept) \in Seq(T) /\ Len(Keep(s, kept)) <= Len(s)
           /\ In(Keep(s, kept)) = In(s) \cap kept /\ (Apart(s) => Apart(Keep(s, kept)))
<1>1. In(Keep(s, kept)) = In(s) \cap kept
  BY KeepEntries DEF In
<1>2. Apart(s) => Apart(Keep(s, kept))
  BY KeepApart DEF Apart
<1>. QED  BY <1>1, <1>2, KeepPlaces

Cons(j, q) == <<j>> \o q

LEMMA ConsIs ==
    ASSUME NEW T, NEW q \in Seq(T), NEW j \in T
    PROVE  Cons(j, q) \in Seq(T) /\ Len(Cons(j, q)) = Len(q) + 1 /\ Cons(j, q)[1] = j
<1>1. <<j>> \in Seq(T) /\ Len(<<j>>) = 1 /\ <<j>>[1] = j
  OBVIOUS
<1>2. /\ Cons(j, q) \in Seq(T) /\ Len(Cons(j, q)) = 1 + Len(q)
      /\ \A i \in 1 .. 1 + Len(q) : Cons(j, q)[i] = IF i <= 1 THEN <<j>>[i] ELSE q[i - 1]
  BY <1>1, ConcatProperties DEF Cons
<1>3. Len(q) \in Nat
  OBVIOUS
<1>. QED  BY <1>1, <1>2, <1>3

LEMMA ConsUp ==
    ASSUME NEW T, NEW q \in Seq(T), NEW j \in T, NEW k \in DOMAIN q
    PROVE  k + 1 \in DOMAIN Cons(j, q) /\ Cons(j, q)[k + 1] = q[k]
<1>1. <<j>> \in Seq(T) /\ Len(<<j>>) = 1 /\ k \in Nat /\ k >= 1 /\ k <= Len(q)
  OBVIOUS
<1>2. /\ Cons(j, q) \in Seq(T) /\ Len(Cons(j, q)) = 1 + Len(q)
      /\ \A i \in 1 .. 1 + Len(q) : Cons(j, q)[i] = IF i <= 1 THEN <<j>>[i] ELSE q[i - 1]
  BY <1>1, ConcatProperties DEF Cons
<1>3. k + 1 \in 1 .. 1 + Len(q) /\ ~(k + 1 <= 1) /\ (k + 1) - 1 = k
  BY <1>1
<1>. QED  BY <1>2, <1>3

LEMMA ConsDown ==
    ASSUME NEW T, NEW q \in Seq(T), NEW j \in T, NEW k \in DOMAIN Cons(j, q), k # 1
    PROVE  k - 1 \in DOMAIN q /\ Cons(j, q)[k] = q[k - 1]
<1>1. <<j>> \in Seq(T) /\ Len(<<j>>) = 1 /\ Len(q) \in Nat
  OBVIOUS
<1>2. /\ Cons(j, q) \in Seq(T) /\ Len(Cons(j, q)) = 1 + Len(q)
      /\ \A i \in 1 .. 1 + Len(q) : Cons(j, q)[i] = IF i <= 1 THEN <<j>>[i] ELSE q[i - 1]
  BY <1>1, ConcatProperties DEF Cons
<1>3. k \in 1 .. 1 + Len(q) /\ k \in Nat /\ k > 1
  BY <1>1, <1>2
<1>. QED  BY <1>1, <1>2, <1>3

\* What an edit does to the order: its entry heads the list, no other overtakes
LEMMA Heads ==
    ASSUME NEW T, NEW s \in Seq(T), Apart(s), NEW j \in T, NEW t,
           t = Cons(j, Keep(s, T \ {j}))
    PROVE  /\ t \in Seq(T) /\ Apart(t) /\ In(t) = In(s) \cup {j}
           /\ \A i \in T \ {j} : Before(s, i) \subseteq Before(t, i)
<1>. DEFINE q == Keep(s, T \ {j})
<1>1. q \in Seq(T) /\ In(q) = In(s) \cap (T \ {j}) /\ Apart(q)
  BY KeepIn
<1>2. \A i \in T \ {j} : Before(q, i) = Before(s, i) \cap (T \ {j})
  BY KeepBefore
<1>0. t = Cons(j, q)
  OBVIOUS
<1>. HIDE DEF q
<1>3. t \in Seq(T) /\ Len(t) = Len(q) + 1 /\ t[1] = j
  <2>1. q \in Seq(T)
    BY <1>1
  <2>2. Cons(j, q) \in Seq(T) /\ Len(Cons(j, q)) = Len(q) + 1 /\ Cons(j, q)[1] = j
    BY <2>1, ConsIs
  <2>. QED  BY <1>0, <2>2
<1>4. /\ Len(q) \in Nat /\ 1 \in DOMAIN t /\ t[1] = j
      /\ DOMAIN t \subseteq Nat \ {0} /\ DOMAIN q \subseteq Nat
  <2>1. Len(q) \in Nat /\ DOMAIN q = 1 .. Len(q)
    BY <1>1
  <2>2. DOMAIN t = 1 .. Len(q) + 1
    BY <1>3
  <2>. QED  BY <1>3, <2>1, <2>2
<1>up. ASSUME NEW k \in DOMAIN q PROVE k + 1 \in DOMAIN t /\ t[k + 1] = q[k]
  BY <1>0, <1>1, ConsUp
<1>5. ASSUME NEW k \in DOMAIN t, k # 1 PROVE k - 1 \in DOMAIN q /\ t[k] = q[k - 1]
  BY <1>0, <1>1, <1>5, ConsDown
<1>6. \A k \in DOMAIN q : q[k] # j
  BY <1>1 DEF In
<1>7. Apart(t)
  <2>. SUFFICES ASSUME NEW k \in DOMAIN t, NEW l \in DOMAIN t, t[k] = t[l] PROVE k = l
    BY DEF Apart
  <2>1. CASE k = 1 \/ l = 1
    BY <1>4, <1>5, <1>6, <2>1
  <2>2. CASE k # 1 /\ l # 1
    <3>1. k - 1 \in DOMAIN q /\ l - 1 \in DOMAIN q /\ q[k - 1] = q[l - 1]
      BY <1>5, <2>2
    <3>2. k - 1 = l - 1
      BY <1>1, <3>1 DEF Apart
    <3>. QED  BY <1>4, <3>2
  <2>. QED  BY <2>1, <2>2
<1>8. In(s) \subseteq T
  BY DEF In
<1>9. In(t) = In(q) \cup {j}
  <2>1. ASSUME NEW k \in DOMAIN t PROVE t[k] \in In(q) \cup {j}
    <3>1. CASE k = 1
      BY <1>4, <3>1
    <3>2. CASE k # 1
      BY <1>5, <3>2 DEF In
    <3>. QED  BY <3>1, <3>2
  <2>2. j \in In(t)
    BY <1>4 DEF In
  <2>3. ASSUME NEW k \in DOMAIN q PROVE q[k] \in In(t)
    <3>1. k + 1 \in DOMAIN t /\ t[k + 1] = q[k]
      BY <1>up
    <3>. QED  BY <3>1 DEF In
  <2>. QED  BY <2>1, <2>2, <2>3 DEF In
<1>10. In(t) = In(s) \cup {j}
  BY <1>1, <1>8, <1>9
<1>11. ASSUME NEW i \in T \ {j} PROVE Before(s, i) \subseteq Before(t, i)
  <2>. SUFFICES ASSUME NEW x \in Before(s, i) PROVE x \in Before(t, i)
    OBVIOUS
  <2>1. PICK a \in DOMAIN s : x = s[a] /\ \E b \in DOMAIN s : a < b /\ s[b] = i
    BY DEF Before
  <2>2. CASE x = j
    <3>1. i \in In(t)
      BY <1>10, <2>1 DEF In
    <3>2. PICK b \in DOMAIN t : t[b] = i
      BY <3>1 DEF In
    <3>3. 1 \in DOMAIN t /\ 1 < b
      <4>1. b \in Nat \ {0} /\ b # 1
        BY <1>4, <3>2
      <4>. QED  BY <1>4, <4>1
    <3>. QED  BY <1>4, <2>2, <3>2, <3>3 DEF Before
  <2>3. CASE x # j
    <3>1. x \in Before(q, i)
      BY <1>2, <1>8, <2>1, <2>3 DEF In
    <3>2. PICK c \in DOMAIN q : x = q[c] /\ \E b \in DOMAIN q : c < b /\ q[b] = i
      BY <3>1 DEF Before
    <3>3. PICK b \in DOMAIN q : c < b /\ q[b] = i
      BY <3>2
    <3>4. /\ c + 1 \in DOMAIN t /\ b + 1 \in DOMAIN t /\ c + 1 < b + 1
          /\ t[c + 1] = x /\ t[b + 1] = i
      <4>1. c \in Nat /\ b \in Nat
        BY <1>4
      <4>2. c + 1 < b + 1
        BY <3>3, <4>1
      <4>. QED  BY <1>up, <3>2, <3>3, <4>2
    <3>. QED  BY <3>4 DEF Before
  <2>. QED  BY <2>2, <2>3
<1>. QED  BY <1>3, <1>7, <1>10, <1>11

\* An entry that is not among the first n is not there after it was overtaken
LEMMA StaysBeyond ==
    ASSUME NEW T, NEW s \in Seq(T), NEW t \in Seq(T), Apart(s), Apart(t), NEW i \in In(s),
           Before(s, i) \subseteq Before(t, i),
           NEW n \in Nat, \A k \in DOMAIN s : k <= n => s[k] # i
    PROVE  \A k \in DOMAIN t : k <= n => t[k] # i
<1>. SUFFICES ASSUME NEW b \in DOMAIN t, b <= n, t[b] = i PROVE FALSE
  OBVIOUS
<1>1. PICK a \in DOMAIN s : s[a] = i
  BY DEF In
<1>2. a <= b
  BY <1>1, Overtaken DEF Apart
<1>3. a \in Int /\ b \in Int
  OBVIOUS
<1>. QED  BY <1>1, <1>2, <1>3

\* i is the next after the first n of s, and j is among these
Slips(s, n, i, j) ==
    \E c, d \in DOMAIN s : c <= n /\ s[c] = j /\ d = n + 1 /\ s[d] = i

\* ... nor after one of those before it left, unless it was the next and one of
\* the first n did
LEMMA MovesUp ==
    ASSUME NEW T, NEW s \in Seq(T), NEW t \in Seq(T), Apart(s), Apart(t), NEW i \in In(s), NEW j,
           Before(s, i) \ {j} \subseteq Before(t, i),
           NEW n \in Nat, \A k \in DOMAIN s : k <= n => s[k] # i,
           ~Slips(s, n, i, j)
    PROVE  \A k \in DOMAIN t : k <= n => t[k] # i
<1>. SUFFICES ASSUME NEW b \in DOMAIN t, b <= n, t[b] = i PROVE FALSE
  OBVIOUS
<1>1. PICK a \in DOMAIN s : s[a] = i
  BY DEF In
<1>2. a \in Int /\ b \in Int /\ ~(a <= n)
  BY <1>1
<1>3. IsFiniteSet(Before(s, i)) /\ Cardinality(Before(s, i)) = a - 1
  BY <1>1, Rank DEF Apart
<1>4. IsFiniteSet(Before(t, i)) /\ Cardinality(Before(t, i)) = b - 1
  BY Rank DEF Apart
<1>5. CASE j \notin Before(s, i)
  <2>1. Before(s, i) \subseteq Before(t, i)
    BY <1>5
  <2>2. a - 1 <= b - 1
    BY <1>3, <1>4, <2>1, FS_Subset
  <2>. QED  BY <1>2, <2>2
<1>6. CASE j \in Before(s, i)
  <2>1. /\ IsFiniteSet(Before(s, i) \ {j})
        /\ Cardinality(Before(s, i) \ {j}) = Cardinality(Before(s, i)) - 1
    BY <1>3, <1>6, FS_RemoveElement
  <2>2. (a - 1) - 1 <= b - 1
    BY <1>3, <1>4, <2>1, FS_Subset
  <2>3. a = n + 1
    BY <1>2, <2>2
  <2>4. PICK c \in DOMAIN s : j = s[c] /\ \E d \in DOMAIN s : c < d /\ s[d] = i
    BY <1>6 DEF Before
  <2>5. c < a /\ c \in Int
    BY <1>1, <2>4 DEF Apart
  <2>6. c <= n
    BY <1>2, <2>3, <2>5
  <2>. QED  BY <1>1, <2>3, <2>4, <2>6 DEF Slips
<1>. QED  BY <1>5, <1>6

(***************************************************************************)
(* The ingest.  While a request that runs alone is on its way, every entry  *)
(* it owes is in the list and stored, held, or beyond the pages read.      *)
(***************************************************************************)
CaughtUp(i) == stored[i].ver = remote[i]
EntryAt(i, ver) == [id |-> i, ver |-> ver]
Holds(f, i) == EntryAt(i, remote[i]) \in In(f.got)
Beyond(f, i) ==
    \A k \in DOMAIN Listing(f.list) : k <= (f.page - 1) * PageSize => Listing(f.list)[k] # i
AtEntry == {"files", "select", "write", "comments", "checks"}

OnCourse(f) ==
    \A i \in f.due :
        /\ i \in Listed /\ i \in In(feed)
        /\ f.pc = "list" /\ i \in Own(f) => Holds(f, i) \/ Beyond(f, i)
        /\ f.pc \in AtEntry /\ i \in Own(f) => CaughtUp(i) \/ Holds(f, i)
        /\ f.pc \in AtEntry \cup {"list"} /\ f.list = "pulls" /\ i \in Issue => CaughtUp(i)
        /\ f.pc = "commits" => CaughtUp(i)
        /\ f.pc \in {"finalize", "done"} /\ f.ok => CaughtUp(i)

Orderly(f) ==
    /\ f.page # 0
    /\ f.pc \in {"files", "select", "write"} => f.got # << >>
    /\ f.pc \in {"files", "comments", "checks", "commits"} => f.list = "pulls"

Underway(f) == f.pc \notin {"idle", "done"}
\* While f owes anything no other request runs beside it, and what the one that
\* runs holds of it is as the repository has it
Alone(g) ==
    \A h \in Ingester : Underway(ingest[h]) =>
        /\ Underway(ingest[g]) /\ ingest[g].due # {} => h = g
        /\ \A e \in In(ingest[h].got) : e.id \in ingest[g].due => e.ver = remote[e.id]

FeedInv == Apart(feed) /\ \A i \in Listed : i \in In(feed) => remote[i] # 0
IngestInv ==
    /\ IngestTypeOK /\ FeedInv
    /\ \A g \in Ingester : Orderly(ingest[g]) /\ Alone(g) /\ OnCourse(ingest[g])

-----------------------------------------------------------------------------
LEMMA ListingIs ==
    ASSUME IngestTypeOK, FeedInv, NEW list \in {"issues", "pulls"}
    PROVE  /\ Listing(list) \in Seq(Listed) /\ Apart(Listing(list))
           /\ In(Listing(list)) = IF list = "pulls" THEN In(feed) \cap Pull ELSE In(feed)
<1>1. feed \in Seq(Listed) /\ Apart(feed)
  BY DEF IngestTypeOK, FeedInv
<1>2. CASE list = "issues"
  BY <1>1, <1>2 DEF Listing
<1>3. CASE list = "pulls"
  <2>1. Listing(list) = Keep(feed, Pull)
    BY <1>3 DEF Listing
  <2>. QED  BY <1>1, <1>3, <2>1, KeepIn
<1>. QED  BY <1>2, <1>3

LEMMA InSeq == ASSUME NEW T, NEW s \in Seq(T) PROVE In(s) \subseteq T
BY DEF In

\* The step of one request, whatever it did to the tables in between: its frame
\* r holds what it held or what the repository has now, and owes no more
LEMMA FrameStep ==
    ASSUME IngestInv, IngestTypeOK', NEW g \in Ingester, NEW f, f = ingest[g], Underway(f),
           NEW r \in IngestFrame, Settle(g, r), UNCHANGED <<feed, remote>>,
           \A i \in Listed : stored'[i].ver = stored[i].ver
                               \/ \E e \in In(f.got) : e.id = i /\ stored'[i].ver = e.ver,
           Orderly(r),
           \A e \in In(r.got) : e \in In(f.got) \/ e.ver = remote[e.id],
           r.due \subseteq f.due, OnCourse(r)'
    PROVE  IngestInv'
<1>1. /\ ingest' = [ingest EXCEPT ![g] = r] /\ ingest \in [Ingester -> IngestFrame]
      /\ ingest'[g] = r /\ \A h \in Ingester \ {g} : ingest'[h] = ingest[h]
  BY DEF Settle, IngestInv, IngestTypeOK
<1>2. FeedInv'
  BY DEF IngestInv, FeedInv, Apart, In
<1>3. feed' = feed /\ remote' = remote
  OBVIOUS
<1>4. ASSUME NEW h \in Ingester PROVE Orderly(ingest[h])'
  BY <1>1 DEF IngestInv, Orderly
<1>5. ASSUME NEW h \in Ingester
      PROVE  /\ Underway(ingest[h])' => Underway(ingest[h])
             /\ ingest'[h].due \subseteq ingest[h].due
  BY <1>1 DEF Underway
<1>6. ASSUME NEW h \in Ingester
      PROVE  Alone(h)'
  <2>. SUFFICES ASSUME NEW x \in Ingester, Underway(ingest[x])'
                PROVE  /\ Underway(ingest[h])' /\ ingest'[h].due # {} => x = h
                       /\ \A e \in In(ingest'[x].got) :
                              e.id \in ingest'[h].due => e.ver = remote'[e.id]
    BY DEF Alone, In
  <2>1. /\ Underway(ingest[h]) /\ ingest[h].due # {} => x = h
        /\ \A e \in In(ingest[x].got) : e.id \in ingest[h].due => e.ver = remote[e.id]
    BY <1>5 DEF IngestInv, Alone
  <2>2. \A e \in In(ingest'[x].got) : e \in In(ingest[x].got) \/ e.ver = remote[e.id]
    BY <1>1
  <2>. QED  BY <1>3, <1>5, <2>1, <2>2
<1>7. ASSUME NEW h \in Ingester PROVE OnCourse(ingest[h])'
  <2>1. CASE h = g
    BY <1>1, <2>1 DEF OnCourse, CaughtUp, Holds, Beyond, Own, Listing, In
  <2>2. CASE h # g
    <3>1. ingest'[h] = ingest[h] /\ Alone(h) /\ OnCourse(ingest[h])
      BY <1>1, <2>2 DEF IngestInv
    <3>2. ASSUME NEW i \in ingest[h].due
          PROVE  ingest[h].pc \in {"idle", "done"} /\ (CaughtUp(i) => CaughtUp(i)')
      <4>1. ~Underway(ingest[h])
        BY <2>2, <3>1 DEF Alone
      <4>2. i \in Listed
        BY <3>1 DEF OnCourse
      <4>3. \A e \in In(f.got) : e.id = i => e.ver = remote[i]
        BY <3>1 DEF Alone
      <4>. QED  BY <1>3, <4>1, <4>2, <4>3 DEF Underway, CaughtUp
    <3>. QED  BY <1>3, <3>1, <3>2 DEF OnCourse, AtEntry, In
  <2>. QED  BY <2>1, <2>2
<1>. QED  BY <1>2, <1>4, <1>6, <1>7 DEF IngestInv

-----------------------------------------------------------------------------
LEMMA SameCourse ==
    ASSUME NEW r, UNCHANGED <<feed, remote, stored>>
    PROVE  OnCourse(r)' <=> OnCourse(r)
BY DEF OnCourse, CaughtUp, Holds, Beyond, Own, Listing, In

\* Its frame alone moves on
LEMMA RequestStep ==
    ASSUME IngestInv, NEW g \in Ingester, NEW f, f = ingest[g], Underway(f),
           NEW r \in IngestFrame, Settle(g, r), UNCHANGED <<feed, remote, stored>>,
           health' \in {"connected", "error"}, Orderly(r),
           \A e \in In(r.got) : e \in In(f.got) \/ e.ver = remote[e.id],
           r.due \subseteq f.due, OnCourse(r)
    PROVE  IngestInv'
<1>1. IngestTypeOK'
  BY DEF IngestInv, IngestTypeOK, Settle
<1>2. \A i \in Listed : stored'[i].ver = stored[i].ver
  OBVIOUS
<1>3. OnCourse(r)' <=> OnCourse(r)
  BY SameCourse
<1>. QED  BY <1>1, <1>2, <1>3, FrameStep

LEMMA RequestIs ==
    ASSUME IngestInv, NEW g \in Ingester
    PROVE  /\ ingest[g] \in IngestFrame /\ Orderly(ingest[g]) /\ OnCourse(ingest[g])
           /\ ingest \in [Ingester -> IngestFrame]
BY DEF IngestInv, IngestTypeOK

LEMMA RestingIs ==
    /\ Resting \in IngestFrame /\ Orderly(Resting) /\ In(Resting.got) = {}
    /\ Resting.due = {} /\ Resting.page = 1 /\ Resting.list = "issues"
<1>1. Budget \in Nat
  BY IngestAssumption
<1>2. << >> \in Seq(Seen)
  OBVIOUS
<1>. QED  BY <1>1, <1>2 DEF Resting, IngestFrame, IngestLabel, Orderly, In

LEMMA DiesKeeps ==
    ASSUME IngestInv, NEW g \in Ingester, IngestDies(g)
    PROVE  IngestInv'
<1>1. PICK f : f = ingest[g]
  OBVIOUS
<1>2. Underway(f) /\ Settle(g, Resting) /\ UNCHANGED <<feed, remote, stored, health>>
  BY <1>1 DEF IngestDies, InFlight, Underway
<1>3. OnCourse(Resting)
  BY RestingIs DEF OnCourse
<1>4. health' \in {"connected", "error"}
  BY <1>2 DEF IngestInv, IngestTypeOK
<1>. QED  BY <1>1, <1>2, <1>3, <1>4, RestingIs, RequestStep

\* A request that gives up promises nothing
LEMMA ThrewKeeps ==
    ASSUME IngestInv, NEW g \in Ingester, Underway(ingest[g]), Threw(g),
           UNCHANGED <<feed, remote, stored, health>>
    PROVE  IngestInv'
<1>. DEFINE r == [Resting EXCEPT !.pc = "finalize"]
<1>1. r \in IngestFrame /\ Orderly(r) /\ In(r.got) = {} /\ r.due = {}
  BY RestingIs DEF Resting, IngestFrame, IngestLabel, Orderly
<1>2. Settle(g, r)
  BY DEF Threw
<1>3. health' \in {"connected", "error"}
  BY DEF IngestInv, IngestTypeOK
<1>. HIDE DEF r
<1>4. OnCourse(r)
  BY <1>1 DEF OnCourse
<1>. QED  BY <1>1, <1>2, <1>3, <1>4, RequestStep

LEMMA FinalizeKeeps ==
    ASSUME IngestInv, NEW g \in Ingester, FinalizeIngest(g)
    PROVE  IngestInv'
<1>1. PICK f : f = ingest[g]
  OBVIOUS
<1>2. f \in IngestFrame /\ Orderly(f) /\ f.pc = "finalize" /\ OnCourse(f) /\ Underway(f)
  BY <1>1, RequestIs DEF FinalizeIngest, Underway
<1>3. UNCHANGED <<feed, remote, stored>>
  BY DEF FinalizeIngest
<1>4. health' \in {"connected", "error"}
  BY DEF FinalizeIngest, IngestInv, IngestTypeOK
<1>5. CASE Settle(g, Resting)
  <2>1. OnCourse(Resting)
    BY RestingIs DEF OnCourse
  <2>. QED  BY <1>1, <1>2, <1>3, <1>4, <1>5, <2>1, RestingIs, RequestStep
<1>. DEFINE r == [Resting EXCEPT !.pc = "done", !.ok = f.ok, !.due = f.due]
<1>6. CASE Settle(g, r)
  <2>1. /\ r \in IngestFrame /\ Orderly(r) /\ In(r.got) = {} /\ r.due = f.due
        /\ r.pc = "done" /\ r.ok = f.ok
    BY <1>2, RestingIs DEF Resting, IngestFrame, IngestLabel, Orderly
  <2>. HIDE DEF r
  <2>2. OnCourse(r)
    BY <1>2, <2>1 DEF OnCourse, AtEntry
  <2>. QED  BY <1>1, <1>2, <1>3, <1>4, <1>6, <2>1, <2>2, RequestStep
<1>. QED  BY <1>1, <1>5, <1>6 DEF FinalizeIngest

LEMMA CommitsKeep ==
    ASSUME IngestInv, NEW g \in Ingester, FetchCommits(g)
    PROVE  IngestInv'
<1>1. PICK f : f = ingest[g]
  OBVIOUS
<1>2. f \in IngestFrame /\ Orderly(f) /\ f.pc = "commits" /\ OnCourse(f) /\ Underway(f)
  BY <1>1, RequestIs DEF FetchCommits, Underway
<1>3. UNCHANGED <<feed, remote, stored, health>> /\ health' \in {"connected", "error"}
  BY DEF FetchCommits, IngestInv, IngestTypeOK
<1>4. CASE Threw(g)
  BY <1>1, <1>2, <1>3, <1>4, ThrewKeeps
<1>5. CASE Settle(g, [f EXCEPT !.pc = "finalize", !.ok = TRUE])
  <2>1. PICK r : r = [f EXCEPT !.pc = "finalize", !.ok = TRUE]
    OBVIOUS
  <2>2. /\ r \in IngestFrame /\ r.got = f.got /\ r.due = f.due /\ r.pc = "finalize"
        /\ r.page = f.page
    BY <1>2, <2>1 DEF IngestFrame, IngestLabel
  <2>3. Orderly(r)
    BY <1>2, <2>2 DEF Orderly
  <2>4. OnCourse(r)
    BY <1>2, <2>2 DEF OnCourse, AtEntry
  <2>. QED  BY <1>1, <1>2, <1>3, <1>5, <2>1, <2>2, <2>3, <2>4, RequestStep
<1>. QED  BY <1>1, <1>4, <1>5 DEF FetchCommits

\* Within one entry: neither the list nor what is held changes
LEMMA SameEntry ==
    ASSUME NEW f, NEW r, f.pc \in AtEntry, r.pc \in AtEntry, r.list = f.list, r.got = f.got,
           r.due = f.due, OnCourse(f)
    PROVE  OnCourse(r)
<1>1. r.pc \notin {"list", "commits", "finalize", "done"}
  BY DEF AtEntry
<1>. QED  BY <1>1 DEF OnCourse, CaughtUp, Holds, Own

\* The four outcomes of a secondary request leave its frame as k but for the budget
LEMMA SecondaryIs ==
    ASSUME IngestInv, NEW g \in Ingester, NEW a \in IngestFrame, NEW m \in IngestFrame,
           Secondary(g, a, m), ingest[g].spent \in 0 .. Budget,
           a.spent = ingest[g].spent, m.spent = ingest[g].spent
    PROVE  \E r \in IngestFrame, k \in {a, m} :
               /\ Settle(g, r)
               /\ r.pc = k.pc /\ r.list = k.list /\ r.page = k.page /\ r.got = k.got
               /\ r.due = k.due /\ r.ok = k.ok
<1>1. Budget \in Nat
  BY IngestAssumption
<1>2. CASE ingest[g].spent < Budget /\ Settle(g, [a EXCEPT !.spent = @ + 1])
  <2>. DEFINE r == [a EXCEPT !.spent = @ + 1]
  <2>1. a.spent + 1 \in 0 .. Budget
    BY <1>1, <1>2
  <2>2. /\ r \in IngestFrame /\ r.pc = a.pc /\ r.list = a.list /\ r.page = a.page /\ r.got = a.got
        /\ r.due = a.due /\ r.ok = a.ok
    BY <2>1 DEF IngestFrame
  <2>. QED  BY <1>2, <2>2
<1>3. ASSUME NEW limit \in BOOLEAN, Settle(g, [m EXCEPT !.limited = @ \/ limit])
      PROVE  \E r \in IngestFrame :
               /\ Settle(g, r)
               /\ r.pc = m.pc /\ r.list = m.list /\ r.page = m.page /\ r.got = m.got
               /\ r.due = m.due /\ r.ok = m.ok
  <2>. DEFINE r == [m EXCEPT !.limited = @ \/ limit]
  <2>1. m.limited \in BOOLEAN
    BY DEF IngestFrame
  <2>2. (m.limited \/ limit) \in BOOLEAN
    BY <2>1
  <2>3. /\ r \in IngestFrame /\ r.pc = m.pc /\ r.list = m.list /\ r.page = m.page /\ r.got = m.got
        /\ r.due = m.due /\ r.ok = m.ok
    BY <2>2 DEF IngestFrame
  <2>. QED  BY <1>3, <2>3
<1>4. CASE Settle(g, m)
  BY <1>4
<1>. QED  BY <1>2, <1>3, <1>4 DEF Secondary

LEMMA FilesKeep ==
    ASSUME IngestInv, NEW g \in Ingester, FetchPullFiles(g)
    PROVE  IngestInv'
<1>1. PICK f : f = ingest[g]
  OBVIOUS
<1>2. f \in IngestFrame /\ Orderly(f) /\ f.pc = "files" /\ OnCourse(f) /\ Underway(f)
  BY <1>1, RequestIs DEF FetchPullFiles, Underway
<1>. DEFINE s == [f EXCEPT !.pc = "select"]
            a == [s EXCEPT !.files = TRUE]
            m == [s EXCEPT !.files = FALSE]
<1>3. \A k \in {a, m} :
        /\ k \in IngestFrame /\ k.pc = "select" /\ k.list = f.list /\ k.page = f.page /\ k.got = f.got
        /\ k.due = f.due /\ k.spent = f.spent
  BY <1>2 DEF IngestFrame, IngestLabel
<1>4. Secondary(g, a, m) /\ UNCHANGED <<feed, remote, stored, health>>
  BY <1>1 DEF FetchPullFiles
<1>5. f.spent \in 0 .. Budget /\ health' \in {"connected", "error"}
  BY <1>2, <1>4 DEF IngestFrame, IngestInv, IngestTypeOK
<1>. HIDE DEF a, m
<1>6. PICK r \in IngestFrame, k \in {a, m} :
          /\ Settle(g, r)
          /\ r.pc = k.pc /\ r.list = k.list /\ r.page = k.page /\ r.got = k.got
          /\ r.due = k.due /\ r.ok = k.ok
  BY <1>1, <1>3, <1>4, <1>5, SecondaryIs
<1>7. /\ r.pc = "select" /\ r.list = f.list /\ r.page = f.page /\ r.got = f.got
      /\ r.due = f.due
  BY <1>3, <1>6
<1>8. Orderly(r)
  BY <1>2, <1>7 DEF Orderly
<1>9. OnCourse(r)
  BY <1>2, <1>7, SameEntry DEF AtEntry
<1>. QED  BY <1>1, <1>2, <1>4, <1>5, <1>6, <1>7, <1>8, <1>9, RequestStep

LEMMA CommentsKeep ==
    ASSUME IngestInv, NEW g \in Ingester, FetchComments(g)
    PROVE  IngestInv'
<1>1. PICK f : f = ingest[g]
  OBVIOUS
<1>2. f \in IngestFrame /\ Orderly(f) /\ f.pc = "comments" /\ OnCourse(f) /\ Underway(f)
  BY <1>1, RequestIs DEF FetchComments, Underway
<1>. DEFINE a == [f EXCEPT !.pc = "checks"]
<1>3. /\ a \in IngestFrame /\ a.pc = "checks" /\ a.list = f.list /\ a.page = f.page /\ a.got = f.got
      /\ a.due = f.due /\ a.spent = f.spent
  BY <1>2 DEF IngestFrame, IngestLabel
<1>4. Secondary(g, a, a) /\ UNCHANGED <<feed, remote, stored, health>>
  BY <1>1 DEF FetchComments
<1>5. f.spent \in 0 .. Budget /\ health' \in {"connected", "error"}
  BY <1>2, <1>4 DEF IngestFrame, IngestInv, IngestTypeOK
<1>. HIDE DEF a
<1>6. PICK r \in IngestFrame, k \in {a, a} :
          /\ Settle(g, r)
          /\ r.pc = k.pc /\ r.list = k.list /\ r.page = k.page /\ r.got = k.got
          /\ r.due = k.due /\ r.ok = k.ok
  BY <1>1, <1>3, <1>4, <1>5, SecondaryIs
<1>7. /\ r.pc = "checks" /\ r.list = f.list /\ r.page = f.page /\ r.got = f.got
      /\ r.due = f.due
  BY <1>3, <1>6
<1>8. Orderly(r)
  BY <1>2, <1>7 DEF Orderly
<1>9. OnCourse(r)
  BY <1>2, <1>7, SameEntry DEF AtEntry
<1>. QED  BY <1>1, <1>2, <1>4, <1>5, <1>6, <1>7, <1>8, <1>9, RequestStep

LEMMA SelectKeeps ==
    ASSUME IngestInv, NEW g \in Ingester, SelectItem(g)
    PROVE  IngestInv'
<1>1. PICK f : f = ingest[g]
  OBVIOUS
<1>2. f \in IngestFrame /\ Orderly(f) /\ f.pc = "select" /\ OnCourse(f) /\ Underway(f)
  BY <1>1, RequestIs DEF SelectItem, Underway
<1>. DEFINE r == [f EXCEPT !.pc = "write", !.hit = stored[Head(f.got).id].ver # 0]
<1>3. UNCHANGED <<feed, remote, stored, health>> /\ health' \in {"connected", "error"}
  BY DEF SelectItem, IngestInv, IngestTypeOK
<1>4. CASE Settle(g, r)
  <2>1. /\ r \in IngestFrame /\ r.pc = "write" /\ r.list = f.list /\ r.got = f.got
        /\ r.due = f.due /\ r.page = f.page
    BY <1>2 DEF IngestFrame, IngestLabel
  <2>2. PICK q : q = r
    OBVIOUS
  <2>. HIDE DEF r
  <2>3. Orderly(q)
    BY <1>2, <2>1, <2>2 DEF Orderly
  <2>4. OnCourse(q)
    BY <1>2, <2>1, <2>2, SameEntry DEF AtEntry
  <2>. QED  BY <1>1, <1>2, <1>3, <1>4, <2>1, <2>2, <2>3, <2>4, RequestStep
<1>5. CASE Threw(g)
  BY <1>1, <1>2, <1>3, <1>5, ThrewKeeps
<1>. QED  BY <1>1, <1>4, <1>5 DEF SelectItem

-----------------------------------------------------------------------------
\* The list at hand is read to its end, and what it had is stored or held
Through(f) ==
    \A i \in f.due :
        /\ i \in Listed /\ i \in In(feed)
        /\ i \in Own(f) => CaughtUp(i) \/ Holds(f, i)
        /\ f.list = "pulls" /\ i \in Issue => CaughtUp(i)

LEMMA SameFrame ==
    ASSUME NEW f, NEW r, r.pc = f.pc, r.list = f.list, r.page = f.page, r.got = f.got,
           r.due = f.due, r.ok = f.ok
    PROVE  OnCourse(f) => OnCourse(r)
BY DEF OnCourse, CaughtUp, Holds, Beyond, Own

LEMMA NextEntryKeeps ==
    ASSUME IngestInv, feed' = feed, NEW f \in IngestFrame, f.page # 0, NEW r, r = NextEntry(f)
    PROVE  /\ r \in IngestFrame /\ Orderly(r)
           /\ r.got = f.got /\ r.due = f.due /\ r.spent = f.spent
           /\ Through(f)' => OnCourse(r)'
<1>1. f.list \in {"issues", "pulls"} /\ f.got \in Seq(Seen) /\ PageSize \in Nat
  BY IngestAssumption DEF IngestFrame
<1>2. CASE f.got # << >> /\ f.list = "pulls"
  <2>1. r = [f EXCEPT !.pc = "files"]
    BY <1>2 DEF NextEntry
  <2>2. /\ r \in IngestFrame /\ r.pc = "files" /\ r.got = f.got /\ r.due = f.due /\ r.list = f.list
        /\ r.spent = f.spent /\ r.page = f.page
    BY <2>1 DEF IngestFrame, IngestLabel
  <2>. QED  BY <1>2, <2>2 DEF Orderly, OnCourse, Through, AtEntry, CaughtUp, Holds, Own
<1>3. CASE f.got # << >> /\ f.list = "issues"
  <2>0. f.list # "pulls" /\ f.got # << >>
    BY <1>3
  <2>1. r = [f EXCEPT !.pc = "select"]
    BY <2>0 DEF NextEntry
  <2>2. /\ r \in IngestFrame /\ r.pc = "select" /\ r.got = f.got /\ r.due = f.due /\ r.list = f.list
        /\ r.spent = f.spent /\ r.page = f.page
    BY <2>1 DEF IngestFrame, IngestLabel
  <2>. QED  BY <1>3, <2>2 DEF Orderly, OnCourse, Through, AtEntry, CaughtUp, Holds, Own
<1>4. CASE f.got = << >> /\ f.list = "issues"
  <2>1. r = [f EXCEPT !.pc = "list", !.list = "pulls", !.page = 1]
    BY <1>4 DEF NextEntry
  <2>2. /\ r \in IngestFrame /\ r.pc = "list" /\ r.got = f.got /\ r.due = f.due /\ r.list = "pulls"
        /\ r.spent = f.spent /\ r.page = 1
    <3>1. 1 \in Nat /\ "list" \in IngestLabel /\ "pulls" \in {"issues", "pulls"}
      BY DEF IngestLabel
    <3>2. r \in IngestFrame
      BY <2>1, <3>1 DEF IngestFrame
    <3>. QED  BY <2>1, <3>2 DEF IngestFrame
  <2>3. Orderly(r)
    BY <2>2 DEF Orderly
  <2>4. ASSUME NEW i \in Listed PROVE Beyond(r, i)'
    <3>1. Listing("pulls") \in Seq(Listed) /\ Listing("pulls")' = Listing("pulls")
      BY ListingIs DEF IngestInv, Listing
    <3>2. (r.page - 1) * PageSize = 0
      BY <1>1, <2>2
    <3>3. \A k \in DOMAIN Listing("pulls") : k >= 1
      BY <3>1
    <3>. QED  BY <2>2, <3>1, <3>2, <3>3 DEF Beyond
  <2>5. In(f.got) = {}
    BY <1>4 DEF In
  <2>6. ASSUME Through(f)' PROVE OnCourse(r)'
    <3>1. \A i \in f.due : i \in Issue => CaughtUp(i)'
      BY <1>4, <2>5, <2>6 DEF Through, Own, Listed, Holds
    <3>. QED  BY <2>2, <2>4, <2>6, <3>1 DEF OnCourse, Through, AtEntry, CaughtUp
  <2>. QED  BY <2>2, <2>3, <2>6
<1>5. CASE f.got = << >> /\ f.list = "pulls"
  <2>1. r = [f EXCEPT !.pc = "commits"]
    BY <1>5 DEF NextEntry
  <2>2. /\ r \in IngestFrame /\ r.pc = "commits" /\ r.got = f.got /\ r.due = f.due /\ r.list = f.list
        /\ r.spent = f.spent /\ r.page = f.page
    BY <2>1 DEF IngestFrame, IngestLabel
  <2>3. Orderly(r)
    BY <1>5, <2>2 DEF Orderly
  <2>4. In(f.got) = {}
    BY <1>5 DEF In
  <2>5. ASSUME Through(f)' PROVE OnCourse(r)'
    <3>1. \A i \in f.due : CaughtUp(i)'
      BY <1>5, <2>4, <2>5 DEF Through, Own, Listed, Holds
    <3>. QED  BY <2>2, <2>5, <3>1 DEF OnCourse, Through, AtEntry, CaughtUp
  <2>. QED  BY <2>2, <2>3, <2>5
<1>. QED  BY <1>1, <1>2, <1>3, <1>4, <1>5

LEMMA ChecksKeep ==
    ASSUME IngestInv, NEW g \in Ingester, FetchChecks(g)
    PROVE  IngestInv'
<1>1. PICK f : f = ingest[g]
  OBVIOUS
<1>2. f \in IngestFrame /\ Orderly(f) /\ f.pc = "checks" /\ OnCourse(f) /\ Underway(f)
  BY <1>1, RequestIs DEF FetchChecks, Underway
<1>3. PICK a : a = NextEntry(f)
  OBVIOUS
<1>4. Secondary(g, a, a) /\ UNCHANGED <<feed, remote, stored, health>>
  BY <1>1, <1>3 DEF FetchChecks
<1>5. f.spent \in 0 .. Budget /\ health' \in {"connected", "error"}
  BY <1>2, <1>4 DEF IngestFrame, IngestInv, IngestTypeOK
<1>6. /\ a \in IngestFrame /\ Orderly(a)
      /\ a.got = f.got /\ a.due = f.due /\ a.spent = f.spent
      /\ Through(f)' => OnCourse(a)'
  <2>1. f.page # 0 /\ feed' = feed
    BY <1>2, <1>4 DEF Orderly
  <2>. QED  BY <1>2, <1>3, <2>1, NextEntryKeeps
<1>7. PICK r \in IngestFrame, k \in {a, a} :
          /\ Settle(g, r)
          /\ r.pc = k.pc /\ r.list = k.list /\ r.page = k.page /\ r.got = k.got
          /\ r.due = k.due /\ r.ok = k.ok
  BY <1>1, <1>4, <1>5, <1>6, SecondaryIs
<1>8. Orderly(r)
  BY <1>6, <1>7 DEF Orderly
<1>9. OnCourse(r)
  <2>1. Through(f)
    BY <1>2 DEF OnCourse, Through, AtEntry
  <2>2. Through(f)'
    BY <1>4, <2>1 DEF Through, CaughtUp, Holds, Own, In
  <2>3. OnCourse(a)
    BY <1>4, <1>6, <2>2, SameCourse
  <2>. QED  BY <1>7, <2>3, SameFrame
<1>. QED  BY <1>1, <1>2, <1>4, <1>5, <1>6, <1>7, <1>8, <1>9, RequestStep

LEMMA WriteItemKeeps ==
    ASSUME IngestInv, NEW g \in Ingester, WriteItem(g)
    PROVE  IngestInv'
<1>1. PICK f : f = ingest[g]
  OBVIOUS
<1>2. f \in IngestFrame /\ Orderly(f) /\ f.pc = "write" /\ OnCourse(f) /\ Underway(f)
  BY <1>1, RequestIs DEF WriteItem, Underway
<1>3. PICK e : e = Head(f.got)
  OBVIOUS
<1>4. f.got \in Seq(Seen) /\ f.got # << >> /\ f.page # 0
  BY <1>2 DEF IngestFrame, Orderly
<1>5. /\ e \in Seen /\ e \in In(f.got) /\ Tail(f.got) \in Seq(Seen)
      /\ In(f.got) = {e} \cup In(Tail(f.got))
  BY <1>3, <1>4, InTail
<1>. DEFINE after == [f EXCEPT !.got = Tail(@), !.files = FALSE, !.hit = FALSE]
<1>6. UNCHANGED <<feed, remote, health>>
  BY DEF WriteItem
<1>7. CASE Threw(g) /\ UNCHANGED stored
  BY <1>1, <1>2, <1>6, <1>7, ThrewKeeps
<1>8. CASE /\ stored' = [stored EXCEPT ![e.id] = [ver |-> e.ver, files |-> f.files]]
           /\ IF f.list = "pulls" THEN Settle(g, [after EXCEPT !.pc = "comments"])
                                  ELSE Settle(g, NextEntry(after))
  <2>1. PICK s : s = after
    OBVIOUS
  <2>2. /\ s \in IngestFrame /\ s.pc = "write" /\ s.list = f.list /\ s.page = f.page
        /\ s.got = Tail(f.got) /\ s.due = f.due
    BY <1>2, <1>5, <2>1 DEF IngestFrame
  <2>3. /\ stored' \in [Listed -> ItemRow] /\ stored'[e.id].ver = e.ver
        /\ \A i \in Listed \ {e.id} : stored'[i] = stored[i]
    <3>1. stored \in [Listed -> ItemRow]
      BY DEF IngestInv, IngestTypeOK
    <3>2. e.id \in Listed /\ [ver |-> e.ver, files |-> f.files] \in ItemRow
      <4>1. MaxVersion \in Nat
        BY IngestAssumption
      <4>. QED  BY <1>2, <1>5, <4>1 DEF Seen, ItemRow, IngestFrame
    <3>. QED  BY <1>8, <3>1, <3>2
  <2>4. Through(s)'
    <3>. SUFFICES ASSUME NEW i \in f.due
                  PROVE  /\ i \in Listed /\ i \in In(feed)
                         /\ i \in Own(f) => CaughtUp(i)' \/ Holds(s, i)'
                         /\ f.list = "pulls" /\ i \in Issue => CaughtUp(i)'
      BY <1>6, <2>2 DEF Through, Own, Holds, In
    <3>1. /\ i \in Listed /\ i \in In(feed)
          /\ i \in Own(f) => CaughtUp(i) \/ Holds(f, i)
          /\ f.list = "pulls" /\ i \in Issue => CaughtUp(i)
      BY <1>2 DEF OnCourse, AtEntry
    <3>2. e.id = i => e.ver = remote[i]
      BY <1>1, <1>2, <1>5 DEF IngestInv, Alone
    <3>3. CaughtUp(i) => CaughtUp(i)'
      BY <1>6, <2>3, <3>1, <3>2 DEF CaughtUp
    <3>4. Holds(f, i) => CaughtUp(i)' \/ Holds(s, i)'
      <4>1. CASE EntryAt(i, remote[i]) = e
        BY <1>6, <2>3, <3>2, <4>1 DEF CaughtUp, EntryAt
      <4>2. CASE EntryAt(i, remote[i]) # e
        BY <1>5, <1>6, <2>2, <4>2 DEF Holds, In
      <4>. QED  BY <4>1, <4>2
    <3>. QED  BY <3>1, <3>3, <3>4
  <2>5. \A i \in Listed : stored'[i].ver = stored[i].ver
                            \/ \E d \in In(f.got) : d.id = i /\ stored'[i].ver = d.ver
    BY <1>5, <2>3
  <2>6. ASSUME NEW r \in IngestFrame, Settle(g, r), Orderly(r),
               r.got = s.got, r.due = s.due, Through(s)' => OnCourse(r)'
        PROVE  IngestInv'
    <3>1. IngestTypeOK'
      BY <1>6, <2>3, <2>6 DEF IngestInv, IngestTypeOK, Settle
    <3>2. \A d \in In(r.got) : d \in In(f.got)
      BY <1>5, <2>2, <2>6
    <3>. QED  BY <1>1, <1>2, <1>6, <2>2, <2>4, <2>5, <2>6, <3>1, <3>2, FrameStep
  <2>7. CASE f.list = "pulls"
    <3>1. PICK r : r = [s EXCEPT !.pc = "comments"]
      OBVIOUS
    <3>2. /\ r \in IngestFrame /\ r.pc = "comments" /\ r.list = s.list /\ r.page = s.page
          /\ r.got = s.got /\ r.due = s.due
      BY <2>2, <3>1 DEF IngestFrame, IngestLabel
    <3>3. Orderly(r)
      BY <1>4, <2>2, <2>7, <3>2 DEF Orderly
    <3>4. Through(s)' => OnCourse(r)'
      BY <3>2 DEF Through, OnCourse, AtEntry, CaughtUp, Holds, Own
    <3>5. Settle(g, r)
      BY <1>8, <2>1, <2>7, <3>1
    <3>. QED  BY <2>6, <3>2, <3>3, <3>4, <3>5
  <2>8. CASE f.list # "pulls"
    <3>1. PICK r : r = NextEntry(s)
      OBVIOUS
    <3>2. Settle(g, r)
      BY <1>8, <2>1, <2>8, <3>1
    <3>3. s.page # 0 /\ feed' = feed
      BY <1>4, <1>6, <2>2
    <3>. QED  BY <2>2, <2>6, <3>1, <3>2, <3>3, NextEntryKeeps
  <2>. QED  BY <2>7, <2>8
<1>. QED  BY <1>1, <1>3, <1>7, <1>8 DEF WriteItem

-----------------------------------------------------------------------------
(* One page *)
LEMMA InConcat ==
    ASSUME NEW T, NEW s \in Seq(T), NEW t \in Seq(T)
    PROVE  s \o t \in Seq(T) /\ In(s \o t) = In(s) \cup In(t)
<1>1. PICK c : c = s \o t
  OBVIOUS
<1>2. /\ c \in Seq(T) /\ Len(c) = Len(s) + Len(t)
      /\ \A i \in 1 .. Len(s) + Len(t) : c[i] = IF i <= Len(s) THEN s[i] ELSE t[i - Len(s)]
  BY <1>1, ConcatProperties
<1>3. /\ Len(s) \in Nat /\ Len(t) \in Nat /\ DOMAIN s = 1 .. Len(s) /\ DOMAIN t = 1 .. Len(t)
      /\ DOMAIN c = 1 .. Len(s) + Len(t)
  BY <1>2
<1>4. ASSUME NEW i \in DOMAIN s PROVE s[i] \in In(c)
  <2>1. i \in DOMAIN c /\ c[i] = s[i]
    BY <1>2, <1>3
  <2>. QED  BY <2>1 DEF In
<1>5. ASSUME NEW i \in DOMAIN t PROVE t[i] \in In(c)
  <2>1. i + Len(s) \in 1 .. Len(s) + Len(t) /\ ~(i + Len(s) <= Len(s)) /\ (i + Len(s)) - Len(s) = i
    BY <1>3
  <2>2. i + Len(s) \in DOMAIN c /\ c[i + Len(s)] = t[i]
    BY <1>2, <1>3, <2>1
  <2>. QED  BY <2>2 DEF In
<1>6. ASSUME NEW i \in DOMAIN c PROVE c[i] \in In(s) \cup In(t)
  <2>1. CASE i <= Len(s)
    BY <1>2, <1>3, <2>1 DEF In
  <2>2. CASE ~(i <= Len(s))
    <3>1. i - Len(s) \in DOMAIN t
      BY <1>3, <2>2
    <3>. QED  BY <1>2, <1>3, <2>2, <3>1 DEF In
  <2>. QED  BY <2>1, <2>2
<1>7. In(c) = In(s) \cup In(t)
  BY <1>4, <1>5, <1>6 DEF In
<1>. QED  BY <1>1, <1>2, <1>7

\* Page n shows the entries at its places as they are now, and is short only at
\* the end of the list
LEMMA PageIs ==
    ASSUME IngestInv, NEW list \in {"issues", "pulls"}, NEW n \in Nat \ {0},
           NEW order, order = Listing(list), NEW page, page = Page(list, n)
    PROVE  /\ page \in Seq(Seen) /\ (\A e \in In(page) : e.ver = remote[e.id])
           /\ \A k \in DOMAIN order : (n - 1) * PageSize < k /\ k <= n * PageSize
                  => EntryAt(order[k], remote[order[k]]) \in In(page)
<1>1. order \in Seq(Listed) /\ In(order) \subseteq In(feed)
  BY ListingIs DEF IngestInv
<1>2. \A k \in DOMAIN order : order[k] \in Listed /\ remote[order[k]] \in 1 .. MaxVersion
  <2>1. \A i \in In(feed) : i \in Listed => remote[i] # 0
    BY DEF IngestInv, FeedInv
  <2>2. remote \in [Listed -> 0 .. MaxVersion] /\ MaxVersion \in Nat
    BY IngestAssumption DEF IngestInv, IngestTypeOK
  <2>3. \A k \in DOMAIN order : order[k] \in In(feed) /\ order[k] \in Listed
    BY <1>1 DEF In
  <2>. QED  BY <2>1, <2>2, <2>3
<1>3. PICK from, to : from = (n - 1) * PageSize /\ to = n * PageSize
  OBVIOUS
<1>4. from \in Nat /\ to = from + PageSize /\ PageSize \in Nat \ {0}
  <2>1. PageSize \in Nat \ {0}
    BY IngestAssumption
  <2>2. n * PageSize = (n - 1) * PageSize + PageSize /\ (n - 1) * PageSize \in Nat
    BY <2>1
  <2>. QED  BY <1>3, <2>1, <2>2
<1>5. PICK len : len = Len(order) /\ len \in Nat /\ DOMAIN order = 1 .. len
  BY <1>1
<1>6. PICK last : last = IF to < len THEN to ELSE len
  OBVIOUS
<1>7. PICK m : m = IF from + 1 <= last THEN last - (from + 1) + 1 ELSE 0
  OBVIOUS
<1>8. page = [k \in 1 .. m |-> EntryAt(order[from + 1 + k - 1], remote[order[from + 1 + k - 1]])]
  BY <1>3, <1>5, <1>6, <1>7 DEF Page, PageOf, EntryAt
<1>9. m \in Nat /\ \A k \in 1 .. m : from + 1 + k - 1 \in 1 .. len
  BY <1>4, <1>5, <1>6, <1>7
<1>10. \A k \in 1 .. m : page[k] \in Seen /\ page[k].ver = remote[page[k].id]
  BY <1>2, <1>5, <1>8, <1>9 DEF EntryAt, Seen
<1>11. page \in Seq(Seen) /\ Len(page) = m /\ DOMAIN page = 1 .. m
  <2>1. page \in [1 .. m -> Seen]
    BY <1>8, <1>10
  <2>. QED  BY <1>9, <2>1
<1>12. ASSUME NEW k \in DOMAIN order, from < k, k <= to
       PROVE  EntryAt(order[k], remote[order[k]]) \in In(page)
  <2>1. k - from \in 1 .. m /\ from + 1 + (k - from) - 1 = k
    BY <1>4, <1>5, <1>6, <1>7, <1>12
  <2>2. page[k - from] = EntryAt(order[k], remote[order[k]])
    BY <1>8, <2>1
  <2>. QED  BY <1>11, <2>1, <2>2 DEF In
<1>13. \A e \in In(page) : e.ver = remote[e.id]
  BY <1>10, <1>11 DEF In
<1>. QED  BY <1>3, <1>11, <1>12, <1>13

Sieve(f) == IF f.list = "pulls" THEN Seen ELSE {e \in Seen : e.id \notin Pull}

\* A page does its part: an entry that was beyond the pages read is on it, or
\* comes later and is left unread if this page is the last
LEMMA PageCovers ==
    ASSUME IngestInv, NEW f \in IngestFrame, f.page # 0, NEW page, page = Page(f.list, f.page),
           NEW i \in Own(f), i \in Listed, i \in In(feed), Beyond(f, i),
           EntryAt(i, remote[i]) \notin In(page) \cap Sieve(f)
    PROVE  /\ i \in Unread(f, f.page)
           /\ \A k \in DOMAIN Listing(f.list) : k <= f.page * PageSize => Listing(f.list)[k] # i
<1>1. f.list \in {"issues", "pulls"} /\ f.page \in Nat \ {0}
  BY DEF IngestFrame
<1>2. PICK order : order = Listing(f.list)
  OBVIOUS
<1>3. /\ order \in Seq(Listed) /\ Apart(order)
      /\ In(order) = IF f.list = "pulls" THEN In(feed) \cap Pull ELSE In(feed)
  BY <1>1, <1>2, ListingIs DEF IngestInv
<1>4. i \in In(order)
  BY <1>1, <1>3 DEF Own
<1>5. PICK k \in DOMAIN order : order[k] = i
  BY <1>4 DEF In
<1>6. ~(k <= (f.page - 1) * PageSize)
  BY <1>2, <1>5 DEF Beyond
<1>7. EntryAt(i, remote[i]) \in Sieve(f)
  <2>1. EntryAt(i, remote[i]) \in Seen
    <3>1. remote[i] \in 0 .. MaxVersion /\ MaxVersion \in Nat /\ remote[i] # 0
      BY IngestAssumption DEF IngestInv, IngestTypeOK, FeedInv
    <3>2. remote[i] \in 1 .. MaxVersion
      BY <3>1
    <3>. QED  BY <3>2 DEF EntryAt, Seen
  <2>2. CASE f.list = "pulls"
    BY <2>1, <2>2 DEF Sieve
  <2>3. CASE f.list # "pulls"
    <3>1. i \notin Pull
      BY <2>3, IngestAssumption DEF Own
    <3>. QED  BY <2>1, <2>3, <3>1 DEF Sieve, EntryAt
  <2>. QED  BY <2>2, <2>3
<1>8. PICK from, to : from = (f.page - 1) * PageSize /\ to = f.page * PageSize
  OBVIOUS
<1>9. /\ from \in Nat /\ to \in Nat /\ k \in Nat
  <2>1. PageSize \in Nat
    BY IngestAssumption
  <2>2. f.page \in Nat /\ f.page - 1 \in Nat
    BY <1>1
  <2>3. \A m, n \in Nat : m * n \in Nat
    OBVIOUS
  <2>4. from \in Nat /\ to \in Nat
    BY <1>8, <2>1, <2>2, <2>3
  <2>5. k \in Nat
    BY <1>3
  <2>. QED  BY <2>4, <2>5
<1>10. from < k /\ k <= to => EntryAt(order[k], remote[order[k]]) \in In(page)
  BY <1>1, <1>2, <1>8, PageIs
<1>11. ~(k <= to)
  BY <1>5, <1>6, <1>7, <1>8, <1>9, <1>10
<1>12. i \in Unread(f, f.page)
  BY <1>2, <1>5, <1>8, <1>9, <1>11 DEF Unread
<1>13. ASSUME NEW l \in DOMAIN order, l <= f.page * PageSize PROVE order[l] # i
  <2>1. l # k
    BY <1>8, <1>11, <1>13
  <2>. QED  BY <1>3, <1>5, <2>1 DEF Apart
<1>. QED  BY <1>2, <1>12, <1>13

\* Where a listing ends, and all that is still owed of it is held
LEMMA LastPage ==
    ASSUME IngestInv, UNCHANGED <<feed, remote, stored, health>>,
           NEW x \in IngestFrame, x.page # 0, Through(x), NEW g \in Ingester,
           Settle(g, NextEntry(x)),
           \A r \in IngestFrame : Settle(g, r) /\ Orderly(r) /\ r.got = x.got
               /\ r.due = x.due /\ OnCourse(r) => IngestInv'
    PROVE  IngestInv'
<1>1. PICK r : r = NextEntry(x)
  OBVIOUS
<1>2. /\ r \in IngestFrame /\ Orderly(r) /\ r.got = x.got /\ r.due = x.due
      /\ Through(x)' => OnCourse(r)'
  <2>1. feed' = feed
    OBVIOUS
  <2>. QED  BY <1>1, <2>1, NextEntryKeeps
<1>3. Through(x)'
  BY DEF Through, CaughtUp, Holds, Own, In
<1>4. OnCourse(r)
  BY <1>2, <1>3, SameCourse
<1>. QED  BY <1>1, <1>2, <1>4

LEMMA ListKeeps ==
    ASSUME IngestInv, NEW g \in Ingester, ListPage(g)
    PROVE  IngestInv'
<1>1. PICK f : f = ingest[g]
  OBVIOUS
<1>2. f \in IngestFrame /\ Orderly(f) /\ f.pc = "list" /\ OnCourse(f) /\ Underway(f)
  BY <1>1, RequestIs DEF ListPage, Underway
<1>3. /\ f.list \in {"issues", "pulls"} /\ f.page \in Nat \ {0} /\ f.got \in Seq(Seen)
      /\ PageSize \in Nat
  BY <1>2, IngestAssumption DEF IngestFrame, Orderly
<1>4. PICK page : page = Page(f.list, f.page)
  OBVIOUS
<1>5. PICK got : got = f.got \o Keep(page, Sieve(f))
  OBVIOUS
<1>6. page \in Seq(Seen) /\ \A e \in In(page) : e.ver = remote[e.id]
  <2>1. f.page # 0 /\ f.page \in Nat
    BY <1>3
  <2>. QED  BY <1>3, <1>4, <2>1, PageIs
<1>7. got \in Seq(Seen) /\ In(got) = In(f.got) \cup (In(page) \cap Sieve(f))
  BY <1>3, <1>5, <1>6, KeepIn, InConcat
<1>8. UNCHANGED <<feed, remote, stored, health>> /\ health' \in {"connected", "error"}
  BY DEF ListPage, IngestInv, IngestTypeOK
<1>9. CASE Threw(g)
  BY <1>1, <1>2, <1>8, <1>9, ThrewKeeps
<1>10. ASSUME NEW r \in IngestFrame, Settle(g, r), Orderly(r), r.got = got,
              r.due \subseteq f.due, OnCourse(r)
       PROVE  IngestInv'
  <2>1. \A e \in In(r.got) : e \in In(f.got) \/ e.ver = remote[e.id]
    BY <1>6, <1>7, <1>10
  <2>. QED  BY <1>1, <1>2, <1>8, <1>10, <2>1, RequestStep
<1>11. ASSUME NEW i \in f.due
       PROVE  /\ i \in Listed /\ i \in In(feed)
              /\ f.list = "pulls" /\ i \in Issue => CaughtUp(i)
              /\ i \in Own(f) => EntryAt(i, remote[i]) \in In(got) \/
                     /\ i \in Unread(f, f.page)
                     /\ \A k \in DOMAIN Listing(f.list) :
                            k <= f.page * PageSize => Listing(f.list)[k] # i
  <2>1. /\ i \in Listed /\ i \in In(feed)
        /\ f.list = "pulls" /\ i \in Issue => CaughtUp(i)
        /\ i \in Own(f) => Holds(f, i) \/ Beyond(f, i)
    BY <1>2 DEF OnCourse
  <2>2. Holds(f, i) => EntryAt(i, remote[i]) \in In(got)
    BY <1>7 DEF Holds
  <2>3. ASSUME i \in Own(f), Beyond(f, i), EntryAt(i, remote[i]) \notin In(got)
        PROVE  /\ i \in Unread(f, f.page)
               /\ \A k \in DOMAIN Listing(f.list) :
                      k <= f.page * PageSize => Listing(f.list)[k] # i
    <3>1. EntryAt(i, remote[i]) \notin In(page) \cap Sieve(f) /\ f.page # 0
      BY <1>3, <1>7, <2>3
    <3>. QED  BY <1>2, <1>4, <2>1, <2>3, <3>1, PageCovers
  <2>. QED  BY <2>1, <2>2, <2>3
<1>12. CASE Settle(g, NextEntry([f EXCEPT !.got = got, !.due = @ \ Unread(f, f.page)]))
  <2>1. PICK x : x = [f EXCEPT !.got = got, !.due = @ \ Unread(f, f.page)]
    OBVIOUS
  <2>2. /\ x \in IngestFrame /\ x.got = got /\ x.list = f.list /\ x.page = f.page
        /\ x.due = f.due \ Unread(f, f.page)
    BY <1>2, <1>7, <2>1 DEF IngestFrame
  <2>3. Through(x)
    BY <1>11, <2>2 DEF Through, Own, Holds
  <2>4. Settle(g, NextEntry(x))
    BY <1>12, <2>1
  <2>. QED  BY <1>3, <1>8, <1>10, <2>2, <2>3, <2>4, LastPage
<1>13. CASE Settle(g, [f EXCEPT !.got = got, !.page = @ + 1])
  <2>1. PICK r : r = [f EXCEPT !.got = got, !.page = @ + 1]
    OBVIOUS
  <2>2. f.page + 1 \in Nat /\ f.page + 1 # 0 /\ (f.page + 1) - 1 = f.page
    BY <1>3
  <2>3. /\ r \in IngestFrame /\ r.pc = "list" /\ r.got = got /\ r.list = f.list
        /\ r.page = f.page + 1 /\ r.due = f.due
    BY <1>2, <1>7, <2>1, <2>2 DEF IngestFrame
  <2>4. Orderly(r)
    BY <2>2, <2>3 DEF Orderly
  <2>5. OnCourse(r)
    <3>. SUFFICES ASSUME NEW i \in f.due
                  PROVE  /\ i \in Listed /\ i \in In(feed)
                         /\ i \in Own(r) => Holds(r, i) \/ Beyond(r, i)
                         /\ r.list = "pulls" /\ i \in Issue => CaughtUp(i)
      BY <2>3 DEF OnCourse, AtEntry
    <3>1. r.page - 1 = f.page
      BY <2>2, <2>3
    <3>. QED  BY <1>11, <2>3, <3>1 DEF Own, Holds, Beyond
  <2>6. Settle(g, r)
    BY <1>13, <2>1
  <2>. QED  BY <1>10, <2>3, <2>4, <2>5, <2>6
<1>14. \/ Settle(g, NextEntry([f EXCEPT !.got = got, !.due = @ \ Unread(f, f.page)]))
       \/ Settle(g, [f EXCEPT !.got = got, !.page = @ + 1])
       \/ Threw(g)
  BY <1>1, <1>4, <1>5 DEF ListPage, Sieve
<1>. QED  BY <1>9, <1>12, <1>13, <1>14

\* A listing that ends before its page loses what lies behind the pages it has
LEMMA CutShortKeeps ==
    ASSUME IngestInv, NEW g \in Ingester, ListCutShort(g)
    PROVE  IngestInv'
<1>1. PICK f : f = ingest[g]
  OBVIOUS
<1>2. f \in IngestFrame /\ Orderly(f) /\ f.pc = "list" /\ OnCourse(f) /\ Underway(f)
  BY <1>1, RequestIs DEF ListCutShort, Underway
<1>3. /\ UNCHANGED <<feed, remote, stored, health>> /\ health' \in {"connected", "error"}
      /\ f.page # 0
  BY <1>2 DEF ListCutShort, IngestInv, IngestTypeOK, Orderly
<1>4. PICK x : x = [f EXCEPT !.due = @ \ Unread(f, f.page - 1)]
  OBVIOUS
<1>5. /\ x \in IngestFrame /\ x.got = f.got /\ x.list = f.list /\ x.page = f.page
      /\ x.due = f.due \ Unread(f, f.page - 1)
  BY <1>2, <1>4 DEF IngestFrame
<1>6. ASSUME NEW i \in f.due, i \in Own(f), Beyond(f, i) PROVE i \in Unread(f, f.page - 1)
  <2>1. PICK order : order = Listing(f.list)
    OBVIOUS
  <2>2. f.list \in {"issues", "pulls"} /\ i \in In(feed)
    BY <1>2 DEF OnCourse, IngestFrame
  <2>3. /\ order \in Seq(Listed)
        /\ In(order) = IF f.list = "pulls" THEN In(feed) \cap Pull ELSE In(feed)
    BY <2>1, <2>2, ListingIs DEF IngestInv
  <2>4. PICK k \in DOMAIN order : order[k] = i
    BY <1>6, <2>2, <2>3 DEF Own, In
  <2>5. PICK n : n = (f.page - 1) * PageSize
    OBVIOUS
  <2>6. ~(k <= n) /\ k \in Nat
    BY <1>6, <2>1, <2>3, <2>4, <2>5 DEF Beyond
  <2>7. n \in Nat
    <3>1. f.page - 1 \in Nat /\ PageSize \in Nat
      BY <1>2, <1>3, IngestAssumption DEF IngestFrame
    <3>. QED  BY <2>5, <3>1
  <2>. QED  BY <1>6, <2>1, <2>4, <2>5, <2>6, <2>7 DEF Unread
<1>7. Through(x)
  BY <1>2, <1>5, <1>6 DEF Through, OnCourse, Own, Holds
<1>8. Settle(g, NextEntry(x))
  BY <1>1, <1>4 DEF ListCutShort
<1>9. ASSUME NEW r \in IngestFrame, Settle(g, r), Orderly(r), r.got = x.got, r.due = x.due,
             OnCourse(r)
      PROVE  IngestInv'
  BY <1>1, <1>2, <1>3, <1>5, <1>9, RequestStep
<1>. QED  BY <1>3, <1>5, <1>7, <1>8, <1>9, LastPage

\* A request that begins: it owes what is there only if no other is on its way,
\* and those that are owe nothing any more
LEMMA StartKeeps ==
    ASSUME IngestInv, NEW g \in Ingester, StartIngest(g)
    PROVE  IngestInv'
<1>1. /\ ingest \in [Ingester -> IngestFrame] /\ ~Underway(ingest[g])
      /\ feed' = feed /\ remote' = remote /\ stored' = stored /\ health' = health
  BY DEF StartIngest, InFlight, Underway, IngestInv, IngestTypeOK
<1>. DEFINE lone == [Resting EXCEPT !.pc = "list", !.due = {i \in Listed : There(i)}]
            joined == [Resting EXCEPT !.pc = "list"]
            freed(x) == [ingest[x] EXCEPT !.due = {}]
<1>2. /\ ingest' = [x \in Ingester |->
             IF x = g THEN (IF \A y \in Ingester \ {g} : ~Underway(ingest[y]) THEN lone ELSE joined)
             ELSE IF Underway(ingest[x]) THEN freed(x) ELSE ingest[x]]
  BY DEF StartIngest, InFlight, Underway
<1>3. \A r \in {lone, joined} :
        /\ r \in IngestFrame /\ r.pc = "list" /\ r.page = 1 /\ r.got = << >> /\ r.list = "issues"
        /\ r.due \subseteq {i \in Listed : i \in In(feed)}
  <2>1. {i \in Listed : There(i)} \subseteq {i \in Listed : i \in In(feed)}
    BY DEF There, In
  <2>2. /\ lone \in IngestFrame /\ lone.pc = "list" /\ lone.page = 1 /\ lone.got = << >>
        /\ lone.list = "issues" /\ lone.due = {i \in Listed : There(i)}
    BY RestingIs DEF Resting, IngestFrame, IngestLabel
  <2>3. /\ joined \in IngestFrame /\ joined.pc = "list" /\ joined.page = 1
        /\ joined.got = << >> /\ joined.list = "issues" /\ joined.due = {}
    BY RestingIs DEF Resting, IngestFrame, IngestLabel
  <2>. QED  BY <2>1, <2>2, <2>3
<1>4. joined.due = {}
  BY DEF Resting
<1>5. \A x \in Ingester :
        /\ freed(x) \in IngestFrame /\ freed(x).pc = ingest[x].pc /\ freed(x).got = ingest[x].got
        /\ freed(x).page = ingest[x].page /\ freed(x).list = ingest[x].list /\ freed(x).due = {}
  BY <1>1 DEF IngestFrame
<1>. HIDE DEF lone, joined, freed
<1>6. /\ ingest'[g] \in {lone, joined}
      /\ ingest'[g].due # {} => \A y \in Ingester \ {g} : ~Underway(ingest[y])
      /\ \A x \in Ingester \ {g} :
            ingest'[x] = IF Underway(ingest[x]) THEN freed(x) ELSE ingest[x]
  BY <1>2, <1>4
<1>7. ingest' \in [Ingester -> IngestFrame]
  BY <1>1, <1>2, <1>3, <1>5
<1>8. IngestTypeOK' /\ FeedInv'
  BY <1>1, <1>7 DEF IngestInv, IngestTypeOK, FeedInv, Apart, In
<1>9. PICK r : r = ingest'[g] /\ r \in {lone, joined}
  BY <1>6
<1>10. In(r.got) = {}
  BY <1>3, <1>9 DEF In
<1>11. ASSUME NEW x \in Ingester PROVE Orderly(ingest[x])'
  <2>1. CASE x = g
    BY <1>3, <1>9, <2>1 DEF Orderly
  <2>2. CASE x # g
    BY <1>5, <1>6, <2>2 DEF IngestInv, Orderly
  <2>. QED  BY <2>1, <2>2
<1>12. ASSUME NEW x \in Ingester PROVE Alone(x)'
  <2>. SUFFICES ASSUME NEW h \in Ingester, Underway(ingest[h])'
                PROVE  /\ Underway(ingest[x])' /\ ingest'[x].due # {} => h = x
                       /\ \A e \in In(ingest'[h].got) :
                              e.id \in ingest'[x].due => e.ver = remote'[e.id]
    BY DEF Alone, In
  <2>1. CASE h = g
    <3>1. x # g /\ Underway(ingest[x])' => ingest'[x].due = {}
      BY <1>5, <1>6 DEF Underway
    <3>. QED  BY <1>9, <1>10, <2>1, <3>1
  <2>2. CASE h # g
    <3>1. Underway(ingest[h]) /\ ingest'[h].got = ingest[h].got
      BY <1>5, <1>6, <2>2 DEF Underway
    <3>2. CASE x = g
      BY <1>6, <2>2, <3>1, <3>2
    <3>3. CASE x # g
      <4>1. ingest'[x].due = {} \/ (ingest'[x] = ingest[x] /\ ~Underway(ingest[x]))
        BY <1>5, <1>6, <3>3
      <4>2. \A e \in In(ingest[h].got) : e.id \in ingest[x].due => e.ver = remote[e.id]
        BY <3>1 DEF IngestInv, Alone
      <4>. QED  BY <1>1, <3>1, <4>1, <4>2 DEF Underway
    <3>. QED  BY <3>2, <3>3
  <2>. QED  BY <2>1, <2>2
<1>13. ASSUME NEW x \in Ingester PROVE OnCourse(ingest[x])'
  <2>1. CASE x = g
    <3>1. \A i \in Listed : Beyond(r, i)'
      <4>1. Listing("issues") \in Seq(Listed) /\ Listing("issues")' = Listing("issues")
        BY <1>1, ListingIs DEF IngestInv, Listing
      <4>2. PageSize \in Nat
        BY IngestAssumption
      <4>3. r.list = "issues" /\ (r.page - 1) * PageSize = 0
        BY <1>3, <1>9, <4>2
      <4>4. \A k \in DOMAIN Listing("issues") : k >= 1
        BY <4>1
      <4>. QED  BY <4>1, <4>3, <4>4 DEF Beyond
    <3>2. r.due \subseteq Listed /\ r.due \subseteq In(feed) /\ r.pc = "list" /\ r.list = "issues"
      BY <1>3, <1>9
    <3>3. OnCourse(r)'
      BY <1>1, <3>1, <3>2 DEF OnCourse, AtEntry, In
    <3>. QED  BY <1>9, <2>1, <3>3 DEF OnCourse, CaughtUp, Holds, Beyond, Own, Listing, In
  <2>2. CASE x # g
    <3>1. OnCourse(ingest[x])
      BY DEF IngestInv
    <3>2. ingest'[x].due = {} \/ ingest'[x] = ingest[x]
      BY <1>5, <1>6, <2>2
    <3>. QED  BY <1>1, <3>1, <3>2 DEF OnCourse, CaughtUp, Holds, Beyond, Own, Listing, In
  <2>. QED  BY <2>1, <2>2
<1>. QED  BY <1>8, <1>11, <1>12, <1>13 DEF IngestInv

-----------------------------------------------------------------------------
(* The repository changes *)
View(list, s) == IF list = "issues" THEN s ELSE Keep(s, Pull)

LEMMA ViewIs ==
    ASSUME NEW s \in Seq(Listed), Apart(s), NEW list \in {"issues", "pulls"}, NEW i \in Listed,
           list = "pulls" => i \in Pull, NEW v, v = View(list, s)
    PROVE  /\ v \in Seq(Listed) /\ Apart(v)
           /\ Before(v, i) = IF list = "pulls" THEN Before(s, i) \cap Pull ELSE Before(s, i)
<1>1. CASE list = "issues"
  BY <1>1 DEF View
<1>2. CASE list = "pulls"
  <2>1. v = Keep(s, Pull) /\ i \in Pull
    BY <1>2 DEF View
  <2>2. v \in Seq(Listed) /\ Apart(v)
    BY <2>1, KeepIn
  <2>3. Before(v, i) = Before(s, i) \cap Pull
    BY <2>1, KeepBefore
  <2>. QED  BY <1>2, <2>1, <2>2, <2>3
<1>. QED  BY <1>1, <1>2

\* What is beyond the pages read stays there while nothing that stood before it
\* leaves the list, or one entry does and it did not slip for that
LEMMA BeyondStays ==
    ASSUME IngestInv, feed' \in Seq(Listed), Apart(feed'),
           NEW f \in IngestFrame, f.page # 0, f.pc = "list", NEW i \in Listed, i \in Own(f),
           i \in In(feed), Beyond(f, i), NEW j,
           \/ Before(feed, i) \subseteq Before(feed', i)
           \/ Before(feed, i) \ {j} \subseteq Before(feed', i) /\ i \notin Slipped(f, j)
    PROVE  Beyond(f, i)'
<1>1. f.list \in {"issues", "pulls"} /\ (f.list = "pulls" => i \in Pull)
  BY DEF IngestFrame, Own
<1>2. PICK old, new : old = feed /\ new = feed'
  OBVIOUS
<1>3. old \in Seq(Listed) /\ Apart(old) /\ new \in Seq(Listed) /\ Apart(new) /\ i \in In(old)
  BY <1>2 DEF IngestInv, IngestTypeOK, FeedInv
<1>4. PICK s, t : s = View(f.list, old) /\ t = View(f.list, new)
  OBVIOUS
<1>5. s = Listing(f.list) /\ t = Listing(f.list)'
  BY <1>2, <1>4 DEF Listing, View
<1>6. /\ s \in Seq(Listed) /\ Apart(s) /\ i \in In(s)
      /\ Before(s, i) = IF f.list = "pulls" THEN Before(old, i) \cap Pull ELSE Before(old, i)
  <2>1. /\ s \in Seq(Listed) /\ Apart(s)
        /\ Before(s, i) = IF f.list = "pulls" THEN Before(old, i) \cap Pull ELSE Before(old, i)
    <3>1. old \in Seq(Listed) /\ Apart(old) /\ s = View(f.list, old)
      BY <1>3, <1>4
    <3>. QED  BY <1>1, <3>1, ViewIs
  <2>2. In(s) = IF f.list = "pulls" THEN In(feed) \cap Pull ELSE In(feed)
    BY <1>1, <1>5, ListingIs DEF IngestInv
  <2>. QED  BY <1>1, <2>1, <2>2
<1>7. /\ t \in Seq(Listed) /\ Apart(t)
      /\ Before(t, i) = IF f.list = "pulls" THEN Before(new, i) \cap Pull ELSE Before(new, i)
  BY <1>1, <1>3, <1>4, ViewIs
<1>8. PICK n : n = (f.page - 1) * PageSize
  OBVIOUS
<1>9. n \in Nat
  <2>1. f.page - 1 \in Nat /\ PageSize \in Nat
    BY IngestAssumption DEF IngestFrame
  <2>. QED  BY <1>8, <2>1
<1>10. \A k \in DOMAIN s : k <= n => s[k] # i
  BY <1>5, <1>8 DEF Beyond
<1>11. CASE Before(old, i) \subseteq Before(new, i)
  <2>1. Before(s, i) \subseteq Before(t, i)
    BY <1>6, <1>7, <1>11
  <2>2. \A k \in DOMAIN t : k <= n => t[k] # i
    BY <1>6, <1>7, <1>9, <1>10, <2>1, StaysBeyond
  <2>. QED  BY <1>5, <1>8, <2>2 DEF Beyond
<1>12. CASE Before(old, i) \ {j} \subseteq Before(new, i) /\ i \notin Slipped(f, j)
  <2>1. Before(s, i) \ {j} \subseteq Before(t, i)
    BY <1>6, <1>7, <1>12
  <2>2. ~Slips(s, n, i, j)
    BY <1>5, <1>8, <1>12 DEF Slips, Slipped
  <2>3. \A k \in DOMAIN t : k <= n => t[k] # i
    BY <1>6, <1>7, <1>9, <1>10, <2>1, <2>2, MovesUp
  <2>. QED  BY <1>5, <1>8, <2>3 DEF Beyond
<1>. QED  BY <1>2, <1>11, <1>12

\* Request g does not owe what is in shed[g] any more
Sheds(shed, j) ==
    /\ \A g \in Ingester : j \in shed[g]
    /\ ingest' = [g \in Ingester |-> [ingest[g] EXCEPT !.due = @ \ shed[g]]]
KeepsBeyond(shed) ==
    \A g \in Ingester, i \in Listed :
        (/\ ingest[g].pc = "list" /\ i \in Own(ingest[g]) /\ i \in In(feed)
         /\ Beyond(ingest[g], i) /\ i \notin shed[g])
          => Beyond(ingest[g], i)'

\* Whatever happens to entry j, each request goes on with what it still owes
LEMMA RepositoryStep ==
    ASSUME IngestInv, NEW j \in Listed, stored' = stored, health' = health,
           remote' \in [Listed -> 0 .. MaxVersion], \A i \in Listed \ {j} : remote'[i] = remote[i],
           feed' \in Seq(Listed), FeedInv',
           \A i \in Listed \ {j} : i \in In(feed) => i \in In(feed'),
           NEW shed, Sheds(shed, j), KeepsBeyond(shed)
    PROVE  IngestInv'
<1>1. /\ ingest \in [Ingester -> IngestFrame] /\ ingest' \in [Ingester -> IngestFrame]
      /\ \A g \in Ingester :
           /\ ingest'[g].due = ingest[g].due \ shed[g] /\ ingest'[g].pc = ingest[g].pc
           /\ ingest'[g].list = ingest[g].list /\ ingest'[g].page = ingest[g].page
           /\ ingest'[g].got = ingest[g].got /\ ingest'[g].ok = ingest[g].ok
  BY DEF Sheds, IngestInv, IngestTypeOK, IngestFrame
<1>2. IngestTypeOK'
  BY <1>1 DEF IngestInv, IngestTypeOK
<1>3. ASSUME NEW g \in Ingester PROVE Orderly(ingest[g])' /\ Alone(g)'
  <2>1. Orderly(ingest[g])'
    BY <1>1 DEF IngestInv, Orderly
  <2>2. ASSUME NEW h \in Ingester, Underway(ingest[h])'
        PROVE  /\ Underway(ingest[g])' /\ ingest'[g].due # {} => h = g
               /\ \A e \in In(ingest'[h].got) : e.id \in ingest'[g].due => e.ver = remote'[e.id]
    <3>1. Underway(ingest[h]) /\ (Underway(ingest[g])' => Underway(ingest[g]))
      BY <1>1, <2>2 DEF Underway
    <3>2. /\ Underway(ingest[g]) /\ ingest[g].due # {} => h = g
          /\ \A e \in In(ingest[h].got) : e.id \in ingest[g].due => e.ver = remote[e.id]
      BY <3>1 DEF IngestInv, Alone
    <3>3. \A i \in ingest'[g].due : i \in Listed \ {j} /\ i \in ingest[g].due
      <4>1. j \in shed[g] /\ ingest'[g].due = ingest[g].due \ shed[g]
        BY <1>1 DEF Sheds
      <4>2. ingest[g].due \subseteq Listed
        BY DEF IngestInv, OnCourse
      <4>. QED  BY <4>1, <4>2
    <3>. QED  BY <1>1, <3>1, <3>2, <3>3
  <2>. QED  BY <2>1, <2>2 DEF Alone, In
<1>4. ASSUME NEW g \in Ingester PROVE OnCourse(ingest[g])'
  <2>1. PICK f, r : f = ingest[g] /\ r = ingest'[g]
    OBVIOUS
  <2>2. /\ r.pc = f.pc /\ r.list = f.list /\ r.page = f.page /\ r.got = f.got /\ r.ok = f.ok
        /\ r.due = f.due \ shed[g]
    BY <1>1, <2>1
  <2>3. ASSUME NEW i \in r.due
        PROVE  /\ i \in Listed /\ i \in In(feed')
               /\ r.pc = "list" /\ i \in Own(r) => Holds(r, i)' \/ Beyond(r, i)'
               /\ r.pc \in AtEntry /\ i \in Own(r) => CaughtUp(i)' \/ Holds(r, i)'
               /\ r.pc \in AtEntry \cup {"list"} /\ r.list = "pulls" /\ i \in Issue => CaughtUp(i)'
               /\ r.pc = "commits" => CaughtUp(i)'
               /\ r.pc \in {"finalize", "done"} /\ r.ok => CaughtUp(i)'
    <3>1. i \in f.due /\ i \notin shed[g] /\ i # j
      BY <2>2 DEF Sheds
    <3>2. /\ i \in Listed /\ i \in In(feed)
          /\ f.pc = "list" /\ i \in Own(f) => Holds(f, i) \/ Beyond(f, i)
          /\ f.pc \in AtEntry /\ i \in Own(f) => CaughtUp(i) \/ Holds(f, i)
          /\ f.pc \in AtEntry \cup {"list"} /\ f.list = "pulls" /\ i \in Issue => CaughtUp(i)
          /\ f.pc = "commits" => CaughtUp(i)
          /\ f.pc \in {"finalize", "done"} /\ f.ok => CaughtUp(i)
      BY <2>1, <3>1 DEF IngestInv, OnCourse
    <3>3. remote'[i] = remote[i] /\ i \in In(feed')
      BY <3>1, <3>2
    <3>4. (CaughtUp(i) => CaughtUp(i)') /\ (Holds(f, i) => Holds(r, i)')
      BY <2>2, <3>3 DEF CaughtUp, Holds, In
    <3>5. f.pc = "list" /\ i \in Own(f) /\ Beyond(f, i) => Beyond(r, i)'
      <4>1. f.pc = "list" /\ i \in Own(f) /\ Beyond(f, i) => Beyond(ingest[g], i)'
        BY <2>1, <3>1, <3>2 DEF KeepsBeyond
      <4>. QED  BY <2>1, <4>1 DEF Beyond
    <3>6. Own(r) = Own(f)
      BY <2>2 DEF Own
    <3>. QED  BY <2>2, <3>2, <3>3, <3>4, <3>5, <3>6
  <2>4. OnCourse(r)'
    BY <2>3 DEF OnCourse, In, Own
  <2>5. r = ingest'[g]
    BY <2>1
  <2>. QED  BY <2>4, <2>5 DEF OnCourse, CaughtUp, Holds, Beyond, Own, Listing
<1>. QED  BY <1>2, <1>3, <1>4 DEF IngestInv

\* An edit moves its own entry to the head and overtakes it; the others stay in
\* order, so what is beyond the pages read stays there
LEMMA TouchKeeps ==
    ASSUME IngestInv, NEW j \in Listed, Touch(j)
    PROVE  IngestInv'
<1>1. /\ feed \in Seq(Listed) /\ Apart(feed) /\ remote \in [Listed -> 0 .. MaxVersion]
      /\ ingest \in [Ingester -> IngestFrame] /\ MaxVersion \in Nat
      /\ \A i \in Listed : i \in In(feed) => remote[i] # 0
  BY IngestAssumption DEF IngestInv, IngestTypeOK, FeedInv
<1>2. /\ stored' = stored /\ health' = health
      /\ remote' = [remote EXCEPT ![j] = @ + 1] /\ remote[j] < MaxVersion
  BY DEF Touch
<1>3. feed' = Cons(j, Keep(feed, Listed \ {j}))
  BY DEF Touch, Cons
<1>4. PICK old, new : old = feed /\ new = feed'
  OBVIOUS
<1>5. /\ new \in Seq(Listed) /\ Apart(new) /\ In(new) = In(old) \cup {j}
      /\ \A i \in Listed \ {j} : Before(old, i) \subseteq Before(new, i)
  <2>1. old \in Seq(Listed) /\ Apart(old) /\ new = Cons(j, Keep(old, Listed \ {j}))
    BY <1>1, <1>3, <1>4
  <2>. QED  BY <2>1, Heads
<1>6. /\ remote' \in [Listed -> 0 .. MaxVersion] /\ remote'[j] # 0
      /\ \A i \in Listed \ {j} : remote'[i] = remote[i]
  <2>1. remote[j] + 1 \in 1 .. MaxVersion
    BY <1>1, <1>2
  <2>. QED  BY <1>1, <1>2, <2>1
<1>7. Apart(feed') /\ In(feed') = In(feed) \cup {j}
  BY <1>4, <1>5
<1>8. FeedInv'
  BY <1>1, <1>6, <1>7 DEF FeedInv, Apart, In
<1>9. PICK shed : shed = [g \in Ingester |-> {j}]
  OBVIOUS
<1>10. ingest' = [g \in Ingester |-> [ingest[g] EXCEPT !.due = @ \ shed[g]]]
  BY <1>9 DEF Touch
<1>11. ASSUME NEW g \in Ingester, NEW i \in Listed, ingest[g].pc = "list", i \in Own(ingest[g]),
              i \in In(feed), Beyond(ingest[g], i), i \notin shed[g]
       PROVE  Beyond(ingest[g], i)'
  <2>1. PICK f : f = ingest[g]
    OBVIOUS
  <2>2. PICK q : q = ingest'[g]
    OBVIOUS
  <2>3. f \in IngestFrame /\ f.page # 0 /\ q.list = f.list /\ q.page = f.page
    BY <1>1, <1>10, <2>1, <2>2, RequestIs DEF Orderly, IngestFrame
  <2>4. Before(feed, i) \subseteq Before(feed', i)
    BY <1>4, <1>5, <1>9, <1>11
  <2>5. feed' \in Seq(Listed)
    BY <1>4, <1>5
  <2>6. Beyond(f, i)'
    BY <1>7, <1>11, <2>1, <2>3, <2>4, <2>5, BeyondStays
  <2>. QED  BY <2>2, <2>3, <2>6 DEF Beyond
<1>12. Sheds(shed, j)
  BY <1>9, <1>10 DEF Sheds
<1>13. feed' \in Seq(Listed) /\ \A i \in Listed \ {j} : i \in In(feed) => i \in In(feed')
  BY <1>4, <1>5
<1>14. KeepsBeyond(shed)
  BY <1>11 DEF KeepsBeyond
<1>. QED  BY <1>2, <1>6, <1>8, <1>12, <1>13, <1>14, RepositoryStep

\* An entry that leaves the list lets at most one slip past a page border
LEMMA LeaveKeeps ==
    ASSUME IngestInv, NEW j \in Listed, Leave(j)
    PROVE  IngestInv'
<1>1. /\ feed \in Seq(Listed) /\ Apart(feed) /\ remote \in [Listed -> 0 .. MaxVersion]
      /\ ingest \in [Ingester -> IngestFrame]
      /\ \A i \in Listed : i \in In(feed) => remote[i] # 0
  BY DEF IngestInv, IngestTypeOK, FeedInv
<1>2. stored' = stored /\ health' = health /\ remote' = remote
  BY DEF Leave
<1>3. PICK old, new : old = feed /\ new = feed'
  OBVIOUS
<1>4. new = Keep(old, Listed \ {j}) /\ old \in Seq(Listed) /\ Apart(old)
  BY <1>1, <1>3 DEF Leave
<1>5. new \in Seq(Listed) /\ Apart(new) /\ In(new) = In(old) \cap (Listed \ {j})
  BY <1>4, KeepIn
<1>6. ASSUME NEW i \in Listed \ {j} PROVE Before(old, i) \ {j} \subseteq Before(new, i)
  <2>1. Before(new, i) = Before(old, i) \cap (Listed \ {j})
    BY <1>4, KeepBefore
  <2>2. Before(old, i) \subseteq Listed
    BY <1>4 DEF Before
  <2>. QED  BY <2>1, <2>2
<1>7. Apart(feed') /\ In(feed') = In(feed) \cap (Listed \ {j}) /\ feed' \in Seq(Listed)
  BY <1>3, <1>5
<1>8. FeedInv'
  BY <1>1, <1>2, <1>7 DEF FeedInv, Apart, In
<1>9. PICK shed : shed = [g \in Ingester |-> {j} \cup Slipped(ingest[g], j)]
  OBVIOUS
<1>10. ingest' = [g \in Ingester |-> [ingest[g] EXCEPT !.due = @ \ shed[g]]]
  BY <1>9 DEF Leave
<1>11. ASSUME NEW g \in Ingester, NEW i \in Listed, ingest[g].pc = "list", i \in Own(ingest[g]),
              i \in In(feed), Beyond(ingest[g], i), i \notin shed[g]
       PROVE  Beyond(ingest[g], i)'
  <2>1. PICK f : f = ingest[g]
    OBVIOUS
  <2>2. PICK q : q = ingest'[g]
    OBVIOUS
  <2>3. f \in IngestFrame /\ f.page # 0 /\ q.list = f.list /\ q.page = f.page
    BY <1>1, <1>10, <2>1, <2>2, RequestIs DEF Orderly, IngestFrame
  <2>4. i # j /\ i \notin Slipped(f, j)
    BY <1>9, <1>11, <2>1
  <2>5. Before(feed, i) \ {j} \subseteq Before(feed', i)
    BY <1>3, <1>6, <2>4
  <2>6. Beyond(f, i)'
    BY <1>7, <1>11, <2>1, <2>3, <2>4, <2>5, BeyondStays
  <2>. QED  BY <2>2, <2>3, <2>6 DEF Beyond
<1>12. Sheds(shed, j)
  BY <1>9, <1>10 DEF Sheds
<1>13. remote' \in [Listed -> 0 .. MaxVersion] /\ \A i \in Listed \ {j} : remote'[i] = remote[i]
  BY <1>1, <1>2
<1>14. \A i \in Listed \ {j} : i \in In(feed) => i \in In(feed')
  BY <1>7
<1>15. KeepsBeyond(shed)
  BY <1>11 DEF KeepsBeyond
<1>. QED  BY <1>2, <1>7, <1>8, <1>12, <1>13, <1>14, <1>15, RepositoryStep

LEMMA IngestBeside ==
    ASSUME IngestInv, UNCHANGED <<feed, remote, stored, ingest>>, health' \in {"connected", "error"}
    PROVE  IngestInv'
<1>1. IngestTypeOK' /\ FeedInv'
  BY DEF IngestInv, IngestTypeOK, FeedInv, Apart, In
<1>2. ASSUME NEW g \in Ingester
      PROVE  Orderly(ingest[g])' /\ Alone(g)' /\ OnCourse(ingest[g])'
  <2>1. Orderly(ingest[g])' /\ Alone(g)'
    BY DEF IngestInv, Orderly, Alone, Underway, In
  <2>2. OnCourse(ingest[g])
    BY DEF IngestInv
  <2>. QED  BY <2>1, <2>2 DEF OnCourse, CaughtUp, Holds, Beyond, Own, Listing, In
<1>. QED  BY <1>1, <1>2 DEF IngestInv

LEMMA IngestInvInit == IngestInit => IngestInv
<1>. SUFFICES ASSUME IngestInit PROVE IngestInv
  OBVIOUS
<1>1. MaxVersion \in Nat
  BY IngestAssumption
<1>2. IngestTypeOK
  BY <1>1, RestingIs DEF IngestInit, IngestTypeOK, ItemRow
<1>3. FeedInv
  BY DEF IngestInit, FeedInv, Apart, In
<1>4. \A g \in Ingester : ingest[g] = Resting
  BY DEF IngestInit
<1>. QED  BY <1>2, <1>3, <1>4, RestingIs DEF IngestInv, Alone, OnCourse

LEMMA IngestInvStep == IngestInv /\ [IngestNext]_ingestVars => IngestInv'
<1>. SUFFICES ASSUME IngestInv, [IngestNext]_ingestVars PROVE IngestInv'
  OBVIOUS
<1>1. CASE UNCHANGED ingestVars
  <2>1. health' \in {"connected", "error"}
    BY <1>1 DEF ingestVars, IngestInv, IngestTypeOK
  <2>. QED  BY <1>1, <2>1, IngestBeside DEF ingestVars
<1>2. CASE Reconnect
  BY <1>2, IngestBeside DEF Reconnect
<1>3. ASSUME NEW i \in Listed, Touch(i) \/ Leave(i) PROVE IngestInv'
  BY <1>3, TouchKeeps, LeaveKeeps
<1>4. ASSUME NEW g \in Ingester,
             \/ StartIngest(g) \/ ListPage(g) \/ ListCutShort(g) \/ FetchPullFiles(g)
             \/ SelectItem(g) \/ WriteItem(g) \/ FetchComments(g) \/ FetchChecks(g)
             \/ FetchCommits(g) \/ FinalizeIngest(g) \/ IngestDies(g)
      PROVE  IngestInv'
  BY <1>4, StartKeeps, ListKeeps, CutShortKeeps, FilesKeep, SelectKeeps, WriteItemKeeps,
     CommentsKeep, ChecksKeep, CommitsKeep, FinalizeKeeps, DiesKeeps
<1>. QED  BY <1>1, <1>2, <1>3, <1>4 DEF IngestNext

LEMMA IngestInvariant == IngestSpec => []IngestInv
BY IngestInvInit, IngestInvStep, PTL DEF IngestSpec

\* The repository's order, the rows and the frames of the requests keep their
\* types (ingestRepo)
THEOREM IngestTyped == IngestSpec => []IngestTypeOK
<1>1. IngestInv => IngestTypeOK
  BY DEF IngestInv
<1>. QED  BY <1>1, IngestInvariant, PTL

\* An ingest that ran alone and reports success has stored every entry it owes:
\* those there when it began that nobody edited or deleted and that no listing
\* of it passed over.  For any page size, any number of entries and requests, and
\* though pages shift while others are edited or deleted (ingestRepo, paginate)
THEOREM IngestCatchesUp == IngestSpec => []QuietIngestCatchesUp
<1>1. IngestInv => QuietIngestCatchesUp
  BY DEF IngestInv, QuietIngestCatchesUp, OnCourse, CaughtUp
<1>. QED  BY <1>1, IngestInvariant, PTL

-----------------------------------------------------------------------------
(***************************************************************************)
(* The folds of a session.  The buffers of a fold follow each other without *)
(* a gap from the watermark on (StartsAre), so every turn up to the end of a *)
(* range is in a range; and what a watermark promised about earlier turns    *)
(* stays true, because turns, chunks and refusals are only added.            *)
(***************************************************************************)
\* Where the buffer starts after turn i, if it started at s before
Turned(turns, s, i) ==
    IF i - s + 1 >= TurnLimit \/ Weight(turns, s, i) >= TokenLimit THEN i + 1 ELSE s

Starts(turns, mark, n, f) ==
    /\ DOMAIN f = mark .. n /\ f[mark] = mark + 1
    /\ \A i \in mark + 1 .. n : f[i] = Turned(turns, f[i - 1], i)

LEMMA StartsExist ==
    ASSUME NEW turns, NEW mark \in Nat
    PROVE  \A k \in Nat : \E f : Starts(turns, mark, mark + k, f)
<1>. DEFINE S == {k \in Nat : \E f : Starts(turns, mark, mark + k, f)}
<1>1. 0 \in S
  <2>. DEFINE f == [i \in mark .. mark |-> mark + 1]
  <2>1. Starts(turns, mark, mark + 0, f)
    BY DEF Starts
  <2>. QED  BY <2>1
<1>2. ASSUME NEW k \in S PROVE k + 1 \in S
  <2>1. PICK n \in Nat : n = mark + k /\ mark <= n /\ mark + (k + 1) = n + 1
    BY <1>2
  <2>2. PICK f : Starts(turns, mark, n, f)
    BY <1>2, <2>1
  <2>3. PICK g : g = [i \in mark .. n + 1 |->
                          IF i = n + 1 THEN Turned(turns, f[n], n + 1) ELSE f[i]]
    OBVIOUS
  <2>4. ASSUME NEW i \in mark + 1 .. n + 1 PROVE g[i] = Turned(turns, g[i - 1], i)
    <3>1. i - 1 \in mark .. n /\ g[i - 1] = f[i - 1]
      BY <2>1, <2>3
    <3>2. CASE i = n + 1
      <4>1. i - 1 = n /\ g[i] = Turned(turns, f[n], n + 1)
        BY <2>1, <2>3, <3>2
      <4>. QED  BY <3>1, <3>2, <4>1
    <3>3. CASE i # n + 1
      <4>1. i \in mark + 1 .. n /\ g[i] = f[i]
        BY <2>1, <2>3, <3>3
      <4>. QED  BY <2>2, <3>1, <4>1 DEF Starts
    <3>. QED  BY <3>2, <3>3
  <2>5. DOMAIN g = mark .. n + 1 /\ g[mark] = mark + 1
    BY <2>1, <2>2, <2>3 DEF Starts
  <2>6. Starts(turns, mark, mark + (k + 1), g)
    BY <2>1, <2>4, <2>5 DEF Starts
  <2>. QED  BY <2>6
<1>3. S \in SUBSET Nat
  OBVIOUS
<1>. HIDE DEF S
<1>4. \A k \in S : k + 1 \in S
  BY <1>2
<1>5. S = Nat
  BY <1>1, <1>3, <1>4, SetOfNat
<1>. QED  BY <1>5 DEF S

LEMMA BufferStarts ==
    ASSUME NEW turns, NEW mark \in Nat, Len(turns) \in Nat, mark <= Len(turns)
    PROVE  Starts(turns, mark, Len(turns), BufferStart(turns, mark))
<1>0. PICK n \in Nat : n = Len(turns) /\ mark <= n
  OBVIOUS
<1>. DEFINE Build(f) == [i \in (AfterMark(mark) - 1) .. Len(turns) |->
                IF i < AfterMark(mark) THEN AfterMark(mark)
                ELSE LET s == f[i - 1]
                     IN  IF i - s + 1 >= TurnLimit \/ Weight(turns, s, i) >= TokenLimit
                         THEN i + 1 ELSE s]
            start == CHOOSE f : f = Build(f)
<1>1. PICK f : Starts(turns, mark, n, f)
  <2>1. n - mark \in Nat /\ mark + (n - mark) = n
    BY <1>0
  <2>. QED  BY <2>1, StartsExist
<1>2. PICK g : g = [i \in DOMAIN f |-> f[i]]
  OBVIOUS
<1>3. /\ AfterMark(mark) = mark + 1 /\ AfterMark(mark) - 1 = mark
      /\ \A i \in mark .. n : i < mark + 1 <=> i = mark
      /\ \A i \in mark .. n : i = mark \/ (i \in mark + 1 .. n /\ i - 1 \in mark .. n)
  BY <1>0 DEF AfterMark
<1>4. g = Build(g)
  <2>1. DOMAIN f = mark .. n /\ \A i \in mark .. n : g[i] = f[i]
    BY <1>1, <1>2 DEF Starts
  <2>2. ASSUME NEW i \in mark .. n
        PROVE  g[i] = IF i < mark + 1 THEN mark + 1 ELSE Turned(turns, g[i - 1], i)
    <3>1. CASE i = mark
      BY <1>1, <1>3, <2>1, <3>1 DEF Starts
    <3>2. CASE i # mark
      <4>1. i \in mark + 1 .. n /\ i - 1 \in mark .. n /\ ~(i < mark + 1)
        BY <1>3, <3>2
      <4>. QED  BY <1>1, <2>1, <4>1 DEF Starts
    <3>. QED  BY <3>1, <3>2
  <2>. QED  BY <1>0, <1>2, <1>3, <2>1, <2>2 DEF Turned
<1>5. start = Build(start)
  BY <1>4
<1>6. BufferStart(turns, mark) = start
  BY DEF BufferStart
<1>. HIDE DEF start
<1>7. DOMAIN start = mark .. n
  BY <1>0, <1>3, <1>5
<1>8. \A i \in mark .. n : start[i] = Build(start)[i]
  BY <1>5
<1>9. \A i \in mark .. n :
          start[i] = IF i < mark + 1 THEN mark + 1 ELSE Turned(turns, start[i - 1], i)
  BY <1>0, <1>3, <1>8 DEF Turned
<1>. HIDE DEF Build
<1>10. start[mark] = mark + 1
  <2>1. mark \in mark .. n /\ mark < mark + 1
    BY <1>0
  <2>. QED  BY <1>9, <2>1
<1>11. ASSUME NEW i \in mark + 1 .. n PROVE start[i] = Turned(turns, start[i - 1], i)
  <2>1. i \in mark .. n /\ ~(i < mark + 1)
    BY <1>0
  <2>. QED  BY <1>9, <2>1
<1>. QED  BY <1>0, <1>6, <1>7, <1>10, <1>11 DEF Starts

\* Every turn before the buffer is in a full one
Reaches(f, mark, k) ==
    /\ f[k] \in mark + 1 .. k + 1
    /\ \A i \in mark + 1 .. f[k] - 1 :
           \E j \in mark + 1 .. k : f[j] = j + 1 /\ f[j - 1] <= i /\ i <= j

LEMMA StartsAre ==
    ASSUME NEW turns, NEW mark \in Nat, NEW n \in Nat, mark <= n, NEW f,
           Starts(turns, mark, n, f)
    PROVE  \A k \in mark .. n : Reaches(f, mark, k)
<1>. DEFINE Good(k) == /\ f[k] \in mark + 1 .. k + 1
                       /\ \A i \in mark + 1 .. f[k] - 1 :
                              \E j \in mark + 1 .. k : f[j] = j + 1 /\ f[j - 1] <= i /\ i <= j
            S == {d \in Nat : mark + d <= n => Good(mark + d)}
<1>1. 0 \in S
  BY DEF Starts
<1>2. ASSUME NEW d \in S PROVE d + 1 \in S
  <2>. SUFFICES ASSUME mark + (d + 1) <= n PROVE Good(mark + (d + 1))
    BY <1>2
  <2>1. PICK k \in Nat : k = mark + d /\ mark <= k /\ k + 1 = mark + (d + 1) /\ k <= n
    BY <1>2
  <2>2. Good(k)
    BY <1>2, <2>1
  <2>3. k + 1 \in mark + 1 .. n /\ (k + 1) - 1 = k
    BY <2>1
  <2>4. f[k + 1] = Turned(turns, f[k], k + 1)
    BY <2>3 DEF Starts
  <2>5. f[k + 1] = f[k] \/ f[k + 1] = (k + 1) + 1
    BY <2>4 DEF Turned
  <2>6. CASE f[k + 1] = f[k]
    <3>1. f[k + 1] \in mark + 1 .. (k + 1) + 1
      BY <2>1, <2>2, <2>6
    <3>2. \A j \in mark + 1 .. k : j \in mark + 1 .. k + 1
      BY <2>1
    <3>3. Good(k + 1)
      BY <2>2, <2>6, <3>1, <3>2
    <3>. QED  BY <2>1, <3>3
  <2>7. CASE f[k + 1] = (k + 1) + 1
    <3>1. f[k + 1] \in mark + 1 .. (k + 1) + 1
      BY <2>1, <2>7
    <3>2. ASSUME NEW i \in mark + 1 .. f[k + 1] - 1
          PROVE  \E j \in mark + 1 .. k + 1 : f[j] = j + 1 /\ f[j - 1] <= i /\ i <= j
      <4>1. i \in mark + 1 .. k + 1 /\ f[k] \in Int
        BY <2>1, <2>2, <2>7
      <4>2. CASE f[k] <= i
        BY <2>3, <2>7, <4>1, <4>2
      <4>3. CASE ~(f[k] <= i)
        <5>1. i \in mark + 1 .. f[k] - 1
          BY <4>1, <4>3
        <5>2. PICK j \in mark + 1 .. k : f[j] = j + 1 /\ f[j - 1] <= i /\ i <= j
          BY <2>2, <5>1
        <5>3. j \in mark + 1 .. k + 1
          BY <2>1
        <5>. QED  BY <5>2, <5>3
      <4>. QED  BY <4>2, <4>3
    <3>3. Good(k + 1)
      BY <3>1, <3>2
    <3>. QED  BY <2>1, <3>3
  <2>. QED  BY <2>5, <2>6, <2>7
<1>3. S \in SUBSET Nat
  OBVIOUS
<1>. HIDE DEF S
<1>4. \A d \in S : d + 1 \in S
  BY <1>2
<1>5. S = Nat
  BY <1>1, <1>3, <1>4, SetOfNat
<1>6. ASSUME NEW k \in mark .. n PROVE Good(k)
  <2>1. k - mark \in S /\ mark + (k - mark) = k /\ k <= n
    BY <1>5
  <2>. HIDE DEF Good
  <2>. QED  BY <2>1 DEF S
<1>. QED  BY <1>6 DEF Reaches

Spans(r, i) == r[1] <= i /\ i <= r[2]

\* The ranges of a fold are in its turns, and leave none out that is before the
\* end of one
LEMMA RangesAre ==
    ASSUME NEW turns \in Seq(Content), NEW mark \in Nat, NEW r \in Ranges(turns, mark)
    PROVE  /\ r = <<r[1], r[2]>> /\ r[1] \in mark + 1 .. r[2] /\ r[2] \in 1 .. Len(turns)
           /\ \A i \in mark + 1 .. r[2] : \E q \in Ranges(turns, mark) : Spans(q, i)
<1>1. PICK n \in Nat : n = Len(turns)
  OBVIOUS
<1>2. AfterMark(mark) = mark + 1 /\ ~(mark + 1 > n)
  BY <1>1 DEF Ranges, AfterMark
<1>3. PICK f : f = BufferStart(turns, mark)
  OBVIOUS
<1>4. /\ Starts(turns, mark, n, f) /\ mark <= n
  <2>1. mark <= n
    BY <1>2
  <2>. QED  BY <1>1, <1>3, <2>1, BufferStarts
<1>5a. n \in Nat
  BY <1>1
<1>5. \A k \in mark .. n : Reaches(f, mark, k)
  BY <1>4, <1>5a, StartsAre
<1>6. Ranges(turns, mark) =
          {<<f[i - 1], i>> : i \in {j \in mark + 1 .. n : f[j] = j + 1}}
          \cup {q \in {<<f[n], n>>} : f[n] <= n /\ Weight(turns, f[n], n) >= MinTokens}
  BY <1>1, <1>2, <1>3 DEF Ranges
\* The full buffers reach up to where the buffer starts
<1>7. ASSUME NEW k \in mark .. n, NEW i \in mark + 1 .. f[k] - 1
      PROVE  \E q \in Ranges(turns, mark) : Spans(q, i)
  <2>1. PICK j \in mark + 1 .. k : f[j] = j + 1 /\ f[j - 1] <= i /\ i <= j
    BY <1>5 DEF Reaches
  <2>2. j \in mark + 1 .. n
    BY <1>4
  <2>3. <<f[j - 1], j>> \in Ranges(turns, mark)
    BY <1>6, <2>1, <2>2
  <2>4. Spans(<<f[j - 1], j>>, i)
    BY <2>1 DEF Spans
  <2>. QED  BY <2>3, <2>4
<1>8. ASSUME NEW j \in mark + 1 .. n, f[j] = j + 1, r = <<f[j - 1], j>>
      PROVE  /\ r = <<r[1], r[2]>> /\ r[1] \in mark + 1 .. r[2] /\ r[2] \in 1 .. n
             /\ \A i \in mark + 1 .. r[2] : \E q \in Ranges(turns, mark) : Spans(q, i)
  <2>1. r[1] = f[j - 1] /\ r[2] = j
    BY <1>8
  <2>2. j - 1 \in mark .. n /\ (j - 1) + 1 = j /\ j \in mark .. n /\ j \in 1 .. n
    BY <1>4
  <2>3. f[j - 1] \in mark + 1 .. j
    BY <1>5, <2>2 DEF Reaches
  <2>4. \A i \in mark + 1 .. j : \E q \in Ranges(turns, mark) : Spans(q, i)
    <3>1. f[j] - 1 = j
      BY <1>8
    <3>. QED  BY <1>7, <2>2, <3>1
  <2>. QED  BY <1>8, <2>1, <2>2, <2>3, <2>4
<1>9. ASSUME r = <<f[n], n>>, f[n] <= n
      PROVE  /\ r = <<r[1], r[2]>> /\ r[1] \in mark + 1 .. r[2] /\ r[2] \in 1 .. n
             /\ \A i \in mark + 1 .. r[2] : \E q \in Ranges(turns, mark) : Spans(q, i)
  <2>1. r[1] = f[n] /\ r[2] = n
    BY <1>9
  <2>2. n \in mark .. n /\ n \in 1 .. n
    BY <1>2, <1>4
  <2>3. f[n] \in mark + 1 .. n
    <3>1. f[n] \in mark + 1 .. n + 1
      BY <1>5, <2>2 DEF Reaches
    <3>. QED  BY <1>9, <3>1
  <2>4. ASSUME NEW i \in mark + 1 .. n PROVE \E q \in Ranges(turns, mark) : Spans(q, i)
    <3>1. CASE i \in mark + 1 .. f[n] - 1
      BY <1>7, <2>2, <3>1
    <3>2. CASE ~(i \in mark + 1 .. f[n] - 1)
      <4>1. f[n] <= i /\ i <= n
        BY <2>3, <3>2
      <4>. QED  BY <2>1, <4>1 DEF Spans
    <3>. QED  BY <3>1, <3>2
  <2>. QED  BY <1>9, <2>1, <2>2, <2>3, <2>4
<1>10. \/ \E j \in mark + 1 .. n : f[j] = j + 1 /\ r = <<f[j - 1], j>>
       \/ r = <<f[n], n>> /\ f[n] <= n
  BY <1>6
<1>. QED  BY <1>1, <1>8, <1>9, <1>10
-----------------------------------------------------------------------------
\* The watermark of the chunks of a session of n turns
Highest(C) == CHOOSE m \in {0} \cup {c.last : c \in C} : \A c \in C : c.last <= m

LEMMA HighestIs ==
    ASSUME NEW n \in Nat, NEW C, \A c \in C : c.last \in 1 .. n
    PROVE  /\ Highest(C) \in 0 .. n /\ \A c \in C : c.last <= Highest(C)
           /\ Highest(C) = 0 \/ \E c \in C : c.last = Highest(C)
<1>. DEFINE M == {0} \cup {c.last : c \in C}
            S == {m \in Nat : \A k \in M : k <= m}
<1>1. M \subseteq 0 .. n
  OBVIOUS
<1>2. n \in S
  BY <1>1
<1>3. PICK m \in S : \A k \in S : m <= k
  <2>. HIDE DEF M
  <2>. QED  BY <1>2, LeastOfNat
<1>4. m \in M
  <2>. SUFFICES ASSUME m \notin M PROVE FALSE
    OBVIOUS
  <2>1. 0 \in M /\ m \in Nat /\ \A k \in M : k <= m
    BY <1>3
  <2>. HIDE DEF M
  <2>2. m - 1 \in Nat /\ \A k \in M : k <= m - 1
    BY <1>1, <2>1
  <2>3. m - 1 \in S
    BY <2>2
  <2>. QED  BY <1>3, <2>1, <2>3
<1>5. \A c \in C : c.last <= m
  BY <1>3
<1>6. Highest(C) \in M /\ \A c \in C : c.last <= Highest(C)
  BY <1>4, <1>5 DEF Highest
<1>. QED  BY <1>1, <1>6

\* A transcript that goes on from u
Extends(w, u) == Len(u) <= Len(w) /\ \A i \in 1 .. Len(u) : w[i] = u[i]

LEMMA PartIs ==
    ASSUME NEW u \in Seq(Content), NEW s \in 1 .. Len(u), NEW e \in s .. Len(u)
    PROVE  /\ SubSeq(u, s, e) \in Seq(Content) /\ Len(SubSeq(u, s, e)) = e - s + 1
           /\ \A i \in 1 .. e - s + 1 : SubSeq(u, s, e)[i] = u[s + i - 1]
<1>1. s \in Int /\ e \in Int /\ s <= e
  OBVIOUS
<1>2. \A i \in s .. e : u[i] \in Content
  BY ElementOfSeq
<1>. QED  BY <1>1, <1>2, SubSeqProperties

LEMMA PartStays ==
    ASSUME NEW u \in Seq(Content), NEW w \in Seq(Content), Extends(w, u),
           NEW s \in 1 .. Len(u), NEW e \in s .. Len(u)
    PROVE  SubSeq(w, s, e) = SubSeq(u, s, e)
<1>1. s \in 1 .. Len(w) /\ e \in s .. Len(w)
  BY DEF Extends
<1>2. \A i \in 1 .. e - s + 1 : s + i - 1 \in 1 .. Len(u)
  OBVIOUS
<1>3. \A i \in 1 .. e - s + 1 : u[s + i - 1] = w[s + i - 1]
  BY <1>2 DEF Extends
<1>4. \A i \in 1 .. e - s + 1 : SubSeq(w, s, e)[i] = SubSeq(u, s, e)[i]
  BY <1>1, <1>3, PartIs
<1>5. /\ SubSeq(w, s, e) \in Seq(Content) /\ Len(SubSeq(w, s, e)) = e - s + 1
      /\ SubSeq(u, s, e) \in Seq(Content) /\ Len(SubSeq(u, s, e)) = e - s + 1
  BY <1>1, PartIs
<1>. QED  BY <1>4, <1>5, SeqEqual

\* What the watermark promises about turn i of u, hashes H stored, ranges R refused
Told(u, H, R, i) ==
    \/ \E s \in 1 .. i, e \in i .. Len(u) : SubSeq(u, s, e) \in H
    \/ \E r \in R : Spans(r, i)

LEMMA ToldStays ==
    ASSUME NEW u \in Seq(Content), NEW w \in Seq(Content), Extends(w, u),
           NEW H, NEW G, H \subseteq G, NEW R, NEW Q, R \subseteq Q,
           NEW i \in Nat \ {0}, Told(u, H, R, i)
    PROVE  Told(w, G, Q, i)
<1>1. CASE \E r \in R : Spans(r, i)
  BY <1>1 DEF Told
<1>2. CASE \E s \in 1 .. i, e \in i .. Len(u) : SubSeq(u, s, e) \in H
  <2>1. PICK s \in 1 .. i, e \in i .. Len(u) : SubSeq(u, s, e) \in H
    BY <1>2
  <2>2. s \in 1 .. Len(u) /\ e \in s .. Len(u)
    OBVIOUS
  <2>3. SubSeq(w, s, e) \in G
    BY <2>1, <2>2, PartStays
  <2>4. e \in i .. Len(w)
    BY DEF Extends
  <2>. QED  BY <2>3, <2>4 DEF Told
<1>. QED  BY <1>1, <1>2 DEF Told

\* A fold tells of every turn from its watermark to the end of a chunk it stores
KeptRanges(t, mark, H) == {r \in Ranges(t, mark) : Scanned(t, r) /\ Hash(t, r) \notin H}
FirstRanges(t, mark, H) ==
    {r \in KeptRanges(t, mark, H) :
        \A q \in KeptRanges(t, mark, H) : Hash(t, q) = Hash(t, r) => r[1] <= q[1]}

LEMMA FoldTells ==
    ASSUME NEW t \in Seq(Content), NEW u \in Seq(Content), Extends(u, t),
           NEW mark \in Nat, NEW H, NEW R,
           NEW r \in FirstRanges(t, mark, H), NEW i \in mark + 1 .. r[2]
    PROVE  Told(u, H \cup {Hash(t, q) : q \in FirstRanges(t, mark, H)},
                R \cup {q \in Ranges(t, mark) : ~Scanned(t, q)}, i)
<1>. DEFINE K == KeptRanges(t, mark, H)
            F == FirstRanges(t, mark, H)
            G == H \cup {Hash(t, q) : q \in F}
<1>1. r \in Ranges(t, mark)
  BY DEF FirstRanges, KeptRanges
<1>2. PICK q \in Ranges(t, mark) : Spans(q, i)
  BY <1>1, RangesAre
<1>3. q[1] \in mark + 1 .. q[2] /\ q[2] \in 1 .. Len(t)
  BY RangesAre
<1>4. CASE ~Scanned(t, q)
  BY <1>2, <1>4 DEF Told
<1>5. CASE Hash(t, q) \in G
  <2>1. q[1] \in 1 .. Len(t) /\ q[2] \in q[1] .. Len(t)
    BY <1>3
  <2>2. SubSeq(u, q[1], q[2]) \in G
    BY <1>5, <2>1, PartStays DEF Hash
  <2>3. q[1] \in 1 .. i /\ q[2] \in i .. Len(u)
    BY <1>2, <1>3 DEF Spans, Extends
  <2>. QED  BY <2>2, <2>3 DEF Told
<1>6. CASE Scanned(t, q) /\ Hash(t, q) \notin H
  <2>. DEFINE S == {p[1] : p \in {k \in K : Hash(t, k) = Hash(t, q)}}
  <2>1. q \in K
    BY <1>6 DEF KeptRanges
  <2>2. \A k \in K : k[1] \in Nat
    <3>1. ASSUME NEW k \in K PROVE k[1] \in Nat
      <4>1. k \in Ranges(t, mark)
        BY DEF KeptRanges
      <4>2. k[1] \in mark + 1 .. k[2] /\ k[2] \in 1 .. Len(t)
        BY <4>1, RangesAre
      <4>. QED  BY <4>2
    <3>. QED  BY <3>1
  <2>. HIDE DEF K
  <2>3. S \in SUBSET Nat /\ S # {}
    BY <2>1, <2>2
  <2>4. PICK m \in S : \A k \in S : m <= k
    <3>. HIDE DEF S
    <3>. QED  BY <2>3, LeastOfNat
  <2>5. PICK p \in K : Hash(t, p) = Hash(t, q) /\ p[1] = m
    BY <2>4
  <2>6. ASSUME NEW k \in K, Hash(t, k) = Hash(t, p) PROVE p[1] <= k[1]
    BY <2>4, <2>5, <2>6
  <2>7. p \in F
    BY <2>6 DEF FirstRanges, K
  <2>8. Hash(t, q) \in G
    BY <2>5, <2>7
  <2>. QED  BY <1>5, <2>8
<1>. QED  BY <1>4, <1>5, <1>6
-----------------------------------------------------------------------------
(***************************************************************************)
(* NoTurnFallsBetween needs, of a fold that is running, that its turns are  *)
(* the first of the session's and that its watermark was one; and of every  *)
(* chunk, that it ends inside the session.                                 *)
(***************************************************************************)
FoldFrame == [pc : {"idle", "mark", "record"}, turns : Seq(Content), mark : Nat]

\* How far a process is with its fold, turns the hook read from the start
Onward(f, u, C, past) ==
    /\ Len(f.turns) <= Len(u) /\ (past = 0 => Extends(u, f.turns))
    /\ f.mark = 0 \/ \E c \in C : c.last = f.mark

ChunksEnd(C, u) == \A c \in C : c.last \in 1 .. Len(u)
ChunksTyped(C) ==
    \A c \in C :
        c.first \in 1 .. c.last /\ c.hash \in Seq(Content) /\ Len(c.hash) = c.last - c.first + 1

HashesOf(C) == {c.hash : c \in C}
NoneBetween(u, C, R) == \A i \in 1 .. Highest(C) : Told(u, HashesOf(C), R, i)

FoldInv ==
    /\ transcript \in Seq(Content) /\ outgrown \in 0 .. Len(transcript)
    /\ fold \in [Folder -> FoldFrame]
    /\ ChunksTyped(chunks) /\ ChunksEnd(chunks, transcript)
    /\ \A p \in Folder : Onward(fold[p], transcript, chunks, outgrown)
    /\ outgrown = 0 => NoneBetween(transcript, chunks, refused)

LEMMA NoFoldIs ==
    /\ NoFold \in FoldFrame
    /\ \A u \in Seq(Content) : \A C, past : Onward(NoFold, u, C, past)
<1>1. NoFold \in FoldFrame
  BY DEF NoFold, FoldFrame
<1>2. ASSUME NEW u \in Seq(Content), NEW C, NEW past PROVE Onward(NoFold, u, C, past)
  BY DEF NoFold, Onward, Extends
<1>. QED  BY <1>1, <1>2

LEMMA ExtendsItself == ASSUME NEW u \in Seq(Content) PROVE Extends(u, u)
BY DEF Extends

LEMMA InitFoldInv == FoldInit => FoldInv
<1>. SUFFICES ASSUME FoldInit PROVE FoldInv
  OBVIOUS
<1>1. /\ transcript = << >> /\ outgrown = 0 /\ chunks = {} /\ refused = {}
      /\ fold = [p \in Folder |-> NoFold]
  BY DEF FoldInit
<1>2. transcript \in Seq(Content) /\ Len(transcript) = 0
  BY <1>1
<1>3. Highest(chunks) = 0
  <2>1. 0 \in Nat /\ \A c \in chunks : c.last \in 1 .. 0
    BY <1>1
  <2>2. Highest(chunks) \in 0 .. 0
    BY <2>1, HighestIs
  <2>. QED  BY <2>2
<1>4. fold \in [Folder -> FoldFrame]
  BY <1>1, NoFoldIs
<1>5. \A p \in Folder : Onward(fold[p], transcript, chunks, outgrown)
  BY <1>1, <1>2, NoFoldIs
<1>6. ChunksTyped(chunks) /\ ChunksEnd(chunks, transcript)
  BY <1>1 DEF ChunksTyped, ChunksEnd
<1>7. NoneBetween(transcript, chunks, refused)
  BY <1>3 DEF NoneBetween
<1>. QED  BY <1>1, <1>2, <1>4, <1>5, <1>6, <1>7 DEF FoldInv

\* A fold goes on while turns are said, the file grows and chunks are stored
LEMMA OnwardStays ==
    ASSUME NEW f \in FoldFrame, NEW u \in Seq(Content), NEW w \in Seq(Content),
           Extends(w, u), NEW C, NEW D, C \subseteq D, NEW m \in Nat, NEW n \in Nat, m <= n,
           Onward(f, u, C, m)
    PROVE  Onward(f, w, D, n)
<1>1. f.turns \in Seq(Content)
  BY DEF FoldFrame
<1>2. Len(u) <= Len(w) /\ Len(f.turns) <= Len(u)
  BY DEF Extends, Onward
<1>3. ASSUME n = 0 PROVE Extends(w, f.turns)
  <2>1. Extends(u, f.turns)
    BY <1>3 DEF Onward
  <2>. QED  BY <1>1, <1>2, <2>1 DEF Extends
<1>4. f.mark = 0 \/ \E c \in D : c.last = f.mark
  BY DEF Onward
<1>. QED  BY <1>1, <1>2, <1>3, <1>4 DEF Onward

\* A longer session, the same chunks
LEMMA BetweenStays ==
    ASSUME NEW u \in Seq(Content), NEW w \in Seq(Content), Extends(w, u),
           NEW C, ChunksEnd(C, u), NEW R, NoneBetween(u, C, R)
    PROVE  NoneBetween(w, C, R)
<1>1. Highest(C) \in Nat
  <2>1. Highest(C) \in 0 .. Len(u)
    BY HighestIs DEF ChunksEnd
  <2>. QED  BY <2>1
<1>2. ASSUME NEW i \in 1 .. Highest(C) PROVE Told(w, HashesOf(C), R, i)
  <2>1. Told(u, HashesOf(C), R, i)
    BY DEF NoneBetween
  <2>2. i \in Nat \ {0}
    BY <1>1
  <2>. QED  BY <2>1, <2>2, ToldStays
<1>. QED  BY <1>2 DEF NoneBetween

LEMMA SayKeeps ==
    ASSUME FoldInv, NEW c \in Content, Say(c)
    PROVE  FoldInv'
<1>1. /\ transcript' = Append(transcript, c) /\ outgrown' = outgrown /\ chunks' = chunks
      /\ refused' = refused /\ fold' = fold
  BY DEF Say
<1>2. PICK u : u = transcript
  OBVIOUS
<1>3. PICK w : w = transcript'
  OBVIOUS
<1>4. u \in Seq(Content) /\ outgrown \in 0 .. Len(u) /\ fold \in [Folder -> FoldFrame]
  BY <1>2 DEF FoldInv
<1>5. w \in Seq(Content) /\ Len(w) = Len(u) + 1 /\ \A i \in 1 .. Len(u) : w[i] = u[i]
  BY <1>1, <1>2, <1>3, <1>4, AppendProperties
<1>6. Extends(w, u) /\ outgrown \in 0 .. Len(w) /\ outgrown \in Nat
  BY <1>4, <1>5 DEF Extends
<1>7. ChunksTyped(chunks) /\ ChunksEnd(chunks, u) /\ ChunksEnd(chunks, w)
  <2>1. ChunksTyped(chunks) /\ ChunksEnd(chunks, u)
    BY <1>2 DEF FoldInv
  <2>. QED  BY <1>4, <1>5, <2>1 DEF ChunksEnd
<1>8. \A p \in Folder : Onward(fold[p], w, chunks, outgrown)
  <2>1. ASSUME NEW p \in Folder PROVE Onward(fold[p], w, chunks, outgrown)
    <3>1. Onward(fold[p], u, chunks, outgrown) /\ fold[p] \in FoldFrame
      BY <1>2, <1>4 DEF FoldInv
    <3>. QED  BY <1>4, <1>5, <1>6, <3>1, OnwardStays
  <2>. QED  BY <2>1
<1>9. outgrown = 0 => NoneBetween(w, chunks, refused)
  <2>1. outgrown = 0 => NoneBetween(u, chunks, refused)
    BY <1>2 DEF FoldInv
  <2>. QED  BY <1>4, <1>5, <1>6, <1>7, <2>1, BetweenStays
<1>. QED  BY <1>1, <1>3, <1>4, <1>5, <1>6, <1>7, <1>8, <1>9 DEF FoldInv

LEMMA OutgrowKeeps ==
    ASSUME FoldInv, Outgrow
    PROVE  FoldInv'
<1>1. /\ outgrown < Len(transcript) /\ outgrown' = outgrown + 1 /\ transcript' = transcript
      /\ chunks' = chunks /\ refused' = refused /\ fold' = fold
  BY DEF Outgrow
<1>2. /\ transcript \in Seq(Content) /\ outgrown \in 0 .. Len(transcript)
      /\ fold \in [Folder -> FoldFrame]
      /\ ChunksTyped(chunks) /\ ChunksEnd(chunks, transcript)
      /\ \A p \in Folder : Onward(fold[p], transcript, chunks, outgrown)
  BY DEF FoldInv
<1>3. /\ outgrown + 1 \in 0 .. Len(transcript) /\ outgrown \in Nat /\ outgrown + 1 \in Nat
      /\ outgrown <= outgrown + 1 /\ outgrown + 1 # 0
  BY <1>1, <1>2
<1>4. \A p \in Folder : Onward(fold[p], transcript, chunks, outgrown + 1)
  <2>1. ASSUME NEW p \in Folder PROVE Onward(fold[p], transcript, chunks, outgrown + 1)
    <3>1. Onward(fold[p], transcript, chunks, outgrown) /\ fold[p] \in FoldFrame
      BY <1>2
    <3>. QED  BY <1>2, <1>3, <3>1, OnwardStays, ExtendsItself
  <2>. QED  BY <2>1
<1>. QED  BY <1>1, <1>2, <1>3, <1>4 DEF FoldInv

\* One process's frame moves, nothing else
LEMMA FrameMoves ==
    ASSUME FoldInv, NEW p \in Folder, NEW f \in FoldFrame, fold' = [fold EXCEPT ![p] = f],
           Onward(f, transcript, chunks, outgrown),
           UNCHANGED <<transcript, outgrown, chunks, refused>>
    PROVE  FoldInv'
<1>1. /\ transcript \in Seq(Content) /\ outgrown \in 0 .. Len(transcript)
      /\ fold \in [Folder -> FoldFrame]
      /\ ChunksTyped(chunks) /\ ChunksEnd(chunks, transcript)
      /\ \A q \in Folder : Onward(fold[q], transcript, chunks, outgrown)
      /\ outgrown = 0 => NoneBetween(transcript, chunks, refused)
  BY DEF FoldInv
<1>2. fold' \in [Folder -> FoldFrame]
  BY <1>1
<1>3. \A q \in Folder : Onward(fold'[q], transcript, chunks, outgrown)
  <2>1. ASSUME NEW q \in Folder PROVE Onward(fold'[q], transcript, chunks, outgrown)
    <3>1. fold'[q] = f \/ fold'[q] = fold[q]
      BY <1>1
    <3>. QED  BY <1>1, <3>1
  <2>. QED  BY <2>1
<1>. QED  BY <1>1, <1>2, <1>3 DEF FoldInv

LEMMA ReadTranscriptKeeps ==
    ASSUME FoldInv, NEW p \in Folder, ReadTranscript(p)
    PROVE  FoldInv'
<1>1. PICK t : t = SubSeq(transcript, outgrown + 1, Len(transcript))
  OBVIOUS
<1>2. PICK f : f = [NoFold EXCEPT !.pc = "mark", !.turns = t]
  OBVIOUS
<1>3. fold' = [fold EXCEPT ![p] = f] /\ UNCHANGED <<transcript, outgrown, chunks, refused>>
  BY <1>1, <1>2 DEF ReadTranscript
<1>4. transcript \in Seq(Content) /\ outgrown \in 0 .. Len(transcript)
  BY DEF FoldInv
<1>5. PICK n \in Nat : n = Len(transcript) /\ outgrown \in 0 .. n
  BY <1>4
<1>6. \A i \in outgrown + 1 .. n : i \in 1 .. n
  BY <1>5
<1>7. \A i \in outgrown + 1 .. n : transcript[i] \in Content
  BY <1>4, <1>5, <1>6, ElementOfSeq
<1>8. /\ t \in Seq(Content) /\ Len(t) = IF outgrown + 1 <= n THEN n - (outgrown + 1) + 1 ELSE 0
      /\ \A i \in 1 .. n - (outgrown + 1) + 1 : t[i] = transcript[outgrown + 1 + i - 1]
  <2>1. outgrown + 1 \in Int /\ n \in Int
    BY <1>5
  <2>. QED  BY <1>1, <1>5, <1>7, <2>1, SubSeqProperties
<1>9. Len(t) <= n
  BY <1>5, <1>8
<1>10. ASSUME outgrown = 0 PROVE Extends(transcript, t)
  <2>1. Len(t) = n
    BY <1>5, <1>8, <1>10
  <2>2. ASSUME NEW i \in 1 .. n PROVE transcript[i] = t[i]
    <3>1. i \in 1 .. n - (outgrown + 1) + 1 /\ outgrown + 1 + i - 1 = i
      BY <1>10
    <3>. QED  BY <1>8, <3>1
  <2>. QED  BY <1>5, <2>1, <2>2 DEF Extends
<1>11. f \in FoldFrame /\ f.turns = t /\ f.mark = 0
  BY <1>2, <1>8 DEF FoldFrame, NoFold
<1>12. Onward(f, transcript, chunks, outgrown)
  BY <1>5, <1>9, <1>10, <1>11 DEF Onward
<1>. QED  BY <1>3, <1>11, <1>12, FrameMoves

LEMMA ReadWatermarkKeeps ==
    ASSUME FoldInv, NEW p \in Folder, ReadWatermark(p)
    PROVE  FoldInv'
<1>1. PICK m : m = Highest(chunks)
  OBVIOUS
<1>2. PICK f : f = [fold[p] EXCEPT !.pc = "record", !.mark = m]
  OBVIOUS
<1>3. Watermark = m
  BY <1>1 DEF Watermark, Highest
<1>4. /\ transcript \in Seq(Content) /\ fold \in [Folder -> FoldFrame]
      /\ ChunksEnd(chunks, transcript) /\ Onward(fold[p], transcript, chunks, outgrown)
  BY DEF FoldInv
<1>5. fold' = [fold EXCEPT ![p] = f] /\ UNCHANGED <<transcript, outgrown, chunks, refused>>
  BY <1>2, <1>3, <1>4 DEF ReadWatermark
<1>6. m \in Nat /\ (m = 0 \/ \E c \in chunks : c.last = m)
  <2>1. /\ Highest(chunks) \in 0 .. Len(transcript)
        /\ Highest(chunks) = 0 \/ \E c \in chunks : c.last = Highest(chunks)
    BY <1>4, HighestIs DEF ChunksEnd
  <2>. QED  BY <1>1, <2>1
<1>7. fold[p] \in FoldFrame
  BY <1>4
<1>8. f \in FoldFrame /\ f.turns = fold[p].turns /\ f.mark = m
  BY <1>2, <1>6, <1>7 DEF FoldFrame
<1>9. Onward(f, transcript, chunks, outgrown)
  BY <1>4, <1>6, <1>8 DEF Onward
<1>. QED  BY <1>5, <1>8, <1>9, FrameMoves

LEMMA KillFolderKeeps ==
    ASSUME FoldInv, NEW p \in Folder, KillFolder(p)
    PROVE  FoldInv'
<1>1. fold' = [fold EXCEPT ![p] = NoFold] /\ UNCHANGED <<transcript, outgrown, chunks, refused>>
  BY DEF KillFolder
<1>2. transcript \in Seq(Content)
  BY DEF FoldInv
<1>. QED  BY <1>1, <1>2, NoFoldIs, FrameMoves
\* The chunk a range is stored as
ChunkOf(t, r) == [first |-> r[1], last |-> r[2], hash |-> Hash(t, r)]

LEMMA ChunkIs ==
    ASSUME NEW t \in Seq(Content), NEW mark \in Nat, NEW H,
           NEW r \in FirstRanges(t, mark, H)
    PROVE  /\ ChunkOf(t, r).first \in 1 .. ChunkOf(t, r).last
           /\ ChunkOf(t, r).last = r[2] /\ r[2] \in 1 .. Len(t)
           /\ ChunkOf(t, r).hash = Hash(t, r) /\ Hash(t, r) \in Seq(Content)
           /\ Len(Hash(t, r)) = ChunkOf(t, r).last - ChunkOf(t, r).first + 1
<1>1. r \in Ranges(t, mark)
  BY DEF FirstRanges, KeptRanges
<1>2. r[1] \in mark + 1 .. r[2] /\ r[2] \in 1 .. Len(t)
  BY <1>1, RangesAre
<1>3. r[1] \in 1 .. Len(t) /\ r[2] \in r[1] .. Len(t) /\ r[1] \in 1 .. r[2]
  BY <1>2
<1>4. Hash(t, r) \in Seq(Content) /\ Len(Hash(t, r)) = r[2] - r[1] + 1
  BY <1>3, PartIs DEF Hash
<1>. QED  BY <1>2, <1>3, <1>4 DEF ChunkOf

LEMMA TopIs ==
    ASSUME NEW u \in Seq(Content), NEW C, ChunksEnd(C, u)
    PROVE  /\ Highest(C) \in Nat /\ \A c \in C : c.last <= Highest(C)
           /\ Highest(C) = 0 \/ \E c \in C : c.last = Highest(C)
<1>1. Len(u) \in Nat /\ \A c \in C : c.last \in 1 .. Len(u)
  BY DEF ChunksEnd
<1>2. Highest(C) \in 0 .. Len(u)
  BY <1>1, HighestIs
<1>. QED  BY <1>1, <1>2, HighestIs

\* A stored fold leaves no turn between the old watermark and the new one
LEMMA BetweenGrows ==
    ASSUME NEW u \in Seq(Content), NEW t \in Seq(Content), Extends(u, t),
           NEW C, ChunksEnd(C, u), NEW mark \in Nat, mark = 0 \/ \E c \in C : c.last = mark,
           NEW R, NoneBetween(u, C, R), NEW D,
           D = C \cup {ChunkOf(t, r) : r \in FirstRanges(t, mark, HashesOf(C))}
    PROVE  /\ ChunksEnd(D, u)
           /\ NoneBetween(u, D, R \cup {r \in Ranges(t, mark) : ~Scanned(t, r)})
<1>. DEFINE F == FirstRanges(t, mark, HashesOf(C))
            Q == R \cup {r \in Ranges(t, mark) : ~Scanned(t, r)}
            G == HashesOf(C) \cup {Hash(t, r) : r \in F}
<1>1. \A c \in D : c \in C \/ \E r \in F : c = ChunkOf(t, r)
  OBVIOUS
<1>2. ChunksEnd(D, u)
  <2>1. ASSUME NEW c \in D PROVE c.last \in 1 .. Len(u)
    <3>1. CASE c \in C
      BY <3>1 DEF ChunksEnd
    <3>2. CASE c \notin C
      <4>1. PICK r \in F : c = ChunkOf(t, r)
        BY <1>1, <3>2
      <4>2. c.last \in 1 .. Len(t)
        BY <4>1, ChunkIs
      <4>. QED  BY <4>2 DEF Extends
    <3>. QED  BY <3>1, <3>2
  <2>. QED  BY <2>1 DEF ChunksEnd
<1>3. HashesOf(D) = G
  <2>1. ASSUME NEW r \in F PROVE ChunkOf(t, r).hash = Hash(t, r)
    BY ChunkIs
  <2>. HIDE DEF F
  <2>2. ASSUME NEW h \in HashesOf(D) PROVE h \in G
    <3>1. PICK c \in D : h = c.hash
      BY DEF HashesOf
    <3>. QED  BY <1>1, <2>1, <3>1 DEF HashesOf
  <2>3. ASSUME NEW h \in G PROVE h \in HashesOf(D)
    <3>1. CASE \E c \in C : h = c.hash
      BY <3>1 DEF HashesOf
    <3>2. CASE \E r \in F : h = Hash(t, r)
      <4>1. PICK r \in F : h = Hash(t, r)
        BY <3>2
      <4>2. ChunkOf(t, r) \in D
        BY DEF F
      <4>. QED  BY <2>1, <4>1, <4>2 DEF HashesOf
    <3>. QED  BY <3>1, <3>2 DEF HashesOf
  <2>. HIDE DEF G
  <2>. QED  BY <2>2, <2>3
<1>4. PICK low \in Nat : low = Highest(C)
  BY TopIs
<1>5. PICK top \in Nat : top = Highest(D)
  BY <1>2, TopIs
<1>6. mark <= low
  <2>1. \A c \in C : c.last <= low
    BY <1>4, TopIs
  <2>. QED  BY <1>4, <2>1
<1>7. top = 0 \/ \E c \in D : c.last = top
  <2>1. Highest(D) = 0 \/ \E c \in D : c.last = Highest(D)
    BY <1>2, TopIs
  <2>. QED  BY <1>5, <2>1
<1>8. ASSUME NEW i \in 1 .. top PROVE Told(u, G, Q, i)
  <2>1. CASE i <= low
    <3>1. i \in 1 .. Highest(C) /\ i \in Nat \ {0}
      BY <1>4, <1>5, <2>1
    <3>2. Told(u, HashesOf(C), R, i)
      BY <3>1 DEF NoneBetween
    <3>. QED  BY <3>1, <3>2, ToldStays, ExtendsItself
  <2>2. CASE ~(i <= low)
    <3>0. top # 0
      BY <1>5
    <3>1. PICK c \in D : c.last = top
      BY <1>7, <3>0
    <3>2. c \notin C
      <4>1. \A k \in C : k.last <= low
        BY <1>4, TopIs
      <4>. QED  BY <1>4, <1>5, <2>2, <3>1, <4>1
    <3>3. PICK r \in F : c = ChunkOf(t, r)
      BY <1>1, <3>2
    <3>4. r[2] = top
      BY <3>1, <3>3, ChunkIs
    <3>5. i \in mark + 1 .. r[2]
      BY <1>4, <1>5, <1>6, <2>2, <3>4
    <3>. QED  BY <3>5, FoldTells
  <2>. QED  BY <2>1, <2>2
<1>9. NoneBetween(u, D, Q)
  BY <1>3, <1>5, <1>8 DEF NoneBetween
<1>. QED  BY <1>2, <1>9

LEMMA RecordChunksKeeps ==
    ASSUME FoldInv, NEW p \in Folder, RecordChunks(p)
    PROVE  FoldInv'
<1>1. PICK t : t = fold[p].turns
  OBVIOUS
<1>2. PICK mark : mark = fold[p].mark
  OBVIOUS
<1>3. PICK C : C = chunks
  OBVIOUS
<1>4. PICK D : D = chunks'
  OBVIOUS
<1>5. PICK Q : Q = refused'
  OBVIOUS
<1>. DEFINE F == FirstRanges(t, mark, HashesOf(C))
<1>6. /\ transcript \in Seq(Content) /\ outgrown \in 0 .. Len(transcript)
      /\ fold \in [Folder -> FoldFrame] /\ ChunksTyped(C) /\ ChunksEnd(C, transcript)
      /\ \A q \in Folder : Onward(fold[q], transcript, C, outgrown)
      /\ outgrown = 0 => NoneBetween(transcript, C, refused)
  BY <1>3 DEF FoldInv
<1>7. t \in Seq(Content) /\ mark \in Nat
  BY <1>1, <1>2, <1>6 DEF FoldFrame
<1>8. /\ Len(t) <= Len(transcript) /\ (outgrown = 0 => Extends(transcript, t))
      /\ mark = 0 \/ \E c \in C : c.last = mark
  BY <1>1, <1>2, <1>6 DEF Onward
<1>9. /\ D = C \cup {ChunkOf(t, r) : r \in F}
      /\ Q = refused \cup {r \in Ranges(t, mark) : ~Scanned(t, r)}
      /\ fold' = [fold EXCEPT ![p] = NoFold] /\ UNCHANGED <<transcript, outgrown>>
  BY <1>1, <1>2, <1>3, <1>4, <1>5
     DEF RecordChunks, FirstRanges, KeptRanges, ChunkOf, Hashes, HashesOf
<1>10. fold' \in [Folder -> FoldFrame]
  BY <1>6, <1>9, NoFoldIs
<1>11. \A q \in Folder : Onward(fold'[q], transcript, D, outgrown)
  <2>1. ASSUME NEW q \in Folder PROVE Onward(fold'[q], transcript, D, outgrown)
    <3>1. CASE q = p
      BY <1>6, <1>9, <3>1, NoFoldIs
    <3>2. CASE q # p
      <4>1. fold'[q] = fold[q] /\ fold[q] \in FoldFrame
        BY <1>6, <1>9, <3>2
      <4>2. outgrown \in Nat /\ outgrown <= outgrown /\ C \subseteq D
        BY <1>6, <1>9
      <4>3. Onward(fold[q], transcript, C, outgrown)
        BY <1>6
      <4>. QED  BY <1>6, <4>1, <4>2, <4>3, OnwardStays, ExtendsItself
    <3>. QED  BY <3>1, <3>2
  <2>. QED  BY <2>1
<1>12. \A c \in D : c \in C \/ \E r \in F : c = ChunkOf(t, r)
  BY <1>9
<1>13. ASSUME NEW c \in D
       PROVE  /\ c.first \in 1 .. c.last /\ c.hash \in Seq(Content)
              /\ Len(c.hash) = c.last - c.first + 1 /\ c.last \in 1 .. Len(transcript)
  <2>1. CASE c \in C
    BY <1>6, <2>1 DEF ChunksTyped, ChunksEnd
  <2>2. CASE c \notin C
    <3>1. PICK r \in F : c = ChunkOf(t, r)
      BY <1>12, <2>2
    <3>2. /\ c.first \in 1 .. c.last /\ c.hash \in Seq(Content)
          /\ Len(c.hash) = c.last - c.first + 1 /\ c.last \in 1 .. Len(t)
      BY <1>7, <3>1, ChunkIs
    <3>. QED  BY <1>6, <1>7, <1>8, <3>2
  <2>. QED  BY <2>1, <2>2
<1>14. ChunksTyped(D) /\ ChunksEnd(D, transcript)
  BY <1>13 DEF ChunksTyped, ChunksEnd
<1>15. ASSUME outgrown = 0 PROVE NoneBetween(transcript, D, Q)
  BY <1>6, <1>7, <1>8, <1>9, <1>15, BetweenGrows
<1>. QED  BY <1>4, <1>5, <1>6, <1>9, <1>10, <1>11, <1>14, <1>15 DEF FoldInv

LEMMA StepFoldInv == FoldInv /\ [FoldNext]_foldVars => FoldInv'
<1>. SUFFICES ASSUME FoldInv, [FoldNext]_foldVars PROVE FoldInv'
  OBVIOUS
<1>1. ASSUME NEW c \in Content, Say(c) PROVE FoldInv'
  BY <1>1, SayKeeps
<1>2. CASE Outgrow
  BY <1>2, OutgrowKeeps
<1>3. ASSUME NEW p \in Folder, ReadTranscript(p) PROVE FoldInv'
  BY <1>3, ReadTranscriptKeeps
<1>4. ASSUME NEW p \in Folder, ReadWatermark(p) PROVE FoldInv'
  BY <1>4, ReadWatermarkKeeps
<1>5. ASSUME NEW p \in Folder, RecordChunks(p) PROVE FoldInv'
  BY <1>5, RecordChunksKeeps
<1>6. ASSUME NEW p \in Folder, KillFolder(p) PROVE FoldInv'
  BY <1>6, KillFolderKeeps
<1>7. CASE UNCHANGED foldVars
  BY <1>7 DEF FoldInv, foldVars
<1>. QED  BY <1>1, <1>2, <1>3, <1>4, <1>5, <1>6, <1>7 DEF FoldNext

LEMMA FoldInvariant == FoldSpec => []FoldInv
<1>. QED  BY InitFoldInv, StepFoldInv, PTL DEF FoldSpec

LEMMA FoldInvIsEnough == FoldInv => FoldTypeOK /\ NoTurnFallsBetween
<1>. SUFFICES ASSUME FoldInv PROVE FoldTypeOK /\ NoTurnFallsBetween
  OBVIOUS
<1>1. FoldTypeOK
  <2>1. \A p \in Folder : fold[p].pc \in {"idle", "mark", "record"} /\ fold[p].mark \in Nat
    BY DEF FoldInv, FoldFrame
  <2>. QED  BY <2>1 DEF FoldInv, FoldTypeOK, ChunksTyped
<1>2. Watermark = Highest(chunks)
  BY DEF Watermark, Highest
<1>3. NoTurnFallsBetween
  BY <1>2 DEF FoldInv, NoneBetween, NoTurnFallsBetween, Told, Spans, Hashes, HashesOf
<1>. QED  BY <1>1, <1>3

\* Every chunk is one range of turns under the hash of turns as many, and every
\* fold that is running has a watermark a chunk gave or none
\* (recordSessionChunks, latestSessionChunkWatermark).
THEOREM FoldTyped == FoldSpec => []FoldTypeOK
<1>. QED  BY FoldInvariant, FoldInvIsEnough, PTL

\* However many processes fold one session, at whatever lengths they read it and
\* whichever of them die, and whatever the limits of a chunk and the tokens of a
\* turn: up to the watermark every turn is stored, is stored in the same words
\* for other turns, or was refused by a scanner, as long as the transcript fits
\* the tail the hook reads (foldTurns, recordSessionChunks, capture-context).
THEOREM NoTurnIsLost == FoldSpec => []NoTurnFallsBetween
<1>. QED  BY FoldInvariant, FoldInvIsEnough, PTL

(***************************************************************************)
(* Device linking.  Neither promise is inductive alone.  LinkIsConsistent   *)
(* needs that a key travels with its workspace and installation all the way *)
(* from the approval over the session's row to the CLI (Paired), and        *)
(* KeyHandedOutOnce that at any moment each key is in one place on that way *)
(* (OneHolder).                                                            *)
(***************************************************************************)

\* An issued key with its workspace
Issued(k, u) == k \in 1 .. Len(keys) /\ keys[k] = u

ApprovalPaired ==
    \A p \in Approver :
        /\ approval[p].pc # "idle" => approval[p].u \in User
        /\ approval[p].pc \in {"key", "find", "put", "approve"} => approval[p].u \in owners
        /\ Carries(p) => Issued(approval[p].key, approval[p].u)
        /\ approval[p].pc = "approve" => approval[p].u \in installs

SessionPaired ==
    \A s \in Session : session[s].key # NoKey =>
        /\ Issued(session[s].key, session[s].ws) /\ session[s].inst = session[s].ws
        /\ session[s].ws \in owners /\ session[s].inst \in installs

CliPaired ==
    \A s \in Session : cli[s].pc = "linked" =>
        /\ Issued(cli[s].key, cli[s].ws) /\ cli[s].inst = cli[s].ws
        /\ cli[s].ws \in owners /\ cli[s].inst \in installs

Paired == ApprovalPaired /\ SessionPaired /\ CliPaired

ApprovalsApart ==
    \A p \in Approver : Carries(p) =>
        /\ \A q \in Approver : q # p /\ Carries(q) => approval[q].key # approval[p].key
        /\ \A s \in Session : session[s].key # approval[p].key
        /\ \A s \in Session : cli[s].pc = "linked" => cli[s].key # approval[p].key

SessionsApart ==
    \A s \in Session : session[s].key # NoKey =>
        /\ \A t \in Session : t # s => session[t].key # session[s].key
        /\ \A t \in Session : cli[t].pc = "linked" => cli[t].key # session[s].key

ClisApart ==
    \A s, t \in Session : cli[s].pc = "linked" /\ cli[t].pc = "linked" /\ t # s =>
        cli[t].key # cli[s].key

OneHolder == ApprovalsApart /\ SessionsApart /\ ClisApart

LinkInv == LinkTypeOK /\ Paired /\ OneHolder

-----------------------------------------------------------------------------

LEMMA InitLinkInv == LinkInit => LinkInv
<1>. SUFFICES ASSUME LinkInit PROVE LinkInv
  OBVIOUS
<1>. USE DEF LinkInit, NoSession, NoApproval, Unlinked, NoKey
<1>1. AnySession \in Session
  BY LinkAssumption DEF AnySession
<1>2. LinkTypeOK
  BY <1>1, LinkAssumption DEF LinkTypeOK, SessionRow, SessionStatus, Approval, ApprovalLabel, Cli
<1>3. Paired
  BY DEF Paired, ApprovalPaired, SessionPaired, CliPaired, Carries
<1>4. OneHolder
  BY DEF OneHolder, ApprovalsApart, SessionsApart, ClisApart, Carries
<1>. QED  BY <1>2, <1>3, <1>4 DEF LinkInv

\* A CLI that falls back to local mode holds nothing; the others are as they were
LEMMA GoesLocal ==
    ASSUME cli \in [Session -> Cli], NEW s \in Session,
           cli' = [cli EXCEPT ![s].pc = "local"]
    PROVE  /\ cli' \in [Session -> Cli]
           /\ \A t \in Session : cli'[t].pc = "linked" => cli'[t] = cli[t]
<1>1. PICK c : c = [cli[s] EXCEPT !.pc = "local"]
  OBVIOUS
<1>2. cli[s] \in Cli
  OBVIOUS
<1>3. c \in Cli /\ c.pc = "local"
  BY <1>1, <1>2 DEF Cli
<1>4. cli' = [cli EXCEPT ![s] = c]
  BY <1>1
<1>. QED  BY <1>3, <1>4

\* Each step keeps the invariant, one case per action.
LEMMA StepLinkInv == LinkInv /\ [LinkNext]_linkVars => LinkInv'
<1>. SUFFICES ASSUME LinkInv, [LinkNext]_linkVars PROVE LinkInv'
  OBVIOUS
<1>. USE DEF LinkInv, LinkTypeOK, Paired, ApprovalPaired, SessionPaired, CliPaired,
             OneHolder, ApprovalsApart, SessionsApart, ClisApart, Carries, Issued
<1>0. AnySession \in Session /\ NoApproval(AnySession) \in Approval
  BY LinkAssumption DEF AnySession, NoApproval, Approval, ApprovalLabel, NoKey
<1>1. ASSUME NEW s \in Session, OpenSession(s) PROVE LinkInv'
  BY <1>1 DEF OpenSession, SessionRow, SessionStatus, Cli
<1>2. ASSUME NEW s \in Session, StopPolling(s) PROVE LinkInv'
  BY <1>2 DEF StopPolling, Cli
<1>3. ASSUME NEW s \in Session, TimePasses(s) PROVE LinkInv'
  BY <1>3 DEF TimePasses
<1>4. ASSUME NEW s \in Session, PollSession(s) PROVE LinkInv'
  <2>1. CASE /\ session[s].status = "pending" /\ s \in late
             /\ session' = [session EXCEPT ![s].status = "expired"]
             /\ cli' = [cli EXCEPT ![s].pc = "local"]
    BY <1>4, <2>1 DEF PollSession, SessionRow, SessionStatus, Cli
  <2>2. CASE session' = session /\ (cli' = [cli EXCEPT ![s].pc = "local"] \/ cli' = cli)
    <3>1. UNCHANGED <<owners, keys, installs, late, approval>>
      BY <1>4 DEF PollSession
    <3>2. /\ cli' \in [Session -> Cli]
          /\ \A t \in Session : cli'[t].pc = "linked" => cli'[t] = cli[t]
      BY <2>2, GoesLocal
    <3>. QED  BY <2>2, <3>1, <3>2
  <2>3. CASE /\ session[s].key # NoKey
             /\ session' = [session EXCEPT ![s] = Consumed(session[s])]
             /\ \/ cli' = [cli EXCEPT ![s].pc = "local"]
                \/ cli' = [cli EXCEPT ![s] = [pc |-> "linked", ws |-> session[s].ws,
                                              key |-> session[s].key, inst |-> session[s].inst]]
    <3>1. Consumed(session[s]) \in SessionRow /\ Consumed(session[s]).key = NoKey
      BY DEF Consumed, SessionRow, SessionStatus, NoKey
    <3>2. CASE cli' = [cli EXCEPT ![s].pc = "local"]
      <4>1. UNCHANGED <<owners, keys, installs, late, approval>>
        BY <1>4 DEF PollSession
      <4>2. /\ cli' \in [Session -> Cli]
            /\ \A t \in Session : cli'[t].pc = "linked" => cli'[t] = cli[t]
        BY <3>2, GoesLocal
      <4>3. LinkTypeOK'
        BY <2>3, <3>1, <4>1, <4>2
      <4>4. Paired'
        BY <2>3, <3>1, <4>1, <4>2
      <4>5. OneHolder'
        BY <2>3, <3>1, <4>1, <4>2 DEF NoKey
      <4>. QED  BY <4>3, <4>4, <4>5
    <3>3. CASE cli' = [cli EXCEPT ![s] = [pc |-> "linked", ws |-> session[s].ws,
                                          key |-> session[s].key, inst |-> session[s].inst]]
      <4>. DEFINE row == [pc |-> "linked", ws |-> session[s].ws,
                          key |-> session[s].key, inst |-> session[s].inst]
      <4>1. row \in Cli
        BY DEF Cli, SessionRow
      <4>2. UNCHANGED <<owners, keys, installs, late, approval>>
        BY <1>4 DEF PollSession
      <4>3. LinkTypeOK'
        BY <2>3, <3>1, <3>3, <4>1, <4>2
      <4>4. Paired'
        BY <2>3, <3>1, <3>3, <4>2
      <4>5. OneHolder'
        BY <2>3, <3>1, <3>3, <4>2 DEF NoKey, Key
      <4>. QED  BY <4>3, <4>4, <4>5
    <3>. QED  BY <2>3, <3>2, <3>3
  <2>. QED  BY <1>4, <2>1, <2>2, <2>3 DEF PollSession
<1>5. ASSUME NEW p \in Approver, NEW s \in Session, NEW u \in User, ReadSession(p, s, u)
      PROVE LinkInv'
  <2>1. PICK row : row = [NoApproval(s) EXCEPT !.pc = "read", !.u = u]
    OBVIOUS
  <2>2. /\ approval' = [approval EXCEPT ![p] = row]
        /\ UNCHANGED <<owners, keys, installs, session, late, cli>>
    BY <1>5, <2>1 DEF ReadSession
  <2>3. row \in Approval /\ row.pc = "read" /\ row.u = u
    BY <2>1 DEF NoApproval, NoKey, Approval, ApprovalLabel
  <2>4. LinkTypeOK'
    BY <2>2, <2>3
  <2>5. Paired'
    BY <2>2, <2>3
  <2>6. OneHolder'
    BY <2>2, <2>3
  <2>. QED  BY <2>4, <2>5, <2>6
<1>6. ASSUME NEW p \in Approver, ExpireSession(p) PROVE LinkInv'
  <2>. DEFINE s == approval[p].s
  <2>1. /\ approval[p].pc = "read" /\ s \in Session
        /\ session' = [session EXCEPT ![s].status = "expired"]
        /\ approval' = [approval EXCEPT ![p] = NoApproval(AnySession)]
        /\ UNCHANGED <<owners, keys, installs, late, cli>>
    BY <1>6 DEF ExpireSession, At, Answer, Approval
  <2>2. /\ session' \in [Session -> SessionRow]
        /\ \A t \in Session : /\ session'[t].key = session[t].key
                              /\ session'[t].ws = session[t].ws
                              /\ session'[t].inst = session[t].inst
    <3>. DEFINE row == [session[s] EXCEPT !.status = "expired"]
    <3>1. session[s] \in SessionRow
      BY <2>1
    <3>2. /\ row \in SessionRow /\ row.key = session[s].key
          /\ row.ws = session[s].ws /\ row.inst = session[s].inst
      BY <3>1 DEF SessionRow, SessionStatus
    <3>3. session' = [session EXCEPT ![s] = row]
      BY <2>1
    <3>. HIDE DEF row, s
    <3>4. session' \in [Session -> SessionRow]
      BY <3>2, <3>3
    <3>5. \A t \in Session : session'[t] = IF t = s THEN row ELSE session[t]
      BY <3>3
    <3>. QED  BY <3>2, <3>4, <3>5
  <2>3. NoApproval(AnySession).pc = "idle"
    BY DEF NoApproval
  <2>4. LinkTypeOK'
    BY <1>0, <2>1, <2>2
  <2>5. Paired'
    BY <2>1, <2>2, <2>3
  <2>6. OneHolder'
    BY <2>1, <2>2, <2>3
  <2>. QED  BY <2>4, <2>5, <2>6
<1>7. ASSUME NEW p \in Approver, EnsureWorkspace(p) PROVE LinkInv'
  BY <1>7 DEF EnsureWorkspace, At, Proceed, Approval, ApprovalLabel
<1>8. ASSUME NEW p \in Approver, IssueKey(p) PROVE LinkInv'
  <2>1. /\ approval[p].pc = "key" /\ approval[p].u \in User /\ Len(keys) < MaxKeys
        /\ keys' = Append(keys, approval[p].u)
        /\ approval' = [approval EXCEPT ![p].pc = "find", ![p].key = Len(keys) + 1]
        /\ UNCHANGED <<owners, installs, session, late, cli>>
    BY <1>8 DEF IssueKey, At
  <2>2. Len(keys) \in Nat /\ Len(keys) + 1 \in Key
    BY <2>1, LinkAssumption DEF Key
  <2>3. /\ Len(keys') = Len(keys) + 1 /\ keys' \in Seq(User)
        /\ keys'[Len(keys) + 1] = approval[p].u
        /\ \A k \in 1 .. Len(keys) : keys'[k] = keys[k]
    BY <2>1
  <2>4. LinkTypeOK'
    <3>1. approval'[p] \in Approval /\ \A q \in Approver : q # p => approval'[q] = approval[q]
      BY <2>1, <2>2 DEF Approval, ApprovalLabel
    <3>2. Len(keys') <= MaxKeys
      BY <2>1, <2>2, <2>3, LinkAssumption
    <3>. QED  BY <2>1, <2>3, <3>1, <3>2
  <2>5. Paired'
    BY <2>1, <2>2, <2>3 DEF Approval, SessionRow, Cli
  <2>6. OneHolder'
    BY <2>1, <2>2, <2>3 DEF Approval, SessionRow, Cli, NoKey
  <2>. QED  BY <2>4, <2>5, <2>6
<1>9. ASSUME NEW p \in Approver, FindInstallation(p) PROVE LinkInv'
  <2>1. /\ approval[p].pc = "find" /\ approval[p] \in Approval
        /\ approval' = [approval EXCEPT ![p].pc = "put", ![p].found = approval[p].u \in installs]
        /\ installs' = installs
        /\ UNCHANGED <<owners, keys, session, late, cli>>
    BY <1>9 DEF FindInstallation, At
  <2>2. approval'[p] \in Approval /\ \A q \in Approver : q # p => approval'[q] = approval[q]
    <3>. DEFINE there == approval[p].u \in installs
                row == [approval[p] EXCEPT !.pc = "put", !.found = there]
    <3>1. row \in Approval
      <4>1. there \in BOOLEAN
        OBVIOUS
      <4>. HIDE DEF there
      <4>. QED  BY <2>1, <4>1 DEF Approval, ApprovalLabel
    <3>2. approval' = [approval EXCEPT ![p] = row]
      BY <2>1
    <3>. HIDE DEF row
    <3>. QED  BY <3>1, <3>2
  <2>3. LinkTypeOK'
    BY <2>1, <2>2
  <2>4. Paired'
    BY <2>1, <2>2 DEF Approval
  <2>5. OneHolder'
    BY <2>1, <2>2 DEF Approval
  <2>. QED  BY <2>3, <2>4, <2>5
<1>10. ASSUME NEW p \in Approver, PutInstallation(p) PROVE LinkInv'
  <2>1. /\ approval[p].pc = "put" /\ approval[p] \in Approval
        /\ approval' = [approval EXCEPT ![p].pc = "approve"]
        /\ installs' = installs \cup {approval[p].u}
        /\ UNCHANGED <<owners, keys, session, late, cli>>
    BY <1>10 DEF PutInstallation, At, Proceed
  <2>2. approval'[p] \in Approval /\ \A q \in Approver : q # p => approval'[q] = approval[q]
    <3>. DEFINE row == [approval[p] EXCEPT !.pc = "approve"]
    <3>1. row \in Approval
      BY <2>1 DEF Approval, ApprovalLabel
    <3>2. approval' = [approval EXCEPT ![p] = row]
      BY <2>1
    <3>. HIDE DEF row
    <3>. QED  BY <3>1, <3>2
  <2>3. LinkTypeOK'
    BY <2>1, <2>2
  <2>4. Paired'
    BY <2>1, <2>2 DEF Approval
  <2>5. OneHolder'
    BY <2>1, <2>2 DEF Approval
  <2>. QED  BY <2>3, <2>4, <2>5
<1>11. ASSUME NEW p \in Approver, InstallationClashes(p) PROVE LinkInv'
  BY <1>0, <1>11 DEF InstallationClashes, Answer, NoApproval
<1>12. ASSUME NEW p \in Approver, ApproveSession(p) PROVE LinkInv'
  <2>. DEFINE s == approval[p].s
              row == Approved(session[s], approval[p])
  <2>1. /\ approval[p].pc = "approve" /\ s \in Session
        /\ session' = [session EXCEPT ![s] = row]
        /\ approval' = [approval EXCEPT ![p] = NoApproval(AnySession)]
        /\ UNCHANGED <<owners, keys, installs, late, cli>>
    BY <1>12 DEF ApproveSession, At, Answer, Approval
  <2>2. row \in SessionRow
    <3>1. session[s] \in SessionRow /\ approval[p] \in Approval
      BY <2>1
    <3>2. approval[p].u \in User /\ approval[p].key \in Key \cup {NoKey}
      BY <2>1, <3>1 DEF Approval
    <3>. QED  BY <3>1, <3>2 DEF Approved, SessionRow, SessionStatus
  <2>3. row.key = approval[p].key /\ row.ws = approval[p].u /\ row.inst = approval[p].u
    BY <2>1 DEF Approved, SessionRow
  <2>4. NoApproval(AnySession).pc = "idle"
    BY DEF NoApproval
  <2>. HIDE DEF row
  <2>5. LinkTypeOK'
    BY <1>0, <2>1, <2>2
  <2>6. Paired'
    BY <2>1, <2>3, <2>4
  <2>7. OneHolder'
    <3>1. ApprovalsApart'
      BY <2>1, <2>3, <2>4
    <3>2. SessionsApart'
      BY <2>1, <2>3, <2>4
    <3>3. ClisApart'
      BY <2>1
    <3>. QED  BY <3>1, <3>2, <3>3
  <2>. QED  BY <2>5, <2>6, <2>7
<1>13. ASSUME NEW p \in Approver, ApprovalFails(p) PROVE LinkInv'
  BY <1>0, <1>13 DEF ApprovalFails, Answer, NoApproval
<1>14. CASE UNCHANGED linkVars
  BY <1>14 DEF linkVars
<1>. QED
  BY <1>1, <1>2, <1>3, <1>4, <1>5, <1>6, <1>7, <1>8, <1>9, <1>10, <1>11, <1>12, <1>13, <1>14
  DEF LinkNext

-----------------------------------------------------------------------------

\* LinkInv is an invariant of every behaviour.
LEMMA LinkInvariant == LinkSpec => []LinkInv
BY InitLinkInv, StepLinkInv, PTL DEF LinkSpec

\* The tables and frames of device linking keep their types.
THEOREM LinkTyped == LinkSpec => []LinkTypeOK
BY LinkInvariant, PTL DEF LinkInv

\* Whoever approves, however often and at whatever moment, the CLI ends with a
\* key of the workspace it was told and an installation in it.
THEOREM LinksFit == LinkSpec => []LinkIsConsistent
<1>1. LinkInv => LinkIsConsistent
  BY DEF LinkInv, LinkTypeOK, Paired, CliPaired, Issued, LinkIsConsistent
<1>. QED  BY <1>1, LinkInvariant, PTL

\* No key reaches two projects, nor stays readable at the control plane once
\* its CLI has it.
THEOREM KeysHandedOutOnce == LinkSpec => []KeyHandedOutOnce
<1>1. LinkInv => KeyHandedOutOnce
  BY DEF LinkInv, LinkTypeOK, Paired, CliPaired, SessionPaired, OneHolder, SessionsApart,
         ClisApart, Issued, KeyHandedOutOnce, Cli, NoKey
<1>. QED  BY <1>1, LinkInvariant, PTL

-----------------------------------------------------------------------------
(* Custody: the steps of device linking are those of KeyCustody, or stutter *)

HasApproval(k, p) == Carries(p) /\ approval[p].key = k
HasRow(k, s) == session[s].key = k
HasCli(k, s) == cli[s].pc = "linked" /\ cli[s].key = k

LEMMA HoldersAre ==
    ASSUME NEW k
    PROVE  /\ \A p \in Approver : Custody!Approval(p) \in HoldersOf(k) <=> HasApproval(k, p)
           /\ \A s \in Session : Custody!Row(s) \in HoldersOf(k) <=> HasRow(k, s)
           /\ \A s \in Session : Custody!Cli(s) \in HoldersOf(k) <=> HasCli(k, s)
           /\ \A h \in HoldersOf(k) : \/ \E p \in Approver : h = Custody!Approval(p)
                                      \/ \E s \in Session : h = Custody!Row(s)
                                      \/ \E s \in Session : h = Custody!Cli(s)
  BY DEF HoldersOf, HasApproval, HasRow, HasCli, Custody!Approval, Custody!Row, Custody!Cli

LEMMA HoldersAreAfter ==
    ASSUME NEW k
    PROVE  /\ \A p \in Approver : Custody!Approval(p) \in HoldersOf(k)' <=> HasApproval(k, p)'
           /\ \A s \in Session : Custody!Row(s) \in HoldersOf(k)' <=> HasRow(k, s)'
           /\ \A s \in Session : Custody!Cli(s) \in HoldersOf(k)' <=> HasCli(k, s)'
           /\ \A h \in HoldersOf(k)' : \/ \E p \in Approver : h = Custody!Approval(p)
                                       \/ \E s \in Session : h = Custody!Row(s)
                                       \/ \E s \in Session : h = Custody!Cli(s)
  BY DEF HoldersOf, HasApproval, HasRow, HasCli, Custody!Approval, Custody!Row, Custody!Cli

\* The kinds of holders do not overlap.
LEMMA HoldersDiffer ==
    ASSUME NEW p \in Approver, NEW q \in Approver, NEW s \in Session, NEW t \in Session
    PROVE  /\ Custody!Approval(p) = Custody!Approval(q) => p = q
           /\ Custody!Row(s) = Custody!Row(t) => s = t
           /\ Custody!Cli(s) = Custody!Cli(t) => s = t
           /\ Custody!Approval(p) # Custody!Row(s)
           /\ Custody!Approval(p) # Custody!Cli(s)
           /\ Custody!Row(s) # Custody!Cli(t)
  BY DEF Custody!Approval, Custody!Row, Custody!Cli

\* A key whose holders are told apart by no predicate has kept them.
LEMMA SameHolders ==
    ASSUME NEW k,
           \A p \in Approver : HasApproval(k, p)' <=> HasApproval(k, p),
           \A s \in Session : HasRow(k, s)' <=> HasRow(k, s),
           \A s \in Session : HasCli(k, s)' <=> HasCli(k, s)
    PROVE  HoldersOf(k)' = HoldersOf(k)
<1>1. ASSUME NEW h \in HoldersOf(k) PROVE h \in HoldersOf(k)'
  BY HoldersAre, HoldersAreAfter
<1>2. ASSUME NEW h \in HoldersOf(k)' PROVE h \in HoldersOf(k)
  BY HoldersAre, HoldersAreAfter
<1>. QED  BY <1>1, <1>2

LEMMA NoHolders ==
    ASSUME NEW k,
           \A p \in Approver : ~HasApproval(k, p)',
           \A s \in Session : ~HasRow(k, s)' /\ ~HasCli(k, s)'
    PROVE  HoldersOf(k)' = {}
<1>1. \A h \in HoldersOf(k)' : FALSE
  BY HoldersAreAfter
<1>. QED  BY <1>1

\* A step that moves no key is a stutter.
LEMMA NobodyMoves ==
    ASSUME UNCHANGED keys,
           \A k \in Key : /\ \A p \in Approver : HasApproval(k, p)' <=> HasApproval(k, p)
                          /\ \A s \in Session : HasRow(k, s)' <=> HasRow(k, s)
                          /\ \A s \in Session : HasCli(k, s)' <=> HasCli(k, s)
    PROVE  UNCHANGED Custody!custody
<1>1. ASSUME NEW k \in Key PROVE HoldersOf(k)' = HoldersOf(k)
  BY SameHolders
<1>. QED  BY <1>1 DEF Custody!custody

\* A key that an approval carries, or that a row holds, has no other holder.
LEMMA ApprovalAlone ==
    ASSUME LinkInv, NEW k \in Key, NEW p \in Approver, HasApproval(k, p)
    PROVE  /\ HoldersOf(k) = {Custody!Approval(p)}
           /\ \A q \in Approver : HasApproval(k, q) => q = p
           /\ \A s \in Session : ~HasRow(k, s) /\ ~HasCli(k, s)
<1>1. /\ \A q \in Approver : HasApproval(k, q) => q = p
      /\ \A s \in Session : ~HasRow(k, s) /\ ~HasCli(k, s)
  BY DEF LinkInv, OneHolder, ApprovalsApart, HasApproval, HasRow, HasCli
<1>. QED  BY <1>1, HoldersAre

LEMMA RowAlone ==
    ASSUME LinkInv, NEW k \in Key, NEW s \in Session, HasRow(k, s)
    PROVE  /\ HoldersOf(k) = {Custody!Row(s)}
           /\ \A p \in Approver : ~HasApproval(k, p)
           /\ \A t \in Session : (HasRow(k, t) => t = s) /\ ~HasCli(k, t)
<1>1. session[s].key # NoKey
  BY LinkAssumption DEF HasRow, Key, NoKey
<1>2. /\ \A p \in Approver : ~HasApproval(k, p)
      /\ \A t \in Session : HasRow(k, t) => t = s
      /\ \A t \in Session : ~HasCli(k, t)
  BY <1>1 DEF LinkInv, OneHolder, ApprovalsApart, SessionsApart, HasApproval, HasRow, HasCli
<1>. QED  BY <1>2, HoldersAre

\* What somebody holds has been issued.
LEMMA HeldIsIssued ==
    ASSUME LinkInv, NEW k \in Key,
           \/ \E p \in Approver : HasApproval(k, p)
           \/ \E s \in Session : HasRow(k, s)
    PROVE  k \in DOMAIN keys
<1>1. CASE \E p \in Approver : HasApproval(k, p)
  BY <1>1 DEF HasApproval, Carries, LinkInv, Paired, ApprovalPaired, Issued
<1>2. CASE \E s \in Session : HasRow(k, s)
  BY <1>2, LinkAssumption DEF HasRow, LinkInv, Paired, SessionPaired, Issued, Key, NoKey
<1>. QED  BY <1>1, <1>2

\* A key is lost with its only holder.
LEMMA Loses ==
    ASSUME LinkInv, UNCHANGED keys, NEW k \in Key, HoldersOf(k)' = {},
           \/ \E p \in Approver : HasApproval(k, p)
           \/ \E s \in Session : HasRow(k, s),
           \A j \in Key \ {k} : HoldersOf(j)' = HoldersOf(j)
    PROVE  Custody!Next
<1>1. HoldersOf(k) # {} /\ \A s \in Session : ~HasCli(k, s)
  <2>1. CASE \E p \in Approver : HasApproval(k, p)
    <3>1. PICK p \in Approver : HasApproval(k, p)
      BY <2>1
    <3>. QED  BY <3>1, ApprovalAlone
  <2>2. CASE \E s \in Session : HasRow(k, s)
    <3>1. PICK s \in Session : HasRow(k, s)
      BY <2>2
    <3>. QED  BY <3>1, RowAlone
  <2>. QED  BY <2>1, <2>2
<1>2. Custody!Lose(k)
  BY <1>1, HoldersAre DEF Custody!Lose
<1>. QED  BY <1>2, HeldIsIssued DEF Custody!Next

\* What an approval that ends without a row carried is lost.
LEMMA ApprovalEnds ==
    ASSUME LinkInv, NEW p \in Approver, Answer(p), UNCHANGED <<keys, session, cli>>
    PROVE  Custody!Next \/ UNCHANGED Custody!custody
<1>1. /\ approval \in [Approver -> Approval]
      /\ \A q \in Approver : approval'[q] = IF q = p THEN NoApproval(AnySession) ELSE approval[q]
  BY DEF LinkInv, LinkTypeOK, Answer
<1>2. \A k \in Key, q \in Approver : HasApproval(k, q)' <=> HasApproval(k, q) /\ q # p
  BY <1>1 DEF HasApproval, Carries, NoApproval
<1>3. \A k \in Key, s \in Session : /\ HasRow(k, s)' <=> HasRow(k, s)
                                    /\ HasCli(k, s)' <=> HasCli(k, s)
  BY DEF HasRow, HasCli
<1>4. CASE \E k \in Key : HasApproval(k, p)
  <2>1. PICK k \in Key : HasApproval(k, p)
    BY <1>4
  <2>2. HoldersOf(k)' = {}
    <3>1. /\ \A q \in Approver : HasApproval(k, q) => q = p
          /\ \A s \in Session : ~HasRow(k, s) /\ ~HasCli(k, s)
      BY <2>1, ApprovalAlone
    <3>2. /\ \A q \in Approver : ~HasApproval(k, q)'
          /\ \A s \in Session : ~HasRow(k, s)' /\ ~HasCli(k, s)'
      BY <1>2, <1>3, <3>1
    <3>. QED  BY <3>2, NoHolders
  <2>3. ASSUME NEW j \in Key \ {k} PROVE HoldersOf(j)' = HoldersOf(j)
    <3>1. ~HasApproval(j, p)
      BY <2>1 DEF HasApproval
    <3>2. /\ \A q \in Approver : HasApproval(j, q)' <=> HasApproval(j, q)
          /\ \A s \in Session : HasRow(j, s)' <=> HasRow(j, s)
          /\ \A s \in Session : HasCli(j, s)' <=> HasCli(j, s)
      BY <1>2, <1>3, <3>1
    <3>. QED  BY <3>2, SameHolders
  <2>. QED  BY <2>1, <2>2, <2>3, Loses
<1>5. CASE \A k \in Key : ~HasApproval(k, p)
  BY <1>2, <1>3, <1>5, NobodyMoves
<1>. QED  BY <1>4, <1>5

\* What a row held is delivered, or lost with the answer.
LEMMA RowEmptied ==
    ASSUME LinkInv, NEW s \in Session, NEW k \in Key, HasRow(k, s),
           session' = [session EXCEPT ![s] = Consumed(session[s])],
           UNCHANGED <<keys, approval>>,
           \A t \in Session \ {s} : cli'[t] = cli[t],
           cli[s].pc # "linked",
           \/ cli'[s].pc # "linked"
           \/ cli'[s].pc = "linked" /\ cli'[s].key = k
    PROVE  Custody!Next
<1>1. \A j \in Key, t \in Session : HasRow(j, t)' <=> HasRow(j, t) /\ t # s
  <2>1. session \in [Session -> SessionRow] /\ session[s] \in SessionRow
    BY DEF LinkInv, LinkTypeOK
  <2>2. Consumed(session[s]).key = NoKey /\ \A j \in Key : j # NoKey
    BY <2>1, LinkAssumption DEF Consumed, SessionRow, Key, NoKey
  <2>3. \A t \in Session : session'[t] = IF t = s THEN Consumed(session[s]) ELSE session[t]
    BY <2>1
  <2>. QED  BY <2>2, <2>3 DEF HasRow
<1>2. \A j \in Key, p \in Approver : HasApproval(j, p)' <=> HasApproval(j, p)
  BY DEF HasApproval, Carries
<1>3. \A j \in Key, t \in Session \ {s} : HasCli(j, t)' <=> HasCli(j, t)
  BY DEF HasCli
<1>4. \A j \in Key \ {k} : ~HasCli(j, s)' /\ ~HasCli(j, s) /\ ~HasRow(j, s)
  BY DEF HasCli, HasRow
<1>5. /\ HoldersOf(k) = {Custody!Row(s)}
      /\ \A p \in Approver : ~HasApproval(k, p)
      /\ \A t \in Session : (HasRow(k, t) => t = s) /\ ~HasCli(k, t)
  BY RowAlone
<1>6. /\ \A p \in Approver : ~HasApproval(k, p)'
      /\ \A t \in Session : ~HasRow(k, t)'
      /\ \A t \in Session \ {s} : ~HasCli(k, t)'
  BY <1>1, <1>2, <1>3, <1>5
<1>7. ASSUME NEW j \in Key \ {k} PROVE HoldersOf(j)' = HoldersOf(j)
  <2>1. /\ \A p \in Approver : HasApproval(j, p)' <=> HasApproval(j, p)
        /\ \A t \in Session : HasRow(j, t)' <=> HasRow(j, t)
        /\ \A t \in Session : HasCli(j, t)' <=> HasCli(j, t)
    BY <1>1, <1>2, <1>3, <1>4
  <2>. QED  BY <2>1, SameHolders
<1>8. CASE cli'[s].pc = "linked" /\ cli'[s].key = k
  <2>1. HoldersOf(k)' = {Custody!Cli(s)}
    <3>1. HasCli(k, s)'
      BY <1>8 DEF HasCli
    <3>2. \A h \in HoldersOf(k)' : h = Custody!Cli(s)
      <4>. SUFFICES ASSUME NEW h \in HoldersOf(k)' PROVE h = Custody!Cli(s)
        OBVIOUS
      <4>1. /\ \A p \in Approver : h # Custody!Approval(p)
            /\ \A t \in Session : h # Custody!Row(t)
        BY <1>6, HoldersAreAfter
      <4>2. PICK t \in Session : h = Custody!Cli(t) /\ HasCli(k, t)'
        BY <4>1, HoldersAreAfter
      <4>3. t = s
        BY <1>6, <4>2
      <4>. QED  BY <4>2, <4>3
    <3>. QED  BY <3>1, <3>2, HoldersAreAfter
  <2>2. Custody!Deliver(k, s)
    BY <1>5, <1>7, <2>1 DEF Custody!Deliver
  <2>. QED  BY <2>2, HeldIsIssued DEF Custody!Next
<1>9. CASE cli'[s].pc # "linked"
  <2>1. ~HasCli(k, s)'
    BY <1>9 DEF HasCli
  <2>2. ASSUME NEW t \in Session PROVE ~HasRow(k, t)' /\ ~HasCli(k, t)'
    <3>1. CASE t = s
      BY <1>6, <2>1, <3>1
    <3>2. CASE t # s
      BY <1>6, <3>2
    <3>. QED  BY <3>1, <3>2
  <2>3. HoldersOf(k)' = {}
    BY <1>6, <2>2, NoHolders
  <2>. QED  BY <1>7, <2>3, Loses
<1>. QED  BY <1>8, <1>9

\* A new key is with the approval that issued it.
LEMMA IssueMoves ==
    ASSUME LinkInv, NEW p \in Approver, IssueKey(p)
    PROVE  Custody!Next
<1>1. /\ approval[p].pc = "key" /\ approval[p].u \in User /\ Len(keys) < MaxKeys
      /\ keys' = Append(keys, approval[p].u)
      /\ approval' = [approval EXCEPT ![p].pc = "find", ![p].key = Len(keys) + 1]
      /\ UNCHANGED <<session, cli>>
  BY DEF IssueKey, At, LinkInv, Paired, ApprovalPaired
<1>2. PICK n : n = Len(keys) + 1
  OBVIOUS
<1>3. n \in Key /\ Len(keys) \in Nat
  BY <1>1, <1>2, LinkAssumption DEF Key, LinkInv, LinkTypeOK
<1>4. /\ approval'[p].pc = "find" /\ approval'[p].key = n
      /\ \A q \in Approver \ {p} : approval'[q] = approval[q]
  BY <1>1, <1>2 DEF LinkInv, LinkTypeOK, Approval
<1>5. /\ \A q \in Approver : ~HasApproval(n, q)
      /\ \A s \in Session : ~HasRow(n, s) /\ ~HasCli(n, s)
  <2>1. n # NoKey /\ n \notin 1 .. Len(keys)
    BY <1>2, <1>3 DEF NoKey
  <2>2. \A u : ~Issued(n, u)
    BY <2>1 DEF Issued
  <2>. QED  BY <2>1, <2>2 DEF LinkInv, Paired, ApprovalPaired, SessionPaired, CliPaired,
                              HasApproval, HasRow, HasCli
<1>6. \A k \in Key : /\ \A q \in Approver : HasApproval(k, q)' <=>
                                                HasApproval(k, q) \/ (q = p /\ k = n)
                     /\ \A s \in Session : HasRow(k, s)' <=> HasRow(k, s)
                     /\ \A s \in Session : HasCli(k, s)' <=> HasCli(k, s)
  BY <1>1, <1>4 DEF HasApproval, HasRow, HasCli, Carries
<1>7. HoldersOf(n)' = {Custody!Approval(p)}
  <2>1. \A h \in HoldersOf(n)' : h = Custody!Approval(p)
    BY <1>3, <1>5, <1>6, HoldersAreAfter
  <2>. QED  BY <1>3, <1>6, <2>1, HoldersAreAfter
<1>8. ASSUME NEW k \in Key \ {n} PROVE HoldersOf(k)' = HoldersOf(k)
  BY <1>6, HoldersAre, HoldersAreAfter
<1>9. Custody!Create(approval[p].u, p)
  BY <1>1, <1>2, <1>3, <1>7, <1>8 DEF Custody!Create
<1>. QED  BY <1>1, <1>9 DEF Custody!Next

\* An approved session's row takes the key over, and loses the one it held.
LEMMA ApproveMoves ==
    ASSUME LinkInv, NEW p \in Approver, ApproveSession(p)
    PROVE  Custody!Next
<1>0. /\ approval[p].s \in Session /\ approval[p].key \in Key
      /\ approval[p].pc = "approve" /\ HasApproval(approval[p].key, p)
  BY LinkAssumption DEF ApproveSession, At, LinkInv, LinkTypeOK, Approval, Paired, ApprovalPaired,
                        Carries, Issued, Key, HasApproval
<1>1. PICK s \in Session, k \in Key : s = approval[p].s /\ k = approval[p].key
  BY <1>0
<1>2. /\ approval[p].pc = "approve"
      /\ session' = [session EXCEPT ![s] = Approved(session[s], approval[p])]
      /\ approval' = [approval EXCEPT ![p] = NoApproval(AnySession)]
      /\ UNCHANGED <<keys, cli>>
  BY <1>1 DEF ApproveSession, At, Answer
<1>3. k \in Key /\ HasApproval(k, p)
  BY <1>0, <1>1
<1>4. \A t \in Session : session'[t].key = IF t = s THEN k ELSE session[t].key
  <2>1. session[s] \in SessionRow /\ session \in [Session -> SessionRow]
    BY DEF LinkInv, LinkTypeOK
  <2>2. Approved(session[s], approval[p]).key = k
    BY <1>1, <2>1 DEF Approved, SessionRow
  <2>. QED  BY <1>2, <2>1, <2>2
<1>5. \A q \in Approver : approval'[q] = IF q = p THEN NoApproval(AnySession) ELSE approval[q]
  BY <1>2 DEF LinkInv, LinkTypeOK
<1>6. \A j \in Key :
         /\ \A q \in Approver : HasApproval(j, q)' <=> HasApproval(j, q) /\ q # p
         /\ \A t \in Session : HasRow(j, t)' <=> IF t = s THEN j = k ELSE HasRow(j, t)
         /\ \A t \in Session : HasCli(j, t)' <=> HasCli(j, t)
  BY <1>2, <1>4, <1>5 DEF HasApproval, HasRow, HasCli, Carries, NoApproval
<1>7. /\ HoldersOf(k) = {Custody!Approval(p)}
      /\ \A q \in Approver : HasApproval(k, q) => q = p
      /\ \A t \in Session : ~HasRow(k, t) /\ ~HasCli(k, t)
  BY <1>3, ApprovalAlone
<1>8. HoldersOf(k)' = {Custody!Row(s)}
  <2>1. /\ \A q \in Approver : ~HasApproval(k, q)'
        /\ \A t \in Session : HasRow(k, t)' <=> t = s
        /\ \A t \in Session : ~HasCli(k, t)'
    <3>1. k \in Key
      BY <1>3
    <3>2. ASSUME NEW q \in Approver PROVE ~HasApproval(k, q)'
      BY <1>6, <1>7, <3>1
    <3>3. ASSUME NEW t \in Session PROVE HasRow(k, t)' <=> t = s
      <4>1. CASE t = s
        BY <1>6, <3>1, <4>1
      <4>2. CASE t # s
        BY <1>6, <1>7, <3>1, <4>2
      <4>. QED  BY <4>1, <4>2
    <3>4. ASSUME NEW t \in Session PROVE ~HasCli(k, t)'
      BY <1>6, <1>7, <3>1
    <3>. QED  BY <3>2, <3>3, <3>4
  <2>2. \A h \in HoldersOf(k)' : h = Custody!Row(s)
    BY <2>1, HoldersAreAfter
  <2>. QED  BY <1>1, <2>1, <2>2, HoldersAreAfter
<1>9. ASSUME NEW j \in Key \ {k} PROVE HoldersOf(j)' = HoldersOf(j) \ {Custody!Row(s)}
  <2>1. ~HasApproval(j, p)
    BY <1>3 DEF HasApproval
  <2>2. /\ \A q \in Approver : HasApproval(j, q)' <=> HasApproval(j, q)
        /\ \A t \in Session : HasRow(j, t)' <=> HasRow(j, t) /\ t # s
        /\ \A t \in Session : HasCli(j, t)' <=> HasCli(j, t)
    BY <1>6, <2>1
  <2>3. ASSUME NEW h \in HoldersOf(j)' PROVE h \in HoldersOf(j) \ {Custody!Row(s)}
    BY <1>1, <2>2, HoldersAre, HoldersAreAfter, HoldersDiffer
  <2>4. ASSUME NEW h \in HoldersOf(j) \ {Custody!Row(s)} PROVE h \in HoldersOf(j)'
    BY <1>1, <2>2, HoldersAre, HoldersAreAfter, HoldersDiffer
  <2>. QED  BY <2>3, <2>4
<1>10. Custody!Store(k, p, s)
  <2>. DEFINE before == [j \in Key |-> HoldersOf(j)]
              after == [j \in Key |-> HoldersOf(j)']
  <2>1. before[k] = {Custody!Approval(p)}
    BY <1>3, <1>7
  <2>2. ASSUME NEW j \in Key
        PROVE  after[j] = IF j = k THEN {Custody!Row(s)} ELSE before[j] \ {Custody!Row(s)}
    <3>1. CASE j = k
      BY <1>8, <3>1
    <3>2. CASE j # k
      BY <1>9, <3>2
    <3>. QED  BY <3>1, <3>2
  <2>3. after = [j \in Key |-> IF j = k THEN {Custody!Row(s)}
                                ELSE before[j] \ {Custody!Row(s)}]
    BY <2>2
  <2>. QED  BY <1>2, <2>1, <2>3 DEF Custody!Store
<1>. QED  BY <1>1, <1>3, <1>10, HeldIsIssued DEF Custody!Next

\* A poll moves a key only if it finds one in an approved row.
LEMMA PollMoves ==
    ASSUME LinkInv, NEW s \in Session, PollSession(s)
    PROVE  Custody!Next \/ UNCHANGED Custody!custody
<1>1. /\ cli[s].pc = "poll" /\ UNCHANGED <<keys, approval>>
      /\ session \in [Session -> SessionRow] /\ cli \in [Session -> Cli]
  BY DEF PollSession, LinkInv, LinkTypeOK
<1>2. \A k \in Key, p \in Approver : HasApproval(k, p)' <=> HasApproval(k, p)
  BY <1>1 DEF HasApproval, Carries
<1>3. CASE session[s].status = "approved" /\ session[s].key # NoKey
  <2>1. PICK k \in Key : HasRow(k, s)
    <3>1. session[s].key \in Key
      BY <1>1, <1>3 DEF SessionRow
    <3>. QED  BY <3>1 DEF HasRow
  <2>2. /\ session' = [session EXCEPT ![s] = Consumed(session[s])]
        /\ \/ cli' = [cli EXCEPT ![s].pc = "local"]
           \/ cli' = [cli EXCEPT ![s] = [pc |-> "linked", ws |-> session[s].ws,
                                         key |-> session[s].key, inst |-> session[s].inst]]
    BY <1>3 DEF PollSession
  <2>3. /\ \A t \in Session \ {s} : cli'[t] = cli[t]
        /\ \/ cli'[s].pc # "linked"
           \/ cli'[s].pc = "linked" /\ cli'[s].key = k
    <3>1. CASE cli' = [cli EXCEPT ![s].pc = "local"]
      <4>1. cli[s] \in Cli
        BY <1>1
      <4>2. cli'[s].pc = "local"
        BY <1>1, <3>1, <4>1 DEF Cli
      <4>. QED  BY <1>1, <3>1, <4>2
    <3>2. CASE cli' = [cli EXCEPT ![s] = [pc |-> "linked", ws |-> session[s].ws,
                                          key |-> session[s].key, inst |-> session[s].inst]]
      BY <1>1, <2>1, <3>2 DEF HasRow
    <3>. QED  BY <2>2, <3>1, <3>2
  <2>4. Custody!Next
    BY <1>1, <2>1, <2>2, <2>3, RowEmptied
  <2>. QED  BY <2>4
<1>4. CASE ~(session[s].status = "approved" /\ session[s].key # NoKey)
  <2>1. /\ cli' = [cli EXCEPT ![s].pc = "local"] \/ cli' = cli
        /\ session' = [session EXCEPT ![s].status = "expired"] \/ session' = session
    BY <1>4 DEF PollSession
  <2>2. \A t \in Session : session'[t].key = session[t].key
    <3>1. CASE session' = [session EXCEPT ![s].status = "expired"]
      <4>1. session[s] \in SessionRow
        BY <1>1
      <4>. QED  BY <1>1, <3>1, <4>1 DEF SessionRow
    <3>. QED  BY <2>1, <3>1
  <2>3. \A k \in Key, t \in Session : HasCli(k, t)' <=> HasCli(k, t)
    <3>1. CASE cli' = [cli EXCEPT ![s].pc = "local"]
      <4>1. cli'[s].pc = "local" /\ \A t \in Session \ {s} : cli'[t] = cli[t]
        <5>1. cli[s] \in Cli
          BY <1>1
        <5>. QED  BY <1>1, <3>1, <5>1 DEF Cli
      <4>. QED  BY <1>1, <4>1 DEF HasCli
    <3>2. CASE cli' = cli
      BY <3>2 DEF HasCli
    <3>. QED  BY <2>1, <3>1, <3>2
  <2>4. \A k \in Key, t \in Session : HasRow(k, t)' <=> HasRow(k, t)
    BY <2>2 DEF HasRow
  <2>. QED  BY <1>1, <1>2, <2>3, <2>4, NobodyMoves
<1>. QED  BY <1>3, <1>4

\* A step that leaves the frames of approvals what they carry, the rows their
\* keys and the linked CLIs as they are.
LEMMA KeysStay ==
    ASSUME UNCHANGED keys,
           \A p \in Approver : \/ approval'[p] = approval[p]
                               \/ ~Carries(p) /\ ~Carries(p)'
                               \/ /\ Carries(p) /\ Carries(p)'
                                  /\ approval'[p].key = approval[p].key,
           \A s \in Session : session'[s].key = session[s].key,
           \A s \in Session : \/ cli'[s] = cli[s]
                              \/ cli[s].pc # "linked" /\ cli'[s].pc # "linked"
    PROVE  UNCHANGED Custody!custody
<1>1. \A k \in Key : /\ \A p \in Approver : HasApproval(k, p)' <=> HasApproval(k, p)
                     /\ \A s \in Session : HasRow(k, s)' <=> HasRow(k, s)
                     /\ \A s \in Session : HasCli(k, s)' <=> HasCli(k, s)
  BY DEF HasApproval, HasRow, HasCli, Carries
<1>. QED  BY <1>1, NobodyMoves

LEMMA CustodyStep ==
    LinkInv /\ [LinkNext]_linkVars => [Custody!Next]_(Custody!custody)
<1>. SUFFICES ASSUME LinkInv, [LinkNext]_linkVars
              PROVE  Custody!Next \/ UNCHANGED Custody!custody
  OBVIOUS
<1>0. /\ session \in [Session -> SessionRow] /\ cli \in [Session -> Cli]
      /\ approval \in [Approver -> Approval]
  BY DEF LinkInv, LinkTypeOK
<1>1. ASSUME NEW s \in Session, OpenSession(s) PROVE UNCHANGED Custody!custody
  <2>1. \A t \in Session : session'[t].key = session[t].key
    <3>1. session[s] \in SessionRow
      BY <1>0
    <3>. QED  BY <1>0, <1>1, <3>1 DEF OpenSession, SessionRow
  <2>2. cli'[s].pc = "poll" /\ cli[s].pc = "new" /\ \A t \in Session \ {s} : cli'[t] = cli[t]
    <3>1. cli[s] \in Cli
      BY <1>0
    <3>. QED  BY <1>0, <1>1, <3>1 DEF OpenSession, Cli
  <2>3. \A t \in Session : cli'[t] = cli[t] \/ (cli[t].pc # "linked" /\ cli'[t].pc # "linked")
    BY <2>2
  <2>4. UNCHANGED <<keys, approval>>
    BY <1>1 DEF OpenSession
  <2>. QED  BY <2>1, <2>3, <2>4, KeysStay
<1>2. ASSUME NEW s \in Session, StopPolling(s) PROVE UNCHANGED Custody!custody
  <2>1. cli'[s].pc = "local" /\ cli[s].pc = "poll" /\ \A t \in Session \ {s} : cli'[t] = cli[t]
    <3>1. cli[s] \in Cli
      BY <1>0
    <3>. QED  BY <1>0, <1>2, <3>1 DEF StopPolling, Cli
  <2>2. \A t \in Session : cli'[t] = cli[t] \/ (cli[t].pc # "linked" /\ cli'[t].pc # "linked")
    BY <2>1
  <2>3. UNCHANGED <<keys, approval, session>>
    BY <1>2 DEF StopPolling
  <2>. QED  BY <2>2, <2>3, KeysStay
<1>3. ASSUME NEW s \in Session, TimePasses(s) PROVE UNCHANGED Custody!custody
  BY <1>3, KeysStay DEF TimePasses
<1>4. ASSUME NEW p \in Approver, NEW s \in Session, NEW u \in User, ReadSession(p, s, u)
      PROVE  UNCHANGED Custody!custody
  <2>1. /\ approval[p].pc = "idle"
        /\ approval' = [approval EXCEPT ![p] = [NoApproval(s) EXCEPT !.pc = "read", !.u = u]]
        /\ UNCHANGED <<keys, session, cli>>
    BY <1>4 DEF ReadSession, At
  <2>2. approval'[p].pc = "read" /\ \A q \in Approver \ {p} : approval'[q] = approval[q]
    BY <1>0, <2>1 DEF NoApproval
  <2>3. \A q \in Approver : approval'[q] = approval[q] \/ (~Carries(q) /\ ~Carries(q)')
    BY <2>1, <2>2 DEF Carries
  <2>. QED  BY <2>1, <2>3, KeysStay
<1>5. ASSUME NEW p \in Approver, ExpireSession(p) PROVE UNCHANGED Custody!custody
  <2>. DEFINE s == approval[p].s
  <2>1. /\ approval[p].pc = "read" /\ s \in Session
        /\ session' = [session EXCEPT ![s].status = "expired"]
        /\ approval' = [approval EXCEPT ![p] = NoApproval(AnySession)]
        /\ UNCHANGED <<keys, cli>>
    BY <1>0, <1>5 DEF ExpireSession, At, Answer, Approval
  <2>2. \A t \in Session : session'[t].key = session[t].key
    <3>1. session[s] \in SessionRow
      BY <1>0, <2>1
    <3>. QED  BY <1>0, <2>1, <3>1 DEF SessionRow
  <2>3. \A q \in Approver : approval'[q] = approval[q] \/ (~Carries(q) /\ ~Carries(q)')
    BY <1>0, <2>1 DEF Carries, NoApproval
  <2>. QED  BY <2>1, <2>2, <2>3, KeysStay
<1>6. ASSUME NEW p \in Approver, NEW to \in {"key", "put", "approve"},
             \/ approval[p].pc = "read" /\ to = "key"
             \/ approval[p].pc \in {"find", "put"} /\ to \in {"put", "approve"},
             approval'[p].pc = to, approval'[p].key = approval[p].key,
             \A q \in Approver \ {p} : approval'[q] = approval[q],
             UNCHANGED <<keys, session, cli>>
      PROVE  UNCHANGED Custody!custody
  <2>1. \A q \in Approver : \/ approval'[q] = approval[q]
                            \/ ~Carries(q) /\ ~Carries(q)'
                            \/ /\ Carries(q) /\ Carries(q)'
                               /\ approval'[q].key = approval[q].key
    BY <1>6 DEF Carries
  <2>. QED  BY <1>6, <2>1, KeysStay
<1>7. ASSUME NEW p \in Approver, EnsureWorkspace(p) PROVE UNCHANGED Custody!custody
  <2>1. approval[p] \in Approval
    BY <1>0
  <2>. QED  BY <1>0, <1>6, <1>7, <2>1 DEF EnsureWorkspace, At, Proceed, Approval
<1>8. ASSUME NEW p \in Approver, FindInstallation(p) PROVE UNCHANGED Custody!custody
  <2>1. approval[p] \in Approval
    BY <1>0
  <2>. QED  BY <1>0, <1>6, <1>8, <2>1 DEF FindInstallation, At, Approval
<1>9. ASSUME NEW p \in Approver, PutInstallation(p) PROVE UNCHANGED Custody!custody
  <2>1. approval[p] \in Approval
    BY <1>0
  <2>. QED  BY <1>0, <1>6, <1>9, <2>1 DEF PutInstallation, At, Proceed, Approval
<1>10. ASSUME NEW p \in Approver, InstallationClashes(p) \/ ApprovalFails(p)
       PROVE  Custody!Next \/ UNCHANGED Custody!custody
  BY <1>10, ApprovalEnds DEF InstallationClashes, ApprovalFails
<1>11. CASE UNCHANGED linkVars
  BY <1>11, KeysStay DEF linkVars
<1>. QED
  BY <1>1, <1>2, <1>3, <1>4, <1>5, <1>7, <1>8, <1>9, <1>10, <1>11,
     PollMoves, IssueMoves, ApproveMoves DEF LinkNext

\* Device linking implements the custody of its keys: for any number of sessions,
\* users and approvals, each key has one holder at a time and moves one way, from
\* its approval over a row to one CLI (approveDeviceSession, pollDeviceSession).
THEOREM LinkingKeepsCustody == LinkSpec => KeysMoveOneWay
<1>1. LinkInit => Custody!Init
  <2>. SUFFICES ASSUME LinkInit PROVE Custody!Init
    OBVIOUS
  <2>1. ASSUME NEW k \in Key PROVE HoldersOf(k) = {}
    <3>1. /\ \A p \in Approver : ~HasApproval(k, p)
          /\ \A s \in Session : ~HasRow(k, s) /\ ~HasCli(k, s)
      BY LinkAssumption DEF LinkInit, HasApproval, HasRow, HasCli, Carries, NoApproval, NoSession,
                            Unlinked, Key, NoKey
    <3>2. \A h \in HoldersOf(k) : FALSE
      BY <3>1, HoldersAre
    <3>. QED  BY <3>2
  <2>. QED  BY <2>1 DEF LinkInit, Custody!Init
<1>. QED  BY <1>1, CustodyStep, LinkInvariant, PTL DEF LinkSpec, KeysMoveOneWay, Custody!Spec

(***************************************************************************)
(* The parts side by side.  PartsSpec, the instance TLC runs, moves one of  *)
(* them: what it does to that part is a step of the part, and for the       *)
(* others it is a stutter.  So it is a behaviour of each of them, and what  *)
(* is proved of a part holds of all of them together.                      *)
(***************************************************************************)
LEMMA EachPartMovesAlone ==
    PartsSpec => /\ Spec /\ IndexSpec /\ LinkSpec /\ FactsSpec
                 /\ SchemaSpec /\ FoldSpec /\ FitSpec /\ IngestSpec
<1>1. PartsInit => /\ Init /\ IndexInit /\ LinkInit /\ FactsInit
                   /\ SchemaInit /\ FoldInit /\ FitInit /\ IngestInit
  BY DEF PartsInit
<1>2. ASSUME [PartsNext]_<<part, vars, indexVars, linkVars, factVars, schemaVars,
                           foldVars, fitVars, ingestVars>>
      PROVE  /\ [Next]_vars /\ [IndexNext]_indexVars /\ [LinkNext]_linkVars
             /\ [FactsNext]_factVars /\ [SchemaNext]_schemaVars /\ [FoldNext]_foldVars
             /\ [FitNext]_fitVars /\ [IngestNext]_ingestVars
  BY <1>2 DEF PartsNext
<1>. QED
  BY <1>1, <1>2, PTL DEF PartsSpec, Spec, IndexSpec, LinkSpec, FactsSpec, SchemaSpec, FoldSpec,
                         FitSpec, IngestSpec

LEMMA OneOfThePartsMoves == PartsSpec => [](part \in AllParts)
<1>1. PartsInit => part \in AllParts
  BY MovingAssumption DEF PartsInit
<1>2. part \in AllParts /\ [PartsNext]_<<part, vars, indexVars, linkVars, factVars, schemaVars,
                                         foldVars, fitVars, ingestVars>>
          => (part \in AllParts)'
  BY DEF PartsNext
<1>. QED  BY <1>1, <1>2, PTL DEF PartsSpec

\* The learning loop, the file index, device linking, the facts, the schema walker,
\* the context fold, the calibrator's fit and the GitHub ingest keep their types,
\* composed as TLC runs them.
THEOREM PartsTyped == PartsSpec => []PartsTypeOK
<1>1. ASSUME part \in AllParts, TypeOK, IndexTypeOK, LinkTypeOK, FactsTypeOK,
             SchemaTypeOK, FoldTypeOK, FitTypeOK, IngestTypeOK
      PROVE  PartsTypeOK
  BY <1>1 DEF PartsTypeOK
<1>. QED
  BY <1>1, OneOfThePartsMoves, EachPartMovesAlone, TurnsTyped, IndexTyped, LinkTyped, FactsTyped,
     SchemaTyped, FoldTyped, FitTyped, IngestTyped, PTL

\* So the run of all parts together cannot fail, whatever the values of its
\* constants: the learning loop, the calibrator, the file index, device linking, the
\* facts, the schema walker, the context fold and the ingest keep what each
\* promises, with the exceptions that the promise itself names.
THEOREM PartsKeepTheirPromises ==
    PartsSpec => /\ []ShownIsLogged /\ []HelpfulWasShown /\ []HoldoutIsClean
                 /\ []VerifiedMeansReported /\ []CreditStaysInRun /\ []OverridesOnlyRacers
                 /\ []FitFollowsListOrder /\ []BetterScoreServesBetter
                 /\ []NothingElseForgotten /\ []LinkIsConsistent /\ KeysMoveOneWay
                 /\ []ErasedIffAudited /\ ExpiredStaysRetired /\ []SchemaIsWhole
                 /\ []NoTurnFallsBetween /\ []QuietIngestCatchesUp
<1>1. PartsSpec => /\ []ShownIsLogged /\ []HelpfulWasShown /\ []HoldoutIsClean
                   /\ []VerifiedMeansReported /\ []CreditStaysInRun /\ []OverridesOnlyRacers
  BY EachPartMovesAlone, WhatIsShownIsLogged, WhatHelpedWasShown, ControlArmIsClean,
     VerdictsAreReported, CreditNeverCrosses, OnlyRacersAreOverridden
<1>2. PartsSpec => /\ []FitFollowsListOrder /\ []BetterScoreServesBetter
                   /\ []NothingElseForgotten /\ []LinkIsConsistent /\ KeysMoveOneWay
  BY EachPartMovesAlone, FitFollowsTheList, BetterIsServedBetter, NothingForgotten, LinksFit,
     LinkingKeepsCustody
<1>3. PartsSpec => /\ []ErasedIffAudited /\ ExpiredStaysRetired /\ []SchemaIsWhole
                   /\ []NoTurnFallsBetween /\ []QuietIngestCatchesUp
  BY EachPartMovesAlone, ErasureIsAudited, ExpiryIsFinal, SchemaStaysWhole, NoTurnIsLost,
     IngestCatchesUp
<1>. QED  BY <1>1, <1>2, <1>3

=============================================================================
