----------------------------- MODULE BlockStore -----------------------------
(***************************************************************************)
(* The reasoning-block catalogue of Tracebase: the SQLite tables           *)
(* reasoning_blocks, block_case_refs and audit_deletes, and every code     *)
(* path of src/src that writes a block's status or its case refs.          *)
(*                                                                         *)
(* A client is one call in flight.  Its frame records where it stands: the *)
(* statement it runs next and what earlier statements returned.  One       *)
(* action is one SQL statement, or one db.transaction(...), with the       *)
(* JavaScript that runs up to the next one.  Two regimes share the         *)
(* actions.  With OneProcess, store calls are synchronous: calls interleave*)
(* only where the code awaits a model or a verifier.  Without it, hooks,   *)
(* servers and CLI commands are processes on the same WAL database, which  *)
(* interleave between any two statements.                                  *)
(***************************************************************************)
EXTENDS Naturals, FiniteSets

CONSTANTS
    Client,      \* calls that may be in flight together
    Block,       \* block ids (UUIDs)
    Key,         \* trigger keys: (fingerprint, kind)
    PitfallKey,  \* the keys whose kind is "pitfall"
    PrimerKey,   \* the keys of domain primers ("Domain primer for ...")
    KeyOf,       \* the key createBlock computes for each id
    Trace,       \* trace ids a case ref can cite
    RefId,       \* case-ref ids (UUIDs); their number bounds the attaches
    NoBlock, NoTrace,
    Ops,         \* the operations the environment may call
    Killable,    \* the operations whose process may die, or meet SQLITE_BUSY
    OneProcess   \* do all calls share one JavaScript thread?

Operations == {"success", "failure", "pattern", "primer", "reverify", "sync",
               "promote", "demote", "retire", "counter", "merge", "detach",
               "sweep", "erase", "delete"}

ASSUME KeyAssumption ==
    /\ PitfallKey \subseteq Key
    /\ PrimerKey \subseteq Key \ PitfallKey
    /\ KeyOf \in [Block -> Key]
ASSUME SentinelAssumption == NoBlock \notin Block /\ NoTrace \notin Trace
ASSUME OpsAssumption ==
    /\ Ops \subseteq Operations
    /\ Killable \subseteq Operations
    /\ OneProcess \in BOOLEAN

VARIABLES
    status,  \* reasoning_blocks: the status of each row, "fresh" before its
             \* INSERT and "gone" after its DELETE
    refs,    \* block_case_refs
    spent,   \* case-ref ids ever used
    tombs,   \* audit_deletes: how many rows name each block
    known,   \* traces present in the v1 trace store
    call     \* the frame of each client

db == <<status, refs, spent, tombs, known>>
vars == <<status, refs, spent, tombs, known, call>>

Live == {"candidate", "active", "demoted", "merged", "retired"}
Status == Live \cup {"fresh", "gone"}
Role == {"origin", "supporting", "counter", "orphan"}
Ref == [id : RefId, block : Block, trace : Trace, role : Role]

Label == {"idle", "distill", "find", "supported", "collide", "insert",
          "pattern", "get", "link", "update", "origin", "counter", "write",
          "verify", "loser", "merge", "detach", "orphan", "stillHas",
          "quarantine", "erase"}

Frame == [op : Operations \cup {"none"}, pc : Label,
          blk : Block \cup {NoBlock}, peer : Block \cup {NoBlock},
          trace : Trace \cup {NoTrace}, role : Role,
          val : Live, todo : SUBSET Ref]

Idle == [op |-> "none", pc |-> "idle", blk |-> NoBlock, peer |-> NoBlock,
         trace |-> NoTrace, role |-> "origin", val |-> "candidate",
         todo |-> {}]

-----------------------------------------------------------------------------
(* The tables *)

Exists(b) == status[b] \in Live
Has(b, role) == \E r \in refs : r.block = b /\ r.role = role
Cited(b, t, role) == \E r \in refs : r.block = b /\ r.trace = t /\ r.role = role

\* INSERT INTO reasoning_blocks, only ever of a candidate (mutant: the draft's
\* status is taken as it comes)
InsertActive(b) == status' = [status EXCEPT ![b] = "active"]
Insert(b) == status' = [status EXCEPT ![b] = "candidate"]

\* UPDATE reasoning_blocks SET status: no row, no write (mutant: an upsert)
Upsert(b, s) == status' = [status EXCEPT ![b] = s]
SetStatus(b, s) == status' = IF Exists(b) THEN [status EXCEPT ![b] = s] ELSE status

\* UPDATE ... SET status = 'candidate' WHERE id = ? AND status = 'active'
\* (mutant: it writes nothing)
LeftActive(b) == status
Quarantined(b) ==
    IF status[b] = "active" THEN [status EXCEPT ![b] = "candidate"] ELSE status

\* DELETE FROM reasoning_blocks, with the ON DELETE CASCADE of its case refs
DropBlock(b) ==
    /\ status' = IF Exists(b) THEN [status EXCEPT ![b] = "gone"] ELSE status
    /\ refs' = {r \in refs : r.block # b}

\* INSERT INTO block_case_refs passes its foreign key and its unique index
\* (mutant: foreign keys are off)
LinkableAnywhere(b, t, role) == ~Cited(b, t, role)
Linkable(b, t, role) == Exists(b) /\ ~Cited(b, t, role)

AddRef(b, t, role) ==
    \E i \in RefId \ spent :
        /\ refs' = refs \cup {[id |-> i, block |-> b, trace |-> t, role |-> role]}
        /\ spent' = spent \cup {i}

-----------------------------------------------------------------------------
(* Control *)

Await == {"distill", "verify"}
Resting(c) == call[c].pc \in {"idle"} \cup Await

\* One thread: a call runs until it returns or awaits.
Turn(c) == OneProcess => \A d \in Client \ {c} : Resting(d)

At(c, label) == call[c].pc = label /\ Turn(c)
Return(c) == call' = [call EXCEPT ![c] = Idle]
Goto(c, label) == call' = [call EXCEPT ![c].pc = label]
\* RefId bounds the attaches: a call that may attach enters only while an id
\* is left for it
Attaches == {"success", "failure", "pattern", "primer", "counter"}
IdLeft == Cardinality({d \in Client : call[d].op \in Attaches})
              < Cardinality(RefId \ spent)

Enter(c, frame) == /\ At(c, "idle")
                   /\ frame.op \in Ops
                   /\ frame.op \in Attaches => IdLeft
                   /\ call' = [call EXCEPT ![c] = frame]
                   /\ UNCHANGED db

\* randomUUID: an id no row has and no other call holds
Unminted == {b \in Block : status[b] = "fresh" /\ \A d \in Client : call[d].blk # b}

\* An id a caller can name: the block was inserted once
Named == {b \in Block : status[b] # "fresh"}

-----------------------------------------------------------------------------
(* Entry points *)

\* DistillationPipeline: both lanes start by asking the distiller
DistillTrace(c) ==
    \E t \in known, lane \in {"success", "failure"} :
        Enter(c, [Idle EXCEPT !.op = lane, !.pc = "distill", !.trace = t])

\* storeReasoningPattern: the trace id is the caller's queryId
StorePattern(c) ==
    \E t \in Trace, b \in Unminted :
        /\ KeyOf[b] \notin PitfallKey \cup PrimerKey
        /\ Enter(c, [Idle EXCEPT !.op = "pattern", !.pc = "find",
                                 !.blk = b, !.trace = t])

\* distillDomain, from the point where the primer has content
DistillDomain(c) ==
    \E t \in Trace, b \in Unminted :
        /\ KeyOf[b] \in PrimerKey
        /\ Enter(c, [Idle EXCEPT !.op = "primer", !.pc = "find",
                                 !.blk = b, !.trace = t])

\* reverifyBlock reads the block it verifies; syncStats the block whose
\* stats it recomputed.  Both write the whole row back.
ReadForWriteBack(c) ==
    \E b \in Named, o \in {"reverify", "sync"} :
        /\ Exists(b)
        /\ Enter(c, [Idle EXCEPT !.op = o, !.blk = b, !.val = status[b],
                                 !.pc = IF o = "reverify" THEN "verify"
                                        ELSE IF status[b] = "active" THEN "origin"
                                        ELSE "write"])

\* updateBlockStatus, for the prune and health commands, the demotion rules
\* and a library caller that promotes (mutant: a status of the v1 store)
GoalArchived == [promote |-> "active", demote |-> "demoted", retire |-> "archived"]
Goal == [promote |-> "active", demote |-> "demoted", retire |-> "retired"]
UpdateBlockStatus(c) ==
    \E b \in Named, o \in DOMAIN Goal :
        Enter(c, [Idle EXCEPT !.op = o, !.pc = "update", !.blk = b,
                              !.val = Goal[o]])

\* attachCaseRef with the role "counter"
AttachCounter(c) ==
    \E b \in Named, t \in Trace :
        Enter(c, [Idle EXCEPT !.op = "counter", !.pc = "get", !.blk = b,
                              !.trace = t, !.role = "counter"])

\* mergeBlocks reads the winner first
MergeBlocks(c) ==
    \E w, l \in Named :
        /\ w # l /\ Exists(w)
        /\ Enter(c, [Idle EXCEPT !.op = "merge", !.pc = "loser", !.blk = w,
                                 !.peer = l, !.val = status[w]])

\* detachCaseRef reads the ref it deletes
DetachCaseRef(c) ==
    \E r \in refs :
        Enter(c, [Idle EXCEPT !.op = "detach", !.pc = "detach", !.todo = {r}])

\* orphanMissingRefs takes a snapshot of the refs, and the caller's set of
\* traces, before it walks them
OrphanMissingRefs(c) ==
    Enter(c, [Idle EXCEPT !.op = "sweep", !.pc = "orphan",
                          !.todo = {r \in refs : r.role # "orphan" /\ r.trace \notin known}])

\* hardDeleteBlock looks the block up, then opens its transaction
HardDeleteBlock(c) ==
    \E b \in Named :
        /\ Exists(b)
        /\ Enter(c, [Idle EXCEPT !.op = "erase", !.pc = "erase", !.blk = b])

DeleteBlock(c) ==
    \E b \in Named :
        /\ At(c, "idle") /\ "delete" \in Ops /\ Exists(b)
        /\ DropBlock(b)
        /\ UNCHANGED <<spent, tombs, known, call>>

-----------------------------------------------------------------------------
(* Statements.  Labels are shared: storeBlock, attachCaseRef,              *)
(* updateBlockStatus and replaceBlock are called from several operations.  *)

\* The distiller answers: a rejection ends the call, a draft gets an id
Distilled(c) ==
    /\ At(c, "distill")
    /\ \/ Return(c)
       \/ \E b \in Unminted :
            /\ KeyOf[b] \notin PrimerKey
            /\ (KeyOf[b] \in PitfallKey) = (call[c].op = "failure")
            /\ call' = [call EXCEPT ![c].pc = "find", ![c].blk = b]
    /\ UNCHANGED db

\* What each caller of findBlockByFingerprintAndKind does with a hit ...
OnHit(f, b) ==
    CASE f.op = "primer"  -> [f EXCEPT !.blk = b, !.val = "active", !.pc = "origin"]
      [] f.op = "pattern" -> [f EXCEPT !.blk = b, !.role = "supporting", !.pc = "supported"]
      [] OTHER            -> [f EXCEPT !.blk = b, !.role = "supporting", !.pc = "get"]
\* ... and with a miss
OnMiss(f) == [f EXCEPT !.pc = IF f.op = "pattern" THEN "pattern" ELSE "collide"]

\* The lookup by (fingerprint, kind) has no status filter (mutant: it has one)
SameKeyActive(b) == {a \in Block : status[a] = "active" /\ KeyOf[a] = KeyOf[b]}
SameKey(b) == {a \in Block : Exists(a) /\ KeyOf[a] = KeyOf[b]}

Find(c) ==
    /\ At(c, "find")
    /\ LET b == call[c].blk IN
       \/ \E a \in SameKey(b) : call' = [call EXCEPT ![c] = OnHit(@, a)]
       \/ SameKey(b) = {} /\ call' = [call EXCEPT ![c] = OnMiss(@)]
    /\ UNCHANGED db

\* storeReasoningPattern: a retried report that is already supporting
\* evidence returns without a write
AlreadySupported(c) ==
    /\ At(c, "supported")
    /\ IF Cited(call[c].blk, call[c].trace, "supporting")
       THEN Return(c) ELSE Goto(c, "get")
    /\ UNCHANGED db

\* storeReasoningPattern's transaction: insert, origin ref, promotion (mutant:
\* the insert is committed on its own)
InsertPattern(c) ==
    /\ At(c, "pattern")
    /\ \/ /\ SameKey(call[c].blk) = {}
          /\ Insert(call[c].blk)
          /\ call' = [call EXCEPT ![c].pc = "get", ![c].role = "origin"]
       \/ SameKey(call[c].blk) # {} /\ UNCHANGED status /\ Return(c)
    /\ UNCHANGED <<refs, spent, tombs, known>>
CommitPattern(c) ==
    LET b == call[c].blk IN
    /\ At(c, "pattern")
    /\ \/ /\ SameKey(b) = {}
          /\ AddRef(b, call[c].trace, "origin")
          /\ status' = [status EXCEPT ![b] = "active"]
       \/ SameKey(b) # {} /\ UNCHANGED <<status, refs, spent>>
    /\ Return(c)
    /\ UNCHANGED <<tombs, known>>

\* storeBlock: the collision check, then the INSERT
Collide(c) ==
    /\ At(c, "collide")
    /\ IF SameKey(call[c].blk) # {} THEN Return(c) ELSE Goto(c, "insert")
    /\ UNCHANGED db

StoreBlock(c) ==
    /\ At(c, "insert")
    /\ Insert(call[c].blk)
    /\ call' = [call EXCEPT ![c].pc = "get", ![c].role = "origin"]
    /\ UNCHANGED <<refs, spent, tombs, known>>

\* attachCaseRef: read the block, then one transaction
GetBlock(c) ==
    LET b == call[c].blk IN
    /\ At(c, "get")
    /\ IF Exists(b) THEN call' = [call EXCEPT ![c].pc = "link", ![c].val = status[b]]
                    ELSE Return(c)
    /\ UNCHANGED db

\* After the attach, the success lane and the primer promote (mutant: every
\* lane does)
PromotesAll(f) == f.role = "origin"
Promotes(f) == f.op \in {"success", "primer"} /\ f.role = "origin"

LinkRef(c) ==
    LET f == call[c] IN
    /\ At(c, "link")
    /\ \/ /\ Linkable(f.blk, f.trace, f.role)
          /\ AddRef(f.blk, f.trace, f.role)
          /\ IF f.role = "counter" /\ f.val = "active"
             THEN SetStatus(f.blk, "demoted") ELSE UNCHANGED status
          /\ IF Promotes(f)
             THEN call' = [call EXCEPT ![c].pc = "update", ![c].val = "active"]
             ELSE Return(c)
       \/ ~Linkable(f.blk, f.trace, f.role) /\ Return(c) /\ UNCHANGED <<status, refs, spent>>
    /\ UNCHANGED <<tombs, known>>

\* updateBlockStatus: the row must exist; only "active" is checked further
Update(c) ==
    /\ At(c, "update")
    /\ IF ~Exists(call[c].blk) THEN Return(c)
       ELSE Goto(c, IF call[c].val = "active" THEN "origin" ELSE "write")
    /\ UNCHANGED db

\* The two checks on "active", shared by updateBlockStatus and replaceBlock
CheckOrigin(c) ==
    /\ At(c, "origin")
    /\ IF Has(call[c].blk, "origin") THEN Goto(c, "counter") ELSE Return(c)
    /\ UNCHANGED db

CheckCounter(c) ==
    /\ At(c, "counter")
    /\ IF Has(call[c].blk, "counter") THEN Return(c) ELSE Goto(c, "write")
    /\ UNCHANGED db

\* The UPDATE of updateBlockStatus and of replaceBlock.  The success lane
\* then awaits its verifier and writes the promoted copy back, as
\* reverifyBlock does.
Write(c) ==
    /\ At(c, "write")
    /\ SetStatus(call[c].blk, call[c].val)
    /\ IF call[c].op = "success"
       THEN call' = [call EXCEPT ![c].op = "reverify", ![c].pc = "verify"]
       ELSE Return(c)
    /\ UNCHANGED <<refs, spent, tombs, known>>

\* The verifier answers: replaceBlock with the copy read before the await
\* (mutant: without replaceBlock's checks)
VerifiedUnchecked(c) ==
    /\ At(c, "verify")
    /\ Goto(c, "write")
    /\ UNCHANGED db
Verified(c) ==
    /\ At(c, "verify")
    /\ Goto(c, IF call[c].val = "active" THEN "origin" ELSE "write")
    /\ UNCHANGED db

\* mergeBlocks: read the loser, refuse unlike triggers
GetLoser(c) ==
    /\ At(c, "loser")
    /\ IF Exists(call[c].peer) /\ KeyOf[call[c].peer] = KeyOf[call[c].blk]
       THEN Goto(c, "merge") ELSE Return(c)
    /\ UNCHANGED db

\* UPDATE OR IGNORE block_case_refs, then DELETE of what was ignored (mutant:
\* only the DELETE)
Dropped(w, l) == {r \in refs : r.block # l}
Repointed(w, l) ==
    {r \in refs : r.block # l}
        \cup {[r EXCEPT !.block = w] :
                r \in {q \in refs : q.block = l /\ ~Cited(w, q.trace, q.role)}}

\* replaceBlock passes and no ref moves to a row that does not exist
MergeCommits(f) ==
    /\ f.val = "active" => Has(f.blk, "origin") /\ ~Has(f.blk, "counter")
    /\ Exists(f.blk) \/ \A r \in refs : r.block # f.peer

MergeTx(c) ==
    LET f == call[c] IN
    /\ At(c, "merge")
    /\ \/ /\ MergeCommits(f)
          /\ status' = [b \in Block |->
                          IF b = f.blk /\ Exists(b) THEN f.val
                          ELSE IF b = f.peer /\ Exists(b) THEN "merged"
                          ELSE status[b]]
          /\ refs' = Repointed(f.blk, f.peer)
       \/ ~MergeCommits(f) /\ UNCHANGED <<status, refs>>
    /\ Return(c)
    /\ UNCHANGED <<spent, tombs, known>>

\* detachCaseRef: DELETE by id; a deleted origin ref leads to a second look
DetachRow(c) ==
    /\ At(c, "detach")
    /\ \E r \in call[c].todo :
         /\ refs' = {q \in refs : q.id # r.id}
         /\ IF r.role = "origin" /\ refs' # refs
            THEN call' = [call EXCEPT ![c].pc = "stillHas", ![c].blk = r.block,
                                      ![c].todo = {}]
            ELSE Return(c)
    /\ UNCHANGED <<status, spent, tombs, known>>

\* orphanMissingRefs: UPDATE one row of the snapshot; the unique index on
\* (block, trace, role) may refuse it, and the exception ends the sweep
Orphan(c) ==
    /\ At(c, "orphan")
    /\ \/ call[c].todo = {} /\ Return(c) /\ UNCHANGED refs
       \/ \E r \in call[c].todo :
            LET rows == {q \in refs : q.id = r.id} IN
            \/ /\ \A q \in rows : q.role = "orphan" \/ ~Cited(q.block, q.trace, "orphan")
               /\ refs' = (refs \ rows) \cup {[q EXCEPT !.role = "orphan"] : q \in rows}
               /\ call' = [call EXCEPT ![c].todo = @ \ {r}, ![c].blk = r.block,
                                       ![c].pc = IF r.role = "origin" THEN "stillHas"
                                                 ELSE "orphan"]
            \/ /\ \E q \in rows : q.role # "orphan" /\ Cited(q.block, q.trace, "orphan")
               /\ Return(c) /\ UNCHANGED refs
    /\ UNCHANGED <<status, spent, tombs, known>>

\* hasOriginRef after a ref was taken away, and the demotion it decides
Resume(c) == IF call[c].op = "sweep" THEN Goto(c, "orphan") ELSE Return(c)

StillHas(c) ==
    /\ At(c, "stillHas")
    /\ IF Has(call[c].blk, "origin") THEN Resume(c) ELSE Goto(c, "quarantine")
    /\ UNCHANGED db

Quarantine(c) ==
    /\ At(c, "quarantine")
    /\ status' = Quarantined(call[c].blk)
    /\ Resume(c)
    /\ UNCHANGED <<refs, spent, tombs, known>>

\* hardDeleteBlock's transaction: DELETE, then a tombstone in any case
EraseTx(c) ==
    LET b == call[c].blk IN
    /\ At(c, "erase")
    /\ DropBlock(b)
    /\ tombs' = [tombs EXCEPT ![b] = @ + 1]
    /\ Return(c)
    /\ UNCHANGED <<spent, known>>

-----------------------------------------------------------------------------
(* The environment *)

\* A trace leaves the v1 store
DeleteTrace(t) ==
    /\ "sweep" \in Ops
    /\ t \in known
    /\ known' = known \ {t}
    /\ UNCHANGED <<status, refs, spent, tombs, call>>

\* The process of a call dies, or a statement throws SQLITE_BUSY; what it
\* has committed stays
Fail(c) ==
    /\ call[c].op \in Killable
    /\ call[c].pc # "idle"
    /\ Return(c)
    /\ UNCHANGED db

-----------------------------------------------------------------------------
Init ==
    /\ status = [b \in Block |-> "fresh"]
    /\ refs = {}
    /\ spent = {}
    /\ tombs = [b \in Block |-> 0]
    /\ known = Trace
    /\ call = [c \in Client |-> Idle]

Enters(c) ==
    \/ DistillTrace(c) \/ StorePattern(c) \/ DistillDomain(c)
    \/ ReadForWriteBack(c) \/ UpdateBlockStatus(c) \/ AttachCounter(c)
    \/ MergeBlocks(c) \/ DetachCaseRef(c) \/ OrphanMissingRefs(c)
    \/ HardDeleteBlock(c) \/ DeleteBlock(c)

Runs(c) ==
    \/ Distilled(c) \/ Find(c) \/ AlreadySupported(c) \/ CommitPattern(c)
    \/ Collide(c) \/ StoreBlock(c) \/ GetBlock(c) \/ LinkRef(c)
    \/ Update(c) \/ CheckOrigin(c) \/ CheckCounter(c) \/ Write(c)
    \/ Verified(c) \/ GetLoser(c) \/ MergeTx(c) \/ DetachRow(c)
    \/ Orphan(c) \/ StillHas(c) \/ Quarantine(c) \/ EraseTx(c)

Next ==
    \/ \E c \in Client : Enters(c) \/ Runs(c) \/ Fail(c)
    \/ \E t \in Trace : DeleteTrace(t)

Spec == Init /\ [][Next]_vars

-----------------------------------------------------------------------------
(* Properties *)

\* The tables and the frames hold what their columns and locals can hold.
TypeOK ==
    /\ status \in [Block -> Status]
    /\ refs \subseteq Ref
    /\ spent \subseteq RefId
    /\ tombs \in [Block -> Nat]
    /\ known \subseteq Trace
    /\ call \in [Client -> Frame]

\* No client is between two statements.
AtRest == \A c \in Client : Resting(c)

\* A block that readers can be served is backed by an origin ref and not
\* contradicted by a counter ref, whatever copies were written back, refs
\* detached or traces lost in between (updateBlockStatus, replaceBlock,
\* attachCaseRef, detachCaseRef and orphanMissingRefs together).
ActiveJustified ==
    AtRest => \A b \in Block :
        status[b] = "active" => Has(b, "origin") /\ ~Has(b, "counter")

\* The same in every state, mid-call included: what another process reads.
AlwaysJustified ==
    \A b \in Block :
        status[b] = "active" => Has(b, "origin") /\ ~Has(b, "counter")

\* Two rows never share a (fingerprint, kind): the lookup before an insert
\* is not stale when the insert runs.
OneBlockPerTrigger ==
    \A a, b \in Block : Exists(a) /\ Exists(b) /\ KeyOf[a] = KeyOf[b] => a = b

\* A case ref never outlives or precedes its block.
NoDanglingRef == \A r \in refs : Exists(r.block)

\* A pitfall block is advice on what not to do; the failure lane and every
\* write-back of it leave it out of what is served.
PitfallNotServed ==
    \A b \in Block : KeyOf[b] \in PitfallKey => status[b] # "active"

\* A row without an origin ref has a call that is about to attach one: no
\* trigger is taken by a block that can never be promoted.
OriginFollows ==
    \A b \in Block : Exists(b) /\ ~Has(b, "origin") =>
        \E c \in Client : /\ call[c].blk = b /\ call[c].role = "origin"
                          /\ call[c].pc \in {"get", "link"}

\* Merging, erasing and sweeping never lose evidence by accident: a case ref
\* stays cited for its trigger, in its role or as an orphan, unless its block
\* is deleted or a caller detaches it.
EvidenceKept ==
    [][\A r \in refs :
          \/ \E q \in refs' : /\ KeyOf[q.block] = KeyOf[r.block]
                              /\ q.trace = r.trace
                              /\ q.role \in {r.role, "orphan"}
          \/ status'[r.block] = "gone"
          \/ \E c \in Client : call[c].pc = "detach" /\ r.id \in {q.id : q \in call[c].todo}]_vars

\* Erased content does not come back: no stale copy, no retried attach and
\* no merge recreates a deleted block or gives it evidence.
ErasureIsFinal ==
    [][\A b \in Block : status[b] = "gone" =>
          status'[b] = "gone" /\ \A r \in refs' : r.block # b]_vars

\* The comment on updateBlockStatus: "merged / retired are terminal: not
\* transitioning out of them here".
TerminalStatuses ==
    [][\A b \in Block : status[b] \in {"merged", "retired"} =>
          status'[b] \in {status[b], "gone"}]_vars

\* Deleting a trace orphans "any ref to it" (DESIGN_v2): a sweep that ends
\* has left no ref of its snapshot in another role.
SweepOrphansAll ==
    [][\A c \in Client : call[c].pc = "orphan" /\ call'[c].pc = "idle" =>
          \A r \in call[c].todo : \A q \in refs : q.id = r.id => q.role = "orphan"]_vars

-----------------------------------------------------------------------------
(* What the store implements while one process writes *)

\* A call that took away the last origin is about to withdraw the block
Doubted(b) ==
    \E c \in Client : /\ call[c].pc \in {"stillHas", "quarantine"}
                      /\ call[c].blk = b /\ ~Has(b, "origin")

EntryOf(b) ==
    CASE status[b] = "fresh" -> "absent"
      [] status[b] = "gone" -> "erased"
      [] status[b] = "active" /\ ~Doubted(b) -> "served"
      [] OTHER -> "kept"

Cat == INSTANCE Catalog WITH
    entry <- [b \in Block |-> EntryOf(b)],
    origin <- {b \in Block : Has(b, "origin")},
    counter <- {b \in Block : Has(b, "counter")}

\* Every statement of every call is a step of the catalogue or changes nothing
\* a reader can see: a block starts to be served only with an origin and no
\* counter at that instant, though the copy written back, the status or the
\* lookup it rests on was read before an await.
ImplementsCatalog == Cat!Spec

=============================================================================
