--------------------------- MODULE ToolSupervision ---------------------------
(***************************************************************************)
(* The tool supervisor: Claude Code runs a PreToolUse hook before a tool   *)
(* call and a PostToolBatch (or PostToolUse) hook after it.  Each hook is a *)
(* process of its own, and parallel tool calls, parallel sessions and      *)
(* subagents make them overlap.  They share                                *)
(*   - the observation table of the SQLite database,                       *)
(*   - the warm cache .tracebase/cache/rtools.bin, a JSONL file that the   *)
(*     PreToolUse hook reads instead of the database, and its fixed        *)
(*     rewrite name rtools.bin.tmp,                                        *)
(*   - the warn-once table and the analytics log.                          *)
(* One action is one system call or one SQL statement of a hook, with the  *)
(* JavaScript that runs up to the next.  The lines of the cache differ in  *)
(* length (session, tool and intent are in them), and a write that does not *)
(* append writes bytes: a text keeps the offset of each line that is whole. *)
(***************************************************************************)
EXTENDS Naturals, FiniteSets, Sequences, Lists

CONSTANTS
    Hook,      \* hook processes
    Session,   \* Claude Code sessions
    Call,      \* (tool, arguments), as sanitizeToolArgs buckets them: argKey
    FamilyOf,  \* toolFamily of each call
    IntentOf,  \* normalizeIntentKey of each call
    Window,    \* observations the detector looks at: 6
    LineSize,  \* bytes of the line of each observation, newline included
    Ring,      \* DEFAULT_MAX_RECORDS: lines hydrate keeps
    MaxDisk,   \* MAX_DISK_BYTES: a larger file is rotated
    MaxBatch,  \* MAX_CALLS_PER_BATCH
    BlockAt,   \* INTENT_LOOP_BLOCK_AT
    Strict,    \* TRACEBASE_TOOL_STRICT
    Mortal,    \* labels at which a hook process may be killed
    Failing,   \* labels whose statement or system call may fail
    MaxCalls,  \* bound: tool calls the agents issue
    NoFile     \* no file under this name

Family == {"read", "search", "shell", "edit", "write", "web", "task", "other"}
WriteLike == {"edit", "write"}

ASSUME HookAssumption == IsFiniteSet(Hook)
ASSUME CallAssumption ==
    /\ FamilyOf \in [Call -> Family]
    /\ DOMAIN IntentOf = Call
Obs == [s : Session, k : Call]

ASSUME SizeAssumption ==
    /\ LineSize \in [Obs -> Nat \ {0}]
    /\ {Window, BlockAt, MaxCalls} \subseteq Nat
    /\ {Ring, MaxDisk, MaxBatch} \subseteq Nat \ {0}
    /\ Strict \in BOOLEAN

VARIABLES
    rows,    \* tool_observations, in insertion order
    file,    \* the text of rtools.bin
    tmp,     \* the text of rtools.bin.tmp, or NoFile
    fd,      \* what the open descriptor of each hook refers to
    hook,    \* the frame of each hook
    warned,  \* tool_warn_dedupe
    ran,     \* per session, executed calls no Post hook has reported yet
    queued,  \* indexer_pending: the files of write-like calls
    credit,  \* analytics events that say a call was blocked
    refused, \* calls the agents were refused
    issued,  \* tool calls so far
    clean,   \* history: Post hooks so far ran one at a time and did not fail
    doubled  \* history: lines a rotation left standing though its text holds them

vars == <<rows, file, tmp, fd, hook, warned, ran, queued, credit, refused, issued, clean, doubled>>

PreLabel == {"readWarned", "event", "mark", "reply"}
CacheLabel == {"stat", "open", "append", "hydrate", "truncate", "rewrite", "rename"}
Label == {"idle", "enqueue", "dead"} \cup PreLabel \cup CacheLabel

ASSUME FaultAssumption ==
    /\ Mortal \subseteq PreLabel \cup CacheLabel \cup {"enqueue"}
    /\ Failing \subseteq PreLabel \cup CacheLabel \cup {"record", "enqueue"}

\* A JSONL text: its whole lines, the offset of each and its size in bytes.
\* Bytes between two of them are what is left of a line written over, which
\* hydrate drops as corrupt.
Text == [lines : Seq(Obs), at : Seq(Nat), size : Nat]
Blank == [lines |-> <<>>, at |-> <<>>, size |-> 0]

ASSUME NoFileAssumption == NoFile \notin Text

\* lines: the call a PreToolUse hook asks about, or the batch of a Post hook.
\* seen, prior: the warn table and the intent count it read.
\* mem: the ring of a hook that rotates the cache.
Frame == [pc : Label, lines : Seq(Obs), seen : SUBSET Obs, prior : Nat, mem : Seq(Obs)]
Idle == [pc |-> "idle", lines |-> <<>>, seen |-> {}, prior |-> 0, mem |-> <<>>]

At(h, l) == hook[h].pc = l
Goto(h, l) == hook' = [hook EXCEPT ![h].pc = l]
Finish(h) == hook' = [hook EXCEPT ![h] = Idle]
MayFail(l) == l \in Failing

Occurs(q, o) == Cardinality({i \in DOMAIN q : q[i] = o})
LastN(n, q) == IF Len(q) <= n THEN q ELSE SubSeq(q, Len(q) - n + 1, Len(q))
OfSession(q, s) == SelectSeq(q, LAMBDA o : o.s = s)

-----------------------------------------------------------------------------
(* detectToolPattern, over the arg keys of a window, oldest first *)

Straight(w) ==
    LET n == Len(w) IN n >= 3 /\ w[n] = w[n - 1] /\ w[n] = w[n - 2]

PingPong(w) ==
    LET n == Len(w)
    IN  n >= 4 /\ w[n] # w[n - 1] /\ w[n] = w[n - 2] /\ w[n - 1] = w[n - 3]

Duplicate(w) == \E i, j \in DOMAIN w : i < j /\ w[i] = w[j]

Detect(w) ==
    IF Len(w) < 2 THEN "none"
    ELSE IF Straight(w) THEN "straight"
    ELSE IF PingPong(w) THEN "pingpong"
    ELSE IF Duplicate(w) THEN "duplicate"
    ELSE "none"

-----------------------------------------------------------------------------
(* The warm cache *)

\* hydrate: each line goes through append, which drops the oldest at the cap
\* (mutant: the cap is dropped)
HydrateAll(q) == q
Hydrate(q) == LastN(Ring, q)

\* The bytes of the lines q, of which byte b of line i is <<i, b>>
Bytes(q) == Cardinality(UNION {{i} \X (1 .. LineSize[q[i]]) : i \in DOMAIN q})

\* The text t with the lines q at its end
Extend(t, q) ==
    [lines |-> t.lines \o q,
     at    |-> t.at \o [i \in DOMAIN q |-> t.size + Bytes(SubSeq(q, 1, i - 1))],
     size  |-> t.size + Bytes(q)]

\* A write of the lines q at offset 0 replaces as many bytes as they have.  Of a
\* longer text the rest stays: a line cut in two, and the whole lines behind it.
Cut(q, t) == Cardinality({i \in DOMAIN t.at : t.at[i] < Bytes(q)})
Standing(q, t) == SubSeq(t.lines, Cut(q, t) + 1, Len(t.lines))

Overwrite(q, t) ==
    LET new == Extend(Blank, q)
    IN  [lines |-> q \o Standing(q, t),
         at    |-> new.at \o SubSeq(t.at, Cut(q, t) + 1, Len(t.at)),
         size  |-> IF new.size > t.size THEN new.size ELSE t.size]

\* recentIntentCount: only search lines carry an intent, and the whole ring
\* counts, not the window (mutant: any line with the same intent)
IntentCountAllSessions(q, s, k) ==
    Cardinality({i \in DOMAIN q : IntentOf[q[i].k] = IntentOf[k]})
Searches(q, s, k) ==
    Cardinality({i \in DOMAIN q : /\ q[i].s = s
                                  /\ FamilyOf[q[i].k] = "search"
                                  /\ IntentOf[q[i].k] = IntentOf[k]})
IntentCount(q, s, k) == IF FamilyOf[k] = "search" THEN Searches(q, s, k) ELSE 0

-----------------------------------------------------------------------------
(* PreToolUse *)

SafeRead(k) == FamilyOf[k] \in {"read", "search"}

\* The window of the hook: the session's recent calls and the one it asks about
Prospect(s, k) ==
    LET recent == LastN(Window, OfSession(Hydrate(file.lines), s))
    IN  Append([i \in DOMAIN recent |-> recent[i].k], k)

\* The part of runCapturePreToolUse that touches no database.  A call without
\* a signal runs at once, whatever its intent count.
PreToolUse(h, s, k) ==
    /\ At(h, "idle") /\ issued < MaxCalls
    /\ issued' = issued + 1
    /\ IF Detect(Prospect(s, k)) = "none"
       THEN /\ ran' = [ran EXCEPT ![s] = Append(@, k)]
            /\ UNCHANGED hook
       ELSE /\ hook' = [hook EXCEPT ![h] =
                  [Idle EXCEPT !.pc = "readWarned", !.lines = <<[s |-> s, k |-> k]>>,
                               !.prior = IntentCount(Hydrate(file.lines), s, k)]]
            /\ UNCHANGED ran
    /\ UNCHANGED <<rows, file, tmp, fd, warned, queued, credit, refused, clean, doubled>>

Asked(h) == hook[h].lines[1]
AlreadyWarned(h) == Asked(h) \in hook[h].seen

IntentBlock(h) == FamilyOf[Asked(h).k] = "search" /\ hook[h].prior + 1 > BlockAt
StrictBlock(h) == Strict /\ SafeRead(Asked(h).k)
EscalationBlock(h) == ~Strict /\ SafeRead(Asked(h).k) /\ AlreadyWarned(h)
Blocked(h) == StrictBlock(h) \/ EscalationBlock(h) \/ IntentBlock(h)

\* readWarnDedupe; a busy database reads as an empty table
ReadWarned(h) ==
    /\ At(h, "readWarned")
    /\ \E seen \in {warned} \cup (IF MayFail("readWarned") THEN {{}} ELSE {}) :
           hook' = [hook EXCEPT ![h].pc = "event", ![h].seen = seen]
    /\ UNCHANGED <<rows, file, tmp, fd, warned, ran, queued, credit, refused, issued, clean, doubled>>

\* appendAnalyticsEvent: warned{mode} on a first hit, suppressed{blocked} after
\* (mutant: every hit is credited as an avoided call)
LogAlways(h) == credit' = credit + 1
Log(h) == credit' = IF Blocked(h) THEN credit + 1 ELSE credit

LogEvent(h) ==
    /\ At(h, "event")
    /\ Goto(h, IF AlreadyWarned(h) THEN "reply" ELSE "mark")
    /\ Log(h) \/ (MayFail("event") /\ UNCHANGED credit)
    /\ UNCHANGED <<rows, file, tmp, fd, warned, ran, queued, refused, issued, clean, doubled>>

\* writeWarnDedupe: INSERT OR IGNORE of the whole set read, plus this call
MarkWarned(h) ==
    /\ At(h, "mark")
    /\ Goto(h, "reply")
    /\ \/ warned' = warned \cup hook[h].seen \cup {Asked(h)}
       \/ MayFail("mark") /\ UNCHANGED warned
    /\ UNCHANGED <<rows, file, tmp, fd, ran, queued, credit, refused, issued, clean, doubled>>

\* The envelope is printed: a blocked call does not run
Reply(h) ==
    /\ At(h, "reply")
    /\ IF Blocked(h)
       THEN refused' = refused + 1 /\ UNCHANGED ran
       ELSE ran' = [ran EXCEPT ![Asked(h).s] = Append(@, Asked(h).k)] /\ UNCHANGED refused
    /\ Finish(h)
    /\ UNCHANGED <<rows, file, tmp, fd, warned, queued, credit, issued, clean, doubled>>

-----------------------------------------------------------------------------
(* PostToolBatch and PostToolUse *)

LinesOf(s, calls) == [i \in DOMAIN calls |-> [s |-> s, k |-> calls[i]]]

\* runCaptureToolUse, recordToolObservations: at most MaxBatch calls, one
\* transaction; when it fails nothing else happens and the report is lost
PostToolBatch(h, s, n) ==
    /\ At(h, "idle") /\ n \in 1 .. Len(ran[s])
    /\ ran' = [ran EXCEPT ![s] = SubSeq(@, n + 1, Len(@))]
    /\ LET m == IF n <= MaxBatch THEN n ELSE MaxBatch
           batch == LinesOf(s, SubSeq(ran[s], 1, m))
       IN  \/ /\ rows' = rows \o batch
              /\ hook' = [hook EXCEPT ![h] = [Idle EXCEPT !.pc = "stat", !.lines = batch]]
           \/ MayFail("record") /\ UNCHANGED <<rows, hook>>
    /\ clean' = (clean /\ \A x \in Hook : hook[x].pc \notin CacheLabel)
    /\ UNCHANGED <<file, tmp, fd, warned, queued, credit, refused, issued, doubled>>

\* appendBatchToDisk, statSync: rotate a file over the cap
Stat(h) ==
    /\ At(h, "stat")
    /\ Goto(h, IF file.size > MaxDisk THEN "hydrate" ELSE "open")
    /\ UNCHANGED <<rows, file, tmp, fd, warned, ran, queued, credit, refused, issued, clean, doubled>>

\* The catch around the cache: whatever happened there, the hook goes on to the
\* indexer queue (mutant: the hook returns)
HookReturns(h) == Finish(h)
CacheDone(h) == Goto(h, "enqueue")

\* openSync(path, "a")
OpenCache(h) ==
    /\ At(h, "open")
    /\ fd' = [fd EXCEPT ![h] = "file"]
    /\ Goto(h, "append")
    /\ UNCHANGED <<rows, file, tmp, warned, ran, queued, credit, refused, issued, clean, doubled>>

\* appendFileSync(fd), closeSync: a descriptor whose file was renamed over
\* writes where nobody reads
AppendLines(h) ==
    /\ At(h, "append")
    /\ \/ /\ file' = IF fd[h] = "file" THEN Extend(file, hook[h].lines) ELSE file
          /\ UNCHANGED clean
       \/ MayFail("append") /\ clean' = FALSE /\ UNCHANGED file
    /\ fd' = [fd EXCEPT ![h] = "none"]
    /\ CacheDone(h)
    /\ UNCHANGED <<rows, tmp, warned, ran, queued, credit, refused, issued, doubled>>

\* hydrate, then append each line of the batch to the ring
\* (mutants: the ring is not loaded first; the batch goes in a second time)
RingWithoutOld(h) == Hydrate(hook[h].lines)
RingTwice(h) == Hydrate(Hydrate(file.lines) \o hook[h].lines \o hook[h].lines)
RingOf(h) == Hydrate(Hydrate(file.lines) \o hook[h].lines)

HydrateCache(h) ==
    /\ At(h, "hydrate")
    /\ hook' = [hook EXCEPT ![h].pc = "truncate", ![h].mem = RingOf(h)]
    /\ UNCHANGED <<rows, file, tmp, fd, warned, ran, queued, credit, refused, issued, clean, doubled>>

\* flush, writeFileSync(tmp): the open truncates whatever rtools.bin.tmp is
Truncate(h) ==
    /\ At(h, "truncate")
    /\ \/ /\ tmp' = Blank
          /\ fd' = [fd EXCEPT ![h] = "tmp"]
          /\ Goto(h, "rewrite")
          /\ UNCHANGED clean
       \/ /\ MayFail("truncate")
          /\ CacheDone(h)
          /\ clean' = FALSE
          /\ UNCHANGED <<tmp, fd>>
    /\ UNCHANGED <<rows, file, warned, ran, queued, credit, refused, issued, doubled>>

\* ... and the write goes to the file the descriptor refers to by now, which
\* another rotation may have filled
Target(h) ==
    CASE fd[h] = "file" -> file
      [] fd[h] = "tmp"  -> tmp
      [] OTHER          -> Blank

Held(q) == {q[i] : i \in DOMAIN q}

Rewrite(h) ==
    /\ At(h, "rewrite")
    /\ file' = IF fd[h] = "file" THEN Overwrite(hook[h].mem, file) ELSE file
    /\ tmp' = IF fd[h] = "tmp" THEN Overwrite(hook[h].mem, tmp) ELSE tmp
    /\ doubled' = doubled \o Keep(Standing(hook[h].mem, Target(h)), Held(hook[h].mem))
    /\ fd' = [fd EXCEPT ![h] = "none"]
    /\ Goto(h, "rename")
    /\ UNCHANGED <<rows, warned, ran, queued, credit, refused, issued, clean>>

\* renameSync(tmp, path): rtools.bin is now the file open as tmp, and the old
\* one has no name; without a tmp the call fails, which flush swallows
Rename(h) ==
    /\ At(h, "rename")
    /\ IF tmp = NoFile
       THEN UNCHANGED <<file, tmp, fd>>
       ELSE /\ file' = tmp
            /\ tmp' = NoFile
            /\ fd' = [x \in Hook |-> CASE fd[x] = "tmp"  -> "file"
                                       [] fd[x] = "file" -> "gone"
                                       [] OTHER          -> fd[x]]
    /\ CacheDone(h)
    /\ UNCHANGED <<rows, warned, ran, queued, credit, refused, issued, clean, doubled>>

\* enqueuePending for each write-like call of the batch
Enqueue(h) ==
    /\ At(h, "enqueue")
    /\ LET written == {hook[h].lines[i].k : i \in DOMAIN hook[h].lines}
       IN  \/ queued' = queued \cup {k \in written : FamilyOf[k] \in WriteLike}
           \/ MayFail("enqueue") /\ UNCHANGED queued
    /\ Finish(h)
    /\ UNCHANGED <<rows, file, tmp, fd, warned, ran, credit, refused, issued, clean, doubled>>

\* The host kills a hook that overruns its time limit; a tool call whose
\* PreToolUse hook gave no answer runs.  The frame stays as evidence.
Die(h) ==
    /\ hook[h].pc \in Mortal
    /\ hook' = [hook EXCEPT ![h].pc = "dead"]
    /\ fd' = [fd EXCEPT ![h] = "none"]
    /\ ran' = IF hook[h].pc \in PreLabel
              THEN [ran EXCEPT ![Asked(h).s] = Append(@, Asked(h).k)] ELSE ran
    /\ clean' = (clean /\ hook[h].pc \notin CacheLabel)
    /\ UNCHANGED <<rows, file, tmp, warned, queued, credit, refused, issued, doubled>>

-----------------------------------------------------------------------------
Init ==
    /\ rows = <<>> /\ file = Blank /\ tmp = NoFile
    /\ fd = [h \in Hook |-> "none"]
    /\ hook = [h \in Hook |-> Idle]
    /\ warned = {} /\ queued = {}
    /\ ran = [s \in Session |-> <<>>]
    /\ credit = 0 /\ refused = 0 /\ issued = 0
    /\ clean = TRUE /\ doubled = <<>>

Step(h) ==
    \/ \E s \in Session, k \in Call : PreToolUse(h, s, k)
    \/ ReadWarned(h) \/ LogEvent(h) \/ MarkWarned(h) \/ Reply(h)
    \/ \E s \in Session : \E n \in 1 .. Len(ran[s]) : PostToolBatch(h, s, n)
    \/ Stat(h) \/ OpenCache(h) \/ AppendLines(h)
    \/ HydrateCache(h) \/ Truncate(h) \/ Rewrite(h) \/ Rename(h)
    \/ Enqueue(h)
    \/ Die(h)

Next == \E h \in Hook : Step(h)

Spec == Init /\ [][Next]_vars

-----------------------------------------------------------------------------
(* Properties *)

TypeOK ==
    /\ rows \in Seq(Obs) /\ doubled \in Seq(Obs)
    /\ file \in Text /\ tmp \in Text \cup {NoFile}
    /\ fd \in [Hook -> {"none", "file", "tmp", "gone"}]
    /\ hook \in [Hook -> Frame]
    /\ warned \subseteq Obs /\ queued \subseteq Call
    /\ ran \in [Session -> Seq(Call)]
    /\ {credit, refused, issued} \subseteq Nat
    /\ clean \in BOOLEAN
    /\ \A h \in Hook : Len(hook[h].mem) <= Ring

\* However hooks overlap, die or fail while they append to the cache or rotate
\* it, a line of the cache is an observation the database holds, and it is there
\* no more often than in the database, but for copies that a rotation left standing
\* in rtools.bin.tmp, or in the cache that became of it, because its own text was
\* shorter (recent-tool-cache.ts: the cache mirrors tool_observations; a
\* PreToolUse hook never persists the call it asks about)
CacheIsObserved ==
    \A o \in Obs :
        /\ Occurs(file.lines, o) > 0 => Occurs(rows, o) > 0
        /\ Occurs(file.lines, o) <= Occurs(rows, o) + Occurs(doubled, o)

\* The count that blocks a repeated search is never more than the searches of
\* this intent that ran in this session ("same intent already tried N times"),
\* but for copies that a rotation left standing
IntentCountHonest ==
    \A h \in Hook :
        hook[h].pc \in PreLabel =>
            LET s == Asked(h).s
                k == Asked(h).k
            IN  hook[h].prior <= Searches(rows, s, k) + Searches(doubled, s, k)

\* As long as Post hooks do not overlap or fail, the cache ends with what the
\* database ends with: appends and rotations lose nothing within the cap
CacheIsTail ==
    clean /\ (\A h \in Hook : hook[h].pc \notin CacheLabel)
        => LastN(Ring, file.lines) = LastN(Ring, rows)

\* "mechanism savings only counts events that actually changed agent
\* trajectory": an event that credits a block stands for a refused call, one
\* whose hook is about to answer, or one whose hook was killed before it could
SavingsAreReal ==
    credit <= refused
        + Cardinality({h \in Hook : hook[h].pc \in {"mark", "reply", "dead"} /\ Blocked(h)})

\* Whatever goes wrong with the cache, a recorded edit or write of a file is
\* queued for the indexer, unless its hook is still running or was killed.  Not
\* among them are calls observe-tools.ts:213-216 passes over before the queue: a
\* tool that names no path, and a path outside the workspace.
WritesQueued ==
    "enqueue" \notin Failing =>
        \A i \in DOMAIN rows :
            FamilyOf[rows[i].k] \in WriteLike =>
                \/ rows[i].k \in queued
                \/ \E h \in Hook : /\ hook[h].pc \in CacheLabel \cup {"enqueue", "dead"}
                                   /\ \E j \in DOMAIN hook[h].lines : hook[h].lines[j] = rows[i]
=============================================================================
