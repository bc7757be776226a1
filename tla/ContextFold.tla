----------------------------- MODULE ContextFold -----------------------------
(***************************************************************************)
(* Folding a session: before the host compacts its context, a hook cuts the *)
(* transcript into chunks and stores a summary of each in session_chunks;   *)
(* an SDK host may fold the same session.  A fold starts after the last     *)
(* turn some stored chunk ends with, the watermark.                        *)
(*                                                                         *)
(* Turns are numbered from 1 here, so that 0 is the watermark of a session  *)
(* without chunks (-1 in the code).                                        *)
(***************************************************************************)
EXTENDS Naturals, Sequences
LOCAL INSTANCE Functions

CONSTANTS
    Content,       \* what a turn may say
    UserTurn,      \* the contents a user says, the others an assistant
    Unsafe,        \* contents the leakage and injection scanners refuse
    Tokens,        \* the estimate of each content
    TurnLimit, TokenLimit, MinTokens,
    Folder,        \* processes that fold
    MaxTurns       \* bound: turns of the session

ASSUME FoldAssumption ==
    /\ UserTurn \subseteq Content /\ Unsafe \subseteq Content
    /\ Tokens \in [Content -> Nat]
    /\ TurnLimit \in Nat \ {0} /\ TokenLimit \in Nat \ {0} /\ MinTokens \in Nat
    /\ MaxTurns \in Nat

VARIABLES
    transcript,    \* the turns of the session
    outgrown,      \* turns beyond the tail of the transcript the hook reads
    chunks,        \* session_chunks: range and turn hash, unique by hash
    refused,       \* history: ranges a scanner refused
    fold           \* the frame of each process

foldVars == <<transcript, outgrown, chunks, refused, fold>>

NoFold == [pc |-> "idle", turns |-> << >>, mark |-> 0]

-----------------------------------------------------------------------------
(* foldTurns *)

Weight(turns, s, e) ==
    FoldFunction(LAMBDA a, b : a + b, 0, [i \in s .. e |-> Tokens[turns[i]]])

\* Where the buffer starts before turn i + 1, from the turn after the watermark
\* (mutant: it skips one)
BeyondMark(mark) == mark + 2
AfterMark(mark) == mark + 1
BufferStart(turns, mark) ==
    LET from == AfterMark(mark)
        start[i \in (from - 1) .. Len(turns)] ==
            IF i < from THEN from
            ELSE LET s == start[i - 1]
                 IN  IF i - s + 1 >= TurnLimit \/ Weight(turns, s, i) >= TokenLimit
                     THEN i + 1 ELSE s
    IN  start

\* The ranges a fold cuts: each full buffer, and the rest if it is worth it
Ranges(turns, mark) ==
    IF AfterMark(mark) > Len(turns) THEN {}
    ELSE LET start == BufferStart(turns, mark)
             n == Len(turns)
         IN  {<<start[i - 1], i>> : i \in {j \in AfterMark(mark) .. n : start[j] = j + 1}}
             \cup {r \in {<<start[n], n>>} : start[n] <= n /\ Weight(turns, start[n], n) >= MinTokens}

\* composeSummary: the first thing the user said and the last the assistant did
Summary(turns, s, e) ==
    LET said == {i \in s .. e : turns[i] \in UserTurn}
        done == (s .. e) \ said
    IN  {turns[i] : i \in {j \in said : \A k \in said : j <= k}
                     \cup {j \in done : \A k \in done : k <= j}}
Scanned(turns, r) == Summary(turns, r[1], r[2]) \cap Unsafe = {}

Hash(turns, r) == SubSeq(turns, r[1], r[2])
Hashes == {c.hash : c \in chunks}

\* latestSessionChunkWatermark: the largest chunk_end_turn
Watermark == CHOOSE m \in {0} \cup {c.last : c \in chunks} : \A c \in chunks : c.last <= m

-----------------------------------------------------------------------------

Say(c) ==
    /\ Len(transcript) < MaxTurns
    /\ transcript' = Append(transcript, c)
    /\ UNCHANGED <<outgrown, chunks, refused, fold>>

\* The file outgrows the tail (4 MiB) by a turn
Outgrow ==
    /\ outgrown < Len(transcript) /\ outgrown' = outgrown + 1
    /\ UNCHANGED <<transcript, chunks, refused, fold>>

\* capture-context reads the tail and numbers its turns afresh
ReadTranscript(p) ==
    /\ fold[p].pc = "idle"
    /\ fold' = [fold EXCEPT ![p] = [NoFold EXCEPT !.pc = "mark",
                    !.turns = SubSeq(transcript, outgrown + 1, Len(transcript))]]
    /\ UNCHANGED <<transcript, outgrown, chunks, refused>>

ReadWatermark(p) ==
    /\ fold[p].pc = "mark"
    /\ fold' = [fold EXCEPT ![p].pc = "record", ![p].mark = Watermark]
    /\ UNCHANGED <<transcript, outgrown, chunks, refused>>

\* recordSessionChunks: one transaction; of two chunks with the same turns the
\* earlier is kept
RecordChunks(p) ==
    LET turns == fold[p].turns
        cut == Ranges(turns, fold[p].mark)
        kept == {r \in cut : Scanned(turns, r) /\ Hash(turns, r) \notin Hashes}
        first == {r \in kept : \A q \in kept : Hash(turns, q) = Hash(turns, r) => r[1] <= q[1]}
    IN  /\ fold[p].pc = "record"
        /\ chunks' = chunks \cup {[first |-> r[1], last |-> r[2], hash |-> Hash(turns, r)] : r \in first}
        /\ refused' = refused \cup {r \in cut : ~Scanned(turns, r)}
        /\ fold' = [fold EXCEPT ![p] = NoFold]
        /\ UNCHANGED <<transcript, outgrown>>

KillFolder(p) ==
    /\ fold[p].pc # "idle" /\ fold' = [fold EXCEPT ![p] = NoFold]
    /\ UNCHANGED <<transcript, outgrown, chunks, refused>>

-----------------------------------------------------------------------------

FoldInit ==
    /\ transcript = << >> /\ outgrown = 0 /\ chunks = {} /\ refused = {}
    /\ fold = [p \in Folder |-> NoFold]

FoldNext ==
    \/ \E c \in Content : Say(c)
    \/ Outgrow
    \/ \E p \in Folder : ReadTranscript(p) \/ ReadWatermark(p) \/ RecordChunks(p) \/ KillFolder(p)

FoldSpec == FoldInit /\ [][FoldNext]_foldVars

-----------------------------------------------------------------------------
(* Properties *)

FoldTypeOK ==
    /\ transcript \in Seq(Content) /\ outgrown \in 0 .. Len(transcript)
    /\ \A c \in chunks :
        c.first \in 1 .. c.last /\ c.hash \in Seq(Content) /\ Len(c.hash) = c.last - c.first + 1
    /\ \A p \in Folder : fold[p].pc \in {"idle", "mark", "record"} /\ fold[p].mark \in Nat

\* While the transcript fits the tail the hook reads, no turn falls between two
\* folds: each one up to the watermark is in a stored chunk, or its words are
\* stored for another, or a scanner refused its chunk - however folds of
\* different lengths race and whichever of them die (foldTurns,
\* recordSessionChunks, capture-context).
NoTurnFallsBetween ==
    outgrown = 0 => \A i \in 1 .. Watermark :
        \/ \E s \in 1 .. i, e \in i .. Len(transcript) : SubSeq(transcript, s, e) \in Hashes
        \/ \E r \in refused : r[1] <= i /\ i <= r[2]

=============================================================================
