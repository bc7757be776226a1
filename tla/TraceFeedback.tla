---------------------------- MODULE TraceFeedback ----------------------------
(***************************************************************************)
(* Feedback on a recalled v1 trace: recall() logs a trace_retrieval event;  *)
(* feedback() finds the recall it answers in that log, raises the quality   *)
(* counters, logs a trace_feedback event and teaches the contextual bandit, *)
(* whose global and per-bucket layers are two rows of config.  The handler  *)
(* has no await, but every statement is a transaction of its own, and CLI,  *)
(* MCP server and SDK vote on one file.                                     *)
(*                                                                         *)
(* One trace, one bucket; a posterior counts its updates.  Whether a vote   *)
(* is positive is left out, and so are the trace_agent_used events and      *)
(* feedback_signals, which this path writes and never reads.                *)
(***************************************************************************)
EXTENDS Naturals, Sequences, FiniteSets

CONSTANTS
    RecallId,     \* the queryId of each recall
    NoRecall,     \* not a recall
    Voter,        \* feedback() calls in flight
    ReadLimit,    \* resolveFeedbackContext: limit 5000
    MaxEvents,    \* bound: events when a recall or a vote starts
    MaxRecalls    \* bound: the recall count when a vote starts

ASSUME FeedbackAssumption ==
    /\ NoRecall \notin RecallId /\ ReadLimit \in Nat \ {0}
    /\ {MaxEvents, MaxRecalls} \subseteq Nat

VARIABLES
    events,     \* trace_retrieval and trace_feedback events, by ts
    expired,    \* how many of them have left the lookback of one hour
    kept,       \* is the trace still stored
    recalls,    \* q_recall_count of the trace
    learned,    \* feedbackCount of the global layer, totalBucketFeedback
    voter,      \* the frame of each call
    raced       \* history: two calls resolved to one recall before either logged it

voteVars == <<events, expired, kept, recalls, learned, voter, raced>>

\* selected: the recall returned the trace; clear: the verdict is not ambiguous
Retrieval == [kind : {"retrieval"}, q : RecallId, selected : BOOLEAN]
Verdict == [kind : {"verdict"}, q : RecallId, clear : BOOLEAN]

\* q, clear: what resolveFeedbackContext found; old: the counters read so far
VoterFrame == [pc : {"idle", "read", "write", "log", "load", "loadBucket", "save", "saveBucket"},
               q : RecallId \cup {NoRecall}, clear : BOOLEAN, old : Nat, oldBucket : Nat]
NotVoting == [pc |-> "idle", q |-> NoRecall, clear |-> FALSE, old |-> 0, oldBucket |-> 0]

Put(v, f) == voter' = [voter EXCEPT ![v] = f]
VoterAt(v, pc) == voter[v].pc = pc

Happened(q) == \E i \in DOMAIN events : events[i].q = q

-----------------------------------------------------------------------------
\* recallTraces: the trace is a candidate, returned or not; an event that cannot
\* be written is swallowed
RecallTrace(q) ==
    /\ ~Happened(q) /\ Len(events) < MaxEvents /\ kept
    /\ \E selected \in BOOLEAN :
           events' = Append(events, [kind |-> "retrieval", q |-> q, selected |-> selected])
    /\ UNCHANGED <<expired, kept, recalls, learned, voter, raced>>

\* An hour passes for the oldest event
Expire ==
    /\ expired < Len(events)
    /\ expired' = expired + 1
    /\ UNCHANGED <<events, kept, recalls, learned, voter, raced>>

\* deleteTrace, prune
Forget ==
    /\ kept
    /\ kept' = FALSE
    /\ UNCHANGED <<events, expired, recalls, learned, voter, raced>>

-----------------------------------------------------------------------------
(* resolveFeedbackContext: readEvents ... ORDER BY ts LIMIT *)

First(view) == {i \in view : Cardinality({j \in view : j <= i}) <= ReadLimit}

Among(view, kind) == {i \in view : events[i].kind = kind}
Credited(view) == {events[i].q : i \in Among(view, "verdict")}

\* feedback({queryId, traceId, helpful}) finds the recall it names, however old
Exact(q) ==
    LET view == First({i \in DOMAIN events : events[i].q = q})
    IN  IF Among(view, "retrieval") = {} THEN NoRecall ELSE q

\* ... unless that recall has its verdict (mutant: nobody looks)
NobodyAsked(q) == FALSE
AlreadyCredited(q) == q \in Credited(First({i \in DOMAIN events : events[i].q = q}))

\* feedback(traceId, helpful) guesses: recalls of the last hour that returned the
\* trace and have no verdict yet
Open ==
    LET view == First({i \in DOMAIN events : i > expired})
    IN  {i \in Among(view, "retrieval") : events[i].selected /\ events[i].q \notin Credited(view)}
LatestOpen == CHOOSE i \in Open : \A j \in Open : j <= i

\* A call goes on with what it resolved
Resolve(v, q, clear) ==
    /\ VoterAt(v, "idle") /\ Len(events) < MaxEvents /\ recalls < MaxRecalls
    /\ Put(v, [NotVoting EXCEPT !.pc = "read", !.q = q, !.clear = clear])
    /\ raced' = (raced \/ \E w \in Voter \ {v} :
                     voter[w].pc \in {"read", "write", "log"} /\ voter[w].q = q /\ q # NoRecall)
    /\ UNCHANGED <<events, expired, kept, recalls, learned>>

VoteFor(v, q) == ~AlreadyCredited(q) /\ Resolve(v, Exact(q), TRUE)

Vote(v) == Open # {} /\ Resolve(v, events[LatestOpen].q, Cardinality(Open) = 1)

\* Either form goes on without a recall when the read throws, the guessing one
\* also when nothing is open
VoteBlindly(v) == Resolve(v, NoRecall, TRUE)

-----------------------------------------------------------------------------
(* feedback *)

\* recordFeedback: getById ...
ReadQuality(v) ==
    /\ VoterAt(v, "read")
    /\ Put(v, IF kept THEN [voter[v] EXCEPT !.pc = "write", !.old = recalls]
                      ELSE [voter[v] EXCEPT !.pc = "log"])
    /\ UNCHANGED <<events, expired, kept, recalls, learned, raced>>

\* ... and updateQuality
WriteQuality(v) ==
    /\ VoterAt(v, "write")
    /\ recalls' = IF kept THEN voter[v].old + 1 ELSE recalls
    /\ Put(v, [voter[v] EXCEPT !.pc = "log", !.old = 0])
    /\ UNCHANGED <<events, expired, kept, learned, raced>>

\* emitTraceFeedback; an ambiguous verdict teaches nothing
LogVerdict(v) ==
    LET f == voter[v] IN
    /\ f.pc = "log"
    /\ IF f.q = NoRecall
       THEN Put(v, NotVoting) /\ UNCHANGED events
       ELSE /\ events' = Append(events, [kind |-> "verdict", q |-> f.q, clear |-> f.clear])
            /\ Put(v, IF f.clear THEN [f EXCEPT !.pc = "load"] ELSE NotVoting)
    /\ UNCHANGED <<expired, kept, recalls, learned, raced>>

\* loadContextualBandit reads the two layers ...
LoadGlobal(v) ==
    /\ VoterAt(v, "load")
    /\ Put(v, [voter[v] EXCEPT !.pc = "loadBucket", !.old = learned.global])
    /\ UNCHANGED <<events, expired, kept, recalls, learned, raced>>

LoadBucket(v) ==
    /\ VoterAt(v, "loadBucket")
    /\ Put(v, [voter[v] EXCEPT !.pc = "save", !.oldBucket = learned.bucket])
    /\ UNCHANGED <<events, expired, kept, recalls, learned, raced>>

\* ... and updateContextualWeights writes them back, one after the other
SaveGlobal(v) ==
    /\ VoterAt(v, "save")
    /\ learned' = [learned EXCEPT !.global = voter[v].old + 1]
    /\ Put(v, [voter[v] EXCEPT !.pc = "saveBucket", !.old = 0])
    /\ UNCHANGED <<events, expired, kept, recalls, raced>>

SaveBucket(v) ==
    /\ VoterAt(v, "saveBucket")
    /\ learned' = [learned EXCEPT !.bucket = voter[v].oldBucket + 1]
    /\ Put(v, NotVoting)
    /\ UNCHANGED <<events, expired, kept, recalls, raced>>

\* The process dies, or a statement throws and the caller may vote again
VoterDies(v) ==
    /\ ~VoterAt(v, "idle")
    /\ Put(v, NotVoting)
    /\ UNCHANGED <<events, expired, kept, recalls, learned, raced>>

-----------------------------------------------------------------------------
FeedbackInit ==
    /\ events = <<>> /\ expired = 0 /\ kept = TRUE
    /\ recalls = 0 /\ learned = [global |-> 0, bucket |-> 0]
    /\ voter = [v \in Voter |-> NotVoting]
    /\ raced = FALSE

FeedbackNext ==
    \/ \E q \in RecallId : RecallTrace(q) \/ \E v \in Voter : VoteFor(v, q)
    \/ Expire \/ Forget
    \/ \E v \in Voter :
        \/ Vote(v) \/ VoteBlindly(v) \/ ReadQuality(v) \/ WriteQuality(v) \/ LogVerdict(v)
        \/ LoadGlobal(v) \/ LoadBucket(v) \/ SaveGlobal(v) \/ SaveBucket(v)
        \/ VoterDies(v)

FeedbackSpec == FeedbackInit /\ [][FeedbackNext]_voteVars

-----------------------------------------------------------------------------
(* Properties *)

FeedbackTypeOK ==
    /\ events \in Seq(Retrieval \cup Verdict)
    /\ expired \in 0 .. Len(events)
    /\ kept \in BOOLEAN /\ recalls \in Nat /\ raced \in BOOLEAN
    /\ learned \in [global : Nat, bucket : Nat]
    /\ voter \in [Voter -> VoterFrame]

VerdictsOn(q) == {i \in DOMAIN events : events[i].kind = "verdict" /\ events[i].q = q}
ClearVerdicts == {i \in DOMAIN events : events[i].kind = "verdict" /\ events[i].clear}

\* A recall gets one verdict, and the bandit learns from no more than the clear
\* ones: not again when a call that died after logging is repeated, when the exact
\* and the guessing form meet, or when two processes learn at once (the guards of
\* feedback and resolveFeedbackContext).  Excepted are two calls that resolve to
\* one recall before either has logged its verdict, and a log that outgrows the
\* one page that is read.  Counted are the updates (feedbackCount); that an update
\* also changes the weights of DEFAULT_STATE in place (weights.ts:80) is outside.
LearnsOncePerRecall ==
    (~raced /\ Len(events) <= ReadLimit) =>
        /\ \A q \in RecallId : Cardinality(VerdictsOn(q)) <= 1
        /\ learned.global <= Cardinality(ClearVerdicts)
        /\ learned.bucket <= Cardinality(ClearVerdicts)

=============================================================================
