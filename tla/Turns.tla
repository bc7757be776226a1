-------------------------------- MODULE Turns --------------------------------
(***************************************************************************)
(* The learning loop of Tracebase: what a recall serves, what the event log *)
(* says about it, who credits it afterwards, and what the aggregates make of *)
(* the log.                                                                *)
(*                                                                         *)
(* A recall of a query runs in an MCP server, an SDK runtime or a          *)
(* UserPromptSubmit hook.  Two kinds of actor credit it later: the Stop    *)
(* hook (or afterRun), which infers from the transcript, and the agent     *)
(* itself through record_reasoning_outcome.  They are different processes  *)
(* on one database; one action is one statement with the JavaScript up to  *)
(* the next, so they interleave anywhere, and any of them may die.         *)
(*                                                                         *)
(* analytics_events is a sequence in the order readEvents returns it.      *)
(***************************************************************************)
EXTENDS Naturals, FiniteSets, Sequences

CONSTANTS
    Query,     \* query ids, one per recall
    Item,      \* reasoning blocks and project facts
    Fact,      \* the facts among them
    Run,       \* run ids: the session ids of the hooks
    NoRun,     \* a caller that passes no run id
    Actor,     \* Stop hooks and outcome reports in flight
    Score,     \* strengths a transcript match above the threshold can have
    MaxScored, \* MAX_INJECTIONS_TO_SCORE
    MaxLog,    \* bound: the log never gets longer
    MaxAged    \* bound: how many events may leave the lookback

Strength == {"weak", "moderate", "strong", "explicit"}
Arm == {"assisted", "shadow", "holdout"}

ASSUME TurnsAssumption ==
    /\ Fact \subseteq Item
    /\ NoRun \notin Run
    /\ Score \subseteq Strength \ {"weak", "explicit"}
    /\ {MaxScored, MaxLog, MaxAged} \subseteq Nat

VARIABLES
    log,     \* analytics_events
    aged,    \* how many events are older than the lookback of the inference
    present, \* items that are not erased
    recall,  \* the recall of each query
    act,     \* the frame of each actor
    told     \* history: queries whose agent reported resolved: true

vars == <<log, aged, present, recall, act, told>>

RunId == Run \cup {NoRun}

\* One record shape for all events: retrieval (arm), injection (item),
\* used (item, strength), outcome (resolved, inferred)
Event == [ev : {"retrieval", "injection", "used", "outcome"},
          q : Query, run : RunId, arm : Arm, items : SUBSET Item,
          strength : Strength, resolved : BOOLEAN, inferred : BOOLEAN]

Entry(ev, q, run) ==
    [ev |-> ev, q |-> q, run |-> run, arm |-> "assisted", items |-> {},
     strength |-> "weak", resolved |-> FALSE, inferred |-> FALSE]

Position == DOMAIN log
Room == Len(log) < MaxLog
Appended(e) == Room /\ log' = Append(log, e)

-----------------------------------------------------------------------------
(* computeAggregates: the fold of the log *)

Is(i, ev, q) == log[i].ev = ev /\ log[i].q = q

Eligible(q) == \E i \in Position : Is(i, "retrieval", q)
Recalled(q) == \E i \in Position : Is(i, "retrieval", q) /\ log[i].items # {}
Injected(q) == UNION {log[i].items : i \in {j \in Position : Is(j, "injection", q)}}
Uses(q) == {i \in Position : Is(i, "used", q)}
Used(q) == UNION {log[i].items : i \in Uses(q)}

\* shadowByQuery and controlReasonByQuery: the last retrieval wins
ArmOf(q) ==
    LET r == {i \in Position : Is(i, "retrieval", q)}
    IN  log[CHOOSE i \in r : \A j \in r : j <= i].arm

\* outcomeByQuery: the last outcome wins
Outcomes(q) == {i \in Position : Is(i, "outcome", q)}
LastOutcome(q) == log[CHOOSE i \in Outcomes(q) : \A j \in Outcomes(q) : j <= i]
Resolved(q) == Outcomes(q) # {} /\ LastOutcome(q).resolved
Explicit(q) == Outcomes(q) # {} /\ ~LastOutcome(q).inferred

\* meetsHelpfulThreshold(the strongest use): some use is at least moderate
Proven(q, x) == \E i \in Uses(q) : x \in log[i].items /\ log[i].strength # "weak"

\* helpful = injected, proven and resolved
Helpful(q, x) == x \in Injected(q) /\ Proven(q, x) /\ Resolved(q)

InjectedRuns == {q \in Query : Injected(q) # {}}
UsedRuns == {q \in Query : Used(q) # {}}
HelpfulRuns == {q \in Query : \E x \in Item : Helpful(q, x)}
VerifiedRuns == {q \in HelpfulRuns : Explicit(q)}

-----------------------------------------------------------------------------
(* Recall *)

RecallLabel == {"new", "ranked", "log", "shown", "failed"}
Recall == [pc : RecallLabel, cand : SUBSET Item, vis : SUBSET Item,
           todo : SUBSET Item, run : RunId, arm : Arm]
NewRecall == [pc |-> "new", cand |-> {}, vis |-> {}, todo |-> {}, run |-> NoRun,
              arm |-> "assisted"]

\* searchBlocks and searchFacts: any of the present items may match.  On the
\* cascade path recallAsync then awaits the reranker.
Search(q, r) ==
    /\ recall[q].pc = "new" /\ Room
    /\ \E c \in SUBSET present :
           recall' = [recall EXCEPT ![q] = [NewRecall EXCEPT !.pc = "ranked",
                                                            !.cand = c, !.run = r]]
    /\ UNCHANGED <<log, aged, present, act, told>>

\* shadow = manualShadow || holdoutApplied; only a query with something to
\* inject can be held out, so that the control arm holds no empty queries
\* (mutant: the cohort is drawn before the gate)
ArmsBeforeGate(pass) == Arm
Arms(pass) == IF pass = {} THEN {"assisted", "shadow"} ELSE Arm

\* What reaches the prompt: of the items above the gate those that fit the
\* caps and the token budget, and nothing in a shadow query (mutant: shadow
\* does not reach the payload builder)
VisibleAnyway(pass, arm) == SUBSET pass
Visible(pass, arm) == IF arm = "assisted" THEN SUBSET pass ELSE {{}}

\* finalizeRecall, buildInjectionPayload, and the retrieval event; an append
\* that throws fails the whole recall, and the agent is shown nothing
Finalize(q) ==
    /\ recall[q].pc = "ranked"
    /\ \E pass \in SUBSET recall[q].cand :
       \E arm \in Arms(pass) :
       \E vis \in Visible(pass, arm) :
           \/ /\ Appended([Entry("retrieval", q, recall[q].run) EXCEPT
                              !.arm = arm, !.items = recall[q].cand])
              /\ recall' = [recall EXCEPT ![q].pc = "log", ![q].arm = arm,
                                  ![q].cand = {}, ![q].vis = vis, ![q].todo = vis]
           \/ /\ recall' = [recall EXCEPT ![q].pc = "failed"]
              /\ UNCHANGED log
    /\ UNCHANGED <<aged, present, act, told>>

\* One injection event for each item the payload shows
LogInjection(q) ==
    /\ recall[q].pc = "log"
    /\ \E x \in recall[q].todo :
           \/ /\ Appended([Entry("injection", q, recall[q].run) EXCEPT !.items = {x}])
              /\ recall' = [recall EXCEPT ![q].todo = @ \ {x}]
           \/ /\ recall' = [recall EXCEPT ![q].pc = "failed"]
              /\ UNCHANGED log
    /\ UNCHANGED <<aged, present, act, told>>

\* The answer leaves after its events (mutant: before them)
Answerable(q) == recall[q].pc = "log"
Answered(q) == recall[q].pc = "log" /\ recall[q].todo = {}

Show(q) ==
    /\ Answered(q)
    /\ recall' = [recall EXCEPT ![q].pc = "shown"]
    /\ UNCHANGED <<log, aged, present, act, told>>

DieInRecall(q) ==
    /\ recall[q].pc \in {"ranked", "log"}
    /\ recall' = [recall EXCEPT ![q].pc = "failed"]
    /\ UNCHANGED <<log, aged, present, act, told>>

\* Elsewhere an item is erased; one that is only demoted, retired or expired
\* is one the search does not return
Erase(x) ==
    /\ x \in present
    /\ present' = present \ {x}
    /\ UNCHANGED <<log, aged, recall, act, told>>

\* Time passes beyond the lookback of some events
Age ==
    /\ aged < Len(log) /\ aged < MaxAged
    /\ aged' = aged + 1
    /\ UNCHANGED <<log, present, recall, act, told>>

-----------------------------------------------------------------------------
(* Actors *)

ActLabel == {"idle", "use", "check", "infer", "report"}
Frame == [pc : ActLabel, stop : BOOLEAN, run : RunId, pairs : SUBSET (Query \X Item),
          qs : SUBSET Query, cur : SUBSET Query, resolved : BOOLEAN, allow : BOOLEAN, at : Nat]
Idle == [pc |-> "idle", stop |-> FALSE, run |-> NoRun, pairs |-> {}, qs |-> {},
         cur |-> {}, resolved |-> FALSE, allow |-> FALSE, at |-> 0]

Goto(a, l) == act' = [act EXCEPT ![a].pc = l]
Return(a) == act' = [act EXCEPT ![a] = Idle]

\* readEvents({eventType, afterTs, runId, limit}): the OLDEST that match
\* (mutant: the run filter is dropped)
MatchingAllRuns(ev, r) == {i \in Position : i > aged /\ log[i].ev = ev}
Matching(ev, r) ==
    {i \in Position : i > aged /\ log[i].ev = ev /\ (r # NoRun => log[i].run = r)}
Oldest(n, S) == {i \in S : Cardinality({j \in S : j < i}) < n}
Read(ev, r) == Oldest(MaxScored, Matching(ev, r))

\* inferAgentUsedFromTranscript: injected in a query whose retrieval is in the
\* window too and was not shadow, still in the store, blocks only
Creditable(r) ==
    LET open == {log[i].q : i \in {j \in Read("retrieval", r) : log[j].arm = "assisted"}}
    IN  {p \in open \X (present \ Fact) :
            \E i \in Read("injection", r) : log[i].q = p[1] /\ log[i].items = {p[2]}}

\* The Stop hook; any of the creditable pairs may match the transcript
Stop(a, r) ==
    /\ act[a].pc = "idle" /\ Room
    /\ \E pairs \in SUBSET Creditable(r), allow \in BOOLEAN :
        /\ pairs # {}
        /\ act' = [act EXCEPT ![a] =
               [Idle EXCEPT !.pc = "use", !.stop = TRUE, !.run = r, !.pairs = pairs,
                            !.qs = {p[1] : p \in pairs}, !.allow = allow]]
    /\ UNCHANGED <<log, aged, present, recall, told>>

\* resolveUsedItems: what the agent names, intersected with what was injected
ResolveUsed(named, q) == named \cap Injected(q)

\* record_reasoning_outcome; the agent has the query id from the answer
Report(a, q) ==
    /\ act[a].pc = "idle" /\ Room
    /\ recall[q].pc = "shown"
    /\ \E named \in SUBSET Item, resolved \in BOOLEAN :
        /\ act' = [act EXCEPT ![a] =
               [Idle EXCEPT !.pc = "use", !.pairs = {q} \X ResolveUsed(named, q),
                            !.qs = {q}, !.resolved = resolved, !.run = recall[q].run]]
        /\ told' = IF resolved THEN told \cup {q} ELSE told
    /\ UNCHANGED <<log, aged, present, recall>>

\* emitAgentUsed and emitFactAgentUsed, once per pair
EmitUse(a) ==
    /\ act[a].pc = "use" /\ act[a].pairs # {}
    /\ \E p \in act[a].pairs :
       \E strength \in (IF act[a].stop THEN Score ELSE {"explicit"}) :
           /\ Appended([Entry("used", p[1], act[a].run) EXCEPT
                           !.items = {p[2]}, !.strength = strength, !.inferred = act[a].stop])
           /\ act' = [act EXCEPT ![a].pairs = @ \ {p}]
    /\ UNCHANGED <<aged, present, recall, told>>

\* The loop over the pairs ends: a Stop hook emits outcomes only when allowed
EndUses(a) ==
    /\ act[a].pc = "use" /\ act[a].pairs = {}
    /\ \/ ~act[a].stop /\ Goto(a, "report")
       \/ act[a].stop /\ act[a].allow /\ Goto(a, "check")
       \/ act[a].stop /\ ~act[a].allow /\ Return(a)
    /\ UNCHANGED <<log, aged, present, recall, told>>

\* "we look up by queryId and skip emission rather than double-write"
\* (mutant: any outcome is acceptable)
NoLookup(q) == TRUE
NoPriorOutcome(q) == Outcomes(q) = {}

\* The next credited query; at remembers how long the log was at the lookup
CheckOutcome(a, q) ==
    /\ act[a].pc = "check" /\ q \in act[a].qs
    /\ act' = [act EXCEPT ![a].qs = @ \ {q},
                          ![a].pc = IF NoPriorOutcome(q) THEN "infer" ELSE "check",
                          ![a].cur = IF NoPriorOutcome(q) THEN {q} ELSE {},
                          ![a].at = Len(log)]
    /\ UNCHANGED <<log, aged, present, recall, told>>

EndChecks(a) ==
    /\ act[a].pc = "check" /\ act[a].qs = {}
    /\ Return(a)
    /\ UNCHANGED <<log, aged, present, recall, told>>

\* A soft outcome carries attribution "inferred" (mutant: it does not)
Unmarked(q, run) == [Entry("outcome", q, run) EXCEPT !.resolved = TRUE]
Soft(q, run) == [Entry("outcome", q, run) EXCEPT !.resolved = TRUE, !.inferred = TRUE]

EmitInferred(a) ==
    /\ act[a].pc = "infer"
    /\ \E q \in act[a].cur : Appended(Soft(q, act[a].run))
    /\ act' = [act EXCEPT ![a].pc = "check", ![a].cur = {}]
    /\ UNCHANGED <<aged, present, recall, told>>

\* emitOutcome of record_reasoning_outcome: no attribution field
EmitOutcome(a) ==
    /\ act[a].pc = "report"
    /\ \E q \in act[a].qs :
           Appended([Entry("outcome", q, act[a].run) EXCEPT !.resolved = act[a].resolved])
    /\ Return(a)
    /\ UNCHANGED <<aged, present, recall, told>>

DieActor(a) ==
    /\ act[a].pc # "idle"
    /\ Return(a)
    /\ UNCHANGED <<log, aged, present, recall, told>>

-----------------------------------------------------------------------------

Init ==
    /\ log = << >> /\ aged = 0
    /\ present = Item
    /\ recall = [q \in Query |-> NewRecall]
    /\ act = [a \in Actor |-> Idle]
    /\ told = {}

RecallNext(q) ==
    \/ \E r \in RunId : Search(q, r)
    \/ Finalize(q)
    \/ LogInjection(q)
    \/ Show(q)
    \/ DieInRecall(q)

ActorNext(a) ==
    \/ \E r \in RunId : Stop(a, r)
    \/ \E q \in Query : Report(a, q)
    \/ EmitUse(a)
    \/ EndUses(a)
    \/ \E q \in Query : CheckOutcome(a, q)
    \/ EndChecks(a)
    \/ EmitInferred(a)
    \/ EmitOutcome(a)
    \/ DieActor(a)

Next ==
    \/ \E q \in Query : RecallNext(q)
    \/ \E a \in Actor : ActorNext(a)
    \/ \E x \in Item : Erase(x)
    \/ Age

Spec == Init /\ [][Next]_vars

-----------------------------------------------------------------------------
(* Properties *)

\* Every variable keeps its type: the log only ever holds the events the
\* emitters build, and the frames what the handlers carry between statements.
TypeOK ==
    /\ log \in Seq(Event)
    /\ aged \in 0 .. Len(log)
    /\ present \subseteq Item
    /\ recall \in [Query -> Recall]
    /\ act \in [Actor -> Frame]
    /\ told \subseteq Query

\* Whatever an agent was shown, the log says it was injected into that query,
\* though the events are appended one by one before the answer leaves and any
\* append may fail (runtime/recall.ts recordRecallEvents).
ShownIsLogged ==
    \A q \in Query : recall[q].pc = "shown" => recall[q].vis \subseteq Injected(q)

\* An item counts as helpful for a query only if that query selected it for the
\* prompt and logged it, whatever a library, a report or a transcript claims about
\* it.  A recall that dies between the log and its answer has shown it to nobody.
HelpfulWasShown ==
    \A q \in Query, x \in Item :
        Helpful(q, x) => recall[q].arm = "assisted" /\ x \in recall[q].vis

\* The control arm stays a control arm: nothing was injected into a held-out
\* query, the transcript inference credits nothing to it, and it had something
\* to hold out (so the two arms of the causal split are drawn from the same
\* population).
HoldoutIsClean ==
    \A q \in Query :
        (Eligible(q) /\ ArmOf(q) = "holdout") =>
            /\ Recalled(q) /\ Injected(q) = {} /\ q \notin HelpfulRuns
            /\ \A i \in Uses(q) \cup Outcomes(q) : ~log[i].inferred

\* A run counts as verified only if its agent reported success: a transcript
\* match never passes for a grader's verdict.
VerifiedMeansReported == VerifiedRuns \subseteq told

\* The funnel of the dashboard narrows, though its stages are counted from
\* separate events that other processes append at any time.
FunnelNarrows ==
    /\ VerifiedRuns \subseteq HelpfulRuns /\ HelpfulRuns \subseteq UsedRuns
    /\ UsedRuns \subseteq InjectedRuns
    /\ \A q \in InjectedRuns : Recalled(q)

\* The Stop hook of one session credits and judges only queries recalled in
\* that session, on a database that all sessions share.
CreditStaysInRun ==
    \A i \in Position :
        (log[i].ev \in {"used", "outcome"} /\ log[i].inferred /\ log[i].run # NoRun)
            => recall[log[i].q].run = log[i].run

\* An inferred verdict about to be written overrides no verdict that was there
\* when the hook looked: only one that arrived in between (the lookup and the
\* append are separate statements).
OverridesOnlyRacers ==
    \A a \in Actor : act[a].pc = "infer" =>
        \A q \in act[a].cur : \A i \in Outcomes(q) : i > act[a].at

=============================================================================
