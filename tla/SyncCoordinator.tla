--------------------------- MODULE SyncCoordinator ---------------------------
(***************************************************************************)
(* createSyncCoordinator (src/src/sdk/sync-coordinator.ts): the debounced  *)
(* background push of usage aggregates to the control plane.  One action   *)
(* is one turn of the JavaScript event loop: a call, a timer, or the       *)
(* continuation of an attempt after an await.  The aggregates are          *)
(* abstracted to a version, the number of changes recorded so far; a       *)
(* payload is the version it was built from.  The control plane keeps the  *)
(* payload it received last.                                               *)
(***************************************************************************)
EXTENDS Naturals, FiniteSets

CONSTANTS
    Body,        \* attempts (async closures of runSync) that may be running
    MaxBackoff,  \* MAX_BACKOFF_ATTEMPTS
    MaxMarks,    \* bound: changes recorded
    MaxFlushes   \* bound: calls of flush that get past its early returns

ASSUME BoundsAssumption ==
    /\ MaxBackoff \in Nat \ {0}
    /\ MaxMarks \in Nat
    /\ MaxFlushes \in Nat

VARIABLES
    dirty, closed, backoff,
    inFlight,         \* is the variable inFlight non-null?
    debounce, cap,    \* debounceTimer and capTimer: null, live, or fired
    stray,            \* live timers whose handle was overwritten
    pc, payload,      \* where each running attempt is, and what it sends
    bound,            \* does resolveBasePath return a project?
    outcome,          \* how the latest attempt to return ended
    recorded,         \* the version of the local aggregates
    flushes,          \* calls of flush so far
    wire, cloud       \* requests on the network; the control plane's sample

local == <<dirty, closed, backoff, inFlight, debounce, cap, stray, pc, payload>>
environment == <<bound, recorded, flushes, wire, cloud>>
vars == <<local, environment, outcome>>

Timer == {"null", "live", "fired"}
Step == {"none", "build", "send", "stored"}
Outcome == {"none", "unbound", "nothing", "sent", "retry", "gaveUp", "threw"}

Running == {a \in Body : pc[a] # "none"}
Wedged == inFlight /\ Running = {}
Quiet == Running = {} /\ debounce # "live" /\ cap # "live" /\ stray = 0

-----------------------------------------------------------------------------
(* Attempts *)

\* The synchronous head of the async closure, up to its first await.  With no
\* project it runs to its end at once: its finally sets inFlight to null and
\* the assignment around it then stores the settled promise.
StartAttempt ==
    /\ debounce' = "null" /\ cap' = "null" /\ inFlight' = TRUE
    /\ \/ /\ ~bound
          /\ dirty' = FALSE /\ backoff' = 0 /\ outcome' = "unbound"
          /\ UNCHANGED <<pc, payload>>
       \/ /\ bound
          /\ dirty' = TRUE
          /\ \E a \in Body \ Running : /\ pc' = [pc EXCEPT ![a] = "build"]
                                       /\ payload' = [payload EXCEPT ![a] = recorded]
          /\ UNCHANGED <<backoff, outcome>>

\* runSync's early returns (mutant: attempts do not coalesce)
MayStartTwice(d) == ~closed /\ d /\ (\E a \in Body : pc[a] = "none")
MayStart(d) == ~closed /\ d /\ ~inFlight

\* The end of the closure: its finally block (mutant: it always clears dirty)
SettleClean(a, d) ==
    /\ pc' = [pc EXCEPT ![a] = "none"]
    /\ payload' = [payload EXCEPT ![a] = 0]
    /\ inFlight' = FALSE
    /\ dirty' = FALSE
Settle(a, d) ==
    /\ pc' = [pc EXCEPT ![a] = "none"]
    /\ payload' = [payload EXCEPT ![a] = 0]
    /\ inFlight' = FALSE
    /\ dirty' = (d /\ ~closed)

Cleared(a) == Settle(a, FALSE) /\ backoff' = 0

\* A failure counts (mutant: it does not); the last one gives up
SameBackoff == backoff
NextBackoff == backoff + 1
GivesUp == NextBackoff >= MaxBackoff

-----------------------------------------------------------------------------
(* Calls *)

\* The debounce timer restarts on every mark (mutant: only the first mark of
\* a cycle starts it), the cap timer does not
ScheduleDebounceOnce == debounce' = IF debounce = "null" THEN "live" ELSE debounce
ScheduleDebounce == debounce' = "live"
ScheduleCap == cap' = IF cap = "null" THEN "live" ELSE cap

\* The runtime stores events, then calls markDirty
MarkDirty ==
    /\ ~closed /\ recorded < MaxMarks
    /\ recorded' = recorded + 1
    /\ dirty' = TRUE
    /\ ScheduleCap /\ ScheduleDebounce
    /\ UNCHANGED <<closed, backoff, inFlight, stray, pc, payload, bound,
                   outcome, flushes, wire, cloud>>

\* flush: a forced one marks dirty first.  Its soft timeout may return it to
\* its caller at any moment, so the wait adds no state.
Flush ==
    /\ ~closed /\ flushes < MaxFlushes
    /\ flushes' = flushes + 1
    /\ \E force \in BOOLEAN :
         /\ dirty \/ force
         /\ \/ MayStart(TRUE) /\ StartAttempt
            \/ /\ inFlight
               /\ dirty' = TRUE
               /\ UNCHANGED <<backoff, inFlight, debounce, cap, pc, payload, outcome>>
    /\ UNCHANGED <<closed, stray, bound, recorded, wire, cloud>>

Close ==
    /\ ~closed
    /\ closed' = TRUE
    /\ debounce' = "null" /\ cap' = "null"
    /\ UNCHANGED <<dirty, backoff, inFlight, stray, pc, payload, outcome, environment>>

-----------------------------------------------------------------------------
(* Timers *)

\* A timer callback is runSync.  A timer that fires into an early return
\* leaves its handle behind, non-null and dead.
Fire(d, c, s) ==
    /\ \/ /\ MayStart(dirty) /\ StartAttempt
       \/ /\ ~MayStart(dirty)
          /\ debounce' = d /\ cap' = c
          /\ UNCHANGED <<dirty, backoff, inFlight, pc, payload, outcome>>
    /\ stray' = s
    /\ UNCHANGED <<closed, environment>>

DebounceFires == debounce = "live" /\ Fire("fired", cap, stray)
CapFires == cap = "live" /\ Fire(debounce, "fired", stray)
StrayFires == stray > 0 /\ Fire(debounce, cap, stray - 1)

-----------------------------------------------------------------------------
(* Continuations of an attempt *)

\* buildInput resolves: nothing to send, or a request
Built(a) ==
    /\ pc[a] = "build"
    /\ \/ Cleared(a) /\ outcome' = "nothing" /\ UNCHANGED wire
       \/ /\ pc' = [pc EXCEPT ![a] = "send"]
          /\ wire' = wire \cup {payload[a]}
          /\ UNCHANGED <<dirty, backoff, inFlight, payload, outcome>>
    /\ UNCHANGED <<closed, debounce, cap, stray, bound, recorded, flushes, cloud>>

\* send resolves with ok
SendSucceeds(a) ==
    /\ pc[a] = "stored"
    /\ Cleared(a)
    /\ outcome' = "sent"
    /\ UNCHANGED <<closed, debounce, cap, stray, environment>>

\* send resolves without ok: a refusal, or a transport failure, after which
\* the request may still be on its way.  The handle of a timer that a mark
\* set during the attempt is overwritten.
SendFails(a) ==
    /\ pc[a] \in {"send", "stored"}
    /\ Settle(a, dirty)
    /\ \/ /\ GivesUp
          /\ backoff' = 0 /\ outcome' = "gaveUp"
          /\ UNCHANGED <<debounce, stray>>
       \/ /\ ~GivesUp
          /\ backoff' = NextBackoff /\ outcome' = "retry"
          /\ stray' = IF debounce = "live" THEN stray + 1 ELSE stray
          /\ debounce' = "live"
    /\ UNCHANGED <<closed, cap, environment>>

\* The catch block: buildInput or an injected sender rejects.  No retry is
\* scheduled and the failure is not counted.
Throws(a) ==
    /\ pc[a] # "none"
    /\ Settle(a, dirty) /\ outcome' = "threw"
    /\ UNCHANGED <<closed, backoff, debounce, cap, stray, environment>>

-----------------------------------------------------------------------------
(* The environment *)

BindProject ==
    /\ ~bound /\ bound' = TRUE
    /\ UNCHANGED <<local, outcome, recorded, flushes, wire, cloud>>

\* upsertUsageSample: the last request received wins.  Requests with the same
\* payload count as one.
Receive(v) ==
    /\ v \in wire
    /\ wire' = wire \ {v} /\ cloud' = v
    /\ pc' = [a \in Body |-> IF pc[a] = "send" /\ payload[a] = v THEN "stored" ELSE pc[a]]
    /\ UNCHANGED <<dirty, closed, backoff, inFlight, debounce, cap, stray,
                   payload, bound, outcome, recorded, flushes>>

Lose(v) ==
    /\ v \in wire
    /\ wire' = wire \ {v}
    /\ UNCHANGED <<local, outcome, bound, recorded, flushes, cloud>>

-----------------------------------------------------------------------------
Init ==
    /\ dirty = FALSE /\ closed = FALSE /\ backoff = 0 /\ inFlight = FALSE
    /\ debounce = "null" /\ cap = "null" /\ stray = 0
    /\ pc = [a \in Body |-> "none"] /\ payload = [a \in Body |-> 0]
    /\ bound \in BOOLEAN
    /\ outcome = "none"
    /\ recorded = 0 /\ flushes = 0 /\ wire = {} /\ cloud = 0

Continue(a) == Built(a) \/ SendSucceeds(a) \/ SendFails(a) \/ Throws(a)

Next ==
    \/ MarkDirty \/ Flush \/ Close
    \/ DebounceFires \/ CapFires \/ StrayFires
    \/ \E a \in Body : Continue(a)
    \/ BindProject
    \/ \E v \in 0..MaxMarks : Receive(v) \/ Lose(v)

\* Timers fire and awaited promises settle (fetch has its own timeouts); no
\* call, no binding and no delivery is owed.
Fairness ==
    /\ WF_vars(DebounceFires) /\ WF_vars(CapFires) /\ WF_vars(StrayFires)
    /\ \A a \in Body : WF_vars(Continue(a))

Spec == Init /\ [][Next]_vars
FairSpec == Spec /\ Fairness

-----------------------------------------------------------------------------
(* Properties *)

\* The variables hold what the coordinator's locals can hold; the backoff
\* counter stays below the limit at which it gives up.
TypeOK ==
    /\ dirty \in BOOLEAN /\ closed \in BOOLEAN /\ inFlight \in BOOLEAN
    /\ bound \in BOOLEAN
    /\ backoff \in 0 .. MaxBackoff - 1
    /\ debounce \in Timer /\ cap \in Timer /\ stray \in Nat
    /\ pc \in [Body -> Step] /\ payload \in [Body -> Nat]
    /\ outcome \in Outcome
    /\ recorded \in Nat /\ flushes \in Nat
    /\ wire \subseteq Nat /\ cloud \in Nat

\* runSync coalesces: timers, flushes and retries never run two attempts at a
\* time, and a running attempt is what inFlight says.
OneAttempt ==
    /\ \A a, b \in Running : a = b
    /\ Running # {} => inFlight

\* A change that was marked is not forgotten: while dirty is set, a timer or
\* an attempt will look at it again, unless the latest attempt gave up or
\* threw, or inFlight holds a promise that settled long ago.
NeverForgotten ==
    dirty /\ ~closed /\ Quiet => outcome \in {"gaveUp", "threw"} \/ Wedged

\* "Retries with exponential backoff and eventually gives up": once calls
\* stop, timers and attempts end, whatever the control plane answers.
RetriesEnd == <>[]Quiet

\* What the coordinator can still do by itself.  A live timer is good for one
\* attempt, an attempt for two continuations, and a retry pays for the timer it
\* sets with a step towards the limit at which the coordinator gives up.
LiveTimers == stray + (IF debounce = "live" THEN 1 ELSE 0) + (IF cap = "live" THEN 1 ELSE 0)
AttemptLeft ==
    IF Running = {} THEN 0
    ELSE 3 * MaxBackoff + (IF \E a \in Running : pc[a] = "build" THEN 1 ELSE 0)
Budget == (3 * MaxBackoff + 2) * LiveTimers + AttemptLeft + 3 * (MaxBackoff - backoff)

\* Why retries end, step by step: every timer and every continuation draws on a
\* budget of natural numbers, and only a mark or a flush adds to it (runSync).
WindsDown ==
    [][/\ Budget \in Nat /\ Budget' \in Nat
       /\ DebounceFires \/ CapFires \/ StrayFires \/ (\E a \in Body : Continue(a))
              => Budget' < Budget
       /\ ~MarkDirty /\ ~Flush => Budget' <= Budget]_vars

\* A change marked while no attempt runs reaches the control plane, unless an
\* attempt finds nothing to send, throws or gives up, or the coordinator is
\* closed or wedged.
Excused == closed \/ Wedged \/ outcome \in {"unbound", "nothing", "gaveUp", "threw"}
Delivered ==
    \A v \in 1..MaxMarks :
        (dirty /\ recorded = v /\ Running = {}) ~> (cloud >= v \/ Excused)

\* runSync's comment: "let the in-flight attempt resolve and re-evaluate".
\* The same promise for a change marked while an attempt runs.
ReEvaluated ==
    \A v \in 1..MaxMarks :
        (dirty /\ recorded = v) ~> (cloud >= v \/ Excused)

\* The comment on the unbound case: "the next markDirty cycle will catch it".
\* Once a project is bound, a dirty coordinator makes an attempt that uses it.
NextCycleCatches == (bound /\ dirty) ~> (closed \/ outcome # "unbound")

=============================================================================
