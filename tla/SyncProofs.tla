------------------------------ MODULE SyncProofs ------------------------------
(***************************************************************************)
(* The sync coordinator, proved for any number of attempt bodies, marks and *)
(* flushes and any backoff limit.  The conjunction of its invariants is     *)
(* inductive: NeverForgotten needs OneAttempt (the handle of a running      *)
(* attempt is set) and TypeOK (the timers have three states).              *)
(***************************************************************************)
EXTENDS SyncCoordinator, TLAPS

Inv == TypeOK /\ OneAttempt /\ NeverForgotten

LEMMA InitInv == Init => Inv
<1>. SUFFICES ASSUME Init PROVE Inv
  OBVIOUS
<1>1. TypeOK
  <2>1. dirty \in BOOLEAN /\ closed \in BOOLEAN /\ inFlight \in BOOLEAN /\ bound \in BOOLEAN
    BY DEF Init
  <2>2. backoff \in 0 .. MaxBackoff - 1 /\ stray \in Nat
    BY BoundsAssumption DEF Init
  <2>3. debounce \in Timer /\ cap \in Timer /\ outcome \in Outcome
    BY DEF Init, Timer, Outcome
  <2>4. pc \in [Body -> Step] /\ payload \in [Body -> Nat]
    BY DEF Init, Step
  <2>5. recorded \in Nat /\ flushes \in Nat /\ wire \subseteq Nat /\ cloud \in Nat
    BY DEF Init
  <2>. QED  BY <2>1, <2>2, <2>3, <2>4, <2>5 DEF TypeOK
<1>2. Running = {} /\ ~dirty
  BY DEF Init, Running
<1>. QED  BY <1>1, <1>2 DEF Inv, OneAttempt, NeverForgotten

-----------------------------------------------------------------------------
(* Types, one lemma per group of actions *)

\* An attempt starts, or ends before its first await.
LEMMA StartTyped ==
  ASSUME TypeOK, StartAttempt
  PROVE  /\ dirty' \in BOOLEAN /\ inFlight' \in BOOLEAN
         /\ backoff' \in 0 .. MaxBackoff - 1
         /\ debounce' \in Timer /\ cap' \in Timer
         /\ pc' \in [Body -> Step] /\ payload' \in [Body -> Nat]
         /\ outcome' \in Outcome
<1>1. debounce' = "null" /\ cap' = "null" /\ inFlight' = TRUE /\ dirty' \in BOOLEAN
  BY DEF StartAttempt
<1>2. backoff' \in 0 .. MaxBackoff - 1
  BY BoundsAssumption DEF TypeOK, StartAttempt
<1>3. pc' \in [Body -> Step] /\ payload' \in [Body -> Nat]
  <2>1. recorded \in Nat /\ pc \in [Body -> Step] /\ payload \in [Body -> Nat]
    BY DEF TypeOK
  <2>2. CASE UNCHANGED <<pc, payload>>
    BY <2>1, <2>2
  <2>3. CASE \E a \in Body \ Running : /\ pc' = [pc EXCEPT ![a] = "build"]
                                       /\ payload' = [payload EXCEPT ![a] = recorded]
    BY <2>1, <2>3 DEF Step
  <2>. QED  BY <2>2, <2>3 DEF StartAttempt
<1>4. outcome' \in Outcome
  BY DEF TypeOK, StartAttempt, Outcome
<1>. QED  BY <1>1, <1>2, <1>3, <1>4 DEF Timer

\* An attempt ends.
LEMMA SettleTyped ==
  ASSUME TypeOK, NEW a \in Body, NEW d \in BOOLEAN, Settle(a, d)
  PROVE  /\ dirty' \in BOOLEAN /\ inFlight' \in BOOLEAN
         /\ pc' \in [Body -> Step] /\ payload' \in [Body -> Nat]
  BY DEF TypeOK, Settle, Step

\* An attempt ends with nothing left to do.
LEMMA ClearedTyped ==
  ASSUME TypeOK, NEW a \in Body, Cleared(a)
  PROVE  /\ dirty' \in BOOLEAN /\ inFlight' \in BOOLEAN
         /\ pc' \in [Body -> Step] /\ payload' \in [Body -> Nat]
         /\ backoff' \in 0 .. MaxBackoff - 1
<1>1. Settle(a, FALSE)  BY DEF Cleared
<1>2. backoff' \in 0 .. MaxBackoff - 1  BY BoundsAssumption DEF Cleared
<1>. QED  BY <1>1, <1>2, SettleTyped

\* A timer callback, whichever timer fired.
LEMMA FireTyped ==
  ASSUME TypeOK, NEW d \in Timer, NEW c \in Timer, NEW s \in Nat, Fire(d, c, s)
  PROVE  TypeOK'
<1>1. stray' \in Nat /\ UNCHANGED <<closed, bound, recorded, flushes, wire, cloud>>
  BY DEF Fire, environment
<1>2. CASE StartAttempt
  BY <1>1, <1>2, StartTyped DEF TypeOK
<1>3. CASE /\ debounce' = d /\ cap' = c
           /\ UNCHANGED <<dirty, backoff, inFlight, pc, payload, outcome>>
  BY <1>1, <1>3 DEF TypeOK
<1>. QED  BY <1>2, <1>3 DEF Fire

LEMMA StepTyped == TypeOK /\ [Next]_vars => TypeOK'
<1>. SUFFICES ASSUME TypeOK, [Next]_vars PROVE TypeOK'
  OBVIOUS
<1>1. CASE MarkDirty
  BY <1>1 DEF TypeOK, MarkDirty, ScheduleDebounce, ScheduleCap, Timer
<1>2. CASE Flush
  <2>1. /\ flushes' \in Nat
        /\ UNCHANGED <<closed, stray, bound, recorded, wire, cloud>>
    BY <1>2 DEF Flush, TypeOK
  <2>2. CASE StartAttempt
    BY <2>1, <2>2, StartTyped DEF TypeOK
  <2>3. CASE /\ dirty' = TRUE
             /\ UNCHANGED <<backoff, inFlight, debounce, cap, pc, payload, outcome>>
    BY <2>1, <2>3 DEF TypeOK
  <2>. QED  BY <1>2, <2>2, <2>3 DEF Flush
<1>3. CASE Close
  BY <1>3 DEF TypeOK, Close, environment, Timer
<1>4. CASE DebounceFires
  BY <1>4, FireTyped DEF DebounceFires, TypeOK, Timer
<1>5. CASE CapFires
  BY <1>5, FireTyped DEF CapFires, TypeOK, Timer
<1>6. CASE StrayFires
  BY <1>6, FireTyped DEF StrayFires, TypeOK
<1>7. ASSUME NEW a \in Body, Built(a) PROVE TypeOK'
  <2>1. UNCHANGED <<closed, debounce, cap, stray, bound, recorded, flushes, cloud>>
    BY <1>7 DEF Built
  <2>2. CASE Cleared(a) /\ outcome' = "nothing" /\ UNCHANGED wire
    BY <2>1, <2>2, ClearedTyped DEF TypeOK, Outcome
  <2>3. CASE /\ pc' = [pc EXCEPT ![a] = "send"]
             /\ wire' = wire \cup {payload[a]}
             /\ UNCHANGED <<dirty, backoff, inFlight, payload, outcome>>
    BY <2>1, <2>3 DEF TypeOK, Step
  <2>. QED  BY <1>7, <2>2, <2>3 DEF Built
<1>8. ASSUME NEW a \in Body, SendSucceeds(a) PROVE TypeOK'
  BY <1>8, ClearedTyped DEF TypeOK, SendSucceeds, environment, Outcome
<1>9. ASSUME NEW a \in Body, SendFails(a) PROVE TypeOK'
  <2>1. dirty \in BOOLEAN /\ Settle(a, dirty) /\ UNCHANGED <<closed, cap, environment>>
    BY <1>9 DEF SendFails, TypeOK
  <2>2. backoff' \in 0 .. MaxBackoff - 1 /\ debounce' \in Timer /\ stray' \in Nat
    BY <1>9, BoundsAssumption DEF SendFails, GivesUp, NextBackoff, TypeOK, Timer
  <2>3. outcome' \in Outcome
    BY <1>9 DEF SendFails, Outcome
  <2>. QED  BY <2>1, <2>2, <2>3, SettleTyped DEF TypeOK, environment
<1>10. CASE BindProject
  BY <1>10 DEF TypeOK, BindProject, local
<1>11. ASSUME NEW v \in 0..MaxMarks, Receive(v) PROVE TypeOK'
  BY <1>11, BoundsAssumption DEF TypeOK, Receive, Step
<1>12. ASSUME NEW v \in 0..MaxMarks, Lose(v) PROVE TypeOK'
  BY <1>12 DEF TypeOK, Lose, local
<1>13. CASE UNCHANGED vars
  BY <1>13 DEF TypeOK, vars, local, environment
<1>14. ASSUME NEW a \in Body, Throws(a) PROVE TypeOK'
  <2>1. dirty \in BOOLEAN /\ Settle(a, dirty)
    BY <1>14 DEF Throws, TypeOK
  <2>. QED  BY <1>14, <2>1, SettleTyped DEF Throws, TypeOK, Outcome, environment
<1>. QED
  BY <1>1, <1>2, <1>3, <1>4, <1>5, <1>6, <1>7, <1>8, <1>9, <1>10, <1>11,
     <1>12, <1>13, <1>14 DEF Next, Continue

-----------------------------------------------------------------------------
(* Attempts *)

\* An attempt that starts finds no other running, and none is forgotten.
LEMMA StartHeld ==
  ASSUME Inv, NEW d \in BOOLEAN, MayStart(d), StartAttempt
  PROVE  OneAttempt' /\ NeverForgotten'
<1>1. Running = {}
  BY DEF Inv, OneAttempt, MayStart
<1>2. inFlight'
  BY DEF StartAttempt
<1>3. CASE pc' = pc
  BY <1>1, <1>2, <1>3 DEF OneAttempt, NeverForgotten, Wedged, Running
<1>4. CASE \E a \in Body \ Running : pc' = [pc EXCEPT ![a] = "build"]
  <2>1. PICK a \in Body : pc' = [pc EXCEPT ![a] = "build"]
    BY <1>4
  <2>2. Running' = {a}
    BY <1>1, <2>1 DEF Running, Inv, TypeOK
  <2>. QED  BY <1>2, <2>2 DEF OneAttempt, NeverForgotten, Quiet
<1>. QED  BY <1>3, <1>4 DEF StartAttempt

\* An attempt that settles was the only one.
LEMMA SettleHeld ==
  ASSUME Inv, NEW a \in Running, NEW d, Settle(a, d)
  PROVE  Running' = {} /\ OneAttempt'
<1>1. Running = {a}
  BY DEF Inv, OneAttempt
<1>2. Running' = {}
  BY <1>1 DEF Settle, Running, Inv, TypeOK
<1>. QED  BY <1>2 DEF OneAttempt

\* A step that runs no attempt and leaves the flags alone keeps both.
LEMMA SameHeld ==
  ASSUME Inv, Running' = Running,
         UNCHANGED <<dirty, closed, inFlight, debounce, cap, stray, outcome>>
  PROVE  OneAttempt' /\ NeverForgotten'
  BY DEF Inv, OneAttempt, NeverForgotten, Quiet, Wedged

\* A timer that fires starts an attempt, or leaves one to its work.
LEMMA FireHeld ==
  ASSUME Inv, NEW d, NEW c, NEW s, Fire(d, c, s)
  PROVE  OneAttempt' /\ NeverForgotten'
<1>1. CASE MayStart(dirty) /\ StartAttempt
  <2>1. dirty \in BOOLEAN  BY DEF Inv, TypeOK
  <2>. QED  BY <1>1, <2>1, StartHeld
<1>2. CASE ~MayStart(dirty) /\ UNCHANGED <<dirty, inFlight, pc, outcome>>
  <2>1. Running' = Running /\ closed' = closed
    BY <1>2 DEF Running, Fire
  <2>. QED
    BY <1>2, <2>1 DEF Inv, OneAttempt, NeverForgotten, Quiet, Wedged, MayStart
<1>. QED  BY <1>1, <1>2 DEF Fire

LEMMA StepHeld == Inv /\ [Next]_vars => OneAttempt' /\ NeverForgotten'
<1>. SUFFICES ASSUME Inv, [Next]_vars PROVE OneAttempt' /\ NeverForgotten'
  OBVIOUS
<1>1. CASE MarkDirty
  BY <1>1 DEF MarkDirty, ScheduleDebounce, Inv, OneAttempt, NeverForgotten,
              Quiet, Running
<1>2. CASE Flush
  <2>1. CASE MayStart(TRUE) /\ StartAttempt
    BY <2>1, StartHeld
  <2>2. CASE inFlight /\ UNCHANGED <<inFlight, pc>>
    BY <2>2 DEF Inv, OneAttempt, NeverForgotten, Quiet, Wedged, Running
  <2>. QED  BY <1>2, <2>1, <2>2 DEF Flush
<1>3. CASE Close
  BY <1>3 DEF Close, Inv, OneAttempt, NeverForgotten, Running
<1>4. CASE DebounceFires
  BY <1>4, FireHeld DEF DebounceFires
<1>5. CASE CapFires
  BY <1>5, FireHeld DEF CapFires
<1>6. CASE StrayFires
  BY <1>6, FireHeld DEF StrayFires
<1>7. ASSUME NEW a \in Body, Built(a) PROVE OneAttempt' /\ NeverForgotten'
  <2>1. a \in Running
    BY <1>7 DEF Built, Running
  <2>2. CASE Cleared(a)
    BY <2>1, <2>2, SettleHeld DEF Cleared, Settle, NeverForgotten
  <2>3. CASE /\ pc' = [pc EXCEPT ![a] = "send"]
             /\ UNCHANGED <<dirty, inFlight, outcome>>
    <3>1. Running' = Running
      BY <2>1, <2>3 DEF Running, Inv, TypeOK
    <3>. QED  BY <1>7, <2>3, <3>1, SameHeld DEF Built
  <2>. QED  BY <1>7, <2>2, <2>3 DEF Built
<1>8. ASSUME NEW a \in Body, SendSucceeds(a) PROVE OneAttempt' /\ NeverForgotten'
  <2>1. a \in Running /\ Settle(a, FALSE)
    BY <1>8 DEF SendSucceeds, Cleared, Running
  <2>. QED  BY <2>1, SettleHeld DEF Settle, NeverForgotten
<1>9. ASSUME NEW a \in Body, SendFails(a) PROVE OneAttempt' /\ NeverForgotten'
  <2>1. a \in Running /\ Settle(a, dirty)
    BY <1>9 DEF SendFails, Running
  <2>2. outcome' = "gaveUp" \/ debounce' = "live"
    BY <1>9 DEF SendFails
  <2>. QED  BY <2>1, <2>2, SettleHeld DEF NeverForgotten, Quiet
<1>10. CASE BindProject
  BY <1>10, SameHeld DEF BindProject, local, Running
<1>11. ASSUME NEW v \in 0..MaxMarks, Receive(v) PROVE OneAttempt' /\ NeverForgotten'
  <2>1. Running' = Running
    BY <1>11 DEF Receive, Running
  <2>. QED  BY <1>11, <2>1, SameHeld DEF Receive
<1>12. ASSUME NEW v \in 0..MaxMarks, Lose(v) PROVE OneAttempt' /\ NeverForgotten'
  BY <1>12, SameHeld DEF Lose, local, Running
<1>13. CASE UNCHANGED vars
  BY <1>13, SameHeld DEF vars, local, Running
<1>14. ASSUME NEW a \in Body, Throws(a) PROVE OneAttempt' /\ NeverForgotten'
  <2>1. a \in Running /\ Settle(a, dirty) /\ outcome' = "threw"
    BY <1>14 DEF Throws, Running
  <2>. QED  BY <2>1, SettleHeld DEF NeverForgotten
<1>. QED
  BY <1>1, <1>2, <1>3, <1>4, <1>5, <1>6, <1>7, <1>8, <1>9, <1>10, <1>11,
     <1>12, <1>13, <1>14 DEF Next, Continue

-----------------------------------------------------------------------------
(* The budget of timers and attempts *)

\* One timer less is worth a whole K, whatever else is live.
LEMMA TimerIsWorth ==
  ASSUME NEW K \in Nat, NEW t \in Nat, NEW u \in Nat
  PROVE  /\ K * t \in Nat
         /\ u < t => K * u + K <= K * t
         /\ u = t + 1 => K * u = K * t + K
<1>1. K * t \in Nat
  OBVIOUS
<1>2. ASSUME u < t PROVE K * u + K <= K * t
  <2>1. PICK d \in Nat : t = u + 1 + d
    <3>1. t - u - 1 \in Nat /\ t = u + 1 + (t - u - 1)
      BY <1>2
    <3>. QED  BY <3>1
  <2>2. K * t = K * u + K + K * d /\ K * d >= 0 /\ K * u \in Nat
    BY <2>1
  <2>. QED  BY <2>2
<1>3. u = t + 1 => K * u = K * t + K
  OBVIOUS
<1>. QED  BY <1>1, <1>2, <1>3

\* What is left of a running attempt is known to within one step
BudgetCounted ==
    /\ LiveTimers \in Nat /\ AttemptLeft \in Nat /\ Budget \in Nat
    /\ Running # {} => AttemptLeft >= 3 * MaxBackoff
    /\ Running = {} => AttemptLeft = 0
    /\ AttemptLeft <= 3 * MaxBackoff + 1

LEMMA TypedIsCounted == TypeOK => BudgetCounted
<1>. SUFFICES ASSUME TypeOK PROVE BudgetCounted
  OBVIOUS
<1>1. LiveTimers \in Nat
  BY DEF TypeOK, LiveTimers
<1>2. /\ AttemptLeft \in Nat
      /\ Running # {} => AttemptLeft >= 3 * MaxBackoff
      /\ Running = {} => AttemptLeft = 0
      /\ AttemptLeft <= 3 * MaxBackoff + 1
  BY BoundsAssumption DEF AttemptLeft
<1>3. 3 * MaxBackoff + 2 \in Nat /\ 3 * (MaxBackoff - backoff) \in Nat
  BY BoundsAssumption DEF TypeOK
<1>4. (3 * MaxBackoff + 2) * LiveTimers \in Nat
  BY <1>1, <1>3, TimerIsWorth
<1>5. Budget \in Nat
  BY <1>2, <1>3, <1>4 DEF Budget
<1>. QED  BY <1>1, <1>2, <1>5 DEF BudgetCounted

LEMMA TypedIsCountedAfter == TypeOK' => BudgetCounted'
BY TypedIsCounted, PTL

\* The four ways in which a step pays: a timer spent without an attempt, a
\* timer spent on one, an attempt carried on or ended, and a retry.  t, l and b
\* are the live timers, the rest of the attempt and the counter before the step;
\* u, k and c after it.
LEMMA PaysInNumbers ==
  ASSUME NEW m \in Nat \ {0},
         NEW t \in Nat, NEW u \in Nat, NEW l \in Nat, NEW k \in Nat,
         NEW b \in 0 .. m - 1, NEW c \in 0 .. m - 1, k <= 3 * m + 1,
         \/ u < t /\ k = l /\ c = b
         \/ u < t /\ l = 0 /\ (c = b \/ k = 0)
         \/ u = t /\ k < l /\ c = b
         \/ u = t /\ l >= 3 * m /\ k = 0
         \/ u = t + 1 /\ l >= 3 * m /\ k = 0 /\ c = b + 1
  PROVE  (3 * m + 2) * u + k + 3 * (m - c) < (3 * m + 2) * t + l + 3 * (m - b)
<1>1. PICK x \in Nat, y \in Nat :
        /\ x = (3 * m + 2) * t /\ y = (3 * m + 2) * u
        /\ u < t => y + 3 * m + 2 <= x
        /\ u = t + 1 => y = x + 3 * m + 2
  <2>1. 3 * m + 2 \in Nat
    OBVIOUS
  <2>2. PICK K \in Nat : K = 3 * m + 2
    BY <2>1
  <2>3. /\ K * t \in Nat /\ K * u \in Nat
        /\ u < t => K * u + K <= K * t
        /\ u = t + 1 => K * u = K * t + K
    BY TimerIsWorth
  <2>. QED  BY <2>2, <2>3
<1>2. u = t => y = x
  BY <1>1
<1>3. y + k + 3 * (m - c) < x + l + 3 * (m - b)
  <2>1. /\ u < t => y + 3 * m + 2 <= x
        /\ u = t + 1 => y = x + 3 * m + 2
    BY <1>1
  <2>. QED  BY <1>2, <2>1
<1>. QED  BY <1>1, <1>3

LEMMA Pays ==
  ASSUME TypeOK, TypeOK',
         \/ /\ LiveTimers' < LiveTimers
            /\ AttemptLeft' = AttemptLeft /\ backoff' = backoff
         \/ /\ LiveTimers' < LiveTimers /\ AttemptLeft = 0
            /\ backoff' = backoff \/ AttemptLeft' = 0
         \/ /\ LiveTimers' = LiveTimers
            /\ AttemptLeft' < AttemptLeft /\ backoff' = backoff
         \/ /\ LiveTimers' = LiveTimers
            /\ AttemptLeft >= 3 * MaxBackoff /\ AttemptLeft' = 0
         \/ /\ LiveTimers' = LiveTimers + 1
            /\ AttemptLeft >= 3 * MaxBackoff /\ AttemptLeft' = 0
            /\ backoff' = backoff + 1
  PROVE  Budget' < Budget
<1>1. MaxBackoff \in Nat \ {0}
  BY BoundsAssumption
<1>2. LiveTimers \in Nat /\ LiveTimers' \in Nat
  BY TypedIsCounted, TypedIsCountedAfter DEF BudgetCounted
<1>3. /\ AttemptLeft \in Nat /\ AttemptLeft' \in Nat
      /\ AttemptLeft' <= 3 * MaxBackoff + 1
  BY TypedIsCounted, TypedIsCountedAfter DEF BudgetCounted
<1>4. backoff \in 0 .. MaxBackoff - 1 /\ backoff' \in 0 .. MaxBackoff - 1
  BY DEF TypeOK
<1>5. PICK t \in Nat, u \in Nat, l \in Nat, k \in Nat,
           b \in 0 .. MaxBackoff - 1, c \in 0 .. MaxBackoff - 1 :
        /\ t = LiveTimers /\ u = LiveTimers' /\ l = AttemptLeft /\ k = AttemptLeft'
        /\ b = backoff /\ c = backoff'
  BY <1>2, <1>3, <1>4
<1>6. /\ Budget = (3 * MaxBackoff + 2) * t + l + 3 * (MaxBackoff - b)
      /\ Budget' = (3 * MaxBackoff + 2) * u + k + 3 * (MaxBackoff - c)
  BY <1>5 DEF Budget
<1>7. /\ k <= 3 * MaxBackoff + 1
      /\ \/ u < t /\ k = l /\ c = b
         \/ u < t /\ l = 0 /\ (c = b \/ k = 0)
         \/ u = t /\ k < l /\ c = b
         \/ u = t /\ l >= 3 * MaxBackoff /\ k = 0
         \/ u = t + 1 /\ l >= 3 * MaxBackoff /\ k = 0 /\ c = b + 1
  BY <1>3, <1>5
<1>8. (3 * MaxBackoff + 2) * u + k + 3 * (MaxBackoff - c)
        < (3 * MaxBackoff + 2) * t + l + 3 * (MaxBackoff - b)
  BY <1>1, <1>7, PaysInNumbers
<1>. QED  BY <1>6, <1>8

\* A timer that fires is spent, and an attempt that starts spends the others.
LEMMA FirePays ==
  ASSUME Inv, TypeOK', NEW d, NEW c, NEW s, Fire(d, c, s),
         \/ debounce = "live" /\ d = "fired" /\ c = cap /\ s = stray
         \/ cap = "live" /\ d = debounce /\ c = "fired" /\ s = stray
         \/ stray > 0 /\ d = debounce /\ c = cap /\ s = stray - 1
  PROVE  Budget' < Budget
<1>1. TypeOK /\ stray \in Nat /\ stray' = s
  BY DEF Inv, TypeOK, Fire
<1>2. CASE MayStart(dirty) /\ StartAttempt
  <2>1. LiveTimers' < LiveTimers
    BY <1>1, <1>2 DEF StartAttempt, LiveTimers
  <2>2. Running = {} /\ AttemptLeft = 0
    BY <1>2, TypedIsCounted DEF Inv, OneAttempt, MayStart, BudgetCounted
  <2>3. backoff' = backoff \/ AttemptLeft' = 0
    <3>1. CASE UNCHANGED <<pc, payload>>
      BY <2>2, <3>1 DEF AttemptLeft, Running
    <3>. QED  BY <1>2, <3>1 DEF StartAttempt
  <2>. QED  BY <1>1, <2>1, <2>2, <2>3, Pays
<1>3. CASE /\ debounce' = d /\ cap' = c
           /\ UNCHANGED <<dirty, backoff, inFlight, pc, payload, outcome>>
  <2>1. LiveTimers' < LiveTimers
    BY <1>1, <1>3 DEF LiveTimers
  <2>2. AttemptLeft' = AttemptLeft
    BY <1>3 DEF AttemptLeft, Running
  <2>. QED  BY <1>1, <1>3, <2>1, <2>2, Pays
<1>. QED  BY <1>2, <1>3 DEF Fire

\* An attempt that ends without a timer pays for any reset of the counter.
LEMMA SettlePays ==
  ASSUME Inv, TypeOK', NEW a \in Running, NEW d, Settle(a, d),
         UNCHANGED <<debounce, cap, stray>>
  PROVE  Budget' < Budget
<1>1. AttemptLeft >= 3 * MaxBackoff /\ AttemptLeft' = 0
  BY SettleHeld, TypedIsCounted, TypedIsCountedAfter DEF Inv, BudgetCounted
<1>2. LiveTimers' = LiveTimers
  BY DEF LiveTimers
<1>. QED  BY <1>1, <1>2, Pays DEF Inv

LEMMA ContinuePays ==
  ASSUME Inv, TypeOK', NEW a \in Body, Continue(a)
  PROVE  Budget' < Budget
<1>1. a \in Running /\ TypeOK
  BY DEF Continue, Built, SendSucceeds, SendFails, Throws, Running, Inv
<1>2. CASE Built(a)
  <2>1. UNCHANGED <<debounce, cap, stray>>
    BY <1>2 DEF Built
  <2>2. CASE Cleared(a)
    BY <1>1, <2>1, <2>2, SettlePays DEF Cleared
  <2>3. CASE /\ pc' = [pc EXCEPT ![a] = "send"]
             /\ UNCHANGED <<dirty, backoff, inFlight, payload, outcome>>
    <3>1. Running = {a} /\ pc[a] = "build" /\ pc'[a] = "send" /\ Running' = {a}
      BY <1>1, <1>2, <2>3 DEF Inv, OneAttempt, Running, TypeOK, Built
    <3>2. AttemptLeft' < AttemptLeft
      BY <3>1, BoundsAssumption DEF AttemptLeft
    <3>. QED  BY <1>1, <2>1, <2>3, <3>2, Pays DEF LiveTimers
  <2>. QED  BY <1>2, <2>2, <2>3 DEF Built
<1>3. CASE SendSucceeds(a)
  BY <1>1, <1>3, SettlePays DEF SendSucceeds, Cleared
<1>4. CASE Throws(a)
  BY <1>1, <1>4, SettlePays DEF Throws
<1>5. CASE SendFails(a)
  <2>1. Settle(a, dirty) /\ cap' = cap
    BY <1>5 DEF SendFails
  <2>2. CASE UNCHANGED <<debounce, stray>>
    BY <1>1, <2>1, <2>2, SettlePays
  <2>3. CASE /\ backoff' = NextBackoff
             /\ stray' = IF debounce = "live" THEN stray + 1 ELSE stray
             /\ debounce' = "live"
    <3>1. LiveTimers' = LiveTimers + 1
      BY <1>1, <2>1, <2>3 DEF LiveTimers, TypeOK
    <3>2. AttemptLeft >= 3 * MaxBackoff /\ AttemptLeft' = 0
      BY <1>1, <2>1, SettleHeld, TypedIsCounted, TypedIsCountedAfter DEF BudgetCounted
    <3>. QED  BY <1>1, <2>3, <3>1, <3>2, Pays DEF NextBackoff
  <2>. QED  BY <1>5, <2>2, <2>3 DEF SendFails
<1>. QED  BY <1>2, <1>3, <1>4, <1>5 DEF Continue

\* The rest of the world neither adds to the budget nor draws on it; closing
\* the coordinator drops its timers.
LEMMA OthersAddNothing ==
  ASSUME TypeOK, TypeOK',
         \/ Close \/ BindProject \/ UNCHANGED vars
         \/ \E v \in 0..MaxMarks : Receive(v) \/ Lose(v)
  PROVE  Budget' <= Budget
<1>1. Budget \in Nat /\ Budget' \in Nat
  BY TypedIsCounted, TypedIsCountedAfter DEF BudgetCounted
<1>2. CASE Close
  <2>1. LiveTimers' < LiveTimers \/ LiveTimers' = LiveTimers
    BY <1>2 DEF Close, LiveTimers, TypeOK
  <2>2. AttemptLeft' = AttemptLeft /\ backoff' = backoff
    BY <1>2 DEF Close, AttemptLeft, Running
  <2>3. CASE LiveTimers' < LiveTimers
    BY <1>1, <2>2, <2>3, Pays
  <2>4. CASE LiveTimers' = LiveTimers
    BY <1>1, <2>2, <2>4 DEF Budget
  <2>. QED  BY <2>1, <2>3, <2>4
<1>3. CASE UNCHANGED <<debounce, cap, stray, backoff, pc>>
  BY <1>1, <1>3 DEF Budget, LiveTimers, AttemptLeft, Running
<1>4. ASSUME NEW v \in 0..MaxMarks, Receive(v) PROVE Budget' <= Budget
  <2>1. \A a \in Body : /\ pc'[a] = "none" <=> pc[a] = "none"
                        /\ pc'[a] = "build" <=> pc[a] = "build"
    BY <1>4 DEF Receive
  <2>2. AttemptLeft' = AttemptLeft
    BY <2>1 DEF AttemptLeft, Running
  <2>. QED  BY <1>1, <1>4, <2>2 DEF Receive, Budget, LiveTimers
<1>. QED  BY <1>2, <1>3, <1>4 DEF BindProject, Lose, vars, local

-----------------------------------------------------------------------------
(* Theorems *)

LEMMA Inductive == Spec => []Inv
<1>1. Inv /\ [Next]_vars => Inv'
  BY StepTyped, StepHeld DEF Inv
<1>. QED  BY InitInv, <1>1, PTL DEF Spec

\* The coordinator's locals keep their types, and the backoff counter stays
\* below its limit (createSyncCoordinator).
THEOREM Typed == Spec => []TypeOK
<1>1. Inv => TypeOK  BY DEF Inv
<1>. QED  BY Inductive, <1>1, PTL

\* Timers, flushes and retries never run two attempts at a time (runSync).
THEOREM Coalesced == Spec => []OneAttempt
<1>1. Inv => OneAttempt  BY DEF Inv
<1>. QED  BY Inductive, <1>1, PTL

\* A marked change is looked at again, given up on, or stuck behind a settled
\* promise; no interleaving of marks, timers and attempts drops the last timer
\* (runSync, markDirty, flush).
THEOREM Remembered == Spec => []NeverForgotten
<1>1. Inv => NeverForgotten  BY DEF Inv
<1>. QED  BY Inductive, <1>1, PTL

\* Every timer that fires and every continuation of an attempt draws on a
\* budget of natural numbers that only marks and flushes add to: without calls
\* retries end, for any backoff limit (runSync).
THEOREM RetriesDrawOnBudget == Spec => WindsDown
<1>. DEFINE Step1 ==
        /\ Budget \in Nat /\ Budget' \in Nat
        /\ DebounceFires \/ CapFires \/ StrayFires \/ (\E a \in Body : Continue(a))
               => Budget' < Budget
        /\ ~MarkDirty /\ ~Flush => Budget' <= Budget
<1>1. Inv /\ [Next]_vars => [Step1]_vars
  <2>. SUFFICES ASSUME Inv, [Next]_vars PROVE Step1
    OBVIOUS
  <2>1. TypeOK /\ TypeOK'
    BY StepTyped DEF Inv
  <2>2. Budget \in Nat /\ Budget' \in Nat
    BY <2>1, TypedIsCounted, TypedIsCountedAfter DEF BudgetCounted
  <2>3. DebounceFires \/ CapFires \/ StrayFires => Budget' < Budget
    BY <2>1, FirePays DEF DebounceFires, CapFires, StrayFires
  <2>4. (\E a \in Body : Continue(a)) => Budget' < Budget
    BY <2>1, ContinuePays
  <2>5. ~MarkDirty /\ ~Flush => Budget' <= Budget
    BY <2>1, <2>2, <2>3, <2>4, OthersAddNothing DEF Next
  <2>. QED  BY <2>2, <2>3, <2>4, <2>5
<1>. QED  BY <1>1, Inductive, PTL DEF Spec, WindsDown

=============================================================================
