----------------------------- MODULE TurnsProofs -----------------------------
(***************************************************************************)
(* The learning loop, proved for any number of queries, items, runs and    *)
(* concurrent hooks and reports; and, at the end, the calibrator whose      *)
(* probabilities it serves by, for any number of training pairs.           *)
(*                                                                         *)
(* The log is written by one set of actors and judged by another, so each   *)
(* property needs to know, for every event in the log, what must be true of *)
(* the query it names (Fits), and for every frame what the events it is     *)
(* about to append will rest on (FrameFits).                               *)
(***************************************************************************)
EXTENDS Turns, Calibration, ListProofs, SequenceTheorems

Logged == {"log", "shown", "failed"}

\* An event agrees with the recall of its query, and rests on earlier events
Fits(e) ==
    /\ e.ev = "retrieval" =>
        /\ recall[e.q].pc \in Logged /\ e.arm = recall[e.q].arm
        /\ e.arm = "holdout" => e.items # {}
    /\ e.ev = "injection" =>
        /\ recall[e.q].pc \in Logged /\ recall[e.q].arm = "assisted"
        /\ e.run = recall[e.q].run
        /\ e.items # {} /\ e.items \subseteq recall[e.q].vis
        /\ Recalled(e.q)
    /\ e.ev = "used" => e.items # {} /\ e.items \subseteq Injected(e.q)
    /\ e.ev = "outcome" /\ e.inferred => Injected(e.q) # {}
    /\ e.ev = "outcome" /\ ~e.inferred /\ e.resolved => e.q \in told
    /\ e.ev \in {"used", "outcome"} /\ e.inferred /\ e.run # NoRun => recall[e.q].run = e.run

LogTrue == \A i \in Position : Fits(log[i])

RecalledOnce ==
    \A i, j \in Position :
        log[i].ev = "retrieval" /\ log[j].ev = "retrieval" /\ log[i].q = log[j].q => i = j

RecallFits(q) ==
    /\ recall[q].pc = "log" =>
        /\ recall[q].todo \subseteq recall[q].vis
        /\ recall[q].vis \ recall[q].todo \subseteq Injected(q)
        /\ recall[q].vis # {} => recall[q].arm = "assisted" /\ Recalled(q)
    /\ recall[q].pc = "shown" => recall[q].vis \subseteq Injected(q)

\* What a frame has credited, or is about to judge, was injected in its own run
FrameFits(a) ==
    /\ \A p \in act[a].pairs :
        /\ p[2] \in Injected(p[1])
        /\ act[a].stop /\ act[a].run # NoRun => recall[p[1]].run = act[a].run
    /\ act[a].pc \in {"check", "infer"} => act[a].stop
    /\ act[a].pc = "report" => ~act[a].stop
    /\ act[a].stop => \A q \in act[a].qs \cup act[a].cur :
        /\ Injected(q) # {}
        /\ act[a].run # NoRun => recall[q].run = act[a].run
    /\ ~act[a].stop /\ act[a].resolved => act[a].qs \subseteq told
    /\ act[a].at <= Len(log)
    /\ act[a].pc = "infer" => \A q \in act[a].cur : \A i \in Outcomes(q) : i > act[a].at

RecallsTrue == \A q \in Query : RecallFits(q)
FramesTrue == \A a \in Actor : FrameFits(a)

TurnsInv == TypeOK /\ LogTrue /\ RecalledOnce /\ RecallsTrue /\ FramesTrue

\* A step leaves alone what the events of a logged query rest on
KeepsRecalls ==
    \A q \in Query : recall[q].pc \in Logged =>
        /\ recall'[q].pc \in Logged /\ recall'[q].arm = recall[q].arm
        /\ recall'[q].run = recall[q].run /\ recall'[q].vis = recall[q].vis

-----------------------------------------------------------------------------
(* The operators of the fold, over a log that grows *)

LEMMA InjectedDef ==
    \A q, x : x \in Injected(q) <=> \E i \in Position : Is(i, "injection", q) /\ x \in log[i].items
BY DEF Injected

\* An injected query has been recalled with something, and shows it
LEMMA InjectedAssisted ==
    ASSUME TurnsInv, NEW q, Injected(q) # {}
    PROVE  /\ recall[q].pc \in Logged /\ recall[q].arm = "assisted" /\ Recalled(q)
           /\ Injected(q) \subseteq recall[q].vis
BY InjectedDef DEF TurnsInv, LogTrue, Fits, Is

LEMMA LogGrows ==
    ASSUME log \in Seq(Event), NEW e \in Event, log' = Append(log, e)
    PROVE  /\ log' \in Seq(Event)
           /\ Len(log) \in Nat /\ Len(log') = Len(log) + 1
           /\ Position' = Position \cup {Len(log) + 1} /\ Len(log) + 1 \notin Position
           /\ \A i \in Position : log'[i] = log[i]
           /\ log'[Len(log) + 1] = e
           /\ \A q : Injected(q) \subseteq Injected(q)'
           /\ \A q : Recalled(q) => Recalled(q)'
           /\ e.ev = "injection" => e.items \subseteq Injected(e.q)'
           /\ e.ev = "retrieval" /\ e.items # {} => Recalled(e.q)'
<1>1. /\ log' \in Seq(Event)
      /\ Len(log) \in Nat /\ Len(log') = Len(log) + 1
      /\ Position' = Position \cup {Len(log) + 1} /\ Len(log) + 1 \notin Position
      /\ \A i \in Position : log'[i] = log[i]
      /\ log'[Len(log) + 1] = e
  BY DEF Position
<1>2. \A q, x : x \in Injected(q)' <=>
                    \E i \in Position' : Is(i, "injection", q)' /\ x \in log'[i].items
  BY DEF Injected
<1>3. ASSUME NEW q, NEW x \in Injected(q) PROVE x \in Injected(q)'
  <2>1. PICK i \in Position : Is(i, "injection", q) /\ x \in log[i].items
    BY InjectedDef
  <2>2. i \in Position' /\ log'[i] = log[i]
    BY <1>1
  <2>3. Is(i, "injection", q)'
    BY <2>1, <2>2 DEF Is
  <2>. QED  BY <1>2, <2>1, <2>2, <2>3
<1>4. \A q : Recalled(q) => Recalled(q)'
  BY <1>1 DEF Recalled, Is
<1>5. e.ev = "injection" => e.items \subseteq Injected(e.q)'
  BY <1>1, <1>2 DEF Is
<1>6. e.ev = "retrieval" /\ e.items # {} => Recalled(e.q)'
  BY <1>1 DEF Recalled, Is
<1>. QED  BY <1>1, <1>3, <1>4, <1>5, <1>6

LEMMA SameLog ==
    ASSUME UNCHANGED log
    PROVE  /\ Position' = Position
           /\ \A q : Injected(q)' = Injected(q)
           /\ \A q : Recalled(q)' = Recalled(q)
           /\ \A q : Outcomes(q)' = Outcomes(q)
BY DEF Position, Injected, Recalled, Is, Outcomes

-----------------------------------------------------------------------------
(* What a step has to show, by what it changes *)

\* An event that fitted still does
LEMMA FitsKept ==
    ASSUME TurnsInv, KeepsRecalls, told \subseteq told', NEW e \in Event, Fits(e),
           \A q : Injected(q) \subseteq Injected(q)' /\ (Recalled(q) => Recalled(q)')
    PROVE  Fits(e)'
<1>1. e.q \in Query
  BY DEF Event
<1>2. CASE e.ev = "retrieval"
  BY <1>1, <1>2 DEF Fits, KeepsRecalls
<1>3. CASE e.ev = "injection"
  BY <1>1, <1>3 DEF Fits, KeepsRecalls
<1>4. CASE e.ev \in {"used", "outcome"}
  <2>1. Injected(e.q) # {} => recall'[e.q].run = recall[e.q].run
    BY <1>1, InjectedAssisted DEF KeepsRecalls
  <2>2. Injected(e.q) # {} => Injected(e.q)' # {}
    OBVIOUS
  <2>. QED  BY <1>4, <2>1, <2>2 DEF Fits
<1>. QED  BY <1>2, <1>3, <1>4 DEF Event

\* A step of a recall that logs nothing
LEMMA RecallMoves ==
    ASSUME TurnsInv, NEW q \in Query, UNCHANGED <<log, aged, present, act, told>>,
           recall' \in [Query -> Recall], \A p \in Query : p # q => recall'[p] = recall[p],
           KeepsRecalls, RecallFits(q)'
    PROVE  TurnsInv'
<1>1. TypeOK'
  BY DEF TurnsInv, TypeOK
<1>2. LogTrue'
  <2>1. \A i \in Position : log[i] \in Event
    BY DEF TurnsInv, TypeOK, Position
  <2>2. \A i \in Position : Fits(log[i])'
    <3>. TAKE i \in Position
    <3>1. Fits(log[i]) /\ log[i] \in Event
      BY <2>1 DEF TurnsInv, LogTrue
    <3>. QED  BY <3>1, SameLog, FitsKept
  <2>. QED  BY <2>2, SameLog DEF LogTrue
<1>3. RecalledOnce'
  BY SameLog DEF TurnsInv, RecalledOnce
<1>4. RecallsTrue'
  BY SameLog DEF TurnsInv, RecallsTrue, RecallFits
<1>5. FramesTrue'
  <2>. SUFFICES ASSUME NEW a \in Actor PROVE FrameFits(a)'
    BY DEF FramesTrue
  <2>1. \A p : Injected(p) # {} /\ p \in Query => recall'[p].run = recall[p].run
    BY InjectedAssisted DEF KeepsRecalls
  <2>2. /\ \A p \in act[a].pairs : p[1] \in Query
        /\ act[a].qs \cup act[a].cur \subseteq Query
    BY DEF TurnsInv, TypeOK, Frame
  <2>3. FrameFits(a)
    BY DEF TurnsInv, FramesTrue
  <2>. QED  BY <2>1, <2>2, <2>3, SameLog DEF FrameFits
<1>. QED  BY <1>1, <1>2, <1>3, <1>4, <1>5 DEF TurnsInv

\* A step of an actor that logs nothing
LEMMA ActorMoves ==
    ASSUME TurnsInv, NEW a \in Actor, UNCHANGED <<log, aged, present, recall>>,
           told \subseteq told', told' \subseteq Query,
           act' \in [Actor -> Frame], \A b \in Actor : b # a => act'[b] = act[b],
           FrameFits(a)'
    PROVE  TurnsInv'
<1>1. TypeOK'
  BY DEF TurnsInv, TypeOK
<1>2. LogTrue'
  BY SameLog DEF TurnsInv, LogTrue, Fits
<1>3. RecalledOnce'
  BY SameLog DEF TurnsInv, RecalledOnce
<1>4. RecallsTrue'
  BY SameLog DEF TurnsInv, RecallsTrue, RecallFits
<1>5. FramesTrue'
  BY SameLog DEF TurnsInv, FramesTrue, FrameFits
<1>. QED  BY <1>1, <1>2, <1>3, <1>4, <1>5 DEF TurnsInv

\* A step that appends an event
LEMMA EventLogged ==
    ASSUME TurnsInv, NEW e \in Event, log' = Append(log, e), UNCHANGED <<aged, present, told>>,
           recall' \in [Query -> Recall], act' \in [Actor -> Frame], KeepsRecalls,
           Fits(e)', e.ev = "retrieval" => recall[e.q].pc \notin Logged
    PROVE  TypeOK' /\ LogTrue' /\ RecalledOnce'
<1>1. log \in Seq(Event) /\ \A i \in Position : log[i] \in Event /\ Fits(log[i])
  BY DEF TurnsInv, TypeOK, LogTrue, Position
<1>2. TypeOK'
  <2>1. aged \in 0 .. Len(log)
    BY DEF TurnsInv, TypeOK
  <2>2. aged' \in 0 .. Len(log')
    BY <1>1, <2>1, LogGrows
  <2>. QED  BY <1>1, <2>2, LogGrows DEF TurnsInv, TypeOK
<1>3. LogTrue'
  <2>. SUFFICES ASSUME NEW i \in Position' PROVE Fits(log[i])'
    BY DEF LogTrue
  <2>1. CASE i \in Position
    <3>1. PICK f \in Event : f = log[i]
      BY <1>1, <2>1
    <3>2. log'[i] = f /\ Fits(f)
      BY <1>1, <2>1, <3>1, LogGrows
    <3>3. Fits(f)'
      BY <1>1, <3>2, LogGrows, FitsKept
    <3>. QED  BY <3>2, <3>3 DEF Fits
  <2>2. CASE i = Len(log) + 1
    BY <1>1, <2>2, LogGrows DEF Fits
  <2>. QED  BY <1>1, <2>1, <2>2, LogGrows
<1>4. RecalledOnce'
  <2>1. e.ev = "retrieval" => \A i \in Position : ~(log[i].ev = "retrieval" /\ log[i].q = e.q)
    BY <1>1 DEF Fits
  <2>2. /\ \A i \in Position' : i \in Position \/ i = Len(log) + 1
        /\ \A i \in Position : log'[i] = log[i]
        /\ log'[Len(log) + 1] = e
    <3>1. Position' = Position \cup {Len(log) + 1}
      BY <1>1, LogGrows
    <3>2. \A i \in Position : log'[i] = log[i]
      BY <1>1, LogGrows
    <3>3. log'[Len(log) + 1] = e
      BY <1>1, LogGrows
    <3>. QED  BY <3>1, <3>2, <3>3
  <2>. QED  BY <2>1, <2>2 DEF TurnsInv, RecalledOnce
<1>. QED  BY <1>2, <1>3, <1>4

\* A frame and a recall that an event leaves alone still fit
LEMMA FrameKept ==
    ASSUME TurnsInv, NEW e \in Event, log' = Append(log, e), told' = told, KeepsRecalls,
           NEW a \in Actor, act'[a] = act[a]
    PROVE  FrameFits(a)'
<1>1. FrameFits(a) /\ log \in Seq(Event)
  BY DEF TurnsInv, TypeOK, FramesTrue
<1>2. \A p : Injected(p) # {} /\ p \in Query => recall'[p].run = recall[p].run
  BY InjectedAssisted DEF KeepsRecalls
<1>3. /\ \A p \in act[a].pairs : p[1] \in Query
      /\ act[a].qs \cup act[a].cur \subseteq Query /\ act[a].at \in Nat
  BY DEF TurnsInv, TypeOK, Frame
<1>4. \A q : Injected(q) # {} => Injected(q)' # {}
  BY <1>1, LogGrows
<1>5. \A p \in act[a].pairs :
        /\ p[2] \in Injected(p[1])'
        /\ act[a].stop /\ act[a].run # NoRun => recall'[p[1]].run = act[a].run
  BY <1>1, <1>2, <1>3, LogGrows DEF FrameFits
<1>6. act[a].stop => \A q \in act[a].qs \cup act[a].cur :
        /\ Injected(q)' # {}
        /\ act[a].run # NoRun => recall'[q].run = act[a].run
  BY <1>1, <1>2, <1>3, <1>4 DEF FrameFits
<1>7. act[a].at <= Len(log')
  BY <1>1, <1>3, LogGrows DEF FrameFits
<1>8. act[a].pc = "infer" => \A q \in act[a].cur : \A i \in Outcomes(q)' : i > act[a].at
  <2>1. \A q : \A i \in Outcomes(q)' : i \in Outcomes(q) \/ i = Len(log) + 1
    <3>1. /\ \A i \in Position' : i \in Position \/ i = Len(log) + 1
          /\ \A i \in Position : log'[i] = log[i]
      <4>1. Position' = Position \cup {Len(log) + 1}
        BY <1>1, LogGrows
      <4>2. \A i \in Position : log'[i] = log[i]
        BY <1>1, LogGrows
      <4>. QED  BY <4>1, <4>2
    <3>2. \A q : \A i \in Outcomes(q)' : i \in Position' /\ log'[i].ev = "outcome" /\ log'[i].q = q
      BY DEF Outcomes, Is
    <3>. QED  BY <3>1, <3>2 DEF Outcomes, Is
  <2>2. Len(log) + 1 > act[a].at
    BY <1>1, <1>3, LogGrows DEF FrameFits
  <2>. QED  BY <1>1, <2>1, <2>2 DEF FrameFits
<1>. QED  BY <1>1, <1>5, <1>6, <1>7, <1>8 DEF FrameFits

\* A frame that is done with some of its pairs and queries still fits
LEMMA FrameNarrows ==
    ASSUME TurnsInv, NEW e \in Event, log' = Append(log, e), told' = told, recall' = recall,
           NEW a \in Actor, act' \in [Actor -> Frame],
           act'[a].pairs \subseteq act[a].pairs, act'[a].qs \subseteq act[a].qs, act'[a].cur = {},
           act'[a].stop = act[a].stop, act'[a].run = act[a].run, act'[a].at = act[a].at,
           act'[a].resolved = act[a].resolved,
           act'[a].pc = "use" \/ (act'[a].pc = "check" /\ act[a].stop)
    PROVE  FrameFits(a)'
<1>1. FrameFits(a) /\ log \in Seq(Event) /\ act[a].at \in Nat
  BY DEF TurnsInv, TypeOK, FramesTrue, Frame
<1>2. \A q : Injected(q) \subseteq Injected(q)'
  BY <1>1, LogGrows
<1>3. act[a].at <= Len(log')
  BY <1>1, LogGrows DEF FrameFits
<1>4. act[a].stop => \A q \in act'[a].qs : Injected(q)' # {}
  BY <1>1, <1>2 DEF FrameFits
<1>. QED  BY <1>1, <1>2, <1>3, <1>4 DEF FrameFits

LEMMA RecallKept ==
    ASSUME TurnsInv, NEW e \in Event, log' = Append(log, e), NEW q \in Query,
           recall'[q] = recall[q]
    PROVE  RecallFits(q)'
<1>1. RecallFits(q) /\ log \in Seq(Event)
  BY DEF TurnsInv, TypeOK, RecallsTrue
<1>. QED  BY <1>1, LogGrows DEF RecallFits

-----------------------------------------------------------------------------
(* Every step keeps the invariant *)

LEMMA IdleFits == Idle \in Frame /\ Idle.pairs = {} /\ Idle.qs = {} /\ Idle.cur = {} /\
                  Idle.pc = "idle" /\ Idle.stop = FALSE /\ Idle.resolved = FALSE /\ Idle.at = 0
BY DEF Idle, Frame, ActLabel, RunId

LEMMA InitTurnsInv == Init => TurnsInv
<1>. SUFFICES ASSUME Init PROVE TurnsInv
  OBVIOUS
<1>1. Len(log) = 0 /\ Position = {} /\ log \in Seq(Event)
  BY DEF Init, Position
<1>2. NewRecall \in Recall /\ NewRecall.pc = "new"
  BY DEF NewRecall, Recall, RecallLabel, RunId, Arm
<1>3. TypeOK
  BY <1>1, <1>2, IdleFits DEF Init, TypeOK
<1>4. LogTrue /\ RecalledOnce
  BY <1>1 DEF LogTrue, RecalledOnce
<1>5. RecallsTrue
  BY <1>2 DEF Init, RecallsTrue, RecallFits
<1>6. FramesTrue
  BY <1>1, IdleFits DEF Init, FramesTrue, FrameFits
<1>. QED  BY <1>3, <1>4, <1>5, <1>6 DEF TurnsInv

LEMMA SearchStep ==
    ASSUME TurnsInv, NEW q \in Query, NEW r \in RunId, Search(q, r) PROVE TurnsInv'
<1>1. PICK c \in SUBSET present :
        recall' = [recall EXCEPT ![q] = [NewRecall EXCEPT !.pc = "ranked", !.cand = c, !.run = r]]
  BY DEF Search
<1>. DEFINE row == [NewRecall EXCEPT !.pc = "ranked", !.cand = c, !.run = r]
<1>2. c \subseteq Item /\ recall \in [Query -> Recall]
  BY DEF TurnsInv, TypeOK
<1>3. row \in Recall /\ row.pc = "ranked"
  BY <1>2 DEF NewRecall, Recall, RecallLabel, Arm
<1>. HIDE DEF row
<1>4. /\ recall' \in [Query -> Recall] /\ recall'[q].pc = "ranked"
      /\ \A p \in Query : p # q => recall'[p] = recall[p]
  BY <1>1, <1>2, <1>3 DEF row
<1>5. recall[q].pc = "new" /\ UNCHANGED <<log, aged, present, act, told>>
  BY DEF Search
<1>6. KeepsRecalls
  BY <1>4, <1>5 DEF KeepsRecalls, Logged
<1>7. RecallFits(q)'
  BY <1>4 DEF RecallFits
<1>. QED  BY <1>4, <1>5, <1>6, <1>7, RecallMoves

\* A recall that fails, dies or answers only moves on
LEMMA RecallEnds ==
    ASSUME TurnsInv, NEW q \in Query, NEW l \in {"shown", "failed"},
           recall' = [recall EXCEPT ![q].pc = l], UNCHANGED <<log, aged, present, act, told>>,
           l = "shown" => recall[q].pc = "log" /\ recall[q].todo = {}
    PROVE  TurnsInv'
<1>1. recall \in [Query -> Recall] /\ recall[q] \in Recall
  BY DEF TurnsInv, TypeOK
<1>. DEFINE row == [recall[q] EXCEPT !.pc = l]
<1>2. /\ row \in Recall /\ row.pc = l
      /\ row.arm = recall[q].arm /\ row.run = recall[q].run /\ row.vis = recall[q].vis
  BY <1>1 DEF Recall, RecallLabel
<1>3. recall' = [recall EXCEPT ![q] = row]
  OBVIOUS
<1>. HIDE DEF row
<1>4. /\ recall' \in [Query -> Recall] /\ recall'[q] = row
      /\ \A p \in Query : p # q => recall'[p] = recall[p]
  BY <1>1, <1>2, <1>3
<1>5. KeepsRecalls
  BY <1>2, <1>4 DEF KeepsRecalls, Logged
<1>6. RecallFits(q)'
  BY <1>2, <1>4, SameLog DEF TurnsInv, RecallsTrue, RecallFits
<1>. QED  BY <1>4, <1>5, <1>6, RecallMoves

LEMMA FinalizeStep == ASSUME TurnsInv, NEW q \in Query, Finalize(q) PROVE TurnsInv'
<1>1. CASE recall' = [recall EXCEPT ![q].pc = "failed"] /\ UNCHANGED log
  BY <1>1, RecallEnds DEF Finalize
<1>2. ASSUME NEW pass \in SUBSET recall[q].cand, NEW arm \in Arms(pass), NEW vis \in Visible(pass, arm),
             Appended([Entry("retrieval", q, recall[q].run) EXCEPT
                          !.arm = arm, !.items = recall[q].cand]),
             recall' = [recall EXCEPT ![q].pc = "log", ![q].arm = arm,
                                ![q].cand = {}, ![q].vis = vis, ![q].todo = vis]
      PROVE  TurnsInv'
  <2>. DEFINE row == [recall[q] EXCEPT !.pc = "log", !.arm = arm, !.cand = {},
                                       !.vis = vis, !.todo = vis]
  <2>1. /\ recall \in [Query -> Recall] /\ recall[q] \in Recall /\ recall[q].pc = "ranked"
        /\ log \in Seq(Event) /\ UNCHANGED <<aged, present, act, told>>
        /\ act \in [Actor -> Frame]
    BY DEF Finalize, TurnsInv, TypeOK
  <2>2. /\ arm \in Arm
        /\ arm = "holdout" => pass # {}
        /\ vis \subseteq pass
        /\ vis # {} => arm = "assisted"
        /\ pass \subseteq recall[q].cand /\ recall[q].cand \subseteq Item
    BY <2>1 DEF Arms, Visible, Arm, Recall
  <2>3. PICK e \in Event :
            /\ e = [Entry("retrieval", q, recall[q].run) EXCEPT
                       !.arm = arm, !.items = recall[q].cand]
            /\ e.ev = "retrieval" /\ e.q = q /\ e.arm = arm /\ e.items = recall[q].cand
    <3>0. PICK r \in RunId : r = recall[q].run
      BY <2>1 DEF Recall
    <3>. DEFINE base == Entry("retrieval", q, r)
                f == [base EXCEPT !.arm = arm, !.items = recall[q].cand]
    <3>1. recall[q].cand \in SUBSET Item
      BY <2>1, <2>2 DEF Recall
    <3>2. base \in Event /\ base.ev = "retrieval" /\ base.q = q
      BY DEF Entry, Event, Strength, Arm
    <3>. HIDE DEF base
    <3>3. f \in Event /\ f.ev = "retrieval" /\ f.q = q /\ f.arm = arm /\ f.items = recall[q].cand
      BY <2>2, <3>1, <3>2 DEF Event
    <3>. QED  BY <3>0, <3>3 DEF base
  <2>4. /\ row \in Recall /\ row.pc = "log" /\ row.arm = arm /\ row.vis = vis /\ row.todo = vis
    BY <2>1, <2>2 DEF Recall, RecallLabel
  <2>5. log' = Append(log, e)
    BY <1>2, <2>3 DEF Appended
  <2>6. recall' = [recall EXCEPT ![q] = row]
    BY <1>2
  <2>. HIDE DEF row
  <2>7. /\ recall' \in [Query -> Recall] /\ recall'[q] = row
        /\ \A p \in Query : p # q => recall'[p] = recall[p]
    BY <2>1, <2>4, <2>6
  <2>8. KeepsRecalls
    BY <2>1, <2>7 DEF KeepsRecalls, Logged
  <2>9. Fits(e)'
    BY <2>2, <2>3, <2>4, <2>7 DEF Fits, Logged
  <2>10. TypeOK' /\ LogTrue' /\ RecalledOnce'
    <3>1. recall[e.q].pc \notin Logged
      BY <2>1, <2>3 DEF Logged
    <3>. QED  BY <2>1, <2>3, <2>5, <2>7, <2>8, <2>9, <3>1, EventLogged
  <2>11. RecallsTrue'
    <3>1. RecallFits(q)'
      <4>1. e.items # {} => Recalled(e.q)'
        BY <2>1, <2>3, <2>5, LogGrows
      <4>. QED  BY <2>2, <2>3, <2>4, <2>7, <4>1 DEF RecallFits
    <3>2. \A p \in Query : p # q => RecallFits(p)'
      BY <2>3, <2>5, <2>7, RecallKept
    <3>. QED  BY <3>1, <3>2 DEF RecallsTrue
  <2>12. FramesTrue'
    BY <2>1, <2>3, <2>5, <2>8, FrameKept DEF FramesTrue
  <2>. QED  BY <2>10, <2>11, <2>12 DEF TurnsInv
<1>. QED  BY <1>1, <1>2 DEF Finalize

LEMMA LogInjectionStep == ASSUME TurnsInv, NEW q \in Query, LogInjection(q) PROVE TurnsInv'
<1>1. CASE recall' = [recall EXCEPT ![q].pc = "failed"] /\ UNCHANGED log
  BY <1>1, RecallEnds DEF LogInjection
<1>2. ASSUME NEW x \in recall[q].todo,
             Appended([Entry("injection", q, recall[q].run) EXCEPT !.items = {x}]),
             recall' = [recall EXCEPT ![q].todo = @ \ {x}]
      PROVE  TurnsInv'
  <2>. DEFINE row == [recall[q] EXCEPT !.todo = @ \ {x}]
  <2>1. /\ recall \in [Query -> Recall] /\ recall[q] \in Recall /\ recall[q].pc = "log"
        /\ log \in Seq(Event) /\ UNCHANGED <<aged, present, act, told>>
        /\ act \in [Actor -> Frame]
    BY DEF LogInjection, TurnsInv, TypeOK
  <2>2. RecallFits(q)
    BY DEF TurnsInv, RecallsTrue
  <2>3. /\ x \in recall[q].vis /\ recall[q].arm = "assisted" /\ Recalled(q) /\ x \in Item
    BY <2>1, <2>2 DEF RecallFits, Recall
  <2>4. PICK e \in Event :
            /\ e = [Entry("injection", q, recall[q].run) EXCEPT !.items = {x}]
            /\ e.ev = "injection" /\ e.q = q /\ e.items = {x} /\ e.run = recall[q].run
    <3>0. PICK r \in RunId : r = recall[q].run
      BY <2>1 DEF Recall
    <3>. DEFINE base == Entry("injection", q, r)
                f == [base EXCEPT !.items = {x}]
    <3>2. base \in Event /\ base.ev = "injection" /\ base.q = q /\ base.run = recall[q].run
      BY <3>0 DEF Entry, Event, Strength, Arm
    <3>. HIDE DEF base
    <3>3. /\ f \in Event /\ f.ev = "injection" /\ f.q = q /\ f.items = {x}
          /\ f.run = recall[q].run
      BY <2>3, <3>2 DEF Event
    <3>. QED  BY <3>0, <3>3 DEF base
  <2>5. /\ row \in Recall /\ row.pc = "log" /\ row.arm = recall[q].arm
        /\ row.vis = recall[q].vis /\ row.run = recall[q].run /\ row.todo = recall[q].todo \ {x}
    BY <2>1 DEF Recall
  <2>6. log' = Append(log, e)
    BY <1>2, <2>4 DEF Appended
  <2>7. recall' = [recall EXCEPT ![q] = row]
    BY <1>2
  <2>. HIDE DEF row
  <2>8. /\ recall' \in [Query -> Recall] /\ recall'[q] = row
        /\ \A p \in Query : p # q => recall'[p] = recall[p]
    BY <2>1, <2>5, <2>7
  <2>9. KeepsRecalls
    BY <2>1, <2>5, <2>8 DEF KeepsRecalls, Logged
  <2>10. Recalled(q)' /\ Injected(q) \subseteq Injected(q)' /\ {x} \subseteq Injected(q)'
    <3>1. e.items \subseteq Injected(e.q)'
      BY <2>1, <2>4, <2>6, LogGrows
    <3>2. Recalled(q)' /\ Injected(q) \subseteq Injected(q)'
      BY <2>1, <2>3, <2>4, <2>6, LogGrows
    <3>. QED  BY <2>4, <3>1, <3>2
  <2>11. Fits(e)'
    BY <2>3, <2>4, <2>5, <2>8, <2>10 DEF Fits, Logged
  <2>12. TypeOK' /\ LogTrue' /\ RecalledOnce'
    BY <2>1, <2>4, <2>6, <2>8, <2>9, <2>11, EventLogged
  <2>13. RecallsTrue'
    <3>1. RecallFits(q)'
      BY <2>1, <2>2, <2>5, <2>8, <2>10 DEF RecallFits
    <3>2. \A p \in Query : p # q => RecallFits(p)'
      BY <2>4, <2>6, <2>8, RecallKept
    <3>. QED  BY <3>1, <3>2 DEF RecallsTrue
  <2>14. FramesTrue'
    BY <2>1, <2>4, <2>6, <2>9, FrameKept DEF FramesTrue
  <2>. QED  BY <2>12, <2>13, <2>14 DEF TurnsInv
<1>. QED  BY <1>1, <1>2 DEF LogInjection

\* A frame that is given up rests on nothing
LEMMA ReturnStep ==
    ASSUME TurnsInv, NEW a \in Actor, Return(a), UNCHANGED <<log, aged, present, recall, told>>
    PROVE  TurnsInv'
<1>1. /\ act' \in [Actor -> Frame] /\ act'[a] = Idle
      /\ \A b \in Actor : b # a => act'[b] = act[b]
      /\ told \subseteq Query /\ Len(log) \in Nat
  BY IdleFits DEF Return, TurnsInv, TypeOK
<1>2. FrameFits(a)'
  BY <1>1, IdleFits DEF FrameFits
<1>. QED  BY <1>1, <1>2, ActorMoves

\* What the inference may credit was injected in the run it reads
LEMMA CreditableInjected ==
    ASSUME TurnsInv, NEW r \in RunId, NEW p \in Creditable(r)
    PROVE  /\ p[1] \in Query /\ p[2] \in Item /\ p = <<p[1], p[2]>>
           /\ p[2] \in Injected(p[1])
           /\ r # NoRun => recall[p[1]].run = r
<1>1. PICK i \in Read("injection", r) : log[i].q = p[1] /\ log[i].items = {p[2]}
  BY DEF Creditable
<1>2. /\ i \in Position /\ log[i].ev = "injection"
      /\ r # NoRun => log[i].run = r
  BY <1>1 DEF Read, Oldest, Matching
<1>3. log \in Seq(Event) /\ log[i] \in Event /\ Fits(log[i]) /\ present \subseteq Item
  BY <1>2 DEF TurnsInv, TypeOK, LogTrue, Position
<1>4. p[1] \in Query /\ p[2] \in Item /\ p = <<p[1], p[2]>>
  <2>1. p \in {log[j].q : j \in {k \in Read("retrieval", r) : log[k].arm = "assisted"}}
              \X (present \ Fact)
    BY DEF Creditable
  <2>2. p[1] \in Query
    BY <1>1, <1>3 DEF Event
  <2>. QED  BY <1>3, <2>1, <2>2
<1>5. p[2] \in Injected(p[1])
  BY <1>1, <1>2, InjectedDef DEF Is
<1>6. r # NoRun => recall[p[1]].run = r
  BY <1>1, <1>2, <1>3 DEF Fits
<1>. QED  BY <1>4, <1>5, <1>6

LEMMA StopStep ==
    ASSUME TurnsInv, NEW a \in Actor, NEW r \in RunId, Stop(a, r) PROVE TurnsInv'
<1>1. PICK pairs \in SUBSET Creditable(r), allow \in BOOLEAN :
        act' = [act EXCEPT ![a] =
               [Idle EXCEPT !.pc = "use", !.stop = TRUE, !.run = r, !.pairs = pairs,
                            !.qs = {p[1] : p \in pairs}, !.allow = allow]]
  BY DEF Stop
<1>2. \A p \in pairs : /\ p[1] \in Query /\ p \in Query \X Item
                       /\ p[2] \in Injected(p[1])
                       /\ r # NoRun => recall[p[1]].run = r
  <2>. TAKE p \in pairs
  <2>1. p \in Creditable(r)
    BY <1>1
  <2>2. p[1] \in Query /\ p[2] \in Item /\ p = <<p[1], p[2]>>
    BY <2>1, CreditableInjected
  <2>3. p \in Query \X Item
    BY <2>2
  <2>4. p[2] \in Injected(p[1]) /\ (r # NoRun => recall[p[1]].run = r)
    BY <2>1, CreditableInjected
  <2>. QED  BY <2>2, <2>3, <2>4
<1>. DEFINE qs == {p[1] : p \in pairs}
            row == [Idle EXCEPT !.pc = "use", !.stop = TRUE, !.run = r, !.pairs = pairs,
                                !.qs = qs, !.allow = allow]
<1>3. qs \subseteq Query /\ \A q \in qs : Injected(q) # {} /\ (r # NoRun => recall[q].run = r)
  BY <1>2
<1>4. pairs \subseteq Query \X Item
  BY <1>2
<1>. HIDE DEF qs
<1>5. /\ row \in Frame /\ row.pc = "use" /\ row.stop = TRUE /\ row.run = r /\ row.pairs = pairs
      /\ row.qs = qs /\ row.cur = {} /\ row.at = 0
  BY <1>3, <1>4 DEF Idle, Frame, ActLabel
<1>6. act' = [act EXCEPT ![a] = row]
  BY <1>1 DEF qs
<1>. HIDE DEF row
<1>7. /\ act' \in [Actor -> Frame] /\ act'[a] = row
      /\ \A b \in Actor : b # a => act'[b] = act[b]
      /\ told \subseteq Query /\ Len(log) \in Nat
      /\ UNCHANGED <<log, aged, present, recall, told>>
  BY <1>5, <1>6 DEF Stop, TurnsInv, TypeOK
<1>8. FrameFits(a)'
  BY <1>2, <1>3, <1>5, <1>7, SameLog DEF FrameFits
<1>. QED  BY <1>7, <1>8, ActorMoves

LEMMA ReportStep ==
    ASSUME TurnsInv, NEW a \in Actor, NEW q \in Query, Report(a, q) PROVE TurnsInv'
<1>1. PICK named \in SUBSET Item, resolved \in BOOLEAN :
        /\ act' = [act EXCEPT ![a] =
               [Idle EXCEPT !.pc = "use", !.pairs = {q} \X ResolveUsed(named, q),
                            !.qs = {q}, !.resolved = resolved, !.run = recall[q].run]]
        /\ told' = IF resolved THEN told \cup {q} ELSE told
  BY DEF Report
<1>. DEFINE pairs == {q} \X ResolveUsed(named, q)
            row == [Idle EXCEPT !.pc = "use", !.pairs = pairs,
                                !.qs = {q}, !.resolved = resolved, !.run = recall[q].run]
<1>2. pairs \subseteq Query \X Item /\ \A p \in pairs : p[1] = q /\ p[2] \in Injected(q)
  BY DEF ResolveUsed
<1>3. recall[q].run \in RunId
  BY DEF TurnsInv, TypeOK, Recall
<1>. HIDE DEF pairs
<1>4. /\ row \in Frame /\ row.pc = "use" /\ row.stop = FALSE /\ row.pairs = pairs
      /\ row.qs = {q} /\ row.resolved = resolved /\ row.at = 0
  BY <1>2, <1>3 DEF Idle, Frame, ActLabel
<1>5. act' = [act EXCEPT ![a] = row]
  BY <1>1 DEF pairs
<1>. HIDE DEF row
<1>6. /\ act' \in [Actor -> Frame] /\ act'[a] = row
      /\ \A b \in Actor : b # a => act'[b] = act[b]
      /\ told \subseteq told' /\ told' \subseteq Query /\ Len(log) \in Nat
      /\ UNCHANGED <<log, aged, present, recall>>
      /\ resolved => q \in told'
  BY <1>1, <1>4, <1>5 DEF Report, TurnsInv, TypeOK
<1>7. FrameFits(a)'
  BY <1>2, <1>4, <1>6, SameLog DEF FrameFits
<1>. QED  BY <1>6, <1>7, ActorMoves

LEMMA EndUsesStep == ASSUME TurnsInv, NEW a \in Actor, EndUses(a) PROVE TurnsInv'
<1>1. CASE Return(a)
  BY <1>1, ReturnStep DEF EndUses
<1>2. ASSUME NEW l \in {"report", "check"}, Goto(a, l), l = "report" <=> ~act[a].stop
      PROVE  TurnsInv'
  <2>1. act[a] \in Frame /\ FrameFits(a)
    BY DEF TurnsInv, TypeOK, FramesTrue
  <2>. DEFINE row == [act[a] EXCEPT !.pc = l]
  <2>2. /\ row \in Frame /\ row.pc = l /\ row.stop = act[a].stop /\ row.run = act[a].run
        /\ row.pairs = act[a].pairs /\ row.qs = act[a].qs /\ row.cur = act[a].cur
        /\ row.resolved = act[a].resolved /\ row.at = act[a].at
    BY <2>1 DEF Frame, ActLabel
  <2>3. act' = [act EXCEPT ![a] = row]
    BY <1>2 DEF Goto
  <2>. HIDE DEF row
  <2>4. /\ act' \in [Actor -> Frame] /\ act'[a] = row
        /\ \A b \in Actor : b # a => act'[b] = act[b]
        /\ told \subseteq Query /\ UNCHANGED <<log, aged, present, recall, told>>
    BY <2>2, <2>3 DEF EndUses, TurnsInv, TypeOK
  <2>5. FrameFits(a)'
    BY <1>2, <2>1, <2>2, <2>4, SameLog DEF FrameFits
  <2>. QED  BY <2>4, <2>5, ActorMoves
<1>. QED  BY <1>1, <1>2 DEF EndUses

LEMMA CheckOutcomeStep ==
    ASSUME TurnsInv, NEW a \in Actor, NEW q \in Query, CheckOutcome(a, q) PROVE TurnsInv'
<1>1. /\ act[a] \in Frame /\ FrameFits(a) /\ Len(log) \in Nat /\ act[a].pc = "check"
      /\ q \in act[a].qs
  BY DEF CheckOutcome, TurnsInv, TypeOK, FramesTrue
<1>. DEFINE row == [act[a] EXCEPT !.qs = @ \ {q},
                          !.pc = IF NoPriorOutcome(q) THEN "infer" ELSE "check",
                          !.cur = IF NoPriorOutcome(q) THEN {q} ELSE {},
                          !.at = Len(log)]
<1>2. /\ row \in Frame /\ row.stop = act[a].stop /\ row.run = act[a].run
      /\ row.pairs = act[a].pairs /\ row.qs \subseteq act[a].qs /\ row.cur \subseteq {q}
      /\ row.resolved = act[a].resolved /\ row.at = Len(log)
      /\ row.pc \in {"infer", "check"}
      /\ row.cur # {} => NoPriorOutcome(q)
  BY <1>1 DEF Frame, ActLabel
<1>3. act' = [act EXCEPT ![a] = row]
  BY DEF CheckOutcome
<1>. HIDE DEF row
<1>4. /\ act' \in [Actor -> Frame] /\ act'[a] = row
      /\ \A b \in Actor : b # a => act'[b] = act[b]
      /\ told \subseteq Query /\ UNCHANGED <<log, aged, present, recall, told>>
  <2>1. UNCHANGED <<log, aged, present, recall, told>>
    BY DEF CheckOutcome
  <2>2. told \subseteq Query /\ act \in [Actor -> Frame]
    BY DEF TurnsInv, TypeOK
  <2>. QED  BY <1>2, <1>3, <2>1, <2>2
<1>5. \A p \in row.cur : Outcomes(p) = {}
  BY <1>2 DEF NoPriorOutcome
<1>6. FrameFits(a)'
  BY <1>1, <1>2, <1>4, <1>5, SameLog DEF FrameFits
<1>. QED  BY <1>4, <1>6, ActorMoves

LEMMA EmitUseStep == ASSUME TurnsInv, NEW a \in Actor, EmitUse(a) PROVE TurnsInv'
<1>1. PICK p \in act[a].pairs, strength \in (IF act[a].stop THEN Score ELSE {"explicit"}) :
        /\ Appended([Entry("used", p[1], act[a].run) EXCEPT
                        !.items = {p[2]}, !.strength = strength, !.inferred = act[a].stop])
        /\ act' = [act EXCEPT ![a].pairs = @ \ {p}]
  BY DEF EmitUse
<1>2. /\ act[a] \in Frame /\ FrameFits(a) /\ log \in Seq(Event) /\ act \in [Actor -> Frame]
      /\ recall \in [Query -> Recall] /\ act[a].pc = "use"
      /\ UNCHANGED <<aged, present, recall, told>>
  BY DEF EmitUse, TurnsInv, TypeOK, FramesTrue
<1>3. PICK r \in RunId, stop \in BOOLEAN : r = act[a].run /\ stop = act[a].stop
  BY <1>2 DEF Frame
<1>4. /\ strength \in Strength /\ p[1] \in Query /\ p[2] \in Item
      /\ p[2] \in Injected(p[1])
      /\ stop /\ r # NoRun => recall[p[1]].run = r
  BY <1>1, <1>2, <1>3, TurnsAssumption DEF Frame, FrameFits, Strength
<1>5. PICK e \in Event :
        /\ log' = Append(log, e) /\ e.ev = "used" /\ e.q = p[1] /\ e.run = r
        /\ e.items = {p[2]} /\ e.inferred = stop
  <2>. DEFINE base == Entry("used", p[1], r)
              f == [base EXCEPT !.items = {p[2]}, !.strength = strength, !.inferred = stop]
  <2>1. base \in Event /\ base.ev = "used" /\ base.q = p[1] /\ base.run = r
    BY <1>4 DEF Entry, Event, Strength, Arm
  <2>2. log' = Append(log, f)
    BY <1>1, <1>3 DEF Appended
  <2>. HIDE DEF base
  <2>3. /\ f \in Event /\ f.ev = "used" /\ f.q = p[1] /\ f.run = r
        /\ f.items = {p[2]} /\ f.inferred = stop
    BY <1>4, <2>1 DEF Event
  <2>. QED  BY <2>2, <2>3
<1>. DEFINE row == [act[a] EXCEPT !.pairs = @ \ {p}]
<1>6. /\ row \in Frame /\ row.pairs \subseteq act[a].pairs /\ row.qs = act[a].qs
      /\ row.cur = act[a].cur /\ row.stop = act[a].stop /\ row.run = act[a].run
      /\ row.at = act[a].at /\ row.resolved = act[a].resolved /\ row.pc = "use"
  BY <1>2 DEF Frame
<1>7. act' = [act EXCEPT ![a] = row]
  BY <1>1
<1>. HIDE DEF row
<1>8. /\ act' \in [Actor -> Frame] /\ act'[a] = row
      /\ \A b \in Actor : b # a => act'[b] = act[b]
  BY <1>2, <1>6, <1>7
<1>9. KeepsRecalls
  BY <1>2 DEF KeepsRecalls
<1>10. Fits(e)'
  <2>1. {p[2]} \subseteq Injected(p[1])'
    BY <1>2, <1>4, <1>5, LogGrows
  <2>. QED  BY <1>2, <1>4, <1>5, <2>1 DEF Fits
<1>11. TypeOK' /\ LogTrue' /\ RecalledOnce'
  BY <1>2, <1>5, <1>8, <1>9, <1>10, EventLogged
<1>12. RecallsTrue'
  BY <1>2, <1>5, RecallKept DEF RecallsTrue
<1>13. FramesTrue'
  <2>1. FrameFits(a)'
    <3>1. /\ \A q : Injected(q) \subseteq Injected(q)'
          /\ act[a].at <= Len(log')
      BY <1>2, <1>5, LogGrows DEF FrameFits, Frame
    <3>. QED  BY <1>2, <1>6, <1>8, <3>1 DEF FrameFits
  <2>2. \A b \in Actor : b # a => FrameFits(b)'
    BY <1>2, <1>5, <1>8, <1>9, FrameKept
  <2>. QED  BY <2>1, <2>2 DEF FramesTrue
<1>. QED  BY <1>11, <1>12, <1>13 DEF TurnsInv

\* An outcome is appended and its frame is left with less to do
LEMMA OutcomeLogged ==
    ASSUME TurnsInv, NEW a \in Actor, NEW e \in Event, log' = Append(log, e), e.ev = "outcome",
           Fits(e)', act' \in [Actor -> Frame], \A b \in Actor : b # a => act'[b] = act[b],
           FrameFits(a)', UNCHANGED <<aged, present, recall, told>>
    PROVE  TurnsInv'
<1>1. recall \in [Query -> Recall] /\ KeepsRecalls
  BY DEF TurnsInv, TypeOK, KeepsRecalls
<1>2. TypeOK' /\ LogTrue' /\ RecalledOnce'
  BY <1>1, EventLogged
<1>3. RecallsTrue'
  BY RecallKept DEF RecallsTrue
<1>4. FramesTrue'
  <2>1. \A b \in Actor : b # a => FrameFits(b)'
    BY <1>1, FrameKept
  <2>. QED  BY <2>1 DEF FramesTrue
<1>. QED  BY <1>2, <1>3, <1>4 DEF TurnsInv

LEMMA EmitInferredStep == ASSUME TurnsInv, NEW a \in Actor, EmitInferred(a) PROVE TurnsInv'
<1>1. PICK q \in act[a].cur : Appended(Soft(q, act[a].run))
  BY DEF EmitInferred
<1>2. /\ act[a] \in Frame /\ FrameFits(a) /\ log \in Seq(Event) /\ act \in [Actor -> Frame]
      /\ act[a].pc = "infer" /\ UNCHANGED <<aged, present, recall, told>>
      /\ act' = [act EXCEPT ![a].pc = "check", ![a].cur = {}]
  BY DEF EmitInferred, TurnsInv, TypeOK, FramesTrue
<1>3. PICK r \in RunId : r = act[a].run
  BY <1>2 DEF Frame
<1>4. /\ q \in Query /\ act[a].stop /\ Injected(q) # {}
      /\ r # NoRun => recall[q].run = r
  BY <1>1, <1>2, <1>3 DEF Frame, FrameFits
<1>5. PICK e \in Event :
        /\ log' = Append(log, e) /\ e.ev = "outcome" /\ e.q = q /\ e.run = r /\ e.inferred = TRUE
  <2>. DEFINE f == Soft(q, r)
  <2>1. f \in Event /\ f.ev = "outcome" /\ f.q = q /\ f.run = r /\ f.inferred = TRUE
    BY <1>4 DEF Soft, Entry, Event, Strength, Arm
  <2>2. log' = Append(log, f)
    BY <1>1, <1>3 DEF Appended
  <2>. QED  BY <2>1, <2>2
<1>. DEFINE row == [act[a] EXCEPT !.pc = "check", !.cur = {}]
<1>6. /\ row \in Frame /\ row.pairs = act[a].pairs /\ row.qs = act[a].qs
      /\ row.cur = {} /\ row.stop = act[a].stop /\ row.run = act[a].run
      /\ row.at = act[a].at /\ row.resolved = act[a].resolved /\ row.pc = "check"
  BY <1>2 DEF Frame, ActLabel
<1>7. act' = [act EXCEPT ![a] = row]
  BY <1>2
<1>. HIDE DEF row
<1>8. /\ act' \in [Actor -> Frame] /\ act'[a] = row
      /\ \A b \in Actor : b # a => act'[b] = act[b]
  BY <1>2, <1>6, <1>7
<1>9. Fits(e)'
  <2>1. Injected(q)' # {}
    BY <1>2, <1>4, <1>5, LogGrows
  <2>. QED  BY <1>2, <1>4, <1>5, <2>1 DEF Fits
<1>10. FrameFits(a)'
  BY <1>2, <1>4, <1>5, <1>6, <1>8, FrameNarrows
<1>. QED  BY <1>2, <1>5, <1>8, <1>9, <1>10, OutcomeLogged

LEMMA EmitOutcomeStep == ASSUME TurnsInv, NEW a \in Actor, EmitOutcome(a) PROVE TurnsInv'
<1>1. PICK q \in act[a].qs :
        Appended([Entry("outcome", q, act[a].run) EXCEPT !.resolved = act[a].resolved])
  BY DEF EmitOutcome
<1>2. /\ act[a] \in Frame /\ FrameFits(a) /\ log \in Seq(Event) /\ act \in [Actor -> Frame]
      /\ act[a].pc = "report" /\ UNCHANGED <<aged, present, recall, told>>
      /\ act' = [act EXCEPT ![a] = Idle]
  BY DEF EmitOutcome, Return, TurnsInv, TypeOK, FramesTrue
<1>3. PICK r \in RunId, resolved \in BOOLEAN : r = act[a].run /\ resolved = act[a].resolved
  BY <1>2 DEF Frame
<1>4. q \in Query /\ (resolved => q \in told)
  BY <1>1, <1>2, <1>3 DEF Frame, FrameFits
<1>5. PICK e \in Event :
        /\ log' = Append(log, e) /\ e.ev = "outcome" /\ e.q = q /\ e.inferred = FALSE
        /\ e.resolved = resolved
  <2>. DEFINE base == Entry("outcome", q, r)
              f == [base EXCEPT !.resolved = resolved]
  <2>1. base \in Event /\ base.ev = "outcome" /\ base.q = q /\ base.inferred = FALSE
    BY <1>4 DEF Entry, Event, Strength, Arm
  <2>2. log' = Append(log, f)
    BY <1>1, <1>3 DEF Appended
  <2>. HIDE DEF base
  <2>3. f \in Event /\ f.ev = "outcome" /\ f.q = q /\ f.inferred = FALSE /\ f.resolved = resolved
    BY <2>1 DEF Event
  <2>. QED  BY <2>2, <2>3
<1>6. /\ act' \in [Actor -> Frame] /\ act'[a] = Idle
      /\ \A b \in Actor : b # a => act'[b] = act[b]
  BY <1>2, IdleFits
<1>7. Fits(e)'
  BY <1>2, <1>4, <1>5 DEF Fits
<1>8. FrameFits(a)'
  <2>1. Len(log') \in Nat
    BY <1>2, <1>5, LogGrows
  <2>. QED  BY <1>6, <2>1, IdleFits DEF FrameFits
<1>. QED  BY <1>2, <1>5, <1>6, <1>7, <1>8, OutcomeLogged

LEMMA OtherStep ==
    ASSUME TurnsInv, Age \/ (\E x \in Item : Erase(x)) \/ UNCHANGED vars PROVE TurnsInv'
<1>1. TypeOK'
  BY DEF TurnsInv, TypeOK, Age, Erase, vars
<1>2. UNCHANGED <<log, recall, act, told>>
  BY DEF Age, Erase, vars
<1>3. LogTrue' /\ RecalledOnce'
  BY <1>2, SameLog DEF TurnsInv, LogTrue, Fits, RecalledOnce
<1>4. RecallsTrue' /\ FramesTrue'
  BY <1>2, SameLog DEF TurnsInv, RecallsTrue, RecallFits, FramesTrue, FrameFits
<1>. QED  BY <1>1, <1>3, <1>4 DEF TurnsInv

LEMMA TurnsStep == TurnsInv /\ [Next]_vars => TurnsInv'
<1>. SUFFICES ASSUME TurnsInv, [Next]_vars PROVE TurnsInv'
  OBVIOUS
<1>1. ASSUME NEW q \in Query, RecallNext(q) PROVE TurnsInv'
  <2>1. CASE \E r \in RunId : Search(q, r)
    BY <2>1, SearchStep
  <2>2. CASE Finalize(q)
    BY <2>2, FinalizeStep
  <2>3. CASE LogInjection(q)
    BY <2>3, LogInjectionStep
  <2>4. CASE Show(q)
    BY <2>4, RecallEnds DEF Show, Answered
  <2>5. CASE DieInRecall(q)
    BY <2>5, RecallEnds DEF DieInRecall
  <2>. QED  BY <1>1, <2>1, <2>2, <2>3, <2>4, <2>5 DEF RecallNext
<1>2. ASSUME NEW a \in Actor, ActorNext(a) PROVE TurnsInv'
  <2>1. CASE \E r \in RunId : Stop(a, r)
    BY <2>1, StopStep
  <2>2. CASE \E q \in Query : Report(a, q)
    BY <2>2, ReportStep
  <2>3. CASE EmitUse(a)
    BY <2>3, EmitUseStep
  <2>4. CASE EndUses(a)
    BY <2>4, EndUsesStep
  <2>5. CASE \E q \in Query : CheckOutcome(a, q)
    BY <2>5, CheckOutcomeStep
  <2>6. CASE EndChecks(a) \/ DieActor(a)
    BY <2>6, ReturnStep DEF EndChecks, DieActor
  <2>7. CASE EmitInferred(a)
    BY <2>7, EmitInferredStep
  <2>8. CASE EmitOutcome(a)
    BY <2>8, EmitOutcomeStep
  <2>. QED  BY <1>2, <2>1, <2>2, <2>3, <2>4, <2>5, <2>6, <2>7, <2>8 DEF ActorNext
<1>3. CASE Age \/ (\E x \in Item : Erase(x)) \/ UNCHANGED vars
  BY <1>3, OtherStep
<1>. QED  BY <1>1, <1>2, <1>3 DEF Next

LEMMA TurnsInvariant == Spec => []TurnsInv
BY InitTurnsInv, TurnsStep, PTL DEF Spec

-----------------------------------------------------------------------------
(* The theorems *)

LEMMA HoldoutLemma == TurnsInv => HoldoutIsClean
<1>. SUFFICES ASSUME TurnsInv, NEW q \in Query, Eligible(q), ArmOf(q) = "holdout"
              PROVE  /\ Recalled(q) /\ Injected(q) = {} /\ q \notin HelpfulRuns
                     /\ \A i \in Uses(q) \cup Outcomes(q) : ~log[i].inferred
  BY DEF HoldoutIsClean
<1>1. \A i \in Position : Fits(log[i])
  BY DEF TurnsInv, LogTrue
<1>2. PICK i \in Position : Is(i, "retrieval", q)
  BY DEF Eligible
<1>3. \A j \in Position : Is(j, "retrieval", q) => j = i
  BY <1>2 DEF Is, TurnsInv, RecalledOnce
<1>4. ArmOf(q) = log[i].arm
  <2>1. {j \in Position : Is(j, "retrieval", q)} = {i}
    BY <1>2, <1>3
  <2>2. i <= i
    BY <1>2 DEF Position, TurnsInv, TypeOK
  <2>3. (CHOOSE k \in {i} : \A j \in {i} : j <= k) = i
    BY <2>2
  <2>. QED  BY <2>1, <2>3 DEF ArmOf
<1>5. recall[q].arm = "holdout" /\ log[i].items # {}
  BY <1>1, <1>2, <1>4 DEF Fits, Is
<1>6. Recalled(q)
  BY <1>2, <1>5 DEF Recalled
<1>7. Injected(q) = {}
  BY <1>5, InjectedAssisted
<1>8. q \notin HelpfulRuns
  BY <1>7 DEF HelpfulRuns, Helpful
<1>9. \A j \in Uses(q) : FALSE
  BY <1>1, <1>7 DEF Uses, Is, Fits
<1>10. \A j \in Outcomes(q) : ~log[j].inferred
  BY <1>1, <1>7 DEF Outcomes, Is, Fits
<1>. QED  BY <1>6, <1>7, <1>8, <1>9, <1>10

LEMMA FunnelLemma == TurnsInv => FunnelNarrows
<1>. SUFFICES ASSUME TurnsInv PROVE FunnelNarrows
  OBVIOUS
<1>1. VerifiedRuns \subseteq HelpfulRuns
  BY DEF VerifiedRuns
<1>2. HelpfulRuns \subseteq UsedRuns
  BY DEF HelpfulRuns, UsedRuns, Helpful, Proven, Used
<1>3. UsedRuns \subseteq InjectedRuns
  BY DEF UsedRuns, InjectedRuns, Used, Uses, Is, TurnsInv, LogTrue, Fits
<1>4. \A q \in InjectedRuns : Recalled(q)
  BY InjectedAssisted DEF InjectedRuns
<1>. QED  BY <1>1, <1>2, <1>3, <1>4 DEF FunnelNarrows

LEMMA LeastNat ==
    ASSUME NEW T \in SUBSET Nat, T # {} PROVE \E x \in T : \A y \in T : x <= y
<1>. DEFINE R == OpToRel(<, Nat)
<1>1. R = {ss \in Nat \X Nat : ss[1] < ss[2]}
  BY DEF OpToRel
<1>2. IsWellFoundedOn(R, Nat)
  BY NatLessThanWellFounded
<1>. HIDE DEF R
<1>3. PICK x \in T : \A y \in T : ~(<<y, x>> \in R)
  BY <1>2, WFMin
<1>4. \A y \in T : ~(y < x)
  BY <1>1, <1>3
<1>. QED  BY <1>4

\* The last outcome is one of them: the log ends
LEMMA LastOutcomeIsOne ==
    ASSUME TurnsInv, NEW q, Outcomes(q) # {}
    PROVE  \E i \in Outcomes(q) : LastOutcome(q) = log[i]
<1>. DEFINE S == Outcomes(q)
            T == {Len(log) - i : i \in S}
<1>1. /\ log \in Seq(Event) /\ Len(log) \in Nat
      /\ S \subseteq 1 .. Len(log)
  BY DEF Outcomes, Position, TurnsInv, TypeOK
<1>2. T \in SUBSET Nat /\ T # {}
  BY <1>1
<1>3. PICK x \in T : \A y \in T : x <= y
  BY <1>2, LeastNat
<1>4. PICK i \in S : x = Len(log) - i
  BY <1>3
<1>5. \A j \in S : j <= i
  <2>. TAKE j \in S
  <2>1. Len(log) - i <= Len(log) - j
    BY <1>3, <1>4
  <2>. QED  BY <1>1, <2>1
<1>. QED  BY <1>5 DEF LastOutcome

LEMMA VerifiedLemma == TurnsInv => VerifiedMeansReported
<1>. SUFFICES ASSUME TurnsInv, NEW q \in VerifiedRuns PROVE q \in told
  BY DEF VerifiedMeansReported
<1>1. Outcomes(q) # {} /\ LastOutcome(q).resolved /\ ~LastOutcome(q).inferred
  BY DEF VerifiedRuns, HelpfulRuns, Helpful, Resolved, Explicit
<1>2. PICK i \in Outcomes(q) : LastOutcome(q) = log[i]
  BY <1>1, LastOutcomeIsOne
<1>. QED  BY <1>1, <1>2 DEF Outcomes, Is, TurnsInv, LogTrue, Fits

LEMMA ShownLemma == TurnsInv => ShownIsLogged
BY DEF TurnsInv, RecallsTrue, RecallFits, ShownIsLogged

LEMMA HelpfulLemma == TurnsInv => HelpfulWasShown
<1>. SUFFICES ASSUME TurnsInv, NEW q \in Query, NEW x \in Item, Helpful(q, x)
              PROVE  recall[q].arm = "assisted" /\ x \in recall[q].vis
  BY DEF HelpfulWasShown
<1>. QED  BY InjectedAssisted DEF Helpful

LEMMA CreditLemma == TurnsInv => CreditStaysInRun
BY DEF TurnsInv, LogTrue, Fits, CreditStaysInRun

LEMMA RacersLemma == TurnsInv => OverridesOnlyRacers
BY DEF TurnsInv, FramesTrue, FrameFits, OverridesOnlyRacers

\* The log only ever holds events of the emitters' shapes, and the frames keep
\* their types.
THEOREM TurnsTyped == Spec => []TypeOK
BY TurnsInvariant, PTL DEF TurnsInv

\* Whatever is shown is in the log, for any number of recalls, whichever of
\* their appends fail (recordRecallEvents of runtime/recall.ts).
THEOREM WhatIsShownIsLogged == Spec => []ShownIsLogged
BY TurnsInvariant, ShownLemma, PTL

\* No item is counted as helpful for a query that did not put it in the prompt,
\* whatever any number of reports and transcripts claim (computeAggregates).
THEOREM WhatHelpedWasShown == Spec => []HelpfulWasShown
BY TurnsInvariant, HelpfulLemma, PTL

\* The control arm is clean, whatever actors infer and report (finalizeRecall,
\* inferAgentUsedFromTranscript, computeAggregates).
THEOREM ControlArmIsClean == Spec => []HoldoutIsClean
BY TurnsInvariant, HoldoutLemma, PTL

\* Only a reported success verifies a run (the attribution of outcome events).
THEOREM VerdictsAreReported == Spec => []VerifiedMeansReported
BY TurnsInvariant, VerifiedLemma, PTL

\* The funnel narrows at every moment (computeAggregates).
THEOREM FunnelAlwaysNarrows == Spec => []FunnelNarrows
BY TurnsInvariant, FunnelLemma, PTL

\* Inferred credit never crosses from one run to another
\* (inferAgentUsedFromTranscript).
THEOREM CreditNeverCrosses == Spec => []CreditStaysInRun
BY TurnsInvariant, CreditLemma, PTL

\* An inferred verdict only ever overrides one that raced with it, for any
\* number of hooks and reports (attribution-inference.ts).
THEOREM OnlyRacersAreOverridden == Spec => []OverridesOnlyRacers
BY TurnsInvariant, RacersLemma, PTL

-----------------------------------------------------------------------------
(***************************************************************************)
(* Fractions.                                                              *)
(***************************************************************************)
LEMMA TimesUp ==
    ASSUME NEW x \in Int, NEW y \in Int, x <= y, NEW c \in Nat
    PROVE  x * c <= y * c
<1>1. PICK d \in Nat : y = x + d
  <2>1. y - x \in Nat /\ y = x + (y - x)
    OBVIOUS
  <2>. QED  BY <2>1
<1>2. d * c \in Nat
  OBVIOUS
<1>3. y * c = x * c + d * c
  BY <1>1
<1>4. x * c \in Int
  OBVIOUS
<1>. QED  BY <1>2, <1>3, <1>4

LEMMA TimesDown ==
    ASSUME NEW x \in Int, NEW y \in Int, NEW c \in Nat \ {0}, x * c <= y * c
    PROVE  x <= y
<1>. SUFFICES ASSUME y < x PROVE FALSE
  OBVIOUS
<1>1. y + 1 <= x /\ y + 1 \in Int /\ c \in Nat
  OBVIOUS
<1>2. (y + 1) * c <= x * c
  BY <1>1, TimesUp
<1>3. (y + 1) * c = y * c + c
  OBVIOUS
<1>4. y * c \in Int /\ x * c \in Int /\ c > 0
  OBVIOUS
<1>. QED  BY <1>2, <1>3, <1>4

LEMMA RatioTrans ==
    ASSUME NEW a \in Int, NEW b \in Int, NEW c \in Int,
           NEW p \in Nat \ {0}, NEW q \in Nat \ {0}, NEW r \in Nat \ {0},
           a * q <= b * p, b * r <= c * q
    PROVE  a * r <= c * p
<1>1. (a * q) * r <= (b * p) * r
  <2>1. a * q \in Int /\ b * p \in Int /\ r \in Nat
    OBVIOUS
  <2>. QED  BY <2>1, TimesUp
<1>2. (b * r) * p <= (c * q) * p
  <2>1. b * r \in Int /\ c * q \in Int /\ p \in Nat
    OBVIOUS
  <2>. QED  BY <2>1, TimesUp
<1>3. (b * p) * r = (b * r) * p
  OBVIOUS
<1>4. (a * r) * q = (a * q) * r /\ (c * p) * q = (c * q) * p
  OBVIOUS
<1>5. /\ a * r \in Int /\ c * p \in Int
      /\ (a * q) * r \in Int /\ (b * p) * r \in Int /\ (c * q) * p \in Int
  OBVIOUS
<1>6. (a * r) * q <= (c * p) * q
  BY <1>1, <1>2, <1>3, <1>4, <1>5
<1>. QED  BY <1>5, <1>6, TimesDown

Frac == Int \X (Nat \ {0})

LEMMA FracIs ==
    ASSUME NEW a \in Frac
    PROVE  a = <<a[1], a[2]>> /\ a[1] \in Int /\ a[2] \in Nat \ {0}
BY DEF Frac

LEMMA LeqTrans ==
    ASSUME NEW a \in Frac, NEW b \in Frac, NEW c \in Frac, Leq(a, b), Leq(b, c)
    PROVE  Leq(a, c)
<1>1. /\ a[1] \in Int /\ b[1] \in Int /\ c[1] \in Int
      /\ a[2] \in Nat \ {0} /\ b[2] \in Nat \ {0} /\ c[2] \in Nat \ {0}
  BY FracIs
<1>2. a[1] * b[2] <= b[1] * a[2] /\ b[1] * c[2] <= c[1] * b[2]
  BY DEF Leq
<1>3. a[1] * c[2] <= c[1] * a[2]
  BY <1>1, <1>2, RatioTrans
<1>. QED  BY <1>3 DEF Leq

LEMMA LeqTotal ==
    ASSUME NEW a \in Frac, NEW b \in Frac
    PROVE  Leq(a, a) /\ (Leq(a, b) \/ Leq(b, a))
<1>1. a[1] \in Int /\ b[1] \in Int /\ a[2] \in Int /\ b[2] \in Int
  BY FracIs
<1>2. a[1] * b[2] \in Int /\ b[1] * a[2] \in Int /\ a[1] * a[2] \in Int
  BY <1>1
<1>. QED  BY <1>2 DEF Leq

LEMMA MinusIs ==
    ASSUME NEW a \in Frac, NEW b \in Frac
    PROVE  /\ Minus(a, b) \in Frac
           /\ Leq(b, a) => Minus(a, b)[1] >= 0
           /\ ~Leq(a, b) => Minus(a, b)[1] > 0
<1>1. PICK an \in Int, ad \in Nat \ {0} : a[1] = an /\ a[2] = ad
  BY FracIs
<1>2. PICK bn \in Int, bd \in Nat \ {0} : b[1] = bn /\ b[2] = bd
  BY FracIs
<1>3. Minus(a, b) = <<an * bd - bn * ad, ad * bd>>
  BY <1>1, <1>2 DEF Minus
<1>4. an * bd \in Int /\ bn * ad \in Int /\ ad * bd \in Nat \ {0}
  OBVIOUS
<1>5. Leq(b, a) <=> bn * ad <= an * bd
  BY <1>1, <1>2 DEF Leq
<1>6. Leq(a, b) <=> an * bd <= bn * ad
  BY <1>1, <1>2 DEF Leq
<1>. HIDE DEF Leq
<1>7. Minus(a, b)[1] = an * bd - bn * ad /\ an * bd - bn * ad \in Int
  BY <1>3, <1>4
<1>8. Minus(a, b) \in Frac
  BY <1>3, <1>4 DEF Frac
<1>. QED  BY <1>4, <1>5, <1>6, <1>7, <1>8

LEMMA PlusIs == ASSUME NEW a \in Frac, NEW b \in Frac PROVE Plus(a, b) \in Frac
<1>1. PICK an \in Int, ad \in Nat \ {0} : a[1] = an /\ a[2] = ad
  BY FracIs
<1>2. PICK bn \in Int, bd \in Nat \ {0} : b[1] = bn /\ b[2] = bd
  BY FracIs
<1>3. Plus(a, b) = <<an * bd + bn * ad, ad * bd>>
  BY <1>1, <1>2 DEF Plus
<1>4. an * bd \in Int /\ bn * ad \in Int /\ ad * bd \in Nat \ {0}
  OBVIOUS
<1>. QED  BY <1>3, <1>4 DEF Frac

LEMMA TimesIs ==
    ASSUME NEW a \in Frac, NEW b \in Frac
    PROVE  /\ Times(a, b) \in Frac
           /\ a[1] >= 0 /\ b[1] >= 0 => Times(a, b)[1] >= 0
<1>1. PICK an \in Int, ad \in Nat \ {0} : a[1] = an /\ a[2] = ad
  BY FracIs
<1>2. PICK bn \in Int, bd \in Nat \ {0} : b[1] = bn /\ b[2] = bd
  BY FracIs
<1>3. Times(a, b) = <<an * bn, ad * bd>>
  BY <1>1, <1>2 DEF Times
<1>4. an * bn \in Int /\ ad * bd \in Nat \ {0} /\ (an >= 0 /\ bn >= 0 => an * bn >= 0)
  OBVIOUS
<1>. QED  BY <1>1, <1>2, <1>3, <1>4 DEF Frac

LEMMA OverIs ==
    ASSUME NEW a \in Frac, NEW b \in Frac, b[1] > 0
    PROVE  /\ Over(a, b) \in Frac /\ (a[1] >= 0 => Over(a, b)[1] >= 0)
<1>1. PICK an \in Int, ad \in Nat \ {0} : a[1] = an /\ a[2] = ad
  BY FracIs
<1>2. PICK bn \in Nat \ {0}, bd \in Nat \ {0} : b[1] = bn /\ b[2] = bd
  BY FracIs
<1>3. Over(a, b) = <<an * bd, ad * bn>>
  BY <1>1, <1>2 DEF Over
<1>4. an * bd \in Int /\ ad * bn \in Nat \ {0} /\ (an >= 0 => an * bd >= 0)
  OBVIOUS
<1>. QED  BY <1>1, <1>3, <1>4 DEF Frac
LEMMA MinusUp ==
    ASSUME NEW a \in Frac, NEW b \in Frac, NEW c \in Frac, Leq(a, b)
    PROVE  Leq(Minus(a, c), Minus(b, c))
<1>1. PICK an \in Int, ad \in Nat \ {0} : a[1] = an /\ a[2] = ad
  BY FracIs
<1>2. PICK bn \in Int, bd \in Nat \ {0} : b[1] = bn /\ b[2] = bd
  BY FracIs
<1>3. PICK cn \in Int, cd \in Nat \ {0} : c[1] = cn /\ c[2] = cd
  BY FracIs
<1>4. an * bd <= bn * ad
  BY <1>1, <1>2 DEF Leq
<1>5. (an * bd) * (cd * cd) <= (bn * ad) * (cd * cd)
  <2>1. an * bd \in Int /\ bn * ad \in Int /\ cd * cd \in Nat
    OBVIOUS
  <2>. QED  BY <1>4, <2>1, TimesUp
<1>6. (an * cd - cn * ad) * (bd * cd) = (an * bd) * (cd * cd) - (cn * ad) * (bd * cd)
  OBVIOUS
<1>7. (bn * cd - cn * bd) * (ad * cd) = (bn * ad) * (cd * cd) - (cn * ad) * (bd * cd)
  OBVIOUS
<1>8. /\ (an * bd) * (cd * cd) \in Int /\ (bn * ad) * (cd * cd) \in Int
      /\ (cn * ad) * (bd * cd) \in Int
  OBVIOUS
<1>9. (an * cd - cn * ad) * (bd * cd) <= (bn * cd - cn * bd) * (ad * cd)
  BY <1>5, <1>6, <1>7, <1>8
<1>10. Minus(a, c) = <<an * cd - cn * ad, ad * cd>> /\ Minus(b, c) = <<bn * cd - cn * bd, bd * cd>>
  BY <1>1, <1>2, <1>3 DEF Minus
<1>. QED  BY <1>9, <1>10 DEF Leq

LEMMA PlusUp ==
    ASSUME NEW a \in Frac, NEW b \in Frac, NEW c \in Frac, Leq(a, b)
    PROVE  Leq(Plus(c, a), Plus(c, b))
<1>1. PICK an \in Int, ad \in Nat \ {0} : a[1] = an /\ a[2] = ad
  BY FracIs
<1>2. PICK bn \in Int, bd \in Nat \ {0} : b[1] = bn /\ b[2] = bd
  BY FracIs
<1>3. PICK cn \in Int, cd \in Nat \ {0} : c[1] = cn /\ c[2] = cd
  BY FracIs
<1>4. an * bd <= bn * ad
  BY <1>1, <1>2 DEF Leq
<1>5. (an * bd) * (cd * cd) <= (bn * ad) * (cd * cd)
  <2>1. an * bd \in Int /\ bn * ad \in Int /\ cd * cd \in Nat
    OBVIOUS
  <2>. QED  BY <1>4, <2>1, TimesUp
<1>6. (cn * ad + an * cd) * (cd * bd) = (cn * ad) * (cd * bd) + (an * bd) * (cd * cd)
  OBVIOUS
<1>7. (cn * bd + bn * cd) * (cd * ad) = (cn * ad) * (cd * bd) + (bn * ad) * (cd * cd)
  OBVIOUS
<1>8. /\ (an * bd) * (cd * cd) \in Int /\ (bn * ad) * (cd * cd) \in Int
      /\ (cn * ad) * (cd * bd) \in Int
  OBVIOUS
<1>9. (cn * ad + an * cd) * (cd * bd) <= (cn * bd + bn * cd) * (cd * ad)
  BY <1>5, <1>6, <1>7, <1>8
<1>10. Plus(c, a) = <<cn * ad + an * cd, cd * ad>> /\ Plus(c, b) = <<cn * bd + bn * cd, cd * bd>>
  BY <1>1, <1>2, <1>3 DEF Plus
<1>. QED  BY <1>9, <1>10 DEF Leq

LEMMA ProductUp ==
    ASSUME NEW a \in Frac, NEW b \in Frac, NEW c \in Frac, Leq(a, b), c[1] >= 0
    PROVE  Leq(Times(a, c), Times(b, c))
<1>1. PICK an \in Int, ad \in Nat \ {0} : a[1] = an /\ a[2] = ad
  BY FracIs
<1>2. PICK bn \in Int, bd \in Nat \ {0} : b[1] = bn /\ b[2] = bd
  BY FracIs
<1>3. PICK cn \in Nat, cd \in Nat \ {0} : c[1] = cn /\ c[2] = cd
  <2>1. c[1] \in Nat
    BY FracIs
  <2>. QED  BY <2>1, FracIs
<1>4. an * bd <= bn * ad
  BY <1>1, <1>2 DEF Leq
<1>5. (an * bd) * (cn * cd) <= (bn * ad) * (cn * cd)
  <2>1. an * bd \in Int /\ bn * ad \in Int /\ cn * cd \in Nat
    OBVIOUS
  <2>. QED  BY <1>4, <2>1, TimesUp
<1>6. (an * cn) * (bd * cd) = (an * bd) * (cn * cd)
  OBVIOUS
<1>7. (bn * cn) * (ad * cd) = (bn * ad) * (cn * cd)
  OBVIOUS
<1>8. (an * cn) * (bd * cd) <= (bn * cn) * (ad * cd)
  BY <1>5, <1>6, <1>7
<1>9. Times(a, c) = <<an * cn, ad * cd>> /\ Times(b, c) = <<bn * cn, bd * cd>>
  BY <1>1, <1>2, <1>3 DEF Times
<1>. QED  BY <1>8, <1>9 DEF Leq

LEMMA OverUp ==
    ASSUME NEW a \in Frac, NEW b \in Frac, NEW c \in Frac, Leq(a, b), c[1] > 0
    PROVE  Leq(Over(a, c), Over(b, c))
<1>1. PICK an \in Int, ad \in Nat \ {0} : a[1] = an /\ a[2] = ad
  BY FracIs
<1>2. PICK bn \in Int, bd \in Nat \ {0} : b[1] = bn /\ b[2] = bd
  BY FracIs
<1>3. PICK cn \in Nat, cd \in Nat \ {0} : c[1] = cn /\ c[2] = cd
  <2>1. c[1] \in Nat
    BY FracIs
  <2>. QED  BY <2>1, FracIs
<1>4. an * bd <= bn * ad
  BY <1>1, <1>2 DEF Leq
<1>5. (an * bd) * (cn * cd) <= (bn * ad) * (cn * cd)
  <2>1. an * bd \in Int /\ bn * ad \in Int /\ cn * cd \in Nat
    OBVIOUS
  <2>. QED  BY <1>4, <2>1, TimesUp
<1>6. (an * cd) * (bd * cn) = (an * bd) * (cn * cd)
  OBVIOUS
<1>7. (bn * cd) * (ad * cn) = (bn * ad) * (cn * cd)
  OBVIOUS
<1>8. (an * cd) * (bd * cn) <= (bn * cd) * (ad * cn)
  BY <1>5, <1>6, <1>7
<1>9. Over(a, c) = <<an * cd, ad * cn>> /\ Over(b, c) = <<bn * cd, bd * cn>>
  BY <1>1, <1>2, <1>3 DEF Over
<1>. QED  BY <1>8, <1>9 DEF Leq

LEMMA PlusMore ==
    ASSUME NEW a \in Frac, NEW b \in Frac, b[1] >= 0
    PROVE  Leq(a, Plus(a, b))
<1>1. PICK an \in Int, ad \in Nat \ {0} : a[1] = an /\ a[2] = ad
  BY FracIs
<1>2. PICK bn \in Nat, bd \in Nat \ {0} : b[1] = bn /\ b[2] = bd
  <2>1. b[1] \in Nat
    BY FracIs
  <2>. QED  BY <2>1, FracIs
<1>3. Plus(a, b) = <<an * bd + bn * ad, ad * bd>>
  BY <1>1, <1>2 DEF Plus
<1>4. (an * bd + bn * ad) * ad = an * (ad * bd) + (bn * ad) * ad
  OBVIOUS
<1>5. (bn * ad) * ad \in Nat /\ an * (ad * bd) \in Int
  OBVIOUS
<1>6. an * (ad * bd) <= (an * bd + bn * ad) * ad
  BY <1>4, <1>5
<1>. QED  BY <1>1, <1>3, <1>6 DEF Leq

\* All the way from a to b is b
LEMMA WholeWay ==
    ASSUME NEW a \in Frac, NEW b \in Frac, NEW v \in Frac, v[1] > 0
    PROVE  Leq(Plus(a, Times(Over(v, v), Minus(b, a))), b)
<1>1. PICK an \in Int, ad \in Nat \ {0} : a[1] = an /\ a[2] = ad
  BY FracIs
<1>2. PICK bn \in Int, bd \in Nat \ {0} : b[1] = bn /\ b[2] = bd
  BY FracIs
<1>3. PICK vn \in Nat \ {0}, vd \in Nat \ {0} : v[1] = vn /\ v[2] = vd
  <2>1. v[1] \in Nat \ {0}
    BY FracIs
  <2>. QED  BY <2>1, FracIs
<1>4. PICK k \in Nat : k = vn * vd
  OBVIOUS
<1>5. Over(v, v) = <<k, k>>
  <2>1. vd * vn = k
    BY <1>4
  <2>. QED  BY <1>3, <1>4, <2>1 DEF Over
<1>6. Minus(b, a) = <<bn * ad - an * bd, bd * ad>>
  BY <1>1, <1>2 DEF Minus
<1>7. Times(Over(v, v), Minus(b, a)) = <<k * (bn * ad - an * bd), k * (bd * ad)>>
  BY <1>5, <1>6 DEF Times
<1>8. Plus(a, Times(Over(v, v), Minus(b, a))) =
          <<an * (k * (bd * ad)) + (k * (bn * ad - an * bd)) * ad, ad * (k * (bd * ad))>>
  BY <1>1, <1>7 DEF Plus
<1>9. an * (k * (bd * ad)) + (k * (bn * ad - an * bd)) * ad = (k * bn) * (ad * ad)
  OBVIOUS
<1>10. ((k * bn) * (ad * ad)) * bd = bn * (ad * (k * (bd * ad)))
  OBVIOUS
<1>11. bn * (ad * (k * (bd * ad))) \in Int
  OBVIOUS
<1>. QED  BY <1>2, <1>8, <1>9, <1>10, <1>11 DEF Leq
-----------------------------------------------------------------------------
(***************************************************************************)
(* What is served.  Between two neighbouring blocks the interpolation stays *)
(* between their values and rises with the score; and a better score lies   *)
(* between later neighbours (Around).                                      *)
(***************************************************************************)
Block == [sumX : Nat, sumY : Nat, w : Nat \ {0}]

LEMMA BlockIs ==
    ASSUME NEW a \in Block
    PROVE  /\ X(a) \in Frac /\ Y(a) \in Frac
           /\ X(a) = <<a.sumX, a.w>> /\ Y(a) = <<a.sumY, a.w>>
           /\ a.sumX \in Nat /\ a.sumY \in Nat /\ a.w \in Nat \ {0}
BY DEF Block, X, Y, Frac

LEMMA InterpolatedBetween ==
    ASSUME NEW a \in Block, NEW b \in Block, Leq(Y(a), Y(b)),
           NEW x \in Frac, Leq(X(a), x), Leq(x, X(b))
    PROVE  /\ Interpolated(a, b, x) \in Frac
           /\ Leq(Y(a), Interpolated(a, b, x)) /\ Leq(Interpolated(a, b, x), Y(b))
<1>1. X(a) \in Frac /\ X(b) \in Frac /\ Y(a) \in Frac /\ Y(b) \in Frac
  BY BlockIs
<1>2. CASE Leq(X(b), X(a))
  <2>1. Interpolated(a, b, x) = Y(a)
    BY <1>2 DEF Interpolated
  <2>. QED  BY <1>1, <2>1, LeqTotal
<1>3. CASE ~Leq(X(b), X(a))
  <2>. DEFINE u == Minus(x, X(a))
              v == Minus(X(b), X(a))
              d == Minus(Y(b), Y(a))
  <2>1. u \in Frac /\ u[1] >= 0 /\ v \in Frac /\ v[1] > 0 /\ d \in Frac /\ d[1] >= 0
    BY <1>1, <1>3, MinusIs
  <2>2. Leq(u, v)
    BY <1>1, MinusUp
  <2>3. Interpolated(a, b, x) = Plus(Y(a), Times(Over(u, v), d))
    BY <1>3 DEF Interpolated
  <2>4. Leq(Plus(Y(a), Times(Over(v, v), d)), Y(b))
    BY <1>1, <2>1, WholeWay
  <2>. HIDE DEF u, v, d
  <2>5. /\ Over(u, v) \in Frac /\ Over(u, v)[1] >= 0 /\ Over(v, v) \in Frac
        /\ Leq(Over(u, v), Over(v, v))
    BY <2>1, <2>2, OverIs, OverUp
  <2>6. /\ Times(Over(u, v), d) \in Frac /\ Times(Over(u, v), d)[1] >= 0
        /\ Times(Over(v, v), d) \in Frac
        /\ Leq(Times(Over(u, v), d), Times(Over(v, v), d))
    BY <2>1, <2>5, TimesIs, ProductUp
  <2>7. /\ Plus(Y(a), Times(Over(u, v), d)) \in Frac /\ Plus(Y(a), Times(Over(v, v), d)) \in Frac
        /\ Leq(Y(a), Plus(Y(a), Times(Over(u, v), d)))
        /\ Leq(Plus(Y(a), Times(Over(u, v), d)), Plus(Y(a), Times(Over(v, v), d)))
    BY <1>1, <2>6, PlusIs, PlusMore, PlusUp
  <2>8. Leq(Plus(Y(a), Times(Over(u, v), d)), Y(b))
    BY <1>1, <2>4, <2>7, LeqTrans
  <2>. QED  BY <2>3, <2>7, <2>8
<1>. QED  BY <1>2, <1>3

LEMMA InterpolatedUp ==
    ASSUME NEW a \in Block, NEW b \in Block, Leq(Y(a), Y(b)),
           NEW x \in Frac, NEW y \in Frac, Leq(x, y)
    PROVE  Leq(Interpolated(a, b, x), Interpolated(a, b, y))
<1>1. X(a) \in Frac /\ X(b) \in Frac /\ Y(a) \in Frac /\ Y(b) \in Frac
  BY BlockIs
<1>2. CASE Leq(X(b), X(a))
  <2>1. Interpolated(a, b, x) = Y(a) /\ Interpolated(a, b, y) = Y(a)
    BY <1>2 DEF Interpolated
  <2>. QED  BY <1>1, <2>1, LeqTotal
<1>3. CASE ~Leq(X(b), X(a))
  <2>. DEFINE p == Minus(x, X(a))
              q == Minus(y, X(a))
              v == Minus(X(b), X(a))
              d == Minus(Y(b), Y(a))
  <2>1. p \in Frac /\ q \in Frac /\ v \in Frac /\ v[1] > 0 /\ d \in Frac /\ d[1] >= 0
    BY <1>1, <1>3, MinusIs
  <2>2. Leq(p, q)
    BY <1>1, MinusUp
  <2>3. /\ Interpolated(a, b, x) = Plus(Y(a), Times(Over(p, v), d))
        /\ Interpolated(a, b, y) = Plus(Y(a), Times(Over(q, v), d))
    BY <1>3 DEF Interpolated
  <2>. HIDE DEF p, q, v, d
  <2>4. Over(p, v) \in Frac /\ Over(q, v) \in Frac /\ Leq(Over(p, v), Over(q, v))
    BY <2>1, <2>2, OverIs, OverUp
  <2>5. /\ Times(Over(p, v), d) \in Frac /\ Times(Over(q, v), d) \in Frac
        /\ Leq(Times(Over(p, v), d), Times(Over(q, v), d))
    BY <2>1, <2>4, TimesIs, ProductUp
  <2>6. Leq(Plus(Y(a), Times(Over(p, v), d)), Plus(Y(a), Times(Over(q, v), d)))
    BY <1>1, <2>5, PlusUp
  <2>. QED  BY <2>3, <2>6
<1>. QED  BY <1>2, <1>3

\* The blocks ascend, in their scores and up to entry m in their values
Ascends(ps, m) ==
    /\ ps \in Seq(Block) /\ Len(ps) >= 1
    /\ \A i \in 1 .. Len(ps) - 1 : Leq(X(ps[i]), X(ps[i + 1]))
    /\ \A i \in 1 .. m - 1 : Leq(Y(ps[i]), Y(ps[i + 1]))

LEMMA ValuesAscend ==
    ASSUME NEW ps, NEW m \in Nat, Ascends(ps, m), m <= Len(ps),
           NEW i \in 1 .. m, NEW j \in i .. m
    PROVE  Leq(Y(ps[i]), Y(ps[j]))
<1>. DEFINE S == {d \in Nat : i + d <= m => Leq(Y(ps[i]), Y(ps[i + d]))}
<1>1. \A k \in 1 .. m : ps[k] \in Block /\ Y(ps[k]) \in Frac
  <2>1. ps \in Seq(Block) /\ Len(ps) \in Nat
    BY DEF Ascends
  <2>2. \A k \in 1 .. m : k \in 1 .. Len(ps)
    BY <2>1
  <2>3. \A k \in 1 .. m : ps[k] \in Block
    BY <2>1, <2>2, ElementOfSeq
  <2>. QED  BY <2>3, BlockIs
<1>2. 0 \in S
  <2>1. i + 0 = i
    OBVIOUS
  <2>. QED  BY <1>1, <2>1, LeqTotal
<1>3. ASSUME NEW d \in S PROVE d + 1 \in S
  <2>. SUFFICES ASSUME i + (d + 1) <= m PROVE Leq(Y(ps[i]), Y(ps[i + (d + 1)]))
    BY <1>3
  <2>1. PICK k \in Nat : k = i + d /\ k + 1 = i + (d + 1) /\ k \in 1 .. m - 1 /\ k + 1 \in 1 .. m
    BY <1>3
  <2>2. Leq(Y(ps[i]), Y(ps[k]))
    BY <1>3, <2>1
  <2>3. Leq(Y(ps[k]), Y(ps[k + 1]))
    BY <2>1 DEF Ascends
  <2>4. k \in 1 .. m
    BY <2>1
  <2>5. Leq(Y(ps[i]), Y(ps[k + 1]))
    BY <1>1, <2>1, <2>2, <2>3, <2>4, LeqTrans
  <2>. QED  BY <2>1, <2>5
<1>4. S \in SUBSET Nat
  OBVIOUS
<1>. HIDE DEF S
<1>5. \A d \in S : d + 1 \in S
  BY <1>3
<1>6. S = Nat
  BY <1>2, <1>4, <1>5, SetOfNat
<1>7. j - i \in S /\ i + (j - i) = j /\ j <= m
  BY <1>6
<1>. QED  BY <1>7 DEF S

\* A score strictly between the first block's and the last block's
Inside(x) == ~Leq(x, X(pools[1])) /\ ~Leq(X(pools[Len(pools)]), x)

LEMMA PoolIs ==
    ASSUME NEW m, Ascends(pools, m), NEW i \in 1 .. Len(pools)
    PROVE  pools[i] \in Block /\ X(pools[i]) \in Frac /\ Y(pools[i]) \in Frac
<1>1. pools[i] \in Block
  BY ElementOfSeq DEF Ascends
<1>. QED  BY <1>1, BlockIs

LEMMA AroundIs ==
    ASSUME Ascends(pools, Len(pools)), NEW x \in Frac, Inside(x)
    PROVE  /\ Around(x) \in 1 .. Len(pools) - 1
           /\ Leq(X(pools[Around(x)]), x) /\ Leq(x, X(pools[Around(x) + 1]))
           /\ \A j \in 1 .. Around(x) - 1 : ~Leq(x, X(pools[j + 1]))
<1>1. PICK n \in Nat : n = Len(pools) /\ n >= 1
  BY DEF Ascends
<1>2. \A i \in 1 .. n : X(pools[i]) \in Frac
  BY <1>1, PoolIs
<1>. DEFINE S == {i \in Nat : i \in 1 .. n - 1 /\ Leq(x, X(pools[i + 1]))}
<1>3. n - 1 \in S
  <2>1. ~Leq(x, X(pools[1])) /\ ~Leq(X(pools[n]), x)
    BY <1>1 DEF Inside
  <2>2. Leq(x, X(pools[n]))
    BY <1>1, <1>2, <2>1, LeqTotal
  <2>3. n # 1
    BY <2>1, <2>2
  <2>4. n - 1 \in 1 .. n - 1 /\ (n - 1) + 1 = n
    BY <1>1, <2>3
  <2>. QED  BY <2>2, <2>4
<1>4. PICK i \in S : \A k \in S : i <= k
  <2>1. S \in SUBSET Nat /\ S # {}
    BY <1>3
  <2>. HIDE DEF S
  <2>. QED  BY <2>1, LeastOfNat
<1>5. i \in 1 .. n - 1 /\ i \in Nat /\ i \in 1 .. n /\ Leq(x, X(pools[i + 1]))
  BY <1>4
<1>6. ASSUME NEW j \in 1 .. i - 1 PROVE ~Leq(x, X(pools[j + 1]))
  <2>1. j \in Nat /\ j \in 1 .. n - 1 /\ ~(i <= j)
    BY <1>5
  <2>. QED  BY <1>4, <2>1
<1>7. Leq(X(pools[i]), x)
  <2>1. CASE i = 1
    <3>1. ~Leq(x, X(pools[1])) /\ X(pools[i]) \in Frac
      BY <1>2, <1>5 DEF Inside
    <3>. QED  BY <2>1, <3>1, LeqTotal
  <2>2. CASE i # 1
    <3>1. i - 1 \in 1 .. i - 1 /\ (i - 1) + 1 = i
      BY <1>5, <2>2
    <3>2. ~Leq(x, X(pools[i])) /\ X(pools[i]) \in Frac
      BY <1>2, <1>5, <1>6, <3>1
    <3>. QED  BY <3>2, LeqTotal
  <2>. QED  BY <2>1, <2>2
<1>. HIDE DEF S
<1>. QED  BY <1>1, <1>5, <1>6, <1>7 DEF Around
LEMMA InsideIs ==
    ASSUME Ascends(pools, Len(pools)), NEW x \in Frac, Inside(x)
    PROVE  LET i == Around(x)
           IN  /\ i \in 1 .. Len(pools) - 1 /\ i + 1 \in 1 .. Len(pools)
               /\ Predict(x) = Interpolated(pools[i], pools[i + 1], x)
               /\ Predict(x) \in Frac /\ Leq(Y(pools[i]), Predict(x))
               /\ Leq(Predict(x), Y(pools[i + 1]))
<1>1. PICK i : i = Around(x)
  OBVIOUS
<1>2. PICK n \in Nat : n = Len(pools) /\ n >= 1
  BY DEF Ascends
<1>3. i \in 1 .. n - 1 /\ Leq(X(pools[i]), x) /\ Leq(x, X(pools[i + 1]))
  BY <1>1, <1>2, AroundIs
<1>4. i \in 1 .. n /\ i + 1 \in 1 .. n
  BY <1>2, <1>3
<1>5. pools[i] \in Block /\ pools[i + 1] \in Block
  BY <1>2, <1>4, PoolIs
<1>6. Leq(Y(pools[i]), Y(pools[i + 1]))
  BY <1>2, <1>3 DEF Ascends
<1>7. Predict(x) = Interpolated(pools[i], pools[i + 1], x)
  BY <1>1 DEF Predict, Inside
<1>8. /\ Interpolated(pools[i], pools[i + 1], x) \in Frac
      /\ Leq(Y(pools[i]), Interpolated(pools[i], pools[i + 1], x))
      /\ Leq(Interpolated(pools[i], pools[i + 1], x), Y(pools[i + 1]))
  BY <1>3, <1>5, <1>6, InterpolatedBetween
<1>. QED  BY <1>1, <1>2, <1>3, <1>4, <1>7, <1>8

LEMMA PredictUp ==
    ASSUME Ascends(pools, Len(pools)), NEW x \in Frac, NEW y \in Frac, Leq(x, y)
    PROVE  Leq(Predict(x), Predict(y))
<1>1. PICK n \in Nat : n = Len(pools) /\ n >= 1
  BY DEF Ascends
<1>2. \A i \in 1 .. n : X(pools[i]) \in Frac /\ Y(pools[i]) \in Frac /\ pools[i] \in Block
  BY <1>1, PoolIs
<1>3. \A i \in 1 .. n : \A j \in i .. n : Leq(Y(pools[i]), Y(pools[j]))
  BY <1>1, ValuesAscend
<1>4. 1 \in 1 .. n /\ n \in 1 .. n
  BY <1>1
<1>5. CASE Leq(x, X(pools[1]))
  <2>1. Predict(x) = Y(pools[1])
    BY <1>5 DEF Predict
  <2>2. CASE Leq(y, X(pools[1]))
    <3>1. Predict(y) = Y(pools[1])
      BY <2>2 DEF Predict
    <3>. QED  BY <1>2, <1>4, <2>1, <3>1, LeqTotal
  <2>3. CASE ~Leq(y, X(pools[1])) /\ Leq(X(pools[n]), y)
    <3>1. Predict(y) = Y(pools[n])
      BY <1>1, <2>3 DEF Predict
    <3>. QED  BY <1>3, <1>4, <2>1, <3>1
  <2>4. CASE ~Leq(y, X(pools[1])) /\ ~Leq(X(pools[n]), y)
    <3>1. Inside(y)
      BY <1>1, <2>4 DEF Inside
    <3>2. PICK i : i = Around(y) /\ i \in 1 .. n - 1 /\ Predict(y) \in Frac
                   /\ Leq(Y(pools[i]), Predict(y))
      BY <1>1, <3>1, InsideIs
    <3>3. i \in 1 .. n
      BY <1>1, <3>2
    <3>4. Leq(Y(pools[1]), Y(pools[i]))
      BY <1>3, <1>4, <3>3
    <3>. QED  BY <1>2, <1>4, <2>1, <3>2, <3>3, <3>4, LeqTrans
  <2>. QED  BY <2>2, <2>3, <2>4
<1>6. CASE ~Leq(x, X(pools[1])) /\ Leq(X(pools[n]), x)
  <2>1. Predict(x) = Y(pools[n])
    BY <1>1, <1>6 DEF Predict
  <2>2. ~Leq(y, X(pools[1])) /\ Leq(X(pools[n]), y)
    BY <1>2, <1>4, <1>6, LeqTrans
  <2>3. Predict(y) = Y(pools[n])
    BY <1>1, <2>2 DEF Predict
  <2>. QED  BY <1>2, <1>4, <2>1, <2>3, LeqTotal
<1>7. CASE ~Leq(x, X(pools[1])) /\ ~Leq(X(pools[n]), x)
  <2>1. Inside(x)
    BY <1>1, <1>7 DEF Inside
  <2>2. PICK i : i = Around(x) /\ i \in 1 .. n - 1 /\ i + 1 \in 1 .. n
                 /\ Predict(x) = Interpolated(pools[i], pools[i + 1], x)
                 /\ Predict(x) \in Frac /\ Leq(Predict(x), Y(pools[i + 1]))
    BY <1>1, <2>1, InsideIs
  <2>3. ~Leq(y, X(pools[1]))
    BY <1>2, <1>4, <1>7, LeqTrans
  <2>4. CASE Leq(X(pools[n]), y)
    <3>1. Predict(y) = Y(pools[n])
      BY <1>1, <2>3, <2>4 DEF Predict
    <3>2. n \in i + 1 .. n
      BY <2>2
    <3>3. Leq(Y(pools[i + 1]), Y(pools[n]))
      BY <1>3, <2>2, <3>2
    <3>. QED  BY <1>2, <1>4, <2>2, <3>1, <3>3, LeqTrans
  <2>5. CASE ~Leq(X(pools[n]), y)
    <3>1. Inside(y)
      BY <1>1, <2>3, <2>5 DEF Inside
    <3>2. PICK j : j = Around(y) /\ j \in 1 .. n - 1 /\ j + 1 \in 1 .. n
                   /\ Predict(y) = Interpolated(pools[j], pools[j + 1], y)
                   /\ Predict(y) \in Frac /\ Leq(Y(pools[j]), Predict(y))
      BY <1>1, <3>1, InsideIs
    <3>3. Leq(y, X(pools[j + 1])) /\ \A k \in 1 .. i - 1 : ~Leq(x, X(pools[k + 1]))
      BY <2>1, <2>2, <3>1, <3>2, AroundIs
    <3>4. Leq(x, X(pools[j + 1]))
      BY <1>2, <3>2, <3>3, LeqTrans
    <3>5. i <= j
      <4>. SUFFICES ASSUME ~(i <= j) PROVE FALSE
        OBVIOUS
      <4>1. j \in 1 .. i - 1
        BY <2>2, <3>2
      <4>. QED  BY <3>3, <3>4, <4>1
    <3>6. CASE i = j
      <4>1. i \in 1 .. n /\ Leq(Y(pools[i]), Y(pools[i + 1]))
        <5>1. i \in 1 .. n /\ i + 1 \in i .. n
          BY <2>2
        <5>. QED  BY <1>3, <5>1
      <4>. QED  BY <1>2, <2>2, <3>2, <3>6, <4>1, InterpolatedUp
    <3>7. CASE i # j
      <4>1. j \in i + 1 .. n /\ j \in 1 .. n
        BY <2>2, <3>2, <3>5, <3>7
      <4>2. Leq(Y(pools[i + 1]), Y(pools[j]))
        BY <1>3, <2>2, <4>1
      <4>3. Leq(Predict(x), Y(pools[j]))
        BY <1>2, <2>2, <4>1, <4>2, LeqTrans
      <4>. QED  BY <1>2, <2>2, <3>2, <4>1, <4>3, LeqTrans
    <3>. QED  BY <3>6, <3>7
  <2>. QED  BY <2>4, <2>5
<1>. QED  BY <1>5, <1>6, <1>7
-----------------------------------------------------------------------------
(***************************************************************************)
(* The loop.  The blocks always ascend in their scores, and up to the loop's *)
(* index in their values.                                                  *)
(***************************************************************************)
LEMMA MergedBetween ==
    ASSUME NEW a \in Nat, NEW b \in Nat, NEW p \in Nat \ {0}, NEW q \in Nat \ {0},
           a * q <= b * p
    PROVE  a * (p + q) <= (a + b) * p /\ (a + b) * q <= b * (p + q)
<1>1. a * (p + q) = a * p + a * q /\ (a + b) * p = a * p + b * p
  OBVIOUS
<1>2. (a + b) * q = a * q + b * q /\ b * (p + q) = b * p + b * q
  OBVIOUS
<1>3. a * p \in Int /\ a * q \in Int /\ b * p \in Int /\ b * q \in Int
  OBVIOUS
<1>. QED  BY <1>1, <1>2, <1>3

LEMMA MergedIs ==
    ASSUME NEW a \in Block, NEW b \in Block
    PROVE  /\ Merged(a, b) \in Block
           /\ Leq(X(a), X(b)) => Leq(X(a), X(Merged(a, b))) /\ Leq(X(Merged(a, b)), X(b))
<1>1. /\ a.sumX \in Nat /\ a.sumY \in Nat /\ a.w \in Nat \ {0}
      /\ b.sumX \in Nat /\ b.sumY \in Nat /\ b.w \in Nat \ {0}
  BY DEF Block
<1>2. Merged(a, b) \in Block
  BY <1>1 DEF Merged, Block
<1>3. /\ X(a) = <<a.sumX, a.w>> /\ X(b) = <<b.sumX, b.w>>
      /\ X(Merged(a, b)) = <<a.sumX + b.sumX, a.w + b.w>>
  BY DEF X, Merged
<1>4. ASSUME Leq(X(a), X(b)) PROVE Leq(X(a), X(Merged(a, b))) /\ Leq(X(Merged(a, b)), X(b))
  <2>1. a.sumX * b.w <= b.sumX * a.w
    BY <1>3, <1>4 DEF Leq
  <2>2. /\ a.sumX * (a.w + b.w) <= (a.sumX + b.sumX) * a.w
        /\ (a.sumX + b.sumX) * b.w <= b.sumX * (a.w + b.w)
    BY <1>1, <2>1, MergedBetween
  <2>. QED  BY <1>3, <2>2 DEF Leq
<1>. QED  BY <1>2, <1>4

\* The blocks with those at p and p + 1 merged
Pooled(ps, p) ==
    SubSeq(ps, 1, p - 1) \o <<Merged(ps[p], ps[p + 1])>> \o SubSeq(ps, p + 2, Len(ps))

LEMMA PooledIs ==
    ASSUME NEW ps \in Seq(Block), NEW p \in 1 .. Len(ps) - 1
    PROVE  /\ Pooled(ps, p) \in Seq(Block) /\ Len(Pooled(ps, p)) = Len(ps) - 1
           /\ \A i \in 1 .. p - 1 : Pooled(ps, p)[i] = ps[i]
           /\ Pooled(ps, p)[p] = Merged(ps[p], ps[p + 1])
           /\ \A i \in p + 1 .. Len(ps) - 1 : Pooled(ps, p)[i] = ps[i + 1]
<1>1. PICK n \in Nat : n = Len(ps) /\ p \in 1 .. n - 1
  OBVIOUS
<1>2. p \in 1 .. n /\ p + 1 \in 1 .. n
  BY <1>1
<1>3. PICK m : m = Merged(ps[p], ps[p + 1])
  OBVIOUS
<1>4. m \in Block
  BY <1>1, <1>2, <1>3, ElementOfSeq, MergedIs
<1>5. \A i \in 1 .. n : ps[i] \in Block
  BY <1>1, ElementOfSeq
<1>6. PICK a : a = SubSeq(ps, 1, p - 1)
  OBVIOUS
<1>7. PICK z : z = SubSeq(ps, p + 2, n)
  OBVIOUS
<1>8. /\ a \in Seq(Block) /\ Len(a) = p - 1 /\ \A i \in 1 .. p - 1 : a[i] = ps[i]
  <2>1. 1 \in Int /\ p - 1 \in Int /\ \A i \in 1 .. p - 1 : i \in 1 .. n
    BY <1>1
  <2>2. /\ a \in Seq(Block) /\ Len(a) = IF 1 <= p - 1 THEN (p - 1) - 1 + 1 ELSE 0
        /\ \A i \in 1 .. (p - 1) - 1 + 1 : a[i] = ps[1 + i - 1]
    BY <1>5, <1>6, <2>1, SubSeqProperties
  <2>3. \A i \in 1 .. p - 1 : i \in 1 .. (p - 1) - 1 + 1 /\ 1 + i - 1 = i
    BY <1>1
  <2>. QED  BY <1>1, <2>2, <2>3
<1>9. /\ z \in Seq(Block) /\ Len(z) = n - p - 1
      /\ \A i \in 1 .. n - p - 1 : z[i] = ps[p + 1 + i]
  <2>1. p + 2 \in Int /\ n \in Int /\ \A i \in p + 2 .. n : i \in 1 .. n
    BY <1>1
  <2>2. /\ z \in Seq(Block) /\ Len(z) = IF p + 2 <= n THEN n - (p + 2) + 1 ELSE 0
        /\ \A i \in 1 .. n - (p + 2) + 1 : z[i] = ps[p + 2 + i - 1]
    BY <1>5, <1>7, <2>1, SubSeqProperties
  <2>3. \A i \in 1 .. n - p - 1 : i \in 1 .. n - (p + 2) + 1 /\ p + 2 + i - 1 = p + 1 + i
    BY <1>1
  <2>. QED  BY <1>1, <2>2, <2>3
<1>10. PICK b : b = a \o <<m>>
  OBVIOUS
<1>11. b \in Seq(Block) /\ Len(b) = p /\ (\A i \in 1 .. p - 1 : b[i] = ps[i]) /\ b[p] = m
  <2>1. /\ Append(a, m) \in Seq(Block) /\ Len(Append(a, m)) = Len(a) + 1
        /\ \A i \in 1 .. Len(a) : Append(a, m)[i] = a[i]
        /\ Append(a, m)[Len(a) + 1] = m
    BY <1>4, <1>8, AppendProperties
  <2>2. b = Append(a, m)
    BY <1>4, <1>8, <1>10, AppendIsConcat
  <2>. QED  BY <1>1, <1>8, <2>1, <2>2
<1>12. PICK q : q = b \o z
  OBVIOUS
<1>13. Pooled(ps, p) = q
  BY <1>1, <1>3, <1>6, <1>7, <1>10, <1>12 DEF Pooled
<1>14. /\ q \in Seq(Block) /\ Len(q) = Len(b) + Len(z)
       /\ \A i \in 1 .. Len(b) + Len(z) : q[i] = IF i <= Len(b) THEN b[i] ELSE z[i - Len(b)]
  BY <1>9, <1>11, <1>12, ConcatProperties
<1>15. Len(q) = n - 1 /\ \A i \in 1 .. n - 1 : q[i] = IF i <= p THEN b[i] ELSE z[i - p]
  <2>0. Len(b) = p /\ Len(z) = n - p - 1 /\ p \in Nat /\ n \in Nat
    BY <1>1, <1>9, <1>11
  <2>. HIDE <1>9, <1>11
  <2>1. Len(b) + Len(z) = n - 1
    BY <2>0
  <2>. QED  BY <1>11, <1>14, <2>1
<1>16. ASSUME NEW i \in 1 .. p - 1 PROVE q[i] = ps[i]
  <2>1. i \in 1 .. n - 1 /\ i <= p
    BY <1>1
  <2>. QED  BY <1>11, <1>15, <2>1
<1>17. q[p] = m
  <2>1. p \in 1 .. n - 1 /\ p <= p
    BY <1>1
  <2>. QED  BY <1>11, <1>15, <2>1
<1>18. ASSUME NEW i \in p + 1 .. n - 1 PROVE q[i] = ps[i + 1]
  <2>1. i \in 1 .. n - 1 /\ ~(i <= p) /\ i - p \in 1 .. n - p - 1 /\ p + 1 + (i - p) = i + 1
    BY <1>1
  <2>. QED  BY <1>9, <1>15, <2>1
<1>. QED  BY <1>1, <1>3, <1>13, <1>14, <1>15, <1>16, <1>17, <1>18

LEMMA PoolingAscends ==
    ASSUME NEW ps, NEW p \in 1 .. Len(ps) - 1, Ascends(ps, p)
    PROVE  Ascends(Pooled(ps, p), StepBack(p))
<1>1. PICK n \in Nat : n = Len(ps) /\ n >= 1 /\ p \in 1 .. n - 1
  BY DEF Ascends
<1>2. PICK q : q = Pooled(ps, p)
  OBVIOUS
<1>3. ps \in Seq(Block)
  BY DEF Ascends
<1>4. /\ q \in Seq(Block) /\ Len(q) = n - 1 /\ \A i \in 1 .. p - 1 : q[i] = ps[i]
      /\ q[p] = Merged(ps[p], ps[p + 1]) /\ \A i \in p + 1 .. n - 1 : q[i] = ps[i + 1]
  BY <1>1, <1>2, <1>3, PooledIs
<1>5. \A i \in 1 .. n : ps[i] \in Block /\ X(ps[i]) \in Frac
  BY <1>1, <1>3, ElementOfSeq, BlockIs
<1>6. \A i \in 1 .. n - 1 : Leq(X(ps[i]), X(ps[i + 1]))
  BY <1>1 DEF Ascends
<1>7. p \in 1 .. n /\ p + 1 \in 1 .. n
  BY <1>1
<1>8. /\ q[p] \in Block /\ X(q[p]) \in Frac
      /\ Leq(X(ps[p]), X(q[p])) /\ Leq(X(q[p]), X(ps[p + 1]))
  BY <1>1, <1>4, <1>5, <1>6, <1>7, MergedIs, BlockIs
<1>9. ASSUME NEW i \in 1 .. n - 2 PROVE Leq(X(q[i]), X(q[i + 1]))
  <2>1. CASE i + 1 < p
    <3>1. i \in 1 .. p - 1 /\ i + 1 \in 1 .. p - 1 /\ i \in 1 .. n - 1
      BY <1>1, <2>1
    <3>. QED  BY <1>4, <1>6, <3>1
  <2>2. CASE i + 1 = p
    <3>1. i \in 1 .. p - 1 /\ i \in 1 .. n - 1 /\ i \in 1 .. n /\ i + 1 = p
      BY <1>1, <2>2
    <3>2. q[i] = ps[i] /\ Leq(X(ps[i]), X(ps[p]))
      BY <1>4, <1>6, <3>1
    <3>3. Leq(X(ps[i]), X(q[p]))
      BY <1>5, <1>7, <1>8, <3>1, <3>2, LeqTrans
    <3>. QED  BY <3>1, <3>2, <3>3
  <2>3. CASE i = p
    <3>1. p + 1 \in p + 1 .. n - 1 /\ p + 1 \in 1 .. n - 1 /\ (p + 1) + 1 \in 1 .. n
      BY <1>1, <2>3
    <3>2. q[p + 1] = ps[(p + 1) + 1] /\ Leq(X(ps[p + 1]), X(ps[(p + 1) + 1]))
      BY <1>4, <1>6, <3>1
    <3>3. Leq(X(q[p]), X(ps[(p + 1) + 1]))
      BY <1>5, <1>7, <1>8, <3>1, <3>2, LeqTrans
    <3>. QED  BY <2>3, <3>2, <3>3
  <2>4. CASE i > p
    <3>1. i \in p + 1 .. n - 1 /\ i + 1 \in p + 1 .. n - 1 /\ i + 1 \in 1 .. n - 1
      BY <1>1, <2>4
    <3>. QED  BY <1>4, <1>6, <3>1
  <2>5. i + 1 < p \/ i + 1 = p \/ i = p \/ i > p
    BY <1>1
  <2>. QED  BY <2>1, <2>2, <2>3, <2>4, <2>5
<1>10. ASSUME NEW i \in 1 .. StepBack(p) - 1 PROVE Leq(Y(q[i]), Y(q[i + 1]))
  <2>1. i \in 1 .. p - 1 /\ i + 1 \in 1 .. p - 1
    BY <1>1 DEF StepBack
  <2>2. Leq(Y(ps[i]), Y(ps[i + 1]))
    BY <2>1 DEF Ascends
  <2>. QED  BY <1>4, <2>1, <2>2
<1>11. \A i \in 1 .. Len(q) - 1 : Leq(X(q[i]), X(q[i + 1]))
  <2>1. Len(q) - 1 = n - 2
    BY <1>1, <1>4
  <2>. QED  BY <1>9, <2>1
<1>12. Len(q) >= 1
  BY <1>1, <1>4
<1>. QED  BY <1>2, <1>4, <1>10, <1>11, <1>12 DEF Ascends
-----------------------------------------------------------------------------
(***************************************************************************)
(* What the blocks are means of.  With P the running totals of the outcomes *)
(* and e the last pair of each block, a block is a stretch of pairs none of *)
(* whose beginnings has a lower mean than the whole; pooling two blocks of  *)
(* which the left has the higher value keeps that.                         *)
(***************************************************************************)
Tally(pts, n, P) ==
    /\ P \in [0 .. n -> Nat] /\ P[0] = 0
    /\ \A i \in 1 .. n : P[i] = P[i - 1] + pts[i].y

LEMMA TallyExists ==
    ASSUME NEW pts \in Seq(Point)
    PROVE  \E P : Tally(pts, Len(pts), P)
<1>. DEFINE S == {n \in Nat : n <= Len(pts) => \E P : Tally(pts, n, P)}
<1>1. 0 \in S
  <2>. DEFINE P == [i \in 0 .. 0 |-> 0]
  <2>1. Tally(pts, 0, P)
    BY DEF Tally
  <2>. QED  BY <2>1
<1>2. ASSUME NEW n \in S PROVE n + 1 \in S
  <2>. SUFFICES ASSUME n + 1 <= Len(pts) PROVE \E P : Tally(pts, n + 1, P)
    BY <1>2
  <2>1. n \in Nat /\ n <= Len(pts) /\ n + 1 \in 1 .. Len(pts)
    BY <1>2
  <2>2. PICK P : Tally(pts, n, P)
    BY <1>2, <2>1
  <2>3. PICK y \in Nat : y = pts[n + 1].y
    <3>1. pts[n + 1] \in Point
      BY <2>1, ElementOfSeq
    <3>. QED  BY <3>1 DEF Point
  <2>4. PICK Q : Q = [i \in 0 .. n + 1 |-> IF i = n + 1 THEN P[n] + y ELSE P[i]]
    OBVIOUS
  <2>5. P \in [0 .. n -> Nat] /\ P[0] = 0
    BY <2>2 DEF Tally
  <2>6. Q \in [0 .. n + 1 -> Nat] /\ Q[0] = 0
    BY <2>1, <2>4, <2>5
  <2>7. ASSUME NEW i \in 1 .. n + 1 PROVE Q[i] = Q[i - 1] + pts[i].y
    <3>1. CASE i = n + 1
      <4>1. i \in 0 .. n + 1 /\ i - 1 \in 0 .. n + 1 /\ i - 1 = n /\ i - 1 # n + 1
        BY <2>1, <3>1
      <4>. QED  BY <2>3, <2>4, <3>1, <4>1
    <3>2. CASE i # n + 1
      <4>1. i \in 1 .. n /\ i \in 0 .. n + 1 /\ i - 1 \in 0 .. n + 1 /\ i - 1 # n + 1
        BY <2>1, <3>2
      <4>2. P[i] = P[i - 1] + pts[i].y
        BY <2>2, <4>1 DEF Tally
      <4>. QED  BY <2>4, <3>2, <4>1, <4>2
    <3>. QED  BY <3>1, <3>2
  <2>8. Tally(pts, n + 1, Q)
    BY <2>6, <2>7 DEF Tally
  <2>. QED  BY <2>8
<1>3. S \in SUBSET Nat
  OBVIOUS
<1>. HIDE DEF S
<1>4. \A n \in S : n + 1 \in S
  BY <1>2
<1>5. S = Nat
  BY <1>1, <1>3, <1>4, SetOfNat
<1>6. Len(pts) \in S
  BY <1>5
<1>. QED  BY <1>6 DEF S

\* Block b is the pairs after l up to r
Stretch(b, P, l, r) ==
    /\ l < r /\ b.w = r - l /\ b.sumY = P[r] - P[l]
    /\ \A t \in l + 1 .. r : b.sumY * (t - l) <= (P[t] - P[l]) * b.w

Cuts(ps, n, P, e) ==
    /\ e \in [0 .. Len(ps) -> 0 .. n] /\ e[0] = 0 /\ e[Len(ps)] = n
    /\ \A k \in 1 .. Len(ps) : Stretch(ps[k], P, e[k - 1], e[k])

LEMMA BeginningOfLeft ==
    ASSUME NEW a \in Nat, NEW b \in Nat, NEW u \in Nat \ {0}, NEW v \in Nat \ {0},
           b * u <= a * v, NEW d \in Nat \ {0}, NEW t \in Int, a * d <= t * u
    PROVE  (a + b) * d <= t * (u + v)
<1>1. (a + b) * u <= a * (u + v)
  <2>1. (a + b) * u = a * u + b * u /\ a * (u + v) = a * u + a * v
    OBVIOUS
  <2>2. a * u \in Int /\ a * v \in Int /\ b * u \in Int
    OBVIOUS
  <2>. QED  BY <2>1, <2>2
<1>2. a + b \in Int /\ u + v \in Nat \ {0} /\ a \in Int
  OBVIOUS
<1>. QED  BY <1>1, <1>2, RatioTrans

LEMMA BeginningOfRight ==
    ASSUME NEW a \in Nat, NEW b \in Nat, NEW u \in Nat \ {0}, NEW v \in Nat \ {0},
           b * u <= a * v, NEW d \in Nat, d <= v, NEW t \in Int, b * d <= t * v
    PROVE  (a + b) * (u + d) <= (a + t) * (u + v)
<1>1. PICK r \in Nat : v = d + r
  <2>1. v - d \in Nat /\ v = d + (v - d)
    OBVIOUS
  <2>. QED  BY <2>1
\* The rest of the right block has a mean of at most b / v, so of at most a / u
<1>2. (b - t) * v <= b * r
  <2>1. b * v = b * d + b * r /\ (b - t) * v = b * v - t * v
    BY <1>1
  <2>2. b * d \in Int /\ b * r \in Int /\ t * v \in Int /\ b * v \in Int
    OBVIOUS
  <2>. QED  BY <2>1, <2>2
<1>3. ((b - t) * v) * u <= (b * r) * u
  <2>1. (b - t) * v \in Int /\ b * r \in Int
    OBVIOUS
  <2>. QED  BY <1>2, <2>1, TimesUp
<1>4. (b * u) * r <= (a * v) * r
  <2>1. b * u \in Int /\ a * v \in Int
    OBVIOUS
  <2>. QED  BY <2>1, TimesUp
<1>5. ((b - t) * u) * v <= (a * r) * v
  <2>1. ((b - t) * u) * v = ((b - t) * v) * u /\ (b * r) * u = (b * u) * r /\ (a * v) * r = (a * r) * v
    OBVIOUS
  <2>2. ((b - t) * v) * u \in Int /\ (b * r) * u \in Int /\ (a * v) * r \in Int
    OBVIOUS
  <2>. QED  BY <1>3, <1>4, <2>1, <2>2
<1>6. (b - t) * u <= a * r
  <2>1. (b - t) * u \in Int /\ a * r \in Int
    OBVIOUS
  <2>. QED  BY <1>5, <2>1, TimesDown
<1>7. /\ (a + b) * (u + d) = a * u + a * d + b * u + b * d
      /\ (a + t) * (u + v) = a * u + a * d + a * r + t * u + t * v
      /\ (b - t) * u = b * u - t * u
  BY <1>1
<1>8. /\ a * u \in Int /\ a * d \in Int /\ b * u \in Int /\ b * d \in Int
      /\ a * r \in Int /\ t * u \in Int /\ t * v \in Int
  OBVIOUS
<1>. HIDE <1>1
<1>. QED  BY <1>6, <1>7, <1>8

LEMMA StretchesMerge ==
    ASSUME NEW a \in Block, NEW b \in Block, Violates(a, b),
           NEW n \in Nat, NEW P \in [0 .. n -> Nat],
           NEW l \in 0 .. n, NEW m \in 0 .. n, NEW r \in 0 .. n,
           Stretch(a, P, l, m), Stretch(b, P, m, r)
    PROVE  Stretch(Merged(a, b), P, l, r)
<1>1. PICK A \in Nat, u \in Nat \ {0} : A = a.sumY /\ u = a.w
  BY DEF Block
<1>2. PICK B \in Nat, v \in Nat \ {0} : B = b.sumY /\ v = b.w
  BY DEF Block
<1>3. B * u <= A * v
  <2>1. ~(A * v <= B * u)
    BY <1>1, <1>2 DEF Violates, Leq, Y
  <2>2. A * v \in Int /\ B * u \in Int
    OBVIOUS
  <2>. QED  BY <2>1, <2>2
<1>4. PICK c : c = Merged(a, b)
  OBVIOUS
<1>5. c.sumY = A + B /\ c.w = u + v
  BY <1>1, <1>2, <1>4 DEF Merged
<1>6. P[l] \in Nat /\ P[m] \in Nat /\ P[r] \in Nat
  OBVIOUS
<1>7. l < m /\ m < r /\ u = m - l /\ v = r - m /\ A = P[m] - P[l] /\ B = P[r] - P[m]
  BY <1>1, <1>2 DEF Stretch
<1>8. l < r /\ c.w = r - l /\ c.sumY = P[r] - P[l]
  BY <1>5, <1>6, <1>7
<1>9. ASSUME NEW t \in l + 1 .. r PROVE (A + B) * (t - l) <= (P[t] - P[l]) * (u + v)
  <2>0. t \in 0 .. n /\ P[t] \in Nat
    OBVIOUS
  <2>1. CASE t <= m
    <3>1. t \in l + 1 .. m /\ t - l \in Nat \ {0} /\ P[t] - P[l] \in Int
      BY <1>6, <2>0, <2>1
    <3>2. A * (t - l) <= (P[t] - P[l]) * u
      BY <1>1, <3>1 DEF Stretch
    <3>. QED  BY <1>3, <3>1, <3>2, BeginningOfLeft
  <2>2. CASE ~(t <= m)
    <3>1. t \in m + 1 .. r /\ t - m \in Nat /\ t - m <= v /\ P[t] - P[m] \in Int
      BY <1>6, <1>7, <2>0, <2>2
    <3>2. B * (t - m) <= (P[t] - P[m]) * v
      BY <1>2, <3>1 DEF Stretch
    <3>3. (A + B) * (u + (t - m)) <= (A + (P[t] - P[m])) * (u + v)
      BY <1>3, <3>1, <3>2, BeginningOfRight
    <3>4. u + (t - m) = t - l /\ A + (P[t] - P[m]) = P[t] - P[l]
      BY <1>6, <1>7, <2>0
    <3>. QED  BY <3>3, <3>4
  <2>. QED  BY <2>1, <2>2
<1>. QED  BY <1>4, <1>5, <1>8, <1>9 DEF Stretch
LEMMA PoolingCuts ==
    ASSUME NEW ps \in Seq(Block), NEW n \in Nat, NEW P \in [0 .. n -> Nat], NEW e,
           Cuts(ps, n, P, e), NEW p \in 1 .. Len(ps) - 1, Violates(ps[p], ps[p + 1])
    PROVE  \E f : Cuts(Pooled(ps, p), n, P, f)
<1>1. PICK k \in Nat : k = Len(ps) /\ p \in 1 .. k - 1
  OBVIOUS
<1>2. PICK q : q = Pooled(ps, p)
  OBVIOUS
<1>3. /\ q \in Seq(Block) /\ Len(q) = k - 1 /\ \A i \in 1 .. p - 1 : q[i] = ps[i]
      /\ q[p] = Merged(ps[p], ps[p + 1]) /\ \A i \in p + 1 .. k - 1 : q[i] = ps[i + 1]
  BY <1>1, <1>2, PooledIs
<1>4. PICK f : f = [i \in 0 .. k - 1 |-> IF i < p THEN e[i] ELSE e[i + 1]]
  OBVIOUS
<1>5. e \in [0 .. k -> 0 .. n] /\ e[0] = 0 /\ e[k] = n
  BY <1>1 DEF Cuts
<1>6. \A i \in 1 .. k : Stretch(ps[i], P, e[i - 1], e[i])
  BY <1>1 DEF Cuts
<1>7. f \in [0 .. k - 1 -> 0 .. n] /\ f[0] = 0 /\ f[k - 1] = n
  <2>1. ASSUME NEW i \in 0 .. k - 1 PROVE f[i] \in 0 .. n
    <3>1. i \in 0 .. k /\ i + 1 \in 0 .. k
      BY <1>1
    <3>. QED  BY <1>4, <1>5, <3>1
  <2>2. 0 \in 0 .. k - 1 /\ 0 < p
    BY <1>1
  <2>3. k - 1 \in 0 .. k - 1 /\ ~(k - 1 < p) /\ (k - 1) + 1 = k
    BY <1>1
  <2>. QED  BY <1>4, <1>5, <2>1, <2>2, <2>3
<1>8. ASSUME NEW i \in 1 .. k - 1 PROVE Stretch(q[i], P, f[i - 1], f[i])
  <2>0. i - 1 \in 0 .. k - 1 /\ i \in 0 .. k - 1 /\ i \in Nat /\ p \in Nat
    BY <1>1
  <2>1. CASE i < p
    <3>1. i \in 1 .. p - 1 /\ i - 1 < p /\ i \in 1 .. k
      BY <1>1, <2>0, <2>1
    <3>2. q[i] = ps[i] /\ f[i - 1] = e[i - 1] /\ f[i] = e[i]
      BY <1>3, <1>4, <2>0, <2>1, <3>1
    <3>. QED  BY <1>6, <3>1, <3>2
  <2>2. CASE i = p
    <3>1. i - 1 < p /\ ~(i < p) /\ i \in 1 .. k /\ i + 1 \in 1 .. k /\ (i + 1) - 1 = i
      BY <1>1, <2>0, <2>2
    <3>2. q[i] = Merged(ps[i], ps[i + 1]) /\ f[i - 1] = e[i - 1] /\ f[i] = e[i + 1]
      BY <1>3, <1>4, <2>0, <2>2, <3>1
    <3>3. Stretch(ps[i], P, e[i - 1], e[i]) /\ Stretch(ps[i + 1], P, e[i], e[i + 1])
      <4>1. Stretch(ps[i + 1], P, e[(i + 1) - 1], e[i + 1])
        BY <1>6, <3>1
      <4>. QED  BY <1>6, <3>1, <4>1
    <3>4. ps[i] \in Block /\ ps[i + 1] \in Block
      BY <1>1, <3>1, ElementOfSeq
    <3>5. e[i - 1] \in 0 .. n /\ e[i] \in 0 .. n /\ e[i + 1] \in 0 .. n
      <4>1. i - 1 \in 0 .. k /\ i \in 0 .. k /\ i + 1 \in 0 .. k
        BY <2>0, <3>1
      <4>. QED  BY <1>5, <4>1
    <3>. QED  BY <2>2, <3>2, <3>3, <3>4, <3>5, StretchesMerge
  <2>3. CASE i > p
    <3>1. /\ i \in p + 1 .. k - 1 /\ ~(i - 1 < p) /\ ~(i < p) /\ (i - 1) + 1 = i
          /\ i + 1 \in 1 .. k /\ (i + 1) - 1 = i
      BY <1>1, <2>0, <2>3
    <3>2. q[i] = ps[i + 1] /\ f[i - 1] = e[i] /\ f[i] = e[i + 1]
      BY <1>3, <1>4, <2>0, <3>1
    <3>3. Stretch(ps[i + 1], P, e[(i + 1) - 1], e[i + 1])
      BY <1>6, <3>1
    <3>. QED  BY <3>1, <3>2, <3>3
  <2>. QED  BY <2>0, <2>1, <2>2, <2>3
<1>9. Cuts(q, n, P, f)
  BY <1>3, <1>7, <1>8 DEF Cuts
<1>. QED  BY <1>2, <1>9

\* A recursive sum is the one that runs along
Totals(a, n, g, f) ==
    /\ DOMAIN f = a .. n /\ f[a] = 0
    /\ \A i \in a + 1 .. n : f[i] = f[i - 1] + g[i]

LEMMA TotalsAgree ==
    ASSUME NEW a \in Nat, NEW n \in Nat, a <= n, NEW g, NEW f, NEW h,
           Totals(a, n, g, f), Totals(a, n, g, h)
    PROVE  f[n] = h[n]
<1>. DEFINE S == {d \in Nat : a + d <= n => f[a + d] = h[a + d]}
<1>1. 0 \in S
  <2>1. a + 0 = a
    OBVIOUS
  <2>. QED  BY <2>1 DEF Totals
<1>2. ASSUME NEW d \in S PROVE d + 1 \in S
  <2>. SUFFICES ASSUME a + (d + 1) <= n PROVE f[a + (d + 1)] = h[a + (d + 1)]
    BY <1>2
  <2>1. PICK k \in Nat : k = a + (d + 1) /\ k - 1 = a + d /\ k - 1 <= n /\ k \in a + 1 .. n
    BY <1>2
  <2>2. f[k - 1] = h[k - 1]
    BY <1>2, <2>1
  <2>3. f[k] = f[k - 1] + g[k] /\ h[k] = h[k - 1] + g[k]
    BY <2>1 DEF Totals
  <2>. QED  BY <2>1, <2>2, <2>3
<1>3. S \in SUBSET Nat
  OBVIOUS
<1>. HIDE DEF S
<1>4. \A d \in S : d + 1 \in S
  BY <1>2
<1>5. S = Nat
  BY <1>1, <1>3, <1>4, SetOfNat
<1>6. n - a \in S /\ a + (n - a) = n
  BY <1>5
<1>. QED  BY <1>6 DEF S

LEMMA MeanIs ==
    ASSUME points \in Seq(Point), NEW n \in Nat, n = Len(points), NEW P, Tally(points, n, P),
           NEW s \in 1 .. n, NEW t \in s .. n
    PROVE  Mean(s, t) = <<P[t] - P[s - 1], t - s + 1>>
<1>. DEFINE Build(f) == [i \in (s - 1) .. t |-> IF i < s THEN 0 ELSE f[i - 1] + points[i].y]
            sum == CHOOSE f : f = Build(f)
<1>1. PICK g : g = [i \in 1 .. n |-> points[i].y]
  OBVIOUS
<1>2. PICK h : h = [i \in (s - 1) .. t |-> P[i] - P[s - 1]]
  OBVIOUS
<1>3. P \in [0 .. n -> Nat]
  BY DEF Tally
<1>4. /\ s - 1 \in Nat /\ t \in Nat /\ s - 1 <= t /\ s - 1 \in (s - 1) .. t /\ t \in (s - 1) .. t
      /\ s - 1 < s /\ \A i \in (s - 1) .. t : i \in 0 .. n
  OBVIOUS
<1>5. \A i \in (s - 1) + 1 .. t :
          i \in 1 .. n /\ i \in (s - 1) .. t /\ i - 1 \in (s - 1) .. t /\ ~(i < s)
  OBVIOUS
<1>6. \A i \in (s - 1) .. t : i < s => i = s - 1
  OBVIOUS
<1>7. \A i \in (s - 1) .. t : ~(i < s) => i \in (s - 1) + 1 .. t
  OBVIOUS
<1>8. h[s - 1] = 0
  BY <1>2, <1>3, <1>4
<1>9. ASSUME NEW i \in (s - 1) + 1 .. t PROVE h[i] = h[i - 1] + points[i].y
  <2>1. /\ i \in 1 .. n /\ i \in (s - 1) .. t /\ i - 1 \in (s - 1) .. t
    BY <1>5
  <2>2. P[i] = P[i - 1] + points[i].y
    BY <2>1 DEF Tally
  <2>3. h[i] = P[i] - P[s - 1] /\ h[i - 1] = P[i - 1] - P[s - 1]
    BY <1>2, <2>1
  <2>4. P[i] \in Nat /\ P[i - 1] \in Nat /\ P[s - 1] \in Nat
    BY <1>3, <1>4, <2>1
  <2>5. points[i].y \in Nat
    <3>1. points[i] \in Point
      BY <2>1, ElementOfSeq
    <3>. QED  BY <3>1 DEF Point
  <2>. QED  BY <2>2, <2>3, <2>4, <2>5
<1>10. h = Build(h)
  <2>1. ASSUME NEW i \in (s - 1) .. t
        PROVE  h[i] = IF i < s THEN 0 ELSE h[i - 1] + points[i].y
    BY <1>6, <1>7, <1>8, <1>9
  <2>. QED  BY <1>2, <2>1
<1>11. sum = Build(sum)
  BY <1>10
<1>12. Mean(s, t) = <<sum[t], t - s + 1>>
  BY DEF Mean
<1>. HIDE DEF sum
<1>13. DOMAIN sum = (s - 1) .. t
  BY <1>11
<1>14. \A i \in (s - 1) .. t : sum[i] = IF i < s THEN 0 ELSE sum[i - 1] + points[i].y
  BY <1>11
<1>15. Totals(s - 1, t, g, sum)
  <2>1. sum[s - 1] = 0
    BY <1>4, <1>14
  <2>2. ASSUME NEW i \in (s - 1) + 1 .. t PROVE sum[i] = sum[i - 1] + g[i]
    BY <1>1, <1>5, <1>14
  <2>. QED  BY <1>13, <2>1, <2>2 DEF Totals
<1>16. Totals(s - 1, t, g, h)
  <2>1. ASSUME NEW i \in (s - 1) + 1 .. t PROVE h[i] = h[i - 1] + g[i]
    BY <1>1, <1>5, <1>9
  <2>. QED  BY <1>2, <1>8, <2>1 DEF Totals
<1>17. sum[t] = h[t]
  BY <1>4, <1>15, <1>16, TotalsAgree
<1>. QED  BY <1>2, <1>4, <1>12, <1>17

LEMMA UptoIs ==
    ASSUME pools \in Seq(Block), NEW n \in Nat, NEW P, NEW e, Cuts(pools, n, P, e),
           NEW k \in 0 .. Len(pools)
    PROVE  Upto(k) = e[k]
<1>. DEFINE Build(f) == [i \in 0 .. k |-> IF i = 0 THEN 0 ELSE f[i - 1] + pools[i].w]
            sum == CHOOSE f : f = Build(f)
<1>1. PICK m \in Nat : m = Len(pools) /\ k \in 0 .. m
  OBVIOUS
<1>2. PICK g : g = [i \in 1 .. m |-> pools[i].w]
  OBVIOUS
<1>3. PICK h : h = [i \in 0 .. k |-> e[i]]
  OBVIOUS
<1>4. e \in [0 .. m -> 0 .. n] /\ e[0] = 0
  BY <1>1 DEF Cuts
<1>5. /\ k \in Nat /\ 0 <= k /\ 0 \in 0 .. k /\ k \in 0 .. k
      /\ \A i \in 0 + 1 .. k : i \in 1 .. m /\ i \in 0 .. k /\ i - 1 \in 0 .. k /\ i # 0
      /\ \A i \in 0 .. k : i # 0 => i \in 0 + 1 .. k
  BY <1>1
<1>6. h[0] = 0
  BY <1>3, <1>4, <1>5
<1>7. ASSUME NEW i \in 0 + 1 .. k PROVE h[i] = h[i - 1] + pools[i].w
  <2>1. i \in 1 .. m /\ i \in 0 .. m /\ i - 1 \in 0 .. m
    BY <1>1
  <2>2. pools[i].w = e[i] - e[i - 1]
    BY <1>1, <2>1 DEF Cuts, Stretch
  <2>3. e[i] \in Int /\ e[i - 1] \in Int
    BY <1>4, <2>1
  <2>4. h[i] = e[i] /\ h[i - 1] = e[i - 1]
    BY <1>3, <1>5
  <2>. QED  BY <2>2, <2>3, <2>4
<1>8. h = Build(h)
  <2>1. ASSUME NEW i \in 0 .. k PROVE h[i] = IF i = 0 THEN 0 ELSE h[i - 1] + pools[i].w
    BY <1>5, <1>6, <1>7
  <2>. QED  BY <1>3, <2>1
<1>9. sum = Build(sum)
  BY <1>8
<1>10. Upto(k) = sum[k]
  BY DEF Upto
<1>. HIDE DEF sum
<1>11. DOMAIN sum = 0 .. k
  BY <1>9
<1>12. \A i \in 0 .. k : sum[i] = IF i = 0 THEN 0 ELSE sum[i - 1] + pools[i].w
  BY <1>9
<1>13. Totals(0, k, g, sum)
  <2>1. ASSUME NEW i \in 0 + 1 .. k PROVE sum[i] = sum[i - 1] + g[i]
    BY <1>2, <1>5, <1>12
  <2>. QED  BY <1>5, <1>11, <1>12, <2>1 DEF Totals
<1>14. Totals(0, k, g, h)
  <2>1. ASSUME NEW i \in 0 + 1 .. k PROVE h[i] = h[i - 1] + g[i]
    BY <1>2, <1>5, <1>7
  <2>. QED  BY <1>3, <1>6, <2>1 DEF Totals
<1>15. sum[k] = h[k]
  BY <1>5, <1>13, <1>14, TotalsAgree
<1>. QED  BY <1>3, <1>5, <1>10, <1>15
-----------------------------------------------------------------------------
(***************************************************************************)
(* The regression.  Measured from the value c / w of the block a pair is    *)
(* in, the running total only rises over the blocks from there on and only  *)
(* falls over the blocks up to there: so no stretch that begins with the    *)
(* block has a lower mean, and none that ends with it a higher one.        *)
(***************************************************************************)
Height(P, c, w, i) == P[i] * w - c * i

LEMMA HeightIs ==
    ASSUME NEW n \in Nat, NEW P \in [0 .. n -> Nat], NEW c \in Nat, NEW w \in Nat,
           NEW i \in 0 .. n, NEW j \in 0 .. n
    PROVE  /\ Height(P, c, w, i) \in Int
           /\ Height(P, c, w, i) <= Height(P, c, w, j) <=> c * (j - i) <= (P[j] - P[i]) * w
<1>1. PICK a \in Nat : a = P[i]
  OBVIOUS
<1>2. PICK b \in Nat : b = P[j]
  OBVIOUS
<1>3. c * (j - i) = c * j - c * i /\ (b - a) * w = b * w - a * w
  OBVIOUS
<1>4. c * j \in Int /\ c * i \in Int /\ b * w \in Int /\ a * w \in Int
  OBVIOUS
<1>5. Height(P, c, w, i) = a * w - c * i /\ Height(P, c, w, j) = b * w - c * j
  BY <1>1, <1>2 DEF Height
<1>6. a * w - c * i <= b * w - c * j <=> c * (j - i) <= (b - a) * w
  BY <1>3, <1>4
<1>. QED  BY <1>1, <1>2, <1>4, <1>5, <1>6

LEMMA HeightRises ==
    ASSUME NEW n \in Nat, NEW P \in [0 .. n -> Nat], NEW c \in Nat, NEW w \in Nat \ {0},
           NEW b \in Block, c * b.w <= b.sumY * w,
           NEW l \in 0 .. n, NEW r \in 0 .. n, Stretch(b, P, l, r), NEW i \in l .. r
    PROVE  Height(P, c, w, l) <= Height(P, c, w, i)
<1>1. PICK s \in Nat, v \in Nat \ {0} : s = b.sumY /\ v = b.w
  BY DEF Block
<1>2. i \in 0 .. n /\ P[i] \in Nat /\ P[l] \in Nat
  OBVIOUS
<1>3. c * (i - l) <= (P[i] - P[l]) * w
  <2>1. CASE i = l
    <3>1. i - l = 0 /\ P[i] - P[l] = 0 /\ c * 0 = 0 /\ 0 * w = 0
      BY <1>2, <2>1
    <3>. QED  BY <3>1
  <2>2. CASE i # l
    <3>1. i \in l + 1 .. r /\ i - l \in Nat \ {0} /\ P[i] - P[l] \in Int
      BY <1>2, <2>2
    <3>2. s * (i - l) <= (P[i] - P[l]) * v
      BY <1>1, <3>1 DEF Stretch
    <3>3. c * v <= s * w
      BY <1>1
    <3>4. PICK d \in Nat \ {0} : d = i - l
      BY <3>1
    <3>5. PICK t \in Int : t = P[i] - P[l]
      BY <3>1
    <3>6. s * d <= t * v
      BY <3>2, <3>4, <3>5
    <3>7. c * d <= t * w
      <4>1. <<t, d>> \in Frac /\ <<s, v>> \in Frac /\ <<c, w>> \in Frac
        BY DEF Frac
      <4>2. Leq(<<c, w>>, <<s, v>>) /\ Leq(<<s, v>>, <<t, d>>)
        BY <3>3, <3>6 DEF Leq
      <4>3. Leq(<<c, w>>, <<t, d>>)
        BY <4>1, <4>2, LeqTrans
      <4>. QED  BY <4>3 DEF Leq
    <3>. QED  BY <3>4, <3>5, <3>7
  <2>. QED  BY <2>1, <2>2
<1>. QED  BY <1>2, <1>3, HeightIs

LEMMA HeightFalls ==
    ASSUME NEW n \in Nat, NEW P \in [0 .. n -> Nat], NEW c \in Nat, NEW w \in Nat \ {0},
           NEW b \in Block, b.sumY * w <= c * b.w,
           NEW l \in 0 .. n, NEW r \in 0 .. n, Stretch(b, P, l, r), NEW i \in l .. r
    PROVE  Height(P, c, w, r) <= Height(P, c, w, i)
<1>1. PICK s \in Nat, v \in Nat \ {0} : s = b.sumY /\ v = b.w
  BY DEF Block
<1>2. /\ i \in 0 .. n /\ P[i] \in Nat /\ P[l] \in Nat /\ P[r] \in Nat
      /\ s = P[r] - P[l] /\ v = r - l
  BY <1>1 DEF Stretch
<1>3. ASSUME i # r PROVE (P[r] - P[i]) * w <= c * (r - i)
  <2>1. r - i \in Nat \ {0} /\ P[r] - P[i] \in Int
    BY <1>2, <1>3
  <2>2. (P[r] - P[i]) * v <= s * (r - i)
    <3>1. PICK d \in Nat : d = i - l /\ r - i = v - d
      BY <1>2
    <3>0. PICK t : t = P[i] - P[l]
      OBVIOUS
    <3>2. t \in Int /\ t = P[i] - P[l] /\ P[r] - P[i] = s - t
      BY <1>2, <3>0
    <3>3. s * d <= t * v
      <4>1. CASE d = 0
        <5>1. i = l
          BY <3>1, <4>1
        <5>2. t = 0
          BY <1>2, <3>2, <5>1
        <5>3. s * 0 = 0 /\ 0 * v = 0
          OBVIOUS
        <5>. QED  BY <4>1, <5>2, <5>3
      <4>2. CASE d # 0
        <5>1. i \in l + 1 .. r
          BY <3>1, <4>2
        <5>. QED  BY <1>1, <3>1, <3>2, <5>1 DEF Stretch
      <4>. QED  BY <4>1, <4>2
    <3>4. (s - t) * v = s * v - t * v /\ s * (v - d) = s * v - s * d
      BY <3>2
    <3>5. s * v \in Int /\ t * v \in Int /\ s * d \in Int
      BY <3>2
    <3>6. (s - t) * v <= s * (v - d)
      BY <3>3, <3>4, <3>5
    <3>. QED  BY <3>1, <3>2, <3>6
  <2>3. s * w <= c * v
    BY <1>1
  <2>4. PICK d \in Nat \ {0} : d = r - i
    BY <2>1
  <2>5. PICK t \in Int : t = P[r] - P[i]
    BY <2>1
  <2>6. t * v <= s * d
    BY <2>2, <2>4, <2>5
  <2>7. t * w <= c * d
    <3>1. <<t, d>> \in Frac /\ <<s, v>> \in Frac /\ <<c, w>> \in Frac
      BY DEF Frac
    <3>2. Leq(<<t, d>>, <<s, v>>) /\ Leq(<<s, v>>, <<c, w>>)
      BY <2>3, <2>6 DEF Leq
    <3>3. Leq(<<t, d>>, <<c, w>>)
      BY <3>1, <3>2, LeqTrans
    <3>. QED  BY <3>3 DEF Leq
  <2>. QED  BY <2>4, <2>5, <2>7
<1>4. Height(P, c, w, r) \in Int /\ Height(P, c, w, i) \in Int
  BY <1>2, HeightIs
<1>5. CASE i = r
  BY <1>4, <1>5
<1>6. CASE i # r
  <2>1. PICK g \in Nat, h \in Nat : g = P[r] /\ h = P[i]
    BY <1>2
  <2>2. (g - h) * w <= c * (r - i)
    BY <1>3, <1>6, <2>1
  <2>3. (g - h) * w = g * w - h * w /\ c * (r - i) = c * r - c * i
    OBVIOUS
  <2>4. g * w \in Int /\ h * w \in Int /\ c * r \in Int /\ c * i \in Int
    OBVIOUS
  <2>5. g * w - c * r <= h * w - c * i
    BY <2>2, <2>3, <2>4
  <2>. QED  BY <2>1, <2>5 DEF Height
<1>. QED  BY <1>5, <1>6

\* Edges ascend, and every pair is in the block PoolOf names
LEMMA EdgesAscend ==
    ASSUME NEW ps \in Seq(Block), NEW n \in Nat, NEW P, NEW e, Cuts(ps, n, P, e),
           NEW i \in 0 .. Len(ps), NEW j \in i .. Len(ps)
    PROVE  e[i] <= e[j]
<1>1. PICK m \in Nat : m = Len(ps)
  OBVIOUS
<1>2. e \in [0 .. m -> 0 .. n]
  BY <1>1 DEF Cuts
<1>. DEFINE S == {d \in Nat : i + d <= m => e[i] <= e[i + d]}
<1>3. 0 \in S
  <2>1. i + 0 = i /\ e[i] \in Int
    BY <1>1, <1>2
  <2>. QED  BY <2>1
<1>4. ASSUME NEW d \in S PROVE d + 1 \in S
  <2>. SUFFICES ASSUME i + (d + 1) <= m PROVE e[i] <= e[i + (d + 1)]
    BY <1>4
  <2>1. PICK k \in Nat : k = i + (d + 1) /\ k - 1 = i + d /\ k - 1 <= m /\ k \in 1 .. m
    BY <1>1, <1>4
  <2>2. e[i] <= e[k - 1]
    BY <1>4, <2>1
  <2>3. e[k - 1] < e[k]
    BY <1>1, <2>1 DEF Cuts, Stretch
  <2>4. e[i] \in Int /\ e[k - 1] \in Int /\ e[k] \in Int
    <3>1. i \in 0 .. m /\ k - 1 \in 0 .. m /\ k \in 0 .. m
      BY <1>1, <2>1
    <3>. QED  BY <1>2, <3>1
  <2>. QED  BY <2>1, <2>2, <2>3, <2>4
<1>5. S \in SUBSET Nat
  OBVIOUS
<1>. HIDE DEF S
<1>6. \A d \in S : d + 1 \in S
  BY <1>4
<1>7. S = Nat
  BY <1>3, <1>5, <1>6, SetOfNat
<1>8. j - i \in S /\ i + (j - i) = j /\ j <= m
  BY <1>1, <1>7
<1>. QED  BY <1>8 DEF S

LEMMA BlockOfPair ==
    ASSUME NEW ps \in Seq(Block), Len(ps) >= 1, NEW n \in Nat, NEW P, NEW e, Cuts(ps, n, P, e),
           NEW j \in 1 .. n
    PROVE  \E k \in 1 .. Len(ps) : e[k - 1] < j /\ j <= e[k]
<1>1. PICK m \in Nat : m = Len(ps) /\ m >= 1
  OBVIOUS
<1>2. e \in [0 .. m -> 0 .. n] /\ e[0] = 0 /\ e[m] = n
  BY <1>1 DEF Cuts
<1>. DEFINE S == {i \in Nat : i \in 1 .. m /\ j <= e[i]}
<1>3. S \in SUBSET Nat /\ S # {}
  <2>1. m \in S
    BY <1>1, <1>2
  <2>. QED  BY <2>1
<1>4. PICK k \in S : \A i \in S : k <= i
  <2>. HIDE DEF S
  <2>. QED  BY <1>3, LeastOfNat
<1>5. k \in 1 .. m /\ j <= e[k] /\ k \in Nat
  BY <1>4
<1>6. e[k - 1] < j
  <2>1. CASE k = 1
    BY <1>2, <2>1
  <2>2. CASE k # 1
    <3>1. k - 1 \in Nat /\ k - 1 \in 1 .. m /\ ~(k <= k - 1) /\ k - 1 \in 0 .. m
      BY <1>5, <2>2
    <3>2. ~(j <= e[k - 1])
      BY <1>4, <3>1
    <3>3. e[k - 1] \in Int
      BY <1>2, <3>1
    <3>. QED  BY <3>2, <3>3
  <2>. QED  BY <2>1, <2>2
<1>. QED  BY <1>1, <1>5, <1>6
LEMMA BlockStretch ==
    ASSUME NEW ps \in Seq(Block), NEW n \in Nat, NEW P, NEW e, Cuts(ps, n, P, e),
           NEW k \in 1 .. Len(ps)
    PROVE  /\ ps[k] \in Block /\ e[k - 1] \in 0 .. n /\ e[k] \in 0 .. n
           /\ Stretch(ps[k], P, e[k - 1], e[k]) /\ e[k - 1] < e[k]
<1>1. PICK m \in Nat : m = Len(ps) /\ k \in 1 .. m /\ k - 1 \in 0 .. m /\ k \in 0 .. m
  OBVIOUS
<1>2. e \in [0 .. m -> 0 .. n]
  BY <1>1 DEF Cuts
<1>3. Stretch(ps[k], P, e[k - 1], e[k])
  BY DEF Cuts
<1>4. e[k - 1] < e[k]
  BY <1>3 DEF Stretch
<1>5. ps[k] \in Block
  BY ElementOfSeq
<1>. QED  BY <1>1, <1>2, <1>3, <1>4, <1>5

LEMMA Compared ==
    ASSUME NEW ps, Ascends(ps, Len(ps)), NEW i \in 1 .. Len(ps), NEW j \in i .. Len(ps)
    PROVE  ps[i].sumY * ps[j].w <= ps[j].sumY * ps[i].w
<1>1. ps \in Seq(Block) /\ Len(ps) \in Nat
  BY DEF Ascends
<1>2. Leq(Y(ps[i]), Y(ps[j]))
  BY <1>1, ValuesAscend
<1>. QED  BY <1>2 DEF Leq, Y

LEMMA RisesFrom ==
    ASSUME NEW ps, Ascends(ps, Len(ps)), NEW n \in Nat, NEW P \in [0 .. n -> Nat], NEW e,
           Cuts(ps, n, P, e), NEW k \in 1 .. Len(ps), NEW j \in k .. Len(ps)
    PROVE  Height(P, ps[k].sumY, ps[k].w, e[k - 1]) <= Height(P, ps[k].sumY, ps[k].w, e[j - 1])
<1>1. PICK m \in Nat : m = Len(ps) /\ k \in 1 .. m
  BY DEF Ascends
<1>2. ps \in Seq(Block)
  BY DEF Ascends
<1>3. \A i \in 1 .. m : /\ ps[i] \in Block /\ e[i - 1] \in 0 .. n /\ e[i] \in 0 .. n
                        /\ Stretch(ps[i], P, e[i - 1], e[i]) /\ e[i - 1] < e[i]
  BY <1>1, <1>2, BlockStretch
<1>4. PICK c \in Nat, w \in Nat \ {0} : c = ps[k].sumY /\ w = ps[k].w
  BY <1>1, <1>3 DEF Block
<1>. DEFINE H(i) == Height(P, c, w, e[i - 1])
            S == {d \in Nat : k + d <= m => H(k) <= H(k + d)}
<1>5. \A i \in 1 .. m : H(i) \in Int
  BY <1>3, HeightIs
<1>6. 0 \in S
  <2>. HIDE DEF H
  <2>1. k + 0 = k /\ H(k) \in Int
    BY <1>1, <1>5
  <2>. QED  BY <2>1
<1>7. ASSUME NEW d \in S PROVE d + 1 \in S
  <2>. SUFFICES ASSUME k + (d + 1) <= m PROVE H(k) <= H(k + (d + 1))
    BY <1>7
  <2>1. PICK i \in Nat : /\ i = k + d /\ i + 1 = k + (d + 1) /\ (i + 1) - 1 = i
                         /\ i \in k .. m /\ i \in 1 .. m /\ i + 1 \in 1 .. m
    BY <1>1, <1>7
  <2>2. H(k) <= H(i)
    <3>. HIDE DEF H
    <3>. QED  BY <1>7, <2>1
  <2>3. c * ps[i].w <= ps[i].sumY * w
    BY <1>1, <1>4, <2>1, Compared
  <2>4. Height(P, c, w, e[i - 1]) <= Height(P, c, w, e[i])
    <3>1. e[i] \in e[i - 1] .. e[i]
      BY <1>3, <2>1
    <3>. QED  BY <1>3, <2>1, <2>3, <3>1, HeightRises
  <2>5. H(i) <= H(i + 1)
    BY <2>1, <2>4
  <2>. HIDE DEF H
  <2>. QED  BY <1>1, <1>5, <2>1, <2>2, <2>5
<1>8. S \in SUBSET Nat
  OBVIOUS
<1>. HIDE DEF S
<1>9. \A d \in S : d + 1 \in S
  BY <1>7
<1>10. S = Nat
  BY <1>6, <1>8, <1>9, SetOfNat
<1>11. j - k \in S /\ k + (j - k) = j /\ j <= m
  BY <1>1, <1>10
<1>12. H(k) <= H(j)
  <2>. HIDE DEF H
  <2>. QED  BY <1>11 DEF S
<1>. QED  BY <1>4, <1>12

LEMMA FallsTo ==
    ASSUME NEW ps, Ascends(ps, Len(ps)), NEW n \in Nat, NEW P \in [0 .. n -> Nat], NEW e,
           Cuts(ps, n, P, e), NEW k \in 1 .. Len(ps), NEW j \in 1 .. k
    PROVE  Height(P, ps[k].sumY, ps[k].w, e[k]) <= Height(P, ps[k].sumY, ps[k].w, e[j])
<1>1. PICK m \in Nat : m = Len(ps) /\ k \in 1 .. m
  BY DEF Ascends
<1>2. ps \in Seq(Block)
  BY DEF Ascends
<1>3. \A i \in 1 .. m : /\ ps[i] \in Block /\ e[i - 1] \in 0 .. n /\ e[i] \in 0 .. n
                        /\ Stretch(ps[i], P, e[i - 1], e[i]) /\ e[i - 1] < e[i]
  BY <1>1, <1>2, BlockStretch
<1>4. PICK c \in Nat, w \in Nat \ {0} : c = ps[k].sumY /\ w = ps[k].w
  BY <1>1, <1>3 DEF Block
<1>. DEFINE H(i) == Height(P, c, w, e[i])
            S == {d \in Nat : 1 <= k - d => H(k) <= H(k - d)}
<1>5. \A i \in 1 .. m : H(i) \in Int
  BY <1>3, HeightIs
<1>6. 0 \in S
  <2>. HIDE DEF H
  <2>1. k - 0 = k /\ H(k) \in Int
    BY <1>1, <1>5
  <2>. QED  BY <2>1
<1>7. ASSUME NEW d \in S PROVE d + 1 \in S
  <2>. SUFFICES ASSUME 1 <= k - (d + 1) PROVE H(k) <= H(k - (d + 1))
    BY <1>7
  <2>1. PICK i \in Nat : /\ i = k - d /\ i - 1 = k - (d + 1) /\ 1 <= i
                         /\ k \in i .. m /\ i \in 1 .. m /\ i - 1 \in 1 .. m
    BY <1>1, <1>7
  <2>2. H(k) <= H(i)
    <3>. HIDE DEF H
    <3>. QED  BY <1>7, <2>1
  <2>3. ps[i].sumY * w <= c * ps[i].w
    BY <1>1, <1>4, <2>1, Compared
  <2>4. Height(P, c, w, e[i]) <= Height(P, c, w, e[i - 1])
    <3>1. e[i - 1] \in e[i - 1] .. e[i]
      BY <1>3, <2>1
    <3>. QED  BY <1>3, <2>1, <2>3, <3>1, HeightFalls
  <2>5. H(i) <= H(i - 1)
    BY <2>4
  <2>. HIDE DEF H
  <2>. QED  BY <1>1, <1>5, <2>1, <2>2, <2>5
<1>8. S \in SUBSET Nat
  OBVIOUS
<1>. HIDE DEF S
<1>9. \A d \in S : d + 1 \in S
  BY <1>7
<1>10. S = Nat
  BY <1>6, <1>8, <1>9, SetOfNat
<1>11. k - j \in S /\ k - (k - j) = j /\ 1 <= j
  BY <1>1, <1>10
<1>12. H(k) <= H(j)
  <2>. HIDE DEF H
  <2>. QED  BY <1>11 DEF S
<1>. QED  BY <1>4, <1>12

\* No stretch from the block's beginning to pair j or beyond is below its value
LEMMA NoneBelow ==
    ASSUME NEW ps, Ascends(ps, Len(ps)), NEW n \in Nat, NEW P \in [0 .. n -> Nat], NEW e,
           Cuts(ps, n, P, e), NEW k \in 1 .. Len(ps), NEW t \in 1 .. n, e[k - 1] < t
    PROVE  ps[k].sumY * (t - e[k - 1]) <= (P[t] - P[e[k - 1]]) * ps[k].w
<1>1. ps \in Seq(Block) /\ Len(ps) >= 1 /\ Len(ps) \in Nat
  BY DEF Ascends
<1>2. PICK i \in 1 .. Len(ps) : e[i - 1] < t /\ t <= e[i]
  BY <1>1, BlockOfPair
<1>3. /\ ps[k] \in Block /\ e[k - 1] \in 0 .. n /\ e[k] \in 0 .. n
      /\ ps[i] \in Block /\ e[i - 1] \in 0 .. n /\ e[i] \in 0 .. n
      /\ Stretch(ps[i], P, e[i - 1], e[i])
  BY <1>1, BlockStretch
<1>4. k <= i
  <2>. SUFFICES ASSUME i < k PROVE FALSE
    BY <1>1
  <2>1. i \in 0 .. Len(ps) /\ k - 1 \in i .. Len(ps)
    BY <1>1
  <2>2. e[i] <= e[k - 1]
    BY <1>1, <2>1, EdgesAscend
  <2>. QED  BY <1>2, <1>3, <2>2
<1>5. PICK c \in Nat, w \in Nat \ {0} : c = ps[k].sumY /\ w = ps[k].w
  BY <1>3 DEF Block
<1>6. i \in k .. Len(ps)
  BY <1>1, <1>4
<1>7. Height(P, c, w, e[k - 1]) <= Height(P, c, w, e[i - 1])
  BY <1>5, <1>6, RisesFrom
<1>8. c * ps[i].w <= ps[i].sumY * w
  BY <1>5, <1>6, Compared
<1>9. t \in e[i - 1] .. e[i] /\ t \in 0 .. n
  BY <1>2, <1>3
<1>10. Height(P, c, w, e[i - 1]) <= Height(P, c, w, t)
  BY <1>3, <1>8, <1>9, HeightRises
<1>11. Height(P, c, w, e[k - 1]) <= Height(P, c, w, t)
  <2>1. /\ Height(P, c, w, e[k - 1]) \in Int /\ Height(P, c, w, e[i - 1]) \in Int
        /\ Height(P, c, w, t) \in Int
    BY <1>3, <1>9, HeightIs
  <2>. QED  BY <1>7, <1>10, <2>1
<1>. QED  BY <1>3, <1>5, <1>9, <1>11, HeightIs

\* No stretch from pair s at or before it to the block's end is above its value
LEMMA NoneAbove ==
    ASSUME NEW ps, Ascends(ps, Len(ps)), NEW n \in Nat, NEW P \in [0 .. n -> Nat], NEW e,
           Cuts(ps, n, P, e), NEW k \in 1 .. Len(ps), NEW s \in 1 .. n, s <= e[k]
    PROVE  (P[e[k]] - P[s - 1]) * ps[k].w <= ps[k].sumY * (e[k] - (s - 1))
<1>1. ps \in Seq(Block) /\ Len(ps) >= 1 /\ Len(ps) \in Nat
  BY DEF Ascends
<1>2. PICK i \in 1 .. Len(ps) : e[i - 1] < s /\ s <= e[i]
  BY <1>1, BlockOfPair
<1>3. /\ ps[k] \in Block /\ e[k - 1] \in 0 .. n /\ e[k] \in 0 .. n
      /\ ps[i] \in Block /\ e[i - 1] \in 0 .. n /\ e[i] \in 0 .. n
      /\ Stretch(ps[i], P, e[i - 1], e[i])
  BY <1>1, BlockStretch
<1>4. i <= k
  <2>. SUFFICES ASSUME k < i PROVE FALSE
    BY <1>1
  <2>1. k \in 0 .. Len(ps) /\ i - 1 \in k .. Len(ps)
    BY <1>1
  <2>2. e[k] <= e[i - 1]
    BY <1>1, <2>1, EdgesAscend
  <2>. QED  BY <1>2, <1>3, <2>2
<1>5. PICK c \in Nat, w \in Nat \ {0} : c = ps[k].sumY /\ w = ps[k].w
  BY <1>3 DEF Block
<1>6. i \in 1 .. k /\ k \in i .. Len(ps)
  BY <1>1, <1>4
<1>7. Height(P, c, w, e[k]) <= Height(P, c, w, e[i])
  BY <1>5, <1>6, FallsTo
<1>8. ps[i].sumY * w <= c * ps[i].w
  BY <1>5, <1>6, Compared
<1>9. PICK q \in 0 .. n : q = s - 1 /\ q \in e[i - 1] .. e[i]
  <2>1. PICK a \in 0 .. n, b \in 0 .. n : a = e[i - 1] /\ b = e[i]
    BY <1>3
  <2>2. a < s /\ s <= b
    BY <1>2, <2>1
  <2>3. s - 1 \in 0 .. n /\ s - 1 \in a .. b
    BY <2>2
  <2>. QED  BY <2>1, <2>3
<1>10. Height(P, c, w, e[i]) <= Height(P, c, w, q)
  BY <1>3, <1>8, <1>9, HeightFalls
<1>11. Height(P, c, w, e[k]) <= Height(P, c, w, q)
  <2>1. /\ Height(P, c, w, e[k]) \in Int /\ Height(P, c, w, e[i]) \in Int
        /\ Height(P, c, w, q) \in Int
    BY <1>3, <1>9, HeightIs
  <2>. QED  BY <1>7, <1>10, <2>1
<1>12. PICK r \in 0 .. n : r = e[k]
  BY <1>3
<1>13. P[r] * w - c * r <= P[q] * w - c * q
  BY <1>11, <1>12 DEF Height
<1>14. (P[r] - P[q]) * w <= c * (r - q)
  <2>1. PICK g \in Nat, h \in Nat : g = P[r] /\ h = P[q]
    OBVIOUS
  <2>2. (g - h) * w = g * w - h * w /\ c * (r - q) = c * r - c * q
    OBVIOUS
  <2>3. g * w \in Int /\ h * w \in Int /\ c * r \in Int /\ c * q \in Int
    OBVIOUS
  <2>5. g * w - c * r <= h * w - c * q
    BY <1>13, <2>1
  <2>4. (g - h) * w <= c * (r - q)
    BY <2>2, <2>3, <2>5
  <2>. QED  BY <2>1, <2>4
<1>. QED  BY <1>5, <1>9, <1>12, <1>14
-----------------------------------------------------------------------------
(***************************************************************************)
(* The invariant of the loop, and what it ends with.                       *)
(***************************************************************************)
FitInv ==
    /\ points \in Seq(Point) /\ pos \in 1 .. Len(pools) /\ Ascends(pools, pos)
    /\ \E P, e : Tally(points, Len(points), P) /\ Cuts(pools, Len(points), P, e)

LEMMA InitFitInv == FitInit => FitInv
<1>. SUFFICES ASSUME FitInit PROVE FitInv
  OBVIOUS
<1>1. PICK n \in 1 .. MaxPoints : points \in [1 .. n -> Point]
  BY DEF FitInit
<1>2. \A i \in 1 .. Len(points) - 1 : points[i].x <= points[i + 1].x
  BY DEF FitInit
<1>3. n \in Nat /\ n >= 1
  BY CalibrationAssumption
<1>4. points \in Seq(Point) /\ Len(points) = n
  BY <1>1, <1>3
<1>4a. \A i \in 1 .. n - 1 : points[i].x <= points[i + 1].x
  <2>1. Len(points) = n
    BY <1>4
  <2>. QED  BY <1>2, <2>1
<1>5. pools = [i \in 1 .. n |-> [sumX |-> points[i].x, sumY |-> points[i].y, w |-> 1]] /\ pos = 1
  BY <1>1 DEF FitInit
<1>6. \A i \in 1 .. n : points[i].x \in Nat /\ points[i].y \in Nat
  <2>1. ASSUME NEW i \in 1 .. n PROVE points[i].x \in Nat /\ points[i].y \in Nat
    <3>1. points[i] \in Point
      BY <1>1
    <3>2. \A m \in 0 .. MaxScore : m \in Nat
      BY CalibrationAssumption
    <3>. QED  BY <3>1, <3>2 DEF Point
  <2>. QED  BY <2>1
<1>7. \A i \in 1 .. n : /\ pools[i] \in Block /\ pools[i].sumX = points[i].x
                        /\ pools[i].sumY = points[i].y /\ pools[i].w = 1
  <2>1. ASSUME NEW i \in 1 .. n
        PROVE  /\ pools[i] \in Block /\ pools[i].sumX = points[i].x
               /\ pools[i].sumY = points[i].y /\ pools[i].w = 1
    <3>1. pools[i] = [sumX |-> points[i].x, sumY |-> points[i].y, w |-> 1]
      BY <1>5
    <3>2. points[i].x \in Nat /\ points[i].y \in Nat /\ 1 \in Nat \ {0}
      BY <1>6
    <3>. QED  BY <3>1, <3>2 DEF Block
  <2>. QED  BY <2>1
<1>8. pools \in Seq(Block) /\ Len(pools) = n
  <2>1. pools \in [1 .. n -> Block]
    BY <1>5, <1>7
  <2>. QED  BY <1>3, <2>1
<1>9. \A i \in 1 .. n - 1 : Leq(X(pools[i]), X(pools[i + 1]))
  <2>1. ASSUME NEW i \in 1 .. n - 1 PROVE Leq(X(pools[i]), X(pools[i + 1]))
    <3>1. i \in 1 .. n /\ i + 1 \in 1 .. n /\ points[i].x <= points[i + 1].x
      BY <1>3, <1>4a
    <3>2. X(pools[i]) = <<points[i].x, 1>> /\ X(pools[i + 1]) = <<points[i + 1].x, 1>>
      BY <1>7, <3>1 DEF X
    <3>. QED  BY <1>6, <3>1, <3>2 DEF Leq
  <2>. QED  BY <2>1
<1>10. Ascends(pools, pos) /\ pos \in 1 .. Len(pools)
  <2>1. \A i \in 1 .. pos - 1 : FALSE
    BY <1>5
  <2>2. \A i \in 1 .. Len(pools) - 1 : Leq(X(pools[i]), X(pools[i + 1]))
    BY <1>8, <1>9
  <2>3. Ascends(pools, pos)
    BY <1>3, <1>8, <2>1, <2>2 DEF Ascends
  <2>4. pos = 1 /\ 1 \in 1 .. n
    BY <1>3, <1>5
  <2>. QED  BY <1>8, <2>3, <2>4
<1>11. PICK P : Tally(points, n, P)
  BY <1>4, TallyExists
<1>12. PICK e : e = [i \in 0 .. n |-> i]
  OBVIOUS
<1>13. ASSUME NEW k \in 1 .. n PROVE Stretch(pools[k], P, e[k - 1], e[k])
  <2>1. e[k - 1] = k - 1 /\ e[k] = k
    BY <1>3, <1>12
  <2>2. P[k] \in Nat /\ P[k - 1] \in Nat /\ P[k] = P[k - 1] + points[k].y
    BY <1>3, <1>11 DEF Tally
  <2>3. pools[k].w = 1 /\ pools[k].sumY = points[k].y /\ points[k].y \in Nat
    BY <1>6, <1>7
  <2>4. pools[k].sumY = P[k] - P[k - 1] /\ pools[k].sumY \in Nat
    BY <2>2, <2>3
  <2>5. ASSUME NEW t \in (k - 1) + 1 .. k
        PROVE  pools[k].sumY * (t - (k - 1)) <= (P[t] - P[k - 1]) * pools[k].w
    <3>1. t = k /\ t - (k - 1) = 1
      OBVIOUS
    <3>2. PICK s \in Nat : s = pools[k].sumY
      BY <2>4
    <3>3. s * 1 <= s * 1
      OBVIOUS
    <3>. QED  BY <2>3, <2>4, <3>1, <3>2, <3>3
  <2>. QED  BY <2>1, <2>3, <2>4, <2>5 DEF Stretch
<1>14. Cuts(pools, n, P, e)
  <2>1. e \in [0 .. n -> 0 .. n] /\ e[0] = 0 /\ e[n] = n
    BY <1>3, <1>12
  <2>. QED  BY <1>8, <1>13, <2>1 DEF Cuts
<1>. QED  BY <1>4, <1>10, <1>11, <1>14 DEF FitInv

LEMMA PoolKeeps == ASSUME FitInv, Pool PROVE FitInv'
<1>1. /\ pos < Len(pools) /\ Violates(pools[pos], pools[pos + 1])
      /\ pools' = Pooled(pools, pos) /\ pos' = StepBack(pos) /\ points' = points
  <2>1. Len(pools) \in Nat /\ pos \in Nat
    BY DEF FitInv, Ascends
  <2>. QED  BY <2>1 DEF Pool, Fitted, Pooled
<1>2. /\ points \in Seq(Point) /\ pos \in 1 .. Len(pools) /\ Ascends(pools, pos)
      /\ \E P, e : Tally(points, Len(points), P) /\ Cuts(pools, Len(points), P, e)
  BY DEF FitInv
<1>3. PICK P, e : Tally(points, Len(points), P) /\ Cuts(pools, Len(points), P, e)
  BY <1>2
<1>4. pools \in Seq(Block) /\ Len(pools) \in Nat /\ pos \in 1 .. Len(pools) - 1
  BY <1>1, <1>2 DEF Ascends
<1>5. Ascends(pools', pos')
  BY <1>1, <1>2, <1>4, PoolingAscends
<1>6. pos' \in 1 .. Len(pools')
  <2>1. Len(pools') = Len(pools) - 1
    BY <1>1, <1>4, PooledIs
  <2>. QED  BY <1>1, <1>4, <2>1 DEF StepBack
<1>7. \E f : Cuts(pools', Len(points), P, f)
  <2>1. Len(points) \in Nat
    BY <1>2
  <2>2. P \in [0 .. Len(points) -> Nat]
    BY <1>3 DEF Tally
  <2>. QED  BY <1>1, <1>3, <1>4, <2>1, <2>2, PoolingCuts
<1>. QED  BY <1>1, <1>2, <1>3, <1>5, <1>6, <1>7 DEF FitInv

LEMMA AdvanceKeeps == ASSUME FitInv, Advance PROVE FitInv'
<1>1. /\ pos < Len(pools) /\ ~Violates(pools[pos], pools[pos + 1])
      /\ pos' = pos + 1 /\ points' = points /\ pools' = pools
  <2>1. Len(pools) \in Nat /\ pos \in Nat
    BY DEF FitInv, Ascends
  <2>. QED  BY <2>1 DEF Advance, Fitted
<1>2. Ascends(pools, pos) /\ pos \in 1 .. Len(pools) /\ Len(pools) \in Nat
  BY DEF FitInv, Ascends
<1>3. Ascends(pools, pos + 1)
  <2>1. ASSUME NEW i \in 1 .. (pos + 1) - 1 PROVE Leq(Y(pools[i]), Y(pools[i + 1]))
    <3>1. CASE i = pos
      BY <1>1, <3>1 DEF Violates
    <3>2. CASE i # pos
      <4>1. i \in 1 .. pos - 1
        BY <1>2, <3>2
      <4>. QED  BY <1>2, <4>1 DEF Ascends
    <3>. QED  BY <3>1, <3>2
  <2>. QED  BY <1>2, <2>1 DEF Ascends
<1>4. pos + 1 \in 1 .. Len(pools)
  BY <1>1, <1>2
<1>. QED  BY <1>1, <1>3, <1>4 DEF FitInv

LEMMA StepFitInv == FitInv /\ [FitNext]_fitVars => FitInv'
<1>. SUFFICES ASSUME FitInv, [FitNext]_fitVars PROVE FitInv'
  OBVIOUS
<1>1. CASE Pool
  BY <1>1, PoolKeeps
<1>2. CASE Advance
  BY <1>2, AdvanceKeeps
<1>3. CASE UNCHANGED fitVars
  BY <1>3 DEF FitInv, fitVars
<1>. QED  BY <1>1, <1>2, <1>3 DEF FitNext

LEMMA FitInvariant == FitSpec => []FitInv
<1>. QED  BY InitFitInv, StepFitInv, PTL DEF FitSpec

LEMMA AtEnd ==
    ASSUME FitInv, Fitted
    PROVE  Ascends(pools, Len(pools)) /\ pools \in Seq(Block) /\ Len(pools) >= 1
<1>1. Ascends(pools, pos) /\ pos \in 1 .. Len(pools) /\ pos >= Len(pools) /\ Len(pools) \in Nat
  BY DEF FitInv, Fitted, Ascends
<1>2. pos = Len(pools)
  BY <1>1
<1>. QED  BY <1>1, <1>2 DEF Ascends

LEMMA FollowsList == FitInv => FitFollowsListOrder
<1>. SUFFICES ASSUME FitInv, Fitted, NEW j \in DOMAIN points
              PROVE  LET y == Y(pools[PoolOf(j)])
                     IN  /\ \E s \in 1 .. j : \A t \in j .. Len(points) : Leq(y, Mean(s, t))
                         /\ \A s \in 1 .. j : \E t \in j .. Len(points) : Leq(Mean(s, t), y)
  BY DEF FitFollowsListOrder
<1>1. PICK n \in Nat : n = Len(points)
  BY DEF FitInv
<1>2. points \in Seq(Point) /\ j \in 1 .. n
  BY <1>1 DEF FitInv
<1>3. PICK P, e : Tally(points, n, P) /\ Cuts(pools, n, P, e)
  BY <1>1 DEF FitInv
<1>4. Ascends(pools, Len(pools)) /\ pools \in Seq(Block) /\ Len(pools) >= 1
  BY AtEnd
<1>5. PICK m \in Nat : m = Len(pools) /\ DOMAIN pools = 1 .. m
  BY <1>4
<1>6. \A k \in 0 .. m : Upto(k) = e[k]
  BY <1>3, <1>4, <1>5, UptoIs
<1>7. \E k \in 1 .. m : e[k - 1] < j /\ j <= e[k]
  BY <1>2, <1>3, <1>4, <1>5, BlockOfPair
<1>8. \A k \in 1 .. m : k \in 0 .. m /\ k - 1 \in 0 .. m
  OBVIOUS
<1>9. \E k \in DOMAIN pools : Upto(k - 1) < j /\ j <= Upto(k)
  BY <1>5, <1>6, <1>7, <1>8
<1>10. PICK k \in 1 .. m : k = PoolOf(j) /\ e[k - 1] < j /\ j <= e[k]
  <2>1. PoolOf(j) \in DOMAIN pools /\ Upto(PoolOf(j) - 1) < j /\ j <= Upto(PoolOf(j))
    BY <1>9 DEF PoolOf
  <2>. QED  BY <1>5, <1>6, <1>8, <2>1
<1>11. pools[k] \in Block /\ e[k - 1] \in 0 .. n /\ e[k] \in 0 .. n
  BY <1>3, <1>4, <1>5, <1>10, BlockStretch
<1>12. P \in [0 .. n -> Nat]
  BY <1>3 DEF Tally
<1>13. PICK l \in 0 .. n : l = e[k - 1] /\ l + 1 \in 1 .. j /\ (l + 1) - 1 = l
  BY <1>2, <1>10, <1>11
<1>14. PICK r \in 0 .. n : r = e[k] /\ r \in j .. n
  BY <1>2, <1>10, <1>11
<1>15. ASSUME NEW t \in j .. n PROVE Leq(Y(pools[k]), Mean(l + 1, t))
  <2>1. t \in 1 .. n /\ e[k - 1] < t /\ l + 1 \in 1 .. n /\ t \in l + 1 .. n
    BY <1>2, <1>10, <1>13
  <2>2. pools[k].sumY * (t - l) <= (P[t] - P[l]) * pools[k].w
    BY <1>3, <1>4, <1>5, <1>12, <1>13, <2>1, NoneBelow
  <2>3. Mean(l + 1, t) = <<P[t] - P[l], t - l>>
    <3>1. Mean(l + 1, t) = <<P[t] - P[(l + 1) - 1], t - (l + 1) + 1>>
      BY <1>1, <1>2, <1>3, <2>1, MeanIs
    <3>2. t - (l + 1) + 1 = t - l
      BY <2>1
    <3>. QED  BY <1>13, <3>1, <3>2
  <2>. QED  BY <2>2, <2>3 DEF Leq, Y
<1>16. ASSUME NEW s \in 1 .. j PROVE Leq(Mean(s, r), Y(pools[k]))
  <2>1. s \in 1 .. n /\ s <= e[k] /\ r \in s .. n
    BY <1>2, <1>14
  <2>2. (P[r] - P[s - 1]) * pools[k].w <= pools[k].sumY * (r - (s - 1))
    BY <1>3, <1>4, <1>5, <1>12, <1>14, <2>1, NoneAbove
  <2>3. Mean(s, r) = <<P[r] - P[s - 1], r - (s - 1)>>
    <3>1. Mean(s, r) = <<P[r] - P[s - 1], r - s + 1>>
      BY <1>1, <1>2, <1>3, <2>1, MeanIs
    <3>2. r - s + 1 = r - (s - 1)
      BY <2>1
    <3>. QED  BY <3>1, <3>2
  <2>. QED  BY <2>2, <2>3 DEF Leq, Y
<1>. QED  BY <1>1, <1>10, <1>13, <1>14, <1>15, <1>16

LEMMA FitInvIsEnough == FitInv => FitTypeOK /\ BetterScoreServesBetter
<1>. SUFFICES ASSUME FitInv PROVE FitTypeOK /\ BetterScoreServesBetter
  OBVIOUS
<1>1. FitTypeOK
  BY DEF FitInv, Ascends, FitTypeOK, Block
<1>2. ASSUME Fitted, NEW a \in 0 .. 2 * MaxScore, NEW b \in 0 .. 2 * MaxScore, a <= b
      PROVE  Leq(Predict(<<a, 2>>), Predict(<<b, 2>>))
  <2>1. a \in Int /\ b \in Int
    BY CalibrationAssumption
  <2>2. <<a, 2>> \in Frac /\ <<b, 2>> \in Frac
    BY <2>1 DEF Frac
  <2>3. Leq(<<a, 2>>, <<b, 2>>)
    BY <1>2, <2>1 DEF Leq
  <2>4. Ascends(pools, Len(pools))
    BY <1>2, AtEnd
  <2>. QED  BY <2>2, <2>3, <2>4, PredictUp
<1>. QED  BY <1>1, <1>2 DEF BetterScoreServesBetter

\* The blocks keep positive weights and the loop's index stays inside them
\* (fitIsotonic of lifecycle/isotonic.ts).
THEOREM FitTyped == FitSpec => []FitTypeOK
<1>. QED  BY FitInvariant, FitInvIsEnough, PTL

\* For any number of training pairs, the loop ends with the max-min formula over
\* their sorted list: at each position the largest, over the starts, of the least
\* mean of a stretch that goes on to it or beyond.  Pairs of one score count by
\* their place in the list and need not get one value (fitIsotonic).
THEOREM FitFollowsTheList == FitSpec => []FitFollowsListOrder
<1>. QED  BY FitInvariant, FollowsList, PTL

\* For any fit, a better score is never served a lower probability
\* (predictIsotonic).
THEOREM BetterIsServedBetter == FitSpec => []BetterScoreServesBetter
<1>. QED  BY FitInvariant, FitInvIsEnough, PTL

\* Every pass of the loop that pools brings its end nearer, however many violators
\* it has to go back for (fitIsotonic).
THEOREM PoolingTerminates == FitSpec => PoolingEnds
<1>. DEFINE Nearer ==
        PassesLeft \in Nat /\ PassesLeft' \in Nat /\ PassesLeft' < PassesLeft
<1>1. FitInv /\ FitInv' /\ [FitNext]_fitVars => [Nearer]_fitVars
  <2>. SUFFICES ASSUME FitInv, FitInv', FitNext PROVE Nearer
    OBVIOUS
  <2>1. PICK n \in Nat, m \in Nat, i \in Nat, j \in Nat :
            /\ n = Len(pools) /\ m = Len(pools') /\ i = pos /\ j = pos'
            /\ i <= n /\ j <= m
    BY DEF FitInv, Ascends
  <2>2. \/ m = n - 1 /\ j >= i - 1
        \/ m = n /\ j = i + 1
    <3>1. CASE Pool
      <4>1. /\ pools \in Seq(Block) /\ pos \in 1 .. Len(pools) - 1
            /\ pools' = Pooled(pools, pos) /\ pos' = StepBack(pos)
        BY <2>1, <3>1 DEF Pool, Fitted, Pooled, FitInv, Ascends
      <4>2. Len(pools') = Len(pools) - 1
        BY <4>1, PooledIs
      <4>. QED  BY <2>1, <4>1, <4>2 DEF StepBack
    <3>2. CASE Advance
      BY <2>1, <3>2 DEF Advance
    <3>. QED  BY <3>1, <3>2 DEF FitNext
  <2>3. /\ 2 * n - i \in Nat /\ 2 * m - j \in Nat
        /\ 2 * m - j < 2 * n - i
    BY <2>1, <2>2
  <2>. QED  BY <2>1, <2>3 DEF PassesLeft
<1>. QED  BY <1>1, FitInvariant, PTL DEF FitSpec, PoolingEnds

=============================================================================
