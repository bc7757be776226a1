----------------------------- MODULE TraceProofs -----------------------------
(***************************************************************************)
(* What the v1 store of traces promises, for any number of processes,      *)
(* traces and votes.                                                       *)
(***************************************************************************)
EXTENDS TraceStore, TraceFeedback, ListProofs, SequenceTheorems

(***************************************************************************)
(* The store.  Neither promise is inductive alone.  NoEmbeddingForgotten    *)
(* needs what a call in flight owes: past embedBatch its trace is embedded  *)
(* or queued, and a row it takes out of the queue is embedded or gone;      *)
(* and it needs that ids are drawn once, so that no call at work on a lost  *)
(* trace meets it again but as an import.  LimitAtRest needs, while the     *)
(* table is over the limit, somebody who will still bring it down: a call   *)
(* that has yet to count, or one whose count is large enough.               *)
(***************************************************************************)
Past == {"list", "drain", "reembed", "dequeue"}

Owes(f) ==
    /\ {f.id, f.at} \subseteq used \cup {NoTrace} /\ f.batch \subseteq used
    /\ f.pc \in Past /\ f.id \in Stored \ back => f.id \in vectors \cup pending
    /\ f.pc = "dequeue" /\ f.at \in Stored \ back => f.at \in vectors

EmbeddingsInv ==
    TraceStoreTypeOK /\ NoEmbeddingForgotten /\ \A k \in Keeper : Owes(keeper[k])

Counting == {"count", "quality", "recount"}
WillTrim(f) == f.pc \in Counting \/ (f.pc = "trim" /\ Len(traces) <= MaxTraces + f.excess)
LimitInv ==
    TraceStoreTypeOK
        /\ (~loose /\ Len(traces) > MaxTraces => \E k \in Keeper : WillTrim(keeper[k]))

-----------------------------------------------------------------------------
LEMMA NoCallTyped ==
    /\ NoCall \in KeeperFrame /\ NoCall.pc = "idle" /\ NoCall.id = NoTrace
    /\ NoCall.at = NoTrace /\ NoCall.batch = {} /\ NoCall.excess = 0
<1>1. (CHOOSE f \in Prints : TRUE) \in Prints
  BY TraceStoreAssumption DEF Prints
<1>. QED  BY <1>1 DEF NoCall, KeeperFrame, TraceLabel

\* The table as a list and as a set
LEMMA StoredIs ==
    ASSUME traces \in Seq(Trace)
    PROVE  /\ Stored = {traces[i] : i \in DOMAIN traces} /\ Stored \subseteq Trace
           /\ Len(traces) \in Nat /\ DOMAIN traces = 1 .. Len(traces)
BY DEF Stored, Range

LEMMA StoredIsNext ==
    ASSUME traces' \in Seq(Trace)
    PROVE  Stored' = {traces'[i] : i \in DOMAIN traces'}
BY DEF Stored, Range

LEMMA DropMoves ==
    ASSUME TraceStoreTypeOK, NEW gone, Drop(gone)
    PROVE  /\ traces' \in Seq(Trace) /\ IsInjective(traces') /\ Stored' = Stored \ gone
           /\ Len(traces') \in Nat /\ Len(traces') <= Len(traces)
           /\ vectors' = vectors \ gone /\ pending' = pending \ gone
           /\ back' = back \ gone /\ settled' = settled \ gone
<1>. DEFINE stay == Stored \ gone
<1>1. traces \in Seq(Trace) /\ IsInjective(traces) /\ traces' = Keep(traces, stay)
  BY DEF TraceStoreTypeOK, Drop
<1>2. Stored = {traces[i] : i \in DOMAIN traces}
  BY <1>1, StoredIs
<1>. HIDE DEF stay
<1>3. traces' \in Seq(Trace) /\ Len(traces') <= Len(traces)
  BY <1>1, KeepPlaces
<1>4. \A i, j \in DOMAIN traces : traces[i] = traces[j] => i = j
  BY <1>1 DEF IsInjective
<1>5. IsInjective(traces')
  BY <1>1, <1>4, KeepApart DEF IsInjective
<1>6. Stored' = Stored \cap stay
  BY <1>1, <1>2, <1>3, KeepEntries, StoredIsNext
<1>. QED  BY <1>3, <1>5, <1>6 DEF Drop, stay

\* t comes after the first n entries of s
Inserted(T, s, n, t, q) ==
    /\ q \in Seq(T) /\ Len(q) = Len(s) + 1
    /\ \A i \in 1 .. Len(s) + 1 : q[i] = IF i <= n THEN s[i] ELSE IF i = n + 1 THEN t ELSE s[i - 1]

LEMMA InsertAtIs ==
    ASSUME NEW T, NEW s \in Seq(T), NEW t \in T, NEW n \in 0 .. Len(s)
    PROVE  Inserted(T, s, n, t, InsertAt(s, n + 1, t))
<1>. DEFINE a == SubSeq(s, 1, n)
            b == SubSeq(s, n + 1, Len(s))
            c == a \o <<t>>
<1>0. n \in Nat /\ Len(s) \in Nat /\ n <= Len(s)
  OBVIOUS
<1>1. a \in Seq(T) /\ Len(a) = n /\ \A i \in 1 .. n : a[i] = s[i]
  BY <1>0
<1>2. b \in Seq(T) /\ Len(b) = Len(s) - n /\ \A i \in 1 .. Len(s) - n : b[i] = s[n + i]
  BY <1>0
<1>3. InsertAt(s, n + 1, t) = c \o b
  <2>1. (n + 1) - 1 = n
    BY <1>0
  <2>. QED  BY <2>1 DEF InsertAt
<1>. HIDE DEF a, b
<1>4. c \in Seq(T) /\ Len(c) = n + 1 /\ c[n + 1] = t /\ \A i \in 1 .. n : c[i] = s[i]
  BY <1>0, <1>1
<1>. HIDE DEF c
<1>5. c \o b \in Seq(T) /\ Len(c \o b) = Len(s) + 1
  <2>1. c \o b \in Seq(T) /\ Len(c \o b) = Len(c) + Len(b)
    BY <1>2, <1>4, ConcatProperties
  <2>. QED  BY <1>0, <1>2, <1>4, <2>1
<1>. DEFINE q == InsertAt(s, n + 1, t)
<1>7. q = c \o b
  BY <1>3
<1>. HIDE DEF q
<1>6. ASSUME NEW i \in 1 .. Len(s) + 1
      PROVE  (c \o b)[i] = IF i <= n THEN s[i] ELSE IF i = n + 1 THEN t ELSE s[i - 1]
  <2>1. CASE i <= n + 1
    <3>1. (c \o b)[i] = c[i]
      BY <1>0, <1>2, <1>4, <2>1, ConcatProperties
    <3>. QED  BY <1>0, <1>4, <2>1, <3>1
  <2>2. CASE i > n + 1
    <3>1. (c \o b)[i] = b[i - (n + 1)] /\ i - (n + 1) \in 1 .. Len(s) - n
      <4>1. \A k \in 1 .. Len(c) + Len(b) : (c \o b)[k] = IF k <= Len(c) THEN c[k] ELSE b[k - Len(c)]
        BY <1>2, <1>4, ConcatProperties
      <4>2. i \in 1 .. Len(c) + Len(b) /\ ~(i <= Len(c)) /\ i - (n + 1) \in 1 .. Len(s) - n
        BY <1>0, <1>2, <1>4, <2>2
      <4>. QED  BY <1>4, <4>1, <4>2
    <3>2. n + (i - (n + 1)) = i - 1
      BY <1>0
    <3>3. b[i - (n + 1)] = s[n + (i - (n + 1))]
      BY <1>2, <3>1
    <3>. QED  BY <1>0, <2>2, <3>1, <3>2, <3>3
  <2>3. i <= n + 1 \/ i > n + 1
    BY <1>0
  <2>. QED  BY <2>1, <2>2, <2>3, Zenon
<1>8. /\ q \in Seq(T) /\ Len(q) = Len(s) + 1
      /\ \A i \in 1 .. Len(s) + 1 : q[i] = IF i <= n THEN s[i] ELSE IF i = n + 1 THEN t ELSE s[i - 1]
  BY <1>5, <1>6, <1>7
<1>. QED  BY <1>8 DEF q, Inserted

LEMMA InsertMoves ==
    ASSUME TraceStoreTypeOK, NEW t \in Trace \ Stored, NEW n \in 0 .. Len(traces),
           traces' = InsertAt(traces, n + 1, t)
    PROVE  /\ traces' \in Seq(Trace) /\ IsInjective(traces') /\ Stored' = Stored \cup {t}
           /\ Len(traces') = Len(traces) + 1
<1>1. traces \in Seq(Trace) /\ IsInjective(traces)
  BY DEF TraceStoreTypeOK
<1>2. Stored = {traces[i] : i \in DOMAIN traces} /\ DOMAIN traces = 1 .. Len(traces)
      /\ Len(traces) \in Nat
  BY <1>1, StoredIs
<1>. DEFINE q == InsertAt(traces, n + 1, t)
            Is(i) == IF i <= n THEN traces[i] ELSE IF i = n + 1 THEN t ELSE traces[i - 1]
<1>12. Inserted(Trace, traces, n, t, q)
  BY <1>1, InsertAtIs
<1>13. traces' = q
  OBVIOUS
<1>. HIDE DEF q
<1>3. traces' \in Seq(Trace) /\ Len(traces') = Len(traces) + 1
  BY <1>12, <1>13 DEF Inserted
<1>4. \A i \in 1 .. Len(traces) + 1 : traces'[i] = Is(i)
  BY <1>12, <1>13 DEF Inserted
<1>5. DOMAIN traces' = 1 .. Len(traces) + 1
  BY <1>3
<1>6. \A i \in DOMAIN traces : traces[i] # t
  BY <1>2
<1>7. IsInjective(traces')
  <2>1. SUFFICES ASSUME NEW i \in DOMAIN traces', NEW j \in DOMAIN traces', i < j
                 PROVE  traces'[i] # traces'[j]
    BY <1>5, <1>2 DEF IsInjective
  <2>2. i \in Nat /\ j \in Nat /\ 1 <= i /\ j <= Len(traces) + 1 /\ n \in Nat
    BY <1>5, <1>2
  <2>3. CASE j <= n
    BY <1>1, <1>2, <1>4, <1>5, <2>1, <2>2, <2>3 DEF IsInjective
  <2>4. CASE j = n + 1
    BY <1>1, <1>2, <1>4, <1>5, <1>6, <2>1, <2>2, <2>4 DEF IsInjective
  <2>5. CASE j > n + 1
    <3>1. traces'[j] = traces[j - 1] /\ j - 1 \in DOMAIN traces
      BY <1>2, <1>4, <1>5, <2>2, <2>5
    <3>2. CASE i = n + 1
      BY <1>4, <1>5, <1>6, <2>2, <3>1, <3>2
    <3>3. CASE i <= n
      BY <1>1, <1>2, <1>4, <1>5, <2>1, <2>2, <2>5, <3>1, <3>3 DEF IsInjective
    <3>4. CASE i > n + 1
      <4>1. traces'[i] = traces[i - 1] /\ i - 1 \in DOMAIN traces /\ i - 1 # j - 1
        BY <1>2, <1>4, <1>5, <2>1, <2>2, <3>4
      <4>. QED  BY <1>1, <3>1, <4>1 DEF IsInjective
    <3>. QED  BY <2>2, <3>2, <3>3, <3>4
  <2>. QED  BY <2>2, <2>3, <2>4, <2>5
<1>8. Stored' = {traces'[i] : i \in 1 .. Len(traces) + 1}
  BY <1>3, <1>5, StoredIsNext
<1>9. ASSUME NEW i \in DOMAIN traces PROVE traces[i] \in Stored'
  <2>1. CASE i <= n
    BY <1>2, <1>4, <1>8, <2>1
  <2>2. CASE i > n
    <3>1. i + 1 \in 1 .. Len(traces) + 1 /\ traces'[i + 1] = traces[i]
      BY <1>2, <1>4, <2>2
    <3>. QED  BY <1>8, <3>1
  <2>. QED  BY <1>2, <2>1, <2>2
<1>10. t \in Stored'
  <2>1. n + 1 \in 1 .. Len(traces) + 1 /\ traces'[n + 1] = t
    BY <1>2, <1>4
  <2>. QED  BY <1>8, <2>1
<1>11. ASSUME NEW i \in 1 .. Len(traces) + 1 PROVE traces'[i] \in Stored \cup {t}
  BY <1>2, <1>4
<1>. QED  BY <1>2, <1>3, <1>7, <1>8, <1>9, <1>10, <1>11

LEMMA AppendMoves ==
    ASSUME TraceStoreTypeOK, NEW t \in Trace \ Stored, traces' = Append(traces, t)
    PROVE  /\ traces' \in Seq(Trace) /\ IsInjective(traces') /\ Stored' = Stored \cup {t}
           /\ Len(traces') = Len(traces) + 1
<1>1. traces \in Seq(Trace) /\ Len(traces) \in Nat
  BY DEF TraceStoreTypeOK
<1>2. traces' = InsertAt(traces, Len(traces) + 1, t)
  BY <1>1 DEF InsertAt
<1>. QED  BY <1>1, <1>2, InsertMoves
LEMMA SameTable ==
    ASSUME TraceStoreTypeOK, UNCHANGED traces
    PROVE  /\ Stored' = Stored /\ traces' \in Seq(Trace) /\ IsInjective(traces')
           /\ Len(traces') = Len(traces)
BY DEF TraceStoreTypeOK, Stored

LEMMA GoMoves ==
    ASSUME TraceStoreTypeOK, NEW k \in Keeper, NEW f \in KeeperFrame, Go(k, f)
    PROVE  /\ keeper' \in [Keeper -> KeeperFrame] /\ keeper'[k] = f
           /\ \A j \in Keeper : j # k => keeper'[j] = keeper[j]
BY DEF TraceStoreTypeOK, Go

\* The typed parts of a step: a table, sets within it, and frames
LEMMA TypedFrom ==
    ASSUME TraceStoreTypeOK, traces' \in Seq(Trace), IsInjective(traces'),
           vectors' \subseteq Stored', pending' \subseteq Stored', back' \subseteq Stored',
           settled' \subseteq Stored', Stored' \subseteq used',
           keeper' \in [Keeper -> KeeperFrame], loose' \in BOOLEAN
    PROVE  TraceStoreTypeOK'
BY DEF TraceStoreTypeOK

\* A step that leaves the table alone and moves one frame
LEMMA TypedBeside ==
    ASSUME TraceStoreTypeOK, UNCHANGED <<traces, used>>, NEW k \in Keeper,
           NEW f \in KeeperFrame, Go(k, f),
           vectors' \subseteq Stored, pending' \subseteq Stored, UNCHANGED back,
           settled' \subseteq Stored, loose' \in BOOLEAN
    PROVE  TraceStoreTypeOK'
BY SameTable, GoMoves, TypedFrom DEF TraceStoreTypeOK

LEMMA StoreTypedInit == TraceStoreInit => TraceStoreTypeOK
<1>. SUFFICES ASSUME TraceStoreInit PROVE TraceStoreTypeOK
  OBVIOUS
<1>1. <<>> \in Seq(Trace) /\ IsInjective(<<>>)
  BY DEF IsInjective
<1>2. Stored = {}
  BY DEF TraceStoreInit, Stored, Range
<1>. QED  BY <1>1, <1>2, NoCallTyped DEF TraceStoreInit, TraceStoreTypeOK

LEMMA StoreTypedStep ==
    ASSUME TraceStoreTypeOK, [TraceStoreNext]_traceVars
    PROVE  TraceStoreTypeOK'
<1>. USE DEF KeeperFrame, TraceLabel
<1>0. /\ Stored \subseteq Trace /\ Len(traces) \in Nat /\ keeper \in [Keeper -> KeeperFrame]
      /\ vectors \subseteq Stored /\ pending \subseteq Stored /\ back \subseteq Stored
      /\ settled \subseteq Stored /\ Stored \subseteq used /\ loose \in BOOLEAN
  BY StoredIs DEF TraceStoreTypeOK
<1>1. ASSUME NEW k \in Keeper PROVE keeper[k] \in KeeperFrame
  BY <1>0
<1>2. CASE UNCHANGED traceVars
  BY <1>2, SameTable DEF traceVars, TraceStoreTypeOK
<1>3. ASSUME NEW k \in Keeper, StartStore(k) PROVE TraceStoreTypeOK'
  <2>1. PICK p \in Prints : Go(k, [NoCall EXCEPT !.pc = "lookup", !.print = p])
    BY <1>3 DEF StartStore
  <2>2. [NoCall EXCEPT !.pc = "lookup", !.print = p] \in KeeperFrame
    BY NoCallTyped
  <2>. QED  BY <1>0, <1>3, <2>1, <2>2, TypedBeside DEF StartStore
<1>4. ASSUME NEW k \in Keeper, FindDuplicate(k) PROVE TraceStoreTypeOK'
  <2>1. PICK t \in Trace \cup {NoTrace} :
            \/ Go(k, [keeper[k] EXCEPT !.pc = "fetch", !.id = t])
            \/ Go(k, [keeper[k] EXCEPT !.pc = "insert"])
    BY <1>0, <1>4 DEF FindDuplicate
  <2>2. /\ [keeper[k] EXCEPT !.pc = "fetch", !.id = t] \in KeeperFrame
        /\ [keeper[k] EXCEPT !.pc = "insert"] \in KeeperFrame
    BY <1>1
  <2>. QED  BY <1>0, <1>4, <2>1, <2>2, TypedBeside DEF FindDuplicate
<1>5. ASSUME NEW k \in Keeper, FetchDuplicate(k) PROVE TraceStoreTypeOK'
  <2>1. /\ [keeper[k] EXCEPT !.pc = "embed"] \in KeeperFrame
        /\ [keeper[k] EXCEPT !.pc = "insert", !.id = NoTrace] \in KeeperFrame
    BY <1>1
  <2>. QED  BY <1>0, <1>5, <2>1, TypedBeside DEF FetchDuplicate, Returned
<1>6. ASSUME NEW k \in Keeper, InsertTrace(k) PROVE TraceStoreTypeOK'
  <2>1. PICK t \in Trace \ used :
            /\ traces' = Append(traces, t) /\ used' = used \cup {t}
            /\ Go(k, [keeper[k] EXCEPT !.pc = "count", !.id = t])
    BY <1>6 DEF InsertTrace
  <2>2. [keeper[k] EXCEPT !.pc = "count", !.id = t] \in KeeperFrame
    BY <1>1
  <2>3. /\ traces' \in Seq(Trace) /\ IsInjective(traces') /\ Stored' = Stored \cup {t}
    BY <1>0, <2>1, AppendMoves
  <2>4. UNCHANGED <<vectors, pending, back, settled, loose>>
    BY <1>6 DEF InsertTrace
  <2>. QED  BY <1>0, <2>1, <2>2, <2>3, <2>4, GoMoves, TypedFrom
<1>7. ASSUME NEW k \in Keeper, CountTraces(k) PROVE TraceStoreTypeOK'
  <2>1. /\ [keeper[k] EXCEPT !.pc = "embed"] \in KeeperFrame
        /\ [keeper[k] EXCEPT !.pc = "quality"] \in KeeperFrame
    BY <1>1
  <2>. QED  BY <1>0, <1>7, <2>1, TypedBeside DEF CountTraces, Returned
<1>8. ASSUME NEW k \in Keeper, StartPrune(k) PROVE TraceStoreTypeOK'
  <2>1. [NoCall EXCEPT !.pc = "quality"] \in KeeperFrame
    BY NoCallTyped
  <2>. QED  BY <1>0, <1>8, <2>1, TypedBeside DEF StartPrune
<1>9. ASSUME NEW k \in Keeper, DeleteLowQuality(k) PROVE TraceStoreTypeOK'
  <2>1. PICK low : Drop(low)
    BY <1>9 DEF DeleteLowQuality
  <2>2. [keeper[k] EXCEPT !.pc = "recount"] \in KeeperFrame
    BY <1>1
  <2>3. UNCHANGED <<used, loose>> /\ Go(k, [keeper[k] EXCEPT !.pc = "recount"])
    BY <1>9 DEF DeleteLowQuality
  <2>4. keeper' \in [Keeper -> KeeperFrame]
    BY <2>2, <2>3, GoMoves
  <2>. QED  BY <1>0, <2>1, <2>3, <2>4, DropMoves, TypedFrom
<1>10. ASSUME NEW k \in Keeper, CountExcess(k) PROVE TraceStoreTypeOK'
  <2>1. [keeper[k] EXCEPT !.pc = "final"] \in KeeperFrame
    BY <1>1
  <2>2. Len(traces) > MaxTraces =>
            [keeper[k] EXCEPT !.pc = "trim", !.excess = Excess(Len(traces))] \in KeeperFrame
    <3>1. Len(traces) > MaxTraces => Excess(Len(traces)) \in Nat
      BY <1>0, TraceStoreAssumption DEF Excess
    <3>. QED  BY <1>1, <3>1
  <2>. QED  BY <1>0, <1>10, <2>1, <2>2, TypedBeside DEF CountExcess
<1>11. ASSUME NEW k \in Keeper, DeleteOldest(k) PROVE TraceStoreTypeOK'
  <2>1. PICK gone : Drop(gone)
    BY <1>11 DEF DeleteOldest
  <2>2. [keeper[k] EXCEPT !.pc = "final", !.excess = 0] \in KeeperFrame
    BY <1>1
  <2>3. UNCHANGED <<used, loose>> /\ Go(k, [keeper[k] EXCEPT !.pc = "final", !.excess = 0])
    BY <1>11 DEF DeleteOldest
  <2>4. keeper' \in [Keeper -> KeeperFrame]
    BY <2>2, <2>3, GoMoves
  <2>. QED  BY <1>0, <2>1, <2>3, <2>4, DropMoves, TypedFrom
<1>12. ASSUME NEW k \in Keeper, CheckLimit(k) PROVE TraceStoreTypeOK'
  <2>1. [keeper[k] EXCEPT !.pc = "embed"] \in KeeperFrame
    BY <1>1
  <2>. QED  BY <1>0, <1>12, <2>1, NoCallTyped, TypedBeside DEF CheckLimit, Returned
<1>13. ASSUME NEW k \in Keeper, EndStore(k) PROVE TraceStoreTypeOK'
  BY <1>0, <1>13, NoCallTyped, TypedBeside DEF EndStore
<1>14. ASSUME NEW k \in Keeper, EmbedTrace(k) PROVE TraceStoreTypeOK'
  <2>1. [keeper[k] EXCEPT !.pc = "list"] \in KeeperFrame
    BY <1>1
  <2>. QED  BY <1>0, <1>14, <2>1, NoCallTyped, TypedBeside DEF EmbedTrace, Retry
<1>15. ASSUME NEW k \in Keeper, DrainAlone(k) PROVE TraceStoreTypeOK'
  <2>1. [NoCall EXCEPT !.pc = "list"] \in KeeperFrame
    BY NoCallTyped
  <2>. QED  BY <1>0, <1>15, <2>1, TypedBeside DEF DrainAlone
<1>16. ASSUME NEW k \in Keeper, ListPending(k) PROVE TraceStoreTypeOK'
  <2>1. [keeper[k] EXCEPT !.pc = "drain", !.batch = pending] \in KeeperFrame
    BY <1>0, <1>1
  <2>. QED  BY <1>0, <1>16, <2>1, TypedBeside DEF ListPending
<1>17. ASSUME NEW k \in Keeper, DrainNext(k) PROVE TraceStoreTypeOK'
  <2>1. CASE keeper[k].batch = {} /\ settled' = settled \cup ({keeper[k].id} \cap Stored) /\ Go(k, NoCall)
    BY <1>0, <1>17, <2>1, NoCallTyped, TypedBeside DEF DrainNext
  <2>2. ASSUME NEW t \in keeper[k].batch, UNCHANGED settled,
               Go(k, [keeper[k] EXCEPT !.pc = IF t \in Stored THEN "reembed" ELSE "dequeue",
                                       !.at = t, !.batch = @ \ {t}])
        PROVE  TraceStoreTypeOK'
    <3>1. [keeper[k] EXCEPT !.pc = IF t \in Stored THEN "reembed" ELSE "dequeue",
                            !.at = t, !.batch = @ \ {t}] \in KeeperFrame
      BY <1>1
    <3>. QED  BY <1>0, <1>17, <2>2, <3>1, TypedBeside DEF DrainNext
  <2>. QED  BY <1>17, <2>1, <2>2 DEF DrainNext
<1>18. ASSUME NEW k \in Keeper, Reembed(k) PROVE TraceStoreTypeOK'
  <2>1. /\ [keeper[k] EXCEPT !.pc = "dequeue"] \in KeeperFrame
        /\ [keeper[k] EXCEPT !.pc = "drain", !.at = NoTrace] \in KeeperFrame
    BY <1>1
  <2>. QED  BY <1>0, <1>18, <2>1, TypedBeside DEF Reembed
<1>19. ASSUME NEW k \in Keeper, Dequeue(k) PROVE TraceStoreTypeOK'
  <2>1. [keeper[k] EXCEPT !.pc = "drain", !.at = NoTrace] \in KeeperFrame
    BY <1>1
  <2>. QED  BY <1>0, <1>19, <2>1, TypedBeside DEF Dequeue
<1>20. ASSUME NEW k \in Keeper, KeeperDies(k) PROVE TraceStoreTypeOK'
  BY <1>0, <1>20, NoCallTyped, TypedBeside DEF KeeperDies
<1>21. ASSUME NEW t \in Trace, DeleteTrace(t) PROVE TraceStoreTypeOK'
  BY <1>0, <1>21, DropMoves, TypedFrom DEF DeleteTrace
<1>22. ASSUME NEW t \in Trace, ImportTrace(t) PROVE TraceStoreTypeOK'
  <2>1. t \in Trace \ Stored /\ \E n \in 0 .. Len(traces) : traces' = InsertAt(traces, n + 1, t)
    BY <1>22 DEF ImportTrace
  <2>2. /\ traces' \in Seq(Trace) /\ IsInjective(traces') /\ Stored' = Stored \cup {t}
    BY <2>1, InsertMoves
  <2>3. /\ back' \subseteq back \cup {t} /\ used' = used \cup {t} /\ loose' = TRUE
        /\ UNCHANGED <<vectors, pending, keeper, settled>>
    BY <1>22 DEF ImportTrace
  <2>. QED  BY <1>0, <2>2, <2>3, TypedFrom
<1>. QED
  BY <1>2, <1>3, <1>4, <1>5, <1>6, <1>7, <1>8, <1>9, <1>10, <1>11, <1>12, <1>13, <1>14, <1>15,
     <1>16, <1>17, <1>18, <1>19, <1>20, <1>21, <1>22 DEF TraceStoreNext
-----------------------------------------------------------------------------
(* The limit *)

\* A step that lets the table not grow, and leaves every frame that will trim it
\* one that will
LEMMA LimitKept ==
    ASSUME LimitInv, TraceStoreTypeOK', Len(traces') <= Len(traces), UNCHANGED loose,
           \A k \in Keeper : WillTrim(keeper[k]) /\ Len(traces') > MaxTraces =>
               \/ keeper'[k].pc \in Counting
               \/ keeper'[k].pc = "trim" /\ keeper'[k].excess = keeper[k].excess
                    /\ keeper[k].pc = "trim"
    PROVE  LimitInv'
<1>1. Len(traces) \in Nat /\ Len(traces') \in Nat /\ keeper \in [Keeper -> KeeperFrame]
  BY DEF LimitInv, TraceStoreTypeOK
<1>2. SUFFICES ASSUME ~loose, Len(traces') > MaxTraces
               PROVE  \E k \in Keeper : WillTrim(keeper[k])'
  BY DEF LimitInv
<1>3. PICK k \in Keeper : WillTrim(keeper[k])
  BY <1>1, <1>2, TraceStoreAssumption DEF LimitInv
<1>4. keeper[k].excess \in Nat
  BY <1>1 DEF KeeperFrame
<1>5. CASE keeper'[k].pc \in Counting
  BY <1>5 DEF WillTrim
<1>6. CASE keeper'[k].pc = "trim" /\ keeper'[k].excess = keeper[k].excess /\ keeper[k].pc = "trim"
  <2>1. Len(traces) <= MaxTraces + keeper[k].excess
    BY <1>3, <1>6 DEF WillTrim, Counting
  <2>2. Len(traces') <= MaxTraces + keeper'[k].excess
    BY <1>1, <1>4, <1>6, <2>1, TraceStoreAssumption
  <2>. QED  BY <1>6, <2>2 DEF WillTrim
<1>. QED  BY <1>2, <1>3, <1>5, <1>6

\* ... for instance because only a frame moves that will not trim
LEMMA LimitBeside ==
    ASSUME LimitInv, TraceStoreTypeOK', UNCHANGED <<traces, loose>>, NEW k \in Keeper, NEW f,
           Go(k, f), f \in KeeperFrame, keeper[k].pc \notin Counting \cup {"trim"}
    PROVE  LimitInv'
<1>1. TraceStoreTypeOK /\ Len(traces') <= Len(traces)
  BY DEF LimitInv, TraceStoreTypeOK
<1>2. \A j \in Keeper : WillTrim(keeper[j]) => keeper'[j] = keeper[j]
  BY <1>1, GoMoves DEF WillTrim
<1>. QED  BY <1>1, <1>2, LimitKept DEF WillTrim

LEMMA LimitStep ==
    ASSUME LimitInv, [TraceStoreNext]_traceVars
    PROVE  LimitInv'
<1>0. TraceStoreTypeOK /\ TraceStoreTypeOK' /\ Len(traces) \in Nat /\ Len(traces') \in Nat
      /\ keeper \in [Keeper -> KeeperFrame]
  BY StoreTypedStep DEF LimitInv, TraceStoreTypeOK
<1>1. \A k \in Keeper : keeper'[k] \in KeeperFrame
  BY <1>0 DEF TraceStoreTypeOK
<1>2. CASE UNCHANGED traceVars
  BY <1>0, <1>2 DEF traceVars, LimitInv, WillTrim
<1>3. ASSUME NEW k \in Keeper, UNCHANGED <<traces, loose>>, NEW f, Go(k, f),
             keeper[k].pc \notin Counting \cup {"trim"}
      PROVE  LimitInv'
  <2>1. keeper'[k] = f
    BY <1>0, <1>3 DEF Go
  <2>. QED  BY <1>0, <1>1, <1>3, <2>1, LimitBeside
<1>4. ASSUME NEW k \in Keeper,
             \/ StartStore(k) \/ FindDuplicate(k) \/ FetchDuplicate(k) \/ StartPrune(k)
             \/ CheckLimit(k)
      PROVE  LimitInv'
  BY <1>3, <1>4 DEF StartStore, FindDuplicate, FetchDuplicate, StartPrune, CheckLimit, Returned,
                    Counting
<1>5. ASSUME NEW k \in Keeper,
             \/ EndStore(k) \/ EmbedTrace(k) \/ DrainAlone(k) \/ ListPending(k) \/ DrainNext(k)
             \/ Reembed(k) \/ Dequeue(k)
      PROVE  LimitInv'
  BY <1>3, <1>5 DEF EndStore, EmbedTrace, DrainAlone, ListPending, DrainNext, Reembed, Dequeue,
                    Counting
<1>6. ASSUME NEW k \in Keeper, InsertTrace(k) PROVE LimitInv'
  <2>1. keeper'[k].pc = "count"
    BY <1>0, <1>6 DEF InsertTrace, Go, KeeperFrame
  <2>. QED  BY <1>0, <2>1 DEF LimitInv, WillTrim, Counting
<1>7. ASSUME NEW k \in Keeper, CountTraces(k) PROVE LimitInv'
  <2>1. CASE Len(traces) <= MaxTraces
    <3>1. traces' = traces
      BY <1>7 DEF CountTraces
    <3>. QED  BY <1>0, <2>1, <3>1, TraceStoreAssumption DEF LimitInv
  <2>2. CASE ~(Len(traces) <= MaxTraces)
    <3>1. keeper'[k].pc = "quality"
      BY <1>0, <1>7, <2>2 DEF CountTraces, Go, KeeperFrame
    <3>. QED  BY <1>0, <3>1 DEF LimitInv, WillTrim, Counting
  <2>. QED  BY <2>1, <2>2
<1>8. ASSUME NEW k \in Keeper, DeleteLowQuality(k) PROVE LimitInv'
  <2>1. keeper'[k].pc = "recount"
    BY <1>0, <1>8 DEF DeleteLowQuality, Go, KeeperFrame
  <2>. QED  BY <1>0, <2>1 DEF LimitInv, WillTrim, Counting
<1>9. ASSUME NEW k \in Keeper, CountExcess(k) PROVE LimitInv'
  <2>0. traces' = traces
    BY <1>9 DEF CountExcess
  <2>1. CASE Len(traces) > MaxTraces
    <3>1. keeper'[k].pc = "trim" /\ keeper'[k].excess = Len(traces) - MaxTraces
      <4>1. Go(k, [keeper[k] EXCEPT !.pc = "trim", !.excess = Len(traces) - MaxTraces])
        BY <1>9, <2>1 DEF CountExcess, Excess
      <4>. QED  BY <1>0, <4>1 DEF Go, KeeperFrame
    <3>2. Len(traces') <= MaxTraces + keeper'[k].excess
      BY <1>0, <2>0, <3>1, TraceStoreAssumption
    <3>. QED  BY <1>0, <3>1, <3>2 DEF LimitInv, WillTrim
  <2>2. CASE ~(Len(traces) > MaxTraces)
    BY <1>0, <2>0, <2>2 DEF LimitInv
  <2>. QED  BY <2>1, <2>2
<1>10. ASSUME NEW k \in Keeper, DeleteOldest(k) PROVE LimitInv'
  <2>. DEFINE e == keeper[k].excess
              gone == {traces[i] : i \in {j \in DOMAIN traces : j <= e}}
              f == [keeper[k] EXCEPT !.pc = "final", !.excess = 0]
  <2>1. Drop(gone) /\ UNCHANGED <<used, loose>> /\ Go(k, f) /\ keeper[k].pc = "trim"
    BY <1>10 DEF DeleteOldest
  <2>2. e \in Nat
    BY <1>0 DEF KeeperFrame
  <2>3. Len(traces') <= Len(traces)
    BY <1>0, <2>1, DropMoves
  <2>4. Len(traces) <= MaxTraces + e => Len(traces') <= MaxTraces
    <3>1. traces \in Seq(Trace) /\ DOMAIN traces = 1 .. Len(traces)
      BY <1>0 DEF TraceStoreTypeOK
    <3>2. PICK a \in 0 .. Len(traces) : a <= e /\ (Len(traces) <= e => a = Len(traces))
                                        /\ (e <= Len(traces) => a = e)
      BY <1>0, <2>2
    <3>3. ASSUME NEW i \in 1 .. a PROVE traces[i] \notin Stored \ gone
      <4>0. 1 <= i /\ i \in Nat /\ i <= a /\ a \in Nat /\ a <= Len(traces) /\ a <= e
        BY <1>0, <3>2
      <4>3. i <= Len(traces) /\ i <= e
        BY <1>0, <2>2, <4>0
      <4>1. i \in DOMAIN traces /\ i <= e
        BY <1>0, <3>1, <4>0, <4>3
      <4>2. traces[i] \in gone
        BY <4>1
      <4>. QED  BY <4>2
    <3>4. Len(Keep(traces, Stored \ gone)) <= Len(traces) - a
      BY <3>1, <3>3, KeepShortens
    <3>5. traces' = Keep(traces, Stored \ gone)
      BY <2>1 DEF Drop
    <3>. QED  BY <1>0, <2>2, <3>2, <3>4, <3>5, TraceStoreAssumption
  <2>. HIDE DEF gone
  <2>5. \A j \in Keeper : j # k => keeper'[j] = keeper[j]
    BY <2>1 DEF Go
  <2>6. Len(traces') > MaxTraces => ~WillTrim(keeper[k])
    BY <1>0, <2>1, <2>2, <2>4, TraceStoreAssumption DEF WillTrim, Counting
  <2>. QED  BY <1>0, <2>1, <2>3, <2>5, <2>6, LimitKept DEF WillTrim
<1>11. ASSUME NEW k \in Keeper, KeeperDies(k) PROVE LimitInv'
  <2>1. UNCHANGED traces /\ (~loose' => ~loose /\ keeper[k].pc \notin Counting \cup {"trim"})
        /\ \A j \in Keeper : j # k => keeper'[j] = keeper[j]
    <3>1. UNCHANGED traces /\ Go(k, NoCall)
          /\ loose' = (loose \/ keeper[k].pc \in {"count", "quality", "recount", "trim"})
      BY <1>11 DEF KeeperDies
    <3>2. Counting \cup {"trim"} = {"count", "quality", "recount", "trim"}
      BY DEF Counting
    <3>3. \A j \in Keeper : j # k => keeper'[j] = keeper[j]
      BY <1>0, <3>1 DEF Go
    <3>. QED  BY <3>1, <3>2, <3>3, Zenon
  <2>2. \A j \in Keeper : j # k => WillTrim(keeper[j])' = WillTrim(keeper[j])
    BY <2>1 DEF WillTrim
  <2>3. ~loose' => ~WillTrim(keeper[k])
    BY <2>1 DEF WillTrim
  <2>. QED  BY <1>0, <2>1, <2>2, <2>3 DEF LimitInv
<1>12. ASSUME NEW t \in Trace, DeleteTrace(t) PROVE LimitInv'
  <2>1. Len(traces') <= Len(traces) /\ UNCHANGED <<keeper, loose>>
    BY <1>0, <1>12, DropMoves DEF DeleteTrace
  <2>. QED  BY <1>0, <2>1, LimitKept DEF WillTrim
<1>13. ASSUME NEW t \in Trace, ImportTrace(t) PROVE LimitInv'
  BY <1>0, <1>13 DEF ImportTrace, LimitInv
<1>. QED
  BY <1>2, <1>4, <1>5, <1>6, <1>7, <1>8, <1>9, <1>10, <1>11, <1>12, <1>13 DEF TraceStoreNext

\* The table, the queue and the frames keep their types: among others neither an
\* embedding nor a row of the queue outlives its trace (ON DELETE CASCADE).
THEOREM TracesTyped == TraceStoreSpec => []TraceStoreTypeOK
<1>1. TraceStoreTypeOK /\ [TraceStoreNext]_traceVars => TraceStoreTypeOK'
  BY StoreTypedStep
<1>. QED  BY <1>1, StoreTypedInit, PTL DEF TraceStoreSpec

\* However many processes count and delete in turns, the table is within
\* maxTraces when none is at it (enforceLimit, TraceStore.prune).
THEOREM LimitHoldsAtRest == TraceStoreSpec => []LimitAtRest
<1>1. TraceStoreInit => LimitInv
  <2>1. TraceStoreInit => Len(traces) = 0
    BY DEF TraceStoreInit
  <2>. QED  BY <2>1, StoreTypedInit, TraceStoreAssumption DEF LimitInv
<1>2. LimitInv /\ [TraceStoreNext]_traceVars => LimitInv'
  BY LimitStep
<1>3. LimitInv => LimitAtRest
  <2>1. LimitInv => Len(traces) \in Nat
    BY DEF LimitInv, TraceStoreTypeOK
  <2>. QED  BY <2>1, TraceStoreAssumption DEF LimitInv, LimitAtRest, WillTrim, Counting
<1>. QED  BY <1>1, <1>2, <1>3, PTL DEF TraceStoreSpec
-----------------------------------------------------------------------------
(* The embeddings *)

\* What every step preserves of the traces known so far: one that is in the table
\* and no import was there before, and neither an embedding nor its place in the
\* queue is lost for nothing
SafeMove ==
    /\ used \subseteq used'
    /\ \A t \in used : t \in Stored' \ back' =>
           /\ t \in Stored \ back
           /\ t \in vectors => t \in vectors'
           /\ t \in vectors \cup pending => t \in vectors' \cup pending'

LEMMA OwesKept ==
    ASSUME TraceStoreTypeOK, TraceStoreTypeOK', SafeMove, NEW f, Owes(f)
    PROVE  Owes(f)'
<1>1. NoTrace \notin Stored'
  BY TraceStoreAssumption, StoredIs DEF TraceStoreTypeOK, Stored, Range
<1>2. /\ {f.id, f.at} \subseteq used \cup {NoTrace} /\ f.batch \subseteq used
      /\ f.pc \in Past /\ f.id \in Stored \ back => f.id \in vectors \cup pending
      /\ f.pc = "dequeue" /\ f.at \in Stored \ back => f.at \in vectors
  BY DEF Owes
<1>3. /\ f.pc \in Past /\ f.id \in Stored' \ back' => f.id \in vectors' \cup pending'
      /\ f.pc = "dequeue" /\ f.at \in Stored' \ back' => f.at \in vectors'
  BY <1>1, <1>2 DEF SafeMove
<1>. QED  BY <1>2, <1>3 DEF Owes, SafeMove, Past

LEMMA EmbedMove ==
    ASSUME EmbeddingsInv, TraceStoreTypeOK', SafeMove, NEW k \in Keeper, NEW f,
           Go(k, f), Owes(f)',
           settled' \subseteq settled \cup (Stored \cap (back \cup vectors \cup pending))
    PROVE  EmbeddingsInv'
<1>0. TraceStoreTypeOK /\ keeper \in [Keeper -> KeeperFrame]
  BY DEF EmbeddingsInv, TraceStoreTypeOK
<1>1. ASSUME NEW j \in Keeper PROVE Owes(keeper[j])'
  <2>1. CASE j = k
    <3>1. keeper'[j] = f
      BY <1>0, <2>1 DEF Go
    <3>. QED  BY <3>1 DEF Owes
  <2>2. CASE j # k
    <3>1. PICK g : g = keeper[j]
      OBVIOUS
    <3>2. Owes(g)
      BY <3>1 DEF EmbeddingsInv
    <3>3. Owes(g)'
      BY <1>0, <3>2, OwesKept
    <3>4. keeper'[j] = g
      BY <1>0, <2>2, <3>1 DEF Go
    <3>. QED  BY <3>3, <3>4 DEF Owes
  <2>. QED  BY <2>1, <2>2
<1>2. NoEmbeddingForgotten'
  <2>1. SUFFICES ASSUME NEW t \in settled' \ back' PROVE t \in vectors' \cup pending'
    BY DEF NoEmbeddingForgotten
  <2>2. t \in used /\ t \in Stored'
    BY <1>0 DEF TraceStoreTypeOK
  <2>3. t \in Stored \ back
    BY <2>1, <2>2 DEF SafeMove
  <2>4. t \in vectors \cup pending
    BY <2>1, <2>3 DEF EmbeddingsInv, NoEmbeddingForgotten
  <2>. QED  BY <2>1, <2>2, <2>4 DEF SafeMove
<1>. QED  BY <1>1, <1>2 DEF EmbeddingsInv

\* A step beside the table: rows of the queue may go if their embeddings are there
LEMMA SafeBeside ==
    ASSUME TraceStoreTypeOK, UNCHANGED <<traces, used, back>>, vectors \subseteq vectors',
           \A t \in pending : t \in vectors' \cup pending' \cup back
    PROVE  SafeMove /\ Stored' = Stored
<1>1. Stored' = Stored
  BY SameTable
<1>. QED  BY <1>1 DEF SafeMove

LEMMA EmbedBeside ==
    ASSUME EmbeddingsInv, TraceStoreTypeOK', UNCHANGED <<traces, used, back>>,
           vectors \subseteq vectors', \A t \in pending : t \in vectors' \cup pending' \cup back,
           NEW k \in Keeper, NEW f, Go(k, f), Owes(f)',
           settled' \subseteq settled \cup (Stored \cap (back \cup vectors \cup pending))
    PROVE  EmbeddingsInv'
<1>1. TraceStoreTypeOK
  BY DEF EmbeddingsInv
<1>. QED  BY <1>1, SafeBeside, EmbedMove

\* Rows go, with all that is theirs
LEMMA SafeDrop ==
    ASSUME TraceStoreTypeOK, NEW gone, Drop(gone), UNCHANGED used
    PROVE  SafeMove /\ settled' \subseteq settled
BY DropMoves DEF SafeMove

\* A row comes, at an id that is new or counts as brought back
LEMMA SafeInsert ==
    ASSUME NEW t, Stored' = Stored \cup {t}, used' = used \cup {t}, UNCHANGED <<vectors, pending>>,
           back' = (IF t \in used THEN back \cup {t} ELSE back)
    PROVE  SafeMove
BY DEF SafeMove

\* A frame that owes nothing yet, and one that owes what it did
LEMMA OwesNothing ==
    ASSUME NEW f, f.pc \notin Past, {f.id, f.at} \subseteq used' \cup {NoTrace},
           f.batch \subseteq used'
    PROVE  Owes(f)'
BY DEF Owes, Past

LEMMA NoCallOwes == ASSUME NEW f, f = NoCall PROVE Owes(f)'
BY NoCallTyped DEF Owes, Past
LEMMA EmbeddingsStep ==
    ASSUME EmbeddingsInv, [TraceStoreNext]_traceVars
    PROVE  EmbeddingsInv'
<1>0. /\ TraceStoreTypeOK /\ TraceStoreTypeOK' /\ keeper \in [Keeper -> KeeperFrame]
      /\ Stored \subseteq used /\ pending \subseteq Stored /\ NoTrace \notin Stored
  BY StoreTypedStep, StoredIs, TraceStoreAssumption DEF EmbeddingsInv, TraceStoreTypeOK
<1>1. ASSUME NEW k \in Keeper PROVE
        /\ keeper[k] \in KeeperFrame
        /\ {keeper[k].id, keeper[k].at} \subseteq used \cup {NoTrace} /\ keeper[k].batch \subseteq used
        /\ keeper[k].pc \in Past /\ keeper[k].id \in Stored \ back
               => keeper[k].id \in vectors \cup pending
        /\ keeper[k].pc = "dequeue" /\ keeper[k].at \in Stored \ back => keeper[k].at \in vectors
  BY <1>0 DEF EmbeddingsInv, Owes
<1>2. CASE UNCHANGED traceVars
  BY <1>0, <1>2 DEF traceVars, EmbeddingsInv, NoEmbeddingForgotten, Owes, Stored
\* A frame moves and nothing else; it is not past embedBatch
<1>3. ASSUME NEW k \in Keeper, UNCHANGED <<traces, vectors, pending, used, back, settled>>, NEW f,
             Go(k, f), f.pc \notin Past, {f.id, f.at} \subseteq used \cup {NoTrace},
             f.batch \subseteq used
      PROVE  EmbeddingsInv'
  BY <1>0, <1>3, OwesNothing, EmbedBeside
<1>4. ASSUME NEW k \in Keeper, UNCHANGED <<traces, vectors, pending, used, back, settled>>,
             Go(k, NoCall)
      PROVE  EmbeddingsInv'
  BY <1>3, <1>4, NoCallTyped DEF Past
<1>5. ASSUME NEW k \in Keeper, StartStore(k) PROVE EmbeddingsInv'
  <2>1. PICK p : Go(k, [NoCall EXCEPT !.pc = "lookup", !.print = p])
    BY <1>5 DEF StartStore
  <2>2. PICK f : f = [NoCall EXCEPT !.pc = "lookup", !.print = p]
    OBVIOUS
  <2>3. f.pc = "lookup" /\ f.id = NoTrace /\ f.at = NoTrace /\ f.batch = {}
    BY <2>2, NoCallTyped DEF KeeperFrame
  <2>. QED  BY <1>3, <1>5, <2>1, <2>2, <2>3 DEF StartStore, Past
<1>6. ASSUME NEW k \in Keeper, FindDuplicate(k) PROVE EmbeddingsInv'
  <2>1. CASE Go(k, [keeper[k] EXCEPT !.pc = "insert"])
    <3>1. PICK f : f = [keeper[k] EXCEPT !.pc = "insert"]
      OBVIOUS
    <3>2. f.pc = "insert" /\ f.id = keeper[k].id /\ f.at = keeper[k].at /\ f.batch = keeper[k].batch
      BY <1>1, <3>1 DEF KeeperFrame
    <3>. QED  BY <1>1, <1>3, <1>6, <2>1, <3>1, <3>2 DEF FindDuplicate, Past
  <2>2. ASSUME NEW t \in Stored, Go(k, [keeper[k] EXCEPT !.pc = "fetch", !.id = t])
        PROVE  EmbeddingsInv'
    <3>1. PICK f : f = [keeper[k] EXCEPT !.pc = "fetch", !.id = t]
      OBVIOUS
    <3>2. f.pc = "fetch" /\ f.id = t /\ f.at = keeper[k].at /\ f.batch = keeper[k].batch
      BY <1>1, <3>1 DEF KeeperFrame
    <3>. QED  BY <1>0, <1>1, <1>3, <1>6, <2>2, <3>1, <3>2 DEF FindDuplicate, Past
  <2>. QED  BY <1>6, <2>1, <2>2 DEF FindDuplicate
<1>7. ASSUME NEW k \in Keeper, Go(k, [keeper[k] EXCEPT !.pc = "embed"]),
             UNCHANGED <<traces, vectors, pending, used, back, settled>>
      PROVE  EmbeddingsInv'
  <2>1. PICK f : f = [keeper[k] EXCEPT !.pc = "embed"]
    OBVIOUS
  <2>2. f.pc = "embed" /\ f.id = keeper[k].id /\ f.at = keeper[k].at /\ f.batch = keeper[k].batch
    BY <1>1, <2>1 DEF KeeperFrame
  <2>. QED  BY <1>1, <1>3, <1>7, <2>1, <2>2 DEF Past
<1>8. ASSUME NEW k \in Keeper, FetchDuplicate(k) PROVE EmbeddingsInv'
  <2>1. CASE keeper[k].id \in Stored
    BY <1>7, <1>8, <2>1 DEF FetchDuplicate, Returned
  <2>2. CASE keeper[k].id \notin Stored
    <3>1. PICK f : f = [keeper[k] EXCEPT !.pc = "insert", !.id = NoTrace]
      OBVIOUS
    <3>2. f.pc = "insert" /\ f.id = NoTrace /\ f.at = keeper[k].at /\ f.batch = keeper[k].batch
      BY <1>1, <3>1 DEF KeeperFrame
    <3>. QED  BY <1>1, <1>3, <1>8, <2>2, <3>1, <3>2 DEF FetchDuplicate, Past
  <2>. QED  BY <2>1, <2>2
<1>9. ASSUME NEW k \in Keeper, InsertTrace(k) PROVE EmbeddingsInv'
  <2>1. PICK t \in Trace \ used :
            /\ traces' = Append(traces, t) /\ used' = used \cup {t}
            /\ Go(k, [keeper[k] EXCEPT !.pc = "count", !.id = t])
    BY <1>9 DEF InsertTrace
  <2>2. UNCHANGED <<vectors, pending, back, settled>>
    BY <1>9 DEF InsertTrace
  <2>3. Stored' = Stored \cup {t}
    BY <1>0, <2>1, AppendMoves
  <2>4. SafeMove
    BY <2>1, <2>2, <2>3, SafeInsert
  <2>5. PICK f : f = [keeper[k] EXCEPT !.pc = "count", !.id = t]
    OBVIOUS
  <2>6. f.pc = "count" /\ f.id = t /\ f.at = keeper[k].at /\ f.batch = keeper[k].batch
    BY <1>1, <2>5 DEF KeeperFrame
  <2>7. Owes(f)'
    BY <1>1, <2>1, <2>6, OwesNothing DEF Past
  <2>. QED  BY <1>0, <2>1, <2>2, <2>4, <2>5, <2>7, EmbedMove
<1>10. ASSUME NEW k \in Keeper, CountTraces(k) PROVE EmbeddingsInv'
  <2>1. CASE Len(traces) <= MaxTraces
    BY <1>7, <1>10, <2>1 DEF CountTraces, Returned
  <2>2. CASE ~(Len(traces) <= MaxTraces)
    <3>1. PICK f : f = [keeper[k] EXCEPT !.pc = "quality"]
      OBVIOUS
    <3>2. f.pc = "quality" /\ f.id = keeper[k].id /\ f.at = keeper[k].at /\ f.batch = keeper[k].batch
      BY <1>1, <3>1 DEF KeeperFrame
    <3>. QED  BY <1>1, <1>3, <1>10, <2>2, <3>1, <3>2 DEF CountTraces, Past
  <2>. QED  BY <2>1, <2>2
<1>11. ASSUME NEW k \in Keeper, StartPrune(k) PROVE EmbeddingsInv'
  <2>1. PICK f : f = [NoCall EXCEPT !.pc = "quality"]
    OBVIOUS
  <2>2. f.pc = "quality" /\ f.id = NoTrace /\ f.at = NoTrace /\ f.batch = {}
    BY <2>1, NoCallTyped DEF KeeperFrame
  <2>. QED  BY <1>3, <1>11, <2>1, <2>2 DEF StartPrune, Past
<1>12. ASSUME NEW k \in Keeper, NEW gone, Drop(gone), UNCHANGED used, NEW f, Go(k, f),
              f.pc \notin Past, f.id = keeper[k].id, f.at = keeper[k].at, f.batch = keeper[k].batch
       PROVE  EmbeddingsInv'
  <2>1. Owes(f)'
    BY <1>1, <1>12, OwesNothing
  <2>. QED  BY <1>0, <1>12, <2>1, SafeDrop, EmbedMove
<1>13. ASSUME NEW k \in Keeper, DeleteLowQuality(k) PROVE EmbeddingsInv'
  <2>1. PICK low : Drop(low)
    BY <1>13 DEF DeleteLowQuality
  <2>2. PICK f : f = [keeper[k] EXCEPT !.pc = "recount"]
    OBVIOUS
  <2>3. f.pc = "recount" /\ f.id = keeper[k].id /\ f.at = keeper[k].at /\ f.batch = keeper[k].batch
    BY <1>1, <2>2 DEF KeeperFrame
  <2>4. Go(k, f) /\ UNCHANGED used
    BY <1>13, <2>2 DEF DeleteLowQuality
  <2>. QED  BY <1>12, <2>1, <2>3, <2>4 DEF Past
<1>14. ASSUME NEW k \in Keeper, CountExcess(k) PROVE EmbeddingsInv'
  <2>1. PICK f : /\ Go(k, f)
                 /\ \/ f = [keeper[k] EXCEPT !.pc = "trim", !.excess = Excess(Len(traces))]
                    \/ f = [keeper[k] EXCEPT !.pc = "final"]
    BY <1>14 DEF CountExcess
  <2>2. f.pc \in {"trim", "final"} /\ f.id = keeper[k].id /\ f.at = keeper[k].at
        /\ f.batch = keeper[k].batch
    BY <1>1, <2>1 DEF KeeperFrame
  <2>. QED  BY <1>1, <1>3, <1>14, <2>1, <2>2 DEF CountExcess, Past
<1>15. ASSUME NEW k \in Keeper, DeleteOldest(k) PROVE EmbeddingsInv'
  <2>1. PICK gone : Drop(gone)
    BY <1>15 DEF DeleteOldest
  <2>2. PICK f : f = [keeper[k] EXCEPT !.pc = "final", !.excess = 0]
    OBVIOUS
  <2>3. f.pc = "final" /\ f.id = keeper[k].id /\ f.at = keeper[k].at /\ f.batch = keeper[k].batch
    BY <1>1, <2>2 DEF KeeperFrame
  <2>4. Go(k, f) /\ UNCHANGED used
    BY <1>15, <2>2 DEF DeleteOldest
  <2>. QED  BY <1>12, <2>1, <2>3, <2>4 DEF Past
<1>16. ASSUME NEW k \in Keeper, CheckLimit(k) PROVE EmbeddingsInv'
  BY <1>4, <1>7, <1>16 DEF CheckLimit, Returned
<1>17. ASSUME NEW k \in Keeper, EndStore(k) PROVE EmbeddingsInv'
  BY <1>4, <1>17 DEF EndStore
<1>18. ASSUME NEW k \in Keeper, EmbedTrace(k) PROVE EmbeddingsInv'
  <2>1. PICK f : f = [keeper[k] EXCEPT !.pc = "list"]
    OBVIOUS
  <2>2. f.pc = "list" /\ f.id = keeper[k].id /\ f.at = keeper[k].at /\ f.batch = keeper[k].batch
    BY <1>1, <2>1 DEF KeeperFrame
  <2>3. UNCHANGED <<traces, used, back, settled>>
    BY <1>18 DEF EmbedTrace
  <2>4. CASE Go(k, f) /\ (f.id \in Stored => f.id \in vectors' \cup pending')
    <3>1. CASE /\ vectors \subseteq vectors' /\ pending \subseteq pending'
      <4>1. Stored' = Stored
        BY <1>0, <2>3, SameTable
      <4>2. Owes(f)'
        BY <1>1, <2>2, <2>3, <2>4, <4>1 DEF Owes
      <4>. QED  BY <1>0, <2>3, <2>4, <3>1, <4>2, EmbedBeside
    <3>2. vectors \subseteq vectors' /\ pending \subseteq pending'
      BY <1>18 DEF EmbedTrace, Retry
    <3>. QED  BY <3>1, <3>2
  <2>5. CASE Go(k, NoCall) /\ UNCHANGED <<vectors, pending>>
    BY <1>4, <2>3, <2>5
  <2>. QED  BY <1>18, <2>1, <2>2, <2>4, <2>5 DEF EmbedTrace, Retry
<1>19. ASSUME NEW k \in Keeper, DrainAlone(k) PROVE EmbeddingsInv'
  <2>1. PICK f : f = [NoCall EXCEPT !.pc = "list"]
    OBVIOUS
  <2>2. f.pc = "list" /\ f.id = NoTrace /\ f.at = NoTrace /\ f.batch = {}
    BY <2>1, NoCallTyped DEF KeeperFrame
  <2>3. UNCHANGED <<traces, vectors, pending, used, back, settled>> /\ Go(k, f)
    BY <1>19, <2>1 DEF DrainAlone
  <2>4. Stored' = Stored
    BY <1>0, <2>3, SameTable
  <2>5. Owes(f)'
    BY <1>0, <2>2, <2>4 DEF Owes
  <2>. QED  BY <1>0, <2>3, <2>5, EmbedBeside
<1>20. ASSUME NEW k \in Keeper, keeper[k].pc \in Past, NEW f, Go(k, f), f.pc \in Past,
              f.id = keeper[k].id, f.at \in used \cup {NoTrace}, f.batch \subseteq used,
              f.pc = "dequeue" /\ f.at \in Stored \ back => f.at \in vectors',
              UNCHANGED <<traces, used, back, settled>>, vectors \subseteq vectors',
              \A t \in pending : t \in vectors' \cup pending' \cup back
       PROVE  EmbeddingsInv'
  <2>1. Stored' = Stored
    BY <1>0, <1>20, SameTable
  <2>2. Owes(f)'
    BY <1>1, <1>20, <2>1 DEF Owes
  <2>. QED  BY <1>0, <1>20, <2>2, EmbedBeside
<1>21. ASSUME NEW k \in Keeper, ListPending(k) PROVE EmbeddingsInv'
  <2>1. PICK f : f = [keeper[k] EXCEPT !.pc = "drain", !.batch = pending]
    OBVIOUS
  <2>2. f.pc = "drain" /\ f.id = keeper[k].id /\ f.at = keeper[k].at /\ f.batch = pending
    BY <1>1, <2>1 DEF KeeperFrame
  <2>3. /\ UNCHANGED <<traces, vectors, pending, used, back, settled>> /\ Go(k, f)
        /\ keeper[k].pc = "list"
    BY <1>21, <2>1 DEF ListPending
  <2>. QED  BY <1>0, <1>1, <1>20, <2>2, <2>3 DEF Past
<1>22. ASSUME NEW k \in Keeper, DrainNext(k) PROVE EmbeddingsInv'
  <2>0. UNCHANGED <<traces, vectors, pending, used, back>> /\ keeper[k].pc = "drain"
    BY <1>22 DEF DrainNext
  <2>1. CASE settled' = settled \cup ({keeper[k].id} \cap Stored) /\ Go(k, NoCall)
    <3>1. PICK f : f = NoCall
      OBVIOUS
    <3>2. {keeper[k].id} \cap Stored \subseteq back \cup vectors \cup pending
      BY <1>1, <2>0 DEF Past
    <3>. QED  BY <1>0, <2>0, <2>1, <3>1, <3>2, NoCallOwes, EmbedBeside
  <2>2. ASSUME NEW t \in keeper[k].batch, UNCHANGED settled,
               Go(k, [keeper[k] EXCEPT !.pc = IF t \in Stored THEN "reembed" ELSE "dequeue",
                                       !.at = t, !.batch = @ \ {t}])
        PROVE  EmbeddingsInv'
    <3>1. PICK f : f = [keeper[k] EXCEPT !.pc = IF t \in Stored THEN "reembed" ELSE "dequeue",
                                         !.at = t, !.batch = @ \ {t}]
      OBVIOUS
    <3>2. /\ f.pc = (IF t \in Stored THEN "reembed" ELSE "dequeue") /\ f.id = keeper[k].id
          /\ f.at = t /\ f.batch = keeper[k].batch \ {t}
      BY <1>1, <3>1 DEF KeeperFrame
    <3>3. /\ Go(k, f) /\ f.pc \in Past /\ f.at \in used \cup {NoTrace} /\ f.batch \subseteq used
          /\ (f.pc = "dequeue" /\ f.at \in Stored \ back => f.at \in vectors')
      BY <1>1, <2>2, <3>1, <3>2 DEF Past
    <3>4. \A x \in pending : x \in vectors' \cup pending' \cup back
      BY <2>0
    <3>5. keeper[k].pc \in Past /\ f.id = keeper[k].id
      BY <2>0, <3>2 DEF Past
    <3>. QED  BY <1>20, <2>0, <2>2, <3>3, <3>4, <3>5
  <2>. QED  BY <1>22, <2>1, <2>2 DEF DrainNext
<1>23. ASSUME NEW k \in Keeper, Reembed(k) PROVE EmbeddingsInv'
  <2>0. UNCHANGED <<traces, pending, used, back, settled>> /\ keeper[k].pc = "reembed"
    BY <1>23 DEF Reembed
  <2>1. CASE /\ vectors' = vectors \cup ({keeper[k].at} \cap Stored)
             /\ Go(k, [keeper[k] EXCEPT !.pc = "dequeue"])
    <3>1. PICK f : f = [keeper[k] EXCEPT !.pc = "dequeue"]
      OBVIOUS
    <3>2. f.pc = "dequeue" /\ f.id = keeper[k].id /\ f.at = keeper[k].at /\ f.batch = keeper[k].batch
      BY <1>1, <3>1 DEF KeeperFrame
    <3>3. /\ Go(k, f) /\ f.pc \in Past /\ f.at \in used \cup {NoTrace} /\ f.batch \subseteq used
          /\ (f.pc = "dequeue" /\ f.at \in Stored \ back => f.at \in vectors')
      BY <1>1, <2>1, <3>1, <3>2 DEF Past
    <3>4. /\ \A x \in pending : x \in vectors' \cup pending' \cup back
          /\ vectors \subseteq vectors'
      BY <2>0, <2>1
    <3>5. keeper[k].pc \in Past /\ f.id = keeper[k].id
      BY <2>0, <3>2 DEF Past
    <3>. QED  BY <1>20, <2>0, <3>3, <3>4, <3>5
  <2>2. CASE UNCHANGED vectors /\ Go(k, [keeper[k] EXCEPT !.pc = "drain", !.at = NoTrace])
    <3>1. PICK f : f = [keeper[k] EXCEPT !.pc = "drain", !.at = NoTrace]
      OBVIOUS
    <3>2. f.pc = "drain" /\ f.id = keeper[k].id /\ f.at = NoTrace /\ f.batch = keeper[k].batch
      BY <1>1, <3>1 DEF KeeperFrame
    <3>. QED  BY <1>1, <1>20, <2>0, <2>2, <3>1, <3>2 DEF Past
  <2>. QED  BY <1>23, <2>1, <2>2 DEF Reembed
<1>24. ASSUME NEW k \in Keeper, Dequeue(k) PROVE EmbeddingsInv'
  <2>1. PICK f : f = [keeper[k] EXCEPT !.pc = "drain", !.at = NoTrace]
    OBVIOUS
  <2>2. f.pc = "drain" /\ f.id = keeper[k].id /\ f.at = NoTrace /\ f.batch = keeper[k].batch
    BY <1>1, <2>1 DEF KeeperFrame
  <2>3. /\ UNCHANGED <<traces, vectors, used, back, settled>> /\ Go(k, f)
        /\ keeper[k].pc = "dequeue" /\ pending' = pending \ {keeper[k].at}
    BY <1>24, <2>1 DEF Dequeue
  <2>4. \A t \in pending : t \in vectors' \cup pending' \cup back
    BY <1>0, <1>1, <2>3
  <2>. QED  BY <1>1, <1>20, <2>2, <2>3, <2>4 DEF Past
<1>25. ASSUME NEW k \in Keeper, KeeperDies(k) PROVE EmbeddingsInv'
  BY <1>4, <1>25 DEF KeeperDies
\* Steps beside every frame
<1>26. ASSUME SafeMove, UNCHANGED keeper, settled' \subseteq settled PROVE EmbeddingsInv'
  <2>1. ASSUME NEW j \in Keeper PROVE Owes(keeper[j])'
    <3>1. PICK g : g = keeper[j]
      OBVIOUS
    <3>2. Owes(g)
      BY <3>1 DEF EmbeddingsInv
    <3>3. Owes(g)'
      BY <1>0, <1>26, <3>2, OwesKept
    <3>. QED  BY <1>26, <3>1, <3>3 DEF Owes
  <2>2. NoEmbeddingForgotten'
    <3>1. SUFFICES ASSUME NEW t \in settled' \ back' PROVE t \in vectors' \cup pending'
      BY DEF NoEmbeddingForgotten
    <3>2. t \in used /\ t \in Stored' /\ t \in settled
      BY <1>0, <1>26 DEF TraceStoreTypeOK
    <3>. QED  BY <1>26, <3>1, <3>2 DEF SafeMove, EmbeddingsInv, NoEmbeddingForgotten
  <2>. QED  BY <1>0, <2>1, <2>2 DEF EmbeddingsInv
<1>27. ASSUME NEW t \in Trace, DeleteTrace(t) PROVE EmbeddingsInv'
  BY <1>0, <1>26, <1>27, SafeDrop DEF DeleteTrace
<1>28. ASSUME NEW t \in Trace, ImportTrace(t) PROVE EmbeddingsInv'
  <2>1. /\ t \in Trace \ Stored /\ \E n \in 0 .. Len(traces) : traces' = InsertAt(traces, n + 1, t)
        /\ back' = (IF t \in used THEN back \cup {t} ELSE back) /\ used' = used \cup {t}
        /\ UNCHANGED <<vectors, pending, keeper, settled>>
    BY <1>28 DEF ImportTrace
  <2>2. Stored' = Stored \cup {t}
    BY <1>0, <2>1, InsertMoves
  <2>. QED  BY <1>26, <2>1, <2>2, SafeInsert
<1>. QED
  BY <1>2, <1>5, <1>6, <1>8, <1>9, <1>10, <1>11, <1>13, <1>14, <1>15, <1>16, <1>17, <1>18, <1>19,
     <1>21, <1>22, <1>23, <1>24, <1>25, <1>27, <1>28 DEF TraceStoreNext

\* Whatever drains, deletes, imports or dies meanwhile, a trace that
\* storeTraceAsync has returned is embedded or waits in the queue (engine.ts: a
\* failure of the provider is not swallowed).
THEOREM EmbeddingsNotForgotten == TraceStoreSpec => []NoEmbeddingForgotten
<1>1. TraceStoreInit => EmbeddingsInv
  <2>1. TraceStoreInit => NoEmbeddingForgotten
    BY DEF TraceStoreInit, NoEmbeddingForgotten
  <2>2. ASSUME TraceStoreInit, NEW k \in Keeper PROVE Owes(keeper[k])
    BY <2>2, NoCallTyped DEF TraceStoreInit, Owes, Past
  <2>. QED  BY <2>1, <2>2, StoreTypedInit DEF EmbeddingsInv
<1>2. EmbeddingsInv /\ [TraceStoreNext]_traceVars => EmbeddingsInv'
  BY EmbeddingsStep
<1>3. EmbeddingsInv => NoEmbeddingForgotten
  BY DEF EmbeddingsInv
<1>. QED  BY <1>1, <1>2, <1>3, PTL DEF TraceStoreSpec
-----------------------------------------------------------------------------
(***************************************************************************)
(* The votes.  A recall is judged once because no verdict precedes its      *)
(* recall in the log, so that whoever finds the recall open has the whole   *)
(* history of it in view (InOrder), because two calls that judge one recall *)
(* count as a race (Judged), and because a call that has resolved to a      *)
(* recall finds it without a verdict until it logs its own.  The bandit     *)
(* learns no more than the clear verdicts because every posterior, and      *)
(* every copy of one that a call carries, is behind them by as many as      *)
(* have still to be written (Behind).                                      *)
(***************************************************************************)
InOrder ==
    \A i, j \in DOMAIN events :
        events[i].kind = "retrieval" /\ events[j].kind = "verdict" /\ events[i].q = events[j].q
            => i < j

Judging(v) == voter[v].pc \in {"read", "write", "log"} /\ voter[v].q # NoRecall

Judged ==
    /\ \A v, w \in Voter : Judging(v) /\ Judging(w) /\ voter[v].q = voter[w].q => v = w
    /\ \A v \in Voter : Judging(v) => VerdictsOn(voter[v].q) = {}
    /\ \A q \in RecallId : \A i, j \in VerdictsOn(q) : i = j

ToGlobal == {v \in Voter : voter[v].pc \in {"load", "loadBucket", "save"}}
ToBucket == {v \in Voter : voter[v].pc \in {"load", "loadBucket", "save", "saveBucket"}}

Behind(n, owed) == n + Cardinality(owed) <= Cardinality(ClearVerdicts)

Posteriors ==
    /\ IsFiniteSet(ToGlobal) /\ IsFiniteSet(ToBucket)
    /\ Behind(learned.global, ToGlobal) /\ Behind(learned.bucket, ToBucket)
    /\ \A v \in Voter :
        /\ voter[v].pc \in {"loadBucket", "save"} => Behind(voter[v].old, ToGlobal)
        /\ voter[v].pc \in {"save", "saveBucket"} => Behind(voter[v].oldBucket, ToBucket)

VotesInv ==
    FeedbackTypeOK /\ InOrder /\ (~raced /\ Len(events) <= ReadLimit => Judged) /\ Posteriors
Entry == Retrieval \cup Verdict

LEMMA EventsTyped ==
    ASSUME FeedbackTypeOK
    PROVE  /\ events \in Seq(Entry) /\ Len(events) \in Nat /\ DOMAIN events = 1 .. Len(events)
           /\ \A i \in DOMAIN events : /\ events[i] \in Entry /\ events[i].q \in RecallId
                                       /\ events[i].kind \in {"retrieval", "verdict"}
           /\ ClearVerdicts \subseteq 1 .. Len(events) /\ IsFiniteSet(ClearVerdicts)
           /\ Cardinality(ClearVerdicts) \in Nat
           /\ voter \in [Voter -> VoterFrame] /\ learned \in [global : Nat, bucket : Nat]
<1>1. /\ events \in Seq(Entry) /\ Len(events) \in Nat /\ DOMAIN events = 1 .. Len(events)
      /\ voter \in [Voter -> VoterFrame] /\ learned \in [global : Nat, bucket : Nat]
  BY DEF FeedbackTypeOK, Entry
<1>2. \A e \in Entry : e.q \in RecallId /\ e.kind \in {"retrieval", "verdict"}
  BY DEF Entry, Retrieval, Verdict
<1>3. \A i \in DOMAIN events : events[i] \in Entry
  BY <1>1
<1>4. ClearVerdicts \subseteq 1 .. Len(events)
  BY <1>1 DEF ClearVerdicts
<1>5. IsFiniteSet(ClearVerdicts)
  <2>1. IsFiniteSet(1 .. Len(events))
    BY <1>1, FS_Interval
  <2>2. ClearVerdicts \in SUBSET (1 .. Len(events))
    BY <1>4
  <2>. QED  BY <2>1, <2>2, FS_Subset
<1>. QED  BY <1>1, <1>2, <1>3, <1>4, <1>5, FS_CardinalityType

\* A log that fits one page is read whole
LEMMA FirstIsAll ==
    ASSUME FeedbackTypeOK, Len(events) <= ReadLimit, NEW view \in SUBSET DOMAIN events
    PROVE  First(view) = view
<1>1. DOMAIN events = 1 .. Len(events) /\ Len(events) \in Nat
  BY EventsTyped
<1>2. IsFiniteSet(1 .. Len(events)) /\ Cardinality(1 .. Len(events)) = Len(events)
  BY <1>1, FS_Interval
<1>3. ASSUME NEW i \in view PROVE Cardinality({j \in view : j <= i}) <= ReadLimit
  <2>. DEFINE S == {j \in view : j <= i}
  <2>1. S \subseteq 1 .. Len(events)
    BY <1>1
  <2>. HIDE DEF S
  <2>2. Cardinality(S) <= Len(events) /\ Cardinality(S) \in Nat
    BY <1>2, <2>1, FS_Subset, FS_CardinalityType
  <2>3. Cardinality(S) <= ReadLimit
    BY <1>1, <2>2, FeedbackAssumption
  <2>. QED  BY <2>3 DEF S
<1>. QED  BY <1>3 DEF First

\* The guessing form credits the last of the open recalls: the log ends
LEMMA LatestIsOpen ==
    ASSUME FeedbackTypeOK, Open # {}
    PROVE  LatestOpen \in Open /\ LatestOpen \in DOMAIN events
<1>1. Open \subseteq DOMAIN events
  BY DEF Open, Among, First
<1>2. DOMAIN events = 1 .. Len(events) /\ Len(events) \in Nat
  BY EventsTyped
<1>. DEFINE T == {Len(events) - i : i \in Open}
<1>3. T \in SUBSET Nat /\ T # {}
  BY <1>1, <1>2
<1>4. PICK n \in T : \A m \in T : n <= m
  BY <1>3, LeastOfNat
<1>5. PICK i \in Open : n = Len(events) - i
  BY <1>4
<1>6. \A j \in Open : j <= i
  <2>1. TAKE j \in Open
  <2>2. n <= Len(events) - j
    BY <1>4
  <2>3. i \in Nat /\ j \in Nat
    BY <1>1, <1>2
  <2>. QED  BY <1>2, <1>5, <2>2, <2>3
<1>. QED  BY <1>1, <1>5, <1>6 DEF LatestOpen

LEMMA PutMoves ==
    ASSUME FeedbackTypeOK, NEW v \in Voter, NEW f \in VoterFrame, Put(v, f)
    PROVE  /\ voter' \in [Voter -> VoterFrame] /\ voter'[v] = f
           /\ \A w \in Voter : w # v => voter'[w] = voter[w]
BY DEF FeedbackTypeOK, Put

LEMMA NotVotingTyped == NotVoting \in VoterFrame /\ NotVoting.pc = "idle"
BY DEF NotVoting, VoterFrame

LEMMA AppendEvent ==
    ASSUME FeedbackTypeOK, NEW e \in Entry, events' = Append(events, e)
    PROVE  /\ events' \in Seq(Entry) /\ Len(events') = Len(events) + 1
           /\ DOMAIN events' = DOMAIN events \cup {Len(events) + 1}
           /\ Len(events) + 1 \notin DOMAIN events
           /\ \A i \in DOMAIN events : events'[i] = events[i]
           /\ events'[Len(events) + 1] = e
<1>1. events \in Seq(Entry) /\ DOMAIN events = 1 .. Len(events) /\ Len(events) \in Nat
  BY EventsTyped
<1>2. /\ events' \in Seq(Entry) /\ Len(events') = Len(events) + 1
      /\ \A i \in 1 .. Len(events) : events'[i] = events[i]
      /\ events'[Len(events) + 1] = e
  BY <1>1, AppendProperties
<1>3. DOMAIN events' = 1 .. Len(events) + 1
  BY <1>1, <1>2
<1>. QED  BY <1>1, <1>2, <1>3

-----------------------------------------------------------------------------
LEMMA VotesTypedInit == FeedbackInit => FeedbackTypeOK
<1>. SUFFICES ASSUME FeedbackInit PROVE FeedbackTypeOK
  OBVIOUS
<1>1. events \in Seq(Retrieval \cup Verdict) /\ expired \in 0 .. Len(events)
  BY DEF FeedbackInit
<1>2. voter \in [Voter -> VoterFrame]
  BY NotVotingTyped DEF FeedbackInit
<1>3. learned \in [global : Nat, bucket : Nat]
  BY DEF FeedbackInit
<1>. QED  BY <1>1, <1>2, <1>3 DEF FeedbackInit, FeedbackTypeOK

LEMMA VotesTypedBeside ==
    ASSUME FeedbackTypeOK, UNCHANGED <<events, expired, kept>>, NEW v \in Voter,
           NEW f \in VoterFrame, Put(v, f), recalls' \in Nat, raced' \in BOOLEAN,
           learned' \in [global : Nat, bucket : Nat]
    PROVE  FeedbackTypeOK'
<1>1. voter' \in [Voter -> VoterFrame]
  BY PutMoves
<1>. QED  BY <1>1 DEF FeedbackTypeOK

LEMMA VotesTypedStep ==
    ASSUME FeedbackTypeOK, [FeedbackNext]_voteVars
    PROVE  FeedbackTypeOK'
<1>0. /\ voter \in [Voter -> VoterFrame] /\ learned \in [global : Nat, bucket : Nat]
      /\ recalls \in Nat /\ raced \in BOOLEAN /\ expired \in 0 .. Len(events)
      /\ kept \in BOOLEAN /\ Len(events) \in Nat
  BY EventsTyped DEF FeedbackTypeOK
<1>1. \A v \in Voter : voter[v] \in VoterFrame
  BY <1>0
<1>2. CASE UNCHANGED voteVars
  BY <1>2 DEF voteVars, FeedbackTypeOK
<1>3. ASSUME NEW q \in RecallId, RecallTrace(q) PROVE FeedbackTypeOK'
  <2>1. PICK e \in Entry : events' = Append(events, e)
    <3>1. PICK s \in BOOLEAN :
              events' = Append(events, [kind |-> "retrieval", q |-> q, selected |-> s])
      BY <1>3 DEF RecallTrace
    <3>2. [kind |-> "retrieval", q |-> q, selected |-> s] \in Entry
      BY DEF Entry, Retrieval
    <3>. QED  BY <3>1, <3>2
  <2>2. events' \in Seq(Entry) /\ Len(events') = Len(events) + 1
    BY <2>1, AppendEvent
  <2>3. expired' \in 0 .. Len(events')
    BY <1>0, <1>3, <2>2 DEF RecallTrace
  <2>. QED  BY <1>0, <1>3, <2>2, <2>3 DEF RecallTrace, FeedbackTypeOK, Entry
<1>4. CASE Expire
  <2>1. expired' \in 0 .. Len(events)
    BY <1>0, <1>4 DEF Expire
  <2>. QED  BY <1>4, <2>1 DEF Expire, FeedbackTypeOK
<1>5. CASE Forget
  BY <1>5 DEF Forget, FeedbackTypeOK
<1>6. ASSUME NEW v \in Voter, NEW q \in RecallId \cup {NoRecall}, NEW c \in BOOLEAN, Resolve(v, q, c)
      PROVE  FeedbackTypeOK'
  <2>1. [NotVoting EXCEPT !.pc = "read", !.q = q, !.clear = c] \in VoterFrame
    BY DEF NotVoting, VoterFrame
  <2>2. raced' \in BOOLEAN
    BY <1>6 DEF Resolve
  <2>. QED  BY <1>0, <1>6, <2>1, <2>2, VotesTypedBeside DEF Resolve
<1>7. ASSUME NEW q \in RecallId, NEW v \in Voter, VoteFor(v, q) PROVE FeedbackTypeOK'
  <2>1. Exact(q) \in RecallId \cup {NoRecall}
    BY DEF Exact
  <2>. QED  BY <1>6, <1>7, <2>1 DEF VoteFor
<1>8. ASSUME NEW v \in Voter, Vote(v) PROVE FeedbackTypeOK'
  <2>1. events[LatestOpen].q \in RecallId
    BY <1>8, LatestIsOpen, EventsTyped DEF Vote
  <2>. QED  BY <1>6, <1>8, <2>1 DEF Vote
<1>9. ASSUME NEW v \in Voter, VoteBlindly(v) PROVE FeedbackTypeOK'
  BY <1>6, <1>9 DEF VoteBlindly
<1>10. ASSUME NEW v \in Voter, ReadQuality(v) PROVE FeedbackTypeOK'
  <2>1. /\ [voter[v] EXCEPT !.pc = "write", !.old = recalls] \in VoterFrame
        /\ [voter[v] EXCEPT !.pc = "log"] \in VoterFrame
    BY <1>0, <1>1 DEF VoterFrame
  <2>. QED  BY <1>0, <1>10, <2>1, VotesTypedBeside DEF ReadQuality
<1>11. ASSUME NEW v \in Voter, WriteQuality(v) PROVE FeedbackTypeOK'
  <2>1. [voter[v] EXCEPT !.pc = "log", !.old = 0] \in VoterFrame /\ voter[v].old \in Nat
    BY <1>0, <1>1 DEF VoterFrame
  <2>. QED  BY <1>0, <1>11, <2>1, VotesTypedBeside DEF WriteQuality
<1>12. ASSUME NEW v \in Voter, LogVerdict(v) PROVE FeedbackTypeOK'
  <2>1. CASE voter[v].q = NoRecall
    BY <1>0, <1>12, <2>1, NotVotingTyped, VotesTypedBeside DEF LogVerdict
  <2>2. CASE voter[v].q # NoRecall
    <3>. DEFINE e == [kind |-> "verdict", q |-> voter[v].q, clear |-> voter[v].clear]
    <3>1. e \in Entry
      BY <1>1, <2>2 DEF Entry, Verdict, VoterFrame
    <3>2. events' = Append(events, e)
      BY <1>12, <2>2 DEF LogVerdict
    <3>3. [voter[v] EXCEPT !.pc = "load"] \in VoterFrame
      BY <1>1 DEF VoterFrame
    <3>. HIDE DEF e
    <3>4. events' \in Seq(Entry) /\ Len(events') = Len(events) + 1
      BY <3>1, <3>2, AppendEvent
    <3>5. expired' \in 0 .. Len(events')
      BY <1>0, <1>12, <3>4 DEF LogVerdict
    <3>6. voter' \in [Voter -> VoterFrame]
      BY <1>12, <2>2, <3>3, NotVotingTyped, PutMoves DEF LogVerdict
    <3>. QED  BY <1>0, <1>12, <3>4, <3>5, <3>6 DEF LogVerdict, FeedbackTypeOK, Entry
  <2>. QED  BY <2>1, <2>2
<1>13. ASSUME NEW v \in Voter, LoadGlobal(v) PROVE FeedbackTypeOK'
  <2>1. [voter[v] EXCEPT !.pc = "loadBucket", !.old = learned.global] \in VoterFrame
    BY <1>0, <1>1 DEF VoterFrame
  <2>. QED  BY <1>0, <1>13, <2>1, VotesTypedBeside DEF LoadGlobal
<1>14. ASSUME NEW v \in Voter, LoadBucket(v) PROVE FeedbackTypeOK'
  <2>1. [voter[v] EXCEPT !.pc = "save", !.oldBucket = learned.bucket] \in VoterFrame
    BY <1>0, <1>1 DEF VoterFrame
  <2>. QED  BY <1>0, <1>14, <2>1, VotesTypedBeside DEF LoadBucket
<1>15. ASSUME NEW v \in Voter, SaveGlobal(v) PROVE FeedbackTypeOK'
  <2>1. [voter[v] EXCEPT !.pc = "saveBucket", !.old = 0] \in VoterFrame
    BY <1>1 DEF VoterFrame
  <2>2. [learned EXCEPT !.global = voter[v].old + 1] \in [global : Nat, bucket : Nat]
    BY <1>0, <1>1 DEF VoterFrame
  <2>. QED  BY <1>0, <1>15, <2>1, <2>2, VotesTypedBeside DEF SaveGlobal
<1>16. ASSUME NEW v \in Voter, SaveBucket(v) PROVE FeedbackTypeOK'
  <2>1. [learned EXCEPT !.bucket = voter[v].oldBucket + 1] \in [global : Nat, bucket : Nat]
    BY <1>0, <1>1 DEF VoterFrame
  <2>. QED  BY <1>0, <1>16, <2>1, NotVotingTyped, VotesTypedBeside DEF SaveBucket
<1>17. ASSUME NEW v \in Voter, VoterDies(v) PROVE FeedbackTypeOK'
  BY <1>0, <1>17, NotVotingTyped, VotesTypedBeside DEF VoterDies
<1>. QED
  BY <1>2, <1>3, <1>4, <1>5, <1>7, <1>8, <1>9, <1>10, <1>11, <1>12, <1>13, <1>14, <1>15, <1>16,
     <1>17 DEF FeedbackNext
\* The verdicts after an event that is none, and after one that is
LEMMA VerdictsGrow ==
    ASSUME FeedbackTypeOK, NEW e \in Entry, events' = Append(events, e)
    PROVE  /\ \A q : VerdictsOn(q)' = VerdictsOn(q) \cup
                  (IF e.kind = "verdict" /\ e.q = q THEN {Len(events) + 1} ELSE {})
           /\ ClearVerdicts' = ClearVerdicts \cup
                  (IF e.kind = "verdict" /\ e.clear THEN {Len(events) + 1} ELSE {})
<1>1. /\ DOMAIN events' = DOMAIN events \cup {Len(events) + 1}
      /\ Len(events) + 1 \notin DOMAIN events
      /\ \A i \in DOMAIN events : events'[i] = events[i]
      /\ events'[Len(events) + 1] = e
  BY AppendEvent
<1>2. ASSUME NEW q
      PROVE  VerdictsOn(q)' = VerdictsOn(q) \cup
                 (IF e.kind = "verdict" /\ e.q = q THEN {Len(events) + 1} ELSE {})
  BY <1>1 DEF VerdictsOn
<1>3. ClearVerdicts' = ClearVerdicts \cup
          (IF e.kind = "verdict" /\ e.clear THEN {Len(events) + 1} ELSE {})
  BY <1>1 DEF ClearVerdicts
<1>. QED  BY <1>2, <1>3

LEMMA SameEvents ==
    ASSUME UNCHANGED events
    PROVE  ClearVerdicts' = ClearVerdicts /\ \A q : VerdictsOn(q)' = VerdictsOn(q)
BY DEF ClearVerdicts, VerdictsOn

LEMMA OrderKept ==
    ASSUME FeedbackTypeOK, InOrder, NEW e \in Entry, events' = Append(events, e),
           e.kind = "retrieval" => ~Happened(e.q)
    PROVE  InOrder'
<1>1. /\ DOMAIN events' = DOMAIN events \cup {Len(events) + 1}
      /\ DOMAIN events = 1 .. Len(events) /\ Len(events) \in Nat
      /\ \A i \in DOMAIN events : events'[i] = events[i]
      /\ events'[Len(events) + 1] = e
  BY AppendEvent, EventsTyped
<1>2. SUFFICES ASSUME NEW i \in DOMAIN events', NEW j \in DOMAIN events',
                      events'[i].kind = "retrieval", events'[j].kind = "verdict",
                      events'[i].q = events'[j].q
               PROVE  i < j
  BY DEF InOrder
<1>3. CASE i \in DOMAIN events /\ j \in DOMAIN events
  BY <1>1, <1>2, <1>3 DEF InOrder
<1>4. CASE i \in DOMAIN events /\ j = Len(events) + 1
  BY <1>1, <1>4
<1>5. CASE i = Len(events) + 1
  <2>1. ~Happened(e.q) /\ e.kind = "retrieval"
    BY <1>1, <1>2, <1>5
  <2>2. j \in DOMAIN events
    BY <1>1, <1>2, <1>5, <2>1
  <2>. QED  BY <1>1, <1>2, <1>5, <2>1, <2>2 DEF Happened
<1>. QED  BY <1>1, <1>3, <1>4, <1>5

\* Nobody resolves to a recall that has its verdict
LEMMA OpenIsUnjudged ==
    ASSUME FeedbackTypeOK, InOrder, Len(events) <= ReadLimit, Open # {}
    PROVE  VerdictsOn(events[LatestOpen].q) = {}
<1>. DEFINE i == LatestOpen
            view == First({j \in DOMAIN events : j > expired})
<1>1. i \in Open /\ i \in DOMAIN events
  BY LatestIsOpen
<1>2. view = {j \in DOMAIN events : j > expired}
  <2>1. {j \in DOMAIN events : j > expired} \in SUBSET DOMAIN events
    OBVIOUS
  <2>. QED  BY <2>1, FirstIsAll
<1>3. i \in Among(view, "retrieval") /\ events[i].q \notin Credited(view)
  BY <1>1 DEF Open
<1>. HIDE DEF i, view
<1>4. i \in view /\ events[i].kind = "retrieval"
  BY <1>3 DEF Among
<1>5. ASSUME NEW j \in VerdictsOn(events[i].q) PROVE FALSE
  <2>1. j \in DOMAIN events /\ events[j].kind = "verdict" /\ events[j].q = events[i].q
    BY DEF VerdictsOn
  <2>2. i < j
    BY <1>2, <1>4, <2>1 DEF InOrder
  <2>3. DOMAIN events = 1 .. Len(events) /\ expired \in Nat /\ Len(events) \in Nat
    BY EventsTyped DEF FeedbackTypeOK
  <2>4. j \in view
    BY <1>2, <1>4, <2>1, <2>2, <2>3
  <2>5. events[j].q \in Credited(view)
    BY <2>1, <2>4 DEF Credited, Among
  <2>. QED  BY <1>3, <2>1, <2>5
<1>. QED  BY <1>5 DEF i

LEMMA UncreditedIsUnjudged ==
    ASSUME FeedbackTypeOK, Len(events) <= ReadLimit, NEW q, ~AlreadyCredited(q)
    PROVE  VerdictsOn(q) = {}
<1>. DEFINE all == {i \in DOMAIN events : events[i].q = q}
<1>1. First(all) = all
  BY FirstIsAll
<1>2. q \notin Credited(all)
  BY <1>1 DEF AlreadyCredited
<1>. QED  BY <1>2 DEF VerdictsOn, Credited, Among

\* A step of one frame that resolves to nothing new
LEMMA JudgedKept ==
    ASSUME FeedbackTypeOK, Judged, UNCHANGED events, NEW v \in Voter, NEW f \in VoterFrame,
           Put(v, f),
           f.pc \in {"read", "write", "log"} => f.q = NoRecall \/ (Judging(v) /\ f.q = voter[v].q)
    PROVE  Judged'
<1>1. /\ voter'[v] = f /\ \A w \in Voter : w # v => voter'[w] = voter[w]
  BY PutMoves
<1>2. \A w \in Voter : Judging(w)' => Judging(w) /\ voter'[w].q = voter[w].q
  BY <1>1 DEF Judging
<1>3. \A q : VerdictsOn(q)' = VerdictsOn(q)
  BY SameEvents
<1>. QED  BY <1>2, <1>3 DEF Judged

-----------------------------------------------------------------------------
LEMMA FewerOwed ==
    ASSUME NEW n \in Nat, NEW m \in Nat, NEW S, IsFiniteSet(S), NEW T \in SUBSET S,
           n + Cardinality(S) <= m
    PROVE  IsFiniteSet(T) /\ n + Cardinality(T) <= m
<1>1. IsFiniteSet(T) /\ Cardinality(T) <= Cardinality(S)
  BY FS_Subset
<1>2. Cardinality(T) \in Nat /\ Cardinality(S) \in Nat
  BY <1>1, FS_CardinalityType
<1>. QED  BY <1>1, <1>2

LEMMA PosteriorsTyped ==
    ASSUME FeedbackTypeOK
    PROVE  /\ Cardinality(ClearVerdicts) \in Nat
           /\ learned.global \in Nat /\ learned.bucket \in Nat
           /\ \A v \in Voter : voter[v].old \in Nat /\ voter[v].oldBucket \in Nat
<1>1. \A v \in Voter : voter[v] \in VoterFrame
  BY EventsTyped
<1>. QED  BY <1>1, EventsTyped DEF VoterFrame

\* A step of one frame that writes no posterior and logs no clear verdict
LEMMA PosteriorsMove ==
    ASSUME FeedbackTypeOK, Posteriors, ClearVerdicts' = ClearVerdicts, UNCHANGED learned,
           NEW v \in Voter, NEW f \in VoterFrame, Put(v, f),
           f.pc \in {"load", "loadBucket", "save"} => v \in ToGlobal,
           f.pc \in {"load", "loadBucket", "save", "saveBucket"} => v \in ToBucket,
           f.pc \in {"loadBucket", "save"} => Behind(f.old, ToGlobal),
           f.pc \in {"save", "saveBucket"} => Behind(f.oldBucket, ToBucket)
    PROVE  Posteriors'
<1>1. voter'[v] = f /\ \A w \in Voter : w # v => voter'[w] = voter[w]
  BY PutMoves
<1>2. PICK G \in SUBSET ToGlobal : G = ToGlobal'
  BY <1>1 DEF ToGlobal
<1>3. PICK B \in SUBSET ToBucket : B = ToBucket'
  BY <1>1 DEF ToBucket
<1>4. PICK c \in Nat : c = Cardinality(ClearVerdicts) /\ c = Cardinality(ClearVerdicts')
  BY EventsTyped
<1>5. IsFiniteSet(ToGlobal) /\ IsFiniteSet(ToBucket)
  BY DEF Posteriors
<1>6. IsFiniteSet(G) /\ IsFiniteSet(B)
  BY <1>5, FS_Subset
<1>7. ASSUME NEW n \in Nat, Behind(n, ToGlobal) PROVE n + Cardinality(G) <= c
  BY <1>4, <1>5, <1>7, FewerOwed DEF Behind
<1>8. ASSUME NEW n \in Nat, Behind(n, ToBucket) PROVE n + Cardinality(B) <= c
  BY <1>4, <1>5, <1>8, FewerOwed DEF Behind
<1>9. PICK g \in Nat, b \in Nat : learned.global = g /\ learned.bucket = b
                                  /\ learned'.global = g /\ learned'.bucket = b
  BY PosteriorsTyped
<1>10. Behind(learned.global, ToGlobal)' /\ Behind(learned.bucket, ToBucket)'
  BY <1>2, <1>3, <1>4, <1>7, <1>8, <1>9 DEF Posteriors, Behind
<1>11. ASSUME NEW w \in Voter
       PROVE  /\ voter'[w].pc \in {"loadBucket", "save"} => Behind(voter[w].old, ToGlobal)'
              /\ voter'[w].pc \in {"save", "saveBucket"} => Behind(voter[w].oldBucket, ToBucket)'
  <2>1. PICK h \in VoterFrame : h = voter'[w]
    BY PutMoves
  <2>2. /\ h.pc \in {"loadBucket", "save"} => Behind(h.old, ToGlobal)
        /\ h.pc \in {"save", "saveBucket"} => Behind(h.oldBucket, ToBucket)
    BY <1>1, <2>1 DEF Posteriors
  <2>3. h.old \in Nat /\ h.oldBucket \in Nat
    BY DEF VoterFrame
  <2>. QED  BY <1>2, <1>3, <1>4, <1>7, <1>8, <2>1, <2>2, <2>3 DEF Behind
<1>. QED  BY <1>2, <1>3, <1>6, <1>10, <1>11 DEF Posteriors

LEMMA PosteriorsBeside ==
    ASSUME Posteriors, ClearVerdicts' = ClearVerdicts, UNCHANGED <<learned, voter>>
    PROVE  Posteriors'
BY DEF Posteriors, ToGlobal, ToBucket, Behind

\* The global posterior is written: one less is owed
LEMMA GlobalSaved ==
    ASSUME FeedbackTypeOK, Posteriors, NEW v \in Voter, SaveGlobal(v)
    PROVE  Posteriors'
<1>0. voter \in [Voter -> VoterFrame] /\ learned \in [global : Nat, bucket : Nat]
  BY EventsTyped
<1>1. PICK old \in Nat, bo \in Nat : old = voter[v].old /\ bo = voter[v].oldBucket
  BY PosteriorsTyped
<1>2. PICK f \in VoterFrame : f = [voter[v] EXCEPT !.pc = "saveBucket", !.old = 0]
  BY <1>0 DEF VoterFrame
<1>3. f.pc = "saveBucket" /\ f.oldBucket = bo
  BY <1>0, <1>1, <1>2 DEF VoterFrame
<1>4. voter'[v] = f /\ \A w \in Voter : w # v => voter'[w] = voter[w]
  BY <1>2, PutMoves DEF SaveGlobal
<1>5. voter[v].pc = "save"
  BY DEF SaveGlobal, VoterAt
<1>6. ToGlobal' = ToGlobal \ {v} /\ v \in ToGlobal
  BY <1>3, <1>4, <1>5 DEF ToGlobal
<1>7. ToBucket' = ToBucket
  BY <1>3, <1>4, <1>5 DEF ToBucket
<1>8. ClearVerdicts' = ClearVerdicts
  BY SameEvents DEF SaveGlobal
<1>9. PICK c \in Nat : c = Cardinality(ClearVerdicts)
  BY EventsTyped
<1>10. IsFiniteSet(ToGlobal) /\ Cardinality(ToGlobal) \in Nat
  BY FS_CardinalityType DEF Posteriors
<1>11. PICK G : G = ToGlobal'
  OBVIOUS
<1>12. IsFiniteSet(G) /\ Cardinality(G) = Cardinality(ToGlobal) - 1
  BY <1>6, <1>10, <1>11, FS_RemoveElement
<1>13. old + Cardinality(ToGlobal) <= c
  BY <1>1, <1>5, <1>9 DEF Posteriors, Behind
<1>14. learned'.global = old + 1 /\ learned'.bucket = learned.bucket
  BY <1>0, <1>1 DEF SaveGlobal
<1>15. Behind(learned.global, ToGlobal)'
  <2>1. (old + 1) + Cardinality(G) <= c
    BY <1>10, <1>12, <1>13
  <2>. QED  BY <1>8, <1>9, <1>11, <1>14, <2>1 DEF Behind
<1>16. Behind(learned.bucket, ToBucket)'
  BY <1>7, <1>8, <1>14 DEF Posteriors, Behind
<1>17. ASSUME NEW w \in Voter
       PROVE  /\ voter'[w].pc \in {"loadBucket", "save"} => Behind(voter[w].old, ToGlobal)'
              /\ voter'[w].pc \in {"save", "saveBucket"} => Behind(voter[w].oldBucket, ToBucket)'
  <2>1. CASE w = v
    <3>1. Behind(bo, ToBucket)
      BY <1>1, <1>5 DEF Posteriors
    <3>. QED  BY <1>3, <1>4, <1>7, <1>8, <2>1, <3>1 DEF Behind
  <2>2. CASE w # v
    <3>1. PICK h \in VoterFrame : h = voter[w] /\ h = voter'[w]
      BY <1>0, <1>4, <2>2
    <3>2. /\ h.pc \in {"loadBucket", "save"} => Behind(h.old, ToGlobal)
          /\ h.pc \in {"save", "saveBucket"} => Behind(h.oldBucket, ToBucket)
      BY <3>1 DEF Posteriors
    <3>3. h.old \in Nat
      BY DEF VoterFrame
    <3>4. h.pc \in {"loadBucket", "save"} => h.old + Cardinality(G) <= c
      BY <1>9, <1>10, <1>12, <3>2, <3>3 DEF Behind
    <3>. QED  BY <1>7, <1>8, <1>9, <1>11, <3>1, <3>2, <3>4 DEF Behind
  <2>. QED  BY <2>1, <2>2
<1>18. IsFiniteSet(ToBucket)
  BY DEF Posteriors
<1>. QED  BY <1>7, <1>11, <1>12, <1>15, <1>16, <1>17, <1>18 DEF Posteriors

LEMMA BucketSaved ==
    ASSUME FeedbackTypeOK, Posteriors, NEW v \in Voter, SaveBucket(v)
    PROVE  Posteriors'
<1>0. voter \in [Voter -> VoterFrame] /\ learned \in [global : Nat, bucket : Nat]
  BY EventsTyped
<1>1. PICK old \in Nat : old = voter[v].oldBucket
  BY PosteriorsTyped
<1>4. voter'[v].pc = "idle" /\ \A w \in Voter : w # v => voter'[w] = voter[w]
  BY NotVotingTyped, PutMoves DEF SaveBucket
<1>5. voter[v].pc = "saveBucket"
  BY DEF SaveBucket, VoterAt
<1>6. ToBucket' = ToBucket \ {v} /\ v \in ToBucket
  BY <1>4, <1>5 DEF ToBucket
<1>7. ToGlobal' = ToGlobal
  BY <1>4, <1>5 DEF ToGlobal
<1>8. ClearVerdicts' = ClearVerdicts
  BY SameEvents DEF SaveBucket
<1>9. PICK c \in Nat : c = Cardinality(ClearVerdicts)
  BY EventsTyped
<1>10. IsFiniteSet(ToBucket) /\ Cardinality(ToBucket) \in Nat
  BY FS_CardinalityType DEF Posteriors
<1>11. PICK B : B = ToBucket'
  OBVIOUS
<1>12. IsFiniteSet(B) /\ Cardinality(B) = Cardinality(ToBucket) - 1
  BY <1>6, <1>10, <1>11, FS_RemoveElement
<1>13. old + Cardinality(ToBucket) <= c
  BY <1>1, <1>5, <1>9 DEF Posteriors, Behind
<1>14. learned'.bucket = old + 1 /\ learned'.global = learned.global
  BY <1>0, <1>1 DEF SaveBucket
<1>15. Behind(learned.bucket, ToBucket)'
  <2>1. (old + 1) + Cardinality(B) <= c
    BY <1>10, <1>12, <1>13
  <2>. QED  BY <1>8, <1>9, <1>11, <1>14, <2>1 DEF Behind
<1>16. Behind(learned.global, ToGlobal)'
  BY <1>7, <1>8, <1>14 DEF Posteriors, Behind
<1>17. ASSUME NEW w \in Voter
       PROVE  /\ voter'[w].pc \in {"loadBucket", "save"} => Behind(voter[w].old, ToGlobal)'
              /\ voter'[w].pc \in {"save", "saveBucket"} => Behind(voter[w].oldBucket, ToBucket)'
  <2>1. CASE w = v
    BY <1>4, <2>1
  <2>2. CASE w # v
    <3>1. PICK h \in VoterFrame : h = voter[w] /\ h = voter'[w]
      BY <1>0, <1>4, <2>2
    <3>2. /\ h.pc \in {"loadBucket", "save"} => Behind(h.old, ToGlobal)
          /\ h.pc \in {"save", "saveBucket"} => Behind(h.oldBucket, ToBucket)
      BY <3>1 DEF Posteriors
    <3>3. h.oldBucket \in Nat
      BY DEF VoterFrame
    <3>4. h.pc \in {"save", "saveBucket"} => h.oldBucket + Cardinality(B) <= c
      BY <1>9, <1>10, <1>12, <3>2, <3>3 DEF Behind
    <3>. QED  BY <1>7, <1>8, <1>9, <1>11, <3>1, <3>2, <3>4 DEF Behind
  <2>. QED  BY <2>1, <2>2
<1>18. IsFiniteSet(ToGlobal)
  BY DEF Posteriors
<1>. QED  BY <1>7, <1>11, <1>12, <1>15, <1>16, <1>17, <1>18 DEF Posteriors

LEMMA OneMoreOwed ==
    ASSUME NEW n \in Nat, NEW S, NEW C, IsFiniteSet(S), IsFiniteSet(C), NEW v, v \notin S,
           NEW i, i \notin C, n + Cardinality(S) <= Cardinality(C)
    PROVE  /\ IsFiniteSet(S \cup {v})
           /\ n + Cardinality(S \cup {v}) <= Cardinality(C \cup {i})
<1>1. /\ IsFiniteSet(S \cup {v}) /\ Cardinality(S \cup {v}) = Cardinality(S) + 1
      /\ Cardinality(C \cup {i}) = Cardinality(C) + 1
  BY FS_AddElement
<1>2. Cardinality(S) \in Nat /\ Cardinality(C) \in Nat
  BY FS_CardinalityType
<1>. QED  BY <1>1, <1>2

\* A clear verdict is logged and has still to be learned from
LEMMA ClearLogged ==
    ASSUME FeedbackTypeOK, Posteriors, UNCHANGED learned, NEW v \in Voter, NEW f \in VoterFrame,
           Put(v, f), f.pc = "load", voter[v].pc = "log",
           ClearVerdicts' = ClearVerdicts \cup {Len(events) + 1}
    PROVE  Posteriors'
<1>1. voter'[v] = f /\ \A w \in Voter : w # v => voter'[w] = voter[w]
  BY PutMoves
<1>2. ToGlobal' = ToGlobal \cup {v} /\ v \notin ToGlobal
  BY <1>1 DEF ToGlobal
<1>3. ToBucket' = ToBucket \cup {v} /\ v \notin ToBucket
  BY <1>1 DEF ToBucket
<1>4. /\ Len(events) + 1 \notin ClearVerdicts /\ IsFiniteSet(ClearVerdicts)
      /\ IsFiniteSet(ToGlobal) /\ IsFiniteSet(ToBucket)
  BY EventsTyped DEF Posteriors
<1>5. ASSUME NEW n \in Nat, Behind(n, ToGlobal)
      PROVE  n + Cardinality(ToGlobal') <= Cardinality(ClearVerdicts')
  BY <1>2, <1>4, <1>5, OneMoreOwed DEF Behind
<1>6. ASSUME NEW n \in Nat, Behind(n, ToBucket)
      PROVE  n + Cardinality(ToBucket') <= Cardinality(ClearVerdicts')
  BY <1>3, <1>4, <1>6, OneMoreOwed DEF Behind
<1>7. PICK g \in Nat, b \in Nat : learned.global = g /\ learned.bucket = b
                                  /\ learned'.global = g /\ learned'.bucket = b
  BY PosteriorsTyped
<1>8. Behind(learned.global, ToGlobal)' /\ Behind(learned.bucket, ToBucket)'
  BY <1>5, <1>6, <1>7 DEF Posteriors, Behind
<1>9. ASSUME NEW w \in Voter
      PROVE  /\ voter'[w].pc \in {"loadBucket", "save"} => Behind(voter[w].old, ToGlobal)'
             /\ voter'[w].pc \in {"save", "saveBucket"} => Behind(voter[w].oldBucket, ToBucket)'
  <2>1. PICK h \in VoterFrame : h = voter'[w]
    BY PutMoves
  <2>2. /\ h.pc \in {"loadBucket", "save"} => Behind(h.old, ToGlobal)
        /\ h.pc \in {"save", "saveBucket"} => Behind(h.oldBucket, ToBucket)
    BY <1>1, <2>1 DEF Posteriors
  <2>3. h.old \in Nat /\ h.oldBucket \in Nat
    BY DEF VoterFrame
  <2>. QED  BY <1>5, <1>6, <2>1, <2>2, <2>3 DEF Behind
<1>10. IsFiniteSet(ToGlobal') /\ IsFiniteSet(ToBucket')
  BY <1>2, <1>3, <1>4, FS_AddElement
<1>. QED  BY <1>8, <1>9, <1>10 DEF Posteriors

-----------------------------------------------------------------------------
LEMMA VotesInit == FeedbackInit => VotesInv
<1>. SUFFICES ASSUME FeedbackInit PROVE VotesInv
  OBVIOUS
<1>1. FeedbackTypeOK
  BY VotesTypedInit
<1>2. DOMAIN events = {}
  BY EventsTyped, <1>1 DEF FeedbackInit
<1>3. \A v \in Voter : voter[v].pc = "idle"
  BY DEF FeedbackInit, NotVoting
<1>4. InOrder
  BY <1>2 DEF InOrder
<1>5. Judged
  BY <1>2, <1>3 DEF Judged, Judging, VerdictsOn
<1>6. ToGlobal = {} /\ ToBucket = {} /\ ClearVerdicts = {}
  BY <1>2, <1>3 DEF ToGlobal, ToBucket, ClearVerdicts
<1>7. Posteriors
  BY <1>3, <1>6, FS_EmptySet DEF Posteriors, Behind, FeedbackInit
<1>. QED  BY <1>1, <1>4, <1>5, <1>7 DEF VotesInv

\* The log has not outgrown the page, and nobody has raced, before a step after
\* which both hold
LEMMA SoonerCalm ==
    ASSUME FeedbackTypeOK, Len(events)' \in {Len(events), Len(events) + 1},
           raced => raced', ~raced', Len(events)' <= ReadLimit
    PROVE  ~raced /\ Len(events) <= ReadLimit
<1>1. Len(events) \in Nat /\ ReadLimit \in Nat
  BY EventsTyped, FeedbackAssumption
<1>. QED  BY <1>1

\* A step of one frame that logs nothing and resolves nothing
LEMMA VotesMove ==
    ASSUME VotesInv, FeedbackTypeOK', UNCHANGED <<events, learned, raced>>,
           NEW v \in Voter, NEW f \in VoterFrame, Put(v, f),
           f.pc \in {"read", "write", "log"} => f.q = NoRecall \/ (Judging(v) /\ f.q = voter[v].q),
           f.pc \in {"load", "loadBucket", "save"} => v \in ToGlobal,
           f.pc \in {"load", "loadBucket", "save", "saveBucket"} => v \in ToBucket,
           f.pc \in {"loadBucket", "save"} => Behind(f.old, ToGlobal),
           f.pc \in {"save", "saveBucket"} => Behind(f.oldBucket, ToBucket)
    PROVE  VotesInv'
<1>0. FeedbackTypeOK /\ InOrder /\ Posteriors
  BY DEF VotesInv
<1>1. InOrder'
  BY <1>0 DEF InOrder
<1>2. ClearVerdicts' = ClearVerdicts
  BY SameEvents
<1>3. Posteriors'
  BY <1>0, <1>2, PosteriorsMove
<1>4. (~raced /\ Len(events) <= ReadLimit => Judged)'
  BY <1>0, JudgedKept DEF VotesInv
<1>. QED  BY <1>1, <1>3, <1>4 DEF VotesInv

\* Resolving to a recall without a verdict
LEMMA VotesResolve ==
    ASSUME VotesInv, FeedbackTypeOK', NEW v \in Voter, NEW q \in RecallId \cup {NoRecall},
           NEW c \in BOOLEAN, Resolve(v, q, c),
           Len(events) <= ReadLimit => q = NoRecall \/ VerdictsOn(q) = {}
    PROVE  VotesInv'
<1>0. FeedbackTypeOK /\ InOrder /\ Posteriors /\ UNCHANGED <<events, learned>>
  BY DEF VotesInv, Resolve
<1>1. InOrder'
  BY <1>0 DEF InOrder
<1>2. ClearVerdicts' = ClearVerdicts /\ \A r : VerdictsOn(r)' = VerdictsOn(r)
  BY <1>0, SameEvents
<1>3. PICK f \in VoterFrame : f = [NotVoting EXCEPT !.pc = "read", !.q = q, !.clear = c]
  BY DEF NotVoting, VoterFrame
<1>4. f.pc = "read" /\ f.q = q
  BY <1>3 DEF NotVoting
<1>5. Put(v, f)
  BY <1>3 DEF Resolve
<1>6. Posteriors'
  BY <1>0, <1>2, <1>4, <1>5, PosteriorsMove
<1>7. voter'[v] = f /\ \A w \in Voter : w # v => voter'[w] = voter[w]
  BY <1>0, <1>5, PutMoves
<1>8. ASSUME ~raced', Len(events)' <= ReadLimit PROVE Judged'
  <2>1. Len(events)' = Len(events) /\ (raced => raced')
    BY <1>0 DEF Resolve
  <2>2. ~raced /\ Len(events) <= ReadLimit
    BY <1>0, <1>8, <2>1, SoonerCalm
  <2>3. Judged
    BY <2>2 DEF VotesInv
  <2>4. \A w \in Voter \ {v} : ~(Judging(w) /\ voter[w].q = q)
    BY <1>8 DEF Resolve, Judging
  <2>5. q = NoRecall \/ VerdictsOn(q) = {}
    BY <2>2
  <2>6. \A w \in Voter : Judging(w)' => \/ w = v /\ q # NoRecall /\ voter'[w].q = q
                                        \/ w # v /\ Judging(w) /\ voter'[w].q = voter[w].q
    <3>1. ASSUME NEW w \in Voter, Judging(w)', w = v PROVE q # NoRecall /\ voter'[w].q = q
      BY <1>4, <1>7, <3>1 DEF Judging
    <3>2. ASSUME NEW w \in Voter, Judging(w)', w # v
          PROVE  Judging(w) /\ voter'[w].q = voter[w].q
      BY <1>7, <3>2 DEF Judging
    <3>. QED  BY <3>1, <3>2
  <2>7. \A w, u \in Voter : Judging(w)' /\ Judging(u)' /\ voter'[w].q = voter'[u].q => w = u
    BY <2>3, <2>4, <2>6 DEF Judged
  <2>8. \A w \in Voter : Judging(w)' => VerdictsOn(voter'[w].q) = {}
    BY <2>3, <2>5, <2>6 DEF Judged
  <2>9. \A w \in Voter : Judging(w)' => VerdictsOn(voter[w].q)' = {}
    BY <1>2, <2>8
  <2>10. \A r \in RecallId : \A i, j \in VerdictsOn(r)' : i = j
    BY <1>2, <2>3 DEF Judged
  <2>. QED  BY <2>7, <2>9, <2>10 DEF Judged
<1>. QED  BY <1>1, <1>6, <1>8 DEF VotesInv

\* An event that is no verdict
LEMMA VotesRecall ==
    ASSUME VotesInv, FeedbackTypeOK', NEW q \in RecallId, RecallTrace(q)
    PROVE  VotesInv'
<1>0. FeedbackTypeOK /\ InOrder /\ Posteriors
  BY DEF VotesInv
<1>1. PICK e \in Entry : events' = Append(events, e) /\ e.kind = "retrieval" /\ e.q = q
  <2>1. PICK s \in BOOLEAN :
            events' = Append(events, [kind |-> "retrieval", q |-> q, selected |-> s])
    BY DEF RecallTrace
  <2>2. [kind |-> "retrieval", q |-> q, selected |-> s] \in Entry
    BY DEF Entry, Retrieval
  <2>. QED  BY <2>1, <2>2
<1>2. ClearVerdicts' = ClearVerdicts /\ \A r : VerdictsOn(r)' = VerdictsOn(r)
  BY <1>0, <1>1, VerdictsGrow
<1>3. ~Happened(q)
  BY DEF RecallTrace
<1>4. InOrder'
  BY <1>0, <1>1, <1>3, OrderKept
<1>5. UNCHANGED <<learned, voter, raced>>
  BY DEF RecallTrace
<1>6. Posteriors'
  BY <1>0, <1>2, <1>5, PosteriorsBeside
<1>7. Len(events)' = Len(events) + 1
  BY <1>0, <1>1, AppendEvent
<1>8. ASSUME ~raced', Len(events)' <= ReadLimit PROVE Judged'
  <2>1. Judged
    BY <1>0, <1>5, <1>7, <1>8, SoonerCalm DEF VotesInv
  <2>. QED  BY <1>2, <1>5, <2>1 DEF Judged, Judging
<1>. QED  BY <1>4, <1>6, <1>8 DEF VotesInv

\* The verdict of a call on the recall it has resolved to
LEMMA VotesLog ==
    ASSUME VotesInv, FeedbackTypeOK', NEW v \in Voter, LogVerdict(v), voter[v].q # NoRecall
    PROVE  VotesInv'
<1>0. FeedbackTypeOK /\ InOrder /\ Posteriors
  BY DEF VotesInv
<1>. DEFINE e == [kind |-> "verdict", q |-> voter[v].q, clear |-> voter[v].clear]
<1>1. PICK q \in RecallId, c \in BOOLEAN : voter[v].q = q /\ voter[v].clear = c
  BY <1>0, EventsTyped DEF VoterFrame
<1>2. e \in Entry /\ e.kind = "verdict" /\ e.q = q /\ e.clear = c /\ events' = Append(events, e)
  BY <1>1 DEF Entry, Verdict, LogVerdict
<1>3. PICK f \in VoterFrame : /\ Put(v, f) /\ f.pc = (IF c THEN "load" ELSE "idle")
  <2>1. [voter[v] EXCEPT !.pc = "load"] \in VoterFrame
        /\ [voter[v] EXCEPT !.pc = "load"].pc = "load"
    BY <1>0, EventsTyped DEF VoterFrame
  <2>. QED  BY <1>1, <2>1, NotVotingTyped DEF LogVerdict
<1>. HIDE DEF e
<1>4. voter[v].pc = "log" /\ UNCHANGED <<learned, raced>>
  BY DEF LogVerdict
<1>5. voter'[v] = f /\ \A w \in Voter : w # v => voter'[w] = voter[w]
  BY <1>0, <1>3, PutMoves
<1>6. InOrder'
  BY <1>0, <1>2, OrderKept
<1>7. /\ \A r : r # q => VerdictsOn(r)' = VerdictsOn(r)
      /\ VerdictsOn(q)' = VerdictsOn(q) \cup {Len(events) + 1}
      /\ ClearVerdicts' = ClearVerdicts \cup (IF c THEN {Len(events) + 1} ELSE {})
  <2>1. /\ \A r : VerdictsOn(r)' = VerdictsOn(r) \cup
                (IF e.kind = "verdict" /\ e.q = r THEN {Len(events) + 1} ELSE {})
        /\ ClearVerdicts' = ClearVerdicts \cup
                (IF e.kind = "verdict" /\ e.clear THEN {Len(events) + 1} ELSE {})
    BY <1>0, <1>2, VerdictsGrow
  <2>2. \A r : r # q => VerdictsOn(r)' = VerdictsOn(r)
    BY <1>2, <2>1
  <2>3. VerdictsOn(q)' = VerdictsOn(q) \cup {Len(events) + 1}
    BY <1>2, <2>1
  <2>4. ClearVerdicts' = ClearVerdicts \cup (IF c THEN {Len(events) + 1} ELSE {})
    BY <1>2, <2>1
  <2>. QED  BY <2>2, <2>3, <2>4
<1>8. Posteriors'
  <2>1. CASE c
    <3>1. f.pc = "load" /\ ClearVerdicts' = ClearVerdicts \cup {Len(events) + 1}
      BY <1>3, <1>7, <2>1
    <3>. QED  BY <1>0, <1>3, <1>4, <3>1, ClearLogged
  <2>2. CASE ~c
    <3>1. f.pc = "idle" /\ ClearVerdicts' = ClearVerdicts
      BY <1>3, <1>7, <2>2
    <3>. QED  BY <1>0, <1>3, <1>4, <3>1, PosteriorsMove
  <2>. QED  BY <2>1, <2>2
<1>9. Len(events)' = Len(events) + 1
  BY <1>0, <1>2, AppendEvent
<1>10. ASSUME ~raced', Len(events)' <= ReadLimit PROVE Judged'
  <2>1. Judged
    BY <1>0, <1>4, <1>9, <1>10, SoonerCalm DEF VotesInv
  <2>2. Judging(v)
    BY <1>4 DEF Judging
  <2>3. VerdictsOn(q) = {}
    BY <1>1, <2>1, <2>2 DEF Judged
  <2>4. f.pc \notin {"read", "write", "log"}
    BY <1>3
  <2>5. \A w \in Voter : Judging(w)' => w # v /\ Judging(w) /\ voter'[w].q = voter[w].q
    BY <1>5, <2>4 DEF Judging
  <2>6. \A w \in Voter : Judging(w)' => voter[w].q # q
    BY <1>1, <2>1, <2>2, <2>5 DEF Judged
  <2>7. \A w, u \in Voter : Judging(w)' /\ Judging(u)' /\ voter'[w].q = voter'[u].q => w = u
    BY <2>1, <2>5 DEF Judged
  <2>8. \A w \in Voter : Judging(w)' => VerdictsOn(voter[w].q)' = {}
    <3>1. SUFFICES ASSUME NEW w \in Voter, Judging(w)' PROVE VerdictsOn(voter[w].q)' = {}
      OBVIOUS
    <3>2. PICK r : r = voter[w].q /\ r = voter'[w].q
      BY <2>5, <3>1
    <3>3. VerdictsOn(r) = {} /\ r # q
      BY <2>1, <2>5, <2>6, <3>1, <3>2 DEF Judged
    <3>4. VerdictsOn(r)' = {}
      BY <1>7, <3>3
    <3>. QED  BY <3>2, <3>4
  <2>9. \A r \in RecallId : \A i, j \in VerdictsOn(r)' : i = j
    <3>1. TAKE r \in RecallId
    <3>2. CASE r = q
      BY <1>7, <2>3, <3>2
    <3>3. CASE r # q
      BY <1>7, <2>1, <3>3 DEF Judged
    <3>. QED  BY <3>2, <3>3
  <2>. QED  BY <2>7, <2>8, <2>9 DEF Judged
<1>. QED  BY <1>6, <1>8, <1>10 DEF VotesInv

LEMMA VotesStep ==
    ASSUME VotesInv, [FeedbackNext]_voteVars
    PROVE  VotesInv'
<1>0. FeedbackTypeOK /\ InOrder /\ Posteriors /\ FeedbackTypeOK'
  BY VotesTypedStep DEF VotesInv
<1>1. /\ voter \in [Voter -> VoterFrame] /\ learned \in [global : Nat, bucket : Nat]
      /\ \A v \in Voter : voter[v] \in VoterFrame
  BY <1>0, EventsTyped
<1>2. ASSUME UNCHANGED <<events, learned, voter, raced>> PROVE VotesInv'
  <2>1. ClearVerdicts' = ClearVerdicts /\ \A r : VerdictsOn(r)' = VerdictsOn(r)
    BY <1>2, SameEvents
  <2>2. Posteriors'
    BY <1>0, <1>2, <2>1, PosteriorsBeside
  <2>3. InOrder'
    BY <1>0, <1>2 DEF InOrder
  <2>4. (~raced /\ Len(events) <= ReadLimit => Judged)'
    BY <1>2, <2>1 DEF VotesInv, Judged, Judging
  <2>. QED  BY <1>0, <2>2, <2>3, <2>4 DEF VotesInv
<1>3. CASE UNCHANGED voteVars \/ Expire \/ Forget
  BY <1>2, <1>3 DEF voteVars, Expire, Forget
<1>4. ASSUME NEW q \in RecallId, RecallTrace(q) PROVE VotesInv'
  BY <1>0, <1>4, VotesRecall
<1>5. ASSUME NEW q \in RecallId, NEW v \in Voter, VoteFor(v, q) PROVE VotesInv'
  <2>1. Exact(q) \in {q, NoRecall}
    BY DEF Exact
  <2>2. Len(events) <= ReadLimit => VerdictsOn(q) = {}
    BY <1>0, <1>5, UncreditedIsUnjudged DEF VoteFor
  <2>3. CASE Exact(q) = q
    <3>1. Resolve(v, q, TRUE)
      BY <1>5, <2>3 DEF VoteFor
    <3>. QED  BY <1>0, <2>2, <3>1, VotesResolve
  <2>4. CASE Exact(q) = NoRecall
    <3>1. Resolve(v, NoRecall, TRUE)
      BY <1>5, <2>4 DEF VoteFor
    <3>. QED  BY <1>0, <3>1, VotesResolve
  <2>. QED  BY <2>1, <2>3, <2>4
<1>6. ASSUME NEW v \in Voter, Vote(v) PROVE VotesInv'
  <2>1. PICK q \in RecallId : q = events[LatestOpen].q
    BY <1>0, <1>6, LatestIsOpen, EventsTyped DEF Vote
  <2>2. Len(events) <= ReadLimit => VerdictsOn(q) = {}
    BY <1>0, <1>6, <2>1, OpenIsUnjudged DEF Vote
  <2>3. Resolve(v, q, Cardinality(Open) = 1)
    BY <1>6, <2>1 DEF Vote
  <2>4. PICK c \in BOOLEAN : c = (Cardinality(Open) = 1)
    OBVIOUS
  <2>5. Resolve(v, q, c)
    BY <2>3, <2>4
  <2>. QED  BY <1>0, <2>2, <2>5, VotesResolve
<1>7. ASSUME NEW v \in Voter, VoteBlindly(v) PROVE VotesInv'
  <2>1. Resolve(v, NoRecall, TRUE)
    BY <1>7 DEF VoteBlindly
  <2>. QED  BY <1>0, <2>1, VotesResolve
<1>8. ASSUME NEW v \in Voter, ReadQuality(v) PROVE VotesInv'
  <2>1. PICK f \in VoterFrame : Put(v, f) /\ f.pc \in {"write", "log"} /\ f.q = voter[v].q
    <3>1. PICK n \in Nat : n = recalls
      BY <1>0 DEF FeedbackTypeOK
    <3>2. /\ [voter[v] EXCEPT !.pc = "write", !.old = n] \in VoterFrame
          /\ [voter[v] EXCEPT !.pc = "log"] \in VoterFrame
          /\ [voter[v] EXCEPT !.pc = "write", !.old = n].q = voter[v].q
          /\ [voter[v] EXCEPT !.pc = "log"].q = voter[v].q
          /\ [voter[v] EXCEPT !.pc = "write", !.old = n].pc = "write"
          /\ [voter[v] EXCEPT !.pc = "log"].pc = "log"
      BY <1>1 DEF VoterFrame
    <3>3. CASE kept
      BY <1>8, <3>1, <3>2, <3>3 DEF ReadQuality
    <3>4. CASE ~kept
      BY <1>8, <3>1, <3>2, <3>4 DEF ReadQuality
    <3>. QED  BY <3>3, <3>4
  <2>2. f.q = NoRecall \/ (Judging(v) /\ f.q = voter[v].q)
    BY <1>8, <2>1 DEF ReadQuality, VoterAt, Judging
  <2>. QED  BY <1>0, <1>8, <2>1, <2>2, VotesMove DEF ReadQuality
<1>9. ASSUME NEW v \in Voter, WriteQuality(v) PROVE VotesInv'
  <2>1. PICK f \in VoterFrame : f = [voter[v] EXCEPT !.pc = "log", !.old = 0]
    BY <1>1 DEF VoterFrame
  <2>2. f.pc = "log" /\ f.q = voter[v].q
    BY <1>1, <2>1 DEF VoterFrame
  <2>3. f.q = NoRecall \/ (Judging(v) /\ f.q = voter[v].q)
    BY <1>9, <2>2 DEF WriteQuality, VoterAt, Judging
  <2>. QED  BY <1>0, <1>9, <2>1, <2>2, <2>3, VotesMove DEF WriteQuality
<1>10. ASSUME NEW v \in Voter, LogVerdict(v) PROVE VotesInv'
  <2>1. CASE voter[v].q # NoRecall
    BY <1>0, <1>10, <2>1, VotesLog
  <2>2. CASE voter[v].q = NoRecall
    <3>1. Put(v, NotVoting) /\ UNCHANGED <<events, learned, raced>>
      BY <1>10, <2>2 DEF LogVerdict
    <3>. QED  BY <1>0, <3>1, NotVotingTyped, VotesMove
  <2>. QED  BY <2>1, <2>2
<1>11. ASSUME NEW v \in Voter, LoadGlobal(v) PROVE VotesInv'
  <2>1. PICK f \in VoterFrame :
            f = [voter[v] EXCEPT !.pc = "loadBucket", !.old = learned.global]
    BY <1>1 DEF VoterFrame
  <2>2. f.pc = "loadBucket" /\ f.old = learned.global
    BY <1>1, <2>1 DEF VoterFrame
  <2>3. v \in ToGlobal /\ v \in ToBucket
    BY <1>11 DEF LoadGlobal, VoterAt, ToGlobal, ToBucket
  <2>4. Behind(f.old, ToGlobal)
    BY <1>0, <2>2 DEF Posteriors
  <2>. QED  BY <1>0, <1>11, <2>1, <2>2, <2>3, <2>4, VotesMove DEF LoadGlobal
<1>12. ASSUME NEW v \in Voter, LoadBucket(v) PROVE VotesInv'
  <2>1. PICK f \in VoterFrame :
            f = [voter[v] EXCEPT !.pc = "save", !.oldBucket = learned.bucket]
    BY <1>1 DEF VoterFrame
  <2>2. f.pc = "save" /\ f.old = voter[v].old /\ f.oldBucket = learned.bucket
    BY <1>1, <2>1 DEF VoterFrame
  <2>3. v \in ToGlobal /\ v \in ToBucket /\ voter[v].pc = "loadBucket"
    BY <1>12 DEF LoadBucket, VoterAt, ToGlobal, ToBucket
  <2>4. Behind(f.old, ToGlobal) /\ Behind(f.oldBucket, ToBucket)
    BY <1>0, <2>2, <2>3 DEF Posteriors
  <2>. QED  BY <1>0, <1>12, <2>1, <2>2, <2>3, <2>4, VotesMove DEF LoadBucket
<1>13. ASSUME NEW v \in Voter, SaveGlobal(v) \/ SaveBucket(v) PROVE VotesInv'
  <2>1. Posteriors'
    BY <1>0, <1>13, GlobalSaved, BucketSaved
  <2>2. PICK f \in VoterFrame : Put(v, f) /\ f.pc \in {"saveBucket", "idle"}
    <3>1. [voter[v] EXCEPT !.pc = "saveBucket", !.old = 0] \in VoterFrame
          /\ [voter[v] EXCEPT !.pc = "saveBucket", !.old = 0].pc = "saveBucket"
      BY <1>1 DEF VoterFrame
    <3>. QED  BY <1>13, <3>1, NotVotingTyped DEF SaveGlobal, SaveBucket
  <2>3. UNCHANGED <<events, raced>>
    BY <1>13 DEF SaveGlobal, SaveBucket
  <2>4. InOrder'
    BY <1>0, <2>3 DEF InOrder
  <2>5. (~raced /\ Len(events) <= ReadLimit => Judged)'
    BY <1>0, <2>2, <2>3, JudgedKept DEF VotesInv
  <2>. QED  BY <1>0, <2>1, <2>4, <2>5 DEF VotesInv
<1>14. ASSUME NEW v \in Voter, VoterDies(v) PROVE VotesInv'
  BY <1>0, <1>14, NotVotingTyped, VotesMove DEF VoterDies
<1>. QED
  BY <1>3, <1>4, <1>5, <1>6, <1>7, <1>8, <1>9, <1>10, <1>11, <1>12, <1>13, <1>14
  DEF FeedbackNext

-----------------------------------------------------------------------------
\* The log, the counters and the frames of the feedback calls keep their types
THEOREM VotesTyped == FeedbackSpec => []FeedbackTypeOK
<1>1. FeedbackInit => FeedbackTypeOK
  BY VotesTypedInit
<1>2. FeedbackTypeOK /\ [FeedbackNext]_voteVars => FeedbackTypeOK'
  BY VotesTypedStep
<1>. QED  BY <1>1, <1>2, PTL DEF FeedbackSpec

\* Whatever the calls of feedback() in flight, wherever they die, and for logs of
\* any length up to the page that is read: a recall has at most one verdict unless
\* two calls resolved to it together, and the bandit has learned from no more
\* verdicts than the log has clear ones
THEOREM LearnsOnce == FeedbackSpec => []LearnsOncePerRecall
<1>1. FeedbackInit => VotesInv
  BY VotesInit
<1>2. VotesInv /\ [FeedbackNext]_voteVars => VotesInv'
  BY VotesStep
<1>3. VotesInv => LearnsOncePerRecall
  <2>1. SUFFICES ASSUME VotesInv, ~raced, Len(events) <= ReadLimit
                 PROVE  /\ \A q \in RecallId : Cardinality(VerdictsOn(q)) <= 1
                        /\ learned.global <= Cardinality(ClearVerdicts)
                        /\ learned.bucket <= Cardinality(ClearVerdicts)
    BY DEF LearnsOncePerRecall
  <2>2. FeedbackTypeOK /\ Posteriors /\ Judged
    BY <2>1 DEF VotesInv
  <2>3. ASSUME NEW q \in RecallId PROVE Cardinality(VerdictsOn(q)) <= 1
    <3>1. CASE VerdictsOn(q) = {}
      BY <3>1, FS_EmptySet
    <3>2. CASE VerdictsOn(q) # {}
      <4>1. PICK i : VerdictsOn(q) = {i}
        BY <2>2, <3>2 DEF Judged
      <4>. QED  BY <4>1, FS_Singleton
    <3>. QED  BY <3>1, <3>2
  <2>4. Cardinality(ToGlobal) \in Nat /\ Cardinality(ToBucket) \in Nat
    BY <2>2, FS_CardinalityType DEF Posteriors
  <2>5. /\ Cardinality(ClearVerdicts) \in Nat /\ learned.global \in Nat /\ learned.bucket \in Nat
    BY <2>2, PosteriorsTyped
  <2>6. /\ learned.global + Cardinality(ToGlobal) <= Cardinality(ClearVerdicts)
        /\ learned.bucket + Cardinality(ToBucket) <= Cardinality(ClearVerdicts)
    BY <2>2 DEF Posteriors, Behind
  <2>. QED  BY <2>3, <2>4, <2>5, <2>6
<1>. QED  BY <1>1, <1>2, <1>3, PTL DEF FeedbackSpec

=============================================================================
