------------------------------ MODULE TraceStore ------------------------------
(***************************************************************************)
(* The v1 store of reasoning traces: ReasoningLayer.storeTrace finds a      *)
(* near-duplicate by its fingerprint, inserts, and trims the table to       *)
(* maxTraces, each in SQL statements of its own; storeTraceAsync then       *)
(* awaits the embedding provider, queues the trace for a retry when that    *)
(* fails, and drains the queue.  CLI, MCP server and SDK open one file, so  *)
(* calls of several processes interleave between any two statements.        *)
(*                                                                         *)
(* A trace is its id; its fingerprint comes with it.                        *)
(***************************************************************************)
EXTENDS Naturals, Sequences, SequencesExt, Lists

CONSTANTS
    Trace,       \* ids, each drawn once by randomUUID
    Fingerprint, \* the fingerprint of each
    NoTrace,     \* not a trace
    MaxTraces,   \* maxTraces of the configuration
    Keeper       \* calls in flight

ASSUME TraceStoreAssumption ==
    NoTrace \notin Trace /\ Trace # {} /\ MaxTraces \in Nat \ {0}

VARIABLES
    traces,       \* the table traces, by created_at
    vectors,    \* traces with embeddings
    pending,    \* pending_embeddings
    keeper,     \* the frame of each call
    used,       \* history: ids that have been in the table
    back,       \* history: ids imported again after their row was gone
    settled,    \* history: traces a storeTraceAsync has returned
    loose       \* history: traces came, or a call went, past the limit

traceVars == <<traces, vectors, pending, keeper, used, back, settled, loose>>

Stored == Range(traces)
Prints == {Fingerprint[t] : t \in Trace}

TraceLabel == {"idle", "lookup", "fetch", "insert", "count", "quality", "recount", "trim", "final",
               "embed", "list", "drain", "reembed", "dequeue"}
\* batch: traces still to drain; at: the one at hand
KeeperFrame == [pc : TraceLabel, print : Prints, id : Trace \cup {NoTrace},
                excess : Nat, batch : SUBSET Trace, at : Trace \cup {NoTrace}]
NoCall == [pc |-> "idle", print |-> CHOOSE f \in Prints : TRUE, id |-> NoTrace, excess |-> 0,
           batch |-> {}, at |-> NoTrace]

Go(k, f) == keeper' = [keeper EXCEPT ![k] = f]

\* DELETE FROM traces: the queue follows by ON DELETE CASCADE
Drop(gone) ==
    /\ traces' = Keep(traces, Stored \ gone)
    /\ vectors' = vectors \ gone /\ pending' = pending \ gone
    /\ back' = back \ gone /\ settled' = settled \ gone

-----------------------------------------------------------------------------
(* storeTrace *)

StartStore(k) ==
    /\ keeper[k].pc = "idle"
    /\ \E f \in Prints : Go(k, [NoCall EXCEPT !.pc = "lookup", !.print = f])
    /\ UNCHANGED <<traces, vectors, pending, used, back, settled, loose>>

\* storeTrace returns the trace
Returned(k, f) == Go(k, [f EXCEPT !.pc = "embed"])

\* existsByFingerprint: LIMIT 1 without an order
FindDuplicate(k) ==
    LET f == keeper[k]
        same == {t \in Stored : Fingerprint[t] = f.print}
    IN  /\ f.pc = "lookup"
        /\ \/ \E t \in same : Go(k, [f EXCEPT !.pc = "fetch", !.id = t])
           \/ same = {} /\ Go(k, [f EXCEPT !.pc = "insert"])
        /\ UNCHANGED <<traces, vectors, pending, used, back, settled, loose>>

\* getById: the duplicate may be gone by now
FetchDuplicate(k) ==
    LET f == keeper[k] IN
    /\ f.pc = "fetch"
    /\ IF f.id \in Stored THEN Returned(k, f)
                          ELSE Go(k, [f EXCEPT !.pc = "insert", !.id = NoTrace])
    /\ UNCHANGED <<traces, vectors, pending, used, back, settled, loose>>

InsertTrace(k) ==
    LET f == keeper[k] IN
    /\ f.pc = "insert"
    /\ \E t \in Trace \ used :
        /\ Fingerprint[t] = f.print
        /\ traces' = Append(traces, t) /\ used' = used \cup {t}
        /\ Go(k, [f EXCEPT !.pc = "count", !.id = t])
    /\ UNCHANGED <<vectors, pending, back, settled, loose>>

\* enforceLimit: the first count
CountTraces(k) ==
    LET f == keeper[k] IN
    /\ f.pc = "count"
    /\ IF Len(traces) <= MaxTraces THEN Returned(k, f) /\ loose' = FALSE
                                 ELSE Go(k, [f EXCEPT !.pc = "quality"]) /\ UNCHANGED loose
    /\ UNCHANGED <<traces, vectors, pending, used, back, settled>>

\* prune of the CLI runs the same statements, without a trace at hand
StartPrune(k) ==
    /\ keeper[k].pc = "idle"
    /\ Go(k, [NoCall EXCEPT !.pc = "quality"])
    /\ UNCHANGED <<traces, vectors, pending, used, back, settled, loose>>

\* TraceStore.prune, strategy 1: which scores are under the threshold is up to
\* the feedback so far
DeleteLowQuality(k) ==
    /\ keeper[k].pc = "quality"
    /\ \E low \in SUBSET Stored : Drop(low)
    /\ Go(k, [keeper[k] EXCEPT !.pc = "recount"])
    /\ UNCHANGED <<used, loose>>

\* ... strategy 2: how many are too many (mutant: off by one)
SpareOne(n) == n - MaxTraces - 1
Excess(n) == n - MaxTraces

CountExcess(k) ==
    LET f == keeper[k] IN
    /\ keeper[k].pc = "recount"
    /\ IF Len(traces) > MaxTraces
       THEN Go(k, [f EXCEPT !.pc = "trim", !.excess = Excess(Len(traces))])
       ELSE Go(k, [f EXCEPT !.pc = "final"])
    /\ loose' = FALSE
    /\ UNCHANGED <<traces, vectors, pending, used, back, settled>>

\* deleteOldest, recalled traces included
DeleteOldest(k) ==
    LET f == keeper[k] IN
    /\ f.pc = "trim"
    /\ Drop({traces[i] : i \in {j \in DOMAIN traces : j <= f.excess}})
    /\ Go(k, [f EXCEPT !.pc = "final", !.excess = 0])
    /\ UNCHANGED <<used, loose>>

\* enforceLimit: the last count; EnforceLimitOvershootError leaves the row there
CheckLimit(k) ==
    LET f == keeper[k] IN
    /\ f.pc = "final"
    /\ IF f.id = NoTrace \/ Len(traces) > MaxTraces THEN Go(k, NoCall) ELSE Returned(k, f)
    /\ UNCHANGED <<traces, vectors, pending, used, back, settled, loose>>

-----------------------------------------------------------------------------
(* storeTraceAsync and drainPendingEmbeddings *)

\* storeTrace itself, or storeTraceAsync without a provider, is done
EndStore(k) ==
    /\ keeper[k].pc = "embed"
    /\ Go(k, NoCall)
    /\ UNCHANGED <<traces, vectors, pending, used, back, settled, loose>>

\* What the catch around embedBatch leaves (mutant: it swallows the failure)
Swallow(t) == pending
Retry(t) == pending \cup {t}

\* embedBatch: it answers and storeEmbeddings updates the row, if there is one; or
\* it fails and the trace is queued, which a foreign key refuses for a lost row
EmbedTrace(k) ==
    LET f == keeper[k] IN
    /\ f.pc = "embed"
    /\ \/ /\ vectors' = vectors \cup ({f.id} \cap Stored)
          /\ Go(k, [f EXCEPT !.pc = "list"])
          /\ UNCHANGED pending
       \/ /\ f.id \in Stored
          /\ pending' = Retry(f.id)
          /\ Go(k, [f EXCEPT !.pc = "list"])
          /\ UNCHANGED vectors
       \/ f.id \notin Stored /\ Go(k, NoCall) /\ UNCHANGED <<vectors, pending>>
    /\ UNCHANGED <<traces, used, back, settled, loose>>

\* drainPendingEmbeddings is public, though nothing in src/src calls it alone
DrainAlone(k) ==
    /\ keeper[k].pc = "idle"
    /\ Go(k, [NoCall EXCEPT !.pc = "list"])
    /\ UNCHANGED <<traces, vectors, pending, used, back, settled, loose>>

\* listPendingEmbeddings: the whole queue is shorter than a batch here
ListPending(k) ==
    /\ keeper[k].pc = "list"
    /\ Go(k, [keeper[k] EXCEPT !.pc = "drain", !.batch = pending])
    /\ UNCHANGED <<traces, vectors, pending, used, back, settled, loose>>

\* The loop: getById decides whether the row is embedded again or stale
DrainNext(k) ==
    LET f == keeper[k] IN
    /\ f.pc = "drain"
    /\ \/ /\ f.batch = {}
          /\ settled' = settled \cup ({f.id} \cap Stored)
          /\ Go(k, NoCall)
       \/ /\ UNCHANGED settled
          /\ \E t \in f.batch :
                 Go(k, [f EXCEPT !.pc = IF t \in Stored THEN "reembed" ELSE "dequeue",
                                 !.at = t, !.batch = @ \ {t}])
    /\ UNCHANGED <<traces, vectors, pending, used, back, loose>>

\* embedBatch once more: storeEmbeddings, or only the attempt counter moves
Reembed(k) ==
    LET f == keeper[k] IN
    /\ f.pc = "reembed"
    /\ \/ /\ vectors' = vectors \cup ({f.at} \cap Stored)
          /\ Go(k, [f EXCEPT !.pc = "dequeue"])
       \/ Go(k, [f EXCEPT !.pc = "drain", !.at = NoTrace]) /\ UNCHANGED vectors
    /\ UNCHANGED <<traces, pending, used, back, settled, loose>>

\* removePendingEmbedding
Dequeue(k) ==
    LET f == keeper[k] IN
    /\ f.pc = "dequeue"
    /\ pending' = pending \ {f.at}
    /\ Go(k, [f EXCEPT !.pc = "drain", !.at = NoTrace])
    /\ UNCHANGED <<traces, vectors, used, back, settled, loose>>

-----------------------------------------------------------------------------
(* The other writers *)

\* deleteTrace
DeleteTrace(t) ==
    /\ t \in Stored
    /\ Drop({t})
    /\ UNCHANGED <<keeper, used, loose>>

\* importTraces, INSERT OR IGNORE: no limit, no duplicate check, any created_at
ImportTrace(t) ==
    /\ t \notin Stored
    /\ \E n \in 0 .. Len(traces) : traces' = InsertAt(traces, n + 1, t)
    /\ back' = IF t \in used THEN back \cup {t} ELSE back
    /\ used' = used \cup {t}
    /\ loose' = TRUE
    /\ UNCHANGED <<vectors, pending, keeper, settled>>

KeeperDies(k) ==
    /\ keeper[k].pc # "idle"
    /\ loose' = (loose \/ keeper[k].pc \in {"count", "quality", "recount", "trim"})
    /\ Go(k, NoCall)
    /\ UNCHANGED <<traces, vectors, pending, used, back, settled>>

-----------------------------------------------------------------------------
TraceStoreInit ==
    /\ traces = <<>>
    /\ vectors = {} /\ pending = {} /\ used = {} /\ back = {} /\ settled = {}
    /\ keeper = [k \in Keeper |-> NoCall]
    /\ loose = FALSE

TraceStoreNext ==
    \/ \E k \in Keeper :
        \/ StartStore(k) \/ FindDuplicate(k) \/ FetchDuplicate(k) \/ InsertTrace(k)
        \/ CountTraces(k) \/ StartPrune(k) \/ DeleteLowQuality(k) \/ CountExcess(k)
        \/ DeleteOldest(k) \/ CheckLimit(k)
        \/ EndStore(k) \/ EmbedTrace(k) \/ DrainAlone(k) \/ ListPending(k) \/ DrainNext(k)
        \/ Reembed(k) \/ Dequeue(k) \/ KeeperDies(k)
    \/ \E t \in Trace : DeleteTrace(t) \/ ImportTrace(t)

TraceStoreSpec == TraceStoreInit /\ [][TraceStoreNext]_traceVars

-----------------------------------------------------------------------------
(* Properties *)

TraceStoreTypeOK ==
    /\ traces \in Seq(Trace) /\ IsInjective(traces)
    /\ vectors \subseteq Stored /\ pending \subseteq Stored
    /\ back \subseteq Stored /\ settled \subseteq Stored /\ Stored \subseteq used
    /\ keeper \in [Keeper -> KeeperFrame]
    /\ loose \in BOOLEAN

\* Once storeTraceAsync has returned a trace, it has its embeddings or waits in
\* the queue for a retry, whatever drains, deletes or dies meanwhile
\* (engine.ts:286-289: a failure is no longer silently swallowed).  A trace
\* deleted and restored from an export comes back without its embeddings.
NoEmbeddingForgotten == settled \ back \subseteq vectors \cup pending

\* With no store or prune under way the table is within maxTraces, though each
\* process counts before it deletes: the last one to insert counts what all the
\* others left.  Until the next count, traces of an import, or of a process killed
\* between its insert and its trim, may exceed it (enforceLimit).
LimitAtRest ==
    (~loose /\ \A k \in Keeper : keeper[k].pc \notin {"count", "quality", "recount", "trim"})
        => Len(traces) <= MaxTraces

=============================================================================
