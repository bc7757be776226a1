----------------------------- MODULE ProjectFacts -----------------------------
(***************************************************************************)
(* The table project_facts: statements the hooks, the SDK and the MCP tools *)
(* store again and again, a deadline some of them carry, and their erasure. *)
(*                                                                         *)
(* storeFact looks its key up and then inserts or updates, and erasing      *)
(* looks the row up before its transaction, so that both can act on a row   *)
(* that another process has changed.                                       *)
(***************************************************************************)
EXTENDS Naturals

CONSTANTS
    FactKey,     \* dedupe keys: scope, type and normalised statement
    Caller,      \* processes
    MaxFacts     \* bound: rows ever inserted

ASSUME FactsAssumption == FactKey # {} /\ MaxFacts \in Nat

VARIABLES
    facts,       \* the row of each key; the unique index allows one
    issued,      \* ids given to rows so far
    audits,      \* audit_fact_deletes: how many rows name each id
    task         \* the frame of each process

factVars == <<facts, issued, audits, task>>

FactId == 1 .. MaxFacts
NoId == 0
\* ttl: no deadline, one to come, one gone by
NoFact == [id |-> NoId, status |-> "none", ttl |-> "none"]
FactRow == [id : FactId \cup {NoId}, status : {"none", "active", "retired"},
            ttl : {"none", "ahead", "past"}]

NoTask(k) == [pc |-> "idle", key |-> k, found |-> NoFact]
AnyKey == CHOOSE k \in FactKey : TRUE
Finish(c) == task' = [task EXCEPT ![c] = NoTask(AnyKey)]

-----------------------------------------------------------------------------
(* storeFact *)

LookUp(c, k) ==
    /\ task[c].pc = "idle"
    /\ task' = [task EXCEPT ![c] = [pc |-> "store", key |-> k, found |-> facts[k]]]
    /\ UNCHANGED <<facts, issued, audits>>

Ours(c) == facts[task[c].key]

\* The update names the row it found and takes the status of the row there is
\* (mutants: as an upsert of the row would; the status the lookup saw)
UpsertedFact(row, found) == [found EXCEPT !.status = IF row.status = "retired" THEN @ ELSE "active"]
RestatedAsFound(row, found) ==
    IF row.id = found.id THEN [row EXCEPT !.status = found.status] ELSE row
Restated(row, found) ==
    IF row.id = found.id THEN [row EXCEPT !.status = IF @ = "retired" THEN @ ELSE "active"]
    ELSE row

RestateFact(c) ==
    /\ task[c].pc = "store" /\ task[c].found # NoFact
    /\ facts' = [facts EXCEPT ![task[c].key] = Restated(@, task[c].found)]
    /\ Finish(c)
    /\ UNCHANGED <<issued, audits>>

InsertFact(c, ttl) ==
    /\ task[c].pc = "store" /\ task[c].found = NoFact
    /\ Ours(c) = NoFact /\ issued < MaxFacts
    /\ issued' = issued + 1
    /\ facts' = [facts EXCEPT ![task[c].key] =
                    [id |-> issued + 1, status |-> "active", ttl |-> ttl]]
    /\ Finish(c)
    /\ UNCHANGED audits

\* Another process inserted the key: the unique index refuses; or killed
StoreFails(c) ==
    /\ task[c].pc # "idle"
    /\ Finish(c)
    /\ UNCHANGED <<facts, issued, audits>>

-----------------------------------------------------------------------------
(* The deadline, and tracebase doctor's sweep: one statement *)

DeadlinePasses(k) ==
    /\ facts[k].ttl = "ahead" /\ facts' = [facts EXCEPT ![k].ttl = "past"]
    /\ UNCHANGED <<issued, audits, task>>

SweepExpiredFacts ==
    /\ facts' = [k \in FactKey |-> IF facts[k].ttl = "past"
                                   THEN [facts[k] EXCEPT !.status = "retired"] ELSE facts[k]]
    /\ UNCHANGED <<issued, audits, task>>

-----------------------------------------------------------------------------
(* hardDeleteFact: the row is looked up, then deleted and audited at once *)

FindFact(c, k) ==
    /\ task[c].pc = "idle" /\ facts[k] # NoFact
    /\ task' = [task EXCEPT ![c] = [pc |-> "erase", key |-> k, found |-> facts[k]]]
    /\ UNCHANGED <<facts, issued, audits>>

EraseFact(c) ==
    /\ task[c].pc = "erase"
    /\ facts' = [facts EXCEPT ![task[c].key] = IF @.id = task[c].found.id THEN NoFact ELSE @]
    /\ audits' = [audits EXCEPT ![task[c].found.id] = @ + 1]
    /\ Finish(c)
    /\ UNCHANGED issued

-----------------------------------------------------------------------------

FactsInit ==
    /\ facts = [k \in FactKey |-> NoFact] /\ issued = 0
    /\ audits = [i \in FactId |-> 0]
    /\ task = [c \in Caller |-> NoTask(AnyKey)]

FactsNext ==
    \/ SweepExpiredFacts
    \/ \E k \in FactKey : DeadlinePasses(k)
    \/ \E c \in Caller :
        \/ \E k \in FactKey : LookUp(c, k) \/ FindFact(c, k)
        \/ \E ttl \in {"none", "ahead"} : InsertFact(c, ttl)
        \/ RestateFact(c) \/ StoreFails(c) \/ EraseFact(c)

FactsSpec == FactsInit /\ [][FactsNext]_factVars

-----------------------------------------------------------------------------
(* Properties *)

FactsTypeOK ==
    /\ facts \in [FactKey -> FactRow] /\ issued \in 0 .. MaxFacts
    /\ audits \in [FactId -> Nat]
    /\ task \in [Caller -> [pc : {"idle", "store", "erase"}, key : FactKey, found : FactRow]]

\* An expired fact stays retired, and unserved, for as long as its row lives,
\* though the hook that states it again looked it up before the sweep
\* (storeFact and sweepExpiredFacts of core/block-store.ts).
ExpiredStaysRetired ==
    [][\A k \in FactKey : facts[k].status = "retired" =>
            \/ facts'[k].status = "retired"
            \/ facts'[k].id # facts[k].id]_factVars

\* Every row that is gone has an audit row, and an audited row never returns:
\* not by a second erasure, nor by a store that had found it (hardDeleteFact,
\* storeFact).
ErasedIffAudited ==
    \A i \in 1 .. issued : audits[i] > 0 <=> \A k \in FactKey : facts[k].id # i

=============================================================================
