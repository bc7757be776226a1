------------------------------ MODULE Migration ------------------------------
(***************************************************************************)
(* Opening the database of a project: the schema walker of the BlockStore   *)
(* constructor.  Every process of a project opens the file, an old one is   *)
(* brought up to date step by step, and each step is one transaction with   *)
(* the number it reaches; the number to start from is read before them all. *)
(*                                                                         *)
(* A step is abstracted to what it adds, what it rebuilds without, and      *)
(* whether it can run twice.                                               *)
(***************************************************************************)
EXTENDS Naturals

CONSTANT Opener      \* processes that open the database

Latest == 15         \* V2_SCHEMA_VERSION
Step == 2 .. Latest

VARIABLES
    version,     \* v2_schema_meta, 0 in an empty file
    has,         \* steps whose tables and columns are there
    held,        \* data some versions have no column for, once written
    dropped,        \* of those, data a rebuild has dropped
    opener,      \* the frame of each process
    born,        \* the version found at first
    shared       \* history: two processes have walked at a time

schemaVars == <<version, has, held, dropped, opener, born, shared>>

Column == {"fact_id", "ttl_until_at"}
NotOpen == [pc |-> "closed", at |-> 0]

-----------------------------------------------------------------------------
(* V2_MIGRATIONS *)

\* ALTER TABLE ADD COLUMN without a probe (mutant: nor has step 10 one)
BareAlters == {3, 5, 10}
Bare == {3, 5}

\* What running step v leaves behind: 6 and 7 rebuild project_facts with the
\* columns of their own time
RebuiltWithout(v) == CASE v = 6 -> {7, 10} [] v = 7 -> {10} [] OTHER -> {}
Drops(v) == CASE v = 2 -> {"fact_id"} [] v = 7 -> {"ttl_until_at"} [] OTHER -> {}

\* A duplicate column is an error, and the table of step 6 refuses session
\* digests, the facts that carry a deadline
Runs(v) ==
    /\ v \in Bare => v \notin has
    /\ v = 6 => "ttl_until_at" \notin held

-----------------------------------------------------------------------------
(* migrate *)

ReadVersion(p) ==
    /\ opener[p].pc = "closed"
    /\ opener' = [opener EXCEPT ![p] = [pc |-> IF version = Latest THEN "open" ELSE "walk",
                                        at |-> version]]
    /\ shared' = (shared \/ \E q \in Opener : opener[q].pc = "walk")
    /\ UNCHANGED <<version, has, held, dropped, born>>

\* An empty file: all of V2_SCHEMA (IF NOT EXISTS) and its number at once
FreshInit(p) ==
    /\ opener[p].pc = "walk" /\ opener[p].at = 0
    /\ version' = Latest /\ has' = Step
    /\ opener' = [opener EXCEPT ![p] = [pc |-> "open", at |-> Latest]]
    /\ UNCHANGED <<held, dropped, born, shared>>

RunStep(p) ==
    LET v == opener[p].at + 1
    IN  /\ opener[p].pc = "walk" /\ opener[p].at > 0
        /\ v \in Step => Runs(v)
        /\ version' = v
        /\ has' = (has \ RebuiltWithout(v)) \cup {v}
        /\ dropped' = dropped \cup (Drops(v) \cap held)
        /\ opener' = [opener EXCEPT ![p] = [pc |-> IF v = Latest THEN "open" ELSE "walk",
                                            at |-> v]]
        /\ UNCHANGED <<held, born, shared>>

\* A step that throws leaves the constructor; a process may also be killed
\* between two steps, or close the store
CloseStore(p) ==
    /\ opener[p].pc # "closed"
    /\ opener' = [opener EXCEPT ![p] = NotOpen]
    /\ UNCHANGED <<version, has, held, dropped, born, shared>>

\* An open store writes events of facts and session digests
WriteRows(p, column) ==
    /\ opener[p].pc = "open"
    /\ column = "fact_id" \/ 7 \in has
    /\ held' = held \cup {column}
    /\ UNCHANGED <<version, has, dropped, opener, born, shared>>

-----------------------------------------------------------------------------

\* A file of any version, with whatever that version could hold
SchemaInit ==
    /\ born \in 0 .. Latest /\ version = born
    /\ has = 2 .. born
    /\ held \in SUBSET ({c \in {"fact_id"} : 2 \in has} \cup {c \in {"ttl_until_at"} : 7 \in has})
    /\ dropped = {} /\ shared = FALSE
    /\ opener = [p \in Opener |-> NotOpen]

SchemaNext ==
    \E p \in Opener :
        \/ ReadVersion(p) \/ FreshInit(p) \/ RunStep(p) \/ CloseStore(p)
        \/ \E column \in Column : WriteRows(p, column)

SchemaSpec == SchemaInit /\ [][SchemaNext]_schemaVars

-----------------------------------------------------------------------------
(* Properties *)

SchemaTypeOK ==
    /\ version \in 0 .. Latest /\ born \in 0 .. Latest /\ has \subseteq Step
    /\ held \subseteq Column /\ dropped \subseteq Column /\ shared \in BOOLEAN
    /\ opener \in [Opener -> [pc : {"closed", "walk", "open"}, at : 0 .. Latest]]

\* Whenever a walk is cut short, and whoever opens the file next, the tables are
\* those of the number in it, nothing is dropped and the next step can run: in
\* every file if processes take turns, and in an empty one or one of version 7
\* and above even if they walk it together (migrate of core/block-store.ts).
\* Below that the bare ALTERs and the rebuilds make a step that runs twice harmful.
SchemaIsWhole ==
    (~shared \/ born = 0 \/ born >= 7) =>
        /\ 2 .. version \subseteq has
        /\ dropped = {}
        /\ version \in 1 .. Latest - 1 => Runs(version + 1)

=============================================================================
