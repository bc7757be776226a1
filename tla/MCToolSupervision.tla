-------------------------- MODULE MCToolSupervision --------------------------
(***************************************************************************)
(* Small instances for TLC of the hooks and of the v1 traces, whose store   *)
(* and whose feedback share no state in this model with each other or with  *)
(* the hooks.  Each behaviour moves one of the three, so that their states  *)
(* add up instead of multiplying; a fourth part follows the hooks further,  *)
(* to where rotations of the cache spoil each other's text.                *)
(***************************************************************************)
EXTENDS ToolSupervision, TraceStore, TraceFeedback, TLC

CONSTANTS grep1, grep2, edit, t1, t2, print1, print2

VARIABLE part

\* Two searches with one intent, and a write
Families == grep1 :> "search" @@ grep2 :> "search" @@ edit :> "edit"
Intents == grep1 :> "auth" @@ grep2 :> "auth" @@ edit :> "none"

\* The line of the first search is as long as three others
Sizes == [o \in Obs |-> IF o.k = grep1 THEN 3 ELSE 1]

SomeDie == {"event", "reply", "rewrite", "rename", "append"}
SomeFail == {"readWarned", "event", "mark", "record", "append", "truncate"}

\* Two different problems
Prints12 == t1 :> print1 @@ t2 :> print2

\* The processes of all three are the same, and each session makes one recall
Interchangeable == Permutations(Hook) \cup Permutations(Session)

-----------------------------------------------------------------------------
Part == {"hooks", "rotations", "traces", "votes"}

HooksInit == part \in Part /\ Init /\ TraceStoreInit /\ FeedbackInit

\* A line is left standing behind a copy of its own only after MaxCalls calls: two
\* batches over one old text, the longer one of a line more.  They are reads of one
\* file and writes of another, of one session, without a signal, and no hook dies.
Rotations ==
    /\ Next
    /\ \A h \in Hook : hook'[h].pc \notin PreLabel \cup {"dead"}
    /\ \E s \in Session : \A x \in Session \ {s} :
           ran'[x] = <<>> /\ \A i \in DOMAIN rows' : rows'[i].s # x
    /\ \A s \in Session : \A i \in DOMAIN ran'[s] : ran'[s][i] # grep2

HooksNext ==
    /\ UNCHANGED part
    /\ \/ part = "hooks" /\ Next /\ issued' < MaxCalls /\ UNCHANGED <<traceVars, voteVars>>
       \/ part = "rotations" /\ Rotations /\ UNCHANGED <<traceVars, voteVars>>
       \/ part = "traces" /\ TraceStoreNext /\ UNCHANGED <<vars, voteVars>>
       \/ part = "votes" /\ FeedbackNext /\ UNCHANGED <<vars, traceVars>>

HooksSpec == HooksInit /\ [][HooksNext]_<<part, vars, traceVars, voteVars>>

\* The part that moves keeps to its types: among others no v1 trace that is gone
\* leaves a row in the queue of embeddings.
HooksTypeOK ==
    /\ part \in Part
    /\ part \in {"hooks", "rotations"} => TypeOK
    /\ part = "traces" => TraceStoreTypeOK
    /\ part = "votes" => FeedbackTypeOK

=============================================================================
