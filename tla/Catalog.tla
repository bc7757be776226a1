------------------------------- MODULE Catalog -------------------------------
(***************************************************************************)
(* What the reasoning-block store promises to whoever reads it while one    *)
(* process writes: a shelf of at most one lesson per trigger, each of them  *)
(* kept or also served, grounds for and against it, and no way back from    *)
(* erasure.  Nothing here knows of statements, copies, awaits or calls.     *)
(***************************************************************************)

CONSTANTS Block, KeyOf

VARIABLES
    entry,      \* absent, kept, served or erased
    origin,     \* lessons some trace is the origin of
    counter     \* lessons some trace contradicts

shelf == <<entry, origin, counter>>

Present(b) == entry[b] \in {"kept", "served"}
Put(b, e) == entry' = [entry EXCEPT ![b] = e]
NoRival(b) == \A a \in Block \ {b} : Present(a) => KeyOf[a] # KeyOf[b]

\* A draft is stored, not yet served
Learn(b) ==
    /\ entry[b] = "absent" /\ NoRival(b)
    /\ Put(b, "kept")
    /\ UNCHANGED <<origin, counter>>

\* A reported pattern arrives with its origin and is served at once
Report(b) ==
    /\ entry[b] = "absent" /\ NoRival(b)
    /\ Put(b, "served") /\ origin' = origin \cup {b}
    /\ UNCHANGED counter

\* An origin is cited
Found(b) ==
    /\ Present(b)
    /\ origin' = origin \cup {b}
    /\ UNCHANGED <<entry, counter>>

Serve(b) ==
    /\ entry[b] = "kept" /\ b \in origin \ counter
    /\ Put(b, "served")
    /\ UNCHANGED <<origin, counter>>

Withdraw(b) ==
    /\ entry[b] = "served" /\ Put(b, "kept")
    /\ UNCHANGED <<origin, counter>>

\* A contradicted lesson is withdrawn in the same step
Contradict(b) ==
    /\ Present(b) /\ Put(b, "kept")
    /\ counter' = counter \cup {b}
    /\ UNCHANGED origin

\* So is one that loses its last origin
Unground(b) ==
    /\ b \in origin /\ Put(b, IF entry[b] = "served" THEN "kept" ELSE entry[b])
    /\ origin' = origin \ {b}
    /\ UNCHANGED counter

Absolve(b) ==
    /\ b \in counter /\ counter' = counter \ {b}
    /\ UNCHANGED <<entry, origin>>

Erase(b) ==
    /\ Present(b) /\ Put(b, "erased")
    /\ origin' = origin \ {b} /\ counter' = counter \ {b}

Init ==
    /\ entry = [b \in Block |-> "absent"]
    /\ origin = {} /\ counter = {}

Next ==
    \E b \in Block :
        \/ Learn(b) \/ Report(b) \/ Found(b) \/ Serve(b) \/ Withdraw(b)
        \/ Contradict(b) \/ Unground(b) \/ Absolve(b) \/ Erase(b)

Spec == Init /\ [][Next]_shelf

=============================================================================
