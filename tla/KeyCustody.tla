----------------------------- MODULE KeyCustody -----------------------------
(***************************************************************************)
(* What device linking promises about the API keys it issues, whoever       *)
(* approves and however often: each is made for one workspace and is in one *)
(* place at a time.  It goes from the approval that asked for it over a     *)
(* session's row to one CLI, or is lost on the way, and never goes back.    *)
(* Nothing here knows of statuses, polls, deadlines or statements.          *)
(***************************************************************************)
EXTENDS Naturals, Sequences

CONSTANTS Key, Workspace, Approver, Session

VARIABLES
    owner,     \* the workspace of each key issued so far
    holders    \* who can read the plaintext of each key

custody == <<owner, holders>>

Approval(p) == <<"approval", p>>
Row(s) == <<"row", s>>
Cli(s) == <<"cli", s>>

\* The next key is made for a workspace
Create(u, p) ==
    /\ Len(owner) + 1 \in Key
    /\ owner' = Append(owner, u)
    /\ holders' = [holders EXCEPT ![Len(owner) + 1] = {Approval(p)}]

\* It is put in a session's row, from which an earlier key is lost
Store(k, p, s) ==
    /\ holders[k] = {Approval(p)}
    /\ holders' = [j \in Key |-> IF j = k THEN {Row(s)} ELSE holders[j] \ {Row(s)}]
    /\ UNCHANGED owner

\* The row's plaintext goes to the CLI of that session, and out of the table
Deliver(k, s) ==
    /\ holders[k] = {Row(s)}
    /\ holders' = [holders EXCEPT ![k] = {Cli(s)}]
    /\ UNCHANGED owner

\* An approval fails, or the answer to a poll is lost
Lose(k) ==
    /\ holders[k] # {} /\ \A s \in Session : Cli(s) \notin holders[k]
    /\ holders' = [holders EXCEPT ![k] = {}]
    /\ UNCHANGED owner

Init == owner = << >> /\ holders = [k \in Key |-> {}]

Next ==
    \/ \E u \in Workspace, p \in Approver : Create(u, p)
    \/ \E k \in DOMAIN owner, p \in Approver, s \in Session : Store(k, p, s)
    \/ \E k \in DOMAIN owner, s \in Session : Deliver(k, s)
    \/ \E k \in DOMAIN owner : Lose(k)

Spec == Init /\ [][Next]_custody

=============================================================================
