------------------------------ MODULE DeviceLink ------------------------------
(***************************************************************************)
(* Linking a project to the cloud: tracebase init opens a device session at *)
(* the control plane, a signed-in user approves it in a browser, and the CLI *)
(* polls until it is handed a workspace, an installation and an API key.    *)
(*                                                                         *)
(* The Postgres store.  Approving is a chain of statements without a        *)
(* transaction, so that two approvals (two tabs, two users, a repeated       *)
(* request) interleave with each other and with the polls; polling is one    *)
(* transaction that locks the session's row.                               *)
(***************************************************************************)
EXTENDS Naturals, Sequences

CONSTANTS
    Session,    \* device codes, all opened by one project and agent
    User,       \* signed-in users; each owns one personal workspace
    NoUser,
    Approver,   \* approve requests in flight
    MaxKeys     \* bound: API keys issued

ASSUME LinkAssumption == Session # {} /\ NoUser \notin User /\ MaxKeys \in Nat

NoKey == 0
Key == 1 .. MaxKeys

VARIABLES
    owners,     \* users whose personal workspace exists
    keys,       \* tracebase_api_keys: the workspace of each key
    installs,   \* workspaces with an installation of this project and agent
    session,    \* tracebase_device_sessions
    late,       \* sessions past their ten minutes
    approval,   \* the frame of each approve request
    cli         \* what tracebase init knows

linkVars == <<owners, keys, installs, session, late, approval, cli>>

SessionStatus == {"none", "pending", "approved", "expired", "consumed"}
SessionRow == [status : SessionStatus, ws : User \cup {NoUser}, key : Key \cup {NoKey},
               inst : User \cup {NoUser}]
NoSession == [status |-> "none", ws |-> NoUser, key |-> NoKey, inst |-> NoUser]

ApprovalLabel == {"idle", "read", "key", "find", "put", "approve"}
Approval == [pc : ApprovalLabel, s : Session, u : User \cup {NoUser}, key : Key \cup {NoKey},
             found : BOOLEAN]
NoApproval(s) == [pc |-> "idle", s |-> s, u |-> NoUser, key |-> NoKey, found |-> FALSE]
AnySession == CHOOSE s \in Session : TRUE

Cli == [pc : {"new", "poll", "local", "linked"}, ws : User \cup {NoUser},
        key : Key \cup {NoKey}, inst : User \cup {NoUser}]
Unlinked == [pc |-> "new", ws |-> NoUser, key |-> NoKey, inst |-> NoUser]

-----------------------------------------------------------------------------
(* The CLI *)

\* startDeviceSession
OpenSession(s) ==
    /\ cli[s].pc = "new" /\ cli' = [cli EXCEPT ![s].pc = "poll"]
    /\ session' = [session EXCEPT ![s].status = "pending"]
    /\ UNCHANGED <<owners, keys, installs, late, approval>>

\* It waits 45 seconds of the ten minutes
StopPolling(s) ==
    /\ cli[s].pc = "poll" /\ cli' = [cli EXCEPT ![s].pc = "local"]
    /\ UNCHANGED <<owners, keys, installs, session, late, approval>>

TimePasses(s) ==
    /\ session[s].status # "none" /\ s \notin late
    /\ late' = late \cup {s}
    /\ UNCHANGED <<owners, keys, installs, session, approval, cli>>

\* Delivered: the key's plaintext leaves the table (mutant: it stays)
KeepingKey(row) == [row EXCEPT !.status = "consumed"]
Consumed(row) == [row EXCEPT !.status = "consumed", !.key = NoKey]

\* pollDeviceSession, BEGIN to COMMIT, and what the CLI makes of the answer;
\* a lost answer, like any error, ends the handshake and local init is kept
PollSession(s) ==
    /\ cli[s].pc = "poll"
    /\ LET row == session[s]
           overdue == row.status = "pending" /\ s \in late
           payload == row.status = "approved" /\ row.key # NoKey
       IN  /\ session' = CASE overdue -> [session EXCEPT ![s].status = "expired"]
                           [] payload -> [session EXCEPT ![s] = Consumed(row)]
                           [] OTHER   -> session
           /\ cli' \in
                {[cli EXCEPT ![s].pc = "local"]} \cup
                (CASE payload ->
                        {[cli EXCEPT ![s] = [pc |-> "linked", ws |-> row.ws,
                                             key |-> row.key, inst |-> row.inst]]}
                   [] row.status = "pending" /\ ~overdue -> {cli}
                   [] OTHER -> {})
    /\ UNCHANGED <<owners, keys, installs, late, approval>>

-----------------------------------------------------------------------------
(* approveDeviceSession *)

At(p, pc) == approval[p].pc = pc
Proceed(p, pc) == approval' = [approval EXCEPT ![p].pc = pc]
Answer(p) == approval' = [approval EXCEPT ![p] = NoApproval(AnySession)]

\* A session that is not pending is answered without a write
ReadSession(p, s, u) ==
    /\ At(p, "idle") /\ session[s].status = "pending"
    /\ approval' = [approval EXCEPT ![p] = [NoApproval(s) EXCEPT !.pc = "read", !.u = u]]
    /\ UNCHANGED <<owners, keys, installs, session, late, cli>>

\* The update has no condition on the status it found
ExpireSession(p) ==
    /\ At(p, "read") /\ approval[p].s \in late
    /\ session' = [session EXCEPT ![approval[p].s].status = "expired"]
    /\ Answer(p)
    /\ UNCHANGED <<owners, keys, installs, late, cli>>

\* ensurePersonalWorkspaceForUser: INSERT ... ON CONFLICT, retried with another
\* slug while the slug is taken
EnsureWorkspace(p) ==
    /\ At(p, "read") /\ approval[p].s \notin late
    /\ owners' = owners \cup {approval[p].u}
    /\ Proceed(p, "key")
    /\ UNCHANGED <<keys, installs, session, late, cli>>

\* createApiKey
IssueKey(p) ==
    /\ At(p, "key") /\ Len(keys) < MaxKeys
    /\ keys' = Append(keys, approval[p].u)
    /\ approval' = [approval EXCEPT ![p].pc = "find", ![p].key = Len(keys) + 1]
    /\ UNCHANGED <<owners, installs, session, late, cli>>

\* upsertInstallation: the SELECT, then the UPDATE or the INSERT
FindInstallation(p) ==
    /\ At(p, "find")
    /\ approval' = [approval EXCEPT ![p].pc = "put", ![p].found = approval[p].u \in installs]
    /\ UNCHANGED <<owners, keys, installs, session, late, cli>>

PutInstallation(p) ==
    /\ At(p, "put")
    /\ approval[p].found \/ approval[p].u \notin installs
    /\ installs' = installs \cup {approval[p].u}
    /\ Proceed(p, "approve")
    /\ UNCHANGED <<owners, keys, session, late, cli>>

\* The unique index refuses a second insert; the key is already issued
InstallationClashes(p) ==
    /\ At(p, "put") /\ ~approval[p].found /\ approval[p].u \in installs
    /\ Answer(p)
    /\ UNCHANGED <<owners, keys, installs, session, late, cli>>

\* One statement, again without a condition on the status (mutant: a workspace
\* that is already there is kept)
KeepingWorkspace(row, f) ==
    [row EXCEPT !.status = "approved", !.key = f.key, !.inst = f.u,
                !.ws = IF row.ws = NoUser THEN f.u ELSE row.ws]
Approved(row, f) ==
    [row EXCEPT !.status = "approved", !.ws = f.u, !.key = f.key, !.inst = f.u]

ApproveSession(p) ==
    /\ At(p, "approve")
    /\ session' = [session EXCEPT ![approval[p].s] = Approved(session[approval[p].s], approval[p])]
    /\ Answer(p)
    /\ UNCHANGED <<owners, keys, installs, late, cli>>

ApprovalFails(p) ==
    /\ ~At(p, "idle")
    /\ Answer(p)
    /\ UNCHANGED <<owners, keys, installs, session, late, cli>>

-----------------------------------------------------------------------------

LinkInit ==
    /\ owners = {} /\ keys = << >> /\ installs = {} /\ late = {}
    /\ session = [s \in Session |-> NoSession]
    /\ approval = [p \in Approver |-> NoApproval(AnySession)]
    /\ cli = [s \in Session |-> Unlinked]

LinkNext ==
    \/ \E s \in Session : OpenSession(s) \/ StopPolling(s) \/ TimePasses(s) \/ PollSession(s)
    \/ \E p \in Approver, s \in Session, u \in User : ReadSession(p, s, u)
    \/ \E p \in Approver :
        \/ ExpireSession(p) \/ EnsureWorkspace(p) \/ IssueKey(p) \/ FindInstallation(p)
        \/ PutInstallation(p) \/ InstallationClashes(p) \/ ApproveSession(p) \/ ApprovalFails(p)

LinkSpec == LinkInit /\ [][LinkNext]_linkVars

-----------------------------------------------------------------------------
(* Properties *)

LinkTypeOK ==
    /\ owners \subseteq User /\ installs \subseteq User /\ late \subseteq Session
    /\ keys \in Seq(User) /\ Len(keys) <= MaxKeys
    /\ session \in [Session -> SessionRow]
    /\ approval \in [Approver -> Approval]
    /\ cli \in [Session -> Cli]

\* What the CLI stores fits together, however many approvals of however many
\* users raced for its session: the key opens the workspace it was told, and
\* the installation it will push samples under belongs to that workspace
\* (approveDeviceSession and pollDeviceSession of control-plane/store.ts).
LinkIsConsistent ==
    \A s \in Session : cli[s].pc = "linked" =>
        /\ cli[s].key \in DOMAIN keys /\ keys[cli[s].key] = cli[s].ws
        /\ cli[s].inst = cli[s].ws
        /\ cli[s].ws \in owners /\ cli[s].inst \in installs

\* A key is handed out once: no two projects hold it, and once its CLI has it,
\* its plaintext is in no session row, though a late approval may bring a
\* consumed session back to life.
KeyHandedOutOnce ==
    \A s, t \in Session : cli[s].pc = "linked" =>
        /\ session[t].key # cli[s].key
        /\ cli[t].pc = "linked" /\ t # s => cli[t].key # cli[s].key

\* Who can read a key's plaintext: an approval since it issued the key, a row of
\* the table, a CLI that was linked with it
Carries(p) == approval[p].pc \in {"find", "put", "approve"}
HoldersOf(k) ==
    {<<"approval", p>> : p \in {q \in Approver : Carries(q) /\ approval[q].key = k}}
    \cup {<<"row", s>> : s \in {t \in Session : session[t].key = k}}
    \cup {<<"cli", s>> : s \in {t \in Session : cli[t].pc = "linked" /\ cli[t].key = k}}

Custody == INSTANCE KeyCustody WITH
    Workspace <- User,
    owner <- keys,
    holders <- [k \in Key |-> HoldersOf(k)]

\* The chains of statements of any number of approvals, the polls and the deadlines
\* amount to that custody: a key has one holder at a time and moves one way, and
\* what has reached a CLI is never readable at the control plane again, though a
\* late approval may bring a consumed session back to life
\* (approveDeviceSession, pollDeviceSession).
KeysMoveOneWay == Custody!Spec

=============================================================================
