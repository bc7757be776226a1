----------------------------- MODULE GithubIngest -----------------------------
(***************************************************************************)
(* The GitHub ingest of the Engineering Brain: a dashboard request lists    *)
(* the issues and the pull requests of a repository page by page, each list *)
(* ordered by its last update, and upserts every entry in Postgres with a   *)
(* SELECT and then an UPDATE or an INSERT.  Nothing is locked: people go on *)
(* editing the repository between two pages, and requests of two browsers   *)
(* overlap.                                                                *)
(*                                                                         *)
(* An entry is its id and its version; comments, checks and commits count   *)
(* only for what their requests cost and how they fail.                    *)
(***************************************************************************)
EXTENDS Naturals, Sequences, Lists

CONSTANTS
    Issue, Pull,   \* issues and pull requests of the repository
    PageSize,      \* DEFAULT_PAGE_SIZE
    MaxPages,      \* DEFAULT_MAX_PAGES
    Budget,        \* perPullSecondaryLimit
    Ingester,      \* ingest requests in flight
    MaxVersion     \* bound: updates of one entry

ASSUME IngestAssumption ==
    /\ Issue \cap Pull = {}
    /\ {PageSize, MaxPages, Budget} \subseteq Nat \ {0}
    /\ MaxVersion \in Nat

Listed == Issue \cup Pull
Seen == [id : Listed, ver : 1 .. MaxVersion]

VARIABLES
    feed,      \* the repository's entries, the last updated first
    remote,    \* their versions, 0 for one that does not exist yet
    stored,    \* tracebase_github_items: version (0: no row), linked files known
    health,    \* tracebase_integrations: the status of the integration
    ingest     \* the frame of each request

ingestVars == <<feed, remote, stored, health, ingest>>

ItemRow == [ver : 0 .. MaxVersion, files : BOOLEAN]
IngestLabel == {"idle", "list", "files", "select", "write", "comments", "checks",
                "commits", "finalize", "done"}

\* list: which of the two lists it is at; got: what its pages held; files: did
\* the files of the pull request at hand arrive; ok: the status it will set.
\* due: history, what an ingest that runs alone owes: the entries there when it
\* began that nobody edited or deleted and its listings did not pass over since
IngestFrame == [pc : IngestLabel, list : {"issues", "pulls"}, page : Nat, got : Seq(Seen),
                files : BOOLEAN, hit : BOOLEAN, spent : 0 .. Budget, limited : BOOLEAN,
                ok : BOOLEAN, due : SUBSET Listed]
Resting == [pc |-> "idle", list |-> "issues", page |-> 1, got |-> <<>>, files |-> FALSE,
            hit |-> FALSE, spent |-> 0, limited |-> FALSE, ok |-> FALSE, due |-> {}]

Settle(g, f) == ingest' = [ingest EXCEPT ![g] = f]
InFlight(g) == ingest[g].pc \notin {"idle", "done"}

-----------------------------------------------------------------------------
(* The repository *)

There(i) == \E k \in DOMAIN feed : feed[k] = i

\* The issues endpoint also returns the pull requests
Listing(list) == IF list = "issues" THEN feed ELSE Keep(feed, Pull)
Own(f) == IF f.list = "pulls" THEN Pull ELSE Issue

\* The entry behind the pages that were read moves up among them when one of
\* theirs leaves the list: no later page shows it
Slipped(f, i) ==
    LET order == Listing(f.list)
        border == (f.page - 1) * PageSize
    IN  {e \in Own(f) :
            /\ f.pc = "list"
            /\ \E k \in DOMAIN order : k <= border /\ order[k] = i
            /\ \E k \in DOMAIN order : k = border + 1 /\ order[k] = e}

\* Somebody opens or edits an entry: it heads the list
Touch(i) ==
    /\ remote[i] < MaxVersion /\ (remote[i] # 0 => There(i))
    /\ remote' = [remote EXCEPT ![i] = @ + 1]
    /\ feed' = <<i>> \o Keep(feed, Listed \ {i})
    /\ ingest' = [g \in Ingester |-> [ingest[g] EXCEPT !.due = @ \ {i}]]
    /\ UNCHANGED <<stored, health>>

\* ... or deletes or transfers one, for good: those behind it move up
Leave(i) ==
    /\ There(i)
    /\ feed' = Keep(feed, Listed \ {i})
    /\ ingest' = [g \in Ingester |->
           [ingest[g] EXCEPT !.due = @ \ ({i} \cup Slipped(ingest[g], i))]]
    /\ UNCHANGED <<remote, stored, health>>

\* One page, sort=updated, direction=desc (mutant: direction=asc)
PageOf(order, n) ==
    LET first == (n - 1) * PageSize + 1
        last == IF n * PageSize < Len(order) THEN n * PageSize ELSE Len(order)
    IN  [k \in 1 .. (IF first <= last THEN last - first + 1 ELSE 0) |->
            [id |-> order[first + k - 1], ver |-> remote[order[first + k - 1]]]]
OldestFirst(list, n) ==
    LET order == Listing(list) IN PageOf([k \in DOMAIN order |-> order[Len(order) + 1 - k]], n)
Page(list, n) == PageOf(Listing(list), n)

-----------------------------------------------------------------------------
(* ingestRepo *)

\* POST /api/engineering-brain/ingest
StartIngest(g) ==
    /\ ~InFlight(g)
    /\ ingest' = [x \in Ingester |->
           IF x = g THEN (IF \A y \in Ingester \ {g} : ~InFlight(y)
                          THEN [Resting EXCEPT !.pc = "list", !.due = {i \in Listed : There(i)}]
                          ELSE [Resting EXCEPT !.pc = "list"])
           ELSE IF InFlight(x) THEN [ingest[x] EXCEPT !.due = {}] ELSE ingest[x]]
    /\ UNCHANGED <<feed, remote, stored, health>>

\* The outer catch: whatever was thrown, the integration is marked
Threw(g) == Settle(g, [Resting EXCEPT !.pc = "finalize"])

\* The next entry of the list at hand; after the issues come the pull requests,
\* after these the commits
NextEntry(f) ==
    IF f.got # <<>> THEN [f EXCEPT !.pc = IF f.list = "pulls" THEN "files" ELSE "select"]
    ELSE IF f.list = "issues" THEN [f EXCEPT !.pc = "list", !.list = "pulls", !.page = 1]
    ELSE [f EXCEPT !.pc = "commits"]

\* What lies behind the first n pages will not be read any more
Unread(f, n) ==
    LET order == Listing(f.list)
    IN  {i \in Own(f) : \E k \in DOMAIN order : k > n * PageSize /\ order[k] = i}

\* listIssues, listPullRequests: paginate stops at a short page or at the cap
ListPage(g) ==
    LET f == ingest[g]
        page == Page(f.list, f.page)
        got == f.got \o Keep(page, IF f.list = "pulls" THEN Seen ELSE {e \in Seen : e.id \notin Pull})
    IN  /\ f.pc = "list"
        /\ \/ IF Len(page) < PageSize \/ f.page = MaxPages
              THEN Settle(g, NextEntry([f EXCEPT !.got = got, !.due = @ \ Unread(f, f.page)]))
              ELSE Settle(g, [f EXCEPT !.got = got, !.page = @ + 1])
           \/ Threw(g)
        /\ UNCHANGED <<feed, remote, stored, health>>

\* ... or at a body that is no array, and returns the pages it has
ListCutShort(g) ==
    LET f == ingest[g]
    IN  /\ f.pc = "list"
        /\ Settle(g, NextEntry([f EXCEPT !.due = @ \ Unread(f, f.page - 1)]))
        /\ UNCHANGED <<feed, remote, stored, health>>

\* A secondary request: skipped when the budget is spent, and its failure is
\* swallowed (only a rate limit is remembered); then the frame goes on as k
Secondary(g, arrived, missed) ==
    LET f == ingest[g] IN
    \/ f.spent < Budget /\ Settle(g, [arrived EXCEPT !.spent = @ + 1])
    \/ f.spent < Budget /\ \E limit \in BOOLEAN :
           Settle(g, [missed EXCEPT !.limited = @ \/ limit])
    \/ f.spent >= Budget /\ Settle(g, missed)

\* listPullRequestFiles
FetchPullFiles(g) ==
    LET f == [ingest[g] EXCEPT !.pc = "select"] IN
    /\ ingest[g].pc = "files"
    /\ Secondary(g, [f EXCEPT !.files = TRUE], [f EXCEPT !.files = FALSE])
    /\ UNCHANGED <<feed, remote, stored, health>>

\* upsertGithubItem: the SELECT
SelectItem(g) ==
    LET f == ingest[g] IN
    /\ f.pc = "select"
    /\ \/ Settle(g, [f EXCEPT !.pc = "write", !.hit = stored[Head(f.got).id].ver # 0])
       \/ Threw(g)
    /\ UNCHANGED <<feed, remote, stored, health>>

\* ... the UPDATE, which replaces the linked files too, or the INSERT, which the
\* unique index refuses when another request was faster
WriteItem(g) ==
    LET f == ingest[g]
        e == Head(f.got)
        after == [f EXCEPT !.got = Tail(@), !.files = FALSE, !.hit = FALSE]
    IN  /\ f.pc = "write"
        /\ \/ /\ f.hit \/ stored[e.id].ver = 0
              /\ stored' = [stored EXCEPT ![e.id] = [ver |-> e.ver, files |-> f.files]]
              /\ IF f.list = "pulls" THEN Settle(g, [after EXCEPT !.pc = "comments"])
                                     ELSE Settle(g, NextEntry(after))
           \/ Threw(g) /\ UNCHANGED stored
        /\ UNCHANGED <<feed, remote, health>>

\* listPullRequestReviewComments, listCheckRunsForRef and their upserts, which
\* share one catch each
FetchComments(g) ==
    LET f == [ingest[g] EXCEPT !.pc = "checks"] IN
    /\ ingest[g].pc = "comments"
    /\ Secondary(g, f, f)
    /\ UNCHANGED <<feed, remote, stored, health>>

FetchChecks(g) ==
    LET f == NextEntry(ingest[g]) IN
    /\ ingest[g].pc = "checks"
    /\ Secondary(g, f, f)
    /\ UNCHANGED <<feed, remote, stored, health>>

\* listCommits: one page, outside the budget; a rate limit, here or before, marks
\* the integration as an exception does
FetchCommits(g) ==
    /\ ingest[g].pc = "commits"
    /\ \/ ~ingest[g].limited /\ Settle(g, [ingest[g] EXCEPT !.pc = "finalize", !.ok = TRUE])
       \/ Threw(g)
    /\ UNCHANGED <<feed, remote, stored, health>>

\* setIntegrationStatus, or a database that fails it
FinalizeIngest(g) ==
    /\ ingest[g].pc = "finalize"
    /\ \/ /\ health' = IF ingest[g].ok THEN "connected" ELSE "error"
          /\ Settle(g, [Resting EXCEPT !.pc = "done", !.ok = ingest[g].ok, !.due = ingest[g].due])
       \/ UNCHANGED health /\ Settle(g, Resting)
    /\ UNCHANGED <<feed, remote, stored>>

\* The serverless host stops the request
IngestDies(g) ==
    /\ InFlight(g)
    /\ Settle(g, Resting)
    /\ UNCHANGED <<feed, remote, stored, health>>

\* POST /api/engineering-brain/integrations connects the repository once more:
\* it clears an error without an ingest
Reconnect ==
    /\ health' = "connected"
    /\ UNCHANGED <<feed, remote, stored, ingest>>

-----------------------------------------------------------------------------
IngestInit ==
    /\ feed = <<>> /\ remote = [i \in Listed |-> 0]
    /\ stored = [i \in Listed |-> [ver |-> 0, files |-> FALSE]]
    /\ health = "connected"
    /\ ingest = [g \in Ingester |-> Resting]

IngestNext ==
    \/ \E i \in Listed : Touch(i) \/ Leave(i)
    \/ \E g \in Ingester :
        \/ StartIngest(g) \/ ListPage(g) \/ ListCutShort(g) \/ FetchPullFiles(g)
        \/ SelectItem(g) \/ WriteItem(g) \/ FetchComments(g) \/ FetchChecks(g) \/ FetchCommits(g) \/ FinalizeIngest(g)
        \/ IngestDies(g)
    \/ Reconnect

IngestSpec == IngestInit /\ [][IngestNext]_ingestVars

-----------------------------------------------------------------------------
(* Properties *)

IngestTypeOK ==
    /\ feed \in Seq(Listed)
    /\ remote \in [Listed -> 0 .. MaxVersion]
    /\ stored \in [Listed -> ItemRow]
    /\ health \in {"connected", "error"}
    /\ ingest \in [Ingester -> IngestFrame]

\* An ingest that ran alone and reports success has caught up: whatever existed
\* when it began and was left alone since is stored as it is, though the pages
\* shifted under it while other entries were edited or deleted, requests failed,
\* and earlier ingests died halfway (ingestRepo, paginate) - except what its
\* listings passed over: the entry that slipped from the next page to one
\* already read when an entry of that page was deleted or transferred, and the
\* entries behind the last page read, because of the cap of MaxPages or of a
\* body that was no array, which ends a listing without an error.  Nothing is
\* promised for two ingests that overlap: the older listing may be written last.
QuietIngestCatchesUp ==
    \A g \in Ingester :
        (ingest[g].pc = "done" /\ ingest[g].ok) =>
            \A i \in ingest[g].due : stored[i].ver = remote[i]

=============================================================================
