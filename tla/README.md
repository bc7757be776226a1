# Tracebase in TLA+

Tracebase keeps what coding agents learned as *reasoning blocks* in a local
SQLite database and serves the good ones to later runs.  Nothing in it is a
long-lived server with a lock: every Claude Code hook is a short process, an
MCP server, an HTTP server, an SDK runtime and CLI commands run beside them,
and all of them open the same WAL database.  A cloud control plane on Postgres,
whose requests overlap just as freely, links projects and collects samples.
This directory models who may write what, and what interleavings, failures and
deaths between two statements do to it.

    tlc -config one_process.cfg MCBlockStore.tla      # a run, see "Runs"
    tlapm BlockStoreProofs.tla                        # the proofs of a module

`PROJECT.json` lists the components, the runs, the map from definitions to
source lines, mutants (a plausible bug for every checked property, which the
property catches), the hazards of the code and the theorems.  Paths in this
file are relative to `src/`.

## The system

| component | state it keeps | operations | interacts through | what must be right | module |
|---|---|---|---|---|---|
| block catalogue (`src/core/block-store.ts`, `block.ts`) | `reasoning_blocks`, `block_case_refs`, `audit_deletes` | store, status update, replace, merge, attach / detach ref, orphan sweep, delete, hard delete | every component below | an active block has an origin and no counter evidence; one block per trigger; erasure is final; evidence is not lost | BlockStore, Catalog |
| distillation pipeline (`src/distillation/pipeline.ts`) | none of its own | success lane, failure lane | awaits a distiller and a verifier between reads and writes of the catalogue | pitfalls are not served; a stale copy undoes nothing; no half-made block | BlockStore |
| pattern reports (`src/server/mcp-v2-helpers.ts`) | none | store pattern, delete pattern, record usage / outcome | the catalogue in one transaction; the event log | retries are idempotent; insert, origin and promotion are one step | BlockStore, Turns |
| domain distiller, held-out verifier, lifecycle repair, memory CLI | none | primer refresh, reverify, sync stats, demote, retire | read-modify-write of whole rows | as above | BlockStore |
| serving and recall (`src/core/block-serving.ts`, `src/runtime/recall.ts`) | holdout configuration | shortlist, rerank (await), gate, holdout draw, inject | catalogue, event log, facts | what is shown is what is logged; a held-out query is a fair control | Turns |
| event log and attribution (`src/core/analytics.ts`, `src/runtime/attribution-*.ts`) | append-only `analytics_events` | append, aggregate, infer `agent_used` and `outcome` | hooks of one turn, in any order | credit only where something was shown; an inferred verdict never passes for a reported one | Turns |
| hook commands (`src/cli/commands/inject-context.ts`, `capture-turn.ts`, ...) | none | the entry points of the two rows above | stdin, stdout | - | Turns |
| tool supervision (`src/runtime/recent-tool-cache.ts`, `observe-tools.ts`, `src/cli/commands/capture-pre-tool-use.ts`, `capture-tool-use.ts`) | a JSONL cache file, `tool_observations`, a warn table | observe, detect a loop, warn, block, escalate, queue edits | PreToolUse and PostToolUse processes in parallel | the cache claims nothing that was not observed; savings are refused calls; edits reach the indexer | ToolSupervision |
| file index (`src/core/file-indexer.ts`, `file-walker.ts`) | `indexed_files`, `indexer_pending` | budgeted walk, drain, queue | workspace, editors, hooks | a budgeted index forgets a file only where the code is known to drop it; refused files are never indexed | FileIndex |
| project facts (`src/core/block-store.ts`) | `project_facts`, `audit_fact_deletes` | store, expire, hard delete | serving, hooks | an expired fact stays retired; erased exactly when audited | ProjectFacts |
| context fold (`src/core/context-fold.ts`, `src/cli/commands/capture-context.ts`) | `session_chunks` with a watermark | fold, record | hooks, SDK hosts | no turn falls between two folds | ContextFold |
| schema migration (`src/core/block-store.ts`) | `v2_schema_meta` | walk the versions | every process that opens the file | tables agree with the number, whoever stops where | Migration |
| calibration (`src/lifecycle/isotonic.ts`, `calibrator*.ts`) | a fitted model | fit, predict | event log, serving | the fit is the isotonic regression of the sorted list; a better score is not served a lower probability | Calibration |
| sync coordinator (`src/sdk/sync-coordinator.ts`, `usage-payload.ts`) | `dirty`, two timers, `inFlight`, backoff | mark, flush, close, attempt, retry | aggregates, control plane | attempts do not overlap; a mark is not forgotten; retries end; changes are delivered | SyncCoordinator |
| SDK runtime (`src/sdk/runtime.ts`) | a connection, a coordinator | before / after a run, flush, close | everything above | see "Read, not run" | SyncCoordinator, Turns |
| device linking (`www/src/lib/control-plane/store.ts`, `src/cli/cloud.ts`) | device sessions, API keys, installations | open, approve, poll | browser, CLI | key, workspace and installation fit; a key has one holder | DeviceLink, KeyCustody |
| GitHub ingest (`www/src/lib/control-plane/github-*.ts`, `engineering-brain.ts`) | `tracebase_github_items`, `tracebase_integrations` | list, upsert, set status | the GitHub API, the dashboard | success means caught up with what the listings showed | GithubIngest |
| governance, rate limiter, waiting list, dashboard pages | Postgres tables | - | - | - | not modelled |
| v1 traces (`src/core/engine.ts`, `store.ts`) | `traces`, `pending_embeddings` | store, prune, embed, drain, import, delete | CLI, MCP server and SDK on one file; an embedding provider | a returned trace has its embedding or waits for one; the table keeps its limit | TraceStore |
| v1 feedback (`src/core/engine.ts`, `contextual-bandit.ts`) | quality counters, recall and verdict events, two rows of weights | recall, vote by query id or by guess, update the bandit | the event log | a recall is answered and learned from once | TraceFeedback |
| ranking, sampling of weights, arbiter, lifecycle scores, middleware, MCP / HTTP dispatch, installers, guards, evaluation | model weights; files | - | - | - | not modelled |

The hard behaviours are (a) statements of several processes interleaving on one
database where the code reads, decides in JavaScript and writes in another
statement, (b) rows read before an `await` of a model, a verifier or a
reranker and written back or served after it, (c) processes killed between two
statements (hooks have time limits), (d) timers against continuations of an
attempt in flight, with a network that loses and reorders, (e) files renamed
under open descriptors, and (f) retries and repeated requests.  `PROJECT.json`
names each place under `hazards`, with the properties that cover it.

## Modules

One action is one SQL statement, one `db.transaction(...)`, one system call or
one turn of the event loop, with the JavaScript up to the next.  A *frame* per
call or process (`call`, `hook`, `act`, `recall`, `walk`, `approval`, `task`,
`opener`, `fold`, `ingest`, `keeper`, `voter`) plays the part of the JavaScript stack: the
statement it runs next (`pc`) and the locals it read earlier.  Death between two
steps resets or freezes the frame and leaves what is committed.

### BlockStore

`BlockStore.tla` models the catalogue and **every code path of `src/src` that
writes a block's status or a case ref**.  State:

| variable | code |
|---|---|
| `status` | one row of `reasoning_blocks` per id; `fresh` before its INSERT, `gone` after its DELETE |
| `refs` | the rows of `block_case_refs` (id, block, trace, role) |
| `spent` | case-ref ids used, so that a UUID is never minted twice |
| `tombs` | the number of `audit_deletes` rows that name a block |
| `known` | the traces still in the v1 store |
| `call` | for each call in flight, the statement it runs next and the locals read earlier |

A frame plays the part of the JavaScript stack: `op` the entry point, `pc` the
next SQL statement, `blk`/`peer`/`trace`/`role` its arguments, `val` the status
in the copy it read (or the one it will write), `todo` a snapshot of refs.

One action is one SQL statement, or one `db.transaction(...)`, with the
JavaScript up to the next statement.  Labels are shared the way functions are:
`origin`, `counter` and `write` are the checks and the UPDATE of both
`updateBlockStatus` and `replaceBlock`; `get` and `link` are `attachCaseRef`.
Which caller is running decides what follows (`OnHit`, `OnMiss`, `Promotes`,
`Write`).  The success lane is thus `distill` (await) - `find` - `collide` -
`insert` - `get` - `link` - `update` - `origin` - `counter` - `write` -
`verify` (await) - `origin` - `counter` - `write`, and any other call may run
between two of these.

Two regimes share the actions.  With `OneProcess` a call runs until it returns
or awaits (`Turn`): better-sqlite3 is synchronous, so inside one Node process
only the awaits of the distiller and the verifier let another call in.  Without
it every client is a process of its own.  `Killable` names the operations whose
process may die or meet `SQLITE_BUSY` between two statements (`Fail`); what it
committed stays.

Abstractions.  Bodies, statistics, quality and the search index are left out:
no guard on status or refs reads them.  `KeyOf` gives each id its
(fingerprint, kind); the capture gate, the validators, the leakage and
injection guards and the confidence gate are one nondeterministic rejection
(or a call that does not happen).  Domain primers have keys of their own
(`PrimerKey`): their situation is the fixed text "Domain primer for ...".
Reading a row for a write-back (`reverifyBlock`, `syncStats`) starts the call;
`syncStats` over many blocks is one call for each.  `applyDemotionRules`,
`memory prune` and `memory health` are `UpdateBlockStatus` on any block, a
superset of the ones their scores pick.

`MCBlockStore.tla` gives ids and keys for TLC: two ids that compete for one
success trigger, one pitfall, one primer.  `BlockStoreProofs.tla` and
`CatalogProofs.tla` hold the theorems.

### SyncCoordinator

`SyncCoordinator.tla` models `createSyncCoordinator` with its default payload
builder and sender, the network, and the control plane's upsert.  One action is
one turn of the JavaScript event loop: a call (`MarkDirty`, `Flush`, `Close`), a
timer callback (`DebounceFires`, `CapFires`, `StrayFires`) or the continuation
of an attempt after an await (`Built`, `SendSucceeds`, `SendFails`, and `Throws`,
the catch block, which schedules no retry).

| variable | code |
|---|---|
| `dirty`, `closed`, `backoff` | the locals `dirty`, `closed`, `backoffAttempt` |
| `inFlight` | is the local `inFlight` non-null? |
| `debounce`, `cap` | the handles `debounceTimer`, `capTimer`: null, a live timer, or a handle of a timer that has fired |
| `stray` | live timers whose handle was overwritten (`debounceTimer = t` in the backoff branch does not clear the old one) |
| `pc`, `payload` | each running async closure and the version of the aggregates it sends |
| `bound` | does `resolveBasePath` return a project? |
| `recorded`, `wire`, `cloud` | the local aggregates as a version, requests on the network, the sample the control plane holds |
| `outcome`, `flushes` | history: how the last attempt ended; a bound |

Three details of JavaScript are in the model because properties depend on them.
A timer that fires into an early return of `runSync` leaves its handle behind.
A closure that returns before its first `await` (no project bound) runs its
`finally` *before* `inFlight = (async () => ...)()` completes the assignment.
`finally` clears `dirty` only when closed.  Aggregates are read in the turn that
starts the attempt (`buildSendInputForWindow` has no await before its queries),
so `payload` is fixed there.  Requests with the same payload count as one in
`wire`.  Not modelled: `autoSync: false`, the reason strings, durations, the
UTC-day window (a payload is "everything so far").

`MCSyncCoordinator.tla` allows two attempts, so that a second one *could* start;
`SyncProofs.tla` holds the theorems.


### Catalog

`Catalog.tla` is what the store promises to a reader while one process writes:
a shelf with at most one lesson per trigger, kept or served, grounds for and
against it, no way back from erasure.  It has no statements, copies, awaits or
calls.  `BlockStore!ImplementsCatalog` is its `Spec` under the mapping `entry` =
the status seen as absent / kept / served / erased, `origin` and `counter` = the
blocks that have such a ref; the run `one_process` checks it.  A block becomes
served only with an origin and no counter *at that instant*, although the
status written back was read before an `await`; that step condition is what
the state invariants alone do not say.  It holds for one process: two can both
insert (`racing_inserts`), which no shelf allows.

### ToolSupervision

Two kinds of hook process share the observation table, the warm cache
`rtools.bin` with its fixed rewrite name `rtools.bin.tmp`, the warn-once table
and the analytics log.

| variable | code |
|---|---|
| `rows`, `queued`, `warned`, `credit` | `tool_observations`, `indexer_pending`, the warn table, the events that say a call was blocked |
| `file`, `tmp`, `fd` | the texts of the two files and what each hook's open descriptor refers to *now*: a rename moves it |
| `hook` | the frame: the call asked about or the batch, the warn table and intent count it read, the ring of a rotation |
| `ran`, `refused`, `issued`, `clean` | the agents' side, a bound, and whether Post hooks so far ran apart and did not fail |
| `doubled` | history: the lines a rotation left standing although its own text holds them |

`PreToolUse` is the pure part of `runCapturePreToolUse` (hydrate, detect, count);
then `readWarned` - `event` - `mark` - `reply`, each a statement or an answer.
`PostToolBatch` is `recordToolObservations`, followed by `stat` and either
`open` - `append` or `hydrate` - `truncate` - `rewrite` - `rename`, then
`enqueue`.  A descriptor opened before a rename writes to a file nobody reads;
two rotations share one temporary file, whose second open truncates the first.
Lines differ in length (`LineSize`: session, tool and the optional intent are in
them), so a text is its whole lines with their offsets and its size in bytes: an
append goes to the end, and a rewrite puts its bytes at offset 0 of whatever the
descriptor refers to (`Overwrite`).  Of a longer text the rest stays, a line cut
in two, which `hydrate` drops as corrupt, and the whole lines behind it
(`Standing`).  Those may repeat observations the shorter text holds: with two
overlapping rotations the cache *can* hold an observation twice, and the count
that blocks a search can exceed the searches there were.  `CacheIsObserved` and
`IntentCountHonest` except exactly these copies (`doubled`) and say that nothing
else invents or repeats a line.  `Detect` is `detectToolPattern` on argument keys.  `Mortal` and `Failing` say
where a hook may be killed and which calls may throw.  Argument sanitising is a
model value; calls that `observe-tools.ts:213-216` passes over before the queue (no
path, or one outside the workspace) are not among the write-like ones.

### Turns

The learning loop.  `log` is `analytics_events` in the order `readEvents` returns
it; `recall` is the frame of the recall of each query (`new` - `ranked` - `log` -
`shown`, or `failed`), `act` the frames of Stop hooks (or `afterRun`) and of
`record_reasoning_outcome`, `present` the items not erased, `aged` the events
older than the inference's lookback, `told` the queries reported resolved.

`Search` reads candidates; the reranker's await lies between it and `Finalize`,
which gates, draws the arm, builds the payload and appends the retrieval event;
`LogInjection` appends one event per shown item, then `Show` answers.  `Stop`
reads the oldest `MaxScored` events of each kind for its run and picks any of
the pairs they allow (which pairs match the transcript is text);  then one
`EmitUse` per pair, and for each query `CheckOutcome` and `EmitInferred`, two
statements with anything in between.  `Report` intersects what the agent names
with what was injected.  The aggregates of `analytics.ts` are the operators
`InjectedRuns`, `UsedRuns`, `HelpfulRuns`, `VerifiedRuns`.  A block's score, the
token budget and the match against the transcript are choices.

### FileIndex

`disk` is the workspace, `index` the version whose hash `indexed_files` holds,
`queue` the rows (path, kind) of `indexer_pending`, `due` edits whose
PostToolBatch hook is still to come, `walk` the frames.  A walk visits
directories, reads files until its budget is spent (`Cut`), writes them
(`Write`), and queues what it did not reach (`Requeue`); a drain walks queued
directories (`DrainDir`, `DropDir`) and then queued files (`TakeFile`,
`WriteFile`, `DropFile`).  Editors and hooks act between any two of these, and
calls fail: a directory that cannot be listed (`EnterFails`), an entry that
cannot be examined or read (`VisitFails`), a statement that throws out of
`indexWorkspace` (`StatementFails`, and `WriteFails` for the unique clash of two
processes), a queued file that cannot be read (`TakeFileFails`).  A drain
swallows each of them and drops the row that led there; a full walk drops none.
`incidents` bounds edits and failures together.

The code therefore loses files in several ways, and `lost` is the history of
them: an edit no hook sees; an edit while a process holds the file; and, for a
file whose row is not up to date, a drain that drops the row leading to it after
its walk was cut half-way, failed to list a directory or to read an entry, or
threw, or after the queued file could not be read.  `NothingElseForgotten` says
that every other file is indexed as it is, queued, waiting for its hook, refused
or gone, whatever interleaves or dies.

### DeviceLink

`approveDeviceSession` as the chain of statements it is: read the session,
expire it if late, ensure the user's workspace, issue a key, find or insert the
installation, update the session, answer; any may fail and two may interleave.
`PollSession` is one transaction that locks the row.  `cli` is what
`tracebase init` knows.  Sessions, keys, workspaces and installations are the
tables; the file-backed store is not modelled.

### KeyCustody

What linking promises about API keys, without statuses, polls, deadlines or
statements: a key is issued to an approval, stored in a session's row, delivered to
that session's CLI, or lost, and never goes back.  `DeviceLink!KeysMoveOneWay` is
its `Spec` under the mapping `holders` = who can read the key's plaintext: approve
requests between the INSERT of the key and the UPDATE of the session, rows whose
`issued_api_key_value` is set, linked CLIs.  The run `parts` checks it, and
`LinkingKeepsCustody` proves it.

### ProjectFacts, Migration

`ProjectFacts`: `LookUp` then `RestateFact` or `InsertFact`; `FindFact` then
`EraseFact`; `SweepExpiredFacts`.  A frame holds the row found; the table may
have moved on.  `Migration`: the number is read once (`ReadVersion`), then every
`RunStep` is one transaction that also writes the number it reaches; a step is
what it adds, what its rebuild drops, and whether running it twice throws
(`Bare`).  All versions from an empty file to 15 are initial states.

### ContextFold

`transcript` grows; a fold reads it (`ReadTranscript`), then the watermark
(`ReadWatermark`), and stores the chunks of its own copy (`RecordChunks`).
`Ranges` is `foldTurns`, as a recursive function: cut at the limits, leave a
short rest.  `Outgrow` is a transcript longer than the tail the hook reads, where
turn numbers shift; the property stops there, because the code does.

### Calibration

`fitIsotonic` pass by pass: `Pool` merges a violating pair and steps back,
`Advance` goes on.  Initial states are all sorted 0/1 samples up to the bound, with
ties in either order, as the stable sort leaves them.  `FitFollowsListOrder`
compares the result with the max-min formula of isotonic regression, over exact
fractions and over *places in the sorted list*, which is what the code computes.
It is not the isotonic regression of the scores when scores tie: a comment says
that ties are merged (`isotonic.ts:51`), but `(x, 0)` before `(x, 1)` stay two
breakpoints, since they do not violate the order, while the same pairs inserted
the other way round are pooled into one (see "Read, not run").
`BetterScoreServesBetter` takes `predictIsotonic` at every score and half score.

### GithubIngest

`feed` is the repository's listing order, `remote` the versions of its entries,
`stored` the rows of `tracebase_github_items`, `health` the integration's status,
`ingest` the frames.  `ListPage` is one request of `paginate`, of the whole listing
or of its pull requests (`Keep` of module `Lists`, what a WHERE clause leaves of an
ordered list).  `Touch` moves an entry to the top and those above it down; `Leave`, a
deletion or a transfer, moves the ones behind it up, so that one may pass from the
next page to one already read (`Slipped`).  `ListCutShort` is the early return of
`paginate` on a body that is no array: the listing ends as a success with the pages
it has.  `SelectItem` and
`WriteItem` are the two statements of `upsertGithubItem`, whose INSERT may meet
the unique index; `Secondary` is a request under the per-run budget whose
failure is swallowed.  `due` is history: the entries that an ingest still owes, those
there when it began, less the ones edited or deleted since, the ones that slipped,
and the ones behind the last page it reads (`Unread`); none if another request
overlaps it.  `QuietIngestCatchesUp` says that on success all of them are stored as
they are.

### TraceStore

`traces` is the table in the order of `created_at` (a deletion is a `Keep` of it), `vectors` the rows that have
embeddings, `pending` the table `pending_embeddings` (which a foreign key lets
follow a deletion), `keeper` the frames.

`StartStore` - `FindDuplicate` - `FetchDuplicate` - `InsertTrace` is `storeTrace`
up to its INSERT; `CountTraces` - `DeleteLowQuality` - `CountExcess` -
`DeleteOldest` - `CheckLimit` is `enforceLimit` around `TraceStore.prune`, and
`prune` of the CLI enters it in the middle.  `EmbedTrace` is the await of
`storeTraceAsync` with either of its endings, `ListPending` - `DrainNext` -
`Reembed` - `Dequeue` the drain after it.  Deletions, imports and deaths come
between any two.  Which scores are under the threshold is a choice; a
fingerprint belongs to a trace; the queue is shorter than one batch.  `back`,
`settled` and `loose` are history: traces restored from an export, traces a call
has returned, and whether an import or a death has left the table over its
limit since the last count.

### TraceFeedback

One trace and one bucket.  `events` holds its recalls and verdicts by time,
`expired` how many of them are older than the hour `resolveFeedbackContext` looks
back, `recalls` the counter in the trace's row, `learned` the update counts of the
bandit's two layers, `voter` the frames.  `VoteFor` and `Vote` are the two forms of
`feedback`, with what each reads to find its recall (`Exact`, `AlreadyCredited`;
`Open`, `LatestOpen`), `VoteBlindly` either of them when it finds none; then `ReadQuality` - `WriteQuality` - `LogVerdict` -
`LoadGlobal` - `LoadBucket` - `SaveGlobal` - `SaveBucket`, a statement each.
Resolving is one SELECT.  `raced` is history: two calls resolved
to one recall before either had logged.

### MC modules

`MCBlockStore` and `MCSyncCoordinator` give values and symmetry.
`MCToolSupervision` adds the two modules of v1 traces to the hooks, with which
they share no variable: a behaviour moves one of the three.  A fourth part, `rotations`,
follows the hooks by one more call, restricted to what two rotations over one text
need (`Rotations`).  `MCParts` holds the eight parts that share no variable here (Turns,
FileIndex, DeviceLink, ProjectFacts, Migration, ContextFold, Calibration,
GithubIngest): a behaviour chooses one and moves it, so that their state spaces
add up.  That is a device for checking, not a composition: the parts meet in
the code through tables that each module already owns (`Turns.present` stands
for what BlockStore and ProjectFacts erase; `ToolSupervision.queued` for what
`FileIndex.HookEnqueue` adds; `SyncCoordinator.recorded` for what Turns logs).

## Runs

Two clients, hooks or processes are what every race listed here needs (one
stale read, one step that invalidates it); a call that has returned can start
again, so sequences of any number of calls are explored within the bounds.
Processes, traces and ref ids are symmetric; block ids are not (they have keys).

| run | instance | distinct states, time with 2 workers | shows |
|---|---|---|---|
| `one_process` | 2 calls, 2 blocks competing for one trigger, 2 traces, 4 refs, all operations, one thread with awaits | 753 k, 40 s | `TypeOK`, `ActiveJustified`, `OneBlockPerTrigger`, `ImplementsCatalog` |
| `processes` | 2 processes, 4 blocks (two for one trigger, a pitfall, a primer), 2 traces, 2 refs, the operations with callers in `src/src`, kills | 1.0 M, 30 s | `AlwaysJustified`, `PitfallNotServed`, `OriginFollows`, `ErasureIsFinal` |
| `library` | 2 processes, 2 blocks, 1 trace, 2 refs, all operations, any of them killed | 4.5 M, 100 s | `NoDanglingRef`, `EvidenceKept` |
| `sync` | 6 backoff attempts as in the code, 3 marks, 2 flushes | 185 k, 30 s | `OneAttempt`, `NeverForgotten`, `RetriesEnd`, `Delivered` |
| `hooks` | 2 hooks, 2 sessions, 4 calls, two searches of one intent and an edit, lines of two lengths, deaths and failures; rotations of 5 calls; v1 traces, below | 4.7 M, 120 s | `HooksTypeOK`, `CacheIsObserved`, `IntentCountHonest`, `CacheIsTail`, `SavingsAreReal`, `WritesQueued`, `NoEmbeddingForgotten`, `LimitAtRest`, `LearnsOncePerRecall` |
| `parts` | eight parts, below | 2.0 M, 170 s | 17 properties |

`parts`, part by part (states): **turns** (634 k) one query with or without a
run id, a block and a fact, two actors, five events, one of which may leave the
lookback; **files** (512 k) a file in a directory in the root, two processes, a
budget of one, one edit or one call that throws, a version the gates refuse; **link** (225 k) two
sessions, two users, two approvals, two keys; **facts** (1 k) one key, two
processes, three rows; **schema** (26 k) two openers, every version to start
from; **fold** (135 k) four turns, one of which a scanner refuses, two folders;
**fit** (20 k) every 0/1 sample of up to six pairs over three scores;
**ingest** (436 k) an issue and a pull request with two versions each, deletions, pages of
one entry, two requests.

`hooks`, besides the hooks (3.2 M): **rotations** (229 k) five calls of one session, no
deaths; **traces** (716 k) two processes, two
different traces, a table of one; **votes** (0.5 M) two voters, two recalls,
four events.  The types of the coordinator and the narrowing funnel of the event
log (`FunnelNarrows`), the budget of the retries (`WindsDown`) and the end of the
pooling loop (`PoolingEnds`) have no run because they are proved (`Typed`,
`FunnelAlwaysNarrows`, `RetriesDrawOnBudget`, `PoolingTerminates`).

The bounds are small, and each is large enough for its case: `Ring` 3 and
`MaxDisk` 1 make the second batch rotate the cache (4096 records and 2 MiB in the
code); one search has a line three times as long as the others, and five calls
are what it takes to leave a line standing behind its own copy: two batches over
one old text, the longer one by a line; `BlockAt` 1 (3 in the code) lets two searches block a third; `TurnLimit` 3
cuts four turns in two; a listing of two entries on pages of one has a page
border, and a `Budget` of 1 is spent by one of the three secondary requests of a pull; `MaxTraces` 1 makes the second trace an excess, and a `ReadLimit` of 4
events (5000 in the code) is the page that a voter sees.  That every mutant in `PROJECT.json` is caught within these bounds is
the evidence that they are not too small.  `MaxBackoff` is the code's value.

What is *not* true, each shown by a run that ends in a counterexample, and each
a disagreement with a comment or a document of the repository:

* `terminal` - **merged and retired are not terminal.**  `updateBlockStatus`
  never looks at the status it leaves; its comment says it does not transition
  out of them.  Store a pattern, retire it, promote it: it is served again.
* `sweep_cut_short` - **the orphan sweep can end early.**  When one trace is
  both origin and supporting evidence of a block (a report retried with the same
  queryId does that), the second `role = 'orphan'` meets the unique index, the
  exception leaves the loop, and later refs keep their role.
* `racing_inserts` - **two processes can store one trigger twice.**  The lookup
  and the INSERT of `storeBlock` are two statements and no unique index backs
  them.  In one process it holds (`one_process`), because no await lies between.
* `mark_during_send` - **a change marked while a push is in flight is
  forgotten** when that push succeeds: `dirty = false` does not ask whether it
  was set again.  `Delivered`, in `sync`, is what remains true: a change
  marked while no attempt runs.
* `unbound_project` - **one attempt without a project disables the
  coordinator.**  The settled promise stays in `inFlight`, and every later
  `runSync` takes the coalescing return.  `NeverForgotten` and `Delivered`
  excuse this state by name (`Wedged`).
* `half_walked` - **a queued directory whose walk is cut loses its rest.**  The
  walker hands the directory back under the name of the row that is still in
  the queue, `INSERT OR IGNORE` ignores it, and the row is dropped.

`CHECK_DEADLOCK FALSE` appears where the system really may stop: a closed
coordinator, hooks that are dead or out of calls, parts at their bound.
BlockStore is checked for deadlock.

Some properties hold only where they are checked, on purpose:

* `ActiveJustified` (with counter evidence, detaches, sweeps and merges) is a
  one-process property, at rest.  Across processes `attachCaseRef` decides on
  the demotion from a status it read before its transaction, so a promotion in
  between leaves an active block with counter evidence.  No code in `src/src`
  attaches counter refs, detaches, merges or sweeps; they are the public API.
* `AlwaysJustified` is the stronger form, in every state and across processes,
  for the operations that do have callers.
* `OriginFollows` allows kills only for the operations in `Quick`.  The two
  lanes of the pipeline and the primer insert, attach and promote in separate
  transactions: killed after the insert, they leave a candidate without an
  origin that takes its trigger for good, since later reports only support it.
  `storeReasoningPattern` wraps the same steps in one transaction for exactly
  this reason (its own comment), and the mutant of this property removes it.
* `CacheIsTail` speaks of Post hooks that run apart and do not fail: overlapping
  rotations do lose lines.  `CacheIsObserved` and `IntentCountHonest` have no such
  condition, but except the copies in `doubled`.  Without that exception TLC finds
  `CacheIsObserved` violated in five calls; a count that exceeds the searches
  of the table needs a larger ring than TLC reaches, and is excepted because the
  theorem is not true without it.
* `NothingElseForgotten` names the ways in which the code loses a file.  With one
  incident per behaviour, an edit *and* a failing call together are covered by the
  theorem only.
* `FitFollowsListOrder` speaks of places in the sorted list, not of scores.
* `KeysMoveOneWay` does not say that a key arrives: an approval that fails, a second
  approval of the same session and a lost answer to a poll each lose one.
* `OverridesOnlyRacers` is what is left of "an explicit outcome wins": one that
  arrives between the lookup and the append is overridden.
* `SchemaIsWhole` speaks of openers that take turns, of empty files, and of
  files of version 7 and above; `NoTurnFallsBetween` of transcripts that fit
  the tail; `QuietIngestCatchesUp` of an ingest no other
  overlaps, and not of entries its listings passed over.
* `NoEmbeddingForgotten` excepts traces deleted and restored from an export,
  which come back without vectors.  `LimitAtRest` excepts the time from an import,
  or a death before the trim, to the next count.  `LearnsOncePerRecall` excepts
  two calls that both look before either logs, and a log longer than the page
  that is read.

## Fairness

Only the sync coordinator has liveness properties.  `SyncCoordinator!FairSpec`
assumes weak fairness of each timer (the event loop runs: timers are `unref`ed,
so this speaks of a process that stays alive) and of the continuation of each
attempt (`buildInput` is local; `fetch` settles by its own timeouts, and
`pushSampleToCloud` turns every exception into a failed result).  Nothing is
assumed of callers, of the project being bound, or of the network delivering
anything: `Lose` and `Receive` have no fairness, so `Delivered` has to go
through the retries and is excused when they give up.  `RetriesEnd` needs the
bound on marks and flushes, which is its hypothesis "once calls stop"; why they end
is the action property `WindsDown` (see Proofs), to which fairness only adds that
what can run does.
Everything else is safety: hooks, requests and commands may die at any step, so
nothing would have to happen.

## Proofs

Every theorem holds for any number of processes, blocks, queries, files and so
on; the assumptions are the named ones of each module, on its constants.

**BlockStoreProofs** (both regimes, any `Killable`):

1. `TypeCorrect`: `Spec => []TypeOK`.  Inductive invariant `Typed`: `TypeOK`
   and, in every frame, a statement about a block has a block and one that will
   cite a trace has a trace (`WellFormed`), or `status'` could be updated at a
   sentinel.
2. `RefsHaveBlocks` (`NoDanglingRef`) and `ErasedForGood` (`ErasureIsFinal`).
   Inductive invariant `Catalogued` = `Typed`, `DraftsFresh` (a draft's id is not
   in the table yet and belongs to one call), `NamedOnce` (any other block a call
   names was in the table once) and `NoDanglingRef`.  They are needed because an
   INSERT is the only statement that could bring a row back; `EntersMoves` and
   `RunsMoves` say of each action which rows and refs it can move, and the rest
   follows from those two lemmas.
3. `PitfallsStayUnserved` (`PitfallNotServed`), **if "promote" is not in `Ops`**,
   that is, no caller promotes by hand.  The invariant `PitfallsHeld` adds that a
   frame that would write "active" does not name a pitfall.
4. `ServedIsJustified` (`AlwaysJustified`), **if no operation of `Contesting`
   (counter, merge, detach, sweep) is in `Ops`**, which is what `src/src` runs.
   The invariant `Uncontested` says there are no counter refs, an active block
   has an origin, and a frame past its origin check names a block that has an
   origin or is gone: the check stays true until the UPDATE because refs only
   leave with their block.

**CatalogProofs** (extends BlockStoreProofs):

1. `EvidenceSurvives` (`EvidenceKept`), with any processes that die anywhere: a
   step that removes a ref is a deletion of its block, a detach, or a merge,
   which cites the trace for a block of the same trigger (`Merges`: a call about
   to merge names two different blocks of one trigger).
2. `TriggersUnique` (`OneBlockPerTrigger`), `ServedAtRest` (`ActiveJustified`) and
   `StoreIsShelf` (`ImplementsCatalog`), **if `OneProcess`**: the store is
   synchronous, so within one process nothing runs between two statements of a
   call except at an await.  The invariant `Single` says that a call which does
   not rest is alone, and that what it has found is still so (`Sound`).  The last
   two also assume `Spared`: detaches and sweeps are not killed in the
   middle.  That is the case the run `sweep_cut_short` refutes, and no other
   operation needs sparing.  `StoreIsShelf` is step simulation: each statement
   moves one block's tables at most, and what a reader sees of it by one step of
   `Catalog` or not at all (`ShelfMoves`).
3. `OriginsFollow` (`OriginFollows`), **if no merge, detach or sweep is in `Ops`
   and the lanes that draft blocks are not killed**: a row without an origin ref
   has a call on its way to cite one (`Followed`).

**SyncProofs** (any `MaxBackoff` > 0, any bounds, any set of attempts): `Typed`,
`Coalesced` (`OneAttempt`), `Remembered` (`NeverForgotten`) of the sync
coordinator.  The conjunction of the three is inductive: that two attempts never
run needs `inFlight`, that nothing is forgotten needs that no attempt runs when
`inFlight` is null.  `RetriesDrawOnBudget` (`WindsDown`) is why retries end, and is not
obvious, since a failed attempt sets a timer, the timer may be one whose handle was
overwritten (`stray`), and a success sets the count back to zero.  The budget is
`(3 MaxBackoff + 2)` for each live timer, what the attempt that runs has left, and 3
for each step of the backoff not yet taken.  A timer that fires pays for the attempt it
starts (`TimerIsWorth`, `FirePays`), a retry pays for its timer with a step of the backoff
(`Pays`), and a settled attempt sets no timer, so what it had left covers the steps
it gives back (`SettlePays`).  Only `MarkDirty` and `Flush` add to it.

**ToolSupervisionProofs** (a finite set of hooks; any `Mortal`, `Failing`):
`SupervisionTyped`, `CreditIsEarned` (`SavingsAreReal`), `WritesAreQueued`
(`WritesQueued`).  Inductive invariant `SupervisionInv`: `TypeOK`, `PreFramed` (a
hook that answers a call holds that call) and `TmpOpen` (a descriptor for the
temporary file exists only as long as the file: or a rewrite would append to
`NoFile`).  The savings need a cardinality argument: a step moves one hook in or
out of the set that is owed an answer, and credit or refusals with it.  Then the
warm cache, over one lemma (`CacheSteps`) that sorts the steps by what they do to
it:

* `CacheStaysTail` (`CacheIsTail`) from `TurnsTaken`: while Post hooks take turns, at
  most one is at the cache, and what it holds, the file with its batch or the
  temporary file ends like the table.  `LastNOfLast` says that a ring loaded from
  the end of a file and filled with a batch is the end of both.
* `CacheHoldsObserved` (`CacheIsObserved`) from `LinesCounted`: of *any set* of
  observations each text and each ring has at most as many lines as the table, with
  the copies left standing, less what batches on their way to the cache still hold
  (`Within`, `Due`).  An append moves lines from the batch to a text, a ring only drops
  some, and a rewrite is taken value by value (`WithinOverwrite`): of an observation its
  own text holds, the lines that stay behind are in `doubled`; of any other, only
  lines stay that were there before.  Nothing is assumed of the lengths of lines.
* `IntentsAreCounted` (`IntentCountHonest`): the count is `LinesCounted` for the set of
  searches of one intent and session; rows and `doubled` only grow (`TriedGrows`).

The module ends with `HooksTyped` (`HooksTypeOK`) and `HooksKeepTheirPromises`: every
behaviour of `HooksSpec`, the hooks next to the v1 traces, is a behaviour of each of
the three (`EachMovesAlone`), so what is proved of each holds of the composition TLC
runs, for any constants.

**TurnsProofs**: the seven properties of the loop from one inductive invariant
`TurnsInv`: `LogTrue` (each event agrees with the recall of its query and rests
on earlier events), `RecalledOnce`, `RecallsTrue` and `FramesTrue` (what a frame
is about to append will be true when it does).  The log only grows, so a fact
about it, once true, stays (`LogGrows`, `FitsKept`, `FrameKept`); each append
then shows that its one new event fits.

Then the calibrator, for any number of pairs and any scores, over the order of
fractions (`LeqTrans` and what `Plus`, `Minus`, `Times`, `Over` do to it):

* `BetterIsServedBetter` (`BetterScoreServesBetter`): blocks always ascend in their
  scores, and up to the loop's index in their values (`Ascends`); between two
  neighbours the interpolation stays between their values and rises
  (`InterpolatedBetween`, `InterpolatedUp`); a better score lies between later ones.
* `FitFollowsTheList` (`FitFollowsListOrder`): what has to be known of a block besides
  its mean is that no beginning of it has a lower one (`Stretch`), which pooling
  keeps because the left block had the higher value (`StretchesMerge`).  At the end the
  running total, measured from the value of a block, only rises over the blocks
  after it and only falls over those before (`RisesFrom`, `FallsTo`), so no stretch
  that begins with the block is below its value and none that ends with it above.
* `PoolingTerminates` (`PoolingEnds`): a merge takes a block off the list and goes back
  by at most one, an advance goes on by one, so each pass takes one from `PassesLeft`.

**ListProofs** has what the others need of `Keep`: its entries, their order, and
how many stand before a given one (`Rank`, `Overtaken`).  The library's induction
theorems take an operator as a parameter, so these lemmas argue over *sets* of
numbers instead: the set of lengths at which a claim fails has no least element
(`LeastOfNat`).

**TraceProofs**: `LimitHoldsAtRest` (`LimitAtRest`) from `LimitInv`: while the table
is over its limit and nobody lost track of it, some call has still to count or is
about to trim enough.  `EmbeddingsNotForgotten` (`NoEmbeddingForgotten`) from
`EmbeddingsInv`: what each call that embeds, lists or dequeues owes.  `LearnsOnce`
(`LearnsOncePerRecall`) from `VotesInv`: verdicts come after their recalls
(`InOrder`); unless calls raced or the log outgrew its page, no two calls judge
one recall and a recall being judged has no verdict yet (`Judged`); and every
posterior, and every copy of one that a call carries, is behind the clear verdicts
by as many as have still to be written (`Behind`), a cardinality argument.

**PartsProofs**: `ErasureIsAudited` and `ExpiryIsFinal` from `FactsInv` (no two
keys share an id, no id is ahead of the counter, a frame's id belongs to its
key); `SchemaStaysWhole` from `SchemaInv`, with one invariant for each of the
three histories the property speaks of; `NothingForgotten`
(`NothingElseForgotten`) from `IndexInv`: what each walk and drain has taken off the
queue or not reached yet is accounted for in its frame.  The directories are any
finite tree; the assumption gives it a depth function, because that a walk's
requeued directories cover every file below them is an induction over depth.
The calls that throw add nothing to the argument: what they leave aside goes to `lost`
as far as its rows are not up to date.
`IngestCatchesUp` (`QuietIngestCatchesUp`) from `IngestInv`: an entry that is still
owed is stored as it is, held in the pages read, or beyond them.  An edit between
two pages only moves such an entry down, which `Overtaken` shows by counting what
stands before it; a deletion moves it up by one, so that the only entry that can
pass the border is the one right behind it, which `Slipped` takes off what is owed
(`LeaveKeeps`).  `NoTurnIsLost` (`NoTurnFallsBetween`) from `FoldInv`: the buffers
of `foldTurns` follow each other without a gap from the watermark on (`RangesAre`), a
frame's turns are the first of the session's and its watermark is one some chunk
gave; so a chunk that moves the watermark brings every turn in between with it
(`FoldTells`), and what was told of earlier turns stays told (`ToldStays`).

Of device linking, `LinksFit` and `KeysHandedOutOnce` from `LinkInv`: a key travels with
its workspace and installation from the approval over the session's row to the CLI
(`Paired`), and is in one place on that way (`OneHolder`).  `LinkingKeepsCustody`
(`KeysMoveOneWay`) is the refinement of `KeyCustody`: from `LinkInv` a key that an
approval carries or a row holds has no other holder (`ApprovalAlone`, `RowAlone`), so
each of the thirteen actions either moves one key a step along its way (`IssueMoves`,
`ApproveMoves`, `PollMoves`), loses one (`ApprovalEnds`), or is a stutter (`KeysStay`).
An approval that meets a row with an earlier key, as after a second approval or on a
revived session, loses that key and is still one step of `Store`.

At the end the parts stand side by side: `EachPartMovesAlone` shows that every
behaviour of `PartsSpec` is a behaviour of each part, and `PartsTyped` (`PartsTypeOK`)
and `PartsKeepTheirPromises` conclude the types and all properties of the run `parts`
for any constants, assuming only that `Moving` names parts that exist.

What stays with TLC:

* Liveness (`RetriesEnd`, `Delivered`), which is out of the prover's reach.  Of
  `RetriesEnd` the argument is proved (`RetriesDrawOnBudget`); what is left is that
  fairness and a falling natural number lead to rest.
* What the recursive sums of the model compute for every input, since no induction
  over data is available.  `UptoIs`, `MeanIs` and `StartsAre` prove what the
  properties need of them, by the least element at which it would fail.

Every safety and action property of a passing run is stated by a theorem.  The
properties that end in a counterexample have none, except `OneBlockPerTrigger`, which
is proved for one process and refuted for two.

## Read, not run

Behaviour met while modelling that differs from a comment or from what a reader
would expect, and that has no run of its own:

* *Warm cache.*  "A crash mid-rewrite leaves the previous file intact"
  (`recent-tool-cache.ts:230-234`) speaks of one process: two rotations open one
  temporary name, and one may rename it while the other has still to write, which
  then writes into the live cache, or leaves the end of a longer text standing.
* *Supervision.*  `detectDuplicate` flags any duplicate in the window, so a read
  that never ran is told its result is already there
  (`src/src/cli/commands/capture-pre-tool-use.ts:362-364`).  The fourth rephrasing
  of a search is not blocked while its arguments differ (line 279 returns
  first).  Escalation can block before a hint was delivered.
* *Serving and credit.*  An item erased during the reranker's await is still
  injected.  The inference reads the oldest 64 injections of its window, not
  the newest.  The comment on `setCalibrator` (`block-serving.ts:433-440`) and
  `finalizeRecall`, which reads `this.calibrator` after the await, disagree.  Two
  servers that refit may leave the older fit last.
* *Sync coordinator.*  A cap timer that fires into an early return of `runSync` (an
  attempt in flight, or nothing dirty any more) leaves its handle non-null, so
  `scheduleCap` never arms it again until an attempt starts; the comments say "cap fires
  once per dirty cycle" (`sync-coordinator.ts:187`) and "Cap window stays armed" (line 285).
  The model has the dead handle (`cap = "fired"`) but no clock, so the debounce that always
  comes later than the next mark cannot be told from one that fires.
* *SDK runtime.*  `ensureSalt` keeps the first project's salt; switching project
  or `close` can close a store under a pending recall; a `beforeRun` that
  straddles `close` makes a new coordinator (`runtime.ts:156`).  The payload covers
  the UTC day at the moment of sending (`sync-coordinator.ts:363`).
* *File index.*  "Whether the sub-walk succeeded or not, drop this dir from the
  queue" (`file-indexer.ts:706`): after a unique clash of two processes, a busy
  database, a directory that cannot be listed (`file-walker.ts:222`) or a file that
  cannot be read (`file-walker.ts:287`, `file-indexer.ts:387`) nothing leads there any
  more until the next full walk.  A file that is deleted or becomes refused keeps
  its old row.
* *Calibration.*  "ties in x are merged within PAVA's weighted-average step"
  (`isotonic.ts:51`): only a descending pair is.  `(x, 0)` and `(x, 1)` in this order
  stay two breakpoints at one `x`, in the other order they become one of value 1/2; so
  the fit of a sample with ties depends on the order in which it was inserted.
* *Schema.*  Two processes that migrate a file below version 7 together can
  leave it at a number whose columns are missing, or that no step can leave;
  `getSchemaVersion` takes any read error for an empty file.
* *Facts.*  `storeFact` never moves a deadline; `verifyFact`, `updateFactStatus`
  and `deleteFact` have no callers; two concurrent erasures write two audit rows.
* *Context fold.*  Beyond the transcript tail turns are renumbered against the
  stored watermark; nothing reads the deadline of a chunk.
* *Erasure.*  `hardDeleteBlock` looks the row up before its transaction, so two
  processes that erase one block write two tombstones, against its comment
  (`block-store.ts:1730`).
* *v1 traces.*  `deleteOldest` removes the oldest traces, recalled or not, while
  the comments say "un-recalled" (`store.ts:699`, `711`).  Two processes can trim one
  excess twice, even the trace just returned; an insert between another's trim
  and its last count makes `storeTrace` throw although its row is there.
  `storeTraceAsync` on a duplicate overwrites the older trace's vectors with those of
  the new input.  The queue's comment says `doctor --fix` forces a drain
  (`store.ts:172`); nothing there calls one.
* *v1 feedback.*  The comment before the update says both layers are written
  atomically; they are two INSERT OR REPLACE statements, and a death between them,
  or another process, leaves them apart.  A guess among several open recalls is
  attached to the latest one and not learned from, "better to under-attribute than
  to mis-attribute" (`engine.ts:457-460`); but the next guess then sees one fewer,
  and once one is left credits the older recall, and a later vote that names the
  first recall is refused.  `loadWeightState` returns a shallow copy of its default,
  whose posteriors an update then changes in place (`weights.ts:80`).
* *Control plane.*  The UPDATE that approves a session has no condition: it can
  revive a consumed or expired one, and leaves keys nobody holds; a lost
  answer to a poll loses the key.  In the ingest, an UPDATE whose file lookup was
  skipped or failed writes an empty `linkedFiles` over the stored one, though the
  header says a re-run does not lose fields (`github-ingest.ts:10-13`);
  overlapping ingests may write the older listing last; connecting the
  repository again clears an error without an ingest.  In the governance
  rules a rollback counts a "used" event as a transition, so that the rollback
  the seed script announces restores nothing (`engineering-brain.ts:841-933`).

## Not modelled, and why

Text (situations, prompts, fingerprints, guards, redaction, rendering) is data
the properties do not look at.  The contextual bandit, similarity and health
scores are real-valued arithmetic out of TLC's reach; the decisions taken on
them appear as choices.  Governance, agents and runs of the Engineering Brain,
the rate limiter and the waiting list are single statements or reductions
inside one request; the file-backed control-plane store is for development.
Of the v1 trace engine, similarity, ranking, text search and the sampling of
weights are left out; BlockStore sees only the set of traces that exist.  MCP and
HTTP dispatch, middleware, installers, doctor and configuration commands parse,
forward or edit files once.  `eval/`, `demo-tasks/`, `bench-results/`, pages and
charts are not the running system.  By lines these are most of the repository,
which is why the map covers a small share of it.

A clock is missing on purpose: the cap timer that does not fire under a stream
of marks, and the UTC-day window, need real time (they are listed as hazards
or above).

## Plan

1. Every safety and action property the passing runs check is proved.  Next, that
   `OneAttempt` and `NeverForgotten` survive a host that builds several coordinators
   on one project, which needs a model of two; and an abstract specification of the
   learning loop (what an item may be credited with) that `Turns` implements, as
   `Catalog` and `KeyCustody` are for the store and for linking.
2. Governance transitions of the Engineering Brain, with `upsert`, `rollback`
   and delete as actions, the SDK runtime's `close` against
   pending calls, and the installers that edit one settings file
   (`install-targets.ts`, `hook-self-heal.ts`).
