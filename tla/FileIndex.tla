------------------------------ MODULE FileIndex ------------------------------
(***************************************************************************)
(* The file memory of a project: the table indexed_files, the queue        *)
(* indexer_pending, the budgeted walk that fills both, and the slices that *)
(* drain the queue after a recall.                                         *)
(*                                                                         *)
(* Several processes share the tables.  A walk is synchronous in its own   *)
(* process, yet every file it reads and every statement it runs is a step, *)
(* since an editor and the hooks of an agent run beside it.                *)
(***************************************************************************)
EXTENDS Naturals, FiniteSets, Sequences

CONSTANTS
    File, Dir,     \* the paths of the workspace
    Root,          \* the project root, a directory
    Parent,        \* the directory of each other path
    Version,       \* what a file may hold
    Refused,       \* versions the suffix, size and privacy gates refuse
    Gone,          \* no such file, or no such row
    Walker,        \* processes that index or drain
    SliceFiles,    \* file budget of a walk
    MaxIncidents   \* bound: edits of the workspace, and calls that throw

ASSUME FileIndexAssumption ==
    /\ Root \in Dir /\ IsFiniteSet(Dir) /\ File \cap Dir = {}
    /\ Parent \in [(File \cup Dir) \ {Root} -> Dir]
    /\ \E depth \in [File \cup Dir -> 0 .. Cardinality(Dir)] :    \* a tree
           \A x \in DOMAIN Parent : depth[x] = depth[Parent[x]] + 1
    /\ Refused \subseteq Version /\ Gone \notin Version \cup File \cup Dir
    /\ SliceFiles \in Nat /\ MaxIncidents \in Nat

VARIABLES
    disk,    \* the workspace
    index,   \* indexed_files: the version whose hash the row holds
    queue,   \* indexer_pending: a set of (path, kind), its primary key
    due,     \* files edited by a tool whose PostToolBatch hook is still to come
    walk,    \* the frame of each process
    incidents,   \* edits, and calls that threw
    lost     \* history: files something happened to that the queue cannot see

indexVars == <<disk, index, queue, due, walk, incidents, lost>>

Maybe == Version \cup {Gone}
FileRow(f) == <<f, "file">>
DirRow(d) == <<d, "dir">>
Row == (File \X {"file"}) \cup (Dir \X {"dir"})

Children(d) == {x \in DOMAIN Parent : Parent[x] = d}

\* A path lies at most as deep as there are directories
FilesBelow(d) ==
    LET down[n \in 0 .. Cardinality(Dir)] ==
            IF n = 0 THEN {d} ELSE down[n - 1] \cup UNION {Children(e) : e \in down[n - 1] \cap Dir}
    IN  down[Cardinality(Dir)] \cap File

\* Some row of the queue leads to the file
Queued(f) == FileRow(f) \in queue \/ \E d \in Dir : DirRow(d) \in queue /\ f \in FilesBelow(d)

WalkLabel == {"idle", "walk", "persist", "write", "unqueue", "enqueue", "dirs", "drop",
              "files", "write1", "drop1"}
\* from: the directory row being drained, or Gone in a full walk; dirs and
\* rows: what the slice has fetched; todo, cur, entries: the walk; read: what
\* it has read; again: what it will queue; at, old: the file being persisted
\* and the row found for it
NoWalk == [pc |-> "idle", from |-> Gone, dirs |-> {}, rows |-> {}, todo |-> << >>,
           cur |-> Root, entries |-> {}, read |-> << >>, again |-> {}, at |-> Gone,
           ver |-> Gone, old |-> Gone]

Set(p, frame) == walk' = [walk EXCEPT ![p] = frame]
Fr(p) == walk[p]

\* Read, but its row not yet settled: an edit now may be written over or its
\* row dropped with the old one
Names(read) == {read[i].file : i \in DOMAIN read}
Held(f) == \E p \in Walker : f \in Names(Fr(p).read) \cup {Fr(p).at}

\* An edit, or a call that throws: no permission, a device in trouble, a busy
\* database
Incident == incidents < MaxIncidents /\ incidents' = incidents + 1

\* Of what a walk leaves aside, the files whose rows are not up to date.  A
\* drain will drop the row that led to them; a full walk drops none.
Abandoned(p, files) ==
    IF Fr(p).from = Gone THEN {} ELSE {f \in files : index[f] # disk[f]}

-----------------------------------------------------------------------------
(* The workspace *)

\* An agent's write-like tool; the hook comes later
ToolEdit(f, v) ==
    /\ Incident
    /\ disk[f] # v /\ disk' = [disk EXCEPT ![f] = v]
    /\ due' = due \cup {f}
    /\ lost' = IF Held(f) THEN lost \cup {f} ELSE lost
    /\ UNCHANGED <<index, queue, walk>>

\* PostToolBatch: enqueuePending, INSERT OR IGNORE
HookEnqueue(f) ==
    /\ f \in due /\ due' = due \ {f}
    /\ queue' = queue \cup {FileRow(f)}
    /\ UNCHANGED <<disk, index, walk, incidents, lost>>

\* An edit no hook sees, or a deletion: nothing queues it
OtherEdit(f, v) ==
    /\ Incident
    /\ disk[f] # v /\ disk' = [disk EXCEPT ![f] = v]
    /\ lost' = lost \cup {f}
    /\ UNCHANGED <<index, queue, due, walk>>

-----------------------------------------------------------------------------
(* walkWorkspace *)

Begin(p, from) ==
    Set(p, [Fr(p) EXCEPT !.pc = "walk", !.from = from, !.entries = {}, !.read = << >>,
                         !.again = {}, !.todo = <<IF from = Gone THEN Root ELSE from>>])

\* indexWorkspace of tracebase init or of the SDK
FullWalk(p) ==
    /\ Fr(p).pc = "idle"
    /\ Begin(p, Gone)
    /\ UNCHANGED <<disk, index, queue, due, incidents, lost>>

Within(p) == Len(Fr(p).read) < SliceFiles

Enter(p) ==
    /\ Fr(p).pc = "walk" /\ Fr(p).entries = {} /\ Fr(p).todo # << >> /\ Within(p)
    /\ Set(p, [Fr(p) EXCEPT !.cur = Head(Fr(p).todo), !.todo = Tail(@),
                            !.entries = Children(Head(Fr(p).todo))])
    /\ UNCHANGED <<disk, index, queue, due, incidents, lost>>

\* readdirSync throws: the directory is passed over, and nothing queues it
EnterFails(p) ==
    /\ Fr(p).pc = "walk" /\ Fr(p).entries = {} /\ Fr(p).todo # << >> /\ Within(p)
    /\ Incident
    /\ lost' = lost \cup Abandoned(p, FilesBelow(Head(Fr(p).todo)))
    /\ Set(p, [Fr(p) EXCEPT !.todo = Tail(@)])
    /\ UNCHANGED <<disk, index, queue, due>>

\* Entries are visited in a fixed order
Next1(entries) == CHOOSE x \in entries : TRUE

\* An entry: a directory joins the BFS queue, a file is read; one that has
\* vanished is passed over
Visit(p) ==
    /\ Fr(p).pc = "walk" /\ Fr(p).entries # {} /\ Within(p)
    /\ LET x == Next1(Fr(p).entries)
           rest == [Fr(p) EXCEPT !.entries = @ \ {x}]
       IN  Set(p, CASE x \in Dir -> [rest EXCEPT !.todo = Append(@, x)]
                    [] x \in File /\ disk[x] = Gone -> rest
                    [] x \in File /\ disk[x] # Gone ->
                           [rest EXCEPT !.read = Append(@, [file |-> x, ver |-> disk[x]])])
    /\ UNCHANGED <<disk, index, queue, due, incidents, lost>>

\* statSync of an entry throws, or readFileSync of a file: it is passed over
VisitFails(p) ==
    /\ Fr(p).pc = "walk" /\ Fr(p).entries # {} /\ Within(p)
    /\ Incident
    /\ LET x == Next1(Fr(p).entries)
       IN  /\ lost' = lost \cup Abandoned(p, IF x \in Dir THEN FilesBelow(x) ELSE {x})
           /\ Set(p, [Fr(p) EXCEPT !.entries = @ \ {x}])
    /\ UNCHANGED <<disk, index, queue, due>>

\* A file beyond the byte budget is queued unread
Overweight(p) ==
    /\ Fr(p).pc = "walk" /\ Within(p) /\ Fr(p).entries # {}
    /\ LET x == Next1(Fr(p).entries)
       IN  /\ x \in File
           /\ Set(p, [Fr(p) EXCEPT !.entries = @ \ {x}, !.again = @ \cup {FileRow(x)}])
    /\ UNCHANGED <<disk, index, queue, due, incidents, lost>>

\* The budget (time, bytes or files) runs out: the half-walked directory and
\* those not entered are to be queued (mutant: the half-walked one is not).
\* The row of the directory being drained is still there, so that queueing it
\* again will be ignored.
NotEntered(p) == {Fr(p).todo[i] : i \in DOMAIN Fr(p).todo}
Remaining(p) ==
    {Fr(p).todo[i] : i \in DOMAIN Fr(p).todo}
        \cup (IF Fr(p).entries = {} THEN {} ELSE {Fr(p).cur})

Cut(p) ==
    /\ Fr(p).pc = "walk" /\ Remaining(p) # {}
    /\ Set(p, [Fr(p) EXCEPT !.pc = "persist", !.todo = << >>, !.entries = {}, !.cur = Root,
                            !.again = @ \cup {DirRow(d) : d \in Remaining(p)}])
    /\ lost' = IF Fr(p).from \in Remaining(p)
               THEN lost \cup Abandoned(p, FilesBelow(Fr(p).from) \ Names(Fr(p).read))
               ELSE lost
    /\ UNCHANGED <<disk, index, queue, due, incidents>>

Walked(p) ==
    /\ Fr(p).pc = "walk" /\ Remaining(p) = {}
    /\ Set(p, [Fr(p) EXCEPT !.pc = "persist", !.cur = Root])
    /\ UNCHANGED <<disk, index, queue, due, incidents, lost>>

-----------------------------------------------------------------------------
(* persistFile *)

\* The row found and the version read
Take(p) ==
    /\ Fr(p).pc = "persist" /\ Fr(p).read # << >>
    /\ LET next == Head(Fr(p).read)
       IN  Set(p, [Fr(p) EXCEPT !.pc = "write", !.at = next.file, !.ver = next.ver,
                                !.old = index[next.file], !.read = Tail(@)])
    /\ UNCHANGED <<disk, index, queue, due, incidents, lost>>

\* INSERT OR UPDATE by the row found: an insert fails if another process has
\* inserted meanwhile
Upserted(p) ==
    /\ Fr(p).old # Gone \/ index[Fr(p).at] = Gone
    /\ index' = [index EXCEPT ![Fr(p).at] = Fr(p).ver]
Clashes(p) == Fr(p).old = Gone /\ index[Fr(p).at] # Gone

\* Same hash: nothing to do, and the queue is not touched.  A refused version
\* leaves the old row (mutant: it is not refused).
PassedUngated(p) == Fr(p).ver = Fr(p).old
Passed(p) == Fr(p).ver = Fr(p).old \/ Fr(p).ver \in Refused

Settled(p, pc) == [Fr(p) EXCEPT !.pc = pc, !.at = Gone, !.ver = Gone, !.old = Gone]

SkipWrite(p) ==
    /\ Fr(p).pc = "write" /\ Passed(p)
    /\ Set(p, Settled(p, "persist"))
    /\ UNCHANGED <<disk, index, queue, due, incidents, lost>>

Write(p) ==
    /\ Fr(p).pc = "write" /\ ~Passed(p)
    /\ Upserted(p)
    /\ Set(p, [Fr(p) EXCEPT !.pc = "unqueue"])
    /\ UNCHANGED <<disk, queue, due, incidents, lost>>

Unqueue(p) ==
    /\ Fr(p).pc = "unqueue"
    /\ queue' = queue \ {FileRow(Fr(p).at)}
    /\ Set(p, Settled(p, "persist"))
    /\ UNCHANGED <<disk, index, due, incidents, lost>>

\* A statement that throws leaves indexWorkspace: what was read and what was
\* still to be queued is forgotten.  A drain swallows it and goes on to drop
\* the row.
LeaveWalk(p) ==
    /\ lost' = lost \cup Abandoned(p, FilesBelow(Fr(p).from))
    /\ Set(p, IF Fr(p).from = Gone THEN NoWalk
              ELSE [Settled(p, "drop") EXCEPT !.read = << >>, !.again = {}])
    /\ UNCHANGED <<disk, index, queue, due>>

\* The insert meets the row another process has inserted
WriteFails(p) ==
    /\ Fr(p).pc = "write" /\ ~Passed(p) /\ Clashes(p)
    /\ LeaveWalk(p) /\ UNCHANGED incidents

\* Any statement from the SELECT of persistFile to the last of enqueuePending
StatementFails(p) ==
    /\ Fr(p).pc \in {"persist", "write", "unqueue"}
    /\ Incident /\ LeaveWalk(p)

\* enqueuePending of each path in turn
Requeue(p) ==
    /\ Fr(p).pc = "persist" /\ Fr(p).read = << >>
    /\ \E row \in Fr(p).again :
        /\ queue' = queue \cup {row}
        /\ Set(p, [Fr(p) EXCEPT !.again = @ \ {row}])
    /\ UNCHANGED <<disk, index, due, incidents, lost>>

Persisted(p) ==
    /\ Fr(p).pc = "persist" /\ Fr(p).read = << >> /\ Fr(p).again = {}
    /\ Set(p, IF Fr(p).from = Gone THEN NoWalk ELSE [Fr(p) EXCEPT !.pc = "drop"])
    /\ UNCHANGED <<disk, index, queue, due, incidents, lost>>

-----------------------------------------------------------------------------
(* drainIndexerPending *)

StartDrain(p) ==
    /\ Fr(p).pc = "idle"
    /\ Set(p, [Fr(p) EXCEPT !.pc = "dirs", !.dirs = {d \in Dir : DirRow(d) \in queue}])
    /\ UNCHANGED <<disk, index, queue, due, incidents, lost>>

DrainDir(p) ==
    /\ Fr(p).pc = "dirs"
    /\ \E d \in Fr(p).dirs :
        Set(p, [Fr(p) EXCEPT !.pc = "walk", !.from = d, !.todo = <<d>>, !.dirs = @ \ {d}])
    /\ UNCHANGED <<disk, index, queue, due, incidents, lost>>

\* "Whether the sub-walk succeeded or not, drop this dir from the queue"
DropDir(p) ==
    /\ Fr(p).pc = "drop"
    /\ queue' = queue \ {DirRow(Fr(p).from)}
    /\ Set(p, [Fr(p) EXCEPT !.pc = "dirs", !.from = Gone])
    /\ UNCHANGED <<disk, index, due, incidents, lost>>

FetchFiles(p) ==
    /\ Fr(p).pc = "dirs" /\ Fr(p).dirs = {}
    /\ Set(p, [Fr(p) EXCEPT !.pc = "files", !.rows = {f \in File : FileRow(f) \in queue}])
    /\ UNCHANGED <<disk, index, queue, due, incidents, lost>>

\* indexSingleFile reads the queued file and the row there is for it
TakeFile(p) ==
    /\ Fr(p).pc = "files"
    /\ \E f \in Fr(p).rows :
        Set(p, [Fr(p) EXCEPT !.pc = "write1", !.rows = @ \ {f}, !.at = f, !.ver = disk[f],
                             !.old = index[f]])
    /\ UNCHANGED <<disk, index, queue, due, incidents, lost>>

\* statSync or readFileSync throws: "missing" or "unreadable", and the row of
\* the queue is dropped like any other
TakeFileFails(p) ==
    /\ Fr(p).pc = "files"
    /\ Incident
    /\ \E f \in Fr(p).rows :
        /\ lost' = IF index[f] = disk[f] THEN lost ELSE lost \cup {f}
        /\ Set(p, [Fr(p) EXCEPT !.pc = "drop1", !.rows = @ \ {f}, !.at = f])
    /\ UNCHANGED <<disk, index, queue, due>>

\* A missing, unchanged or refused file leaves the old row
SkipFile(p) ==
    /\ Fr(p).pc = "write1" /\ (Fr(p).ver = Gone \/ Passed(p))
    /\ Set(p, [Fr(p) EXCEPT !.pc = "drop1"])
    /\ UNCHANGED <<disk, index, queue, due, incidents, lost>>

WriteFile(p) ==
    /\ Fr(p).pc = "write1" /\ Fr(p).ver # Gone /\ ~Passed(p)
    /\ Upserted(p)
    /\ Set(p, [Fr(p) EXCEPT !.pc = "drop1"])
    /\ UNCHANGED <<disk, queue, due, incidents, lost>>

\* Out of the drain, which the recall swallows: the row stays.  A statement of
\* the drain itself that throws does the same, and leaves what DieWalking leaves.
WriteFileFails(p) ==
    /\ Fr(p).pc = "write1" /\ Fr(p).ver # Gone /\ ~Passed(p) /\ Clashes(p)
    /\ Set(p, NoWalk)
    /\ UNCHANGED <<disk, index, queue, due, incidents, lost>>

\* "Drop the pending row regardless of outcome"
DropFile(p) ==
    /\ Fr(p).pc = "drop1"
    /\ queue' = queue \ {FileRow(Fr(p).at)}
    /\ Set(p, Settled(p, "files"))
    /\ UNCHANGED <<disk, index, due, incidents, lost>>

\* The slice ends: nothing left, its budget exhausted, or the process killed
EndDrain(p) ==
    /\ Fr(p).pc \in {"dirs", "files"}
    /\ Set(p, NoWalk)
    /\ UNCHANGED <<disk, index, queue, due, incidents, lost>>

DieWalking(p) ==
    /\ Fr(p).pc # "idle"
    /\ Set(p, NoWalk)
    /\ UNCHANGED <<disk, index, queue, due, incidents, lost>>

-----------------------------------------------------------------------------

\* After a tracebase init whose budget ran out at once: the root is queued
IndexInit ==
    /\ disk \in {[f \in File |-> v] : v \in Version \ Refused}
    /\ index = [f \in File |-> Gone]
    /\ queue = {DirRow(Root)} /\ due = {}
    /\ walk = [p \in Walker |-> NoWalk]
    /\ incidents = 0 /\ lost = {}

WalkNext(p) ==
    \/ FullWalk(p) \/ Enter(p) \/ EnterFails(p) \/ Visit(p) \/ VisitFails(p)
    \/ Overweight(p) \/ Cut(p) \/ Walked(p)
    \/ Take(p) \/ SkipWrite(p) \/ Write(p) \/ Unqueue(p) \/ WriteFails(p)
    \/ StatementFails(p) \/ Requeue(p) \/ Persisted(p)
    \/ StartDrain(p) \/ DrainDir(p) \/ DropDir(p) \/ FetchFiles(p)
    \/ TakeFile(p) \/ TakeFileFails(p) \/ SkipFile(p) \/ WriteFile(p) \/ WriteFileFails(p) \/ DropFile(p)
    \/ EndDrain(p) \/ DieWalking(p)

IndexNext ==
    \/ \E p \in Walker : WalkNext(p)
    \/ \E f \in File : \E v \in Version : ToolEdit(f, v)
    \/ \E f \in File : HookEnqueue(f)
    \/ \E f \in File : \E v \in Maybe : OtherEdit(f, v)

IndexSpec == IndexInit /\ [][IndexNext]_indexVars

-----------------------------------------------------------------------------
(* Properties *)

IndexTypeOK ==
    /\ disk \in [File -> Maybe] /\ index \in [File -> Maybe \ Refused]
    /\ queue \subseteq Row /\ due \subseteq File /\ lost \subseteq File
    /\ \A p \in Walker :
        /\ Fr(p).pc \in WalkLabel /\ Fr(p).from \in Dir \cup {Gone}
        /\ Fr(p).dirs \subseteq Dir /\ Fr(p).rows \subseteq File
        /\ Fr(p).again \subseteq Row /\ Fr(p).read \in Seq([file : File, ver : Version])

\* A file is indexed as it is, or the queue leads to it, or its hook is still to
\* come, or it is of a kind the gates refuse - unless it met one of these: an
\* edit no hook saw; an edit while a process held the file; and, with its row
\* not up to date, a drain that dropped the row leading to it although the walk
\* of a directory was cut half-way, or could not list a directory or read an
\* entry, or threw on a statement, or although the queued file could not be
\* read.  Whatever the interleaving and whoever dies, an edit that a hook saw is
\* not forgotten otherwise (core/file-indexer.ts, core/file-walker.ts).
NothingElseForgotten ==
    \A f \in File \ lost :
        \/ index[f] = disk[f] \/ Queued(f) \/ f \in due
        \/ disk[f] \in Refused \cup {Gone}

\* What the comment of drainIndexerPending promises of a directory row: "If it
\* had un-walked descendants, the sub-walk re-enqueued them as new file/dir
\* rows already".  With nobody editing, nothing failing and one process at work,
\* every file is indexed or still led to by the queue.
CutWalkIsResumed ==
    incidents = 0 => \A f \in File : index[f] = disk[f] \/ Queued(f)

=============================================================================
