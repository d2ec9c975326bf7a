--------------------------- MODULE RepositoryIndex ---------------------------
(***************************************************************************)
(* The index of a repository's files.  The watcher takes fsnotify's        *)
(* notices one by one, lets each path settle in the debouncer, pairs the   *)
(* old name of a rename with the next file created in the directory, and   *)
(* publishes a change; for every change a goroutine of its own waits 50 ms *)
(* and updates the index.  Beside them FullScan replaces all of the index  *)
(* with what a walk of the tree has found: at the start, every ten minutes *)
(* and on request.                                                         *)
(*                                                                         *)
(* One directory.  A file is its inode and its version.                    *)
(***************************************************************************)
EXTENDS Naturals, FiniteSets, Sequences

CONSTANTS
    Paths,
    Scanners,        \* requests for a rebuild; ReconciliationLoop comes in addition
    ReconciliationLoop,
    NoPath,
    MaxChanges,      \* bound: changes of the tree
    MaxRebuilds      \* bound: rebuilds on request

ASSUME IndexAssumption == IsFiniteSet(Paths) /\ NoPath \notin Paths

VARIABLES
    disk,            \* the files on disk
    changes,
    notices,         \* fsnotify's channel
    debounced,       \* change type by path, or "none"
    pendingRename,   \* the old name that waits for a new one
    jobs,            \* handleFileChangeForRepoIndex
    indexed,         \* table repository_files
    scan, rebuilds,
    muddled          \* history: paths whose last changes overlapped in a way that may lose one

indexVars == <<disk, changes, notices, debounced, pendingRename, jobs, indexed, scan, rebuilds,
               muddled>>

NoEntry == [inode |-> 0, v |-> 0]
Walkers == Scanners \cup {ReconciliationLoop}
OnDisk(p) == disk[p] # NoEntry
Scanning == \E x \in Walkers : scan[x].at # "idle"

\* --- Changes of the tree, and fsnotify's notice of them --------------------------

InJob(p) == \E j \in jobs : p \in {j.path, j.old}
Renaming(p) ==
    \/ pendingRename = p
    \/ \E i \in DOMAIN notices : notices[i] = [op |-> "renamed", path |-> p]
\* A job has read the file that is now there, under this name or a former one.
Held(p) == OnDisk(p) /\ \E j \in jobs : j.got.inode = disk[p].inode

\* The changes of paths ps, of which notices ns are given.
Change(t, ns, ps) ==
    /\ changes < MaxChanges /\ changes' = changes + 1
    /\ disk' = t
    /\ notices' = notices \o ns
    /\ muddled' = muddled \cup (IF \E p \in ps : Scanning \/ Renaming(p) \/ InJob(p) \/ Held(p) THEN ps ELSE {})
    /\ UNCHANGED <<debounced, pendingRename, jobs, indexed, scan, rebuilds>>

Notice(op, p) == <<[op |-> op, path |-> p]>>

\* A write, of a file that may be new.
WriteFile(p) ==
    LET e == IF OnDisk(p) THEN [disk[p] EXCEPT !.v = changes + 1] ELSE [inode |-> changes + 1, v |-> changes + 1] IN
    Change([disk EXCEPT ![p] = e], Notice(IF OnDisk(p) THEN "modified" ELSE "created", p), {p})

RemoveFromTree(p) == OnDisk(p) /\ Change([disk EXCEPT ![p] = NoEntry], Notice("deleted", p), {p})

\* Moved out of the tree, for instance to the trash: fsnotify calls it a rename.
MoveAway(p) == OnDisk(p) /\ Change([disk EXCEPT ![p] = NoEntry], Notice("renamed", p), {p})

RenameFile(p, q) ==
    /\ OnDisk(p) /\ p # q
    /\ Change([disk EXCEPT ![p] = NoEntry, ![q] = disk[p]], Notice("renamed", p) \o Notice("created", q), {p, q})

\* --- Watcher -----------------------------------------------------------------------

\* mergeChangeTypes
Merge(old, new) == IF new # "deleted" /\ old = "created" THEN "created" ELSE new

\* A second rename before the first one found its new name takes its place.
HandleEvent ==
    /\ notices # <<>> /\ notices' = Tail(notices)
    /\ LET n == Head(notices) IN
          IF n.op = "renamed"
          THEN /\ pendingRename' = n.path /\ UNCHANGED debounced
               /\ muddled' = muddled \cup ({pendingRename} \ {NoPath})
          ELSE /\ debounced' = [debounced EXCEPT ![n.path] = Merge(@, n.op)]
               /\ UNCHANGED <<pendingRename, muddled>>
    /\ UNCHANGED <<disk, changes, jobs, indexed, scan, rebuilds>>

\* publishEvent, and the goroutine the indexer starts for the event.
FreeJob == CHOOSE n \in 1 .. (Cardinality(jobs) + 1) : \A j \in jobs : j.n # n
Publish(change, p, old) ==
    jobs' = jobs \cup {[n |-> FreeJob, at |-> IF change = "created" THEN "stat" ELSE "remove",
                        path |-> p, old |-> old, got |-> NoEntry]}
Overtaken(ps) == IF \E p \in ps : InJob(p) THEN ps ELSE {}

\* handleDebouncedEvent.  A file created within a second of a rename is its new
\* name; after the second the rename is forgotten.
HandleDebouncedEvent(p) ==
    /\ debounced[p] # "none"
    /\ debounced' = [debounced EXCEPT ![p] = "none"]
    /\ IF debounced[p] # "created" \/ pendingRename = NoPath
       THEN Publish(IF debounced[p] = "deleted" THEN "deleted" ELSE "created", p,
                    IF debounced[p] = "deleted" THEN p ELSE NoPath)
            /\ muddled' = muddled \cup Overtaken({p}) /\ UNCHANGED pendingRename
       ELSE /\ pendingRename' = NoPath
            /\ \/ Publish("renamed", p, pendingRename) /\ muddled' = muddled \cup Overtaken({p, pendingRename})
               \/ Publish("created", p, NoPath) /\ muddled' = muddled \cup Overtaken({p}) \cup {pendingRename}
    /\ UNCHANGED <<disk, changes, notices, indexed, scan, rebuilds>>

\* Mutant of StaleRename: an old name that found no new one is only forgotten.
ForgetRename ==
    /\ pendingRename # NoPath /\ pendingRename' = NoPath
    /\ UNCHANGED <<disk, changes, notices, debounced, jobs, indexed, scan, rebuilds, muddled>>

\* processStalePendingRenames
StaleRename ==
    /\ pendingRename # NoPath /\ pendingRename' = NoPath
    /\ Publish("deleted", pendingRename, pendingRename) /\ muddled' = muddled \cup Overtaken({pendingRename})
    /\ UNCHANGED <<disk, changes, notices, debounced, indexed, scan, rebuilds>>

\* --- The index, a change at a time ----------------------------------------------------

GoOn(j, k) == jobs' = (jobs \ {j}) \cup {k}
EndJob(j) == jobs' = jobs \ {j}
JobsOnly == UNCHANGED <<disk, changes, notices, debounced, pendingRename, scan, rebuilds, muddled>>

\* RemoveFile: of the deleted path, or of the old name before the new one is indexed.
RemoveFile(j) ==
    /\ j.at = "remove"
    /\ indexed' = [indexed EXCEPT ![j.old] = NoEntry]
    /\ IF j.path = j.old THEN EndJob(j) ELSE GoOn(j, [j EXCEPT !.at = "stat", !.old = NoPath])
    /\ JobsOnly

\* IndexFile: the file as it is now, if it still is ...
ScanFile(j) ==
    /\ j.at = "stat"
    /\ IF OnDisk(j.path) THEN GoOn(j, [j EXCEPT !.at = "find", !.got = disk[j.path]]) ELSE EndJob(j)
    /\ JobsOnly /\ UNCHANGED indexed

\* ... an entry of the same inode under another name ...
FindRename(j) ==
    /\ j.at = "find"
    /\ LET others == {q \in Paths \ {j.path} : indexed[q].inode = j.got.inode} IN
          \/ others = {} /\ GoOn(j, [j EXCEPT !.at = "insert"])
          \/ \E q \in others : GoOn(j, [j EXCEPT !.at = "drop", !.old = q])
    /\ JobsOnly /\ UNCHANGED indexed

\* ... which goes by its name ...
DropRenamed(j) ==
    /\ j.at = "drop"
    /\ indexed' = [indexed EXCEPT ![j.old] = NoEntry]
    /\ GoOn(j, [j EXCEPT !.at = "insert", !.old = NoPath])
    /\ JobsOnly

\* ... and the entry itself.
InsertFile(j) ==
    /\ j.at = "insert"
    /\ indexed' = [indexed EXCEPT ![j.path] = j.got]
    /\ EndJob(j) /\ JobsOnly

\* --- FullScan ----------------------------------------------------------------------------

Asleep == [at |-> "idle", todo |-> {}, found |-> [p \in Paths |-> NoEntry]]
ScanOnly == UNCHANGED <<disk, changes, notices, debounced, pendingRename, jobs>>

\* A goroutine of Start's, the loop, or a rebuild on request.
FullScan(x) ==
    /\ scan[x].at = "idle" /\ (x \in Scanners => rebuilds < MaxRebuilds)
    /\ rebuilds' = IF x \in Scanners THEN rebuilds + 1 ELSE rebuilds
    /\ scan' = [scan EXCEPT ![x] = [Asleep EXCEPT !.at = "walk", !.todo = Paths]]
    /\ ScanOnly /\ UNCHANGED <<indexed, muddled>>

\* The walk goes through the paths in one order.
VisitFile(x, p) ==
    /\ p \in scan[x].todo /\ p = CHOOSE q \in scan[x].todo : TRUE
    /\ scan' = [scan EXCEPT ![x].todo = @ \ {p}, ![x].found[p] = disk[p]]
    /\ ScanOnly /\ UNCHANGED <<indexed, rebuilds, muddled>>

\* ScanAll keeps what it has when its context ends: the one of a request over
\* HTTP ends as soon as the request has been answered.
CutShort(x) ==
    /\ x \in Scanners /\ scan[x].todo # {}
    /\ scan' = [scan EXCEPT ![x].todo = {}]
    /\ muddled' = muddled \cup scan[x].todo
    /\ ScanOnly /\ UNCHANGED <<indexed, rebuilds>>

\* Mutant of CommitScan: what was found is added to the index, which keeps the rest.
CommitAdditions(x) ==
    /\ scan[x].at = "walk" /\ scan[x].todo = {}
    /\ indexed' = [p \in Paths |-> IF scan[x].found[p] = NoEntry THEN indexed[p] ELSE scan[x].found[p]]
    /\ scan' = [scan EXCEPT ![x] = Asleep]
    /\ ScanOnly /\ UNCHANGED <<rebuilds, muddled>>

\* One transaction.
CommitScan(x) ==
    /\ scan[x].at = "walk" /\ scan[x].todo = {}
    /\ indexed' = scan[x].found
    /\ scan' = [scan EXCEPT ![x] = Asleep]
    /\ ScanOnly /\ UNCHANGED <<rebuilds, muddled>>

\* --- The system: a file, and an index that a former run left, or none -----------------

IndexInit ==
    /\ disk \in [Paths -> {NoEntry, [inode |-> 1, v |-> 1]}] /\ Cardinality({p \in Paths : OnDisk(p)}) = 1
    /\ changes = 1 /\ notices = <<>>
    /\ debounced = [p \in Paths |-> "none"] /\ pendingRename = NoPath /\ jobs = {}
    /\ indexed \in {disk, [p \in Paths |-> NoEntry]}
    /\ scan = [x \in Walkers |-> Asleep] /\ rebuilds = 0
    /\ muddled = {p \in Paths : indexed[p] # disk[p]}

TreeStep == \E p \in Paths : WriteFile(p) \/ RemoveFromTree(p) \/ MoveAway(p) \/ \E q \in Paths : RenameFile(p, q)
WatchStep == HandleEvent \/ StaleRename \/ \E p \in Paths : HandleDebouncedEvent(p)
JobStep == \E j \in jobs : RemoveFile(j) \/ ScanFile(j) \/ FindRename(j) \/ DropRenamed(j) \/ InsertFile(j)
ScanStep(x) == FullScan(x) \/ CutShort(x) \/ CommitScan(x) \/ \E p \in Paths : VisitFile(x, p)

IndexNext == TreeStep \/ WatchStep \/ JobStep \/ \E x \in Walkers : ScanStep(x)

\* The ticker ticks for ever, and a goroutine that runs is run.
IndexFairness ==
    /\ WF_indexVars(WatchStep) /\ WF_indexVars(JobStep)
    /\ WF_indexVars(ScanStep(ReconciliationLoop))
    /\ \A x \in Scanners : WF_indexVars(scan[x].at # "idle" /\ ScanStep(x))

IndexSpec == IndexInit /\ [][IndexNext]_indexVars /\ IndexFairness

\* --- Properties ----------------------------------------------------------------------------------

\* Every goroutine reads the disk at one moment and writes the index at another,
\* so any of them may undo another's work; but once the tree is left alone the
\* index comes to hold exactly its files, as they are, and stays so.
IndexCatchesUp == <>[](indexed = disk)

\* With nothing under way the index shows a path as it is on the disk, whether
\* the last change was a write, a deletion, or a rename (noticed in two halves,
\* and caught by its inode when they do not meet), however the changes of other
\* paths ran beside it.  Left out are a path that changed again while its last
\* change was on its way, or during a scan, a file that was renamed while the
\* index was being told of it under its name before (which takes it away under
\* the new one), an old name given up for a later one, and what a scan that was
\* cut short had not reached.
IndexFollows ==
    (notices = <<>> /\ jobs = {} /\ pendingRename = NoPath /\ ~Scanning /\ \A p \in Paths : debounced[p] = "none")
    => \A p \in Paths \ muddled : indexed[p] = disk[p]
=============================================================================
