------------------------------ MODULE Discovery ------------------------------
(***************************************************************************)
(* The search for repositories a phone may add as workspaces               *)
(* (internal/workspace/discovery.go).  RepoDiscovery answers from a file   *)
(* that holds the last result; an old one, or one for other search paths,  *)
(* is answered as well while a goroutine refreshes it.  A scan is done by  *)
(* workers that take directories from a channel and put the ones they find *)
(* into it; a closing goroutine ends it when the channel is empty and none *)
(* is being processed, or when its time is up.                             *)
(*                                                                         *)
(* The directories are a tree: 2 * d and 2 * d + 1 lie in d.  The ones     *)
(* that no scan enters (hidden, node_modules, links) are left out, and so  *)
(* is which repositories are configured already.                           *)
(***************************************************************************)
EXTENDS Naturals, Sequences, FiniteSets

CONSTANTS
    MaxDirectory,    \* directories are 1..MaxDirectory
    PathSets,        \* the search paths of a request: sets of directories
    Seekers,         \* who asks
    Refreshers,      \* goroutines that refresh
    ScanWorkers,     \* the workers of each scan
    MaxDepth,
    QueueCap,        \* what the channel of a scan holds
    MaxSearches,     \* bound: requests
    MaxClones        \* bound: repositories that appear

\* A depth that is not set, or less than one, is the default.
ASSUME DiscoveryAssumption ==
    /\ MaxDirectory \in Nat /\ MaxDepth \in Nat \ {0} /\ QueueCap \in Nat
    /\ IsFiniteSet(ScanWorkers)
    /\ PathSets \subseteq SUBSET (1..MaxDirectory)

VARIABLES
    repositories,    \* directories with a .git
    clones,
    cacheFile, tmpFile,
    search,          \* each request or refresh
    searches,
    refreshing,
    crashed          \* a worker sent on a closed channel

discoveryVars == <<repositories, clones, cacheFile, tmpFile, search, searches, refreshing, crashed>>

Directories == 1..MaxDirectory
Inside(d) == {2 * d, 2 * d + 1} \cap Directories
Entries(d) == IF 2 * d > MaxDirectory THEN <<>> ELSE IF 2 * d = MaxDirectory THEN <<2 * d>> ELSE <<2 * d, 2 * d + 1>>

\* Where a way down from a directory leads, of so many steps or fewer.
Leads(way, n) == \A i \in 1..n : way[i] \in Inside(way[i - 1])
Within(d, depth) ==
    {e \in Directories : \E n \in 0..depth : \E way \in [0..n -> Directories] :
                            way[0] = d /\ way[n] = e /\ Leads(way, n)}
Reach == [d \in Directories |-> Within(d, MaxDepth)]
Under(paths) == UNION {Reach[p] : p \in paths}

\* A cache file, with what it should hold: cut when the scan ran out of time or
\* the channel was full.
NoCache == [state |-> "none", repos |-> {}, paths |-> {}, fresh |-> FALSE, had |-> {}, cut |-> FALSE]
Torn == [NoCache EXCEPT !.state = "torn"]

NoJob == [at |-> "free", dir |-> 0, depth |-> 0, todo |-> <<>>]
NoSearch == [at |-> "idle", op |-> "none", paths |-> {}, queue |-> <<>>, closed |-> FALSE, late |-> FALSE,
             inFlight |-> 0, worker |-> [w \in ScanWorkers |-> NoJob], closer |-> "look",
             found |-> {}, had |-> {}, cut |-> FALSE, fd |-> "none", cached |-> FALSE, promise |-> FALSE]
Searchers == Seekers \cup Refreshers

Clone(d) ==
    /\ clones < MaxClones /\ clones' = clones + 1
    /\ d \notin repositories /\ repositories' = repositories \cup {d}
    /\ UNCHANGED <<cacheFile, tmpFile, search, searches, refreshing, crashed>>

\* CacheTTL
CacheExpires ==
    /\ cacheFile.fresh /\ cacheFile' = [cacheFile EXCEPT !.fresh = FALSE]
    /\ UNCHANGED <<repositories, clones, tmpFile, search, searches, refreshing, crashed>>

\* --- Requests ------------------------------------------------------------------

Ask(x, op, paths) ==
    /\ search[x].at = "idle" /\ searches < MaxSearches /\ searches' = searches + 1
    /\ search' = [search EXCEPT ![x] = [NoSearch EXCEPT !.at = IF op = "fresh" THEN "seed" ELSE "load",
                                                        !.op = op, !.paths = paths]]
    /\ UNCHANGED <<repositories, clones, cacheFile, tmpFile, refreshing, crashed>>

DiscoverRepositoriesWithResult(x, paths) == Ask(x, "discover", paths)
DiscoverRepositories(x, paths) == Ask(x, "discover", paths)
DiscoverRepositoriesFresh(x, paths) == Ask(x, "fresh", paths)

\* workspace/discover, with or without fresh, and POST workspaces/discover.
WorkspaceDiscover(x, paths) == DiscoverRepositoriesFresh(x, paths) \/ DiscoverRepositoriesWithResult(x, paths)
HandleDiscoverWorkspaces(x, paths) == DiscoverRepositories(x, paths)

\* A writer of the removed file goes on writing to what has no name any more.
Unnamed(s, name) == [x \in Searchers |-> IF s[x].fd = name THEN [s[x] EXCEPT !.fd = "lost"] ELSE s[x]]

InvalidateCache ==
    /\ searches < MaxSearches /\ searches' = searches + 1
    /\ cacheFile.state # "none" /\ cacheFile' = NoCache
    /\ search' = Unnamed(search, "cache")
    /\ UNCHANGED <<repositories, clones, tmpFile, refreshing, crashed>>

\* A cache that is fresh and for these paths is the answer; another one too, with
\* the promise of a refresh; without one the request scans.
Discover(x) ==
    /\ search[x].at = "load"
    /\ LET answered == [search[x] EXCEPT !.at = "answer", !.found = cacheFile.repos, !.had = cacheFile.had,
                                         !.cut = cacheFile.cut, !.cached = TRUE]
           valid == cacheFile.fresh /\ cacheFile.paths = search[x].paths
       IN \/ /\ cacheFile.state = "written" /\ valid
             /\ search' = [search EXCEPT ![x] = [answered EXCEPT !.promise = refreshing]]
          \/ /\ cacheFile.state = "written" /\ ~valid
             /\ \E r \in Refreshers :
                   /\ search[r].at = "idle"
                   /\ search' = [search EXCEPT ![x] = [answered EXCEPT !.promise = TRUE],
                                               ![r] = IF refreshing THEN @
                                                      ELSE [NoSearch EXCEPT !.at = "begin", !.op = "refresh",
                                                                            !.paths = search[x].paths]]
          \/ /\ cacheFile.state # "written"
             /\ search' = [search EXCEPT ![x].at = "seed"]
    /\ UNCHANGED <<repositories, clones, cacheFile, tmpFile, searches, refreshing, crashed>>

\* backgroundRefresh: the second of two goes away.
BackgroundRefresh(x) ==
    /\ search[x].at = "begin" /\ refreshing' = TRUE
    /\ search' = [search EXCEPT ![x] = IF refreshing THEN NoSearch ELSE [@ EXCEPT !.at = "seed"]]
    /\ UNCHANGED <<repositories, clones, cacheFile, tmpFile, searches, crashed>>

\* --- parallelScan -----------------------------------------------------------------

Scan(x, s) ==
    /\ search[x].at = "scan" /\ search' = [search EXCEPT ![x] = s]
    /\ UNCHANGED <<repositories, clones, cacheFile, tmpFile, searches, refreshing>>
Set(s, w, j) == [s EXCEPT !.worker[w] = j]

\* The search paths are there, in the order they were given, before the closing
\* goroutine starts.
SeedQueue(x) ==
    LET paths == search[x].paths  n == Cardinality(paths) IN
    /\ search[x].at = "seed"
    /\ \E order \in [1..n -> paths] :
          /\ \A p \in paths : \E i \in 1..n : order[i] = p
          /\ search' = [search EXCEPT ![x].at = "scan", ![x].inFlight = n,
                                      ![x].queue = [i \in 1..n |-> [dir |-> order[i], depth |-> 0]],
                                      ![x].had = repositories \cap Under(paths)]
    /\ UNCHANGED <<repositories, clones, cacheFile, tmpFile, searches, refreshing, crashed>>

\* The timeout of the scan's context.
ScanTimeout(x) ==
    /\ ~search[x].late /\ ~search[x].closed
    /\ Scan(x, [search[x] EXCEPT !.late = TRUE, !.cut = TRUE])
    /\ UNCHANGED crashed

TakeJob(x, w) ==
    LET s == search[x]  job == Head(s.queue)  rest == [s EXCEPT !.queue = Tail(@)] IN
    /\ s.worker[w].at = "free" /\ s.queue # <<>>
    /\ Scan(x, IF s.late THEN Set([rest EXCEPT !.inFlight = @ - 1], w, [NoJob EXCEPT !.at = "exit"])
               ELSE IF job.depth > MaxDepth THEN [rest EXCEPT !.inFlight = @ - 1]
               ELSE Set(rest, w, [NoJob EXCEPT !.at = "read", !.dir = job.dir, !.depth = job.depth]))
    /\ UNCHANGED crashed

ReadDirectory(x, w) ==
    LET s == search[x]  job == s.worker[w] IN
    /\ job.at = "read"
    /\ Scan(x, Set([s EXCEPT !.found = IF job.dir \in repositories THEN @ \cup {job.dir} ELSE @],
                   w, [job EXCEPT !.at = "next", !.todo = Entries(job.dir)]))
    /\ UNCHANGED crashed

\* The next subdirectory is counted, then sent; when the channel is closed it is
\* neither.
CheckClosed(x, w) ==
    LET s == search[x]  job == s.worker[w] IN
    /\ job.at = "next" /\ job.todo # <<>>
    /\ Scan(x, IF s.closed THEN Set(s, w, [job EXCEPT !.todo = Tail(@)])
               ELSE Set([s EXCEPT !.inFlight = @ + 1], w, [job EXCEPT !.at = "send"]))
    /\ UNCHANGED crashed

SendJob(x, w) ==
    LET s == search[x]  job == s.worker[w]  sent == Set(s, w, [job EXCEPT !.at = "next", !.todo = Tail(@)]) IN
    /\ job.at = "send"
    /\ Scan(x, IF s.closed THEN s
               ELSE IF Len(s.queue) = QueueCap THEN [sent EXCEPT !.inFlight = @ - 1, !.cut = TRUE]
               ELSE [sent EXCEPT !.queue = Append(@, [dir |-> Head(job.todo), depth |-> job.depth + 1])])
    /\ crashed' = s.closed

FinishDirectory(x, w) ==
    LET s == search[x] IN
    /\ s.worker[w].at = "next" /\ s.worker[w].todo = <<>>
    /\ Scan(x, Set([s EXCEPT !.inFlight = @ - 1], w, NoJob))
    /\ UNCHANGED crashed

WorkerEnds(x, w) ==
    LET s == search[x] IN
    /\ s.worker[w].at = "free" /\ s.closed /\ s.queue = <<>>
    /\ Scan(x, Set(s, w, [NoJob EXCEPT !.at = "exit"]))
    /\ UNCHANGED crashed

\* The closing goroutine: the time, the channel, then the count.
CloserLooks(x) ==
    LET s == search[x] IN
    /\ s.closer = "look" /\ (s.late \/ s.queue = <<>>)
    /\ Scan(x, IF s.late THEN [s EXCEPT !.closer = "done", !.closed = TRUE] ELSE [s EXCEPT !.closer = "count"])
    /\ UNCHANGED crashed

\* Mutant of CloserCounts: an empty channel is the end.
CloserTrusts(x) ==
    /\ search[x].closer = "count"
    /\ Scan(x, [search[x] EXCEPT !.closer = "done", !.closed = TRUE])
    /\ UNCHANGED crashed

CloserCounts(x) ==
    LET s == search[x] IN
    /\ s.closer = "count"
    /\ Scan(x, IF s.inFlight = 0 THEN [s EXCEPT !.closer = "done", !.closed = TRUE] ELSE [s EXCEPT !.closer = "look"])
    /\ UNCHANGED crashed

EndScan(x) ==
    LET s == search[x] IN
    /\ s.closed /\ \A w \in ScanWorkers : s.worker[w].at = "exit"
    /\ Scan(x, [s EXCEPT !.at = "save"])
    /\ UNCHANGED crashed

\* --- saveCache --------------------------------------------------------------------

\* The temporary file is opened and emptied, ...
OpenTmp(x) ==
    /\ search[x].at = "save" /\ tmpFile' = Torn
    /\ search' = [search EXCEPT ![x].at = "write", ![x].fd = "tmp"]
    /\ UNCHANGED <<repositories, clones, cacheFile, searches, refreshing, crashed>>

Result(x) == [state |-> "written", repos |-> search[x].found, paths |-> search[x].paths, fresh |-> TRUE,
              had |-> search[x].had, cut |-> search[x].cut]

\* ... written, whatever its name is by then, over what another scan may have
\* written since: a longer text of the other ends in what is not JSON, ...
WriteTmp(x) ==
    /\ search[x].at = "write"
    /\ LET over(file) == IF file.state = "written" THEN {Result(x), Torn} ELSE {Result(x)} IN
          /\ IF search[x].fd = "tmp" THEN tmpFile' \in over(tmpFile) ELSE UNCHANGED tmpFile
          /\ IF search[x].fd = "cache" THEN cacheFile' \in over(cacheFile) ELSE UNCHANGED cacheFile
    /\ search' = [search EXCEPT ![x].at = "rename", ![x].fd = "none"]
    /\ UNCHANGED <<repositories, clones, searches, refreshing, crashed>>

\* ... and renamed, which fails when another scan has renamed it.
RenameTmp(x) ==
    /\ search[x].at = "rename"
    /\ IF tmpFile.state = "none" THEN search' = [search EXCEPT ![x].at = "end"] /\ UNCHANGED <<cacheFile, tmpFile>>
       ELSE /\ cacheFile' = tmpFile /\ tmpFile' = NoCache
            /\ search' = [y \in Searchers |->
                   IF y = x THEN [search[x] EXCEPT !.at = "end"]
                   ELSE IF search[y].fd = "tmp" THEN [search[y] EXCEPT !.fd = "cache"]
                   ELSE Unnamed(search, "cache")[y]]
    /\ UNCHANGED <<repositories, clones, searches, refreshing, crashed>>

EndSearch(x) ==
    /\ search[x].at = "end"
    /\ search' = [search EXCEPT ![x] = IF x \in Refreshers THEN NoSearch ELSE [@ EXCEPT !.at = "answer"]]
    /\ refreshing' = (refreshing /\ x \in Seekers)
    /\ UNCHANGED <<repositories, clones, cacheFile, tmpFile, searches, crashed>>

Reply(x) ==
    /\ search[x].at = "answer" /\ search' = [search EXCEPT ![x] = NoSearch]
    /\ UNCHANGED <<repositories, clones, cacheFile, tmpFile, searches, refreshing, crashed>>

\* --- The system -------------------------------------------------------------------

DiscoveryInit ==
    /\ repositories \in SUBSET Directories /\ clones = 0
    /\ cacheFile = NoCache /\ tmpFile = NoCache
    /\ search = [x \in Searchers |-> NoSearch] /\ searches = 0
    /\ refreshing = FALSE /\ crashed = FALSE

SearchStep(x) ==
    \/ Discover(x) \/ BackgroundRefresh(x)
    \/ SeedQueue(x) \/ CloserLooks(x) \/ CloserCounts(x) \/ EndScan(x)
    \/ \E w \in ScanWorkers :
          \/ TakeJob(x, w) \/ ReadDirectory(x, w) \/ CheckClosed(x, w) \/ SendJob(x, w)
          \/ FinishDirectory(x, w) \/ WorkerEnds(x, w)
    \/ OpenTmp(x) \/ WriteTmp(x) \/ RenameTmp(x) \/ EndSearch(x) \/ Reply(x)

\* A panic ends the program.
DiscoveryNext ==
    /\ ~crashed
    /\ \/ \E d \in Directories : Clone(d)
       \/ CacheExpires \/ InvalidateCache
       \/ \E x \in Seekers, paths \in PathSets :
             WorkspaceDiscover(x, paths) \/ HandleDiscoverWorkspaces(x, paths)
       \/ \E x \in Searchers : SearchStep(x) \/ ScanTimeout(x)

DiscoverySpec == DiscoveryInit /\ [][DiscoveryNext]_discoveryVars

\* --- Properties ---------------------------------------------------------------------

\* A scan that was not cut short by its timeout or a full channel has found every
\* repository that was there when it began, however its workers shared the
\* directories: the closing goroutine does not end it while one is on its way.
ScansAreWhole ==
    \A x \in Searchers : search[x].at \in {"save", "write", "rename", "end", "answer"} =>
        search[x].cut \/ search[x].had \subseteq search[x].found

\* No worker sends on the closed channel, which would end the program, unless the
\* scan ran out of time.
OnlyLateScansCrash == crashed => \E x \in Searchers : search[x].late

\* Two scans may save at once into the same temporary file, and the one that
\* renames it may take what the other has only opened; nobody is answered from
\* that: an answer is what one scan found, and for the paths that were asked for
\* unless a refresh is promised.
CachedAnswersFit ==
    \A x \in Seekers : (search[x].at = "answer" /\ search[x].cached /\ ~search[x].promise)
        => search[x].found \subseteq Under(search[x].paths)

DiscoveryHolds == ScansAreWhole /\ OnlyLateScansCrash /\ CachedAnswersFit
=============================================================================
