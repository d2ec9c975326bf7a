------------------------------- MODULE MCFiles -------------------------------
(***************************************************************************)
(* Readers of files that others write: git's files and its history, the    *)
(* uploaded images, the pages of Claude's transcripts, the list of Codex's *)
(* rollouts, a phone's walk through a transcript and the search of the     *)
(* directories for repositories.                                           *)
(* They share no state: each behaviour is of one of them, and the others   *)
(* stay as they are.                                                       *)
(*                                                                         *)
(* Of git's two files one is as any history of edits and commands leaves   *)
(* it, the other as it is when a request that names both meets a clean or  *)
(* a new file.  The commands do not depend on the feed: they are followed  *)
(* from each of these, before the watcher has settled, and the feed from a *)
(* file that is changed and from one that is staged.                       *)
(*                                                                         *)
(* Every directory is a repository in a scan of the whole tree, which one  *)
(* request is for; of the two scans that save at once each reads one       *)
(* directory.                                                              *)
(***************************************************************************)
EXTENDS GitFiles, ImageStorage, SessionHistory, CodexHistory, TranscriptPages, GitGraph, Discovery, TLC

CONSTANTS f, g, v1, v2

VARIABLE part

Triple(x) == <<head[x], index[x], work[x]>>

\* Search paths that hold no other directory.
Leaves == {d \in UNION PathSets : Entries(d) = <<>>}

MCInit ==
    /\ part \in {"git", "feed", "images", "pages", "codex", "walk", "graph", "scan", "save"}
    /\ part # "graph" => parents = [c \in Commits |-> <<>>]
    /\ Init
    /\ <<Triple(f), Triple(g)>> \in
          ({<<v1, v1, v2>>, <<v1, v2, v2>>, <<v1, Absent, v2>>, <<Absent, Absent, v1>>} \X {<<v1, v1, v1>>})
          \cup ({<<v1, v1, v2>>, <<Absent, Absent, v1>>} \X {<<Absent, v1, v1>>})
    /\ part = "feed" => Triple(f) \in {<<v1, v1, v2>>, <<v1, v2, v2>>} /\ head[g] = v1
    /\ part \notin {"git", "feed"} => Triple(f) = <<v1, v1, v2>> /\ head[g] = v1
    /\ PageWalkInit
    /\ part # "walk" => walk.route = "messages"
    /\ ImageInit /\ HistoryInit /\ CodexHistoryInit /\ GraphInit
    /\ DiscoveryInit /\ repositories = IF part = "scan" THEN Directories ELSE {MaxDirectory}

MCNext ==
    /\ UNCHANGED part
    /\ part \notin {"git", "feed"} => UNCHANGED vars
    /\ part # "images" => UNCHANGED imageVars
    /\ part # "pages" => UNCHANGED historyVars
    /\ part # "codex" => UNCHANGED codexHistoryVars
    /\ part # "walk" => UNCHANGED pageWalkVars
    /\ part # "graph" => UNCHANGED graphVars
    /\ part \notin {"scan", "save"} => UNCHANGED discoveryVars
    /\ \/ part = "git" /\ Next /\ settling'
       \/ part = "feed" /\ Next
       \/ part = "images" /\ ImageNext
       \/ part = "pages" /\ PageNext
       \/ part = "codex" /\ CodexHistoryNext
       \/ part = "walk" /\ PageWalkNext
       \/ part = "graph" /\ GraphNext
       \/ part = "scan" /\ DiscoveryNext /\ searches' <= 1
       \/ part = "save" /\ DiscoveryNext /\ repositories' \subseteq Leaves /\ \A x \in Searchers : search'[x].paths \subseteq Leaves

MCVars == <<vars, imageVars, historyVars, codexHistoryVars, pageWalkVars, graphVars, discoveryVars, part>>
MCSpec == MCInit /\ [][MCNext]_MCVars

\* What is shown piece by piece is the whole of what was written: the pages of a
\* walk through a transcript while it grows (GetSessionElements and the other
\* routes), and the commits and lines of the graph (computeGraphLayout).
ViewsAreWhole == PagesJoin /\ LinesLead

\* Clients = AppReaders = Askers = Seekers: one pair of names for each of the four.
Symmetry == Permutations(Clients) \cup Permutations(ScanWorkers) \cup Permutations(Refreshers)
=============================================================================
