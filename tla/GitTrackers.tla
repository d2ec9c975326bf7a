----------------------------- MODULE GitTrackers -----------------------------
(***************************************************************************)
(* Which tracker serves the git calls of a workspace: GitTrackerManager.   *)
(*                                                                         *)
(* A workspace is registered without looking at its directory; the first   *)
(* call looks, and what it finds is kept: later calls are served, or       *)
(* refused, from memory.  The entry's mutex is held from the look until    *)
(* the result is stored, the manager's own only while the entry is found,  *)
(* so an entry may be replaced while a call works on it.  GitInit makes a  *)
(* tracker of its own, initialises the directory and then has the entry    *)
(* look again.  The health check looks too, but stores only a state.       *)
(***************************************************************************)
EXTENDS Naturals

CONSTANTS
    Paths,        \* directories the workspace may be at
    Callers,      \* goroutines that call the manager
    Entries,      \* bound: the cache entries ever made, numbered from 1
    MaxDiskSteps, \* bound: changes of the directories by others
    MaxLookups,   \* bound: calls
    NoEntry

ASSUME EntriesAssumption == Entries \subseteq Nat /\ NoEntry \notin Entries \cup Callers

VARIABLES
    disk,       \* what is at each path: "missing", "plain" or "git"
    configured, \* the path of the workspace's definition
    trackers,   \* the workspace's entry
    entry,      \* the entries
    mutex,      \* who holds an entry's mutex
    caller,     \* what each goroutine does
    ready,      \* history: paths GitInit has made a repository of, and told the manager
    moves, lookups

trackerVars == <<disk, configured, trackers, entry, mutex, caller, ready, moves, lookups>>

FreeAt(p) == [at |-> "idle", op |-> "none", e |-> NoEntry, found |-> "none", p |-> p, good |-> FALSE]
Unused == [path |-> configured, made |-> FALSE, initialized |-> FALSE, repo |-> FALSE, state |-> "unavailable"]

\* Register: an entry for the path stays, one for another path is replaced.
RegisterWorkspace(p) ==
    /\ disk[p] # "missing"
    /\ configured' = p
    /\ IF trackers # NoEntry /\ entry[trackers].path = p
       THEN UNCHANGED <<trackers, entry>>
       ELSE \E e \in Entries :
              /\ ~entry[e].made /\ \A f \in Entries : ~entry[f].made => e <= f
              /\ trackers' = e
              /\ entry' = [entry EXCEPT ![e] = [path |-> p, made |-> TRUE, initialized |-> FALSE,
                                                repo |-> FALSE, state |-> "unavailable"]]
    /\ UNCHANGED <<disk, mutex, caller, ready, moves, lookups>>
UnregisterWorkspace ==
    /\ trackers # NoEntry /\ trackers' = NoEntry
    /\ UNCHANGED <<disk, configured, entry, mutex, caller, ready, moves, lookups>>

\* --- A call: find the entry, take its mutex, look if it must, store ------------

Lookup(c, op) ==
    /\ lookups < MaxLookups /\ lookups' = lookups + 1
    /\ caller[c].at = "idle" /\ trackers # NoEntry
    /\ caller' = [caller EXCEPT ![c] = [FreeAt(caller[c].p) EXCEPT !.at = "lock", !.op = op, !.e = trackers]]
    /\ UNCHANGED <<disk, configured, trackers, entry, mutex, ready, moves>>
GetTracker(c) == Lookup(c, "get")
GetTrackerInfo(c) == Lookup(c, "info")
CheckTrackerHealth(c) == Lookup(c, "health")

Done(c) == caller' = [caller EXCEPT ![c] = FreeAt(configured)]

\* Mutant of Lock: the entry's mutex is not held while the directory is looked at.
LockForAMoment(c) ==
    /\ caller[c].at = "lock"
    /\ LET e == caller[c].e IN
          IF \/ caller[c].op \in {"get", "info"} /\ entry[e].initialized
             \/ caller[c].op = "health" /\ ~entry[e].initialized
          THEN Done(c) /\ UNCHANGED entry
          ELSE /\ caller' = [caller EXCEPT ![c].at = "look"]
               /\ IF caller[c].op = "refresh"
                  THEN entry' = [entry EXCEPT ![e].initialized = FALSE, ![e].repo = FALSE]
                  ELSE UNCHANGED entry
    /\ UNCHANGED <<disk, configured, trackers, mutex, ready, moves, lookups>>

\* An initialized entry answers from memory; a refresh forgets what it knew.
Lock(c) ==
    /\ caller[c].at = "lock"
    /\ LET e == caller[c].e IN
          /\ mutex[e] = NoEntry
          /\ IF \/ caller[c].op \in {"get", "info"} /\ entry[e].initialized
                \/ caller[c].op = "health" /\ ~entry[e].initialized
             THEN Done(c) /\ UNCHANGED <<mutex, entry>>
             ELSE /\ mutex' = [mutex EXCEPT ![e] = c]
                  /\ caller' = [caller EXCEPT ![c].at = "look"]
                  /\ IF caller[c].op = "refresh"
                     THEN entry' = [entry EXCEPT ![e].initialized = FALSE, ![e].repo = FALSE]
                     ELSE UNCHANGED entry
    /\ UNCHANGED <<disk, configured, trackers, ready, moves, lookups>>

Look(c) ==
    /\ caller[c].at = "look"
    /\ caller' = [caller EXCEPT ![c].at = "store", ![c].found = disk[entry[caller[c].e].path]]
    /\ UNCHANGED <<disk, configured, trackers, entry, mutex, ready, moves, lookups>>

Found(f) == CASE f = "git" -> "healthy" [] f = "plain" -> "not_git" [] f = "missing" -> "unavailable"

InitializeTracker(c) ==
    /\ caller[c].at = "store" /\ caller[c].op # "health"
    /\ LET e == caller[c].e  f == caller[c].found IN
          /\ entry' = [entry EXCEPT ![e].initialized = TRUE, ![e].repo = (f = "git"),
                           ![e].state = Found(f)]
          /\ mutex' = [mutex EXCEPT ![e] = NoEntry]
    /\ ready' = IF caller[c].good THEN ready \cup {caller[c].p} ELSE ready
    /\ Done(c)
    /\ UNCHANGED <<disk, configured, trackers, moves, lookups>>

\* The health check stores a state and nothing a call is served by.
StoreHealth(c) ==
    /\ caller[c].at = "store" /\ caller[c].op = "health"
    /\ LET e == caller[c].e  f == caller[c].found IN
          /\ entry' = [entry EXCEPT ![e].state =
                           IF f = "missing" THEN "unavailable"
                           ELSE IF ~entry[e].repo THEN @
                           ELSE IF f = "git" THEN "healthy" ELSE "unhealthy"]
          /\ mutex' = [mutex EXCEPT ![e] = NoEntry]
    /\ Done(c)
    /\ UNCHANGED <<disk, configured, trackers, ready, moves, lookups>>

\* --- GitInit: look, git init, refresh --------------------------------------------

WorkspaceGitInit(c) ==
    /\ lookups < MaxLookups /\ lookups' = lookups + 1
    /\ caller[c].at = "idle" /\ trackers # NoEntry
    /\ caller' = [caller EXCEPT ![c] = [FreeAt(configured) EXCEPT !.at = "init", !.op = "refresh"]]
    /\ UNCHANGED <<disk, configured, trackers, entry, mutex, ready, moves>>

\* A directory that is a repository already is left alone, a missing one fails.
InitRepository(c) ==
    /\ caller[c].at = "init"
    /\ disk' = IF disk[caller[c].p] = "plain" THEN [disk EXCEPT ![caller[c].p] = "git"] ELSE disk
    /\ caller' = [caller EXCEPT ![c].at = "refresh", ![c].good = disk[caller[c].p] # "missing"]
    /\ UNCHANGED <<configured, trackers, entry, mutex, ready, moves, lookups>>

\* The entry is told to look again, whatever git init said.
RefreshTracker(c) ==
    /\ caller[c].at = "refresh"
    /\ IF trackers = NoEntry THEN Done(c)
       ELSE caller' = [caller EXCEPT ![c].at = "lock", ![c].e = trackers]
    /\ UNCHANGED <<disk, configured, trackers, entry, mutex, ready, moves, lookups>>

\* --- The others: directories come and go, git init at a terminal --------------------

Move(p) ==
    /\ moves < MaxDiskSteps /\ moves' = moves + 1
    /\ \E d \in {"missing", "plain", "git"} \ {disk[p]} : disk' = [disk EXCEPT ![p] = d]
    /\ ready' = ready \ {p}
    /\ caller' = [c \in Callers |-> [caller[c] EXCEPT !.good = @ /\ caller[c].p # p]]
    /\ UNCHANGED <<configured, trackers, entry, mutex, lookups>>

TrackersInit ==
    /\ disk \in [Paths -> {"missing", "plain", "git"}]
    /\ configured \in Paths
    /\ trackers = NoEntry
    /\ entry = [e \in Entries |-> Unused]
    /\ mutex = [e \in Entries |-> NoEntry]
    /\ caller = [c \in Callers |-> FreeAt(configured)]
    /\ ready = {} /\ moves = 0 /\ lookups = 0

TrackersNext ==
    \/ \E p \in Paths : RegisterWorkspace(p) \/ Move(p)
    \/ UnregisterWorkspace
    \/ \E c \in Callers :
          \/ GetTracker(c) \/ GetTrackerInfo(c) \/ CheckTrackerHealth(c)
          \/ Lock(c) \/ Look(c) \/ InitializeTracker(c) \/ StoreHealth(c)
          \/ WorkspaceGitInit(c) \/ InitRepository(c) \/ RefreshTracker(c)

TrackersSpec == TrackersInit /\ [][TrackersNext]_trackerVars

\* Once GitInit has made a repository of the workspace's directory and returned,
\* the calls of the workspace are not refused from memory: its entry either has
\* not looked yet or holds a tracker, whichever calls looked at the directory
\* before, and however the workspace was registered again meanwhile.
InitIsServed ==
    \A e \in Entries :
        (trackers = e /\ mutex[e] = NoEntry /\ entry[e].path \in ready /\ entry[e].initialized) => entry[e].repo
=============================================================================
