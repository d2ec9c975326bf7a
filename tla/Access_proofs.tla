--------------------------- MODULE Access_proofs ---------------------------
(***************************************************************************)
(* Proofs about what several clients ask of one record: the trackers of a  *)
(* workspace, the branches of a repository, the tokens of the phones and   *)
(* the rate limiter.                                                       *)
(***************************************************************************)
EXTENDS GitTrackers, GitBranches, DeviceAccess, RateLimiter, FiniteSetTheorems, TLAPS

-----------------------------------------------------------------------------
(* The trackers of a workspace *)

Kinds == {"missing", "plain", "git"}
EntryState == [path : Paths, made : BOOLEAN, initialized : BOOLEAN, repo : BOOLEAN,
               state : {"unavailable", "healthy", "unhealthy", "not_git"}]
CallerState == [at : {"idle", "lock", "look", "store", "init", "refresh"},
                op : {"none", "get", "info", "health", "refresh"},
                e : Entries \cup {NoEntry}, found : {"none"} \cup Kinds, p : Paths, good : BOOLEAN]

TrackerTypes ==
    /\ disk \in [Paths -> Kinds] /\ configured \in Paths
    /\ trackers \in Entries \cup {NoEntry}
    /\ entry \in [Entries -> EntryState]
    /\ mutex \in [Entries -> Callers \cup {NoEntry}]
    /\ caller \in [Callers -> CallerState]
    /\ ready \subseteq Paths

\* A call works on an entry somebody made, and looks at the directory only while
\* it holds the entry's mutex.
CallsArePlaced ==
    /\ trackers # NoEntry => entry[trackers].made
    /\ \A c \in Callers :
          /\ caller[c].at \in {"lock", "look", "store"} =>
                caller[c].e \in Entries /\ entry[caller[c].e].made
          /\ caller[c].at \in {"look", "store"} => mutex[caller[c].e] = c
          /\ caller[c].at = "store" => caller[c].found \in Kinds

\* What GitInit has made of a directory is still there.
ReadyIsGit ==
    /\ \A d \in ready : disk[d] = "git"
    /\ \A c \in Callers : caller[c].good =>
          /\ caller[c].at \in {"refresh", "lock", "look", "store"}
          /\ caller[c].op = "refresh"
          /\ disk[caller[c].p] = "git"

\* An entry does not refuse from memory, and no call is about to make it.
Serves(e) ==
    /\ entry[e].initialized => entry[e].repo
    /\ \A c \in Callers :
          (caller[c].at = "store" /\ caller[c].e = e /\ caller[c].op # "health") => caller[c].found = "git"

\* The workspace's entry serves a directory that GitInit made a repository of
\* and, when a GitInit has been given another entry to tell, the one it works
\* on; that GitInit itself finds the repository it made.
EntryServes ==
    /\ trackers # NoEntry /\ entry[trackers].path \in ready => Serves(trackers)
    /\ \A c \in Callers :
          caller[c].good /\ caller[c].at \in {"lock", "look", "store"} =>
             /\ (trackers # NoEntry /\ trackers # caller[c].e /\ entry[trackers].path = caller[c].p)
                   => Serves(trackers)
             /\ (caller[c].at = "store" /\ entry[caller[c].e].path = caller[c].p)
                   => caller[c].found = "git"

TrackersInv == TrackerTypes /\ CallsArePlaced /\ ReadyIsGit /\ EntryServes

\* An entry after a look and a call on its way are still of their types.
LEMMA EntryUpdated ==
  ASSUME NEW f \in [Entries -> EntryState], NEW e \in Entries, NEW i \in BOOLEAN, NEW r \in BOOLEAN,
         NEW s \in {"unavailable", "healthy", "unhealthy", "not_git"}
  PROVE  /\ [f EXCEPT ![e].initialized = i, ![e].repo = r] \in [Entries -> EntryState]
         /\ [f EXCEPT ![e].initialized = i, ![e].repo = r, ![e].state = s] \in [Entries -> EntryState]
<1> DEFINE g == [f EXCEPT ![e].initialized = i]
           h == [g EXCEPT ![e].repo = r]
<1>1. g \in [Entries -> EntryState]
  BY DEF EntryState
<1> HIDE DEF g
<1>2. h \in [Entries -> EntryState]
  BY <1>1 DEF EntryState
<1>3. h = [f EXCEPT ![e].initialized = i, ![e].repo = r]
  BY DEF g
<1> HIDE DEF h
<1>4. [h EXCEPT ![e].state = s] \in [Entries -> EntryState]
  BY <1>2 DEF EntryState
<1>5. [h EXCEPT ![e].state = s] = [f EXCEPT ![e].initialized = i, ![e].repo = r, ![e].state = s]
  BY DEF g, h
<1> QED BY <1>2, <1>3, <1>4, <1>5

\* A caller of the trackers that moves on, or that has found a directory, keeps its type.
LEMMA CallerUpdated ==
  ASSUME NEW f \in [Callers -> CallerState], NEW c \in Callers,
         NEW k \in {"idle", "lock", "look", "store", "init", "refresh"},
         NEW n \in Entries \cup {NoEntry}
  PROVE  /\ [f EXCEPT ![c].at = k, ![c].e = n] \in [Callers -> CallerState]
         /\ \A d \in Kinds : [f EXCEPT ![c].at = k, ![c].found = d] \in [Callers -> CallerState]
<1> DEFINE g == [f EXCEPT ![c].at = k]
<1>1. g \in [Callers -> CallerState]
  BY DEF CallerState
<1> HIDE DEF g
<1>2. /\ [g EXCEPT ![c].e = n] \in [Callers -> CallerState]
      /\ \A d \in Kinds : [g EXCEPT ![c].found = d] \in [Callers -> CallerState]
  BY <1>1 DEF CallerState
<1> QED BY <1>2 DEF g

\* No entry and no call: the invariant holds at the start.
LEMMA TrackersBegin == TrackersInit => TrackersInv
  BY EntriesAssumption DEF TrackersInit, TrackersInv, TrackerTypes, CallsArePlaced, ReadyIsGit, EntryServes,
     Serves, FreeAt, Unused, Kinds, EntryState, CallerState

\* Every look, store, replacement and GitInit keeps the invariant (git_tracker_manager.go).
LEMMA TrackersGoOn ==
  ASSUME TrackersInv, [TrackersNext]_trackerVars PROVE TrackersInv'
<1> USE DEF TrackersInv
<1>1. ASSUME NEW p \in Paths, RegisterWorkspace(p) PROVE TrackersInv'
  <2> DEFINE New == [path |-> p, made |-> TRUE, initialized |-> FALSE, repo |-> FALSE, state |-> "unavailable"]
  <2>a. \/ UNCHANGED <<trackers, entry>> /\ trackers # NoEntry
        \/ \E e \in Entries : ~entry[e].made /\ trackers' = e /\ entry' = [entry EXCEPT ![e] = New]
    BY <1>1 DEF RegisterWorkspace
  <2>b. New \in EntryState
    BY <1>1 DEF EntryState
  <2>c. configured' = p /\ UNCHANGED <<disk, mutex, caller, ready>>
    BY <1>1 DEF RegisterWorkspace
  <2> HIDE DEF New
  <2>d. New.made /\ ~New.initialized
    BY DEF New
  <2>1. TrackerTypes'
    BY <1>1, <2>a, <2>b, <2>c DEF TrackerTypes
  <2>2. CallsArePlaced'
    <3>1. CASE UNCHANGED <<trackers, entry>>
      BY <3>1, <2>c DEF CallsArePlaced
    <3>2. ASSUME NEW e \in Entries, ~entry[e].made, trackers' = e, entry' = [entry EXCEPT ![e] = New]
          PROVE CallsArePlaced'
      BY <3>2, <2>c, <2>d DEF CallsArePlaced, TrackerTypes
    <3> QED BY <2>a, <3>1, <3>2
  <2>3. ReadyIsGit'
    BY <1>1, EntriesAssumption DEF TrackerTypes, Kinds, EntryState, CallerState, CallsArePlaced, ReadyIsGit, RegisterWorkspace
  <2>4. EntryServes'
    <3>1. CASE UNCHANGED <<trackers, entry>>
      BY <3>1, <2>c DEF EntryServes, Serves
    <3>2. ASSUME NEW e \in Entries, ~entry[e].made, trackers' = e, entry' = [entry EXCEPT ![e] = New]
          PROVE EntryServes'
      <4>1. \A c \in Callers : caller[c].at \in {"lock", "look", "store"} => caller[c].e # e
        BY <3>2 DEF CallsArePlaced
      <4>2. Serves(trackers)'
        BY <4>1, <3>2, <2>c, <2>d DEF Serves, TrackerTypes
      <4>3. \A c \in Callers : caller[c].at = "store" => entry'[caller[c].e] = entry[caller[c].e]
        BY <4>1, <3>2 DEF TrackerTypes, CallsArePlaced
      <4> QED BY <4>2, <4>3, <2>c DEF EntryServes
    <3> QED BY <2>a, <3>1, <3>2
  <2> QED BY <2>1, <2>2, <2>3, <2>4
<1>2. ASSUME NEW p \in Paths, Move(p) PROVE TrackersInv'
  <2>a. caller' = [c \in Callers |-> [caller[c] EXCEPT !.good = caller[c].good /\ caller[c].p # p]]
    BY <1>2 DEF Move
  <2>b. PICK d \in Kinds : disk' = [disk EXCEPT ![p] = d]
    BY <1>2 DEF Move, Kinds
  <2>c. \A c \in Callers : /\ caller'[c] = [caller[c] EXCEPT !.good = caller[c].good /\ caller[c].p # p]
                           /\ caller'[c] \in CallerState
    <3> SUFFICES ASSUME NEW c \in Callers PROVE [caller[c] EXCEPT !.good = caller[c].good /\ caller[c].p # p] \in CallerState
      BY <2>a
    <3> DEFINE g == caller[c].good /\ caller[c].p # p
    <3>1. g \in BOOLEAN
      OBVIOUS
    <3> HIDE DEF g
    <3>2. [caller[c] EXCEPT !.good = g] \in CallerState
      BY <3>1 DEF TrackerTypes, CallerState
    <3> QED BY <3>2 DEF g
  <2>d. \A c \in Callers : /\ caller'[c].at = caller[c].at /\ caller'[c].op = caller[c].op
                           /\ caller'[c].e = caller[c].e /\ caller'[c].p = caller[c].p
                           /\ caller'[c].found = caller[c].found
                           /\ caller'[c].good => caller[c].good /\ caller[c].p # p
    <3> SUFFICES ASSUME NEW c \in Callers
                 PROVE  LET r == [caller[c] EXCEPT !.good = caller[c].good /\ caller[c].p # p] IN
                           /\ r.at = caller[c].at /\ r.op = caller[c].op /\ r.e = caller[c].e
                           /\ r.p = caller[c].p /\ r.found = caller[c].found
                           /\ r.good => caller[c].good /\ caller[c].p # p
      BY <2>c
    <3> QED BY DEF TrackerTypes, CallerState
  <2>e. ready' = ready \ {p} /\ UNCHANGED <<configured, trackers, entry, mutex>>
    BY <1>2 DEF Move
  <2>1. TrackerTypes'
    BY <2>a, <2>b, <2>c, <2>e DEF TrackerTypes
  <2>2. CallsArePlaced'
    BY <2>d, <2>e DEF CallsArePlaced
  <2>3. ReadyIsGit'
    BY <2>b, <2>d, <2>e DEF TrackerTypes, ReadyIsGit
  <2>4. EntryServes'
    BY <2>d, <2>e DEF EntryServes, Serves
  <2> QED BY <2>1, <2>2, <2>3, <2>4
<1>3. ASSUME UnregisterWorkspace PROVE TrackersInv'
  <2>1. TrackerTypes'
    BY <1>3, EntriesAssumption DEF TrackerTypes, Kinds, EntryState, CallerState, UnregisterWorkspace
  <2>2. CallsArePlaced'
    BY <1>3, EntriesAssumption DEF TrackerTypes, Kinds, EntryState, CallerState, CallsArePlaced, UnregisterWorkspace
  <2>3. ReadyIsGit'
    BY <1>3, EntriesAssumption DEF TrackerTypes, Kinds, EntryState, CallerState, CallsArePlaced, ReadyIsGit, UnregisterWorkspace
  <2>4. EntryServes'
    BY <1>3, EntriesAssumption DEF TrackerTypes, Kinds, EntryState, CallerState, CallsArePlaced, ReadyIsGit, EntryServes, Serves, UnregisterWorkspace
  <2> QED BY <2>1, <2>2, <2>3, <2>4
<1>4. ASSUME NEW c \in Callers, GetTracker(c) PROVE TrackersInv'
  <2>1. TrackerTypes'
    BY <1>4, EntriesAssumption DEF TrackerTypes, Kinds, EntryState, CallerState, GetTracker, Lookup, FreeAt
  <2>2. CallsArePlaced'
    BY <1>4, EntriesAssumption DEF TrackerTypes, Kinds, EntryState, CallerState, CallsArePlaced, GetTracker, Lookup, FreeAt
  <2>3. ReadyIsGit'
    BY <1>4, EntriesAssumption DEF TrackerTypes, Kinds, EntryState, CallerState, CallsArePlaced, ReadyIsGit, GetTracker, Lookup, FreeAt
  <2>4. EntryServes'
    BY <1>4, EntriesAssumption DEF TrackerTypes, Kinds, EntryState, CallerState, CallsArePlaced, ReadyIsGit, EntryServes, Serves, GetTracker, Lookup, FreeAt
  <2> QED BY <2>1, <2>2, <2>3, <2>4
<1>5. ASSUME NEW c \in Callers, GetTrackerInfo(c) PROVE TrackersInv'
  <2>1. TrackerTypes'
    BY <1>5, EntriesAssumption DEF TrackerTypes, Kinds, EntryState, CallerState, GetTrackerInfo, Lookup, FreeAt
  <2>2. CallsArePlaced'
    BY <1>5, EntriesAssumption DEF TrackerTypes, Kinds, EntryState, CallerState, CallsArePlaced, GetTrackerInfo, Lookup, FreeAt
  <2>3. ReadyIsGit'
    BY <1>5, EntriesAssumption DEF TrackerTypes, Kinds, EntryState, CallerState, CallsArePlaced, ReadyIsGit, GetTrackerInfo, Lookup, FreeAt
  <2>4. EntryServes'
    BY <1>5, EntriesAssumption DEF TrackerTypes, Kinds, EntryState, CallerState, CallsArePlaced, ReadyIsGit, EntryServes, Serves, GetTrackerInfo, Lookup, FreeAt
  <2> QED BY <2>1, <2>2, <2>3, <2>4
<1>6. ASSUME NEW c \in Callers, CheckTrackerHealth(c) PROVE TrackersInv'
  <2>1. TrackerTypes'
    BY <1>6, EntriesAssumption DEF TrackerTypes, Kinds, EntryState, CallerState, CheckTrackerHealth, Lookup, FreeAt
  <2>2. CallsArePlaced'
    BY <1>6, EntriesAssumption DEF TrackerTypes, Kinds, EntryState, CallerState, CallsArePlaced, CheckTrackerHealth, Lookup, FreeAt
  <2>3. ReadyIsGit'
    BY <1>6, EntriesAssumption DEF TrackerTypes, Kinds, EntryState, CallerState, CallsArePlaced, ReadyIsGit, CheckTrackerHealth, Lookup, FreeAt
  <2>4. EntryServes'
    BY <1>6, EntriesAssumption DEF TrackerTypes, Kinds, EntryState, CallerState, CallsArePlaced, ReadyIsGit, EntryServes, Serves, CheckTrackerHealth, Lookup, FreeAt
  <2> QED BY <2>1, <2>2, <2>3, <2>4
<1>7. ASSUME NEW c \in Callers, Lock(c) PROVE TrackersInv'
  <2> DEFINE e == caller[c].e
  <2>a. e \in Entries /\ caller[c].at = "lock" /\ mutex[e] = NoEntry
    BY <1>7 DEF Lock, CallsArePlaced
  <2>b. UNCHANGED <<disk, configured, trackers, ready>>
    BY <1>7 DEF Lock
  <2>c. \/ Done(c) /\ UNCHANGED <<mutex, entry>>
        \/ /\ mutex' = [mutex EXCEPT ![e] = c]
           /\ caller' = [caller EXCEPT ![c].at = "look"]
           /\ \/ UNCHANGED entry
              \/ entry' = [entry EXCEPT ![e].initialized = FALSE, ![e].repo = FALSE]
    BY <1>7 DEF Lock
  <2>d. CASE Done(c) /\ UNCHANGED <<mutex, entry>>
    <3>1. TrackerTypes'
      BY <2>d, <2>b DEF Done, FreeAt, TrackerTypes, CallerState, Kinds
    <3>2. CallsArePlaced' /\ ReadyIsGit' /\ EntryServes'
      BY <2>d, <2>b DEF Done, FreeAt, TrackerTypes, CallsArePlaced, ReadyIsGit, EntryServes, Serves
    <3> QED BY <3>1, <3>2
  <2>e. ASSUME mutex' = [mutex EXCEPT ![e] = c], caller' = [caller EXCEPT ![c].at = "look"],
               UNCHANGED entry \/ entry' = [entry EXCEPT ![e].initialized = FALSE, ![e].repo = FALSE]
        PROVE  TrackersInv'
    <3>1. caller' \in [Callers -> CallerState]
      BY <2>e, SMTT(40) DEF TrackerTypes, CallerState
    <3>a. entry' \in [Entries -> EntryState]
      <4>1. /\ entry \in [Entries -> EntryState] /\ e \in Entries /\ FALSE \in BOOLEAN
            /\ "healthy" \in {"unavailable", "healthy", "unhealthy", "not_git"}
        BY <2>a DEF TrackerTypes
      <4> HIDE DEF e
      <4>2. [entry EXCEPT ![e].initialized = FALSE, ![e].repo = FALSE] \in [Entries -> EntryState]
        BY <4>1, EntryUpdated, Zenon
      <4> QED BY <4>1, <4>2, <2>e
    <3>b. \A f \in Entries : /\ entry'[f].path = entry[f].path /\ entry'[f].made = entry[f].made
                             /\ (entry[f].initialized => entry[f].repo) => (entry'[f].initialized => entry'[f].repo)
      BY <2>a, <2>e DEF TrackerTypes, EntryState
    <3>2. /\ entry' \in [Entries -> EntryState]
          /\ \A f \in Entries : /\ entry'[f].path = entry[f].path /\ entry'[f].made = entry[f].made
                                /\ (entry[f].initialized => entry[f].repo) => (entry'[f].initialized => entry'[f].repo)
      BY <3>a, <3>b
    <3>3. mutex' \in [Entries -> Callers \cup {NoEntry}]
      BY <2>e DEF TrackerTypes
    <3>4. \A b \in Callers : /\ caller'[b].op = caller[b].op /\ caller'[b].e = caller[b].e
                             /\ caller'[b].p = caller[b].p /\ caller'[b].found = caller[b].found
                             /\ caller'[b].good = caller[b].good
                             /\ caller'[b].at = IF b = c THEN "look" ELSE caller[b].at
      BY <2>e DEF TrackerTypes, CallerState
    <3>5. TrackerTypes'
      BY <3>1, <3>2, <3>3, <2>b DEF TrackerTypes
    <3>6. CallsArePlaced'
      BY <3>2, <3>4, <2>a, <2>b, <2>e, EntriesAssumption DEF TrackerTypes, CallsArePlaced
    <3>7. ReadyIsGit'
      BY <3>4, <2>a, <2>b DEF ReadyIsGit
    <3>8. EntryServes'
      BY <3>2, <3>4, <2>a, <2>b DEF TrackerTypes, CallsArePlaced, EntryServes, Serves
    <3> QED BY <3>5, <3>6, <3>7, <3>8
  <2>1. TrackerTypes'
    BY <2>c, <2>d, <2>e
  <2>2. CallsArePlaced'
    BY <2>c, <2>d, <2>e
  <2>3. ReadyIsGit'
    BY <2>c, <2>d, <2>e
  <2>4. EntryServes'
    BY <2>c, <2>d, <2>e
  <2> QED BY <2>1, <2>2, <2>3, <2>4
<1>8. ASSUME NEW c \in Callers, Look(c) PROVE TrackersInv'
  <2>1. TrackerTypes'
    <3>1. disk[entry[caller[c].e].path] \in Kinds
      BY <1>8 DEF Look, TrackerTypes, CallsArePlaced, EntryState
    <3>2. caller \in [Callers -> CallerState] /\ "store" \in {"idle", "lock", "look", "store", "init", "refresh"}
      BY DEF TrackerTypes
    <3>3. [caller EXCEPT ![c].at = "store", ![c].found = disk[entry[caller[c].e].path]] \in [Callers -> CallerState]
      <4>1. NoEntry \in Entries \cup {NoEntry}
        OBVIOUS
      <4> QED BY <3>1, <3>2, <4>1, CallerUpdated, Zenon
    <3> QED BY <3>3, <1>8 DEF Look, TrackerTypes
  <2>2. CallsArePlaced'
    BY <1>8, EntriesAssumption DEF TrackerTypes, Kinds, EntryState, CallerState, CallsArePlaced, Look
  <2>3. ReadyIsGit'
    BY <1>8, EntriesAssumption DEF TrackerTypes, Kinds, EntryState, CallerState, CallsArePlaced, ReadyIsGit, Look
  <2>4. EntryServes'
    BY <1>8, EntriesAssumption DEF TrackerTypes, Kinds, EntryState, CallerState, CallsArePlaced, ReadyIsGit, EntryServes, Serves, Look
  <2> QED BY <2>1, <2>2, <2>3, <2>4
<1>9. ASSUME NEW c \in Callers, InitializeTracker(c) PROVE TrackersInv'
  <2>1. TrackerTypes'
    <3>1. /\ caller[c].e \in Entries
          /\ Found(caller[c].found) \in {"healthy", "not_git", "unavailable"}
          /\ caller[c].p \in Paths
      BY <1>9 DEF InitializeTracker, CallsArePlaced, Found, Kinds, TrackerTypes, CallerState
    <3>2. entry' \in [Entries -> EntryState]
      <4> DEFINE e == caller[c].e
                 f == caller[c].found
                 r == f = "git"
      <4>1. /\ entry \in [Entries -> EntryState] /\ e \in Entries /\ TRUE \in BOOLEAN /\ r \in BOOLEAN
            /\ Found(f) \in {"unavailable", "healthy", "unhealthy", "not_git"}
        BY <3>1 DEF TrackerTypes
      <4>2. entry' = [entry EXCEPT ![e].initialized = TRUE, ![e].repo = r, ![e].state = Found(f)]
        BY <1>9 DEF InitializeTracker
      <4> HIDE DEF e, f, r
      <4>3. [entry EXCEPT ![e].initialized = TRUE, ![e].repo = r, ![e].state = Found(f)] \in [Entries -> EntryState]
        BY <4>1, EntryUpdated, ZenonT(40)
      <4> QED BY <4>2, <4>3
    <3>3. caller' \in [Callers -> CallerState]
      BY <1>9 DEF InitializeTracker, Done, FreeAt, TrackerTypes, CallerState
    <3> QED BY <3>1, <3>2, <3>3, <1>9 DEF InitializeTracker, TrackerTypes
  <2>2. CallsArePlaced'
    BY <1>9, EntriesAssumption DEF TrackerTypes, Kinds, EntryState, CallerState, CallsArePlaced, InitializeTracker, Done, FreeAt, Found
  <2>3. ReadyIsGit'
    BY <1>9, EntriesAssumption DEF TrackerTypes, Kinds, EntryState, CallerState, CallsArePlaced, ReadyIsGit, InitializeTracker, Done, FreeAt, Found
  <2>4. EntryServes'
    BY <1>9, EntriesAssumption DEF TrackerTypes, Kinds, EntryState, CallerState, CallsArePlaced, ReadyIsGit, EntryServes, Serves, InitializeTracker, Done, FreeAt, Found
  <2> QED BY <2>1, <2>2, <2>3, <2>4
<1>10. ASSUME NEW c \in Callers, StoreHealth(c) PROVE TrackersInv'
  <2>1. TrackerTypes'
    <3>1. caller[c].e \in Entries
      BY <1>10 DEF StoreHealth, CallsArePlaced
    <3>2. entry' \in [Entries -> EntryState]
      BY <3>1, <1>10 DEF StoreHealth, TrackerTypes, EntryState
    <3>3. caller' \in [Callers -> CallerState]
      BY <1>10 DEF StoreHealth, Done, FreeAt, TrackerTypes, CallerState
    <3> QED BY <3>1, <3>2, <3>3, <1>10 DEF StoreHealth, TrackerTypes
  <2>2. CallsArePlaced'
    BY <1>10, EntriesAssumption DEF TrackerTypes, Kinds, EntryState, CallerState, CallsArePlaced, StoreHealth, Done, FreeAt
  <2>3. ReadyIsGit'
    BY <1>10, EntriesAssumption DEF TrackerTypes, Kinds, EntryState, CallerState, CallsArePlaced, ReadyIsGit, StoreHealth, Done, FreeAt
  <2>4. EntryServes'
    BY <1>10, EntriesAssumption DEF TrackerTypes, Kinds, EntryState, CallerState, CallsArePlaced, ReadyIsGit, EntryServes, Serves, StoreHealth, Done, FreeAt
  <2> QED BY <2>1, <2>2, <2>3, <2>4
<1>11. ASSUME NEW c \in Callers, WorkspaceGitInit(c) PROVE TrackersInv'
  <2>1. TrackerTypes'
    BY <1>11, EntriesAssumption DEF TrackerTypes, Kinds, EntryState, CallerState, WorkspaceGitInit, FreeAt
  <2>2. CallsArePlaced'
    BY <1>11, EntriesAssumption DEF TrackerTypes, Kinds, EntryState, CallerState, CallsArePlaced, WorkspaceGitInit, FreeAt
  <2>3. ReadyIsGit'
    BY <1>11, EntriesAssumption DEF TrackerTypes, Kinds, EntryState, CallerState, CallsArePlaced, ReadyIsGit, WorkspaceGitInit, FreeAt
  <2>4. EntryServes'
    BY <1>11, EntriesAssumption DEF TrackerTypes, Kinds, EntryState, CallerState, CallsArePlaced, ReadyIsGit, EntryServes, Serves, WorkspaceGitInit, FreeAt
  <2> QED BY <2>1, <2>2, <2>3, <2>4
<1>12. ASSUME NEW c \in Callers, InitRepository(c) PROVE TrackersInv'
  <2>1. TrackerTypes'
    <3>1. caller' \in [Callers -> CallerState]
      <4> DEFINE u == [caller[c] EXCEPT !.at = "refresh", !.good = disk[caller[c].p] # "missing"]
      <4>1. caller[c] \in CallerState /\ caller \in [Callers -> CallerState]
        BY DEF TrackerTypes
      <4>2. u \in CallerState
        BY <4>1 DEF CallerState
      <4>3. caller' = [caller EXCEPT ![c] = u]
        BY <1>12, <4>1 DEF InitRepository
      <4> HIDE DEF u
      <4> QED BY <4>1, <4>2, <4>3
    <3>2. disk' \in [Paths -> Kinds]
      BY <1>12 DEF InitRepository, TrackerTypes, Kinds
    <3> QED BY <3>1, <3>2, <1>12 DEF InitRepository, TrackerTypes
  <2>2. CallsArePlaced'
    BY <1>12, EntriesAssumption DEF TrackerTypes, Kinds, EntryState, CallerState, CallsArePlaced, InitRepository
  <2>3. ReadyIsGit'
    BY <1>12, EntriesAssumption DEF TrackerTypes, Kinds, EntryState, CallerState, CallsArePlaced, ReadyIsGit, InitRepository
  <2>4. EntryServes'
    BY <1>12, EntriesAssumption DEF TrackerTypes, Kinds, EntryState, CallerState, CallsArePlaced, ReadyIsGit, EntryServes, Serves, InitRepository
  <2> QED BY <2>1, <2>2, <2>3, <2>4
<1>13. ASSUME NEW c \in Callers, RefreshTracker(c) PROVE TrackersInv'
  <2>1. TrackerTypes'
    <3>1. CASE Done(c)
      BY <3>1, <1>13 DEF RefreshTracker, Done, FreeAt, TrackerTypes, CallerState
    <3>2. CASE caller' = [caller EXCEPT ![c].at = "lock", ![c].e = trackers]
      <4>1. /\ caller \in [Callers -> CallerState] /\ trackers \in Entries \cup {NoEntry}
            /\ "lock" \in {"idle", "lock", "look", "store", "init", "refresh"}
        BY DEF TrackerTypes
      <4>2. [caller EXCEPT ![c].at = "lock", ![c].e = trackers] \in [Callers -> CallerState]
        BY <4>1, CallerUpdated, Zenon
      <4> QED BY <3>2, <4>2, <1>13 DEF RefreshTracker, TrackerTypes
    <3> QED BY <3>1, <3>2, <1>13 DEF RefreshTracker
  <2>2. CallsArePlaced'
    BY <1>13, EntriesAssumption DEF TrackerTypes, Kinds, EntryState, CallerState, CallsArePlaced, RefreshTracker, Done, FreeAt
  <2>3. ReadyIsGit'
    BY <1>13, EntriesAssumption, SMTT(40) DEF TrackerTypes, Kinds, EntryState, CallerState, CallsArePlaced, ReadyIsGit, RefreshTracker, Done, FreeAt
  <2>4. EntryServes'
    BY <1>13, EntriesAssumption, SMTT(40) DEF TrackerTypes, Kinds, EntryState, CallerState, CallsArePlaced, ReadyIsGit, EntryServes, Serves, RefreshTracker, Done, FreeAt
  <2> QED BY <2>1, <2>2, <2>3, <2>4
<1>14. CASE UNCHANGED trackerVars
  BY <1>14 DEF trackerVars, CallerState, CallsArePlaced, EntryServes, EntryState, Kinds, ReadyIsGit, Serves, TrackerTypes
<1> QED
  BY <1>1, <1>2, <1>3, <1>4, <1>5, <1>6, <1>7, <1>8, <1>9, <1>10, <1>11, <1>12, <1>13, <1>14 DEF TrackersNext

\* Whatever the calls, the registrations and the directories do.
THEOREM TrackersInvariance == TrackersSpec => []TrackersInv
<1>1. TrackersInv /\ [TrackersNext]_trackerVars => TrackersInv'
  BY TrackersGoOn
<1> QED
  BY <1>1, TrackersBegin, PTL DEF TrackersSpec

\* What GitInit has made of a directory serves the calls of the workspace, which
\* are not refused from what was known before (GitTrackerManager.RefreshTracker).
THEOREM InitIsAlwaysServed == TrackersSpec => []InitIsServed
<1>1. TrackersInv => InitIsServed
  BY EntriesAssumption DEF TrackersInv, TrackerTypes, EntryServes, Serves, InitIsServed
<1> QED
  BY <1>1, TrackersInvariance, PTL

-----------------------------------------------------------------------------
(* The branches of a repository *)

Tips == (SUBSET Changes) \cup {None}
CallState == [at : {"idle", "checkout", "switch", "publish", "delete", "remove"},
              branch : Branches \cup {None}, from : Branches \cup {None},
              create : BOOLEAN, force : BOOLEAN, told : BOOLEAN]

BranchTypes ==
    /\ tips \in [Branches -> Tips] /\ remote \in [Branches -> Tips] /\ tracked \in [Branches -> Tips]
    /\ cur \in Branches /\ upstream \subseteq Branches
    /\ incoming \subseteq Changes /\ destroyed \subseteq Changes
    /\ call \in [Clients -> CallState]
    /\ \A c \in Clients : call[c].at # "idle" => call[c].branch \in Branches
    /\ crossed \in BOOLEAN

StashTypes ==
    /\ stash \in Seq(Nat)
    /\ seen \in [Clients -> [list : Seq(Nat), fresh : BOOLEAN]]
    /\ taken \in [wanted : Nat, got : Nat, fresh : BOOLEAN]

\* The branch checked out exists, and what was fetched of a branch is on the server.
RefsAreKept ==
    /\ tips[cur] # None
    /\ \A b \in Branches : tracked[b] # None => remote[b] # None /\ tracked[b] \subseteq remote[b]

Checks(c) == call[c].at \in {"checkout", "switch", "publish"}

\* One checkout runs at a time, knows where it came from and has been there when
\* it publishes.
OneChecksOut ==
    ~crossed =>
        /\ \A c, d \in Clients : Checks(c) /\ Checks(d) => c = d
        /\ (\A c \in Clients : call[c].at # "publish") => shown = cur
        /\ \A c \in Clients :
              /\ Checks(c) => call[c].told
              /\ call[c].at \in {"switch", "publish"} => call[c].from \in {shown, None}
              /\ call[c].at = "publish" => call[c].branch = cur

\* A list nothing has moved since it was read is the stash.
FreshIsStash ==
    /\ \A c \in Clients : seen[c].fresh => seen[c].list = stash
    /\ taken.fresh => taken.wanted = taken.got

BranchesInv == BranchTypes /\ StashTypes /\ RefsAreKept /\ OneChecksOut /\ FreshIsStash

\* The invariant holds in every repository that TLC starts from, and in more.
LEMMA BranchesBegin == Init => BranchesInv
<1> SUFFICES ASSUME Init PROVE BranchesInv
  OBVIOUS
<1>1. {} \in Tips /\ None \in Tips
  BY DEF Tips
<1>2. BranchTypes /\ RefsAreKept
  BY <1>1, BranchesAssumption DEF Init, BranchTypes, RefsAreKept, CallState, NoCall
<1>3. StashTypes /\ FreshIsStash
  <2>1. <<>> \in Seq(Nat) /\ <<2, 1>> \in Seq(Nat)
    OBVIOUS
  <2>2. stash \in Seq(Nat)
    BY <2>1 DEF Init
  <2>3. seen \in [Clients -> [list : Seq(Nat), fresh : BOOLEAN]]
    BY <2>1 DEF Init
  <2> QED BY <2>2, <2>3 DEF Init, StashTypes, FreshIsStash
<1>4. OneChecksOut
  BY DEF Init, OneChecksOut, Checks, NoCall
<1> QED BY <1>2, <1>3, <1>4 DEF BranchesInv

\* Reach holds the changes of every branch it is given.
LEMMA InReach ==
  ASSUME NEW t, NEW r, NEW k, NEW x
  PROVE  x \in Reach(t, r, k) <=>
           \E b \in Branches : \/ t[b] # None /\ x \in t[b]
                               \/ r[b] # None /\ x \in r[b]
                               \/ k[b] # None /\ x \in k[b]
  BY DEF Reach

\* What branches here, on the server and as last fetched hold are changes.
LEMMA ReachIsOfChanges ==
  ASSUME NEW t \in [Branches -> Tips], NEW r \in [Branches -> Tips], NEW k \in [Branches -> Tips]
  PROVE  Reach(t, r, k) \subseteq Changes
<1> SUFFICES ASSUME NEW x \in Reach(t, r, k) PROVE x \in Changes
  OBVIOUS
<1>1. PICK b \in Branches : \/ t[b] # None /\ x \in t[b]
                            \/ r[b] # None /\ x \in r[b]
                            \/ k[b] # None /\ x \in k[b]
  BY InReach
<1> QED BY <1>1 DEF Tips

\* Every branch of t is one of u, with at least the same changes.
Grows(t, u) == \A b \in Branches : t[b] # None => u[b] # None /\ t[b] \subseteq u[b]

\* Where no reference lost a change, nothing is reached less than before.
LEMMA ReachGrows ==
  ASSUME NEW t, NEW r, NEW k, NEW t2, NEW r2, NEW k2,
         Grows(t, t2), Grows(r, r2), Grows(k, k2) \/ Grows(k, r2)
  PROVE  Reach(t, r, k) \subseteq Reach(t2, r2, k2)
<1> SUFFICES ASSUME NEW x \in Reach(t, r, k) PROVE x \in Reach(t2, r2, k2)
  OBVIOUS
<1>1. PICK b \in Branches : \/ t[b] # None /\ x \in t[b]
                            \/ r[b] # None /\ x \in r[b]
                            \/ k[b] # None /\ x \in k[b]
  BY InReach
<1>2. \/ t2[b] # None /\ x \in t2[b]
      \/ r2[b] # None /\ x \in r2[b]
      \/ k2[b] # None /\ x \in k2[b]
  BY <1>1 DEF Grows
<1> QED BY <1>2, InReach

\* A step that only lets branches grow loses no change.
LEMMA NothingIsLost ==
  ASSUME Grows(tips, tips'), Grows(remote, remote'), Grows(tracked, tracked') \/ Grows(tracked, remote'),
         destroyed' = destroyed
  PROVE  Made \subseteq Made'
<1> DEFINE before == Reach(tips, remote, tracked)
<1>1. ASSUME NEW t, t = tips', NEW r, r = remote', NEW k, k = tracked'
      PROVE  before \subseteq Reach(tips, remote, tracked)'
  <2>1. before \subseteq Reach(t, r, k)
    BY <1>1, ReachGrows
  <2> QED BY <2>1, <1>1 DEF Reach
<1> QED BY <1>1 DEF Made

\* What a forced step loses is destroyed.
LEMMA ForcedDestroys ==
  ASSUME Forced(TRUE) PROVE Made \subseteq Made'
  BY DEF Forced, Made

\* What is destroyed by a forced command are changes.
LEMMA DestroyedIsOfChanges ==
  ASSUME BranchTypes, NEW asked \in BOOLEAN, Forced(asked) PROVE destroyed' \subseteq Changes
  BY ReachIsOfChanges DEF BranchTypes, Forced

\* A branch that takes in changes is still a branch, and lost none.
LEMMA Joined ==
  ASSUME NEW t \in [Branches -> Tips], NEW b \in Branches, t[b] # None, NEW ms \in SUBSET Changes
  PROVE  /\ [t EXCEPT ![b] = @ \cup ms] \in [Branches -> Tips]
         /\ t[b] \cup ms # None
         /\ Grows(t, [t EXCEPT ![b] = @ \cup ms])
<1>1. t[b] \in SUBSET Changes
  BY DEF Tips
<1>2. t[b] \cup ms \in SUBSET Changes
  BY <1>1
<1>3. t[b] \cup ms # None
  BY <1>2, BranchesAssumption
<1>4. t[b] \cup ms \in Tips
  BY <1>2 DEF Tips
<1> QED BY <1>3, <1>4 DEF Grows

\* A merge, rebase or fast-forward adds to the current branch and takes nothing from the
\* others.
LEMMA JoinKeeps ==
  ASSUME BranchTypes, RefsAreKept, NEW ms \in SUBSET Changes, NEW how, Join(ms, how)
  PROVE  /\ tips' \in [Branches -> Tips] /\ tips'[cur] # None /\ Grows(tips, tips')
         /\ incoming' \subseteq Changes
<1>1. CASE tips' = [tips EXCEPT ![cur] = @ \cup ms] /\ UNCHANGED merge
  <2>1. tips \in [Branches -> Tips] /\ cur \in Branches /\ tips[cur] # None
    BY DEF BranchTypes, RefsAreKept
  <2>2. tips' \in [Branches -> Tips] /\ Grows(tips, tips')
    BY <1>1, <2>1, Joined
  <2> QED BY <1>1, <2>1, <2>2 DEF BranchTypes, merge, Grows
<1>2. CASE incoming' = ms /\ UNCHANGED tips
  BY <1>2 DEF BranchTypes, RefsAreKept, Grows
<1> QED BY <1>1, <1>2 DEF Join

\* What a fetch knows of the server is on the server, and nothing known is lost with it.
LEMMA FetchedIsKept ==
  ASSUME BranchTypes, RefsAreKept, NEW prune \in BOOLEAN
  PROVE  /\ Fetched(prune) \in [Branches -> Tips]
         /\ \A b \in Branches : Fetched(prune)[b] # None =>
               remote[b] # None /\ Fetched(prune)[b] \subseteq remote[b]
         /\ Grows(tracked, remote)
  BY DEF BranchTypes, RefsAreKept, Fetched, Grows, Tips

\* A pull, by merge or by rebase, keeps the references and every change made (Pull).
LEMMA PullKeeps ==
  ASSUME BranchTypes, RefsAreKept, NEW rebase \in BOOLEAN, Pull(rebase), cur' = cur
  PROVE  /\ tips' \in [Branches -> Tips] /\ tracked' \in [Branches -> Tips] /\ incoming' \subseteq Changes
         /\ RefsAreKept' /\ Made \subseteq Made'
<1>1. remote[cur] \in SUBSET Changes
  BY DEF Pull, BranchTypes, Tips
<1>2. /\ tips' \in [Branches -> Tips] /\ tips'[cur] # None /\ Grows(tips, tips')
      /\ incoming' \subseteq Changes
  BY <1>1, JoinKeeps DEF Pull
<1>3. tracked' = Fetched(FALSE) /\ UNCHANGED <<remote, origin, upstream, destroyed>>
  BY DEF Pull
<1>4. FALSE \in BOOLEAN
  OBVIOUS
<1>5. RefsAreKept'
  BY <1>2, <1>3, <1>4, FetchedIsKept DEF RefsAreKept
<1>6. Grows(remote, remote') /\ Grows(tracked, remote')
  BY <1>3, <1>4, FetchedIsKept DEF Grows
<1> QED BY <1>2, <1>3, <1>4, <1>5, <1>6, FetchedIsKept, NothingIsLost

\* A merge of a branch keeps the references and every change made (Merge).
LEMMA MergeKeeps ==
  ASSUME BranchTypes, RefsAreKept, NEW b \in Branches, Merge(b), cur' = cur
  PROVE  /\ tips' \in [Branches -> Tips] /\ incoming' \subseteq Changes
         /\ RefsAreKept' /\ Made \subseteq Made'
<1>1. tips[b] \in SUBSET Changes
  BY DEF Merge, Exists, BranchTypes, Tips
<1>2. /\ tips' \in [Branches -> Tips] /\ tips'[cur] # None /\ Grows(tips, tips')
      /\ incoming' \subseteq Changes
  BY <1>1, JoinKeeps DEF Merge
<1>3. UNCHANGED <<remote, tracked, origin, upstream, destroyed>>
  BY DEF Merge
<1>4. RefsAreKept'
  BY <1>2, <1>3 DEF RefsAreKept
<1>5. Grows(remote, remote') /\ Grows(tracked, tracked')
  BY <1>3 DEF Grows
<1> QED BY <1>2, <1>3, <1>4, <1>5, NothingIsLost

\* A push keeps the references, and every change made unless it is forced (Push).
LEMMA PushKeeps ==
  ASSUME BranchTypes, RefsAreKept, NEW force \in BOOLEAN, NEW setUpstream \in BOOLEAN,
         Push(force, setUpstream), cur' = cur
  PROVE  /\ remote' \in [Branches -> Tips] /\ tracked' \in [Branches -> Tips] /\ upstream' \subseteq Branches
         /\ destroyed' \subseteq Changes
         /\ RefsAreKept' /\ Made \subseteq Made'
<1>1. /\ remote' = [remote EXCEPT ![cur] = tips[cur]] /\ tracked' = [tracked EXCEPT ![cur] = tips[cur]]
      /\ tips' = tips /\ upstream' \subseteq upstream \cup {cur} /\ Forced(force)
  BY DEF Push
<1>2. remote' \in [Branches -> Tips] /\ tracked' \in [Branches -> Tips] /\ upstream' \subseteq Branches
  BY <1>1 DEF BranchTypes
<1>3. destroyed' \subseteq Changes
  BY <1>1, DestroyedIsOfChanges
<1>4. RefsAreKept'
  BY <1>1 DEF BranchTypes, RefsAreKept
<1>5. CASE force
  BY <1>1, <1>2, <1>3, <1>4, <1>5, ForcedDestroys
<1>6. CASE ~force
  <2>1. ~Behind(cur) /\ destroyed' = destroyed
    BY <1>1, <1>6 DEF Push, Forced
  <2>2. Grows(remote, remote')
    BY <1>1, <2>1 DEF BranchTypes, RefsAreKept, Behind, Grows
  <2>3. Grows(tracked, tracked')
    BY <1>1, <2>1 DEF BranchTypes, RefsAreKept, Behind, Grows
  <2>4. Grows(tips, tips')
    BY <1>1 DEF Grows
  <2> QED BY <1>2, <1>3, <1>4, <2>1, <2>2, <2>3, <2>4, NothingIsLost
<1> QED BY <1>5, <1>6

\* There is a number for a new stash entry.
LEMMA NewNumber ==
  ASSUME NEW S, IsFiniteSet(S) PROVE \E n \in 1 .. (Cardinality(S) + 1) : n \notin S
<1> SUFFICES ASSUME 1 .. (Cardinality(S) + 1) \subseteq S PROVE FALSE
  OBVIOUS
<1>1. Cardinality(S) \in Nat
  BY FS_CardinalityType
<1>2. Cardinality(1 .. (Cardinality(S) + 1)) = Cardinality(S) + 1
  BY <1>1, FS_Interval
<1>3. Cardinality(1 .. (Cardinality(S) + 1)) <= Cardinality(S)
  BY FS_Subset
<1> QED BY <1>1, <1>2, <1>3

\* The entries of a stash are finitely many, so that there is a next number.
LEMMA EntriesAreFinite ==
  ASSUME NEW s \in Seq(Nat) PROVE IsFiniteSet(ToSet(s))
<1>1. IsFiniteSet(1 .. Len(s))
  BY FS_Interval
<1>2. s \in Surjection(1 .. Len(s), ToSet(s))
  BY DEF ToSet, Surjection
<1> QED BY <1>1, <1>2, FS_Surjection

\* A stash that is pushed is again a sequence of numbers (Stash).
LEMMA StashNumbers ==
  ASSUME StashTypes, Stash PROVE stash' \in Seq(Nat)
<1> DEFINE lists == {ToSet(seen[c].list) : c \in Clients}
           used == ToSet(stash) \cup (UNION lists) \cup {taken.got, taken.wanted}
           e == CHOOSE n \in 1 .. (Cardinality(used) + 1) : n \notin used
<1>1. IsFiniteSet(lists)
  <2> DEFINE f == [c \in Clients |-> ToSet(seen[c].list)]
  <2>1. f \in Surjection(Clients, lists)
    BY DEF Surjection
  <2> QED BY <2>1, ClientsAssumption, FS_Surjection
<1>2. \A L \in lists : IsFiniteSet(L)
  BY EntriesAreFinite DEF StashTypes
<1>3. IsFiniteSet(UNION lists)
  BY <1>1, <1>2, FS_UNION
<1>4. IsFiniteSet(ToSet(stash))
  BY EntriesAreFinite DEF StashTypes
<1>5. IsFiniteSet(used)
  <2>1. IsFiniteSet(ToSet(stash) \cup (UNION lists))
    BY <1>3, <1>4, FS_Union
  <2>2. IsFiniteSet((ToSet(stash) \cup (UNION lists)) \cup {taken.got})
    BY <2>1, FS_AddElement
  <2>3. IsFiniteSet(((ToSet(stash) \cup (UNION lists)) \cup {taken.got}) \cup {taken.wanted})
    BY <2>2, FS_AddElement
  <2>4. used = ((ToSet(stash) \cup (UNION lists)) \cup {taken.got}) \cup {taken.wanted}
    OBVIOUS
  <2> QED BY <2>3, <2>4
<1>6. stash' = <<e>> \o stash
  BY DEF Stash
<1> HIDE DEF used
<1>7. e \in 1 .. (Cardinality(used) + 1)
  BY <1>5, NewNumber
<1>8. e \in Nat
  BY <1>7, <1>5, FS_CardinalityType
<1> HIDE DEF e
<1> QED BY <1>6, <1>8 DEF StashTypes

\* A sequence of numbers without one of its places is one.
LEMMA RemovedIsSeq ==
  ASSUME NEW s \in Seq(Nat), NEW i \in 1 .. Len(s) PROVE RemoveAt(s, i) \in Seq(Nat)
  BY DEF RemoveAt

\* A pop or a drop keeps the stash and what the clients read of it of their types.
LEMMA RemoveEntryKeeps ==
  ASSUME StashTypes, NEW c \in Clients, NEW i \in 1 .. MaxStash, RemoveEntry(c, i) PROVE StashTypes'
<1>1. /\ i \in 1 .. Len(stash) /\ i \in 1 .. Len(seen[c].list)
      /\ stash' = RemoveAt(stash, i)
      /\ taken' = [wanted |-> seen[c].list[i], got |-> stash[i], fresh |-> seen[c].fresh]
      /\ seen' = [d \in Clients |-> [seen[d] EXCEPT !.fresh = FALSE]]
  BY DEF RemoveEntry, StashRef
<1>2. stash' \in Seq(Nat)
  BY <1>1, RemovedIsSeq DEF StashTypes
<1>3. taken' \in [wanted : Nat, got : Nat, fresh : BOOLEAN]
  <2>1. seen[c] \in [list : Seq(Nat), fresh : BOOLEAN] /\ stash \in Seq(Nat)
    BY DEF StashTypes
  <2>2. seen[c].list[i] \in Nat /\ stash[i] \in Nat /\ seen[c].fresh \in BOOLEAN
    BY <1>1, <2>1
  <2> QED BY <1>1, <2>2
<1>4. seen' \in [Clients -> [list : Seq(Nat), fresh : BOOLEAN]]
  BY <1>1 DEF StashTypes
<1> QED BY <1>2, <1>3, <1>4 DEF StashTypes

\* A checkout keeps every branch and leaves an existing one checked out.
LEMMA SwitchKeeps ==
  ASSUME BranchTypes, RefsAreKept, NEW c \in Clients, call[c].branch \in Branches,
         Switch(call[c].branch, call[c].create)
  PROVE  /\ cur' \in Branches /\ tips' \in [Branches -> Tips] /\ upstream' \subseteq Branches
         /\ tips'[cur'] # None /\ Grows(tips, tips')
<1> DEFINE b == call[c].branch
           tip == IF call[c].create THEN tips[cur] ELSE IF Exists(b) THEN tips[b] ELSE tracked[b]
<1>1. b \in Branches
  OBVIOUS
<1>2. tip \in Tips /\ tip # None /\ (tips[b] # None => tip = tips[b])
  BY <1>1 DEF Switch, Exists, BranchTypes, RefsAreKept
<1>3. cur' = b /\ tips' = [tips EXCEPT ![b] = tip] /\ upstream' \subseteq upstream \cup {b}
  BY DEF Switch
<1> HIDE DEF b, tip
<1> QED BY <1>1, <1>2, <1>3 DEF BranchTypes, Grows

\* Every git command of a client, and whatever the server does, keeps the invariant.
LEMMA BranchesGoOn ==
  ASSUME BranchesInv, [Next]_vars PROVE BranchesInv'
<1> USE DEF BranchesInv
<1>1. ASSUME WorkspaceGitPush PROVE BranchesInv'
  <2>a. \E force, setUpstream \in BOOLEAN : Push(force, setUpstream) /\ UNCHANGED <<tips, merge, cur, events>>
    BY <1>1 DEF WorkspaceGitPush, RefCall, Push
  <2>1. BranchTypes'
    BY <2>a, PushKeeps DEF BranchTypes, merge, events
  <2>2. StashTypes'
    BY <1>1 DEF StashTypes, WorkspaceGitPush, RefCall, Count, Push, Forced, refs, merge, stashes, events
  <2>3. RefsAreKept'
    BY <2>a, PushKeeps
  <2>4. OneChecksOut'
    BY <1>1 DEF BranchTypes, CallState, OneChecksOut, Checks, WorkspaceGitPush, RefCall, Count, Push, Forced, refs, merge, stashes, events
  <2>5. FreshIsStash'
    BY <1>1 DEF StashTypes, FreshIsStash, WorkspaceGitPush, RefCall, Count, Push, Forced, refs, merge, stashes, events
  <2> QED BY <2>1, <2>2, <2>3, <2>4, <2>5
<1>2. ASSUME GitServicePush PROVE BranchesInv'
  <2>a. \E force, setUpstream \in BOOLEAN : Push(force, setUpstream) /\ UNCHANGED <<tips, merge, cur, events>>
    BY <1>2 DEF GitServicePush, RefCall, Push
  <2>1. BranchTypes'
    BY <2>a, PushKeeps DEF BranchTypes, merge, events
  <2>2. StashTypes'
    BY <1>2 DEF StashTypes, GitServicePush, RefCall, Count, Push, Forced, refs, merge, stashes, events
  <2>3. RefsAreKept'
    BY <2>a, PushKeeps
  <2>4. OneChecksOut'
    BY <1>2 DEF BranchTypes, CallState, OneChecksOut, Checks, GitServicePush, RefCall, Count, Push, Forced, refs, merge, stashes, events
  <2>5. FreshIsStash'
    BY <1>2 DEF StashTypes, FreshIsStash, GitServicePush, RefCall, Count, Push, Forced, refs, merge, stashes, events
  <2> QED BY <2>1, <2>2, <2>3, <2>4, <2>5
<1>3. ASSUME HandleGitPush PROVE BranchesInv'
  <2>a. \E force, setUpstream \in BOOLEAN : Push(force, setUpstream) /\ UNCHANGED <<tips, merge, cur, events>>
    BY <1>3 DEF HandleGitPush, RefCall, Push
  <2>1. BranchTypes'
    BY <2>a, PushKeeps DEF BranchTypes, merge, events
  <2>2. StashTypes'
    BY <1>3 DEF StashTypes, HandleGitPush, RefCall, Count, Push, Forced, refs, merge, stashes, events
  <2>3. RefsAreKept'
    BY <2>a, PushKeeps
  <2>4. OneChecksOut'
    BY <1>3 DEF BranchTypes, CallState, OneChecksOut, Checks, HandleGitPush, RefCall, Count, Push, Forced, refs, merge, stashes, events
  <2>5. FreshIsStash'
    BY <1>3 DEF StashTypes, FreshIsStash, HandleGitPush, RefCall, Count, Push, Forced, refs, merge, stashes, events
  <2> QED BY <2>1, <2>2, <2>3, <2>4, <2>5
<1>4. ASSUME WorkspaceGitPull PROVE BranchesInv'
  <2>a. \E rebase \in BOOLEAN : Pull(rebase) /\ UNCHANGED <<remote, upstream, destroyed, cur, events>>
    BY <1>4 DEF WorkspaceGitPull, RefCall, Pull
  <2>1. BranchTypes'
    BY <2>a, PullKeeps DEF BranchTypes, events
  <2>2. StashTypes'
    BY <1>4 DEF StashTypes, WorkspaceGitPull, RefCall, Count, Pull, Join, Fetched, refs, merge, stashes, events
  <2>3. RefsAreKept'
    BY <2>a, PullKeeps
  <2>4. OneChecksOut'
    BY <1>4 DEF BranchTypes, CallState, OneChecksOut, Checks, WorkspaceGitPull, RefCall, Count, Pull, Join, Fetched, refs, merge, stashes, events
  <2>5. FreshIsStash'
    BY <1>4 DEF StashTypes, FreshIsStash, WorkspaceGitPull, RefCall, Count, Pull, Join, Fetched, refs, merge, stashes, events
  <2> QED BY <2>1, <2>2, <2>3, <2>4, <2>5
<1>5. ASSUME GitServicePull PROVE BranchesInv'
  <2>a. \E rebase \in BOOLEAN : Pull(rebase) /\ UNCHANGED <<remote, upstream, destroyed, cur, events>>
    BY <1>5 DEF GitServicePull, RefCall, Pull
  <2>1. BranchTypes'
    BY <2>a, PullKeeps DEF BranchTypes, events
  <2>2. StashTypes'
    BY <1>5 DEF StashTypes, GitServicePull, RefCall, Count, Pull, Join, Fetched, refs, merge, stashes, events
  <2>3. RefsAreKept'
    BY <2>a, PullKeeps
  <2>4. OneChecksOut'
    BY <1>5 DEF BranchTypes, CallState, OneChecksOut, Checks, GitServicePull, RefCall, Count, Pull, Join, Fetched, refs, merge, stashes, events
  <2>5. FreshIsStash'
    BY <1>5 DEF StashTypes, FreshIsStash, GitServicePull, RefCall, Count, Pull, Join, Fetched, refs, merge, stashes, events
  <2> QED BY <2>1, <2>2, <2>3, <2>4, <2>5
<1>6. ASSUME HandleGitPull PROVE BranchesInv'
  <2>a. \E rebase \in BOOLEAN : Pull(rebase) /\ UNCHANGED <<remote, upstream, destroyed, cur, events>>
    BY <1>6 DEF HandleGitPull, RefCall, Pull
  <2>1. BranchTypes'
    BY <2>a, PullKeeps DEF BranchTypes, events
  <2>2. StashTypes'
    BY <1>6 DEF StashTypes, HandleGitPull, RefCall, Count, Pull, Join, Fetched, refs, merge, stashes, events
  <2>3. RefsAreKept'
    BY <2>a, PullKeeps
  <2>4. OneChecksOut'
    BY <1>6 DEF BranchTypes, CallState, OneChecksOut, Checks, HandleGitPull, RefCall, Count, Pull, Join, Fetched, refs, merge, stashes, events
  <2>5. FreshIsStash'
    BY <1>6 DEF StashTypes, FreshIsStash, HandleGitPull, RefCall, Count, Pull, Join, Fetched, refs, merge, stashes, events
  <2> QED BY <2>1, <2>2, <2>3, <2>4, <2>5
<1>7. ASSUME WorkspaceGitFetch PROVE BranchesInv'
  <2>1. BranchTypes'
    BY <1>7, BranchesAssumption DEF BranchTypes, Tips, CallState, WorkspaceGitFetch, RefCall, Count, Fetch, Fetched, refs, merge, stashes, events
  <2>2. StashTypes'
    BY <1>7 DEF StashTypes, WorkspaceGitFetch, RefCall, Count, Fetch, Fetched, refs, merge, stashes, events
  <2>3. RefsAreKept'
    BY <1>7, BranchesAssumption DEF BranchTypes, RefsAreKept, WorkspaceGitFetch, RefCall, Count, Fetch, Fetched, refs, merge, stashes, events
  <2>4. OneChecksOut'
    BY <1>7 DEF BranchTypes, CallState, OneChecksOut, Checks, WorkspaceGitFetch, RefCall, Count, Fetch, Fetched, refs, merge, stashes, events
  <2>5. FreshIsStash'
    BY <1>7 DEF StashTypes, FreshIsStash, WorkspaceGitFetch, RefCall, Count, Fetch, Fetched, refs, merge, stashes, events
  <2> QED BY <2>1, <2>2, <2>3, <2>4, <2>5
<1>8. ASSUME WorkspaceGitMerge PROVE BranchesInv'
  <2>a. \E b \in Branches : Merge(b) /\ UNCHANGED <<remote, tracked, upstream, destroyed, cur, events>>
    BY <1>8 DEF WorkspaceGitMerge, RefCall, Merge
  <2>1. BranchTypes'
    BY <2>a, MergeKeeps DEF BranchTypes, events
  <2>2. StashTypes'
    BY <1>8 DEF StashTypes, WorkspaceGitMerge, RefCall, Count, Merge, Join, Exists, refs, merge, stashes, events
  <2>3. RefsAreKept'
    BY <2>a, MergeKeeps
  <2>4. OneChecksOut'
    BY <1>8 DEF BranchTypes, CallState, OneChecksOut, Checks, WorkspaceGitMerge, RefCall, Count, Merge, Join, Exists, refs, merge, stashes, events
  <2>5. FreshIsStash'
    BY <1>8 DEF StashTypes, FreshIsStash, WorkspaceGitMerge, RefCall, Count, Merge, Join, Exists, refs, merge, stashes, events
  <2> QED BY <2>1, <2>2, <2>3, <2>4, <2>5
<1>9. ASSUME WorkspaceGitMergeAbort PROVE BranchesInv'
  <2>1. BranchTypes'
    BY <1>9, BranchesAssumption DEF BranchTypes, Tips, CallState, WorkspaceGitMergeAbort, RefCall, Count, MergeAbort, refs, merge, stashes, events
  <2>2. StashTypes'
    BY <1>9 DEF StashTypes, WorkspaceGitMergeAbort, RefCall, Count, MergeAbort, refs, merge, stashes, events
  <2>3. RefsAreKept'
    BY <1>9, BranchesAssumption DEF BranchTypes, RefsAreKept, WorkspaceGitMergeAbort, RefCall, Count, MergeAbort, refs, merge, stashes, events
  <2>4. OneChecksOut'
    BY <1>9 DEF BranchTypes, CallState, OneChecksOut, Checks, WorkspaceGitMergeAbort, RefCall, Count, MergeAbort, refs, merge, stashes, events
  <2>5. FreshIsStash'
    BY <1>9 DEF StashTypes, FreshIsStash, WorkspaceGitMergeAbort, RefCall, Count, MergeAbort, refs, merge, stashes, events
  <2> QED BY <2>1, <2>2, <2>3, <2>4, <2>5
<1>10. ASSUME WorkspaceGitRemoteAdd PROVE BranchesInv'
  <2>1. BranchTypes'
    BY <1>10, BranchesAssumption DEF BranchTypes, Tips, CallState, WorkspaceGitRemoteAdd, RefCall, Count, RemoteAdd, refs, merge, stashes, events
  <2>2. StashTypes'
    BY <1>10 DEF StashTypes, WorkspaceGitRemoteAdd, RefCall, Count, RemoteAdd, refs, merge, stashes, events
  <2>3. RefsAreKept'
    BY <1>10, BranchesAssumption DEF BranchTypes, RefsAreKept, WorkspaceGitRemoteAdd, RefCall, Count, RemoteAdd, refs, merge, stashes, events
  <2>4. OneChecksOut'
    BY <1>10 DEF BranchTypes, CallState, OneChecksOut, Checks, WorkspaceGitRemoteAdd, RefCall, Count, RemoteAdd, refs, merge, stashes, events
  <2>5. FreshIsStash'
    BY <1>10 DEF StashTypes, FreshIsStash, WorkspaceGitRemoteAdd, RefCall, Count, RemoteAdd, refs, merge, stashes, events
  <2> QED BY <2>1, <2>2, <2>3, <2>4, <2>5
<1>11. ASSUME WorkspaceGitRemoteRemove PROVE BranchesInv'
  <2>1. BranchTypes'
    BY <1>11, BranchesAssumption DEF BranchTypes, Tips, CallState, WorkspaceGitRemoteRemove, RefCall, Count, RemoteRemove, refs, merge, stashes, events
  <2>2. StashTypes'
    BY <1>11 DEF StashTypes, WorkspaceGitRemoteRemove, RefCall, Count, RemoteRemove, refs, merge, stashes, events
  <2>3. RefsAreKept'
    BY <1>11, BranchesAssumption DEF BranchTypes, RefsAreKept, WorkspaceGitRemoteRemove, RefCall, Count, RemoteRemove, refs, merge, stashes, events
  <2>4. OneChecksOut'
    BY <1>11 DEF BranchTypes, CallState, OneChecksOut, Checks, WorkspaceGitRemoteRemove, RefCall, Count, RemoteRemove, refs, merge, stashes, events
  <2>5. FreshIsStash'
    BY <1>11 DEF StashTypes, FreshIsStash, WorkspaceGitRemoteRemove, RefCall, Count, RemoteRemove, refs, merge, stashes, events
  <2> QED BY <2>1, <2>2, <2>3, <2>4, <2>5
<1>12. ASSUME WorkspaceGitSetUpstream PROVE BranchesInv'
  <2>1. BranchTypes'
    BY <1>12, BranchesAssumption DEF BranchTypes, Tips, CallState, WorkspaceGitSetUpstream, RefCall, Count, SetUpstream, refs, merge, stashes, events
  <2>2. StashTypes'
    BY <1>12 DEF StashTypes, WorkspaceGitSetUpstream, RefCall, Count, SetUpstream, refs, merge, stashes, events
  <2>3. RefsAreKept'
    BY <1>12, BranchesAssumption DEF BranchTypes, RefsAreKept, WorkspaceGitSetUpstream, RefCall, Count, SetUpstream, refs, merge, stashes, events
  <2>4. OneChecksOut'
    BY <1>12 DEF BranchTypes, CallState, OneChecksOut, Checks, WorkspaceGitSetUpstream, RefCall, Count, SetUpstream, refs, merge, stashes, events
  <2>5. FreshIsStash'
    BY <1>12 DEF StashTypes, FreshIsStash, WorkspaceGitSetUpstream, RefCall, Count, SetUpstream, refs, merge, stashes, events
  <2> QED BY <2>1, <2>2, <2>3, <2>4, <2>5
<1>13. ASSUME WorkspaceGitStash PROVE BranchesInv'
  <2>1. BranchTypes'
    BY <1>13, BranchesAssumption DEF BranchTypes, Tips, CallState, WorkspaceGitStash, StashCall, Count, Stash, refs, merge, stashes, events
  <2>2. StashTypes'
    <3>1. /\ Stash /\ UNCHANGED taken
          /\ seen' = [c \in Clients |-> [seen[c] EXCEPT !.fresh = FALSE]]
      BY <1>13 DEF WorkspaceGitStash, Stash
    <3>2. seen' \in [Clients -> [list : Seq(Nat), fresh : BOOLEAN]]
      BY <3>1 DEF StashTypes
    <3> QED BY <3>1, <3>2, StashNumbers DEF StashTypes
  <2>3. RefsAreKept'
    BY <1>13, BranchesAssumption DEF BranchTypes, RefsAreKept, WorkspaceGitStash, StashCall, Count, Stash, refs, merge, stashes, events
  <2>4. OneChecksOut'
    BY <1>13 DEF BranchTypes, CallState, OneChecksOut, Checks, WorkspaceGitStash, StashCall, Count, Stash, refs, merge, stashes, events
  <2>5. FreshIsStash'
    BY <1>13 DEF StashTypes, FreshIsStash, WorkspaceGitStash, StashCall, Count, Stash, refs, merge, stashes, events
  <2> QED BY <2>1, <2>2, <2>3, <2>4, <2>5
<1>14. ASSUME NEW c \in Clients, WorkspaceGitStashList(c) PROVE BranchesInv'
  <2>1. BranchTypes'
    BY <1>14, BranchesAssumption DEF BranchTypes, Tips, CallState, WorkspaceGitStashList, StashCall, Count, StashList, refs, merge, stashes, events
  <2>2. StashTypes'
    BY <1>14 DEF StashTypes, WorkspaceGitStashList, StashCall, Count, StashList, refs, merge, stashes, events
  <2>3. RefsAreKept'
    BY <1>14, BranchesAssumption DEF BranchTypes, RefsAreKept, WorkspaceGitStashList, StashCall, Count, StashList, refs, merge, stashes, events
  <2>4. OneChecksOut'
    BY <1>14 DEF BranchTypes, CallState, OneChecksOut, Checks, WorkspaceGitStashList, StashCall, Count, StashList, refs, merge, stashes, events
  <2>5. FreshIsStash'
    BY <1>14 DEF StashTypes, FreshIsStash, WorkspaceGitStashList, StashCall, Count, StashList, refs, merge, stashes, events
  <2> QED BY <2>1, <2>2, <2>3, <2>4, <2>5
<1>15. ASSUME NEW c \in Clients, WorkspaceGitStashApply(c) PROVE BranchesInv'
  <2>1. BranchTypes'
    BY <1>15, BranchesAssumption DEF BranchTypes, Tips, CallState, WorkspaceGitStashApply, StashCall, Count, StashApply, refs, merge, stashes, events
  <2>2. StashTypes'
    BY <1>15 DEF StashTypes, WorkspaceGitStashApply, StashCall, Count, StashApply, refs, merge, stashes, events
  <2>3. RefsAreKept'
    BY <1>15, BranchesAssumption DEF BranchTypes, RefsAreKept, WorkspaceGitStashApply, StashCall, Count, StashApply, refs, merge, stashes, events
  <2>4. OneChecksOut'
    BY <1>15 DEF BranchTypes, CallState, OneChecksOut, Checks, WorkspaceGitStashApply, StashCall, Count, StashApply, refs, merge, stashes, events
  <2>5. FreshIsStash'
    BY <1>15 DEF StashTypes, FreshIsStash, WorkspaceGitStashApply, StashCall, Count, StashApply, refs, merge, stashes, events
  <2> QED BY <2>1, <2>2, <2>3, <2>4, <2>5
<1>16. ASSUME NEW c \in Clients, WorkspaceGitStashPop(c) PROVE BranchesInv'
  <2>1. BranchTypes'
    BY <1>16, BranchesAssumption DEF BranchTypes, Tips, CallState, WorkspaceGitStashPop, StashCall, Count, StashPop, RemoveEntry, StashRef, refs, merge, stashes, events
  <2>2. StashTypes'
    <3>1. (\E i \in 1 .. MaxStash : RemoveEntry(c, i)) \/ UNCHANGED <<stash, seen, taken>>
      BY <1>16 DEF WorkspaceGitStashPop, StashPop
    <3> QED BY <3>1, RemoveEntryKeeps DEF StashTypes
  <2>3. RefsAreKept'
    BY <1>16, BranchesAssumption DEF BranchTypes, RefsAreKept, WorkspaceGitStashPop, StashCall, Count, StashPop, RemoveEntry, StashRef, refs, merge, stashes, events
  <2>4. OneChecksOut'
    BY <1>16 DEF BranchTypes, CallState, OneChecksOut, Checks, WorkspaceGitStashPop, StashCall, Count, StashPop, RemoveEntry, StashRef, refs, merge, stashes, events
  <2>5. FreshIsStash'
    BY <1>16 DEF StashTypes, FreshIsStash, WorkspaceGitStashPop, StashCall, Count, StashPop, RemoveEntry, StashRef, refs, merge, stashes, events
  <2> QED BY <2>1, <2>2, <2>3, <2>4, <2>5
<1>17. ASSUME NEW c \in Clients, WorkspaceGitStashDrop(c) PROVE BranchesInv'
  <2>1. BranchTypes'
    BY <1>17, BranchesAssumption DEF BranchTypes, Tips, CallState, WorkspaceGitStashDrop, StashCall, Count, StashDrop, RemoveEntry, StashRef, refs, merge, stashes, events
  <2>2. StashTypes'
    <3>1. \E i \in 1 .. MaxStash : RemoveEntry(c, i)
      BY <1>17 DEF WorkspaceGitStashDrop, StashDrop
    <3> QED BY <3>1, RemoveEntryKeeps
  <2>3. RefsAreKept'
    BY <1>17, BranchesAssumption DEF BranchTypes, RefsAreKept, WorkspaceGitStashDrop, StashCall, Count, StashDrop, RemoveEntry, StashRef, refs, merge, stashes, events
  <2>4. OneChecksOut'
    BY <1>17 DEF BranchTypes, CallState, OneChecksOut, Checks, WorkspaceGitStashDrop, StashCall, Count, StashDrop, RemoveEntry, StashRef, refs, merge, stashes, events
  <2>5. FreshIsStash'
    BY <1>17 DEF StashTypes, FreshIsStash, WorkspaceGitStashDrop, StashCall, Count, StashDrop, RemoveEntry, StashRef, refs, merge, stashes, events
  <2> QED BY <2>1, <2>2, <2>3, <2>4, <2>5
<1>18. ASSUME NEW c \in Clients, WorkspaceGitCheckout(c) PROVE BranchesInv'
  <2>1. BranchTypes'
    BY <1>18, BranchesAssumption DEF BranchTypes, Tips, CallState, WorkspaceGitCheckout, Begin, Count, refs, merge, stashes, events
  <2>2. StashTypes'
    BY <1>18 DEF StashTypes, WorkspaceGitCheckout, Begin, Count, refs, merge, stashes, events
  <2>3. RefsAreKept'
    BY <1>18, BranchesAssumption DEF BranchTypes, RefsAreKept, WorkspaceGitCheckout, Begin, Count, refs, merge, stashes, events
  <2>4. OneChecksOut'
    BY <1>18 DEF BranchTypes, CallState, OneChecksOut, Checks, WorkspaceGitCheckout, Begin, Count, refs, merge, stashes, events
  <2>5. FreshIsStash'
    BY <1>18 DEF StashTypes, FreshIsStash, WorkspaceGitCheckout, Begin, Count, refs, merge, stashes, events
  <2> QED BY <2>1, <2>2, <2>3, <2>4, <2>5
<1>19. ASSUME NEW c \in Clients, GitServiceCheckout(c) PROVE BranchesInv'
  <2>1. BranchTypes'
    BY <1>19, BranchesAssumption DEF BranchTypes, Tips, CallState, GitServiceCheckout, Begin, Count, refs, merge, stashes, events
  <2>2. StashTypes'
    BY <1>19 DEF StashTypes, GitServiceCheckout, Begin, Count, refs, merge, stashes, events
  <2>3. RefsAreKept'
    BY <1>19, BranchesAssumption DEF BranchTypes, RefsAreKept, GitServiceCheckout, Begin, Count, refs, merge, stashes, events
  <2>4. OneChecksOut'
    BY <1>19 DEF BranchTypes, CallState, OneChecksOut, Checks, GitServiceCheckout, Begin, Count, refs, merge, stashes, events
  <2>5. FreshIsStash'
    BY <1>19 DEF StashTypes, FreshIsStash, GitServiceCheckout, Begin, Count, refs, merge, stashes, events
  <2> QED BY <2>1, <2>2, <2>3, <2>4, <2>5
<1>20. ASSUME NEW c \in Clients, HandleGitCheckout(c) PROVE BranchesInv'
  <2>1. BranchTypes'
    BY <1>20, BranchesAssumption DEF BranchTypes, Tips, CallState, HandleGitCheckout, Begin, Count, refs, merge, stashes, events
  <2>2. StashTypes'
    BY <1>20 DEF StashTypes, HandleGitCheckout, Begin, Count, refs, merge, stashes, events
  <2>3. RefsAreKept'
    BY <1>20, BranchesAssumption DEF BranchTypes, RefsAreKept, HandleGitCheckout, Begin, Count, refs, merge, stashes, events
  <2>4. OneChecksOut'
    BY <1>20 DEF BranchTypes, CallState, OneChecksOut, Checks, HandleGitCheckout, Begin, Count, refs, merge, stashes, events
  <2>5. FreshIsStash'
    BY <1>20 DEF StashTypes, FreshIsStash, HandleGitCheckout, Begin, Count, refs, merge, stashes, events
  <2> QED BY <2>1, <2>2, <2>3, <2>4, <2>5
<1>21. ASSUME NEW c \in Clients, WorkspaceGitDeleteBranch(c) PROVE BranchesInv'
  <2>1. BranchTypes'
    BY <1>21, BranchesAssumption DEF BranchTypes, Tips, CallState, WorkspaceGitDeleteBranch, Begin, Count, refs, merge, stashes, events
  <2>2. StashTypes'
    BY <1>21 DEF StashTypes, WorkspaceGitDeleteBranch, Begin, Count, refs, merge, stashes, events
  <2>3. RefsAreKept'
    BY <1>21, BranchesAssumption DEF BranchTypes, RefsAreKept, WorkspaceGitDeleteBranch, Begin, Count, refs, merge, stashes, events
  <2>4. OneChecksOut'
    BY <1>21 DEF BranchTypes, CallState, OneChecksOut, Checks, WorkspaceGitDeleteBranch, Begin, Count, refs, merge, stashes, events
  <2>5. FreshIsStash'
    BY <1>21 DEF StashTypes, FreshIsStash, WorkspaceGitDeleteBranch, Begin, Count, refs, merge, stashes, events
  <2> QED BY <2>1, <2>2, <2>3, <2>4, <2>5
<1>22. ASSUME NEW c \in Clients, CheckoutFrom(c) PROVE BranchesInv'
  <2>1. BranchTypes'
    <3> DEFINE g == [call EXCEPT ![c].at = "switch"]
    <3>1. CurrentBranch \in Branches \cup {None}
      BY DEF CurrentBranch, BranchTypes
    <3>2. g \in [Clients -> CallState]
      BY DEF BranchTypes, CallState
    <3>3. call' = [g EXCEPT ![c].from = CurrentBranch]
      BY <1>22 DEF CheckoutFrom
    <3> HIDE DEF g
    <3>4. call' \in [Clients -> CallState]
      BY <3>1, <3>2, <3>3 DEF CallState
    <3>5. \A d \in Clients : call'[d].at # "idle" => call'[d].branch \in Branches
      BY <1>22 DEF CheckoutFrom, BranchTypes, CallState
    <3> QED BY <3>4, <3>5, <1>22 DEF CheckoutFrom, BranchTypes, refs, merge
  <2>2. StashTypes'
    BY <1>22 DEF StashTypes, CheckoutFrom, CurrentBranch, refs, merge, stashes, events
  <2>3. RefsAreKept'
    BY <1>22, BranchesAssumption DEF BranchTypes, RefsAreKept, CheckoutFrom, CurrentBranch, refs, merge, stashes, events
  <2>4. OneChecksOut'
    BY <1>22 DEF BranchTypes, CallState, OneChecksOut, Checks, CheckoutFrom, CurrentBranch, refs, merge, stashes, events
  <2>5. FreshIsStash'
    BY <1>22 DEF StashTypes, FreshIsStash, CheckoutFrom, CurrentBranch, refs, merge, stashes, events
  <2> QED BY <2>1, <2>2, <2>3, <2>4, <2>5
<1>23. ASSUME NEW c \in Clients, Checkout(c) PROVE BranchesInv'
  <2>a. NoCall \in CallState
    BY DEF NoCall, CallState
  <2>b. \/ Switch(call[c].branch, call[c].create) /\ call' = [call EXCEPT ![c].at = "publish"]
        \/ call' = [call EXCEPT ![c] = NoCall] /\ UNCHANGED <<cur, tips, upstream>>
    BY <1>23 DEF Checkout
  <2>c. UNCHANGED <<remote, tracked, origin, destroyed, merge, dirty, stashes, shown, crossed, calls>>
    BY <1>23 DEF Checkout
  <2>d. call' \in [Clients -> CallState]
    BY <2>a, <2>b DEF BranchTypes, CallState
  <2>f. call[c].at = "switch"
    BY <1>23 DEF Checkout
  <2>g. call[c].branch \in Branches
    BY <2>f DEF BranchTypes
  <2>e. ASSUME Switch(call[c].branch, call[c].create)
        PROVE  /\ cur' \in Branches /\ tips' \in [Branches -> Tips] /\ upstream' \subseteq Branches
               /\ tips'[cur'] # None /\ Grows(tips, tips')
    BY <2>e, <2>g, SwitchKeeps
  <2>1. BranchTypes'
    <3>1. \A d \in Clients : call'[d].at # "idle" => call'[d].branch \in Branches
      BY <2>b, <2>g DEF BranchTypes, CallState, NoCall
    <3> QED BY <2>b, <2>c, <2>d, <2>e, <3>1 DEF BranchTypes, merge
  <2>2. StashTypes'
    BY <1>23 DEF StashTypes, Checkout, Switch, Exists, NoCall, refs, merge, stashes, events
  <2>3. RefsAreKept'
    BY <2>b, <2>c, <2>e DEF RefsAreKept
  <2>4. OneChecksOut'
    BY <1>23 DEF BranchTypes, CallState, OneChecksOut, Checks, Checkout, Switch, Exists, NoCall, refs, merge, stashes, events
  <2>5. FreshIsStash'
    BY <1>23 DEF StashTypes, FreshIsStash, Checkout, Switch, Exists, NoCall, refs, merge, stashes, events
  <2> QED BY <2>1, <2>2, <2>3, <2>4, <2>5
<1>24. ASSUME NEW c \in Clients, GitCheckout(c) PROVE BranchesInv'
  <2>1. BranchTypes'
    BY <1>24, BranchesAssumption DEF BranchTypes, Tips, CallState, GitCheckout, NoCall, refs, merge, stashes, events
  <2>2. StashTypes'
    BY <1>24 DEF StashTypes, GitCheckout, NoCall, refs, merge, stashes, events
  <2>3. RefsAreKept'
    BY <1>24, BranchesAssumption DEF BranchTypes, RefsAreKept, GitCheckout, NoCall, refs, merge, stashes, events
  <2>4. OneChecksOut'
    BY <1>24 DEF BranchTypes, CallState, OneChecksOut, Checks, GitCheckout, NoCall, refs, merge, stashes, events
  <2>5. FreshIsStash'
    BY <1>24 DEF StashTypes, FreshIsStash, GitCheckout, NoCall, refs, merge, stashes, events
  <2> QED BY <2>1, <2>2, <2>3, <2>4, <2>5
<1>25. ASSUME NEW c \in Clients, DeleteLook(c) PROVE BranchesInv'
  <2>1. BranchTypes'
    BY <1>25, BranchesAssumption DEF BranchTypes, Tips, CallState, DeleteLook, NoCall, refs, merge, stashes, events
  <2>2. StashTypes'
    BY <1>25 DEF StashTypes, DeleteLook, NoCall, refs, merge, stashes, events
  <2>3. RefsAreKept'
    BY <1>25, BranchesAssumption DEF BranchTypes, RefsAreKept, DeleteLook, NoCall, refs, merge, stashes, events
  <2>4. OneChecksOut'
    BY <1>25 DEF BranchTypes, CallState, OneChecksOut, Checks, DeleteLook, NoCall, refs, merge, stashes, events
  <2>5. FreshIsStash'
    BY <1>25 DEF StashTypes, FreshIsStash, DeleteLook, NoCall, refs, merge, stashes, events
  <2> QED BY <2>1, <2>2, <2>3, <2>4, <2>5
<1>26. ASSUME NEW c \in Clients, DeleteBranch(c) PROVE BranchesInv'
  <2> DEFINE b == call[c].branch
  <2>a. \/ /\ Exists(b) /\ b # cur /\ (call[c].force \/ Merged(b))
           /\ tips' = [tips EXCEPT ![b] = None] /\ upstream' = upstream \ {b}
           /\ UNCHANGED <<remote, tracked, origin>>
           /\ Forced(call[c].force)
        \/ UNCHANGED refs
    BY <1>26 DEF DeleteBranch, Flag
  <2>b. call' = [call EXCEPT ![c] = NoCall] /\ UNCHANGED <<cur, merge, crossed>>
    BY <1>26 DEF DeleteBranch
  <2>c. call[c].force \in BOOLEAN
    BY DEF BranchTypes, CallState
  <2>d. call' \in [Clients -> CallState]
    BY <2>b DEF BranchTypes, CallState, NoCall
  <2>g. \A e \in Clients : call'[e].at # "idle" => call'[e].branch \in Branches
    BY <2>b DEF BranchTypes, CallState, NoCall
  <2>e. destroyed' \subseteq Changes
    BY <2>a, <2>c, DestroyedIsOfChanges DEF refs, BranchTypes
  <2>f. tips' \in [Branches -> Tips] /\ upstream' \subseteq Branches
    BY <2>a DEF refs, BranchTypes, Tips
  <2> HIDE DEF b
  <2>1. BranchTypes'
    BY <2>a, <2>b, <2>d, <2>e, <2>f, <2>g DEF BranchTypes, merge, refs
  <2>2. StashTypes'
    BY <1>26 DEF StashTypes, DeleteBranch, NoCall, Exists, Forced, refs, merge, stashes, events
  <2>3. RefsAreKept'
    BY <2>a, <2>b DEF BranchTypes, RefsAreKept, refs
  <2>4. OneChecksOut'
    BY <1>26 DEF BranchTypes, CallState, OneChecksOut, Checks, DeleteBranch, NoCall, Exists, Forced, refs, merge, stashes, events
  <2>5. FreshIsStash'
    BY <1>26 DEF StashTypes, FreshIsStash, DeleteBranch, NoCall, Exists, Forced, refs, merge, stashes, events
  <2> QED BY <2>1, <2>2, <2>3, <2>4, <2>5
<1>27. ASSUME Edit PROVE BranchesInv'
  <2>1. BranchTypes'
    BY <1>27, BranchesAssumption DEF BranchTypes, Tips, CallState, Edit, refs, merge, stashes, events
  <2>2. StashTypes'
    BY <1>27 DEF StashTypes, Edit, refs, merge, stashes, events
  <2>3. RefsAreKept'
    BY <1>27, BranchesAssumption DEF BranchTypes, RefsAreKept, Edit, refs, merge, stashes, events
  <2>4. OneChecksOut'
    BY <1>27 DEF BranchTypes, CallState, OneChecksOut, Checks, Edit, refs, merge, stashes, events
  <2>5. FreshIsStash'
    BY <1>27 DEF StashTypes, FreshIsStash, Edit, refs, merge, stashes, events
  <2> QED BY <2>1, <2>2, <2>3, <2>4, <2>5
<1>28. ASSUME CommitOrResolve PROVE BranchesInv'
  <2>a. /\ \E ms \in SUBSET Changes : tips' = [tips EXCEPT ![cur] = @ \cup ms]
        /\ incoming' \in {incoming, {}}
    <3>1. CASE \E x \in Changes : tips' = [tips EXCEPT ![cur] = @ \cup {x}] /\ UNCHANGED merge
      <4>1. PICK x \in Changes : tips' = [tips EXCEPT ![cur] = @ \cup {x}] /\ UNCHANGED merge
        BY <3>1
      <4>2. {x} \in SUBSET Changes
        OBVIOUS
      <4> QED BY <4>1, <4>2 DEF merge
    <3>2. CASE tips' = [tips EXCEPT ![cur] = @ \cup incoming] /\ incoming' = {}
      BY <3>2 DEF BranchTypes
    <3> QED BY <3>1, <3>2, <1>28 DEF CommitOrResolve
  <2>b. UNCHANGED <<cur, remote, tracked, origin, upstream, destroyed, call, crossed>>
    BY <1>28 DEF CommitOrResolve, events
  <2>c. /\ tips' \in [Branches -> Tips] /\ tips'[cur] # None
        /\ Grows(tips, tips')
    <3>1. PICK ms \in SUBSET Changes : tips' = [tips EXCEPT ![cur] = @ \cup ms]
      BY <2>a
    <3>2. tips \in [Branches -> Tips] /\ cur \in Branches /\ tips[cur] # None
      BY DEF BranchTypes, RefsAreKept
    <3> QED BY <3>1, <3>2, Joined
  <2>1. BranchTypes'
    BY <2>a, <2>b, <2>c DEF BranchTypes
  <2>2. StashTypes'
    BY <1>28 DEF StashTypes, CommitOrResolve, Fresh, refs, merge, stashes, events
  <2>3. RefsAreKept'
    BY <2>b, <2>c DEF RefsAreKept
  <2>4. OneChecksOut'
    BY <1>28 DEF BranchTypes, CallState, OneChecksOut, Checks, CommitOrResolve, Fresh, refs, merge, stashes, events
  <2>5. FreshIsStash'
    BY <1>28 DEF StashTypes, FreshIsStash, CommitOrResolve, Fresh, refs, merge, stashes, events
  <2> QED BY <2>1, <2>2, <2>3, <2>4, <2>5
<1>29. ASSUME OthersPush PROVE BranchesInv'
  <2>a. PICK b \in Branches, x \in Changes : remote[b] # None /\ remote' = [remote EXCEPT ![b] = @ \cup {x}]
    BY <1>29 DEF OthersPush
  <2>b. UNCHANGED <<tips, tracked, upstream, destroyed, cur, merge, call, crossed>>
    BY <1>29 DEF OthersPush, events
  <2>c. remote' \in [Branches -> Tips] /\ remote'[b] # None /\ Grows(remote, remote')
    <3>1. {x} \in SUBSET Changes
      OBVIOUS
    <3>2. remote \in [Branches -> Tips]
      BY DEF BranchTypes
    <3> QED BY <2>a, <3>1, <3>2, Joined
  <2>1. BranchTypes'
    BY <2>b, <2>c DEF BranchTypes, merge
  <2>2. StashTypes'
    BY <1>29 DEF StashTypes, OthersPush, Fresh, refs, merge, stashes, events
  <2>3. RefsAreKept'
    BY <2>b, <2>c DEF RefsAreKept, Grows, BranchTypes
  <2>4. OneChecksOut'
    BY <1>29 DEF BranchTypes, CallState, OneChecksOut, Checks, OthersPush, Fresh, refs, merge, stashes, events
  <2>5. FreshIsStash'
    BY <1>29 DEF StashTypes, FreshIsStash, OthersPush, Fresh, refs, merge, stashes, events
  <2> QED BY <2>1, <2>2, <2>3, <2>4, <2>5
<1>30. CASE UNCHANGED vars
  BY <1>30 DEF vars, refs, merge, stashes, events, BranchTypes, CallState, Checks, FreshIsStash, OneChecksOut, RefsAreKept, StashTypes, Tips
<1> QED
  BY <1>1, <1>2, <1>3, <1>4, <1>5, <1>6, <1>7, <1>8, <1>9, <1>10, <1>11, <1>12, <1>13, <1>14, <1>15, <1>16, <1>17, <1>18, <1>19, <1>20, <1>21, <1>22, <1>23, <1>24, <1>25, <1>26, <1>27, <1>28, <1>29, <1>30 DEF Next, Call

\* Whatever the clients, the server and the user at a terminal do.
THEOREM BranchesInvariance == Spec => []BranchesInv
<1>1. BranchesInv /\ [Next]_vars => BranchesInv'
  BY BranchesGoOn
<1> QED
  BY <1>1, BranchesBegin, PTL DEF Spec

\* What the clients are shown is what they act on: the branch of the events is
\* the one checked out, the stash entry read is the one dropped (GitCheckout,
\* StashDrop).
THEOREM ShownIsAlwaysMeant == Spec => []ShownIsMeant
<1>1. BranchesInv => ShownIsMeant
  BY DEF BranchesInv, OneChecksOut, FreshIsStash, ShownIsMeant, BranchIsShown, StashEntryIsMeant
<1> QED
  BY <1>1, BranchesInvariance, PTL

\* No step takes a change out of all references but a forced one, which is counted
\* (tracker.go).
LEMMA ChangesStay ==
  ASSUME BranchesInv, [Next]_vars PROVE Made \subseteq Made'
<1>1. BranchTypes /\ RefsAreKept
  BY DEF BranchesInv
<1>2. ASSUME UNCHANGED refs PROVE Made \subseteq Made'
  BY <1>2 DEF refs, Made, Reach
<1>3. ASSUME NEW force \in BOOLEAN, NEW setUpstream \in BOOLEAN, Push(force, setUpstream), RefCall
      PROVE  Made \subseteq Made'
  BY <1>1, <1>3, PushKeeps DEF RefCall
<1>4. ASSUME NEW rebase \in BOOLEAN, Pull(rebase), RefCall PROVE Made \subseteq Made'
  BY <1>1, <1>4, PullKeeps DEF RefCall
<1>5. CASE WorkspaceGitPush \/ GitServicePush \/ HandleGitPush
  BY <1>3, <1>5 DEF WorkspaceGitPush, GitServicePush, HandleGitPush
<1>6. CASE WorkspaceGitPull \/ GitServicePull \/ HandleGitPull
  BY <1>4, <1>6 DEF WorkspaceGitPull, GitServicePull, HandleGitPull
<1>7. CASE WorkspaceGitFetch
  <2>1. PICK prune \in BOOLEAN : Fetch(prune)
    BY <1>7 DEF WorkspaceGitFetch
  <2>2. UNCHANGED <<tips, remote, destroyed>>
    BY <2>1 DEF Fetch
  <2>3. Grows(tips, tips') /\ Grows(remote, remote') /\ Grows(tracked, remote')
    BY <1>1, <2>2, FetchedIsKept DEF Grows
  <2> QED BY <2>2, <2>3, NothingIsLost
<1>8. CASE WorkspaceGitMerge
  BY <1>1, <1>8, MergeKeeps DEF WorkspaceGitMerge, RefCall
<1>9. CASE WorkspaceGitRemoteAdd
  <2>1. UNCHANGED <<tips, remote, destroyed>>
    BY <1>9 DEF WorkspaceGitRemoteAdd, RemoteAdd
  <2>2. Grows(tips, tips') /\ Grows(remote, remote') /\ Grows(tracked, remote')
    BY <1>1, <2>1, FetchedIsKept DEF Grows
  <2> QED BY <2>1, <2>2, NothingIsLost
<1>10. CASE WorkspaceGitRemoteRemove
  <2>1. UNCHANGED <<tips, remote, destroyed>>
    BY <1>10 DEF WorkspaceGitRemoteRemove, RemoteRemove
  <2>2. Grows(tips, tips') /\ Grows(remote, remote') /\ Grows(tracked, remote')
    BY <1>1, <2>1, FetchedIsKept DEF Grows
  <2> QED BY <2>1, <2>2, NothingIsLost
<1>11. CASE WorkspaceGitSetUpstream
  BY <1>11 DEF WorkspaceGitSetUpstream, SetUpstream, Made, Reach
<1>12. CASE WorkspaceGitMergeAbort
  BY <1>2, <1>12 DEF WorkspaceGitMergeAbort, MergeAbort
<1>13. ASSUME NEW c \in Clients, Checkout(c) PROVE Made \subseteq Made'
  <2>1. call[c].branch \in Branches
    BY <1>1, <1>13 DEF Checkout, BranchTypes
  <2>2. UNCHANGED <<remote, tracked, destroyed>> /\ (Switch(call[c].branch, call[c].create) \/ UNCHANGED tips)
    BY <1>13 DEF Checkout
  <2>3. Grows(tips, tips')
    BY <1>1, <2>1, <2>2, SwitchKeeps DEF Grows
  <2>4. Grows(remote, remote') /\ Grows(tracked, tracked')
    BY <2>2 DEF Grows
  <2> QED BY <2>2, <2>3, <2>4, NothingIsLost
<1>14. ASSUME NEW c \in Clients, DeleteBranch(c) PROVE Made \subseteq Made'
  <2> DEFINE b == call[c].branch
  <2>1. \/ /\ Exists(b) /\ b # cur /\ (call[c].force \/ Merged(b))
           /\ tips' = [tips EXCEPT ![b] = None]
           /\ UNCHANGED <<remote, tracked>>
           /\ Forced(call[c].force)
        \/ UNCHANGED refs
    BY <1>14 DEF DeleteBranch, Flag
  <2>2. CASE call[c].force /\ Forced(call[c].force)
    BY <2>2, ForcedDestroys
  <2>3. CASE /\ ~call[c].force /\ Merged(b) /\ b # cur
             /\ tips' = [tips EXCEPT ![b] = None]
             /\ UNCHANGED <<remote, tracked>>
             /\ Forced(call[c].force)
    <3>1. destroyed' = destroyed
      BY <2>3 DEF Forced
    <3>2. b \in Branches
      BY <1>1, <1>14 DEF DeleteBranch, BranchTypes
    <3> HIDE DEF b
    <3>3. ASSUME NEW t, t = tips', NEW x \in Reach(tips, remote, tracked) PROVE x \in Reach(t, remote, tracked)
      <4>1. PICK a \in Branches : \/ tips[a] # None /\ x \in tips[a]
                                  \/ remote[a] # None /\ x \in remote[a]
                                  \/ tracked[a] # None /\ x \in tracked[a]
        BY InReach
      <4>2. CASE tips[a] # None /\ x \in tips[a] /\ a = b
        <5>1. \/ tracked[b] # None /\ x \in tracked[b]
              \/ x \in tips[cur]
          BY <2>3, <4>2 DEF Merged
        <5>2. cur \in Branches /\ tips[cur] # None /\ t[cur] = tips[cur]
          BY <1>1, <2>3, <3>2, <3>3 DEF BranchTypes, RefsAreKept
        <5> QED BY <3>2, <5>1, <5>2, InReach
      <4>3. CASE tips[a] # None /\ x \in tips[a] /\ a # b
        <5>1. t[a] = tips[a]
          BY <1>1, <2>3, <3>3, <4>3 DEF BranchTypes
        <5> QED BY <4>3, <5>1, InReach
      <4> QED BY <4>1, <4>2, <4>3, InReach
    <3>4. ASSUME NEW t, t = tips', NEW r, r = remote', NEW k, k = tracked'
          PROVE  Reach(tips, remote, tracked) \subseteq Reach(tips, remote, tracked)'
      <4>1. Reach(tips, remote, tracked) \subseteq Reach(t, r, k)
        BY <3>3, <3>4, <2>3
      <4> QED BY <3>4, <4>1 DEF Reach
    <3> QED BY <3>1, <3>4 DEF Made
  <2> QED BY <1>2, <2>1, <2>2, <2>3
<1>15. CASE CommitOrResolve
  <2>1. UNCHANGED <<remote, tracked, destroyed>>
    BY <1>15 DEF CommitOrResolve
  <2>2. \E ms \in SUBSET Changes : tips' = [tips EXCEPT ![cur] = @ \cup ms]
    <3>1. ASSUME NEW x \in Changes PROVE {x} \in SUBSET Changes
      OBVIOUS
    <3>2. incoming \in SUBSET Changes
      BY <1>1 DEF BranchTypes
    <3> QED BY <3>1, <3>2, <1>15 DEF CommitOrResolve
  <2>3. Grows(tips, tips')
    <3>1. tips \in [Branches -> Tips] /\ cur \in Branches /\ tips[cur] # None
      BY <1>1 DEF BranchTypes, RefsAreKept
    <3>2. PICK ms \in SUBSET Changes : tips' = [tips EXCEPT ![cur] = @ \cup ms]
      BY <2>2
    <3> QED BY <3>1, <3>2, Joined
  <2>4. Grows(remote, remote') /\ Grows(tracked, tracked')
    BY <2>1 DEF Grows
  <2> QED BY <2>1, <2>3, <2>4, NothingIsLost
<1>16. CASE OthersPush
  <2>1. UNCHANGED <<tips, tracked, destroyed>>
    BY <1>16 DEF OthersPush
  <2>2. PICK b \in Branches, x \in Changes : remote[b] # None /\ remote' = [remote EXCEPT ![b] = @ \cup {x}]
    BY <1>16 DEF OthersPush
  <2>3. {x} \in SUBSET Changes /\ remote \in [Branches -> Tips]
    BY <1>1 DEF BranchTypes
  <2>4. Grows(remote, remote')
    BY <2>2, <2>3, Joined
  <2>5. Grows(tips, tips') /\ Grows(tracked, tracked')
    BY <2>1 DEF Grows
  <2> QED BY <2>1, <2>4, <2>5, NothingIsLost
<1>17. ASSUME NEW c \in Clients,
              CheckoutFrom(c) \/ GitCheckout(c) \/ DeleteLook(c) \/ WorkspaceGitCheckout(c)
              \/ GitServiceCheckout(c) \/ HandleGitCheckout(c) \/ WorkspaceGitDeleteBranch(c)
       PROVE  Made \subseteq Made'
  BY <1>2, <1>17 DEF CheckoutFrom, GitCheckout, DeleteLook, WorkspaceGitCheckout, GitServiceCheckout,
     HandleGitCheckout, WorkspaceGitDeleteBranch, Begin
<1>18. ASSUME NEW c \in Clients,
              WorkspaceGitStashList(c) \/ WorkspaceGitStashApply(c)
              \/ WorkspaceGitStashPop(c) \/ WorkspaceGitStashDrop(c)
       PROVE  Made \subseteq Made'
  BY <1>2, <1>18 DEF WorkspaceGitStashList, WorkspaceGitStashApply, WorkspaceGitStashPop,
     WorkspaceGitStashDrop, StashCall
<1>19. CASE WorkspaceGitStash
  BY <1>2, <1>19 DEF WorkspaceGitStash, StashCall
<1>20. CASE Edit
  BY <1>2, <1>20 DEF Edit
<1>21. CASE UNCHANGED vars
  <2>1. UNCHANGED refs
    BY <1>21 DEF vars, refs
  <2> QED BY <1>2, <2>1
<1> QED
  BY <1>5, <1>6, <1>7, <1>8, <1>9, <1>10, <1>11, <1>12, <1>13, <1>14, <1>15, <1>16, <1>17, <1>18, <1>19, <1>20,
     <1>21
     DEF Next, Call

\* A change once committed stays on some branch, here or on the server, unless a
\* client asked for force (Push, Pull, Merge, DeleteBranch, Checkout and the rest).
THEOREM ChangesAlwaysSurvive == Spec => ChangesSurvive
<1>1. BranchesInv /\ [Next]_vars => Made \subseteq Made'
  BY ChangesStay
<1> QED
  BY <1>1, BranchesInvariance, PTL DEF Spec, ChangesSurvive

-----------------------------------------------------------------------------
(* The tokens of the phones *)

TokenState == [kind : {"pairing", "refresh"}, s : Nat, d : Nat, era : Nat]
PhoneState == [code : Nat, pair : Nat, waits : BOOLEAN]
Stages == {"idle", "validate", "status", "ensure", "generate", "revoke", "clear", "register", "answer",
           "remove", "swap"}
RequestState == [op : {"none", "exchange", "refresh", "revoke", "revokeAll"}, at : Stages,
                 p : Phones \cup {Nobody}, n : Nat, got : Nat, live : BOOLEAN]
Devices == [Nonces -> 0 .. MaxTokens]

AccessTypes ==
    /\ token \in Seq(TokenState) /\ Len(token) <= MaxTokens
    /\ {secret, secretFile, secrets, era, restarts, fails} \subseteq Nat
    /\ registered \in Devices \cup {Torn} /\ registryFile \in Devices \cup {Torn}
    /\ phone \in [Phones -> PhoneState]
    /\ request \in [Requests -> RequestState]
    /\ {approval, collided} \subseteq BOOLEAN

Refresh(n) == n \in 1 .. Len(token) /\ token[n].kind = "refresh"
Pairing(n) == n \in 1 .. Len(token) /\ token[n].kind = "pairing"

\* What the phones hold and the requests work on is of the right kind, and a
\* request is at a stage its operation has.
TokensAreRight ==
    /\ revokedNonces \subseteq 1 .. Len(token)
    /\ \A n \in 1 .. Len(token) : Refresh(n) => token[n].d \in 1 .. Len(token)
    /\ \A p \in Phones : /\ phone[p].pair = 0 \/ Refresh(phone[p].pair)
                         /\ phone[p].code = 0 \/ Pairing(phone[p].code)
    /\ \A r \in Requests :
          LET q == request[r] IN
          /\ q.op \in {"exchange", "refresh", "revoke"} => q.p \in Phones
          /\ q.op = "exchange" => Pairing(q.n)
          /\ q.op \in {"refresh", "revoke"} => Refresh(q.n)
          /\ q.op \in {"exchange", "refresh"} /\ q.got # 0 => Refresh(q.got)
          /\ q.op = "exchange" /\ q.got # 0 => token[q.got].d = q.got
          /\ q.op = "refresh" /\ q.got # 0 => token[q.got].d = token[q.n].d
          /\ q.op \in {"none", "revoke"} => q.got = 0
          /\ q.op \in {"none", "revokeAll"} => q.n = 0
          /\ q.at \in {"revoke", "clear", "register", "answer"} <=> (q.got # 0 /\ q.op # "revokeAll")
          /\ q.op = "none" <=> q.at = "idle"
          /\ q.op = "revokeAll" <=> q.at = "swap"
          /\ q.at = "remove" => q.op = "revoke"
          /\ q.op = "revoke" => q.at \in {"validate", "remove"}
          /\ q.at = "clear" => q.op = "exchange"
          /\ q.at \in {"status", "ensure"} => q.op = "exchange"

Swaps(r) == request[r].at = "swap"

\* A new secret is one nothing was signed with; without overlaps and failures the
\* file holds the secret, or the one that is about to be.
SecretsAreFresh ==
    /\ secret <= secrets /\ secretFile <= secrets /\ secret > 0
    /\ \A n \in 1 .. Len(token) :
          /\ token[n].s <= secrets /\ token[n].era <= era
          /\ (token[n].era = era /\ ~collided) => token[n].s = secret
    /\ \A r \in Requests : Swaps(r) =>
          /\ request[r].got <= secrets /\ request[r].got > 0 /\ request[r].got # secret
          /\ \A n \in 1 .. Len(token) : token[n].s # request[r].got
          /\ \A q \in Requests \ {r} : Swaps(q) => request[q].got # request[r].got
    /\ ~collided =>
          /\ \A r \in Requests : Swaps(r) => secretFile = request[r].got
          /\ (\A r \in Requests : ~Swaps(r)) => secretFile = secret

RegistryIsFiled ==
    /\ registered = Torn => registryFile = Torn
    /\ fails = 0 => registryFile = registered

\* The phone that waits has one request the server has not been given up on.
PhonesWait ==
    \A r \in Requests : request[r].live =>
       /\ request[r].op \in {"exchange", "refresh", "revoke"}
       /\ phone[request[r].p].waits
       /\ request[r].op \in {"refresh", "revoke"} => request[r].n = phone[request[r].p].pair
       /\ \A q \in Requests : request[q].live /\ request[q].p = request[r].p => q = r

\* The refresh tokens of a phone: the one it holds, and those its requests renew
\* or have been given.
Works(r, x) == \/ request[r].op \in {"refresh", "revoke"} /\ request[r].n = x
               \/ request[r].op \in {"exchange", "refresh"} /\ request[r].got = x
Owns(p, x) ==
    /\ x # 0
    /\ \/ phone[p].pair = x
       \/ \E r \in Requests : request[r].p = p /\ Works(r, x)

\* No two phones have tokens of one device; a token that was just issued is
\* nobody else's, nor is the device of one that is exchanged.
DevicesAreOwned ==
    /\ \A p, q \in Phones : \A x, y \in 1 .. Len(token) :
          p # q /\ Owns(p, x) /\ Owns(q, y) => token[x].d # token[y].d
    /\ \A r \in Requests : request[r].op \in {"exchange", "refresh"} /\ request[r].got # 0 =>
          /\ \A p \in Phones : phone[p].pair # request[r].got
          /\ \A q \in Requests : /\ request[q].n # request[r].got
                                 /\ q # r /\ request[q].op # "revokeAll" => request[q].got # request[r].got
          /\ request[r].got \notin revokedNonces
    /\ \A r \in Requests : request[r].op = "exchange" /\ request[r].got # 0 =>
          \A p \in Phones : \A x \in 1 .. Len(token) :
             Owns(p, x) /\ x # request[r].got => token[x].d # request[r].got

Renews(p, stage) ==
    \E r \in Requests : request[r].p = p /\ request[r].live /\ request[r].op = "refresh" /\ request[r].at = stage

\* A request a phone gave up on, or that signs it off, and that has touched the
\* phone's device, is known to have.
GivenUpAreKnown ==
    \A r \in Requests :
       LET q == request[r] IN
       (q.op \in {"refresh", "revoke"} /\ phone[q.p].pair # 0 /\ token[q.n].d = token[phone[q.p].pair].d) =>
          /\ q.at = "register" /\ ~q.live => q.p \in barred
          /\ q.at = "answer" /\ ~q.live => q.p \in replaced
          /\ q.at = "remove" => q.p \in replaced

IsRegistered(n) == registered = Torn \/ registered[token[n].d] = n

\* The token a phone holds is registered, until a refresh of it has replaced it,
\* and not revoked, until a refresh has revoked it; the token it is about to be
\* answered with is registered by then.
PairsHold ==
    /\ \A p \in Phones :
          LET n == phone[p].pair IN
          n # 0 /\ n \notin stale =>
             /\ p \notin replaced /\ ~Renews(p, "answer") => IsRegistered(n)
             /\ p \notin barred \cup replaced /\ ~Renews(p, "register") /\ ~Renews(p, "answer")
                   => n \notin revokedNonces
    /\ \A r \in Requests :
          LET q == request[r] IN
          (q.live /\ q.at = "answer" /\ q.got \notin stale /\ (q.op = "exchange" \/ q.p \notin replaced))
             => IsRegistered(q.got)

\* What was granted is approved, and a token that is used up is not granted again.
GrantedIsApproved ==
    /\ granted \subseteq approvedNonces
    /\ \A r \in Requests : request[r].at = "clear" =>
          /\ request[r].n \notin granted
          /\ request[r].n \in revokedNonces \/ token[request[r].n].s # secret

AccessInv ==
    /\ AccessTypes /\ TokensAreRight /\ SecretsAreFresh /\ RegistryIsFiled /\ PhonesWait
    /\ DevicesAreOwned /\ GivenUpAreKnown /\ PairsHold /\ GrantedIsApproved

\* No token is issued and nobody waits: the invariant holds at the start.
LEMMA AccessBegins == AccessInit => AccessInv
<1> SUFFICES ASSUME AccessInit PROVE AccessInv
  OBVIOUS
<1>1. NoDevice \in Devices
  BY TokensAssumption DEF NoDevice, Devices, Nonces
<1>2. AccessTypes
  <2>1. Free \in RequestState
    BY DEF Free, RequestState, Stages
  <2>2. token = <<>> /\ <<>> \in Seq(TokenState) /\ Len(<<>>) = 0 /\ 0 <= MaxTokens
    BY TokensAssumption DEF AccessInit
  <2>3. phone \in [Phones -> PhoneState] /\ request \in [Requests -> RequestState]
    BY <2>1 DEF AccessInit, PhoneState
  <2>4. /\ secret = 1 /\ secretFile = 1 /\ secrets = 1 /\ era = 0 /\ restarts = 0 /\ fails = 0
        /\ registered = NoDevice /\ registryFile = NoDevice /\ approval \in BOOLEAN /\ collided = FALSE
    BY DEF AccessInit
  <2> HIDE DEF AccessInit
  <2>5. token \in Seq(TokenState) /\ Len(token) <= MaxTokens
    BY <2>2
  <2>6. {secret, secretFile, secrets, era, restarts, fails} \subseteq Nat /\ {approval, collided} \subseteq BOOLEAN
    <3>1. {secret, secretFile, secrets, era, restarts, fails} \subseteq Nat
      BY <2>4
    <3>2. collided \in BOOLEAN /\ approval \in BOOLEAN
      BY <2>4
    <3> QED BY <3>1, <3>2
  <2>7. registered \in Devices \cup {Torn} /\ registryFile \in Devices \cup {Torn}
    BY <1>1, <2>4
  <2> QED BY <2>3, <2>5, <2>6, <2>7 DEF AccessTypes
<1>3. TokensAreRight /\ SecretsAreFresh /\ RegistryIsFiled /\ PhonesWait
  BY DEF AccessInit, TokensAreRight, SecretsAreFresh, RegistryIsFiled, PhonesWait, Swaps, Free, Refresh
<1>4. DevicesAreOwned /\ GivenUpAreKnown /\ PairsHold /\ GrantedIsApproved
  BY DEF AccessInit, DevicesAreOwned, GivenUpAreKnown, PairsHold, GrantedIsApproved, Free
<1> QED BY <1>2, <1>3, <1>4 DEF AccessInv

\* A request goes on to another stage.
LEMMA GotoDoes ==
  ASSUME AccessTypes, NEW r \in Requests, NEW s \in Stages, Goto(r, s)
  PROVE  /\ phone' = phone /\ request' \in [Requests -> RequestState]
         /\ \A q \in Requests : q # r => request'[q] = request[q]
         /\ request'[r].at = s /\ request'[r].op = request[r].op /\ request'[r].p = request[r].p
         /\ request'[r].n = request[r].n /\ request'[r].got = request[r].got
         /\ request'[r].live = request[r].live
  BY DEF AccessTypes, RequestState, Goto

\* A request is over; the phone hears of it when it still waits.
LEMMA AnswerDoes ==
  ASSUME AccessTypes, TokensAreRight, PhonesWait, NEW r \in Requests, NEW held \in PhoneState, Answer(r, held)
  PROVE  /\ request' \in [Requests -> RequestState] /\ phone' \in [Phones -> PhoneState]
         /\ \A q \in Requests : q # r => request'[q] = request[q]
         /\ request'[r] = Free
         /\ \A p \in Phones :
               IF request[r].live /\ request[r].p = p
               THEN phone'[p].code = held.code /\ phone'[p].pair = held.pair /\ ~phone'[p].waits
               ELSE phone'[p] = phone[p]
<1>1. Free \in RequestState
  BY DEF Free, RequestState, Stages
<1>2. request[r].live => request[r].p \in Phones
  BY DEF PhonesWait, TokensAreRight
<1>3. [held EXCEPT !.waits = FALSE] \in PhoneState
  BY DEF PhoneState
<1> QED BY <1>1, <1>2, <1>3 DEF AccessTypes, Answer, PhoneState

\* A request that is turned away is free again, and its phone no longer waits for it.
LEMMA RefuseDoes ==
  ASSUME AccessTypes, TokensAreRight, PhonesWait, NEW r \in Requests, Refuse(r)
  PROVE  /\ request' \in [Requests -> RequestState] /\ phone' \in [Phones -> PhoneState]
         /\ \A q \in Requests : q # r => request'[q] = request[q]
         /\ request'[r] = Free
         /\ \A p \in Phones : /\ phone'[p].code = phone[p].code /\ phone'[p].pair = phone[p].pair
                              /\ phone'[p].waits <=> phone[p].waits /\ ~(request[r].live /\ request[r].p = p)
<1>1. CASE request[r].live
  <2>1. request[r].p \in Phones
    BY <1>1 DEF PhonesWait, TokensAreRight
  <2>2. phone[request[r].p] \in PhoneState
    BY <2>1 DEF AccessTypes
  <2> QED BY <1>1, <2>1, <2>2, AnswerDoes DEF Refuse
<1>2. CASE ~request[r].live
  <2>1. Free \in RequestState
    BY DEF Free, RequestState, Stages
  <2> QED BY <1>2, <2>1 DEF Refuse, Answer, AccessTypes
<1> QED BY <1>1, <1>2

\* A token is issued.
LEMMA IssueDoes ==
  ASSUME AccessTypes, NEW kind \in {"pairing", "refresh"}, NEW d \in Nat, Issue(kind, d), Room
  PROVE  /\ token' \in Seq(TokenState) /\ Len(token') = Len(token) + 1 /\ Len(token') <= MaxTokens
         /\ \A n \in 1 .. Len(token) : token'[n] = token[n]
         /\ token'[Len(token) + 1] = [kind |-> kind, s |-> secret, d |-> d, era |-> era]
<1>1. [kind |-> kind, s |-> secret, d |-> d, era |-> era] \in TokenState
  BY DEF AccessTypes, TokenState
<1>2. Len(token) < MaxTokens
  BY TokensAssumption DEF AccessTypes, Room
<1> QED BY <1>1, <1>2, TokensAssumption DEF AccessTypes, Issue

\* What can become of a request, as far as ownership goes.
Keeps(q) == /\ request'[q].op = request[q].op /\ request'[q].p = request[q].p
            /\ request'[q].n = request[q].n /\ request'[q].got = request[q].got
Ends(q) == /\ request'[q].op \in {"none", "revokeAll"} /\ request'[q].n = 0
           /\ request'[q].op = "none" => request'[q].got = 0
Starts(q) == /\ request'[q].p \in Phones /\ request'[q].n # 0 /\ request'[q].got = 0
             /\ \/ request'[q].op = "exchange" /\ request'[q].n = phone[request'[q].p].code
                \/ request'[q].op \in {"refresh", "revoke"} /\ request'[q].n = phone[request'[q].p].pair

\* Nobody comes to own what was not theirs unless a pair is issued.
LEMMA OwnersStay ==
  ASSUME TokensAreRight, DevicesAreOwned,
         Len(token) \in Nat, Len(token') \in Nat, Len(token) <= Len(token'),
         \A n \in 1 .. Len(token) : token'[n] = token[n],
         \A q \in Requests : Keeps(q) \/ Ends(q) \/ Starts(q),
         \A p \in Phones : \/ phone'[p].pair \in {0, phone[p].pair}
                           \/ \E r \in Requests : /\ Ends(r) /\ request[r].p = p
                                                  /\ request[r].op \in {"exchange", "refresh"}
                                                  /\ request[r].got # 0
                                                  /\ phone'[p].pair = request[r].got,
         \A n \in revokedNonces' : n \in revokedNonces \/ \E q \in Requests : n = request[q].n
  PROVE  DevicesAreOwned'
<1>1. ASSUME NEW p \in Phones, NEW x, Owns(p, x)' PROVE Owns(p, x) /\ x \in 1 .. Len(token)
  <2>1. Owns(p, x)
    <3>1. CASE phone'[p].pair = x
      BY <1>1, <3>1 DEF Owns, Works
    <3>2. ASSUME NEW r \in Requests, request'[r].p = p, Works(r, x)' PROVE Owns(p, x)
      BY <1>1, <3>2 DEF Owns, Works, Keeps, Ends, Starts
    <3> QED BY <1>1, <3>1, <3>2 DEF Owns
  <2> QED BY <2>1 DEF Owns, Works, TokensAreRight, Refresh
<1>2. ASSUME NEW r \in Requests, request'[r].op \in {"exchange", "refresh"}, request'[r].got # 0
      PROVE  Keeps(r) /\ request[r].got \in 1 .. Len(token) /\ Refresh(request[r].got)
  BY <1>2 DEF Keeps, Ends, Starts, TokensAreRight, Refresh
<1>3. ASSUME NEW p \in Phones, NEW q \in Phones, NEW x \in 1 .. Len(token'), NEW y \in 1 .. Len(token'),
             p # q, Owns(p, x)', Owns(q, y)'
      PROVE  token'[x].d # token'[y].d
  BY <1>1, <1>3 DEF DevicesAreOwned
<1>4. ASSUME NEW r \in Requests, request'[r].op \in {"exchange", "refresh"}, request'[r].got # 0
      PROVE  /\ \A p \in Phones : phone'[p].pair # request'[r].got
             /\ \A q \in Requests : /\ request'[q].n # request'[r].got
                                    /\ q # r /\ request'[q].op # "revokeAll" => request'[q].got # request'[r].got
             /\ request'[r].got \notin revokedNonces'
  <2>1. Keeps(r) /\ request[r].got \in 1 .. Len(token) /\ Refresh(request[r].got)
    BY <1>2, <1>4
  <2>2. ASSUME NEW p \in Phones PROVE phone'[p].pair # request'[r].got
    <3>1. CASE phone'[p].pair \in {0, phone[p].pair}
      BY <2>1, <3>1, <1>4 DEF Keeps, DevicesAreOwned
    <3>2. ASSUME NEW k \in Requests, Ends(k), request[k].op \in {"exchange", "refresh"}, request[k].got # 0,
                 phone'[p].pair = request[k].got
          PROVE  phone'[p].pair # request'[r].got
      BY <2>1, <3>2, <1>4 DEF Keeps, Ends, DevicesAreOwned
    <3> QED BY <3>1, <3>2
  <2>3. ASSUME NEW q \in Requests PROVE request'[q].n # request'[r].got
    <3>1. CASE Keeps(q) \/ Ends(q)
      BY <2>1, <3>1, <1>4 DEF Keeps, Ends, DevicesAreOwned
    <3>2. CASE Starts(q)
      <4>1. request'[q].n = phone[request'[q].p].pair \/ Pairing(request'[q].n)
        BY <3>2 DEF Starts, TokensAreRight
      <4> QED BY <2>1, <3>2, <4>1, <1>4 DEF Keeps, Starts, DevicesAreOwned, Pairing, Refresh
    <3> QED BY <3>1, <3>2
  <2>4. ASSUME NEW q \in Requests, q # r, request'[q].op # "revokeAll" PROVE request'[q].got # request'[r].got
    BY <2>1, <2>4, <1>4 DEF Keeps, Ends, Starts, DevicesAreOwned
  <2>5. request'[r].got \notin revokedNonces'
    BY <2>1, <1>4 DEF Keeps, DevicesAreOwned
  <2> QED BY <2>2, <2>3, <2>4, <2>5
<1>5. ASSUME NEW r \in Requests, request'[r].op = "exchange", request'[r].got # 0,
             NEW p \in Phones, NEW x \in 1 .. Len(token'), Owns(p, x)', x # request'[r].got
      PROVE  token'[x].d # request'[r].got
  BY <1>1, <1>2, <1>5 DEF DevicesAreOwned, Keeps
<1> QED BY <1>3, <1>4, <1>5 DEF DevicesAreOwned

\* Where the numbers are.
LEMMA AccessNumbers ==
  ASSUME AccessTypes
  PROVE  /\ secret \in Nat /\ secretFile \in Nat /\ secrets \in Nat /\ era \in Nat /\ restarts \in Nat /\ fails \in Nat
         /\ \A n \in 1 .. Len(token) : token[n].s \in Nat /\ token[n].era \in Nat /\ token[n].d \in Nat
         /\ \A k \in Requests : request[k].got \in Nat /\ request[k].n \in Nat
<1>1. \A n \in 1 .. Len(token) : token[n] \in TokenState
  BY DEF AccessTypes
<1>2. \A k \in Requests : request[k] \in RequestState
  BY DEF AccessTypes
<1>3. secret \in Nat /\ secretFile \in Nat /\ secrets \in Nat /\ era \in Nat /\ restarts \in Nat /\ fails \in Nat
  BY DEF AccessTypes
<1> QED BY <1>1, <1>2, <1>3 DEF TokenState, RequestState

\* A request is given a pair.
LEMMA PairDoes ==
  ASSUME AccessTypes, NEW r \in Requests, NEW l \in Nat,
         request' = [request EXCEPT ![r].at = "revoke", ![r].got = l]
  PROVE  /\ request' \in [Requests -> RequestState]
         /\ \A q \in Requests : q # r => request'[q] = request[q]
         /\ request'[r].at = "revoke" /\ request'[r].op = request[r].op /\ request'[r].p = request[r].p
         /\ request'[r].n = request[r].n /\ request'[r].got = l /\ request'[r].live = request[r].live
<1> DEFINE u == [request[r] EXCEPT !.at = "revoke", !.got = l]
<1>1. /\ u \in RequestState /\ u.at = "revoke" /\ u.op = request[r].op /\ u.p = request[r].p
      /\ u.n = request[r].n /\ u.got = l /\ u.live = request[r].live
  BY DEF AccessTypes, RequestState, Stages
<1>2. request' = [request EXCEPT ![r] = u]
  BY DEF AccessTypes
<1> HIDE DEF u
<1> QED BY <1>1, <1>2 DEF AccessTypes

\* The registry is written, or the write fails.
LEMMA SaveDoes ==
  ASSUME AccessTypes, RegistryIsFiled, NEW devices \in Devices, SaveLocked(devices)
  PROVE  /\ registered' = devices /\ registered' # Torn /\ registryFile' \in Devices \cup {Torn}
         /\ fails' \in Nat /\ RegistryIsFiled'
<1>1. devices # Torn
  BY TornAssumption DEF Devices, Nonces
<1> QED BY <1>1 DEF AccessTypes, RegistryIsFiled, SaveLocked

\* A request is turned away.
LEMMA RefusalGoesOn ==
  ASSUME AccessInv, NEW r \in Requests, Refuse(r), request[r].at \notin {"idle", "register", "answer", "swap"},
         UNCHANGED <<token, secret, secretFile, revokedNonces, stale, secrets, era, collided, registered, registryFile, fails,
                     granted, approvedNonces, approval, restarts, barred, replaced>>
  PROVE  AccessInv'
<1> USE DEF AccessInv
<1>z. Len(token) \in Nat /\ AccessTypes /\ TokensAreRight /\ PhonesWait /\ DevicesAreOwned
  BY DEF AccessTypes
<1>a. /\ request' \in [Requests -> RequestState] /\ phone' \in [Phones -> PhoneState]
      /\ \A q \in Requests : q # r => request'[q] = request[q]
      /\ request'[r].op = "none" /\ request'[r].at = "idle" /\ request'[r].n = 0 /\ request'[r].got = 0
      /\ ~request'[r].live
      /\ \A p \in Phones : /\ phone'[p].code = phone[p].code /\ phone'[p].pair = phone[p].pair
                           /\ phone'[p].waits <=> phone[p].waits /\ ~(request[r].live /\ request[r].p = p)
  BY <1>z, RefuseDoes DEF Free
<1>1. AccessTypes'
  BY <1>a DEF AccessTypes
<1>2. TokensAreRight'
  BY <1>a, SMTT(40) DEF TokensAreRight, Refresh, Pairing
<1>3. SecretsAreFresh'
  BY <1>a DEF SecretsAreFresh, Swaps
<1>4. RegistryIsFiled'
  BY <1>a DEF RegistryIsFiled
<1>5. PhonesWait'
  BY <1>a DEF PhonesWait, TokensAreRight
<1>6. DevicesAreOwned'
  <2>1. \A q \in Requests : Keeps(q) \/ Ends(q) \/ Starts(q)
    BY <1>a DEF Keeps, Ends, Starts, Free
  <2> HIDE DEF AccessInv
  <2> QED BY <2>1, <1>z, <1>a, OwnersStay DEF Ends
<1>7. GivenUpAreKnown'
  BY <1>a, SMTT(40) DEF GivenUpAreKnown, TokensAreRight, PhonesWait, Refresh
<1>8. PairsHold'
  <2>1. ASSUME NEW q \in Phones
        PROVE  /\ Renews(q, "answer") => Renews(q, "answer")'
               /\ Renews(q, "register") => Renews(q, "register")'
    BY <1>a DEF Renews
  <2>2. ASSUME NEW q \in Phones, NEW n, n = phone'[q].pair, n # 0, n \notin stale'
        PROVE  /\ q \notin replaced' /\ ~Renews(q, "answer")' => IsRegistered(n)'
               /\ q \notin barred' \cup replaced' /\ ~Renews(q, "register")' /\ ~Renews(q, "answer")'
                    => n \notin revokedNonces'
    BY <2>1, <2>2, <1>a DEF PairsHold, IsRegistered
  <2>3. ASSUME NEW k \in Requests, request'[k].live, request'[k].at = "answer", request'[k].got \notin stale',
               request'[k].op = "exchange" \/ request'[k].p \notin replaced'
        PROVE  registered' = Torn \/ registered'[token'[request'[k].got].d] = request'[k].got
    BY <2>3, <1>a DEF PairsHold, IsRegistered, Free
  <2> QED BY <2>2, <2>3 DEF PairsHold, IsRegistered
<1>9. GrantedIsApproved'
  BY <1>a DEF GrantedIsApproved, TokensAreRight
<1> QED BY <1>1, <1>2, <1>3, <1>4, <1>5, <1>6, <1>7, <1>8, <1>9

\* A request goes on to be decided, or answered.
LEMMA StageGoesOn ==
  ASSUME AccessInv, NEW r \in Requests, NEW s \in {"status", "ensure", "generate"}, Goto(r, s),
         request[r].at \in {"validate", "status"}, request[r].op \in {"exchange", "refresh"},
         s # "generate" => request[r].op = "exchange",
         UNCHANGED <<token, secret, secretFile, revokedNonces, stale, secrets, era, collided, registered, registryFile, fails,
                     granted, approvedNonces, approval, restarts, barred, replaced>>
  PROVE  AccessInv'
<1> USE DEF AccessInv
<1>z. Len(token) \in Nat /\ AccessTypes /\ TokensAreRight /\ PhonesWait /\ DevicesAreOwned
  BY DEF AccessTypes
<1>a. /\ phone' = phone /\ request' \in [Requests -> RequestState]
      /\ \A q \in Requests : q # r => request'[q] = request[q]
      /\ request'[r].at = s /\ request'[r].op = request[r].op /\ request'[r].p = request[r].p
      /\ request'[r].n = request[r].n /\ request'[r].got = request[r].got
      /\ request'[r].live = request[r].live
  BY <1>z, GotoDoes DEF Stages
<1>1. AccessTypes'
  BY <1>a DEF AccessTypes
<1>2. TokensAreRight'
  BY <1>a DEF TokensAreRight, Refresh, Pairing
<1>3. SecretsAreFresh'
  BY <1>a DEF SecretsAreFresh, Swaps
<1>4. RegistryIsFiled'
  BY <1>a DEF RegistryIsFiled
<1>5. PhonesWait'
  BY <1>a DEF PhonesWait, TokensAreRight
<1>6. DevicesAreOwned'
  <2>1. \A q \in Requests : Keeps(q) \/ Ends(q) \/ Starts(q)
    BY <1>a DEF Keeps, Ends, Starts, Free
  <2> HIDE DEF AccessInv
  <2> QED BY <2>1, <1>z, <1>a, OwnersStay DEF Ends
<1>7. GivenUpAreKnown'
  BY <1>a DEF GivenUpAreKnown, TokensAreRight, PhonesWait, Refresh
<1>8. PairsHold'
  <2>1. ASSUME NEW q \in Phones
        PROVE  /\ Renews(q, "answer") => Renews(q, "answer")'
               /\ Renews(q, "register") => Renews(q, "register")'
    BY <1>a DEF Renews
  <2>2. ASSUME NEW q \in Phones, NEW n, n = phone'[q].pair, n # 0, n \notin stale'
        PROVE  /\ q \notin replaced' /\ ~Renews(q, "answer")' => IsRegistered(n)'
               /\ q \notin barred' \cup replaced' /\ ~Renews(q, "register")' /\ ~Renews(q, "answer")'
                    => n \notin revokedNonces'
    BY <2>1, <2>2, <1>a DEF PairsHold, IsRegistered
  <2>3. ASSUME NEW k \in Requests, request'[k].live, request'[k].at = "answer", request'[k].got \notin stale',
               request'[k].op = "exchange" \/ request'[k].p \notin replaced'
        PROVE  registered' = Torn \/ registered'[token'[request'[k].got].d] = request'[k].got
    BY <2>3, <1>a DEF PairsHold, IsRegistered, Free
  <2> QED BY <2>2, <2>3 DEF PairsHold, IsRegistered
<1>9. GrantedIsApproved'
  BY <1>a DEF GrantedIsApproved, TokensAreRight
<1> QED BY <1>1, <1>2, <1>3, <1>4, <1>5, <1>6, <1>7, <1>8, <1>9

\* A pair is issued for a request.
LEMMA PairGoesOn ==
  ASSUME AccessInv, NEW r \in Requests, request[r].at = "generate", Room,
         Issue("refresh", IF request[r].op = "exchange" THEN LastToken ELSE token[request[r].n].d),
         request' \in [Requests -> RequestState],
         \A q \in Requests : q # r => request'[q] = request[q],
         request'[r].at = "revoke", request'[r].op = request[r].op, request'[r].p = request[r].p,
         request'[r].n = request[r].n, request'[r].got = Len(token) + 1, request'[r].live = request[r].live,
         UNCHANGED <<phone, secret, secretFile, revokedNonces, stale, secrets, era, collided, registered,
                     registryFile, fails, granted, approvedNonces, approval, restarts, barred, replaced>>
  PROVE  AccessInv'
<1> USE DEF AccessInv
<1>z. Len(token) \in Nat /\ AccessTypes /\ TokensAreRight /\ PhonesWait /\ DevicesAreOwned
  BY DEF AccessTypes
<1>d. /\ request[r].at = "generate" /\ request[r].op \in {"exchange", "refresh"} /\ request[r].p \in Phones
      /\ request[r].got = 0
      /\ request[r].op = "refresh" => Refresh(request[r].n) /\ token[request[r].n].d \in 1 .. Len(token)
  <2>1. request[r].op \in {"none", "exchange", "refresh", "revoke", "revokeAll"}
    BY DEF AccessTypes, RequestState
  <2> QED BY <2>1 DEF TokensAreRight, Refresh
<1>n. \A q \in Requests : request[q].n # Len(token) + 1
  <2>1. \A n \in 1 .. Len(token) : n # Len(token) + 1
    BY <1>z
  <2>2. \A n : Refresh(n) \/ Pairing(n) => n \in 1 .. Len(token)
    BY DEF Refresh, Pairing
  <2>3. \A q \in Requests : request[q].op \in {"none", "exchange", "refresh", "revoke", "revokeAll"}
    BY DEF AccessTypes, RequestState
  <2>4. Len(token) + 1 # 0
    BY <1>z
  <2> QED BY <2>1, <2>2, <2>3, <2>4 DEF TokensAreRight
<1>e. (IF request[r].op = "exchange" THEN LastToken ELSE token[request[r].n].d) \in Nat
  BY <1>d, <1>z DEF LastToken
<1>b. /\ token' \in Seq(TokenState) /\ Len(token') = Len(token) + 1 /\ Len(token') <= MaxTokens
      /\ \A n \in 1 .. Len(token) : token'[n] = token[n]
      /\ token'[Len(token) + 1].kind = "refresh" /\ token'[Len(token) + 1].s = secret
      /\ token'[Len(token) + 1].era = era
      /\ token'[Len(token) + 1].d = IF request[r].op = "exchange" THEN Len(token) + 1 ELSE token[request[r].n].d
  <2> DEFINE d == IF request[r].op = "exchange" THEN LastToken ELSE token[request[r].n].d
  <2>1. d = IF request[r].op = "exchange" THEN Len(token) + 1 ELSE token[request[r].n].d
    BY DEF LastToken
  <2>2. Issue("refresh", d) /\ d \in Nat /\ AccessTypes /\ Room
    BY <1>e, <1>z
  <2> HIDE DEF d, AccessInv
  <2>3. /\ token' \in Seq(TokenState) /\ Len(token') = Len(token) + 1 /\ Len(token') <= MaxTokens
        /\ \A n \in 1 .. Len(token) : token'[n] = token[n]
        /\ token'[Len(token) + 1] = [kind |-> "refresh", s |-> secret, d |-> d, era |-> era]
    BY <2>2, IssueDoes
  <2> QED BY <2>1, <2>3
<1>c. /\ phone' = phone /\ request' \in [Requests -> RequestState]
      /\ \A q \in Requests : q # r => request'[q] = request[q]
      /\ request'[r].at = "revoke" /\ request'[r].op = request[r].op /\ request'[r].p = request[r].p
      /\ request'[r].n = request[r].n /\ request'[r].got = Len(token) + 1 /\ request'[r].live = request[r].live
  OBVIOUS
<1>f. UNCHANGED <<secret, secretFile, revokedNonces, stale, secrets, era, collided, registered,
                  registryFile, fails, granted, approvedNonces, approval, restarts, barred, replaced>>
  OBVIOUS
<1>1. AccessTypes'
  BY <1>b, <1>c, <1>d, <1>f DEF AccessTypes
<1>2. TokensAreRight'
  <2>1. \A n \in 1 .. Len(token) : /\ n \in 1 .. Len(token') /\ token'[n] = token[n]
                                   /\ Refresh(n)' <=> Refresh(n)
                                   /\ Pairing(n)' <=> Pairing(n)
    BY <1>b, <1>z DEF Refresh, Pairing
  <2>2. Len(token) + 1 \in 1 .. Len(token')
    BY <1>b, <1>z
  <2>3. ASSUME NEW x, x = Len(token) + 1 PROVE Refresh(x)'
    BY <2>3, <2>2, <1>b DEF Refresh
  <2>4. ASSUME NEW n \in 1 .. Len(token') PROVE n \in 1 .. Len(token) \/ n = Len(token) + 1
    BY <1>b, <1>z
  <2>5. ASSUME NEW n \in 1 .. Len(token'), Refresh(n)' PROVE token'[n].d \in 1 .. Len(token')
    <3>1. CASE n \in 1 .. Len(token)
      <4>1. token[n].d \in 1 .. Len(token)
        BY <3>1, <2>1, <2>5 DEF TokensAreRight
      <4> QED BY <3>1, <4>1, <2>1
    <3>2. CASE n = Len(token) + 1
      BY <3>2, <1>b, <1>d, <2>1, <2>2
    <3> QED BY <3>1, <3>2, <2>4
  <2>6. \A n : (Refresh(n) => Refresh(n)') /\ (Pairing(n) => Pairing(n)') /\ (Refresh(n) \/ Pairing(n) => token'[n] = token[n])
    <3>1. \A n : Refresh(n) \/ Pairing(n) => n \in 1 .. Len(token)
      BY DEF Refresh, Pairing
    <3> QED BY <3>1, <2>1
  <2>7. revokedNonces' \subseteq 1 .. Len(token')
    BY <2>1, <1>f DEF TokensAreRight
  <2>8. ASSUME NEW x, NEW y, NEW p \in Phones, x = phone'[p].pair, y = phone'[p].code
        PROVE  (x = 0 \/ Refresh(x)') /\ (y = 0 \/ Pairing(y)')
    BY <2>6, <2>8, <1>c DEF TokensAreRight
  <2>9. ASSUME NEW k \in Requests, k # r, NEW x, NEW y, x = request'[k].n, y = request'[k].got
        PROVE  /\ request[k].op = "exchange" => Pairing(x)'
               /\ request[k].op \in {"refresh", "revoke"} => Refresh(x)' /\ token'[x] = token[x]
               /\ request[k].op \in {"exchange", "refresh"} /\ y # 0 => Refresh(y)' /\ token'[y] = token[y]
    BY <2>6, <2>9, <1>c DEF TokensAreRight
  <2>10. ASSUME NEW x, x = request'[r].n
         PROVE  /\ request[r].op = "exchange" => Pairing(x)'
                /\ request[r].op = "refresh" => Refresh(x)' /\ token'[x] = token[x]
    BY <2>6, <2>10, <1>c DEF TokensAreRight
  <2>11. \A p \in Phones : (phone[p].pair = 0 \/ Refresh(phone[p].pair))' /\ (phone[p].code = 0 \/ Pairing(phone[p].code))'
    BY <2>8 DEF Refresh, Pairing
  <2>12. ASSUME NEW k \in Requests, k # r
         PROVE  LET q == request'[k] IN
                /\ q.op \in {"exchange", "refresh", "revoke"} => q.p \in Phones
                /\ q.op = "exchange" => q.n \in 1 .. Len(token') /\ token'[q.n].kind = "pairing"
                /\ q.op \in {"refresh", "revoke"} => q.n \in 1 .. Len(token') /\ token'[q.n].kind = "refresh"
                /\ q.op \in {"exchange", "refresh"} /\ q.got # 0 => q.got \in 1 .. Len(token') /\ token'[q.got].kind = "refresh"
                /\ q.op = "exchange" /\ q.got # 0 => token'[q.got].d = q.got
                /\ q.op = "refresh" /\ q.got # 0 => token'[q.got].d = token'[q.n].d
    BY <2>9, <2>12, <1>c DEF TokensAreRight, Refresh, Pairing
  <2>13. LET q == request'[r] IN
         /\ q.op \in {"exchange", "refresh", "revoke"} => q.p \in Phones
         /\ q.op = "exchange" => q.n \in 1 .. Len(token') /\ token'[q.n].kind = "pairing"
         /\ q.op \in {"refresh", "revoke"} => q.n \in 1 .. Len(token') /\ token'[q.n].kind = "refresh"
         /\ q.op \in {"exchange", "refresh"} /\ q.got # 0 => q.got \in 1 .. Len(token') /\ token'[q.got].kind = "refresh"
         /\ q.op = "exchange" /\ q.got # 0 => token'[q.got].d = q.got
         /\ q.op = "refresh" /\ q.got # 0 => token'[q.got].d = token'[q.n].d
    BY <2>2, <2>10, <1>b, <1>c, <1>d DEF TokensAreRight, Refresh, Pairing
  <2>14. ASSUME NEW k \in Requests
         PROVE  LET q == request'[k] IN
                /\ q.op \in {"none", "revoke"} => q.got = 0
                /\ q.op \in {"none", "revokeAll"} => q.n = 0
                /\ q.at \in {"revoke", "clear", "register", "answer"} <=> (q.got # 0 /\ q.op # "revokeAll")
                /\ q.op = "none" <=> q.at = "idle"
                /\ q.op = "revokeAll" <=> q.at = "swap"
                /\ q.at = "remove" => q.op = "revoke"
                /\ q.op = "revoke" => q.at \in {"validate", "remove"}
                /\ q.at = "clear" => q.op = "exchange"
                /\ q.at \in {"status", "ensure"} => q.op = "exchange"
    <3>1. CASE k = r
      BY <3>1, <1>c, <1>d, <1>z
    <3>2. CASE k # r
      BY <3>2, <1>c DEF TokensAreRight
    <3> QED BY <3>1, <3>2
  <2> HIDE DEF AccessInv
  <2>15. \A n \in 1 .. Len(token') : n \in 1 .. Len(token') /\ token'[n].kind = "refresh" => token'[n].d \in 1 .. Len(token')
    BY <2>5 DEF Refresh
  <2>16. \A q \in Phones : /\ phone'[q].pair = 0 \/ (phone'[q].pair \in 1 .. Len(token') /\ token'[phone'[q].pair].kind = "refresh")
                           /\ phone'[q].code = 0 \/ (phone'[q].code \in 1 .. Len(token') /\ token'[phone'[q].code].kind = "pairing")
    BY <2>11 DEF Refresh, Pairing
  <2>17. ASSUME NEW k \in Requests
         PROVE  LET q == request'[k] IN
                /\ q.op \in {"exchange", "refresh", "revoke"} => q.p \in Phones
                /\ q.op = "exchange" => q.n \in 1 .. Len(token') /\ token'[q.n].kind = "pairing"
                /\ q.op \in {"refresh", "revoke"} => q.n \in 1 .. Len(token') /\ token'[q.n].kind = "refresh"
                /\ q.op \in {"exchange", "refresh"} /\ q.got # 0 => q.got \in 1 .. Len(token') /\ token'[q.got].kind = "refresh"
                /\ q.op = "exchange" /\ q.got # 0 => token'[q.got].d = q.got
                /\ q.op = "refresh" /\ q.got # 0 => token'[q.got].d = token'[q.n].d
    BY <2>12, <2>13
  <2> QED
    BY <2>7, <2>14, <2>15, <2>16, <2>17, Zenon DEF TokensAreRight, Refresh, Pairing
<1>3. SecretsAreFresh'
  <2>1. ASSUME NEW n \in 1 .. Len(token')
        PROVE  /\ token'[n].s <= secrets /\ token'[n].era <= era
               /\ (token'[n].era = era /\ ~collided) => token'[n].s = secret
               /\ \A k \in Requests : request[k].at = "swap" => token'[n].s # request[k].got
    <3>1. CASE n = Len(token) + 1
      BY <3>1, <1>b DEF SecretsAreFresh, AccessTypes, Swaps
    <3>2. CASE n \in 1 .. Len(token)
      BY <3>2, <1>b DEF SecretsAreFresh, Swaps
    <3> QED BY <3>1, <3>2, <1>b, <1>z
  <2>2. ASSUME NEW k \in Requests
        PROVE  /\ request'[k].at = "swap" <=> request[k].at = "swap"
               /\ request[k].at = "swap" => request'[k].got = request[k].got
    <3>1. CASE k = r
      BY <3>1, <1>c, <1>d
    <3>2. CASE k # r
      BY <3>2, <1>c
    <3> QED BY <3>1, <3>2
  <2>3. SecretsAreFresh
    OBVIOUS
  <2> HIDE DEF AccessInv
  <2>4. ASSUME NEW k \in Requests, request'[k].at = "swap"
        PROVE  /\ request'[k].got <= secrets' /\ request'[k].got > 0 /\ request'[k].got # secret'
               /\ \A n \in 1 .. Len(token') : token'[n].s # request'[k].got
               /\ \A q \in Requests \ {k} : request'[q].at = "swap" => request'[q].got # request'[k].got
    BY <2>1, <2>2, <2>3, <2>4, <1>f DEF SecretsAreFresh, Swaps
  <2>5. ASSUME ~collided'
        PROVE  /\ \A k \in Requests : request'[k].at = "swap" => secretFile' = request'[k].got
               /\ (\A k \in Requests : request'[k].at # "swap") => secretFile' = secret'
    BY <2>2, <2>3, <2>5, <1>f DEF SecretsAreFresh, Swaps
  <2>6. secret' <= secrets' /\ secretFile' <= secrets' /\ secret' > 0
    BY <2>3, <1>f DEF SecretsAreFresh
  <2> QED BY <2>1, <2>4, <2>5, <2>6, <1>f DEF SecretsAreFresh, Swaps
<1>4. RegistryIsFiled'
  BY <1>b, <1>c, <1>d, <1>f DEF RegistryIsFiled
<1>5. PhonesWait'
  BY <1>b, <1>c, <1>d, <1>f DEF PhonesWait, TokensAreRight
<1>6. DevicesAreOwned'
  <2> DEFINE l == Len(token) + 1
  <2>1. /\ l \notin 1 .. Len(token) /\ l # 0
        /\ \A p \in Phones : phone[p].pair \in {0} \cup 1 .. Len(token)
        /\ \A k \in Requests : /\ request[k].op # "revokeAll" => request[k].got \in {0} \cup 1 .. Len(token)
                               /\ request[k].op \in {"exchange", "refresh", "revoke"} => request[k].n \in 1 .. Len(token)
    <3>1. \A n : Refresh(n) \/ Pairing(n) => n \in 1 .. Len(token)
      BY DEF Refresh, Pairing
    <3>2. l \notin 1 .. Len(token) /\ l # 0
      BY <1>z
    <3>3. \A k \in Requests : request[k].op \in {"none", "exchange", "refresh", "revoke", "revokeAll"}
      BY DEF AccessTypes, RequestState
    <3> HIDE DEF l
    <3> QED BY <3>1, <3>2, <3>3 DEF TokensAreRight
  <2>2. ASSUME NEW p \in Phones, NEW x, Owns(p, x)'
        PROVE  (Owns(p, x) /\ x \in 1 .. Len(token)) \/ (x = l /\ p = request[r].p)
    <3>1. CASE x = l
      <4>1. ~(phone'[p].pair = l)
        BY <2>1, <1>c
      <4>3. \E k \in Requests : request'[k].p = p /\ Works(k, x)'
        BY <2>2, <3>1, <4>1 DEF Owns
      <4>4. PICK k \in Requests : request'[k].p = p /\ Works(k, x)'
        BY <4>3
      <4>5. ASSUME k # r PROVE FALSE
        <5>1. request'[k] = request[k]
          BY <4>5, <1>c
        <5>2. request[k].n = l \/ request[k].got = l
          BY <4>4, <5>1, <3>1 DEF Works
        <5>3. request[k].op \in {"exchange", "refresh", "revoke"}
          BY <4>4, <5>1 DEF Works
        <5> HIDE DEF l
        <5> QED BY <2>1, <5>2, <5>3
      <4> QED BY <4>4, <4>5, <1>c, <3>1
    <3>2. CASE x # l
      <4>1. Owns(p, x)
        BY <3>2, <2>2, <1>c DEF Owns, Works
      <4> QED BY <4>1 DEF Owns, Works, TokensAreRight, Refresh
    <3> QED BY <3>1, <3>2
  <2>3. \A x \in 1 .. Len(token) : token'[x] = token[x] /\ token'[x].d = token[x].d
    BY <1>b
  <2>4. ASSUME NEW p \in Phones, NEW x \in 1 .. Len(token), Owns(p, x) PROVE token[x].d \in 1 .. Len(token)
    BY <2>4 DEF Owns, Works, TokensAreRight
  <2>5. \/ request[r].op = "exchange" /\ token'[l].d = l
        \/ request[r].op = "refresh" /\ token'[l].d = token[request[r].n].d
           /\ Owns(request[r].p, request[r].n) /\ request[r].n \in 1 .. Len(token)
    <3>1. request[r].n \in 1 .. Len(token) /\ request[r].n # 0
      BY <2>1, <1>d, <1>z
    <3> QED BY <3>1, <1>b, <1>d DEF Owns, Works
  <2>6. ASSUME NEW p \in Phones, NEW x \in 1 .. Len(token), Owns(p, x), p # request[r].p
        PROVE  token[x].d # token'[l].d
    BY <2>1, <2>4, <2>5, <2>6, <1>d DEF DevicesAreOwned
  <2>7. ASSUME NEW p \in Phones, NEW q \in Phones, NEW x \in 1 .. Len(token'), NEW y \in 1 .. Len(token'),
               p # q, Owns(p, x)', Owns(q, y)'
        PROVE  token'[x].d # token'[y].d
    <3>1. CASE x = l
      <4>1. p = request[r].p
        BY <3>1, <2>1, <2>2, <2>7
      <4>2. Owns(q, y) /\ y \in 1 .. Len(token)
        BY <4>1, <2>2, <2>7
      <4> QED BY <3>1, <4>1, <4>2, <2>3, <2>6, <2>7
    <3>2. CASE y = l
      <4>1. q = request[r].p
        BY <3>2, <2>1, <2>2, <2>7
      <4>2. Owns(p, x) /\ x \in 1 .. Len(token)
        BY <4>1, <2>2, <2>7
      <4> QED BY <3>2, <4>1, <4>2, <2>3, <2>6, <2>7
    <3>3. CASE x # l /\ y # l
      <4>1. Owns(p, x) /\ x \in 1 .. Len(token) /\ Owns(q, y) /\ y \in 1 .. Len(token)
        BY <3>3, <2>2, <2>7
      <4> QED BY <4>1, <2>3, <2>7 DEF DevicesAreOwned
    <3> QED BY <3>1, <3>2, <3>3
  <2>8. ASSUME NEW k \in Requests, request'[k].op \in {"exchange", "refresh"}, request'[k].got # 0
        PROVE  /\ \A p \in Phones : phone'[p].pair # request'[k].got
               /\ \A q \in Requests : /\ request'[q].n # request'[k].got
                                      /\ q # k /\ request'[q].op # "revokeAll" => request'[q].got # request'[k].got
               /\ request'[k].got \notin revokedNonces'
    <3>1. CASE k = r
      <4>1. request'[k].got = l
        BY <3>1, <1>c
      <4>2. \A q \in Requests : request[q].n # l
        BY <2>1, <1>n
      <4> QED BY <3>1, <4>1, <4>2, <2>1, <1>c, <1>f DEF TokensAreRight
    <3>2. CASE k # r
      <4>1. request'[k] = request[k] /\ request[k].got # l
        BY <3>2, <2>1, <2>8, <1>c
      <4> QED BY <3>2, <4>1, <2>8, <1>c, <1>f DEF DevicesAreOwned
    <3> QED BY <3>1, <3>2
  <2>9. ASSUME NEW k \in Requests, request'[k].op = "exchange", request'[k].got # 0,
               NEW p \in Phones, NEW x \in 1 .. Len(token'), Owns(p, x)', x # request'[k].got
        PROVE  token'[x].d # request'[k].got
    <3>1. CASE k = r
      <4>1. request'[k].got = l
        BY <3>1, <1>c
      <4>2. Owns(p, x) /\ x \in 1 .. Len(token)
        BY <4>1, <2>2, <2>9
      <4>3. token'[x].d \in 1 .. Len(token)
        BY <4>2, <2>3, <2>4
      <4> HIDE DEF l
      <4> QED BY <4>1, <4>3, <2>1
    <3>2. CASE k # r
      <4>1. request'[k] = request[k] /\ request[k].got # l
        BY <3>2, <2>1, <2>9, <1>c
      <4>2. CASE x = l
        <5>1. request[r].op = "refresh" => request[r].n # request[k].got
          BY <4>1, <2>9 DEF DevicesAreOwned
        <5>2. request[r].op = "refresh" => token[request[r].n].d # request[k].got
          BY <4>1, <5>1, <2>5, <2>9, <1>d DEF DevicesAreOwned
        <5> HIDE DEF l
        <5> QED BY <4>1, <4>2, <5>2, <2>5
      <4>3. CASE x # l
        <5> HIDE DEF l, AccessInv
        <5>1. Owns(p, x) /\ x \in 1 .. Len(token)
          BY <4>3, <2>2, <2>9
        <5> QED BY <4>1, <5>1, <2>3, <2>9, <1>z DEF DevicesAreOwned
      <4> QED BY <4>2, <4>3
    <3> QED BY <3>1, <3>2
  <2> HIDE DEF l, AccessInv
  <2> QED BY <2>7, <2>8, <2>9 DEF DevicesAreOwned
<1>7. GivenUpAreKnown'
  <2>1. ASSUME NEW n, Refresh(n) PROVE token'[n] = token[n]
    BY <2>1, <1>b DEF Refresh
  <2>2. ASSUME NEW k \in Requests, request[k].op \in {"refresh", "revoke"}, phone[request[k].p].pair # 0
        PROVE  token'[request[k].n] = token[request[k].n] /\ token'[phone[request[k].p].pair] = token[phone[request[k].p].pair]
    BY <2>1, <2>2 DEF TokensAreRight
  <2> QED BY <2>2, <1>c, <1>d, <1>f DEF GivenUpAreKnown
<1>8. PairsHold'
  <2>1. ASSUME NEW q \in Phones
        PROVE  /\ Renews(q, "answer") => Renews(q, "answer")'
               /\ Renews(q, "register") => Renews(q, "register")'
    BY <1>c, <1>d DEF Renews
  <2>2. ASSUME NEW n, Refresh(n) PROVE token'[n] = token[n]
    BY <2>2, <1>b DEF Refresh
  <2>3. ASSUME NEW q \in Phones, NEW n, n = phone'[q].pair, n # 0, n \notin stale'
        PROVE  /\ q \notin replaced' /\ ~Renews(q, "answer")' => IsRegistered(n)'
               /\ q \notin barred' \cup replaced' /\ ~Renews(q, "register")' /\ ~Renews(q, "answer")'
                    => n \notin revokedNonces'
    <3>1. token'[n] = token[n]
      BY <2>2, <2>3, <1>c DEF TokensAreRight
    <3> QED BY <3>1, <2>1, <2>3, <1>c, <1>f DEF PairsHold, IsRegistered
  <2>4. ASSUME NEW k \in Requests, request'[k].live, request'[k].at = "answer", request'[k].got \notin stale',
               request'[k].op = "exchange" \/ request'[k].p \notin replaced'
        PROVE  registered' = Torn \/ registered'[token'[request'[k].got].d] = request'[k].got
    <3>1. k # r /\ request[k].got # 0 /\ request[k].op \in {"exchange", "refresh"}
      BY <2>4, <1>c, <1>d DEF PhonesWait, TokensAreRight
    <3>2. token'[request[k].got] = token[request[k].got]
      BY <3>1, <2>2 DEF TokensAreRight
    <3> QED BY <3>1, <3>2, <2>4, <1>c, <1>f DEF PairsHold, IsRegistered
  <2> QED BY <2>3, <2>4 DEF PairsHold, IsRegistered
<1>9. GrantedIsApproved'
  <2>1. ASSUME NEW k \in Requests, request[k].at = "clear" PROVE token'[request[k].n] = token[request[k].n]
    BY <2>1, <1>b DEF TokensAreRight, Pairing
  <2> QED BY <2>1, <1>c, <1>f DEF GrantedIsApproved
<1> QED BY <1>1, <1>2, <1>3, <1>4, <1>5, <1>6, <1>7, <1>8, <1>9

\* The token of a phone that signs off is revoked.
LEMMA SignOffGoesOn ==
  ASSUME AccessInv, NEW r \in Requests, Goto(r, "remove"), request[r].at = "validate", request[r].op = "revoke",
         revokedNonces' = revokedNonces \cup {request[r].n}, replaced' = replaced \cup {request[r].p},
         UNCHANGED <<token, secret, secretFile, stale, secrets, era, collided, registered,
                     registryFile, fails, granted, approvedNonces, approval, restarts, barred>>
  PROVE  AccessInv'
<1> USE DEF AccessInv
<1>z. Len(token) \in Nat /\ AccessTypes /\ TokensAreRight /\ PhonesWait /\ DevicesAreOwned
  BY DEF AccessTypes
<1>o. /\ \A p \in Phones : phone[p].pair # 0 => Owns(p, phone[p].pair) /\ phone[p].pair \in 1 .. Len(token)
      /\ \A k \in Requests : request[k].op \in {"exchange", "refresh"} /\ request[k].got # 0 =>
            Owns(request[k].p, request[k].got) /\ request[k].got \in 1 .. Len(token) /\ request[k].p \in Phones
      /\ \A k \in Requests : request[k].op \in {"refresh", "revoke"} =>
            Owns(request[k].p, request[k].n) /\ request[k].n \in 1 .. Len(token) /\ request[k].p \in Phones
  <2>1. \A n \in 1 .. Len(token) : n # 0
    BY <1>z
  <2> QED BY <2>1 DEF Owns, Works, TokensAreRight, Refresh
<1>b. /\ request[r].at = "validate" /\ request[r].op = "revoke" /\ request[r].n \in 1 .. Len(token)
      /\ request[r].p \in Phones
  BY <1>o
<1>a. /\ phone' = phone /\ request' \in [Requests -> RequestState]
      /\ \A q \in Requests : q # r => request'[q] = request[q]
      /\ request'[r].at = "remove" /\ request'[r].op = request[r].op /\ request'[r].p = request[r].p
      /\ request'[r].n = request[r].n /\ request'[r].got = request[r].got
      /\ request'[r].live = request[r].live
  BY <1>z, GotoDoes DEF Stages
<1>c. revokedNonces' = revokedNonces \cup {request[r].n} /\ replaced' = replaced \cup {request[r].p}
  OBVIOUS
<1>f. UNCHANGED <<token, secret, secretFile, stale, secrets, era, collided, registered, registryFile, fails, granted, approvedNonces, approval, restarts, barred>>
  OBVIOUS
<1>1. AccessTypes'
  BY <1>a, <1>b, <1>c, <1>f DEF AccessTypes
<1>2. TokensAreRight'
  <2>1. revokedNonces' \subseteq 1 .. Len(token')
    BY <1>b, <1>c, <1>f DEF TokensAreRight
  <2> QED BY <2>1, <1>a, <1>b, <1>f DEF TokensAreRight, Refresh, Pairing
<1>3. SecretsAreFresh'
  BY <1>a, <1>b, <1>c, <1>f DEF SecretsAreFresh, Swaps
<1>4. RegistryIsFiled'
  BY <1>a, <1>b, <1>c, <1>f DEF RegistryIsFiled
<1>5. PhonesWait'
  BY <1>a, <1>b, <1>c, <1>f DEF PhonesWait, TokensAreRight
<1>6. DevicesAreOwned'
  <2>1. \A q \in Requests : Keeps(q) \/ Ends(q) \/ Starts(q)
    BY <1>a, <1>b, <1>c, <1>f DEF Keeps, Ends, Starts, Free
  <2> HIDE DEF AccessInv
  <2> QED BY <2>1, <1>z, <1>a, <1>b, <1>c, <1>f, OwnersStay DEF Ends
<1>7. GivenUpAreKnown'
  BY <1>a, <1>b, <1>c, <1>f DEF GivenUpAreKnown, TokensAreRight, PhonesWait, Refresh
<1>8. PairsHold'
  <2>1. ASSUME NEW q \in Phones
        PROVE  /\ Renews(q, "answer") => Renews(q, "answer")'
               /\ Renews(q, "register") => Renews(q, "register")'
    BY <1>a, <1>b DEF Renews
  <2>2. ASSUME NEW q \in Phones, NEW n, n = phone'[q].pair, n # 0, n \notin stale'
        PROVE  /\ q \notin replaced' /\ ~Renews(q, "answer")' => IsRegistered(n)'
               /\ q \notin barred' \cup replaced' /\ ~Renews(q, "register")' /\ ~Renews(q, "answer")'
                    => n \notin revokedNonces'
    <3>1. ASSUME q \notin replaced' PROVE n # request[r].n
      <4>1. q # request[r].p
        BY <3>1, <1>c
      <4> QED BY <4>1, <2>2, <1>a, <1>b, <1>o DEF DevicesAreOwned
    <3> QED BY <3>1, <2>1, <2>2, <1>a, <1>c, <1>f DEF PairsHold, IsRegistered
  <2>3. ASSUME NEW k \in Requests, request'[k].live, request'[k].at = "answer", request'[k].got \notin stale',
               request'[k].op = "exchange" \/ request'[k].p \notin replaced'
        PROVE  registered' = Torn \/ registered'[token'[request'[k].got].d] = request'[k].got
    BY <2>3, <1>a, <1>b, <1>c, <1>f DEF PairsHold, IsRegistered
  <2> QED BY <2>2, <2>3 DEF PairsHold, IsRegistered
<1>9. GrantedIsApproved'
  BY <1>a, <1>b, <1>c, <1>f DEF GrantedIsApproved, TokensAreRight
<1> QED BY <1>1, <1>2, <1>3, <1>4, <1>5, <1>6, <1>7, <1>8, <1>9

\* Every section of pairing, refreshing, approving, revoking and restarting keeps the
\* invariant.
LEMMA AccessGoesOn ==
  ASSUME AccessInv, [AccessNext]_accessVars PROVE AccessInv'
<1> USE DEF AccessInv
<1>1. ASSUME NEW p \in Phones, GeneratePairingToken(p) PROVE AccessInv'
  <2>z. Len(token) \in Nat /\ AccessTypes /\ TokensAreRight /\ PhonesWait /\ DevicesAreOwned
    BY DEF AccessTypes
  <2>a. Room /\ Issue("pairing", 0) /\ phone' = [phone EXCEPT ![p].code = LastToken]
    BY <1>1 DEF GeneratePairingToken
  <2>b. /\ token' \in Seq(TokenState) /\ Len(token') = Len(token) + 1 /\ Len(token') <= MaxTokens
        /\ \A n \in 1 .. Len(token) : token'[n] = token[n]
        /\ token'[Len(token) + 1] = [kind |-> "pairing", s |-> secret, d |-> 0, era |-> era]
    BY <2>a, IssueDoes
  <2>c. /\ phone' \in [Phones -> PhoneState]
        /\ \A q \in Phones : /\ phone'[q].code = IF q = p THEN Len(token) + 1 ELSE phone[q].code
                             /\ phone'[q].pair = phone[q].pair /\ phone'[q].waits = phone[q].waits
    BY <2>a, <2>z DEF AccessTypes, PhoneState, LastToken
  <2>d. Len(token) \in Nat
    BY <2>z
  <2>f. UNCHANGED <<request, secret, secretFile, revokedNonces, stale, secrets, era, collided, registered,
                    registryFile, fails, granted, approvedNonces, approval, restarts, barred, replaced>>
    BY <1>1 DEF GeneratePairingToken, registry, decisions, fixed
  <2>1. AccessTypes'
    BY <2>b, <2>c, <2>d, <2>f DEF AccessTypes
  <2>2. TokensAreRight'
    <3>1. \A n \in 1 .. Len(token) : /\ n \in 1 .. Len(token') /\ token'[n] = token[n]
                                     /\ Refresh(n)' <=> Refresh(n)
                                     /\ Pairing(n)' <=> Pairing(n)
      BY <2>b, <2>d DEF Refresh, Pairing
    <3>2. Len(token) + 1 \in 1 .. Len(token')
      BY <2>b, <2>d
    <3>4. ASSUME NEW n \in 1 .. Len(token') PROVE n \in 1 .. Len(token) \/ n = Len(token) + 1
      BY <2>b, <2>d
    <3>5. ASSUME NEW n \in 1 .. Len(token'), Refresh(n)' PROVE token'[n].d \in 1 .. Len(token')
      <4>1. n \in 1 .. Len(token)
        BY <3>4, <3>5, <2>b DEF Refresh
      <4>2. token[n].d \in 1 .. Len(token)
        BY <4>1, <3>1, <3>5 DEF TokensAreRight
      <4> QED BY <4>1, <4>2, <3>1
    <3>6. \A n : (Refresh(n) => Refresh(n)') /\ (Pairing(n) => Pairing(n)') /\ (Refresh(n) \/ Pairing(n) => token'[n] = token[n])
      <4>1. \A n : Refresh(n) \/ Pairing(n) => n \in 1 .. Len(token)
        BY DEF Refresh, Pairing
      <4> QED BY <4>1, <3>1
    <3>7. ASSUME NEW q \in Phones, NEW x, NEW y, x = phone'[q].pair, y = phone'[q].code
          PROVE  (x = 0 \/ Refresh(x)') /\ (y = 0 \/ Pairing(y)')
      <4>1. y = 0 \/ Pairing(y)'
        <5>1. CASE q = p
          BY <5>1, <3>7, <2>b, <3>2, <2>c DEF Pairing
        <5>2. CASE q # p
          BY <5>2, <3>7, <3>6, <2>c DEF TokensAreRight
        <5> QED BY <5>1, <5>2
      <4> QED BY <4>1, <3>6, <3>7, <2>c DEF TokensAreRight
    <3>8. revokedNonces' \subseteq 1 .. Len(token')
      BY <3>1, <2>f DEF TokensAreRight
    <3>9. ASSUME NEW q \in Phones
          PROVE  (phone[q].pair = 0 \/ Refresh(phone[q].pair))' /\ (phone[q].code = 0 \/ Pairing(phone[q].code))'
      BY <3>7 DEF Refresh, Pairing
    <3> QED
      BY <3>1, <3>5, <3>6, <3>8, <3>9, <2>f DEF TokensAreRight
  <2>3. SecretsAreFresh'
    <3>1. ASSUME NEW n \in 1 .. Len(token')
          PROVE  /\ token'[n].s <= secrets /\ token'[n].era <= era
                 /\ (token'[n].era = era /\ ~collided) => token'[n].s = secret
                 /\ \A k \in Requests : Swaps(k) => token'[n].s # request[k].got
      <4>1. CASE n = Len(token) + 1
        BY <4>1, <2>b DEF SecretsAreFresh, AccessTypes
      <4>2. CASE n \in 1 .. Len(token)
        BY <4>2, <2>b DEF SecretsAreFresh
      <4> QED BY <4>1, <4>2, <2>b, <2>d
    <3>2. ASSUME NEW k \in Requests PROVE Swaps(k)' <=> Swaps(k)
      BY <2>f DEF Swaps
    <3> QED BY <3>1, <3>2, <2>f DEF SecretsAreFresh
  <2>4. RegistryIsFiled'
    BY <2>b, <2>c, <2>d, <2>f DEF RegistryIsFiled
  <2>5. PhonesWait'
    BY <2>b, <2>c, <2>d, <2>f DEF PhonesWait, TokensAreRight
  <2>6. DevicesAreOwned'
    <3>1. \A q \in Requests : Keeps(q) \/ Ends(q) \/ Starts(q)
      BY <2>b, <2>c, <2>d, <2>f DEF Keeps, Ends, Starts, Free
    <3> HIDE DEF AccessInv
    <3> QED BY <3>1, <2>z, <2>b, <2>c, <2>d, <2>f, OwnersStay DEF Ends
  <2>7. GivenUpAreKnown'
    BY <2>b, <2>c, <2>d, <2>f DEF GivenUpAreKnown, TokensAreRight, PhonesWait, Refresh
  <2>8. PairsHold'
    BY <2>b, <2>c, <2>d, <2>f DEF PairsHold, Renews, IsRegistered, TokensAreRight, PhonesWait, Refresh
  <2>9. GrantedIsApproved'
    <3>1. ASSUME NEW k \in Requests, request[k].at = "clear" PROVE token'[request[k].n] = token[request[k].n]
      BY <3>1, <2>b DEF TokensAreRight, Pairing
    <3> QED BY <3>1, <2>f DEF GrantedIsApproved
  <2> QED BY <2>1, <2>2, <2>3, <2>4, <2>5, <2>6, <2>7, <2>8, <2>9
<1>2. ASSUME NEW p \in Phones, GiveUp(p) PROVE AccessInv'
  <2>z. Len(token) \in Nat /\ AccessTypes /\ TokensAreRight /\ PhonesWait /\ DevicesAreOwned
    BY DEF AccessTypes
  <2> DEFINE renewing == {request[r].at : r \in {q \in Requests : request[q].p = p /\ request[q].live /\ request[q].op = "refresh"}}
  <2>a. /\ phone[p].waits /\ phone' \in [Phones -> PhoneState]
        /\ \A q \in Phones : /\ phone'[q].code = phone[q].code /\ phone'[q].pair = phone[q].pair
                             /\ phone'[q].waits <=> (phone[q].waits /\ q # p)
    BY <1>2 DEF GiveUp, AccessTypes, PhoneState
  <2>b. /\ request' \in [Requests -> RequestState]
        /\ \A r \in Requests : /\ request'[r].op = request[r].op /\ request'[r].at = request[r].at
                               /\ request'[r].p = request[r].p /\ request'[r].n = request[r].n
                               /\ request'[r].got = request[r].got
                               /\ request'[r].live <=> (request[r].live /\ request[r].p # p)
    <3>1. ASSUME NEW r \in Requests PROVE [request[r] EXCEPT !.live = FALSE] \in RequestState
      BY DEF AccessTypes, RequestState
    <3>2. request' = [r \in Requests |-> IF request[r].p = p THEN [request[r] EXCEPT !.live = FALSE] ELSE request[r]]
      BY <1>2 DEF GiveUp
    <3> QED BY <3>1, <3>2 DEF AccessTypes, RequestState
  <2>c. /\ barred' = IF renewing \cap {"register", "answer"} # {} THEN barred \cup {p} ELSE barred
        /\ replaced' = IF "answer" \in renewing THEN replaced \cup {p} ELSE replaced
        /\ UNCHANGED <<token, secret, secretFile, revokedNonces, stale, secrets, era, collided, registered,
                       registryFile, fails, granted, approvedNonces, approval, restarts>>
    BY <1>2 DEF GiveUp, tokens, registry, decisions, fixed
  <2>d. /\ Renews(p, "answer") => p \in barred' /\ p \in replaced'
        /\ Renews(p, "register") => p \in barred'
        /\ barred \subseteq barred' /\ replaced \subseteq replaced'
        /\ barred' \subseteq barred \cup {p} /\ replaced' \subseteq replaced \cup {p}
    BY <2>c DEF Renews
  <2>e. \A q \in Requests : q \in Requests /\ request[q].p = p /\ request[q].live =>
           /\ request[q].op = "refresh" /\ request[q].at = "register" => p \in barred'
           /\ request[q].op = "refresh" /\ request[q].at = "answer" => p \in replaced'
    BY <2>d DEF Renews
  <2>f. UNCHANGED <<token, secret, secretFile, revokedNonces, stale, secrets, era, collided, registered,
                    registryFile, fails, granted, approvedNonces, approval, restarts>>
    BY <2>c
  <2>1. AccessTypes'
    BY <2>a, <2>b, <2>d, <2>e, <2>f DEF AccessTypes
  <2>2. TokensAreRight'
    BY <2>a, <2>b, <2>d, <2>e, <2>f DEF TokensAreRight, Refresh, Pairing
  <2>3. SecretsAreFresh'
    BY <2>a, <2>b, <2>d, <2>e, <2>f DEF SecretsAreFresh, Swaps
  <2>4. RegistryIsFiled'
    BY <2>a, <2>b, <2>d, <2>e, <2>f DEF RegistryIsFiled
  <2>5. PhonesWait'
    BY <2>a, <2>b, <2>d, <2>e, <2>f DEF PhonesWait, TokensAreRight
  <2>6. DevicesAreOwned'
    <3>1. \A q \in Requests : Keeps(q) \/ Ends(q) \/ Starts(q)
      BY <2>a, <2>b, <2>d, <2>e, <2>f DEF Keeps, Ends, Starts, Free
    <3> HIDE DEF AccessInv
    <3> QED BY <3>1, <2>z, <2>a, <2>b, <2>d, <2>e, <2>f, OwnersStay DEF Ends
  <2>7. GivenUpAreKnown'
    BY <2>a, <2>b, <2>d, <2>e, <2>f, SMTT(40) DEF GivenUpAreKnown, TokensAreRight, PhonesWait, Refresh
  <2>8. PairsHold'
    <3>1. \A q \in Phones : Renews(q, "answer") /\ q # p => Renews(q, "answer")'
      BY <2>b DEF Renews
    <3>2. \A q \in Phones : Renews(q, "register") /\ q # p => Renews(q, "register")'
      BY <2>b DEF Renews
    <3>3. \A n : IsRegistered(n)' <=> IsRegistered(n)
      BY <2>f DEF IsRegistered
    <3>4. ASSUME NEW q \in Phones, NEW n, n = phone[q].pair, n # 0, n \notin stale
          PROVE  /\ q \notin replaced' /\ ~Renews(q, "answer")' => IsRegistered(n)
                 /\ q \notin barred' \cup replaced' /\ ~Renews(q, "register")' /\ ~Renews(q, "answer")'
                      => n \notin revokedNonces
      BY <3>1, <3>2, <3>4, <2>d DEF PairsHold
    <3>5. ASSUME NEW k \in Requests, request'[k].live, request[k].at = "answer", request[k].got \notin stale,
                 request[k].op = "exchange" \/ request[k].p \notin replaced'
          PROVE  IsRegistered(request[k].got)
      BY <3>5, <2>b, <2>d DEF PairsHold
    <3>6. \A q \in Phones : phone'[q].pair = phone[q].pair
      BY <2>a
    <3>7. ASSUME NEW q \in Phones, NEW n, n = phone'[q].pair, n # 0, n \notin stale'
          PROVE  /\ q \notin replaced' /\ ~Renews(q, "answer")' => IsRegistered(n)'
                 /\ q \notin barred' \cup replaced' /\ ~Renews(q, "register")' /\ ~Renews(q, "answer")'
                      => n \notin revokedNonces'
      BY <3>3, <3>4, <3>6, <3>7, <2>f
    <3> QED BY <3>5, <3>7, <2>b, <2>f DEF PairsHold, IsRegistered
  <2>9. GrantedIsApproved'
    BY <2>a, <2>b, <2>d, <2>e, <2>f DEF GrantedIsApproved, TokensAreRight
  <2> QED BY <2>1, <2>2, <2>3, <2>4, <2>5, <2>6, <2>7, <2>8, <2>9
<1>3. ASSUME NEW p \in Phones, NEW r \in Requests, HandleExchange(p, r) PROVE AccessInv'
  <2>z. Len(token) \in Nat /\ AccessTypes /\ TokensAreRight /\ PhonesWait /\ DevicesAreOwned
    BY DEF AccessTypes
  <2>a. PICK s \in {"validate", "generate"} :
           /\ request[r].at = "idle" /\ ~phone[p].waits /\ phone[p].code # 0
           /\ request' = [request EXCEPT ![r] = [op |-> "exchange", at |-> s, p |-> p, n |-> phone[p].code, got |-> 0, live |-> TRUE]]
           /\ phone' = [phone EXCEPT ![p].waits = TRUE]
    BY <1>3 DEF HandleExchange, BeginRequest
  <2>b. [op |-> "exchange", at |-> s, p |-> p, n |-> phone[p].code, got |-> 0, live |-> TRUE] \in RequestState
    BY DEF AccessTypes, PhoneState, RequestState, Stages
  <2>c. /\ request' \in [Requests -> RequestState] /\ phone' \in [Phones -> PhoneState]
        /\ \A q \in Requests : q # r => request'[q] = request[q]
        /\ request'[r].op = "exchange" /\ request'[r].at = s /\ request'[r].p = p /\ request'[r].n = phone[p].code
        /\ request'[r].got = 0 /\ request'[r].live
        /\ \A q \in Phones : /\ phone'[q].code = phone[q].code /\ phone'[q].pair = phone[q].pair
                             /\ phone'[q].waits <=> (phone[q].waits \/ q = p)
    BY <2>a, <2>b DEF AccessTypes, PhoneState
  <2>d. request[r].at = "idle" /\ ~phone[p].waits /\ phone[p].code # 0 /\ s \in {"validate", "generate"}
    BY <2>a
  <2>f. UNCHANGED <<token, secret, secretFile, revokedNonces, stale, secrets, era, collided, registered,
                    registryFile, fails, granted, approvedNonces, approval, restarts, barred, replaced>>
    BY <1>3 DEF HandleExchange, BeginRequest, tokens, registry, decisions, fixed
  <2>1. AccessTypes'
    BY <2>c, <2>d, <2>f DEF AccessTypes
  <2>2. TokensAreRight'
    BY <2>c, <2>d, <2>f DEF TokensAreRight, Refresh, Pairing
  <2>3. SecretsAreFresh'
    BY <2>c, <2>d, <2>f DEF SecretsAreFresh, Swaps
  <2>4. RegistryIsFiled'
    BY <2>c, <2>d, <2>f DEF RegistryIsFiled
  <2>5. PhonesWait'
    BY <2>c, <2>d, <2>f DEF PhonesWait, TokensAreRight
  <2>6. DevicesAreOwned'
    <3>1. \A q \in Requests : Keeps(q) \/ Ends(q) \/ Starts(q)
      BY <2>c, <2>d, <2>f DEF Keeps, Ends, Starts, Free
    <3> HIDE DEF AccessInv
    <3> QED BY <3>1, <2>z, <2>c, <2>d, <2>f, OwnersStay DEF Ends
  <2>7. GivenUpAreKnown'
    BY <2>c, <2>d, <2>f DEF GivenUpAreKnown, TokensAreRight, PhonesWait, Refresh
  <2>8. PairsHold'
    BY <2>c, <2>d, <2>f, SMTT(40) DEF PairsHold, Renews, IsRegistered, TokensAreRight, PhonesWait, Refresh
  <2>9. GrantedIsApproved'
    BY <2>c, <2>d, <2>f DEF GrantedIsApproved, TokensAreRight
  <2> QED BY <2>1, <2>2, <2>3, <2>4, <2>5, <2>6, <2>7, <2>8, <2>9
<1>4. ASSUME NEW p \in Phones, NEW r \in Requests, HandleRefresh(p, r) PROVE AccessInv'
  <2>z. Len(token) \in Nat /\ AccessTypes /\ TokensAreRight /\ PhonesWait /\ DevicesAreOwned
    BY DEF AccessTypes
  <2>a. PICK s \in {"validate"} :
           /\ request[r].at = "idle" /\ ~phone[p].waits /\ phone[p].pair # 0
           /\ request' = [request EXCEPT ![r] = [op |-> "refresh", at |-> s, p |-> p, n |-> phone[p].pair, got |-> 0, live |-> TRUE]]
           /\ phone' = [phone EXCEPT ![p].waits = TRUE]
    BY <1>4 DEF HandleRefresh, BeginRequest
  <2>b. [op |-> "refresh", at |-> s, p |-> p, n |-> phone[p].pair, got |-> 0, live |-> TRUE] \in RequestState
    BY DEF AccessTypes, PhoneState, RequestState, Stages
  <2>c. /\ request' \in [Requests -> RequestState] /\ phone' \in [Phones -> PhoneState]
        /\ \A q \in Requests : q # r => request'[q] = request[q]
        /\ request'[r].op = "refresh" /\ request'[r].at = s /\ request'[r].p = p /\ request'[r].n = phone[p].pair
        /\ request'[r].got = 0 /\ request'[r].live
        /\ \A q \in Phones : /\ phone'[q].code = phone[q].code /\ phone'[q].pair = phone[q].pair
                             /\ phone'[q].waits <=> (phone[q].waits \/ q = p)
    BY <2>a, <2>b DEF AccessTypes, PhoneState
  <2>d. request[r].at = "idle" /\ ~phone[p].waits /\ phone[p].pair # 0 /\ s \in {"validate"}
    BY <2>a
  <2>f. UNCHANGED <<token, secret, secretFile, revokedNonces, stale, secrets, era, collided, registered,
                    registryFile, fails, granted, approvedNonces, approval, restarts, barred, replaced>>
    BY <1>4 DEF HandleRefresh, BeginRequest, tokens, registry, decisions, fixed
  <2>1. AccessTypes'
    BY <2>c, <2>d, <2>f DEF AccessTypes
  <2>2. TokensAreRight'
    BY <2>c, <2>d, <2>f, SMTT(40) DEF TokensAreRight, Refresh, Pairing
  <2>3. SecretsAreFresh'
    BY <2>c, <2>d, <2>f DEF SecretsAreFresh, Swaps
  <2>4. RegistryIsFiled'
    BY <2>c, <2>d, <2>f DEF RegistryIsFiled
  <2>5. PhonesWait'
    BY <2>c, <2>d, <2>f DEF PhonesWait, TokensAreRight
  <2>6. DevicesAreOwned'
    <3>1. \A q \in Requests : Keeps(q) \/ Ends(q) \/ Starts(q)
      BY <2>c, <2>d, <2>f DEF Keeps, Ends, Starts, Free
    <3> HIDE DEF AccessInv
    <3> QED BY <3>1, <2>z, <2>c, <2>d, <2>f, OwnersStay DEF Ends
  <2>7. GivenUpAreKnown'
    BY <2>c, <2>d, <2>f DEF GivenUpAreKnown, TokensAreRight, PhonesWait, Refresh
  <2>8. PairsHold'
    BY <2>c, <2>d, <2>f, SMTT(40) DEF PairsHold, Renews, IsRegistered, TokensAreRight, PhonesWait, Refresh
  <2>9. GrantedIsApproved'
    BY <2>c, <2>d, <2>f DEF GrantedIsApproved, TokensAreRight
  <2> QED BY <2>1, <2>2, <2>3, <2>4, <2>5, <2>6, <2>7, <2>8, <2>9
<1>5. ASSUME NEW p \in Phones, NEW r \in Requests, HandleRevoke(p, r) PROVE AccessInv'
  <2>z. Len(token) \in Nat /\ AccessTypes /\ TokensAreRight /\ PhonesWait /\ DevicesAreOwned
    BY DEF AccessTypes
  <2>a. PICK s \in {"validate"} :
           /\ request[r].at = "idle" /\ ~phone[p].waits /\ phone[p].pair # 0
           /\ request' = [request EXCEPT ![r] = [op |-> "revoke", at |-> s, p |-> p, n |-> phone[p].pair, got |-> 0, live |-> TRUE]]
           /\ phone' = [phone EXCEPT ![p].waits = TRUE]
    BY <1>5 DEF HandleRevoke, BeginRequest
  <2>b. [op |-> "revoke", at |-> s, p |-> p, n |-> phone[p].pair, got |-> 0, live |-> TRUE] \in RequestState
    BY DEF AccessTypes, PhoneState, RequestState, Stages
  <2>c. /\ request' \in [Requests -> RequestState] /\ phone' \in [Phones -> PhoneState]
        /\ \A q \in Requests : q # r => request'[q] = request[q]
        /\ request'[r].op = "revoke" /\ request'[r].at = s /\ request'[r].p = p /\ request'[r].n = phone[p].pair
        /\ request'[r].got = 0 /\ request'[r].live
        /\ \A q \in Phones : /\ phone'[q].code = phone[q].code /\ phone'[q].pair = phone[q].pair
                             /\ phone'[q].waits <=> (phone[q].waits \/ q = p)
    BY <2>a, <2>b DEF AccessTypes, PhoneState
  <2>d. request[r].at = "idle" /\ ~phone[p].waits /\ phone[p].pair # 0 /\ s \in {"validate"}
    BY <2>a
  <2>f. UNCHANGED <<token, secret, secretFile, revokedNonces, stale, secrets, era, collided, registered,
                    registryFile, fails, granted, approvedNonces, approval, restarts, barred, replaced>>
    BY <1>5 DEF HandleRevoke, BeginRequest, tokens, registry, decisions, fixed
  <2>1. AccessTypes'
    BY <2>c, <2>d, <2>f DEF AccessTypes
  <2>2. TokensAreRight'
    BY <2>c, <2>d, <2>f DEF TokensAreRight, Refresh, Pairing
  <2>3. SecretsAreFresh'
    BY <2>c, <2>d, <2>f DEF SecretsAreFresh, Swaps
  <2>4. RegistryIsFiled'
    BY <2>c, <2>d, <2>f DEF RegistryIsFiled
  <2>5. PhonesWait'
    BY <2>c, <2>d, <2>f DEF PhonesWait, TokensAreRight
  <2>6. DevicesAreOwned'
    <3>1. \A q \in Requests : Keeps(q) \/ Ends(q) \/ Starts(q)
      BY <2>c, <2>d, <2>f DEF Keeps, Ends, Starts, Free
    <3> HIDE DEF AccessInv
    <3> QED BY <3>1, <2>z, <2>c, <2>d, <2>f, OwnersStay DEF Ends
  <2>7. GivenUpAreKnown'
    BY <2>c, <2>d, <2>f, SMTT(40) DEF GivenUpAreKnown, TokensAreRight, PhonesWait, Refresh
  <2>8. PairsHold'
    <3>1. \A q \in Phones : /\ Renews(q, "answer") => Renews(q, "answer")'
                            /\ Renews(q, "register") => Renews(q, "register")'
      BY <2>c, <2>d DEF Renews
    <3>2. ASSUME NEW q \in Phones, NEW n, n = phone'[q].pair, n # 0, n \notin stale'
          PROVE  /\ q \notin replaced' /\ ~Renews(q, "answer")' => IsRegistered(n)'
                 /\ q \notin barred' \cup replaced' /\ ~Renews(q, "register")' /\ ~Renews(q, "answer")'
                      => n \notin revokedNonces'
      BY <3>1, <3>2, <2>c, <2>f DEF PairsHold, IsRegistered
    <3>3. ASSUME NEW k \in Requests, request'[k].live, request'[k].at = "answer", request'[k].got \notin stale',
                 request'[k].op = "exchange" \/ request'[k].p \notin replaced'
          PROVE  registered' = Torn \/ registered'[token'[request'[k].got].d] = request'[k].got
      BY <3>3, <2>c, <2>d, <2>f DEF PairsHold, IsRegistered
    <3> QED BY <3>2, <3>3 DEF PairsHold, IsRegistered
  <2>9. GrantedIsApproved'
    BY <2>c, <2>d, <2>f DEF GrantedIsApproved, TokensAreRight
  <2> QED BY <2>1, <2>2, <2>3, <2>4, <2>5, <2>6, <2>7, <2>8, <2>9
<1>6. ASSUME HandlePairPage PROVE AccessInv'
  <2>1. AccessTypes'
    BY <1>6, TokensAssumption DEF AccessTypes, PhoneState, RequestState, Stages, TokenState, Devices, Nonces, HandlePairPage, tokens, registry, decisions, phones, fixed
  <2>2. TokensAreRight'
    BY <1>6 DEF AccessTypes, PhoneState, RequestState, Stages, TokensAreRight, Refresh, Pairing, HandlePairPage, tokens, registry, decisions, phones, fixed
  <2>3. SecretsAreFresh'
    BY <1>6 DEF AccessTypes, PhoneState, RequestState, Stages, SecretsAreFresh, TokensAreRight, Swaps, HandlePairPage, tokens, registry, decisions, phones, fixed
  <2>4. RegistryIsFiled'
    BY <1>6, TornAssumption DEF AccessTypes, RegistryIsFiled, HandlePairPage, tokens, registry, decisions, phones, fixed
  <2>5. PhonesWait'
    BY <1>6 DEF AccessTypes, PhoneState, RequestState, Stages, TokensAreRight, PhonesWait, HandlePairPage, tokens, registry, decisions, phones, fixed
  <2>6. DevicesAreOwned'
    BY <1>6 DEF AccessTypes, PhoneState, RequestState, Stages, TokensAreRight, Refresh, Pairing, PhonesWait, DevicesAreOwned, Owns, Works, HandlePairPage, tokens, registry, decisions, phones, fixed
  <2>7. GivenUpAreKnown'
    BY <1>6 DEF AccessTypes, PhoneState, RequestState, Stages, TokensAreRight, PhonesWait, GivenUpAreKnown, HandlePairPage, tokens, registry, decisions, phones, fixed
  <2>8. PairsHold'
    BY <1>6 DEF AccessTypes, PhoneState, RequestState, Stages, TokensAreRight, PhonesWait, PairsHold, Renews, IsRegistered, HandlePairPage, tokens, registry, decisions, phones, fixed
  <2>9. GrantedIsApproved'
    BY <1>6 DEF AccessTypes, RequestState, TokensAreRight, GrantedIsApproved, HandlePairPage, tokens, registry, decisions, phones, fixed
  <2> QED BY <2>1, <2>2, <2>3, <2>4, <2>5, <2>6, <2>7, <2>8, <2>9
<1>7. ASSUME CodeExpires PROVE AccessInv'
  <2>1. AccessTypes'
    BY <1>7, TokensAssumption DEF AccessTypes, PhoneState, RequestState, Stages, TokenState, Devices, Nonces, CodeExpires, tokens, registry, decisions, phones, fixed
  <2>2. TokensAreRight'
    BY <1>7 DEF AccessTypes, PhoneState, RequestState, Stages, TokensAreRight, Refresh, Pairing, CodeExpires, tokens, registry, decisions, phones, fixed
  <2>3. SecretsAreFresh'
    BY <1>7 DEF AccessTypes, PhoneState, RequestState, Stages, SecretsAreFresh, TokensAreRight, Swaps, CodeExpires, tokens, registry, decisions, phones, fixed
  <2>4. RegistryIsFiled'
    BY <1>7, TornAssumption DEF AccessTypes, RegistryIsFiled, CodeExpires, tokens, registry, decisions, phones, fixed
  <2>5. PhonesWait'
    BY <1>7 DEF AccessTypes, PhoneState, RequestState, Stages, TokensAreRight, PhonesWait, CodeExpires, tokens, registry, decisions, phones, fixed
  <2>6. DevicesAreOwned'
    BY <1>7 DEF AccessTypes, PhoneState, RequestState, Stages, TokensAreRight, Refresh, Pairing, PhonesWait, DevicesAreOwned, Owns, Works, CodeExpires, tokens, registry, decisions, phones, fixed
  <2>7. GivenUpAreKnown'
    BY <1>7 DEF AccessTypes, PhoneState, RequestState, Stages, TokensAreRight, PhonesWait, GivenUpAreKnown, CodeExpires, tokens, registry, decisions, phones, fixed
  <2>8. PairsHold'
    BY <1>7 DEF AccessTypes, PhoneState, RequestState, Stages, TokensAreRight, PhonesWait, PairsHold, Renews, IsRegistered, CodeExpires, tokens, registry, decisions, phones, fixed
  <2>9. GrantedIsApproved'
    BY <1>7 DEF AccessTypes, RequestState, TokensAreRight, GrantedIsApproved, CodeExpires, tokens, registry, decisions, phones, fixed
  <2> QED BY <2>1, <2>2, <2>3, <2>4, <2>5, <2>6, <2>7, <2>8, <2>9
<1>8. ASSUME NEW r \in Requests, ValidateToken(r) PROVE AccessInv'
  <2>1. UNCHANGED <<token, secret, secretFile, revokedNonces, stale, secrets, era, collided, registered,
                    registryFile, fails, granted, approvedNonces, approval, restarts, barred, replaced>>
    BY <1>8 DEF ValidateToken, tokens, registry, decisions, fixed
  <2>2. CASE Refuse(r)
    BY <1>8, <2>1, <2>2, RefusalGoesOn DEF ValidateToken
  <2>3. CASE ~Refuse(r)
    <3>1. Goto(r, IF request[r].op = "exchange" THEN "status" ELSE "generate")
      BY <1>8, <2>3 DEF ValidateToken
    <3>2. request[r].op \in {"exchange", "refresh"} /\ request[r].at = "validate"
      BY <1>8 DEF ValidateToken, AccessTypes, RequestState, AccessInv, TokensAreRight
    <3> QED BY <2>1, <3>1, <3>2, StageGoesOn
  <2> QED BY <2>2, <2>3
<1>9. ASSUME NEW r \in Requests, CheckApproval(r) PROVE AccessInv'
  <2>1. UNCHANGED <<token, secret, secretFile, revokedNonces, stale, secrets, era, collided, registered,
                    registryFile, fails, granted, approvedNonces, approval, restarts, barred, replaced>>
    BY <1>9 DEF CheckApproval, tokens, registry, decisions, fixed
  <2>2. Refuse(r) \/ Goto(r, "generate") \/ Goto(r, "ensure")
    BY <1>9 DEF CheckApproval
  <2>3. request[r].at = "status" /\ request[r].op = "exchange"
    BY <1>9 DEF CheckApproval, AccessInv, TokensAreRight
  <2> QED BY <2>1, <2>2, <2>3, RefusalGoesOn, StageGoesOn
<1>10. ASSUME NEW r \in Requests, EnsurePending(r) PROVE AccessInv'
  <2>1. UNCHANGED <<token, secret, secretFile, revokedNonces, stale, secrets, era, collided, registered,
                    registryFile, fails, granted, approvedNonces, approval, restarts, barred, replaced>>
    BY <1>10 DEF EnsurePending, tokens, registry, decisions, fixed
  <2>2. Refuse(r) /\ request[r].at = "ensure"
    BY <1>10 DEF EnsurePending
  <2> QED BY <2>1, <2>2, RefusalGoesOn
<1>11. ASSUME NEW r \in Requests, GenerateTokenPair(r) PROVE AccessInv'
  <2>1. UNCHANGED <<secret, secretFile, revokedNonces, stale, secrets, era, collided, registered,
                    registryFile, fails, granted, approvedNonces, approval, restarts, barred, replaced>>
    BY <1>11 DEF GenerateTokenPair, registry, decisions, fixed
  <2>2. CASE Refuse(r) /\ UNCHANGED token
    BY <1>11, <2>1, <2>2, RefusalGoesOn DEF GenerateTokenPair
  <2>3. CASE ~(Refuse(r) /\ UNCHANGED token)
    <3>1. /\ request[r].at = "generate" /\ Room /\ UNCHANGED phone
          /\ Issue("refresh", IF request[r].op = "exchange" THEN LastToken ELSE token[request[r].n].d)
          /\ request' = [request EXCEPT ![r].at = "revoke", ![r].got = Len(token) + 1]
      BY <1>11, <2>3 DEF GenerateTokenPair, LastToken
    <3>2. Len(token) + 1 \in Nat /\ AccessTypes
      BY DEF AccessInv, AccessTypes
    <3>3. /\ request' \in [Requests -> RequestState]
          /\ \A q \in Requests : q # r => request'[q] = request[q]
          /\ request'[r].at = "revoke" /\ request'[r].op = request[r].op /\ request'[r].p = request[r].p
          /\ request'[r].n = request[r].n /\ request'[r].got = Len(token) + 1 /\ request'[r].live = request[r].live
      BY <3>1, <3>2, PairDoes
    <3> HIDE DEF AccessInv
    <3> QED BY <2>1, <3>1, <3>3, PairGoesOn
  <2> QED BY <2>2, <2>3
<1>12. ASSUME NEW r \in Requests, RevokeOld(r) PROVE AccessInv'
  <2>z. Len(token) \in Nat /\ AccessTypes /\ TokensAreRight /\ PhonesWait /\ DevicesAreOwned
    BY DEF AccessTypes
  <2>b. /\ request[r].at = "revoke" /\ request[r].op \in {"exchange", "refresh"} /\ request[r].got # 0
        /\ request[r].n \in 1 .. Len(token) /\ request[r].p \in Phones
    <3>1. request[r].op \in {"none", "exchange", "refresh", "revoke", "revokeAll"}
      BY DEF AccessTypes, RequestState
    <3> QED BY <1>12, <3>1 DEF RevokeOld, TokensAreRight, Refresh, Pairing
  <2> DEFINE s == IF request[r].op = "exchange" /\ approval THEN "clear" ELSE "register"
  <2>a. /\ phone' = phone /\ request' \in [Requests -> RequestState]
        /\ \A q \in Requests : q # r => request'[q] = request[q]
        /\ request'[r].at = s /\ request'[r].op = request[r].op /\ request'[r].p = request[r].p
        /\ request'[r].n = request[r].n /\ request'[r].got = request[r].got
        /\ request'[r].live = request[r].live
    <3>1. Goto(r, s)
      BY <1>12 DEF RevokeOld
    <3>2. s \in Stages
      BY DEF Stages
    <3> HIDE DEF s, AccessInv
    <3> QED BY <3>1, <3>2, <2>z, GotoDoes
  <2>c. /\ revokedNonces' = revokedNonces \cup {request[r].n} /\ granted' = granted \ {request[r].n}
        /\ barred' = IF request[r].op = "refresh" /\ ~request[r].live THEN barred \cup {request[r].p} ELSE barred
    BY <1>12 DEF RevokeOld
  <2>f. UNCHANGED <<token, secret, secretFile, stale, secrets, era, collided, registered, registryFile, fails, approvedNonces, approval, restarts, replaced>>
    BY <1>12 DEF RevokeOld, registry, fixed
  <2>1. AccessTypes'
    BY <2>a, <2>b, <2>c, <2>f DEF AccessTypes
  <2>2. TokensAreRight'
    <3>1. revokedNonces' \subseteq 1 .. Len(token')
      BY <2>b, <2>c, <2>f DEF TokensAreRight
    <3>2. /\ request'[r].at \in {"clear", "register"}
          /\ request'[r].at = "clear" => request[r].op = "exchange"
      BY <2>a
    <3> HIDE DEF s, AccessInv
    <3>3. \A q \in Requests :
             /\ request'[q].op = request[q].op /\ request'[q].p = request[q].p
             /\ request'[q].n = request[q].n /\ request'[q].got = request[q].got
             /\ q # r => request'[q].at = request[q].at
      BY <2>a
    <3>4. /\ \A n \in 1 .. Len(token') : Refresh(n)' => token'[n].d \in 1 .. Len(token')
          /\ \A p \in Phones :
                /\ phone'[p].pair = 0 \/ Refresh(phone[p].pair)'
                /\ phone'[p].code = 0 \/ Pairing(phone[p].code)'
      BY <2>z, <2>a, <2>f DEF TokensAreRight, Refresh, Pairing
    <3>5. ASSUME NEW q \in Requests
          PROVE  LET u == request[q] IN
                 /\ u.op \in {"exchange", "refresh", "revoke"} => u.p \in Phones
                 /\ u.op = "exchange" => Pairing(u.n)
                 /\ u.op \in {"refresh", "revoke"} => Refresh(u.n)
                 /\ u.op \in {"exchange", "refresh"} /\ u.got # 0 => Refresh(u.got)
                 /\ u.op = "exchange" /\ u.got # 0 => token[u.got].d = u.got
                 /\ u.op = "refresh" /\ u.got # 0 => token[u.got].d = token[u.n].d
                 /\ u.op \in {"none", "revoke"} => u.got = 0
                 /\ u.op \in {"none", "revokeAll"} => u.n = 0
      BY <2>z DEF TokensAreRight
    <3>6. ASSUME NEW q \in Requests
          PROVE  LET u == request[q]
                     v == request'[q] IN
                 /\ v.at \in {"revoke", "clear", "register", "answer"} <=> (u.got # 0 /\ u.op # "revokeAll")
                 /\ u.op = "none" <=> v.at = "idle"
                 /\ u.op = "revokeAll" <=> v.at = "swap"
                 /\ v.at = "remove" => u.op = "revoke"
                 /\ u.op = "revoke" => v.at \in {"validate", "remove"}
                 /\ v.at = "clear" => u.op = "exchange"
                 /\ v.at \in {"status", "ensure"} => u.op = "exchange"
      <4>1. CASE q = r
        BY <4>1, <3>2, <2>b
      <4>2. CASE q # r
        <5>1. request'[q].at = request[q].at
          BY <3>3, <4>2
        <5>2. LET u == request[q] IN
              /\ u.at \in {"revoke", "clear", "register", "answer"} <=> (u.got # 0 /\ u.op # "revokeAll")
              /\ u.op = "none" <=> u.at = "idle"
              /\ u.op = "revokeAll" <=> u.at = "swap"
              /\ u.at = "remove" => u.op = "revoke"
              /\ u.op = "revoke" => u.at \in {"validate", "remove"}
              /\ u.at = "clear" => u.op = "exchange"
              /\ u.at \in {"status", "ensure"} => u.op = "exchange"
          BY <2>z DEF TokensAreRight
        <5> QED BY <5>1, <5>2
      <4> QED BY <4>1, <4>2
    <3> QED BY <3>1, <3>3, <3>4, <3>5, <3>6, <2>f DEF TokensAreRight, Refresh, Pairing
  <2>3. SecretsAreFresh'
    BY <2>a, <2>b, <2>c, <2>f DEF SecretsAreFresh, Swaps
  <2>4. RegistryIsFiled'
    BY <2>a, <2>b, <2>c, <2>f DEF RegistryIsFiled
  <2>5. PhonesWait'
    BY <2>a, <2>b, <2>c, <2>f DEF PhonesWait, TokensAreRight
  <2>6. DevicesAreOwned'
    <3>1. \A q \in Requests : Keeps(q) \/ Ends(q) \/ Starts(q)
      BY <2>a, <2>b, <2>c, <2>f DEF Keeps, Ends, Starts, Free
    <3> HIDE DEF AccessInv
    <3> QED BY <3>1, <2>z, <2>a, <2>b, <2>c, <2>f, OwnersStay DEF Ends
  <2>7. GivenUpAreKnown'
    BY <2>a, <2>b, <2>c, <2>f DEF GivenUpAreKnown, TokensAreRight, PhonesWait, Refresh
  <2>8. PairsHold'
    <3>1. ASSUME NEW q \in Phones
          PROVE  /\ Renews(q, "answer") => Renews(q, "answer")'
                 /\ Renews(q, "register") => Renews(q, "register")'
      BY <2>a, <2>b DEF Renews
    <3>2. ASSUME NEW q \in Phones, NEW n, n = phone'[q].pair, n # 0, n \notin stale'
          PROVE  /\ q \notin replaced' /\ ~Renews(q, "answer")' => IsRegistered(n)'
                 /\ q \notin barred' \cup replaced' /\ ~Renews(q, "register")' /\ ~Renews(q, "answer")'
                      => n \notin revokedNonces'
      <4>1. q \notin replaced' /\ ~Renews(q, "answer")' => IsRegistered(n)'
        BY <3>1, <3>2, <2>a, <2>f DEF PairsHold, IsRegistered
      <4>2. n = request[r].n => request[r].op = "refresh" /\ q = request[r].p
        <5>1. n \in 1 .. Len(token) /\ Refresh(n) /\ Owns(q, n)
          BY <3>2, <2>a DEF TokensAreRight, Refresh, Owns
        <5>2. ASSUME n = request[r].n PROVE request[r].op = "refresh"
          BY <5>1, <5>2, <2>b DEF TokensAreRight, Refresh, Pairing
        <5>3. ASSUME n = request[r].n PROVE Owns(request[r].p, n)
          BY <5>1, <5>2, <5>3, <3>2 DEF Owns, Works
        <5> QED BY <5>1, <5>2, <5>3, <2>b DEF DevicesAreOwned
      <4>3. n = request[r].n => q \in barred' \/ Renews(q, "register")'
        BY <4>2, <2>a, <2>b, <2>c DEF Renews
      <4> QED BY <4>1, <4>3, <3>1, <3>2, <2>a, <2>c, <2>f DEF PairsHold
    <3>3. ASSUME NEW k \in Requests, request'[k].live, request'[k].at = "answer", request'[k].got \notin stale',
                 request'[k].op = "exchange" \/ request'[k].p \notin replaced'
          PROVE  registered' = Torn \/ registered'[token'[request'[k].got].d] = request'[k].got
      BY <3>3, <2>a, <2>b, <2>f DEF PairsHold, IsRegistered
    <3> QED BY <3>2, <3>3 DEF PairsHold, IsRegistered
  <2>9. GrantedIsApproved'
    BY <2>a, <2>b, <2>c, <2>f DEF GrantedIsApproved, TokensAreRight
  <2> QED BY <2>1, <2>2, <2>3, <2>4, <2>5, <2>6, <2>7, <2>8, <2>9
<1>13. ASSUME NEW r \in Requests, ClearTokenDecision(r) PROVE AccessInv'
  <2>z. Len(token) \in Nat /\ AccessTypes /\ TokensAreRight /\ PhonesWait /\ DevicesAreOwned
    BY DEF AccessTypes
  <2>b. /\ request[r].at = "clear" /\ request[r].op = "exchange"
    BY <1>13 DEF ClearTokenDecision, TokensAreRight
  <2>a. /\ phone' = phone /\ request' \in [Requests -> RequestState]
        /\ \A q \in Requests : q # r => request'[q] = request[q]
        /\ request'[r].at = "register" /\ request'[r].op = request[r].op /\ request'[r].p = request[r].p
        /\ request'[r].n = request[r].n /\ request'[r].got = request[r].got
        /\ request'[r].live = request[r].live
    BY <1>13, <2>z, GotoDoes DEF ClearTokenDecision, Stages
  <2>c. granted' = granted /\ granted \subseteq approvedNonces'
    BY <1>13 DEF ClearTokenDecision, GrantedIsApproved
  <2>f. UNCHANGED <<token, secret, secretFile, revokedNonces, stale, secrets, era, collided, registered, registryFile, fails, approval, restarts, barred, replaced>>
    BY <1>13 DEF ClearTokenDecision, tokens, registry, fixed
  <2>1. AccessTypes'
    BY <2>a, <2>b, <2>c, <2>f DEF AccessTypes
  <2>2. TokensAreRight'
    BY <2>a, <2>b, <2>c, <2>f, SMTT(30) DEF TokensAreRight, Refresh, Pairing
  <2>3. SecretsAreFresh'
    BY <2>a, <2>b, <2>c, <2>f DEF SecretsAreFresh, Swaps
  <2>4. RegistryIsFiled'
    BY <2>a, <2>b, <2>c, <2>f DEF RegistryIsFiled
  <2>5. PhonesWait'
    BY <2>a, <2>b, <2>c, <2>f DEF PhonesWait, TokensAreRight
  <2>6. DevicesAreOwned'
    <3>1. \A q \in Requests : Keeps(q) \/ Ends(q) \/ Starts(q)
      BY <2>a, <2>b, <2>c, <2>f DEF Keeps, Ends, Starts, Free
    <3> HIDE DEF AccessInv
    <3> QED BY <3>1, <2>z, <2>a, <2>b, <2>c, <2>f, OwnersStay DEF Ends
  <2>7. GivenUpAreKnown'
    BY <2>a, <2>b, <2>c, <2>f DEF GivenUpAreKnown, TokensAreRight, PhonesWait, Refresh
  <2>8. PairsHold'
    <3>1. ASSUME NEW q \in Phones
          PROVE  /\ Renews(q, "answer") => Renews(q, "answer")'
                 /\ Renews(q, "register") => Renews(q, "register")'
      BY <2>a, <2>b DEF Renews
    <3>2. ASSUME NEW q \in Phones, NEW n, n = phone'[q].pair, n # 0, n \notin stale'
          PROVE  /\ q \notin replaced' /\ ~Renews(q, "answer")' => IsRegistered(n)'
                 /\ q \notin barred' \cup replaced' /\ ~Renews(q, "register")' /\ ~Renews(q, "answer")'
                      => n \notin revokedNonces'
      BY <3>1, <3>2, <2>a, <2>b, <2>f DEF PairsHold, IsRegistered
    <3>3. ASSUME NEW k \in Requests, request'[k].live, request'[k].at = "answer", request'[k].got \notin stale',
                 request'[k].op = "exchange" \/ request'[k].p \notin replaced'
          PROVE  registered' = Torn \/ registered'[token'[request'[k].got].d] = request'[k].got
      BY <3>3, <2>a, <2>b, <2>f DEF PairsHold, IsRegistered
    <3> QED BY <3>2, <3>3 DEF PairsHold, IsRegistered
  <2>9. GrantedIsApproved'
    BY <2>a, <2>b, <2>c, <2>f DEF GrantedIsApproved, TokensAreRight
  <2> QED BY <2>1, <2>2, <2>3, <2>4, <2>5, <2>6, <2>7, <2>8, <2>9
<1>14. ASSUME NEW r \in Requests, RegisterDevice(r) PROVE AccessInv'
  <2>z. Len(token) \in Nat /\ AccessTypes /\ TokensAreRight /\ PhonesWait /\ RegistryIsFiled /\ DevicesAreOwned
    BY DEF AccessTypes
  <2>o. /\ \A p \in Phones : phone[p].pair # 0 => Owns(p, phone[p].pair) /\ phone[p].pair \in 1 .. Len(token)
        /\ \A k \in Requests : request[k].op \in {"exchange", "refresh"} /\ request[k].got # 0 =>
              Owns(request[k].p, request[k].got) /\ request[k].got \in 1 .. Len(token) /\ request[k].p \in Phones
        /\ \A k \in Requests : request[k].op \in {"refresh", "revoke"} =>
              Owns(request[k].p, request[k].n) /\ request[k].n \in 1 .. Len(token) /\ request[k].p \in Phones
    <3>1. \A n \in 1 .. Len(token) : n # 0
      BY <2>z
    <3> QED BY <3>1 DEF Owns, Works, TokensAreRight, Refresh
  <2>b. /\ request[r].at = "register" /\ request[r].op \in {"exchange", "refresh"} /\ request[r].got # 0
        /\ request[r].p \in Phones
    <3>1. request[r].op \in {"none", "exchange", "refresh", "revoke", "revokeAll"}
      BY DEF AccessTypes, RequestState
    <3> QED BY <1>14, <3>1 DEF RegisterDevice, TokensAreRight
  <2>a. /\ phone' = phone /\ request' \in [Requests -> RequestState]
        /\ \A q \in Requests : q # r => request'[q] = request[q]
        /\ request'[r].at = "answer" /\ request'[r].op = request[r].op /\ request'[r].p = request[r].p
        /\ request'[r].n = request[r].n /\ request'[r].got = request[r].got
        /\ request'[r].live = request[r].live
    BY <1>14, <2>z, GotoDoes DEF RegisterDevice, Stages
  <2>c. replaced' = IF request[r].op = "refresh" /\ ~request[r].live THEN replaced \cup {request[r].p} ELSE replaced
    BY <1>14 DEF RegisterDevice
  <2>d. \/ registered = Torn /\ registered' = Torn
        \/ /\ registered # Torn /\ registered' # Torn
           /\ registered'[token[request[r].got].d] = request[r].got
           /\ \A d : d # token[request[r].got].d /\ d \in 1 .. Len(token) => registered'[d] = registered[d]
    <3>1. CASE registered = Torn
      BY <1>14, <3>1 DEF RegisterDevice, registry
    <3>2. CASE registered # Torn
      <4> DEFINE devices == [registered EXCEPT ![token[request[r].got].d] = request[r].got]
      <4>1. SaveLocked(devices)
        BY <1>14, <3>2 DEF RegisterDevice
      <4>2. registered \in Devices /\ token[request[r].got].d \in Nonces /\ request[r].got \in 0 .. MaxTokens /\ 1 .. Len(token) \subseteq Nonces
        BY <3>2, <2>b, <2>o, <2>z, TokensAssumption DEF AccessTypes, TokensAreRight, Nonces
      <4>3. devices \in Devices
        BY <4>2 DEF Devices
      <4>4. /\ devices[token[request[r].got].d] = request[r].got
            /\ \A d : d # token[request[r].got].d /\ d \in 1 .. Len(token) => devices[d] = registered[d]
        BY <4>2 DEF Devices
      <4>5. registered' = devices /\ registered' # Torn
        BY <4>1, <4>3, <2>z, SaveDoes
      <4> HIDE DEF devices, AccessInv
      <4> QED BY <3>2, <4>4, <4>5
    <3> QED BY <3>1, <3>2
  <2>s. /\ registered' \in Devices \cup {Torn} /\ registryFile' \in Devices \cup {Torn} /\ fails' \in Nat
        /\ RegistryIsFiled'
    <3>1. CASE registered = Torn
      BY <1>14, <3>1 DEF RegisterDevice, registry, AccessTypes, RegistryIsFiled
    <3>2. CASE registered # Torn
      <4> DEFINE devices == [registered EXCEPT ![token[request[r].got].d] = request[r].got]
      <4>1. SaveLocked(devices)
        BY <1>14, <3>2 DEF RegisterDevice
      <4>2. registered \in Devices /\ token[request[r].got].d \in Nonces /\ request[r].got \in 0 .. MaxTokens
        BY <3>2, <2>b, <2>o, <2>z, TokensAssumption DEF AccessTypes, TokensAreRight, Nonces
      <4>3. devices \in Devices
        BY <4>2 DEF Devices
      <4> HIDE DEF devices, AccessInv
      <4> QED BY <4>1, <4>3, <2>z, SaveDoes
    <3> QED BY <3>1, <3>2
  <2>f. UNCHANGED <<token, secret, secretFile, revokedNonces, stale, secrets, era, collided, granted, approvedNonces, approval, restarts, barred>>
    BY <1>14 DEF RegisterDevice, tokens, decisions, fixed
  <2>1. AccessTypes'
    BY <2>a, <2>b, <2>c, <2>d, <2>f, <2>s DEF AccessTypes
  <2>2. TokensAreRight'
    BY <2>a, <2>b, <2>f, SMTT(40) DEF TokensAreRight, Refresh, Pairing
  <2>3. SecretsAreFresh'
    BY <2>a, <2>b, <2>c, <2>d, <2>f, <2>s DEF SecretsAreFresh, Swaps
  <2>4. RegistryIsFiled'
    BY <2>s
  <2>5. PhonesWait'
    BY <2>a, <2>b, <2>c, <2>d, <2>f, <2>s DEF PhonesWait, TokensAreRight
  <2>6. DevicesAreOwned'
    <3>1. \A q \in Requests : Keeps(q) \/ Ends(q) \/ Starts(q)
      BY <2>a, <2>b, <2>c, <2>d, <2>f, <2>s DEF Keeps, Ends, Starts, Free
    <3> HIDE DEF AccessInv
    <3> QED BY <3>1, <2>z, <2>a, <2>b, <2>c, <2>d, <2>f, <2>s, OwnersStay DEF Ends
  <2>7. GivenUpAreKnown'
    BY <2>a, <2>b, <2>c, <2>d, <2>f, <2>s, SMTT(40) DEF GivenUpAreKnown, TokensAreRight, PhonesWait, Refresh
  <2>8. PairsHold'
    <3>1. ASSUME NEW q \in Phones
          PROVE  /\ Renews(q, "answer") => Renews(q, "answer")'
                 /\ Renews(q, "register") => Renews(q, "register")' \/ Renews(q, "answer")'
      BY <2>a, <2>b, <2>c DEF Renews
    <3>2. ASSUME NEW q \in Phones, NEW n, n = phone'[q].pair, n # 0, n \notin stale'
          PROVE  /\ q \notin replaced' /\ ~Renews(q, "answer")' => IsRegistered(n)'
                 /\ q \notin barred' \cup replaced' /\ ~Renews(q, "register")' /\ ~Renews(q, "answer")'
                      => n \notin revokedNonces'
      <4>1. ASSUME q \notin replaced', ~Renews(q, "answer")' PROVE IsRegistered(n)'
        <5>1. IsRegistered(n)
          BY <3>1, <3>2, <4>1, <2>a, <2>c, <2>f DEF PairsHold
        <5>2. token[n].d # token[request[r].got].d /\ token[n].d \in 1 .. Len(token)
          <6>1. CASE q # request[r].p
            BY <6>1, <3>2, <2>a, <2>b, <2>o DEF DevicesAreOwned, TokensAreRight
          <6>2. CASE q = request[r].p
            <7>1. request[r].op = "exchange"
              BY <6>2, <4>1, <2>a, <2>b, <2>c DEF Renews
            <7>2. token[request[r].got].d = request[r].got /\ n # request[r].got
              BY <7>1, <3>2, <2>a, <2>b DEF TokensAreRight, DevicesAreOwned
            <7> QED BY <7>1, <7>2, <6>2, <3>2, <2>a, <2>b, <2>o DEF DevicesAreOwned, TokensAreRight
          <6> QED BY <6>1, <6>2
        <5> QED BY <5>1, <5>2, <2>d, <2>f DEF IsRegistered
      <4>2. ASSUME q \notin barred' \cup replaced', ~Renews(q, "register")', ~Renews(q, "answer")' PROVE n \notin revokedNonces'
        BY <3>1, <3>2, <4>2, <2>a, <2>c, <2>f DEF PairsHold
      <4> QED BY <4>1, <4>2
    <3>3. ASSUME NEW k \in Requests, request'[k].live, request'[k].at = "answer", request'[k].got \notin stale',
                 request'[k].op = "exchange" \/ request'[k].p \notin replaced'
          PROVE  registered' = Torn \/ registered'[token'[request'[k].got].d] = request'[k].got
      <4>1. CASE k = r
        BY <4>1, <2>a, <2>d, <2>f
      <4>2. CASE k # r
        <5>1. /\ request'[k] = request[k] /\ request[k].live /\ request[k].at = "answer"
              /\ request[k].op \in {"exchange", "refresh"} /\ request[k].got # 0
              /\ request[k].op = "exchange" \/ request[k].p \notin replaced
          BY <4>2, <3>3, <2>a, <2>c DEF PhonesWait, TokensAreRight
        <5>2. registered = Torn \/ registered[token[request[k].got].d] = request[k].got
          BY <5>1, <3>3, <2>f DEF PairsHold, IsRegistered
        <5>3. token[request[k].got].d # token[request[r].got].d /\ token[request[k].got].d \in 1 .. Len(token)
          <6>1. CASE request[k].p # request[r].p
            BY <6>1, <5>1, <2>b, <2>o DEF DevicesAreOwned, TokensAreRight
          <6>2. CASE request[k].p = request[r].p
            <7>1. ~request[r].live
              BY <6>2, <5>1, <4>2 DEF PhonesWait
            <7>2. request[k].op = "exchange" \/ request[r].op = "exchange"
              BY <6>2, <7>1, <5>1, <3>3, <2>b, <2>c
            <7>3. request[k].got # request[r].got
              BY <5>1, <4>2, <2>b DEF DevicesAreOwned
            <7>4. CASE request[k].op = "exchange"
              BY <7>3, <7>4, <6>2, <5>1, <2>b, <2>o DEF DevicesAreOwned, TokensAreRight
            <7>5. CASE request[r].op = "exchange"
              BY <7>3, <7>5, <6>2, <5>1, <2>b, <2>o DEF DevicesAreOwned, TokensAreRight
            <7> QED BY <7>2, <7>4, <7>5
          <6> QED BY <6>1, <6>2
        <5> QED BY <5>1, <5>2, <5>3, <2>d, <2>f
      <4> QED BY <4>1, <4>2
    <3> QED BY <3>2, <3>3 DEF PairsHold, IsRegistered
  <2>9. GrantedIsApproved'
    BY <2>a, <2>b, <2>c, <2>d, <2>f, <2>s DEF GrantedIsApproved, TokensAreRight
  <2> QED BY <2>1, <2>2, <2>3, <2>4, <2>5, <2>6, <2>7, <2>8, <2>9
<1>15. ASSUME NEW r \in Requests, AnswerPair(r) PROVE AccessInv'
  <2>z. Len(token) \in Nat /\ AccessTypes /\ TokensAreRight /\ PhonesWait /\ DevicesAreOwned
    BY DEF AccessTypes
  <2>o. /\ \A p \in Phones : phone[p].pair # 0 => Owns(p, phone[p].pair) /\ phone[p].pair \in 1 .. Len(token)
        /\ \A k \in Requests : request[k].op \in {"exchange", "refresh"} /\ request[k].got # 0 =>
              Owns(request[k].p, request[k].got) /\ request[k].got \in 1 .. Len(token) /\ request[k].p \in Phones
        /\ \A k \in Requests : request[k].op \in {"refresh", "revoke"} =>
              Owns(request[k].p, request[k].n) /\ request[k].n \in 1 .. Len(token) /\ request[k].p \in Phones
    <3>1. \A n \in 1 .. Len(token) : n # 0
      BY <2>z
    <3> QED BY <3>1 DEF Owns, Works, TokensAreRight, Refresh
  <2>b. /\ request[r].at = "answer" /\ request[r].op \in {"exchange", "refresh"} /\ request[r].got # 0
        /\ request[r].p \in Phones /\ request[r] \in RequestState
    <3>1. request[r].op \in {"none", "exchange", "refresh", "revoke", "revokeAll"}
      BY DEF AccessTypes, RequestState
    <3> QED BY <1>15, <3>1 DEF AnswerPair, TokensAreRight, AccessTypes
  <2>a. /\ request' \in [Requests -> RequestState] /\ phone' \in [Phones -> PhoneState]
        /\ \A q \in Requests : q # r => request'[q] = request[q]
        /\ request'[r].op = "none" /\ request'[r].at = "idle" /\ request'[r].n = 0 /\ request'[r].got = 0
        /\ ~request'[r].live
        /\ \A p \in Phones : IF request[r].live /\ request[r].p = p
                             THEN (phone'[p].code = 0 \/ phone'[p].code = phone[p].code)
                                  /\ phone'[p].pair = request[r].got /\ ~phone'[p].waits
                             ELSE phone'[p] = phone[p]
    <3> DEFINE held == [phone[request[r].p] EXCEPT !.pair = request[r].got, !.code = 0]
    <3>1. Answer(r, held)
      BY <1>15 DEF AnswerPair
    <3>2. held \in PhoneState /\ held.pair = request[r].got /\ held.code \in {0, phone[request[r].p].code}
      <4>1. phone[request[r].p] \in PhoneState /\ request[r].got \in Nat
        BY <2>b, <2>z DEF AccessTypes, RequestState
      <4> QED BY <4>1 DEF PhoneState
    <3> HIDE DEF held, AccessInv
    <3> QED BY <3>1, <3>2, <2>z, AnswerDoes DEF Free
  <2>c. /\ request[r].live /\ request[r].op = "exchange" =>
              barred' = barred \ {request[r].p} /\ replaced' = replaced \ {request[r].p}
        /\ ~(request[r].live /\ request[r].op = "exchange") => barred' = barred /\ replaced' = replaced
    BY <1>15 DEF AnswerPair
  <2>f. UNCHANGED <<token, secret, secretFile, revokedNonces, stale, secrets, era, collided, registered, registryFile, fails, granted, approvedNonces, approval, restarts>>
    BY <1>15 DEF AnswerPair, tokens, registry, decisions, fixed
  <2>1. AccessTypes'
    BY <2>a, <2>b, <2>c, <2>f DEF AccessTypes
  <2>2. TokensAreRight'
    BY <2>a, <2>b, <2>c, <2>f, SMTT(40) DEF TokensAreRight, Refresh, Pairing
  <2>3. SecretsAreFresh'
    BY <2>a, <2>b, <2>c, <2>f DEF SecretsAreFresh, Swaps
  <2>4. RegistryIsFiled'
    BY <2>a, <2>b, <2>c, <2>f DEF RegistryIsFiled
  <2>5. PhonesWait'
    BY <2>a, <2>b, <2>c, <2>f DEF PhonesWait, TokensAreRight
  <2>6. DevicesAreOwned'
    <3>1. \A q \in Requests : Keeps(q) \/ Ends(q) \/ Starts(q)
      BY <2>a, <2>b, <2>c, <2>f DEF Keeps, Ends, Starts, Free
    <3> HIDE DEF AccessInv
    <3> QED BY <3>1, <2>z, <2>a, <2>b, <2>c, <2>f, OwnersStay DEF Ends
  <2>7. GivenUpAreKnown'
    <3>1. ASSUME NEW k \in Requests, request'[k].op \in {"refresh", "revoke"}, phone'[request'[k].p].pair # 0,
                 token'[request'[k].n].d = token'[phone'[request'[k].p].pair].d
          PROVE  LET q == request'[k] IN
                 /\ q.at = "register" /\ ~q.live => q.p \in barred'
                 /\ q.at = "answer" /\ ~q.live => q.p \in replaced'
                 /\ q.at = "remove" => q.p \in replaced'
      <4>1. k # r /\ request'[k] = request[k] /\ request[k].p \in Phones
        BY <3>1, <2>a, <2>o
      <4>2. CASE request[r].live /\ request[r].p = request[k].p
        <5>1. phone'[request[k].p].pair = request[r].got
          BY <4>1, <4>2, <2>a
        <5>2. request[r].op = "refresh"
          <6>1. ASSUME request[r].op = "exchange" PROVE FALSE
            <7>1. token[request[r].got].d = request[r].got /\ request[k].n # request[r].got
              BY <6>1, <2>b DEF TokensAreRight, DevicesAreOwned
            <7>2. token[request[k].n].d # request[r].got
              BY <7>1, <6>1, <4>1, <4>2, <3>1, <2>b, <2>o DEF DevicesAreOwned
            <7> QED BY <7>1, <7>2, <5>1, <4>1, <3>1, <2>f
          <6> QED BY <6>1, <2>b
        <5>3. token[request[r].got].d = token[request[r].n].d /\ request[r].n = phone[request[k].p].pair
          BY <5>2, <4>2, <2>b DEF TokensAreRight, PhonesWait
        <5>4. phone[request[k].p].pair # 0
          BY <5>2, <5>3, <2>o, <2>z
        <5>5. barred' = barred /\ replaced' = replaced
          BY <5>2, <2>c
        <5> QED BY <5>1, <5>3, <5>4, <5>5, <4>1, <3>1, <2>f DEF GivenUpAreKnown
      <4>3. CASE ~(request[r].live /\ request[r].p = request[k].p)
        <5>1. phone'[request[k].p] = phone[request[k].p]
          BY <4>1, <4>3, <2>a
        <5>2. (request[k].p \in barred => request[k].p \in barred') /\ (request[k].p \in replaced => request[k].p \in replaced')
          BY <4>3, <2>c
        <5> QED BY <5>1, <5>2, <4>1, <3>1, <2>f DEF GivenUpAreKnown
      <4> QED BY <4>2, <4>3
    <3> QED BY <3>1 DEF GivenUpAreKnown
  <2>8. PairsHold'
    <3>1. ASSUME NEW q \in Phones, ~(request[r].live /\ request[r].p = q)
          PROVE  /\ Renews(q, "answer") => Renews(q, "answer")'
                 /\ Renews(q, "register") => Renews(q, "register")'
                 /\ phone'[q] = phone[q] /\ (q \in barred <=> q \in barred') /\ (q \in replaced <=> q \in replaced')
      BY <3>1, <2>a, <2>b, <2>c DEF Renews
    <3>2. ASSUME NEW q \in Phones, NEW n, n = phone'[q].pair, n # 0, n \notin stale'
          PROVE  /\ q \notin replaced' /\ ~Renews(q, "answer")' => IsRegistered(n)'
                 /\ q \notin barred' \cup replaced' /\ ~Renews(q, "register")' /\ ~Renews(q, "answer")'
                      => n \notin revokedNonces'
      <4>1. CASE request[r].live /\ request[r].p = q
        <5>1. n = request[r].got
          BY <4>1, <3>2, <2>a
        <5>2. n \notin revokedNonces
          BY <5>1, <2>b DEF DevicesAreOwned
        <5>3. q \notin replaced' => IsRegistered(n)
          BY <5>1, <4>1, <3>2, <2>b, <2>c, <2>f DEF PairsHold
        <5> QED BY <5>2, <5>3, <2>f DEF IsRegistered
      <4>2. CASE ~(request[r].live /\ request[r].p = q)
        BY <4>2, <3>1, <3>2, <2>f DEF PairsHold, IsRegistered
      <4> QED BY <4>1, <4>2
    <3>3. ASSUME NEW k \in Requests, request'[k].live, request'[k].at = "answer", request'[k].got \notin stale',
                 request'[k].op = "exchange" \/ request'[k].p \notin replaced'
          PROVE  registered' = Torn \/ registered'[token'[request'[k].got].d] = request'[k].got
      <4>1. k # r /\ request'[k] = request[k]
        BY <3>3, <2>a
      <4>2. ~(request[r].live /\ request[r].p = request[k].p)
        BY <4>1, <3>3 DEF PhonesWait
      <4>3. request[k].p \in replaced => request[k].p \in replaced'
        BY <4>2, <2>c
      <4> QED BY <4>1, <4>3, <3>3, <2>f DEF PairsHold, IsRegistered
    <3> QED BY <3>2, <3>3 DEF PairsHold, IsRegistered
  <2>9. GrantedIsApproved'
    BY <2>a, <2>b, <2>c, <2>f DEF GrantedIsApproved, TokensAreRight
  <2> QED BY <2>1, <2>2, <2>3, <2>4, <2>5, <2>6, <2>7, <2>8, <2>9
<1>16. ASSUME NEW r \in Requests, RevokeToken(r) PROVE AccessInv'
  <2>1. UNCHANGED <<token, secret, secretFile, stale, secrets, era, collided, registered,
                    registryFile, fails, granted, approvedNonces, approval, restarts, barred>>
    BY <1>16 DEF RevokeToken, registry, decisions, fixed
  <2>2. request[r].at = "validate" /\ request[r].op = "revoke"
    BY <1>16 DEF RevokeToken
  <2>3. CASE Validate(request[r].n)
    BY <1>16, <2>1, <2>2, <2>3, SignOffGoesOn DEF RevokeToken
  <2>4. CASE ~Validate(request[r].n)
    BY <1>16, <2>1, <2>2, <2>4, RefusalGoesOn DEF RevokeToken
  <2> QED BY <2>3, <2>4
<1>17. ASSUME NEW r \in Requests, RemoveDevice(r) PROVE AccessInv'
  <2>z. Len(token) \in Nat /\ AccessTypes /\ TokensAreRight /\ PhonesWait /\ RegistryIsFiled /\ DevicesAreOwned
    BY DEF AccessTypes
  <2>o. /\ \A p \in Phones : phone[p].pair # 0 => Owns(p, phone[p].pair) /\ phone[p].pair \in 1 .. Len(token)
        /\ \A k \in Requests : request[k].op \in {"exchange", "refresh"} /\ request[k].got # 0 =>
              Owns(request[k].p, request[k].got) /\ request[k].got \in 1 .. Len(token) /\ request[k].p \in Phones
        /\ \A k \in Requests : request[k].op \in {"refresh", "revoke"} =>
              Owns(request[k].p, request[k].n) /\ request[k].n \in 1 .. Len(token) /\ request[k].p \in Phones
    <3>1. \A n \in 1 .. Len(token) : n # 0
      BY <2>z
    <3> QED BY <3>1 DEF Owns, Works, TokensAreRight, Refresh
  <2>b. /\ request[r].at = "remove" /\ request[r].op = "revoke" /\ request[r].n \in 1 .. Len(token)
        /\ request[r].p \in Phones /\ request[r] \in RequestState
    BY <1>17, <2>o DEF RemoveDevice, TokensAreRight, AccessTypes
  <2>a. /\ request' \in [Requests -> RequestState] /\ phone' \in [Phones -> PhoneState]
        /\ \A q \in Requests : q # r => request'[q] = request[q]
        /\ request'[r].op = "none" /\ request'[r].at = "idle" /\ request'[r].n = 0 /\ request'[r].got = 0
        /\ ~request'[r].live
        /\ \A p \in Phones : IF request[r].live /\ request[r].p = p
                             THEN (phone'[p].code = 0 \/ phone'[p].code = phone[p].code)
                                  /\ phone'[p].pair = 0 /\ ~phone'[p].waits
                             ELSE phone'[p] = phone[p]
    <3> DEFINE held == [phone[request[r].p] EXCEPT !.pair = 0]
    <3>1. Answer(r, held)
      BY <1>17 DEF RemoveDevice
    <3>2. held \in PhoneState /\ held.pair = 0 /\ held.code \in {0, phone[request[r].p].code}
      <4>1. phone[request[r].p] \in PhoneState
        BY <2>b, <2>z DEF AccessTypes
      <4> QED BY <4>1 DEF PhoneState
    <3> HIDE DEF held, AccessInv
    <3> QED BY <3>1, <3>2, <2>z, AnswerDoes DEF Free
  <2>d. \/ registered = Torn /\ registered' = Torn
        \/ /\ registered # Torn /\ registered' # Torn
           /\ registered'[token[request[r].n].d] = 0
           /\ \A d : d # token[request[r].n].d /\ d \in 1 .. Len(token) => registered'[d] = registered[d]
    <3>1. CASE registered = Torn
      BY <1>17, <3>1 DEF RemoveDevice, registry
    <3>2. CASE registered # Torn
      <4> DEFINE devices == [registered EXCEPT ![token[request[r].n].d] = 0]
      <4>1. SaveLocked(devices)
        BY <1>17, <3>2 DEF RemoveDevice
      <4>2. registered \in Devices /\ token[request[r].n].d \in Nonces /\ 0 \in 0 .. MaxTokens /\ 1 .. Len(token) \subseteq Nonces
        BY <3>2, <2>b, <2>o, <2>z, TokensAssumption DEF AccessTypes, TokensAreRight, Nonces
      <4>3. devices \in Devices
        BY <4>2 DEF Devices
      <4>4. /\ devices[token[request[r].n].d] = 0
            /\ \A d : d # token[request[r].n].d /\ d \in 1 .. Len(token) => devices[d] = registered[d]
        BY <4>2 DEF Devices
      <4>5. registered' = devices /\ registered' # Torn
        BY <4>1, <4>3, <2>z, SaveDoes
      <4> HIDE DEF devices, AccessInv
      <4> QED BY <3>2, <4>4, <4>5
    <3> QED BY <3>1, <3>2
  <2>s. /\ registered' \in Devices \cup {Torn} /\ registryFile' \in Devices \cup {Torn} /\ fails' \in Nat
        /\ RegistryIsFiled'
    <3>1. CASE registered = Torn
      BY <1>17, <3>1 DEF RemoveDevice, registry, AccessTypes, RegistryIsFiled
    <3>2. CASE registered # Torn
      <4> DEFINE devices == [registered EXCEPT ![token[request[r].n].d] = 0]
      <4>1. SaveLocked(devices)
        BY <1>17, <3>2 DEF RemoveDevice
      <4>2. registered \in Devices /\ token[request[r].n].d \in Nonces /\ 0 \in 0 .. MaxTokens
        BY <3>2, <2>b, <2>o, <2>z, TokensAssumption DEF AccessTypes, TokensAreRight, Nonces
      <4>3. devices \in Devices
        BY <4>2 DEF Devices
      <4> HIDE DEF devices, AccessInv
      <4> QED BY <4>1, <4>3, <2>z, SaveDoes
    <3> QED BY <3>1, <3>2
  <2>c. \A p \in Phones : phone'[p].pair # 0 => phone'[p] = phone[p] /\ ~(request[r].live /\ request[r].p = p)
    BY <2>a
  <2>f. UNCHANGED <<token, secret, secretFile, revokedNonces, stale, secrets, era, collided, granted, approvedNonces, approval, restarts, barred, replaced>>
    BY <1>17 DEF RemoveDevice, tokens, decisions, fixed
  <2>1. AccessTypes'
    BY <2>a, <2>b, <2>c, <2>d, <2>f, <2>s DEF AccessTypes
  <2>2. TokensAreRight'
    BY <2>a, <2>b, <2>c, <2>d, <2>f, <2>s, SMTT(40) DEF TokensAreRight, Refresh, Pairing
  <2>3. SecretsAreFresh'
    BY <2>a, <2>b, <2>c, <2>d, <2>f, <2>s DEF SecretsAreFresh, Swaps
  <2>4. RegistryIsFiled'
    BY <2>s
  <2>5. PhonesWait'
    BY <2>a, <2>b, <2>c, <2>d, <2>f, <2>s DEF PhonesWait, TokensAreRight
  <2>6. DevicesAreOwned'
    <3>1. \A q \in Requests : Keeps(q) \/ Ends(q) \/ Starts(q)
      BY <2>a, <2>b, <2>c, <2>d, <2>f, <2>s DEF Keeps, Ends, Starts, Free
    <3> HIDE DEF AccessInv
    <3> QED BY <3>1, <2>z, <2>a, <2>b, <2>c, <2>d, <2>f, <2>s, OwnersStay DEF Ends
  <2>7. GivenUpAreKnown'
    <3>1. ASSUME NEW k \in Requests, request'[k].op \in {"refresh", "revoke"}, phone'[request'[k].p].pair # 0,
                 token'[request'[k].n].d = token'[phone'[request'[k].p].pair].d
          PROVE  LET q == request'[k] IN
                 /\ q.at = "register" /\ ~q.live => q.p \in barred'
                 /\ q.at = "answer" /\ ~q.live => q.p \in replaced'
                 /\ q.at = "remove" => q.p \in replaced'
      <4>1. k # r /\ request'[k] = request[k] /\ request[k].p \in Phones
        BY <3>1, <2>a, <2>o
      <4>2. phone'[request[k].p] = phone[request[k].p]
        BY <4>1, <3>1, <2>c
      <4> QED BY <4>1, <4>2, <3>1, <2>f DEF GivenUpAreKnown
    <3> QED BY <3>1 DEF GivenUpAreKnown
  <2>8. PairsHold'
    <3>1. ASSUME NEW q \in Phones
          PROVE  /\ Renews(q, "answer") => Renews(q, "answer")'
                 /\ Renews(q, "register") => Renews(q, "register")'
      BY <2>a, <2>b DEF Renews
    <3>2. ASSUME NEW q \in Phones, NEW n, n = phone'[q].pair, n # 0, n \notin stale'
          PROVE  /\ q \notin replaced' /\ ~Renews(q, "answer")' => IsRegistered(n)'
                 /\ q \notin barred' \cup replaced' /\ ~Renews(q, "register")' /\ ~Renews(q, "answer")'
                      => n \notin revokedNonces'
      <4>1. phone'[q] = phone[q] /\ n = phone[q].pair
        BY <3>2, <2>c
      <4>2. ASSUME q \notin replaced PROVE token[n].d # token[request[r].n].d /\ token[n].d \in 1 .. Len(token)
        <5>1. CASE q # request[r].p
          BY <5>1, <4>1, <3>2, <2>b, <2>o DEF DevicesAreOwned, TokensAreRight
        <5>2. CASE q = request[r].p
          BY <5>2, <4>1, <4>2, <3>2, <2>b, <2>o DEF GivenUpAreKnown, TokensAreRight
        <5> QED BY <5>1, <5>2
      <4>3. ASSUME q \notin replaced', ~Renews(q, "answer")' PROVE IsRegistered(n)'
        <5>1. IsRegistered(n)
          BY <4>1, <4>3, <3>1, <3>2, <2>f DEF PairsHold
        <5> QED BY <5>1, <4>2, <4>3, <2>d, <2>f DEF IsRegistered
      <4> QED BY <4>1, <4>3, <3>1, <3>2, <2>f DEF PairsHold
    <3>3. ASSUME NEW k \in Requests, request'[k].live, request'[k].at = "answer", request'[k].got \notin stale',
                 request'[k].op = "exchange" \/ request'[k].p \notin replaced'
          PROVE  registered' = Torn \/ registered'[token'[request'[k].got].d] = request'[k].got
      <4>1. /\ k # r /\ request'[k] = request[k] /\ request[k].live /\ request[k].at = "answer"
            /\ request[k].op \in {"exchange", "refresh"} /\ request[k].got # 0
        BY <3>3, <2>a DEF PhonesWait, TokensAreRight
      <4>2. registered = Torn \/ registered[token[request[k].got].d] = request[k].got
        BY <4>1, <3>3, <2>f DEF PairsHold, IsRegistered
      <4>3. token[request[k].got].d # token[request[r].n].d /\ token[request[k].got].d \in 1 .. Len(token)
        <5>1. CASE request[k].p # request[r].p
          BY <5>1, <4>1, <2>b, <2>o DEF DevicesAreOwned, TokensAreRight
        <5>2. CASE request[k].p = request[r].p
          <6>1. CASE request[k].op = "exchange"
            <7>1. request[r].n # request[k].got /\ token[request[k].got].d = request[k].got
              BY <6>1, <4>1 DEF DevicesAreOwned, TokensAreRight
            <7> QED BY <7>1, <6>1, <5>2, <4>1, <2>b, <2>o DEF DevicesAreOwned, TokensAreRight
          <6>2. CASE request[k].op = "refresh"
            <7>1. request[k].n = phone[request[k].p].pair /\ request[k].p \notin replaced
              BY <6>2, <4>1, <3>3, <2>f DEF PhonesWait
            <7>2. token[request[k].got].d = token[request[k].n].d /\ request[k].n # 0
              BY <6>2, <4>1, <2>o, <2>z DEF TokensAreRight
            <7>3. token[request[r].n].d # token[request[k].n].d
              BY <7>1, <7>2, <5>2, <2>b DEF GivenUpAreKnown
            <7> QED BY <7>2, <7>3, <4>1, <2>o DEF TokensAreRight
          <6> QED BY <6>1, <6>2, <4>1
        <5> QED BY <5>1, <5>2
      <4> QED BY <4>1, <4>2, <4>3, <2>d, <2>f
    <3> QED BY <3>2, <3>3 DEF PairsHold, IsRegistered
  <2>9. GrantedIsApproved'
    BY <2>a, <2>b, <2>c, <2>d, <2>f, <2>s DEF GrantedIsApproved, TokensAreRight
  <2> QED BY <2>1, <2>2, <2>3, <2>4, <2>5, <2>6, <2>7, <2>8, <2>9
<1>18. ASSUME NEW r \in Requests, HandlePairRefresh(r) PROVE AccessInv'
  <2>z. Len(token) \in Nat /\ AccessTypes /\ TokensAreRight /\ PhonesWait /\ DevicesAreOwned
    BY DEF AccessTypes
  <2>n. /\ secret \in Nat /\ secretFile \in Nat /\ secrets \in Nat /\ era \in Nat /\ restarts \in Nat /\ fails \in Nat
        /\ \A n \in 1 .. Len(token) : token[n].s \in Nat /\ token[n].era \in Nat /\ token[n].d \in Nat
        /\ \A k \in Requests : request[k].got \in Nat /\ request[k].n \in Nat
    BY <2>z, AccessNumbers
  <2>a. request[r].at = "idle" /\ request' \in [Requests -> RequestState] /\ fails' \in Nat
    <3> DEFINE u == [op |-> "revokeAll", at |-> "swap", p |-> Nobody, n |-> 0, got |-> secrets + 1, live |-> FALSE]
    <3>1. u \in RequestState
      BY <2>n DEF RequestState, Stages
    <3>2. request[r].at = "idle" /\ (request' = request \/ request' = [request EXCEPT ![r] = u]) /\ fails' \in {fails, fails + 1}
      BY <1>18 DEF HandlePairRefresh
    <3> HIDE DEF u, AccessInv
    <3> QED BY <3>1, <3>2, <2>n, <2>z DEF AccessTypes
  <2> DEFINE Written == /\ request'[r] \in RequestState /\ request'[r].op = "revokeAll" /\ request'[r].at = "swap"
                        /\ request'[r].n = 0 /\ request'[r].got = secrets + 1 /\ ~request'[r].live
                        /\ \A q \in Requests : q # r => request'[q] = request[q]
                        /\ secretFile' = secrets + 1
                        /\ collided' = (collided \/ \E k \in Requests : request[k].at = "swap")
                        /\ fails' = fails
  <2>b. \/ Written
        \/ UNCHANGED request /\ collided' = TRUE /\ secretFile' \in {secretFile, 0} /\ fails' = fails + 1
    <3>1. CASE UNCHANGED request
      <4>1. request'[r].at = "idle"
        BY <3>1, <2>a
      <4>2. ~(request' = [request EXCEPT ![r] = [op |-> "revokeAll", at |-> "swap", p |-> Nobody, n |-> 0, got |-> secrets + 1, live |-> FALSE]])
        BY <4>1, <2>z DEF Free, AccessTypes
      <4> QED BY <1>18, <3>1, <4>2 DEF HandlePairRefresh
    <3>2. CASE ~UNCHANGED request
      <4>1. /\ request' = [request EXCEPT ![r] = [op |-> "revokeAll", at |-> "swap", p |-> Nobody, n |-> 0, got |-> secrets + 1, live |-> FALSE]]
            /\ secretFile' = secrets + 1 /\ fails' = fails
            /\ collided' = (collided \/ \E k \in Requests : request[k].at = "swap")
        BY <1>18, <3>2 DEF HandlePairRefresh
      <4> DEFINE u == [op |-> "revokeAll", at |-> "swap", p |-> Nobody, n |-> 0, got |-> secrets + 1, live |-> FALSE]
      <4>2. u \in RequestState /\ u.op = "revokeAll" /\ u.at = "swap" /\ u.n = 0 /\ u.got = secrets + 1 /\ ~u.live
        BY <2>n DEF RequestState, Stages
      <4>3. request' = [request EXCEPT ![r] = u]
        BY <4>1
      <4> HIDE DEF u
      <4> QED BY <4>1, <4>2, <4>3, <2>z DEF AccessTypes
    <3> QED BY <3>1, <3>2
  <2>c. secrets' = secrets + 1 /\ secrets \in Nat
    BY <1>18 DEF HandlePairRefresh, AccessTypes
  <2>f. UNCHANGED <<token, secret, revokedNonces, stale, era, registered, registryFile, granted, approvedNonces, approval, restarts, barred, replaced, phone>>
    BY <1>18 DEF HandlePairRefresh, decisions, phones, fixed
  <2>1. AccessTypes'
    <3>1. collided' \in BOOLEAN
      BY <2>b
    <3>2. secretFile' \in Nat
      BY <2>b, <2>n
    <3> QED BY <3>1, <3>2, <2>a, <2>c, <2>f, <2>n DEF AccessTypes
  <2>2. TokensAreRight'
    BY <2>a, <2>b, <2>c, <2>f, SMTT(40) DEF TokensAreRight, Refresh, Pairing
  <2>3. SecretsAreFresh'
    <3>1. CASE Written
      <4>1. request'[r].at = "swap" /\ request'[r].got = secrets + 1 /\ secretFile' = secrets + 1
        BY <3>1
      <4>2. \A q \in Requests : q # r => request'[q] = request[q]
        BY <3>1
      <4>3. {secret, secrets, secretFile} \subseteq Nat /\ secret <= secrets
        BY <2>n DEF SecretsAreFresh
      <4>4. ASSUME NEW k \in Requests, k # r, request[k].at = "swap"
            PROVE  request[k].got <= secrets' /\ request[k].got > 0 /\ request[k].got # secret /\ request[k].got # secrets + 1
        BY <4>3, <4>4, <2>c, <2>n DEF SecretsAreFresh, Swaps
      <4>5. ASSUME NEW n \in 1 .. Len(token)
            PROVE  /\ token[n].s <= secrets' /\ token[n].era <= era /\ token[n].s # secrets + 1
                   /\ (token[n].era = era /\ ~collided) => token[n].s = secret
                   /\ \A k \in Requests : request[k].at = "swap" => token[n].s # request[k].got
        BY <4>3, <2>c, <2>n DEF SecretsAreFresh, Swaps
      <4>6. ASSUME NEW k \in Requests, request'[k].at = "swap"
            PROVE  /\ request'[k].got <= secrets' /\ request'[k].got > 0 /\ request'[k].got # secret'
                   /\ \A n \in 1 .. Len(token') : token'[n].s # request'[k].got
                   /\ \A q \in Requests \ {k} : request'[q].at = "swap" => request'[q].got # request'[k].got
        <5>1. CASE k = r
          BY <5>1, <4>1, <4>2, <4>3, <4>4, <4>5, <2>c, <2>f
        <5>2. CASE k # r
          <6>1. request'[k] = request[k] /\ request[k].at = "swap"
            BY <5>2, <4>2, <4>6
          <6>2. \A q \in Requests \ {k} : request[q].at = "swap" => request[q].got # request[k].got
            BY <6>1 DEF SecretsAreFresh, Swaps
          <6> HIDE DEF AccessInv
          <6> QED BY <5>2, <6>1, <6>2, <4>1, <4>2, <4>4, <4>5, <2>f
        <5> QED BY <5>1, <5>2
      <4>7. ~collided' => ~collided /\ \A k \in Requests : request'[k].at = "swap" <=> k = r
        <5>1. collided' <=> (collided \/ \E k \in Requests : request[k].at = "swap")
          BY <3>1
        <5> HIDE DEF AccessInv
        <5> QED BY <5>1, <4>1, <4>2
      <4>8. secret' <= secrets' /\ secretFile' <= secrets' /\ secret' > 0
        BY <4>1, <4>3, <2>c, <2>f DEF SecretsAreFresh
      <4> HIDE DEF AccessInv
      <4> QED BY <4>1, <4>5, <4>6, <4>7, <4>8, <2>f DEF SecretsAreFresh, Swaps
    <3>2. CASE UNCHANGED request /\ collided' = TRUE /\ secretFile' \in {secretFile, 0}
      <4>1. /\ {secret, secrets, secretFile} \subseteq Nat /\ \A n \in 1 .. Len(token) : token[n].s \in Nat
            /\ \A k \in Requests : request[k].got \in Nat
        BY <2>n
      <4> QED BY <3>2, <4>1, <2>c, <2>f DEF SecretsAreFresh, Swaps
    <3> QED BY <3>1, <3>2, <2>b
  <2>4. RegistryIsFiled'
    BY <2>b, <2>f, <2>n DEF RegistryIsFiled
  <2>5. PhonesWait'
    BY <2>a, <2>b, <2>c, <2>f DEF PhonesWait, TokensAreRight
  <2>6. DevicesAreOwned'
    <3>1. \A q \in Requests : Keeps(q) \/ Ends(q) \/ Starts(q)
      BY <2>a, <2>b, <2>c, <2>f DEF Keeps, Ends, Starts, Free
    <3> HIDE DEF AccessInv
    <3> QED BY <3>1, <2>z, <2>a, <2>b, <2>c, <2>f, OwnersStay DEF Ends
  <2>7. GivenUpAreKnown'
    BY <2>a, <2>b, <2>c, <2>f, SMTT(40) DEF GivenUpAreKnown, TokensAreRight, PhonesWait, Refresh
  <2>8. PairsHold'
    <3>1. ASSUME NEW q \in Phones
          PROVE  /\ Renews(q, "answer") => Renews(q, "answer")'
                 /\ Renews(q, "register") => Renews(q, "register")'
      BY <2>a, <2>b DEF Renews
    <3>2. ASSUME NEW q \in Phones, NEW n, n = phone'[q].pair, n # 0, n \notin stale'
          PROVE  /\ q \notin replaced' /\ ~Renews(q, "answer")' => IsRegistered(n)'
                 /\ q \notin barred' \cup replaced' /\ ~Renews(q, "register")' /\ ~Renews(q, "answer")'
                      => n \notin revokedNonces'
      BY <3>1, <3>2, <2>a, <2>b, <2>f DEF PairsHold, IsRegistered
    <3>3. ASSUME NEW k \in Requests, request'[k].live, request'[k].at = "answer", request'[k].got \notin stale',
                 request'[k].op = "exchange" \/ request'[k].p \notin replaced'
          PROVE  registered' = Torn \/ registered'[token'[request'[k].got].d] = request'[k].got
      BY <3>3, <2>a, <2>b, <2>f DEF PairsHold, IsRegistered
    <3> QED BY <3>2, <3>3 DEF PairsHold, IsRegistered
  <2>9. GrantedIsApproved'
    BY <2>a, <2>b, <2>c, <2>f DEF GrantedIsApproved, TokensAreRight
  <2> QED BY <2>1, <2>2, <2>3, <2>4, <2>5, <2>6, <2>7, <2>8, <2>9
<1>19. ASSUME NEW r \in Requests, RevokeAllTokens(r) PROVE AccessInv'
  <2>z. Len(token) \in Nat /\ AccessTypes /\ TokensAreRight /\ PhonesWait /\ DevicesAreOwned
    BY DEF AccessTypes
  <2>n. /\ secret \in Nat /\ secretFile \in Nat /\ secrets \in Nat /\ era \in Nat /\ restarts \in Nat /\ fails \in Nat
        /\ \A n \in 1 .. Len(token) : token[n].s \in Nat /\ token[n].era \in Nat /\ token[n].d \in Nat
        /\ \A k \in Requests : request[k].got \in Nat /\ request[k].n \in Nat
    BY <2>z, AccessNumbers
  <2>b. request[r].at = "swap" /\ request[r].op = "revokeAll" /\ request[r].got \in Nat
    BY <1>19 DEF RevokeAllTokens, TokensAreRight, AccessTypes, RequestState
  <2>a. /\ request' \in [Requests -> RequestState]
        /\ \A q \in Requests : q # r => request'[q] = request[q]
        /\ request'[r].op = "none" /\ request'[r].at = "idle" /\ request'[r].n = 0 /\ request'[r].got = 0
        /\ ~request'[r].live
    <3>1. Free \in RequestState
      BY DEF Free, RequestState, Stages
    <3> QED BY <1>19, <3>1, <2>z DEF RevokeAllTokens, AccessTypes, Free
  <2>c. secret' = request[r].got /\ revokedNonces' = {} /\ era' = era + 1 /\ granted' = {} /\ era \in Nat
    BY <1>19 DEF RevokeAllTokens, AccessTypes
  <2>f. UNCHANGED <<token, secretFile, stale, secrets, collided, registered, registryFile, fails, approvedNonces, approval, restarts, barred, replaced, phone>>
    BY <1>19 DEF RevokeAllTokens, registry, phones, fixed
  <2>1. AccessTypes'
    BY <2>a, <2>b, <2>c, <2>f DEF AccessTypes
  <2>2. TokensAreRight'
    BY <2>a, <2>b, <2>c, <2>f DEF TokensAreRight, Refresh, Pairing
  <2>3. SecretsAreFresh'
    <3>1. /\ secret' <= secrets /\ secret' > 0 /\ secretFile <= secrets
          /\ \A n \in 1 .. Len(token) : token[n].s # secret'
          /\ \A k \in Requests : k # r /\ request[k].at = "swap" => request[k].got # secret'
      BY <2>b, <2>c DEF SecretsAreFresh, Swaps
    <3>2. \A k \in Requests : request'[k].at = "swap" <=> (k # r /\ request[k].at = "swap")
      BY <2>a
    <3>3. ASSUME NEW n \in 1 .. Len(token) PROVE token[n].s <= secrets /\ token[n].era <= era' /\ token[n].era # era'
      <4>1. token[n].era <= era /\ token[n].era \in Nat /\ token[n].s <= secrets
        BY <2>n DEF SecretsAreFresh
      <4> QED BY <4>1, <2>c
    <3>4. ASSUME NEW k \in Requests, k # r, request[k].at = "swap"
          PROVE  /\ request[k].got <= secrets /\ request[k].got > 0 /\ request[k].got # secret'
                 /\ \A n \in 1 .. Len(token) : token[n].s # request[k].got
                 /\ \A q \in Requests \ {k} : request[q].at = "swap" => request[q].got # request[k].got
      BY <3>1, <3>4 DEF SecretsAreFresh, Swaps
    <3>5. ~collided => secretFile = secret' /\ \A k \in Requests : k # r => request[k].at # "swap"
      <4>1. ~collided => \A k \in Requests : request[k].at = "swap" => secretFile = request[k].got
        BY DEF SecretsAreFresh, Swaps
      <4> QED BY <4>1, <3>1, <2>b, <2>c
    <3> HIDE DEF AccessInv
    <3> QED BY <3>1, <3>2, <3>3, <3>4, <3>5, <2>a, <2>f DEF SecretsAreFresh, Swaps
  <2>4. RegistryIsFiled'
    BY <2>a, <2>b, <2>c, <2>f DEF RegistryIsFiled
  <2>5. PhonesWait'
    BY <2>a, <2>b, <2>c, <2>f DEF PhonesWait, TokensAreRight
  <2>6. DevicesAreOwned'
    <3>1. \A q \in Requests : Keeps(q) \/ Ends(q) \/ Starts(q)
      BY <2>a, <2>b, <2>c, <2>f DEF Keeps, Ends, Starts, Free
    <3> HIDE DEF AccessInv
    <3> QED BY <3>1, <2>z, <2>a, <2>b, <2>c, <2>f, OwnersStay DEF Ends
  <2>7. GivenUpAreKnown'
    BY <2>a, <2>b, <2>c, <2>f DEF GivenUpAreKnown, TokensAreRight, PhonesWait, Refresh
  <2>8. PairsHold'
    <3>1. ASSUME NEW q \in Phones
          PROVE  /\ Renews(q, "answer") => Renews(q, "answer")'
                 /\ Renews(q, "register") => Renews(q, "register")'
      BY <2>a, <2>b DEF Renews
    <3>2. ASSUME NEW q \in Phones, NEW n, n = phone'[q].pair, n # 0, n \notin stale'
          PROVE  /\ q \notin replaced' /\ ~Renews(q, "answer")' => IsRegistered(n)'
                 /\ q \notin barred' \cup replaced' /\ ~Renews(q, "register")' /\ ~Renews(q, "answer")'
                      => n \notin revokedNonces'
      BY <3>1, <3>2, <2>a, <2>b, <2>c, <2>f DEF PairsHold, IsRegistered
    <3>3. ASSUME NEW k \in Requests, request'[k].live, request'[k].at = "answer", request'[k].got \notin stale',
                 request'[k].op = "exchange" \/ request'[k].p \notin replaced'
          PROVE  registered' = Torn \/ registered'[token'[request'[k].got].d] = request'[k].got
      BY <3>3, <2>a, <2>b, <2>f DEF PairsHold, IsRegistered
    <3> QED BY <3>2, <3>3 DEF PairsHold, IsRegistered
  <2>9. GrantedIsApproved'
    <3>1. ASSUME NEW k \in Requests, request'[k].at = "clear" PROVE token[request'[k].n].s # secret'
      <4>1. request'[k] = request[k] /\ request[k].n \in 1 .. Len(token)
        BY <3>1, <2>a DEF TokensAreRight, Pairing
      <4> QED BY <4>1, <2>b, <2>c DEF SecretsAreFresh, Swaps
    <3> QED BY <3>1, <2>c, <2>f DEF GrantedIsApproved
  <2> QED BY <2>1, <2>2, <2>3, <2>4, <2>5, <2>6, <2>7, <2>8, <2>9
<1>20. ASSUME NEW id \in 1 .. MaxAsks, HandlePairingApprove(id) PROVE AccessInv'
  <2>1. AccessTypes'
    BY <1>20, TokensAssumption DEF AccessTypes, PhoneState, RequestState, Stages, TokenState, Devices, Nonces, HandlePairingApprove, Approve, Decide, Validate, tokens, registry, decisions, phones, fixed
  <2>2. TokensAreRight'
    BY <1>20 DEF AccessTypes, PhoneState, RequestState, Stages, TokensAreRight, Refresh, Pairing, HandlePairingApprove, Approve, Decide, Validate, tokens, registry, decisions, phones, fixed
  <2>3. SecretsAreFresh'
    BY <1>20 DEF AccessTypes, PhoneState, RequestState, Stages, SecretsAreFresh, TokensAreRight, Swaps, HandlePairingApprove, Approve, Decide, Validate, tokens, registry, decisions, phones, fixed
  <2>4. RegistryIsFiled'
    BY <1>20, TornAssumption DEF AccessTypes, RegistryIsFiled, HandlePairingApprove, Approve, Decide, Validate, tokens, registry, decisions, phones, fixed
  <2>5. PhonesWait'
    BY <1>20 DEF AccessTypes, PhoneState, RequestState, Stages, TokensAreRight, PhonesWait, HandlePairingApprove, Approve, Decide, Validate, tokens, registry, decisions, phones, fixed
  <2>6. DevicesAreOwned'
    BY <1>20 DEF AccessTypes, PhoneState, RequestState, Stages, TokensAreRight, Refresh, Pairing, PhonesWait, DevicesAreOwned, Owns, Works, HandlePairingApprove, Approve, Decide, Validate, tokens, registry, decisions, phones, fixed
  <2>7. GivenUpAreKnown'
    BY <1>20 DEF AccessTypes, PhoneState, RequestState, Stages, TokensAreRight, PhonesWait, GivenUpAreKnown, HandlePairingApprove, Approve, Decide, Validate, tokens, registry, decisions, phones, fixed
  <2>8. PairsHold'
    BY <1>20 DEF AccessTypes, PhoneState, RequestState, Stages, TokensAreRight, PhonesWait, PairsHold, Renews, IsRegistered, HandlePairingApprove, Approve, Decide, Validate, tokens, registry, decisions, phones, fixed
  <2>9. GrantedIsApproved'
    BY <1>20 DEF AccessTypes, RequestState, TokensAreRight, GrantedIsApproved, HandlePairingApprove, Approve, Decide, Validate, tokens, registry, decisions, phones, fixed
  <2> QED BY <2>1, <2>2, <2>3, <2>4, <2>5, <2>6, <2>7, <2>8, <2>9
<1>21. ASSUME NEW id \in 1 .. MaxAsks, HandlePairingReject(id) PROVE AccessInv'
  <2>1. AccessTypes'
    BY <1>21, TokensAssumption DEF AccessTypes, PhoneState, RequestState, Stages, TokenState, Devices, Nonces, HandlePairingReject, Reject, Decide, tokens, registry, decisions, phones, fixed
  <2>2. TokensAreRight'
    BY <1>21 DEF AccessTypes, PhoneState, RequestState, Stages, TokensAreRight, Refresh, Pairing, HandlePairingReject, Reject, Decide, tokens, registry, decisions, phones, fixed
  <2>3. SecretsAreFresh'
    BY <1>21 DEF AccessTypes, PhoneState, RequestState, Stages, SecretsAreFresh, TokensAreRight, Swaps, HandlePairingReject, Reject, Decide, tokens, registry, decisions, phones, fixed
  <2>4. RegistryIsFiled'
    BY <1>21, TornAssumption DEF AccessTypes, RegistryIsFiled, HandlePairingReject, Reject, Decide, tokens, registry, decisions, phones, fixed
  <2>5. PhonesWait'
    BY <1>21 DEF AccessTypes, PhoneState, RequestState, Stages, TokensAreRight, PhonesWait, HandlePairingReject, Reject, Decide, tokens, registry, decisions, phones, fixed
  <2>6. DevicesAreOwned'
    BY <1>21 DEF AccessTypes, PhoneState, RequestState, Stages, TokensAreRight, Refresh, Pairing, PhonesWait, DevicesAreOwned, Owns, Works, HandlePairingReject, Reject, Decide, tokens, registry, decisions, phones, fixed
  <2>7. GivenUpAreKnown'
    BY <1>21 DEF AccessTypes, PhoneState, RequestState, Stages, TokensAreRight, PhonesWait, GivenUpAreKnown, HandlePairingReject, Reject, Decide, tokens, registry, decisions, phones, fixed
  <2>8. PairsHold'
    BY <1>21 DEF AccessTypes, PhoneState, RequestState, Stages, TokensAreRight, PhonesWait, PairsHold, Renews, IsRegistered, HandlePairingReject, Reject, Decide, tokens, registry, decisions, phones, fixed
  <2>9. GrantedIsApproved'
    BY <1>21 DEF AccessTypes, RequestState, TokensAreRight, GrantedIsApproved, HandlePairingReject, Reject, Decide, tokens, registry, decisions, phones, fixed
  <2> QED BY <2>1, <2>2, <2>3, <2>4, <2>5, <2>6, <2>7, <2>8, <2>9
<1>22. ASSUME NEW n \in 1 .. Len(token), Expire(n) PROVE AccessInv'
  <2>1. AccessTypes'
    BY <1>22, TokensAssumption DEF AccessTypes, PhoneState, RequestState, Stages, TokenState, Devices, Nonces, Expire, Used, tokens, registry, decisions, phones, fixed
  <2>2. TokensAreRight'
    BY <1>22 DEF AccessTypes, PhoneState, RequestState, Stages, TokensAreRight, Refresh, Pairing, Expire, Used, tokens, registry, decisions, phones, fixed
  <2>3. SecretsAreFresh'
    BY <1>22 DEF AccessTypes, PhoneState, RequestState, Stages, SecretsAreFresh, TokensAreRight, Swaps, Expire, Used, tokens, registry, decisions, phones, fixed
  <2>4. RegistryIsFiled'
    BY <1>22, TornAssumption DEF AccessTypes, RegistryIsFiled, Expire, Used, tokens, registry, decisions, phones, fixed
  <2>5. PhonesWait'
    BY <1>22 DEF AccessTypes, PhoneState, RequestState, Stages, TokensAreRight, PhonesWait, Expire, Used, tokens, registry, decisions, phones, fixed
  <2>6. DevicesAreOwned'
    BY <1>22 DEF AccessTypes, PhoneState, RequestState, Stages, TokensAreRight, Refresh, Pairing, PhonesWait, DevicesAreOwned, Owns, Works, Expire, Used, tokens, registry, decisions, phones, fixed
  <2>7. GivenUpAreKnown'
    BY <1>22 DEF AccessTypes, PhoneState, RequestState, Stages, TokensAreRight, PhonesWait, GivenUpAreKnown, Expire, Used, tokens, registry, decisions, phones, fixed
  <2>8. PairsHold'
    BY <1>22 DEF AccessTypes, PhoneState, RequestState, Stages, TokensAreRight, PhonesWait, PairsHold, Renews, IsRegistered, Expire, Used, tokens, registry, decisions, phones, fixed
  <2>9. GrantedIsApproved'
    BY <1>22 DEF AccessTypes, RequestState, TokensAreRight, GrantedIsApproved, Expire, Used, tokens, registry, decisions, phones, fixed
  <2> QED BY <2>1, <2>2, <2>3, <2>4, <2>5, <2>6, <2>7, <2>8, <2>9
<1>23. ASSUME PruneExpired PROVE AccessInv'
  <2>z. Len(token) \in Nat /\ AccessTypes /\ TokensAreRight /\ PhonesWait /\ RegistryIsFiled /\ DevicesAreOwned
    BY DEF AccessTypes
  <2>n. /\ secret \in Nat /\ secretFile \in Nat /\ secrets \in Nat /\ era \in Nat /\ restarts \in Nat /\ fails \in Nat
        /\ \A n \in 1 .. Len(token) : token[n].s \in Nat /\ token[n].era \in Nat /\ token[n].d \in Nat
        /\ \A k \in Requests : request[k].got \in Nat /\ request[k].n \in Nat
    BY <2>z, AccessNumbers
  <2>a. /\ registered # Torn /\ registered \in Devices
        /\ SaveLocked([d \in Nonces |-> IF registered[d] \in stale THEN 0 ELSE registered[d]])
    BY <1>23 DEF PruneExpired, AccessTypes
  <2>b. /\ registered' # Torn /\ registered' \in Devices /\ registryFile' \in Devices \cup {Torn} /\ fails' \in Nat
        /\ RegistryIsFiled'
        /\ \A d \in Nonces : registered[d] \notin stale => registered'[d] = registered[d]
    <3> DEFINE devices == [d \in Nonces |-> IF registered[d] \in stale THEN 0 ELSE registered[d]]
    <3>1. devices \in Devices /\ \A d \in Nonces : registered[d] \notin stale => devices[d] = registered[d]
      BY <2>a, TokensAssumption DEF Devices
    <3>2. SaveLocked(devices)
      BY <2>a
    <3> HIDE DEF devices, AccessInv
    <3> QED BY <3>1, <3>2, <2>z, SaveDoes
  <2>c. \A n \in 1 .. Len(token) : n \in Nonces
    BY TokensAssumption, <2>z DEF Nonces, AccessTypes
  <2>f. UNCHANGED <<token, secret, secretFile, revokedNonces, stale, secrets, era, collided, granted, approvedNonces, approval, restarts, barred, replaced, phone, request>>
    BY <1>23 DEF PruneExpired, tokens, decisions, phones, fixed
  <2>1. AccessTypes'
    BY <2>a, <2>b, <2>f DEF AccessTypes
  <2>2. TokensAreRight'
    BY <2>a, <2>b, <2>f DEF TokensAreRight, Refresh, Pairing
  <2>3. SecretsAreFresh'
    BY <2>a, <2>b, <2>f DEF SecretsAreFresh, Swaps
  <2>4. RegistryIsFiled'
    BY <2>b
  <2>5. PhonesWait'
    BY <2>a, <2>b, <2>f DEF PhonesWait, TokensAreRight
  <2>6. DevicesAreOwned'
    <3>1. \A q \in Requests : Keeps(q) \/ Ends(q) \/ Starts(q)
      BY <2>a, <2>b, <2>f DEF Keeps, Ends, Starts, Free
    <3> HIDE DEF AccessInv
    <3> QED BY <3>1, <2>z, <2>a, <2>b, <2>f, OwnersStay DEF Ends
  <2>7. GivenUpAreKnown'
    BY <2>a, <2>b, <2>f DEF GivenUpAreKnown, TokensAreRight, PhonesWait, Refresh
  <2>8. PairsHold'
    <3>1. ASSUME NEW q \in Phones
          PROVE  /\ Renews(q, "answer") => Renews(q, "answer")'
                 /\ Renews(q, "register") => Renews(q, "register")'
      BY <2>f DEF Renews
    <3>2. ASSUME NEW q \in Phones, NEW n, n = phone'[q].pair, n # 0, n \notin stale'
          PROVE  /\ q \notin replaced' /\ ~Renews(q, "answer")' => IsRegistered(n)'
                 /\ q \notin barred' \cup replaced' /\ ~Renews(q, "register")' /\ ~Renews(q, "answer")'
                      => n \notin revokedNonces'
      <4>1. token[n].d \in Nonces
        BY <3>2, <2>c, <2>f DEF TokensAreRight, Refresh
      <4> QED BY <4>1, <3>1, <3>2, <2>a, <2>b, <2>f DEF PairsHold, IsRegistered
    <3>3. ASSUME NEW k \in Requests, request'[k].live, request'[k].at = "answer", request'[k].got \notin stale',
                 request'[k].op = "exchange" \/ request'[k].p \notin replaced'
          PROVE  registered' = Torn \/ registered'[token'[request'[k].got].d] = request'[k].got
      <4>1. token[request[k].got].d \in Nonces
        BY <3>3, <2>c, <2>f DEF TokensAreRight, Refresh, PhonesWait
      <4>2. registered[token[request[k].got].d] = request[k].got
        BY <3>3, <2>a, <2>f DEF PairsHold, IsRegistered
      <4> QED BY <4>1, <4>2, <3>3, <2>b, <2>f
    <3> QED BY <3>2, <3>3 DEF PairsHold, IsRegistered
  <2>9. GrantedIsApproved'
    BY <2>a, <2>b, <2>f DEF GrantedIsApproved, TokensAreRight
  <2> QED BY <2>1, <2>2, <2>3, <2>4, <2>5, <2>6, <2>7, <2>8, <2>9
<1>24. ASSUME Restart PROVE AccessInv'
  <2>z. Len(token) \in Nat /\ AccessTypes /\ TokensAreRight /\ PhonesWait /\ RegistryIsFiled /\ DevicesAreOwned
    BY DEF AccessTypes
  <2>n. /\ secret \in Nat /\ secretFile \in Nat /\ secrets \in Nat /\ era \in Nat /\ restarts \in Nat /\ fails \in Nat
        /\ \A n \in 1 .. Len(token) : token[n].s \in Nat /\ token[n].era \in Nat /\ token[n].d \in Nat
        /\ \A k \in Requests : request[k].got \in Nat /\ request[k].n \in Nat
    BY <2>z, AccessNumbers
  <2>a. /\ request' \in [Requests -> RequestState]
        /\ \A q \in Requests : /\ request'[q].op = "none" /\ request'[q].at = "idle" /\ request'[q].n = 0
                               /\ request'[q].got = 0 /\ ~request'[q].live
    <3>1. Free \in RequestState
      BY DEF Free, RequestState, Stages
    <3> QED BY <1>24, <3>1 DEF Restart, Free
  <2>b. /\ phone' \in [Phones -> PhoneState]
        /\ \A p \in Phones : phone'[p].code = phone[p].code /\ phone'[p].pair = phone[p].pair /\ ~phone'[p].waits
    <3>1. \A p \in Phones : phone'[p] = [phone[p] EXCEPT !.waits = FALSE] /\ phone[p] \in PhoneState
      BY <1>24 DEF Restart, AccessTypes
    <3>2. phone' = [p \in Phones |-> [phone[p] EXCEPT !.waits = FALSE]]
      BY <1>24 DEF Restart
    <3> QED BY <3>1, <3>2 DEF PhoneState
  <2>c. /\ secret' = (IF secretFile = 0 THEN secrets + 1 ELSE secretFile) /\ secretFile' = secret'
        /\ secrets' = (IF secretFile = 0 THEN secrets + 1 ELSE secrets)
        /\ restarts' = restarts + 1 /\ revokedNonces' = {} /\ registered' = registryFile /\ granted' = {}
    BY <1>24 DEF Restart
  <2>d. era' = IF \E r \in Requests : request[r].at = "swap" THEN era + 1 ELSE era
    BY <1>24 DEF Restart
  <2>e. \A p \in Phones : p \notin replaced' =>
           /\ p \notin replaced /\ ~Renews(p, "answer")
           /\ phone[p].pair # 0 /\ fails > 0 /\ registered # Torn /\ registryFile # Torn
                => registryFile[token[phone[p].pair].d] = registered[token[phone[p].pair].d]
    BY <1>24 DEF Restart, Renews
  <2>f. UNCHANGED <<token, stale, collided, registryFile, fails, approval>>
    BY <1>24 DEF Restart
  <2>1. AccessTypes'
    <3>1. era' \in Nat
      BY <2>d, <2>n
    <3> QED BY <3>1, <2>a, <2>b, <2>c, <2>f, <2>n DEF AccessTypes
  <2>2. TokensAreRight'
    BY <2>a, <2>b, <2>c, <2>f DEF TokensAreRight, Refresh, Pairing
  <2>3. SecretsAreFresh'
    <3>1. secret' <= secrets' /\ secretFile' <= secrets' /\ secret' > 0
      BY <2>c, <2>n DEF SecretsAreFresh
    <3>2. ASSUME NEW n \in 1 .. Len(token) PROVE token[n].s <= secrets' /\ token[n].era <= era'
      <4>1. token[n].s <= secrets /\ token[n].era <= era
        BY DEF SecretsAreFresh
      <4> QED BY <4>1, <2>c, <2>d, <2>n
    <3>3. ASSUME NEW n \in 1 .. Len(token), token[n].era = era', ~collided PROVE token[n].s = secret'
      <4>1. \A k \in Requests : request[k].at # "swap"
        <5>1. ASSUME \E k \in Requests : request[k].at = "swap" PROVE FALSE
          <6>1. era' = era + 1
            BY <5>1, <2>d
          <6> QED BY <6>1, <3>3, <2>n DEF SecretsAreFresh
        <5> QED BY <5>1
      <4>2. era' = era
        BY <4>1, <2>d
      <4> QED BY <4>1, <4>2, <3>3, <2>c, <2>n DEF SecretsAreFresh, Swaps
    <3> QED BY <3>1, <3>2, <3>3, <2>a, <2>c, <2>f DEF SecretsAreFresh, Swaps
  <2>4. RegistryIsFiled'
    BY <2>a, <2>b, <2>c, <2>f DEF RegistryIsFiled
  <2>5. PhonesWait'
    BY <2>a, <2>b, <2>c, <2>f DEF PhonesWait, TokensAreRight
  <2>6. DevicesAreOwned'
    <3>1. \A q \in Requests : Keeps(q) \/ Ends(q) \/ Starts(q)
      BY <2>a, <2>b, <2>c, <2>f DEF Keeps, Ends, Starts, Free
    <3> HIDE DEF AccessInv
    <3> QED BY <3>1, <2>z, <2>a, <2>b, <2>c, <2>f, OwnersStay DEF Ends
  <2>7. GivenUpAreKnown'
    BY <2>a, <2>b, <2>c, <2>f DEF GivenUpAreKnown, TokensAreRight, PhonesWait, Refresh
  <2>8. PairsHold'
    <3>2. ASSUME NEW q \in Phones, NEW n, n = phone'[q].pair, n # 0, n \notin stale'
          PROVE  /\ q \notin replaced' /\ ~Renews(q, "answer")' => IsRegistered(n)'
                 /\ q \notin barred' \cup replaced' /\ ~Renews(q, "register")' /\ ~Renews(q, "answer")'
                      => n \notin revokedNonces'
      <4>1. q \notin replaced' => IsRegistered(n)'
        <5>1. ASSUME q \notin replaced' PROVE IsRegistered(n)
          BY <5>1, <3>2, <2>b, <2>e, <2>f DEF PairsHold
        <5>2. registered = Torn => registryFile = Torn
          BY DEF RegistryIsFiled
        <5>3. fails = 0 => registryFile = registered
          BY DEF RegistryIsFiled
        <5>4. fails = 0 \/ fails > 0
          BY <2>n
        <5> QED BY <5>1, <5>2, <5>3, <5>4, <3>2, <2>b, <2>c, <2>e, <2>f DEF IsRegistered
      <4> QED BY <4>1, <2>c
    <3>3. ASSUME NEW k \in Requests, request'[k].live, request'[k].at = "answer", request'[k].got \notin stale',
                 request'[k].op = "exchange" \/ request'[k].p \notin replaced'
          PROVE  registered' = Torn \/ registered'[token'[request'[k].got].d] = request'[k].got
      BY <3>3, <2>a
    <3> QED BY <3>2, <3>3 DEF PairsHold, IsRegistered
  <2>9. GrantedIsApproved'
    BY <2>a, <2>b, <2>c, <2>f DEF GrantedIsApproved, TokensAreRight
  <2> QED BY <2>1, <2>2, <2>3, <2>4, <2>5, <2>6, <2>7, <2>8, <2>9
<1>25. CASE UNCHANGED accessVars
  <2>1. UNCHANGED <<token, secret, secretFile, revokedNonces, stale, secrets, era, collided, registered,
                    registryFile, fails, granted, approvedNonces, approval, restarts, barred, replaced,
                    phone, request>>
    BY <1>25 DEF accessVars, tokens, registry, decisions, phones, fixed
  <2>2. AccessTypes' /\ RegistryIsFiled'
    BY <2>1 DEF AccessTypes, RegistryIsFiled
  <2>3. TokensAreRight'
    BY <2>1 DEF TokensAreRight, Refresh, Pairing
  <2>4. SecretsAreFresh'
    BY <2>1 DEF SecretsAreFresh, Swaps
  <2>5. PhonesWait'
    BY <2>1 DEF PhonesWait
  <2>6. DevicesAreOwned'
    BY <2>1 DEF DevicesAreOwned, Owns, Works
  <2>7. GivenUpAreKnown'
    BY <2>1 DEF GivenUpAreKnown
  <2>8. PairsHold'
    BY <2>1 DEF PairsHold, Renews, IsRegistered
  <2>9. GrantedIsApproved'
    BY <2>1 DEF GrantedIsApproved
  <2> QED BY <2>2, <2>3, <2>4, <2>5, <2>6, <2>7, <2>8, <2>9
<1> QED
  BY <1>1, <1>2, <1>3, <1>4, <1>5, <1>6, <1>7, <1>8, <1>9, <1>10, <1>11, <1>12, <1>13, <1>14, <1>15, <1>16, <1>17, <1>18, <1>19, <1>20, <1>21, <1>22, <1>23, <1>24, <1>25 DEF AccessNext, HandlePairInfo, HandlePairQR, HandlePairCode

\* What holds of the tokens, the registry, the requests and the phones, at any
\* number of each of them.
THEOREM AccessInvariance == AccessSpec => []AccessInv
<1>1. AccessInit => AccessInv
  BY AccessBegins
<1>2. AccessInv /\ [AccessNext]_accessVars => AccessInv'
  BY AccessGoesOn
<1> QED BY <1>1, <1>2, PTL DEF AccessSpec

\* The pair a phone was last answered with is accepted and renews itself, whatever
\* the other phones, the restarts and the writes that fail do in between.
THEOREM HeldPairAlwaysWorks == AccessSpec => []HeldPairWorks
<1>1. AccessInv => HeldPairWorks
  <2> SUFFICES ASSUME AccessInv, NEW p \in Phones, phone[p].pair # 0, ~phone[p].waits, phone[p].pair \notin stale,
                      p \notin barred \cup replaced, token[phone[p].pair].era = era, ~collided
               PROVE  Validate(phone[p].pair) /\ IsRefreshNonceValid(phone[p].pair)
    BY DEF HeldPairWorks
  <2>1. phone[p].pair \in 1 .. Len(token)
    BY DEF AccessInv, TokensAreRight, Refresh
  <2>2. token[phone[p].pair].s = secret
    BY <2>1 DEF AccessInv, SecretsAreFresh
  <2>3. \A stage : ~Renews(p, stage)
    BY DEF AccessInv, PhonesWait, Renews
  <2>4. phone[p].pair \notin revokedNonces /\ IsRegistered(phone[p].pair)
    BY <2>3 DEF AccessInv, PairsHold
  <2> QED BY <2>2, <2>4 DEF Validate, IsRefreshNonceValid, IsRegistered
<1> QED BY <1>1, AccessInvariance, PTL

\* Once the user has approved a phone's request, an exchange that looks at the
\* decision goes on to be answered.
THEOREM ApprovedIsAlwaysServed == AccessSpec => ApprovedIsServed
<1>1. ASSUME AccessInv, [AccessNext]_accessVars
      PROVE  [\A r \in Requests :
                 (request[r].at = "status" /\ request'[r].at # "status" /\ restarts' = restarts)
                 => (request[r].n \in granted => request'[r].at = "generate")]_accessVars
  <2> SUFFICES ASSUME AccessNext, NEW r \in Requests, request[r].at = "status", request'[r].at # "status",
                      restarts' = restarts, request[r].n \in granted
               PROVE  request'[r].at = "generate"
    BY <1>1
  <2>1. request[r].n \in approvedNonces
    BY <1>1 DEF AccessInv, GrantedIsApproved
  <2>2. restarts \in Nat
    BY <1>1, AccessNumbers DEF AccessInv
  <2>3. request \in [Requests -> RequestState]
    BY <1>1 DEF AccessInv, AccessTypes
  <2>4. ASSUME NEW p \in Phones, NEW q \in Requests, HandleExchange(p, q) \/ HandleRefresh(p, q) \/ HandleRevoke(p, q)
        PROVE  request'[r].at = "status"
    <3>1. q # r
      BY <2>4 DEF HandleExchange, HandleRefresh, HandleRevoke, BeginRequest
    <3> QED BY <3>1, <2>3, <2>4 DEF HandleExchange, HandleRefresh, HandleRevoke, BeginRequest
  <2>5. ASSUME NEW p \in Phones, HandlePairInfo(p) \/ HandlePairQR(p) \/ HandlePairCode(p)
        PROVE  request' = request
    BY <2>5 DEF HandlePairInfo, HandlePairQR, HandlePairCode, GeneratePairingToken
  <2>6. ASSUME NEW p \in Phones, GiveUp(p) PROVE request'[r].at = "status"
    <3>1. request'[r] = request[r] \/ request'[r] = [request[r] EXCEPT !.live = FALSE]
      BY <2>6 DEF GiveUp
    <3>2. request[r] \in RequestState
      BY <2>3
    <3> QED BY <3>1, <3>2 DEF RequestState
  <2>7. ASSUME NEW q \in Requests, CheckApproval(q) PROVE request'[r].at \in {"status", "generate"}
    <3>1. CASE q = r
      <4>1. Goto(r, "generate")
        BY <3>1, <2>1, <2>7 DEF CheckApproval, Status
      <4> QED BY <4>1, <2>3 DEF Goto, RequestState
    <3>2. CASE q # r
      BY <3>2, <2>3, <2>7 DEF CheckApproval, Goto, Refuse, Answer
    <3> QED BY <3>1, <3>2
  <2>8. ASSUME NEW q \in Requests,
               \/ ValidateToken(q) \/ EnsurePending(q) \/ GenerateTokenPair(q) \/ RevokeOld(q)
               \/ ClearTokenDecision(q) \/ RegisterDevice(q) \/ AnswerPair(q) \/ RevokeToken(q) \/ RemoveDevice(q)
               \/ HandlePairRefresh(q) \/ RevokeAllTokens(q)
        PROVE  request'[r] = request[r]
    <3>1. q # r
      BY <2>8 DEF ValidateToken, EnsurePending, GenerateTokenPair, RevokeOld, ClearTokenDecision, RegisterDevice,
                  AnswerPair, RevokeToken, RemoveDevice, HandlePairRefresh, RevokeAllTokens
    <3>2. \/ \E s : Goto(q, s)
          \/ \E held : Answer(q, held)
          \/ request' = request
          \/ \E u : request' = [request EXCEPT ![q] = u]
      <4>1. CASE ValidateToken(q) \/ EnsurePending(q) \/ RevokeOld(q) \/ ClearTokenDecision(q) \/ RegisterDevice(q)
        BY <4>1, Zenon DEF ValidateToken, EnsurePending, RevokeOld, ClearTokenDecision, RegisterDevice, Refuse
      <4>2. CASE AnswerPair(q) \/ RevokeToken(q) \/ RemoveDevice(q)
        BY <4>2, Zenon DEF AnswerPair, RevokeToken, RemoveDevice, Refuse
      <4>3. CASE HandlePairRefresh(q)
        BY <4>3, Zenon DEF HandlePairRefresh
      <4>4. CASE RevokeAllTokens(q)
        BY <4>4, Zenon DEF RevokeAllTokens
      <4>5. CASE GenerateTokenPair(q)
        <5>1. CASE Refuse(q)
          BY <5>1, Zenon DEF Refuse
        <5>2. CASE request' = [request EXCEPT ![q].at = "revoke", ![q].got = LastToken]
          <6> DEFINE u == [[request[q] EXCEPT !.at = "revoke"] EXCEPT !.got = LastToken]
          <6>1. request' = [request EXCEPT ![q] = u]
            BY <5>2, <2>3
          <6> QED BY <6>1
        <5> QED BY <4>5, <5>1, <5>2 DEF GenerateTokenPair
      <4> QED BY <2>8, <4>1, <4>2, <4>3, <4>4, <4>5
    <3>3. ASSUME NEW s, Goto(q, s) PROVE request'[r] = request[r]
      BY <3>1, <3>3, <2>3 DEF Goto
    <3>4. ASSUME NEW held, Answer(q, held) PROVE request'[r] = request[r]
      BY <3>1, <3>4, <2>3 DEF Answer
    <3>5. ASSUME NEW u, request' = [request EXCEPT ![q] = u] PROVE request'[r] = request[r]
      BY <3>1, <3>5, <2>3
    <3> QED BY <3>2, <3>3, <3>4, <3>5
  <2>9. ASSUME Restart PROVE FALSE
    BY <2>2, <2>9 DEF Restart
  <2>10. ASSUME HandlePairPage \/ CodeExpires \/ PruneExpired PROVE request' = request
    BY <2>10 DEF HandlePairPage, CodeExpires, PruneExpired
  <2>11. ASSUME NEW id \in 1 .. MaxAsks, HandlePairingApprove(id) \/ HandlePairingReject(id) PROVE request' = request
    BY <2>11 DEF HandlePairingApprove, HandlePairingReject, Approve, Reject, Decide
  <2>12. ASSUME NEW n \in 1 .. Len(token), Expire(n) PROVE request' = request
    BY <2>12 DEF Expire
  <2>13. request'[r].at \in {"status", "generate"}
    BY <2>4, <2>5, <2>6, <2>7, <2>8, <2>9, <2>10, <2>11, <2>12 DEF AccessNext
  <2> QED BY <2>13
<1> QED BY <1>1, AccessInvariance, PTL DEF AccessSpec, ApprovedIsServed

-----------------------------------------------------------------------------
(* The rate limiter *)

AcceptedRequests == [at : Nat, number : Nat]
BucketState == [timestamps : SUBSET AcceptedRequests, lastAccess : Nat]

RateTypes ==
    /\ now \in Nat
    /\ DOMAIN buckets \subseteq Keys
    /\ \A k \in DOMAIN buckets : buckets[k] \in BucketState
    /\ conn \in [Conns -> Keys \cup {"closed"}]
    /\ accepted \in [Keys -> SUBSET AcceptedRequests]
    /\ refused \subseteq Keys

\* A bucket knows when it was asked last, and nothing it holds is younger.
BucketsAreOld ==
    \A k \in DOMAIN buckets :
        /\ buckets[k].lastAccess <= now
        /\ \A r \in buckets[k].timestamps : r.at <= buckets[k].lastAccess

\* What a bucket holds of the last window is all that was accepted in it, and a
\* key without a bucket has had nothing accepted.
HeldFor(k) == IF k \in DOMAIN buckets THEN Within(buckets[k].timestamps) ELSE {}
BucketsHoldAll == \A k \in Keys : accepted[k] = HeldFor(k)

\* The requests of one time have different numbers.
AcceptedAreCounted ==
    \A k \in Keys :
        /\ IsFiniteSet(accepted[k]) /\ Cardinality(accepted[k]) <= MaxRequests
        /\ \A r \in accepted[k] : r.at = now => r.number <= Cardinality(accepted[k])
        /\ k \in refused => Cardinality(accepted[k]) = MaxRequests

RateInv == RateTypes /\ BucketsAreOld /\ BucketsHoldAll /\ AcceptedAreCounted

\* A request keeps the invariant, let through or not: it is the bucket that is
\* asked, and the bucket holds what counts.
LEMMA AllowKeeps ==
    ASSUME RateInv, NEW k \in Keys, Allow(k), now' = now,
           conn' \in [Conns -> Keys \cup {"closed"}]
    PROVE  RateInv'
<1> DEFINE valid == HeldFor(k)
<1>1. /\ now \in Nat /\ RateTypes
      /\ accepted[k] = valid /\ IsFiniteSet(valid) /\ Cardinality(valid) <= MaxRequests
      /\ \A r \in valid : r.at <= now
      /\ \A r \in valid : r.at = now => r.number <= Cardinality(valid)
      /\ valid \subseteq AcceptedRequests
      /\ k \in refused => Cardinality(valid) = MaxRequests
    <2>1. RateTypes /\ accepted[k] = valid
        BY DEF RateInv, BucketsHoldAll
    <2>2. \A r \in valid : r.at <= now
        BY DEF RateInv, RateTypes, BucketsAreOld, HeldFor, Within, BucketState, AcceptedRequests
    <2>3. QED
        BY <2>1, <2>2 DEF RateInv, RateTypes, AcceptedAreCounted
<1>2. /\ accepted \in [Keys -> SUBSET AcceptedRequests] /\ DOMAIN buckets \subseteq Keys
      /\ \A q \in DOMAIN buckets : buckets[q] \in BucketState
    BY <1>1 DEF RateTypes
<1>3. \A r \in valid : r.at + Window > now
    BY DEF HeldFor, Within
<1>4. PICK kept : /\ buckets' = With(buckets, k, [timestamps |-> kept, lastAccess |-> now])
                  /\ \/ /\ Cardinality(valid) < MaxRequests /\ kept = WithOneMore(valid)
                        /\ accepted' = [accepted EXCEPT ![k] = WithOneMore(@)]
                        /\ refused' = refused
                     \/ /\ ~(Cardinality(valid) < MaxRequests) /\ kept = valid
                        /\ accepted' = accepted
                        /\ refused' = refused \cup {k}
    BY DEF Allow, HeldFor
<1> HIDE DEF valid
<1>5. Cardinality(valid) \in Nat
    BY <1>1, FS_CardinalityType
<1>6. /\ kept \in SUBSET AcceptedRequests /\ IsFiniteSet(kept) /\ Cardinality(kept) <= MaxRequests
      /\ \A r \in kept : r.at <= now /\ r.at + Window > now
      /\ \A r \in kept : r.at = now => r.number <= Cardinality(kept)
      /\ k \in refused' => Cardinality(kept) = MaxRequests
      /\ accepted' \in [Keys -> SUBSET AcceptedRequests] /\ accepted'[k] = kept
      /\ \A q \in Keys \ {k} : accepted'[q] = accepted[q] /\ (q \in refused' <=> q \in refused)
      /\ refused' \subseteq Keys
    <2>1. CASE ~(Cardinality(valid) < MaxRequests) /\ kept = valid
               /\ accepted' = accepted /\ refused' = refused \cup {k}
        BY <2>1, <1>1, <1>2, <1>3, <1>5, RateAssumption DEF RateTypes
    <2>2. CASE Cardinality(valid) < MaxRequests /\ kept = WithOneMore(valid)
               /\ accepted' = [accepted EXCEPT ![k] = WithOneMore(@)] /\ refused' = refused
        <3>1. PICK r : r = [at |-> now, number |-> Cardinality(valid) + 1]
            OBVIOUS
        <3>2. r.at = now /\ r.number = Cardinality(valid) + 1 /\ r \in AcceptedRequests
            BY <3>1, <1>1, <1>5 DEF AcceptedRequests
        <3>3. kept = valid \cup {r}
            BY <2>2, <3>1 DEF WithOneMore
        <3>4. r \notin valid
            BY <3>2, <1>1, <1>5
        <3>5. IsFiniteSet(kept) /\ Cardinality(kept) = Cardinality(valid) + 1
            BY <3>3, <3>4, <1>1, FS_AddElement
        <3>6. kept \in SUBSET AcceptedRequests
            BY <3>2, <3>3, <1>1
        <3>7. now + Window > now
            BY <1>1, RateAssumption
        <3>8. \A q \in kept : /\ q.at <= now /\ q.at + Window > now
                              /\ q.at = now => q.number <= Cardinality(kept)
            <4> TAKE q \in kept
            <4>1. CASE q = r
                BY <4>1, <3>2, <3>5, <3>7, <1>1, <1>5
            <4>2. CASE q \in valid
                <5>1. q.number \in Nat
                    BY <4>2, <1>1 DEF AcceptedRequests
                <5>2. QED
                    BY <4>2, <5>1, <3>5, <1>1, <1>3, <1>5
            <4>3. QED
                BY <4>1, <4>2, <3>3
        <3>9. Cardinality(kept) <= MaxRequests /\ k \notin refused'
            BY <2>2, <3>5, <1>1, <1>5, RateAssumption
        <3>10. accepted' = [accepted EXCEPT ![k] = kept]
            BY <2>2, <1>1, <1>2
        <3>11. /\ accepted' \in [Keys -> SUBSET AcceptedRequests] /\ accepted'[k] = kept
               /\ \A q \in Keys \ {k} : accepted'[q] = accepted[q]
            BY <3>6, <3>10, <1>2
        <3>12. refused' = refused /\ refused \subseteq Keys
            BY <2>2, <1>1 DEF RateTypes
        <3>13. QED
            BY <3>5, <3>6, <3>8, <3>9, <3>11, <3>12
    <2>3. QED
        BY <1>4, <2>1, <2>2
<1>7. /\ DOMAIN buckets' = DOMAIN buckets \cup {k}
      /\ buckets'[k] = [timestamps |-> kept, lastAccess |-> now]
      /\ \A q \in DOMAIN buckets \ {k} : buckets'[q] = buckets[q]
    BY <1>4 DEF With
<1>8. RateTypes'
    BY <1>1, <1>2, <1>6, <1>7 DEF RateTypes, BucketState
<1>9. BucketsAreOld'
    BY <1>1, <1>6, <1>7 DEF RateInv, BucketsAreOld
<1>10. BucketsHoldAll'
    <2> SUFFICES ASSUME NEW q \in Keys PROVE accepted'[q] = HeldFor(q)'
        BY DEF BucketsHoldAll
    <2>1. CASE q = k
        BY <2>1, <1>6, <1>7 DEF HeldFor, Within
    <2>2. CASE q # k
        BY <2>2, <1>6, <1>7 DEF HeldFor, Within, RateInv, BucketsHoldAll
    <2>3. QED
        BY <2>1, <2>2
<1>11. AcceptedAreCounted'
    BY <1>6 DEF RateInv, AcceptedAreCounted
<1>12. QED
    BY <1>8, <1>9, <1>10, <1>11 DEF RateInv

\* Time passes: what leaves the window leaves the bucket's part of it too.
LEMMA TickKeeps ==
    ASSUME RateInv, RateTick
    PROVE  RateInv'
<1>1. /\ now \in Nat /\ now' = now + 1 /\ refused' = {} /\ UNCHANGED <<buckets, conn>>
      /\ accepted' = [k \in Keys |-> {r \in accepted[k] : r.at + Window > now + 1}]
      /\ RateTypes
    BY DEF RateInv, RateTypes, RateTick
<1>2. RateTypes'
    BY <1>1 DEF RateTypes
<1>3. BucketsAreOld'
    BY <1>1 DEF RateInv, BucketsAreOld, RateTypes, BucketState
<1>4. BucketsHoldAll'
    <2> SUFFICES ASSUME NEW k \in Keys PROVE accepted'[k] = HeldFor(k)'
        BY DEF BucketsHoldAll
    <2>1. accepted[k] = HeldFor(k) /\ accepted'[k] = {r \in accepted[k] : r.at + Window > now + 1}
        BY <1>1 DEF RateInv, BucketsHoldAll
    <2>2. CASE k \in DOMAIN buckets
        <3>1. \A r \in buckets[k].timestamps : r.at \in Nat
            BY <2>2, <1>1 DEF RateTypes, BucketState, AcceptedRequests
        <3>2. \A r \in buckets[k].timestamps : r.at + Window > now + 1 => r.at + Window > now
            BY <3>1, <1>1, RateAssumption
        <3>3. QED
            BY <2>1, <2>2, <3>2, <1>1 DEF HeldFor, Within
    <2>3. CASE k \notin DOMAIN buckets
        BY <2>1, <2>3, <1>1 DEF HeldFor
    <2>4. QED
        BY <2>2, <2>3
<1>5. AcceptedAreCounted'
    <2> SUFFICES ASSUME NEW k \in Keys
                 PROVE  /\ IsFiniteSet(accepted'[k]) /\ Cardinality(accepted'[k]) <= MaxRequests
                        /\ \A r \in accepted'[k] : r.at # now'
        BY <1>1 DEF AcceptedAreCounted
    <2>1. accepted'[k] \subseteq accepted[k]
        BY <1>1
    <2>2. IsFiniteSet(accepted[k]) /\ Cardinality(accepted[k]) <= MaxRequests
        BY DEF RateInv, AcceptedAreCounted
    <2>3. /\ IsFiniteSet(accepted'[k]) /\ Cardinality(accepted'[k]) <= Cardinality(accepted[k])
          /\ Cardinality(accepted'[k]) \in Nat /\ Cardinality(accepted[k]) \in Nat
        BY <2>1, <2>2, FS_Subset, FS_CardinalityType
    <2>4. \A r \in accepted[k] : r.at <= now /\ r.at \in Nat
        <3>1. accepted[k] = HeldFor(k)
            BY DEF RateInv, BucketsHoldAll
        <3>2. QED
            BY <3>1, <1>1 DEF RateInv, BucketsAreOld, RateTypes, HeldFor, Within, BucketState,
                              AcceptedRequests
    <2>5. QED
        BY <2>1, <2>2, <2>3, <2>4, <1>1, RateAssumption
<1>6. QED
    BY <1>2, <1>3, <1>4, <1>5 DEF RateInv

\* The cleanup throws away only buckets that hold nothing of the last window.
LEMMA CleanupKeeps ==
    ASSUME RateInv, Cleanup
    PROVE  RateInv'
<1>1. /\ now \in Nat /\ UNCHANGED <<now, conn, accepted, refused>> /\ RateTypes
      /\ buckets' = Only(buckets, {k \in DOMAIN buckets :
                                      buckets[k].lastAccess + 2 * Window >= now})
    BY DEF RateInv, RateTypes, Cleanup
<1>2. /\ DOMAIN buckets' = {k \in DOMAIN buckets : buckets[k].lastAccess + 2 * Window >= now}
      /\ \A k \in DOMAIN buckets' : k \in DOMAIN buckets /\ buckets'[k] = buckets[k]
    BY <1>1 DEF Only
<1>3. RateTypes' /\ BucketsAreOld' /\ AcceptedAreCounted'
    BY <1>1, <1>2 DEF RateInv, RateTypes, BucketsAreOld, AcceptedAreCounted
<1>4. BucketsHoldAll'
    <2> SUFFICES ASSUME NEW k \in Keys PROVE HeldFor(k) = HeldFor(k)'
        BY <1>1 DEF RateInv, BucketsHoldAll
    <2>1. CASE k \in DOMAIN buckets /\ k \notin DOMAIN buckets'
        <3>1. ~(buckets[k].lastAccess + 2 * Window >= now)
            BY <2>1, <1>2
        <3>2. buckets[k].lastAccess \in Nat
              /\ \A r \in buckets[k].timestamps : r.at \in Nat /\ r.at <= buckets[k].lastAccess
            BY <2>1, <1>1 DEF RateInv, BucketsAreOld, RateTypes, BucketState, AcceptedRequests
        <3>3. \A r \in buckets[k].timestamps : ~(r.at + Window > now)
            BY <3>1, <3>2, <1>1, RateAssumption
        <3>4. QED
            BY <2>1, <3>3 DEF HeldFor, Within
    <2>2. CASE k \in DOMAIN buckets' \/ k \notin DOMAIN buckets
        BY <2>2, <1>1, <1>2 DEF HeldFor, Within
    <2>3. QED
        BY <2>1, <2>2
<1>5. QED
    BY <1>3, <1>4 DEF RateInv

\* The invariant holds in every behaviour, for any limit, window, keys and
\* connections.
THEOREM RateInvariance == RateSpec => []RateInv
<1>1. RateInit => RateInv
    <2> SUFFICES ASSUME RateInit PROVE RateInv
        OBVIOUS
    <2>1. DOMAIN EmptyFunction = {}
        BY DEF EmptyFunction
    <2>2. IsFiniteSet({}) /\ Cardinality({}) = 0
        BY FS_EmptySet
    <2>3. QED
        BY <2>1, <2>2, RateAssumption
           DEF RateInit, RateInv, RateTypes, BucketsAreOld, BucketsHoldAll, HeldFor,
               AcceptedAreCounted
<1>2. RateInv /\ [RateNext]_rateVars => RateInv'
    <2> SUFFICES ASSUME RateInv, [RateNext]_rateVars PROVE RateInv'
        OBVIOUS
    <2>1. conn \in [Conns -> Keys \cup {"closed"}]
        BY DEF RateInv, RateTypes
    <2>2. ASSUME NEW k \in Keys, RateLimitMiddleware(k) PROVE RateInv'
        BY <2>1, <2>2, AllowKeeps DEF RateLimitMiddleware
    <2>3. ASSUME NEW c \in Conns, ReadMessage(c) PROVE RateInv'
        <3>1. conn[c] \in Keys /\ Allow(conn[c]) /\ now' = now
            BY <2>1, <2>3 DEF ReadMessage
        <3>2. conn' \in [Conns -> Keys \cup {"closed"}]
            BY <2>1, <2>3 DEF ReadMessage
        <3>3. QED
            BY <3>1, <3>2, AllowKeeps
    <2>4. ASSUME UNCHANGED <<now, buckets, accepted, refused>>,
                 conn' \in [Conns -> Keys \cup {"closed"}]
          PROVE  RateInv'
        BY <2>4 DEF RateInv, RateTypes, BucketsAreOld, BucketsHoldAll, HeldFor, Within,
                    AcceptedAreCounted
    <2>5. ASSUME NEW c \in Conns, NEW k \in Keys, Upgrade(c, k) \/ Hangup(c) PROVE RateInv'
        BY <2>1, <2>4, <2>5 DEF Upgrade, Hangup
    <2>6. ASSUME NEW c \in Conns, Hangup(c) PROVE RateInv'
        BY <2>1, <2>4, <2>6 DEF Hangup
    <2>7. CASE UNCHANGED rateVars
        BY <2>1, <2>4, <2>7 DEF rateVars
    <2>8. QED
        BY <2>2, <2>3, <2>5, <2>6, <2>7, CleanupKeeps, TickKeeps DEF RateNext
<1>3. QED
    BY <1>1, <1>2, PTL DEF RateSpec

\* No key has more requests accepted within a window than its limit, and none is
\* refused before, whenever the cleanup runs (RateLimiter.Allow and cleanup,
\* internal/server/http/middleware/ratelimit.go).
THEOREM RateStaysHeld == RateSpec => []RateIsHeld
<1>1. RateInv => RateIsHeld
    BY DEF RateInv, AcceptedAreCounted, RateIsHeld
<1>2. QED
    BY <1>1, RateInvariance, PTL
=============================================================================
