------------------------- MODULE WorkspaceWatch_proofs -------------------------
(***************************************************************************)
(* Theorems about WorkspaceWatch, for every number of clients, workspaces  *)
(* and sessions.                                                           *)
(***************************************************************************)
EXTENDS WorkspaceWatch, GoMaps_proofs, FiniteSetTheorems

-----------------------------------------------------------------------------
(* The invariant *)

\* What a call is about, by where it is.
CallsShaped ==
    \A c \in Client :
        /\ call[c].op \in {"starting", "stopping"} =>
              \E w \in Workspace : call[c].ws = {w}
        /\ call[c].op \in {"none", "idle", "seeking", "ending", "ended", "gone"} =>
              call[c].ws = {}
        /\ At(c, "seeking") => call[c].key \in Session
        /\ call[c].op \in {"ending", "ended"} => call[c].key \in Key

\* A call that is to take a reference has the workspace in the filter, one that
\* is to give it back has not, and a client that leaves has no filter.
CallsMatchFilters ==
    \A c \in Client :
        /\ At(c, "starting") => call[c].ws \subseteq filters[c]
        /\ At(c, "stopping") => call[c].ws \cap filters[c] = {}
        /\ call[c].op \in {"none", "leaving", "gone"} => filters[c] = {}

\* The inductive invariant.
WatchInv ==
    /\ TypeOK
    /\ CallsShaped /\ CallsMatchFilters
    /\ RunningIsCounted
    /\ PairedCallsCount
    /\ WatchersAgree

-----------------------------------------------------------------------------
(* Calls *)

\* A call that returns, or goes on to another place, keeps the type of calls.
LEMMA CallType ==
    ASSUME TypeOK, NEW c \in Client, NEW r \in Calls, call' = [call EXCEPT ![c] = r]
    PROVE  /\ call' \in [Client -> Calls]
           /\ call'[c] = r
           /\ \A d \in Client \ {c} : call'[d] = call[d]
  BY DEF TypeOK

\* There are finitely many holders of references, before and after a step.
LEMMA HoldersFinite ==
    ASSUME NEW w
    PROVE  /\ Holders(w) \subseteq Client /\ IsFiniteSet(Holders(w))
           /\ Holders(w)' \subseteq Client /\ IsFiniteSet(Holders(w)')
  <1>1. Holders(w) \subseteq Client /\ Holders(w)' \subseteq Client
    BY DEF Holders
  <1> QED
    BY <1>1, ClientAssumption, FS_Subset

-----------------------------------------------------------------------------
(* What a step keeps *)

\* A step that leaves the filters, the references and the calls alone keeps the
\* counts right.
LEMMA CountsKept ==
    ASSUME WatchInv, UNCHANGED <<filters, git, call, tidy>>
    PROVE  CallsShaped' /\ CallsMatchFilters' /\ RunningIsCounted' /\ PairedCallsCount'
  <1>1. \A w : Holders(w)' = Holders(w)
    BY DEF Holders, At
  <1> QED
    BY <1>1
    DEF WatchInv, git, CallsShaped, CallsMatchFilters, RunningIsCounted,
        PairedCallsCount, At

\* So does one that moves a call between places that hold no reference.
LEMMA CountsMoved ==
    ASSUME WatchInv, UNCHANGED <<filters, git, tidy>>,
           NEW c \in Client, NEW r \in Calls, call' = [call EXCEPT ![c] = r],
           call[c].op \notin {"starting", "stopping"}, call[c].ws = {},
           r.op \in {"idle", "seeking", "ending", "ended", "gone"}, r.ws = {},
           r.op = "gone" => filters[c] = {},
           r.op = "seeking" => r.key \in Session,
           r.op \in {"ending", "ended"} => r.key \in Key
    PROVE  CallsShaped' /\ CallsMatchFilters' /\ RunningIsCounted' /\ PairedCallsCount'
  <1>0. TypeOK /\ CallsShaped /\ CallsMatchFilters /\ RunningIsCounted /\ PairedCallsCount
    BY DEF WatchInv
  <1>1. call'[c] = r /\ \A d \in Client \ {c} : call'[d] = call[d]
    BY <1>0, CallType
  <1>2. \A w : Holders(w)' = Holders(w)
    BY <1>1 DEF Holders, At
  <1>3. CallsShaped' /\ CallsMatchFilters'
    BY <1>0, <1>1 DEF CallsShaped, CallsMatchFilters, At
  <1> QED
    BY <1>0, <1>2, <1>3 DEF git, RunningIsCounted, PairedCallsCount

\* Giving back a reference to w keeps watchers and counts in step, and lowers
\* the count by one where there is one.
LEMMA DropKeeps ==
    ASSUME TypeOK, RunningIsCounted, NEW w \in Workspace, DropReference(w)
    PROVE  /\ counts' \in [Workspace -> Nat] /\ gitWatchers' \subseteq Workspace
           /\ RunningIsCounted'
           /\ counts[w] > 0 => counts'[w] = counts[w] - 1
           /\ \A v \in Workspace \ {w} : counts'[v] = counts[v]
  BY DEF DropReference, TypeOK, RunningIsCounted

\* When one holder gives the reference to w back, the counts stay right.
LEMMA GivenBack ==
    ASSUME TypeOK, RunningIsCounted, PairedCallsCount, UNCHANGED tidy,
           NEW w \in Workspace, NEW c,
           counts[w] > 0 => counts'[w] = counts[w] - 1,
           \A v \in Workspace \ {w} : counts'[v] = counts[v],
           c \in Holders(w), Holders(w)' = Holders(w) \ {c},
           \A v \in Workspace \ {w} : Holders(v)' = Holders(v)
    PROVE  PairedCallsCount'
  <1>1. tidy \subseteq Workspace /\ counts \in [Workspace -> Nat]
    BY DEF TypeOK
  <1>2. /\ Cardinality(Holders(w)) \in Nat
        /\ Cardinality(Holders(w)') = Cardinality(Holders(w)) - 1
    BY HoldersFinite, FS_RemoveElement, FS_CardinalityType
  <1>3. Cardinality(Holders(w)) # 0
    BY HoldersFinite, FS_EmptySet
  <1>4. w \in tidy => counts'[w] = Cardinality(Holders(w)')
    BY <1>1, <1>2, <1>3 DEF PairedCallsCount
  <1> QED
    BY <1>1, <1>4 DEF PairedCallsCount

\* A client that joins a streamer, or starts one, is on both sides of the books.
LEMMA WatchesKeeps ==
    ASSUME TypeOK, WatchersAgree, NEW c \in Watcher,
           NEW w \in Workspace, NEW s \in Session, Watches(c, w, s)
    PROVE  /\ Partial(active', Workspace, Session)
           /\ Partial(streams', Key, SUBSET Watcher)
           /\ watched' \in [Watcher -> SUBSET Key]
           /\ WatchersAgree'
  <1> DEFINE id == Resolve(aliases, s)
             k == <<w, id>>
             W == IF k \in DOMAIN streams THEN streams[k] \cup {c} ELSE {c}
  <1>0. /\ Partial(aliases, Session, Session) /\ Partial(active, Workspace, Session)
        /\ Partial(streams, Key, SUBSET Watcher) /\ watched \in [Watcher -> SUBSET Key]
    BY DEF TypeOK
  <1>1. id \in Session
    BY <1>0, ResolveType
  <1>2. k \in Key
    BY <1>1 DEF Key
  <1>3. W \in SUBSET Watcher
    BY <1>0, PartialApplication
  <1>4. /\ streams' = With(streams, k, W)
        /\ watched' = [watched EXCEPT ![c] = @ \cup {k}]
        /\ active' = active \/ active' = With(active, w, id)
    BY DEF Watches
  <1> HIDE DEF k, id
  <1>5. /\ DOMAIN (streams') = DOMAIN streams \cup {k}
        /\ streams'[k] = W
        /\ \A j \in DOMAIN streams \ {k} : streams'[j] = streams[j]
    BY <1>4 DEF With
  <1>6. Partial(streams', Key, SUBSET Watcher)
    BY <1>0, <1>2, <1>3, <1>4, WithPartial
  <1>7. Partial(active', Workspace, Session)
    BY <1>0, <1>1, <1>4, WithPartial
  <1>8. /\ watched'[c] = watched[c] \cup {k}
        /\ \A d \in Watcher \ {c} : watched'[d] = watched[d]
    BY <1>0, <1>4
  <1>9. \A d \in Watcher : watched'[d] = {j \in DOMAIN (streams') : d \in streams'[j]}
    <2>1. ASSUME NEW d \in Watcher
          PROVE  watched[d] = {j \in DOMAIN streams : d \in streams[j]}
      BY DEF WatchersAgree
    <2> QED
      BY <1>5, <1>8, <2>1
  <1>10. \A j \in DOMAIN (streams') : streams'[j] # {}
    BY <1>5 DEF WatchersAgree
  <1> QED
    BY <1>0, <1>2, <1>4, <1>6, <1>7, <1>9, <1>10 DEF WatchersAgree

\* A client that leaves streamers leaves them on both sides, and the empty ones
\* are gone.
LEMMA LeavesKeeps ==
    ASSUME TypeOK, WatchersAgree, NEW c \in Watcher, NEW K \in SUBSET Key,
           LeavesStreams(c, K)
    PROVE  /\ Partial(streams', Key, SUBSET Watcher)
           /\ watched' \in [Watcher -> SUBSET Key]
           /\ WatchersAgree'
  <1>0. Partial(streams, Key, SUBSET Watcher) /\ watched \in [Watcher -> SUBSET Key]
    BY DEF TypeOK
  <1>1. /\ DOMAIN (streams') = {k \in DOMAIN streams : k \in K => streams[k] \ {c} # {}}
        /\ \A k \in DOMAIN (streams') :
              streams'[k] = IF k \in K THEN streams[k] \ {c} ELSE streams[k]
    BY DEF LeavesStreams
  <1>2. /\ watched'[c] = watched[c] \ K
        /\ \A d \in Watcher \ {c} : watched'[d] = watched[d]
        /\ watched' \in [Watcher -> SUBSET Key]
    BY <1>0 DEF LeavesStreams
  <1>3. Partial(streams', Key, SUBSET Watcher)
    BY <1>0, <1>1 DEF Partial, LeavesStreams
  <1>4. ASSUME NEW d \in Watcher
        PROVE  watched'[d] = {k \in DOMAIN (streams') : d \in streams'[k]}
    <2>1. watched[d] = {k \in DOMAIN streams : d \in streams[k]}
      BY DEF WatchersAgree
    <2> DEFINE S == {k \in DOMAIN (streams') : d \in streams'[k]}
               T == IF d = c THEN watched[d] \ K ELSE watched[d]
    <2>2. watched'[d] = T
      BY <1>2
    <2>3. T \subseteq S
      BY <1>1, <2>1
    <2>4. S \subseteq T
      BY <1>1, <2>1
    <2>5. watched'[d] = S
      <3> HIDE DEF S, T
      <3> QED
        BY <2>2, <2>3, <2>4
    <2> QED
      BY <2>5
  <1>5. \A k \in DOMAIN (streams') : streams'[k] # {}
    BY <1>1 DEF WatchersAgree
  <1> QED
    BY <1>2, <1>3, <1>4, <1>5 DEF WatchersAgree

-----------------------------------------------------------------------------
(* The invariant is inductive *)

\* Nobody is connected: the invariant holds at the start.
LEMMA InitInv == Init => WatchInv
  <1> SUFFICES ASSUME Init PROVE WatchInv
    OBVIOUS
  <1>1. TypeOK
    BY EmptyPartial DEF Init, TypeOK, Calls, Idle
  <1>2. CallsShaped /\ CallsMatchFilters /\ RunningIsCounted
    BY DEF Init, Idle, CallsShaped, CallsMatchFilters, RunningIsCounted, At
  <1>3. \A w : Holders(w) = {}
    BY DEF Init, Idle, Holders, At
  <1>4. PairedCallsCount
    BY <1>3, FS_EmptySet DEF Init, PairedCallsCount
  <1>5. WatchersAgree
    BY DEF Init, EmptyFunction, WatchersAgree
  <1> QED
    BY <1>1, <1>2, <1>4, <1>5 DEF WatchInv

\* Every call, every rest of a call and every disconnect keeps the invariant.
LEMMA NextInv == WatchInv /\ [Next]_vars => WatchInv'
  <1> SUFFICES ASSUME WatchInv, [Next]_vars PROVE WatchInv'
    OBVIOUS
  <1>0. /\ TypeOK /\ CallsShaped /\ CallsMatchFilters
        /\ RunningIsCounted /\ PairedCallsCount /\ WatchersAgree
    BY DEF WatchInv
  <1> USE <1>0
  <1> DEFINE at(o, W, k) == [op |-> o, ws |-> W, key |-> k]
  <1>a. ASSUME UNCHANGED streaming PROVE WatchersAgree'
    BY <1>a DEF streaming, WatchersAgree
  \* Workspaces and clients.
  <1>1. ASSUME NEW w \in Workspace, Register(w) \/ Unregister(w) PROVE WatchInv'
    <2>1. TypeOK'
      BY <1>1 DEF Register, Unregister, git, streaming, TypeOK
    <2>2. UNCHANGED <<filters, git, call, tidy>> /\ UNCHANGED streaming
      BY <1>1 DEF Register, Unregister
    <2> QED
      BY <1>a, <2>1, <2>2, CountsKept DEF WatchInv
  <1>2. ASSUME NEW c \in Client, Connect(c) PROVE WatchInv'
    <2>1. Idle \in Calls /\ Idle.op = "idle" /\ Idle.ws = {}
      BY DEF Calls, Idle
    <2>2. call' = [call EXCEPT ![c] = Idle] /\ call[c].op = "none" /\ call[c].ws = {}
      BY <1>2 DEF Connect, Returns, At, CallsShaped
    <2>3. TypeOK'
      BY <1>2, <2>1, <2>2, CallType DEF Connect, git, streaming, TypeOK
    <2>4. UNCHANGED <<filters, git, tidy>> /\ UNCHANGED streaming
      BY <1>2 DEF Connect
    <2>5. CallsShaped' /\ CallsMatchFilters' /\ RunningIsCounted' /\ PairedCallsCount'
      BY <2>1, <2>2, <2>4, CountsMoved
    <2> QED
      BY <1>a, <2>3, <2>4, <2>5 DEF WatchInv
  \* Git watchers.
  <1>3. ASSUME NEW c \in Client, NEW w \in Workspace, Subscribe(c, w) PROVE WatchInv'
    <2> DEFINE r == at("starting", {w}, None)
    <2>1. r \in Calls /\ call' = [call EXCEPT ![c] = r]
      BY <1>3 DEF Subscribe, GoesOn, Calls
    <2>2. call'[c] = r /\ \A d \in Client \ {c} : call'[d] = call[d]
      BY <2>1, CallType
    <2>3. call[c].op = "idle" /\ call[c].ws = {}
      BY <1>3 DEF Subscribe, At, CallsShaped
    <2>4. /\ filters' = [filters EXCEPT ![c] = @ \cup {w}]
          /\ tidy' = IF w \in filters[c] THEN tidy \ {w} ELSE tidy
          /\ UNCHANGED <<registered, counts, gitWatchers, aliases, active, streaming>>
      BY <1>3 DEF Subscribe, git
    <2>5. filters \in [Client -> SUBSET Workspace]
      BY DEF TypeOK
    <2>6. TypeOK'
      BY <2>1, <2>2, <2>4, CallType DEF streaming, TypeOK
    <2>7. CallsShaped' /\ CallsMatchFilters'
      BY <2>2, <2>3, <2>4, <2>5 DEF CallsShaped, CallsMatchFilters, At
    <2>8. RunningIsCounted'
      BY <2>4 DEF RunningIsCounted
    <2>9. \A v \in tidy' : Holders(v)' = Holders(v)
      BY <2>2, <2>3, <2>4, <2>5 DEF Holders, At
    <2>10. PairedCallsCount'
      BY <2>4, <2>9 DEF PairedCallsCount
    <2> QED
      BY <1>a, <2>4, <2>6, <2>7, <2>8, <2>10 DEF WatchInv
  <1>4. ASSUME NEW c \in Client, StartGitWatcher(c) PROVE WatchInv'
    <2>1. PICK w \in Workspace : call[c].ws = {w}
      BY <1>4 DEF StartGitWatcher, At, CallsShaped
    <2>2. /\ counts' = [counts EXCEPT ![w] = @ + 1]
          /\ gitWatchers' = gitWatchers \cup {w}
          /\ call' = [call EXCEPT ![c] = Idle]
          /\ call[c].op = "starting"
          /\ UNCHANGED <<registered, filters, aliases, active, streaming, tidy>>
      BY <1>4, <2>1 DEF StartGitWatcher, Returns, At
    <2>3. Idle \in Calls /\ Idle.op = "idle" /\ Idle.ws = {}
      BY DEF Calls, Idle
    <2>4. call'[c] = Idle /\ \A d \in Client \ {c} : call'[d] = call[d]
      BY <2>2, <2>3, CallType
    <2>5. counts \in [Workspace -> Nat]
      BY DEF TypeOK
    <2>6. TypeOK'
      BY <2>2, <2>3, CallType DEF streaming, TypeOK
    <2>7. CallsShaped' /\ CallsMatchFilters'
      BY <2>2, <2>3, <2>4 DEF CallsShaped, CallsMatchFilters, At
    <2>8. RunningIsCounted'
      BY <2>2, <2>5 DEF RunningIsCounted
    <2>9. w \in filters[c]
      BY <2>1, <2>2 DEF CallsMatchFilters, At
    <2>10. c \notin Holders(w) /\ Holders(w)' = Holders(w) \cup {c}
      BY <2>1, <2>2, <2>3, <2>4, <2>9 DEF Holders, At
    <2>11. \A v \in Workspace \ {w} : Holders(v)' = Holders(v)
      BY <2>1, <2>2, <2>3, <2>4 DEF Holders, At
    <2>12. Cardinality(Holders(w)') = Cardinality(Holders(w)) + 1
      BY <2>10, HoldersFinite, FS_AddElement
    <2>13. tidy \subseteq Workspace
      BY DEF TypeOK
    <2>14. PairedCallsCount'
      BY <2>2, <2>5, <2>11, <2>12, <2>13 DEF PairedCallsCount
    <2> QED
      BY <1>a, <2>2, <2>6, <2>7, <2>8, <2>14 DEF WatchInv
  <1>5. ASSUME NEW c \in Client, StartFails(c) PROVE WatchInv'
    <2>1. /\ call' = [call EXCEPT ![c] = Idle]
          /\ call[c].op = "starting"
          /\ tidy' = tidy \ call[c].ws
          /\ UNCHANGED <<registered, filters, counts, gitWatchers, aliases, active, streaming>>
      BY <1>5 DEF StartFails, Returns, At, git
    <2>2. Idle \in Calls /\ Idle.op = "idle" /\ Idle.ws = {}
      BY DEF Calls, Idle
    <2>3. call'[c] = Idle /\ \A d \in Client \ {c} : call'[d] = call[d]
      BY <2>1, <2>2, CallType
    <2>4. TypeOK'
      BY <2>1, <2>2, CallType DEF streaming, TypeOK
    <2>5. CallsShaped' /\ CallsMatchFilters'
      BY <2>1, <2>2, <2>3 DEF CallsShaped, CallsMatchFilters, At
    <2>6. RunningIsCounted'
      BY <2>1 DEF RunningIsCounted
    <2>7. \A v \in tidy' : Holders(v)' = Holders(v)
      BY <2>1, <2>2, <2>3 DEF Holders, At
    <2>8. PairedCallsCount'
      BY <2>1, <2>7 DEF PairedCallsCount
    <2> QED
      BY <1>a, <2>1, <2>4, <2>5, <2>6, <2>8 DEF WatchInv
  <1>6. ASSUME NEW c \in Client, NEW w \in Workspace, Unsubscribe(c, w) PROVE WatchInv'
    <2> DEFINE r == at("stopping", {w}, None)
    <2>1. r \in Calls /\ call' = [call EXCEPT ![c] = r]
      BY <1>6 DEF Unsubscribe, GoesOn, Calls
    <2>2. call'[c] = r /\ \A d \in Client \ {c} : call'[d] = call[d]
      BY <2>1, CallType
    <2>3. call[c].op = "idle" /\ call[c].ws = {}
      BY <1>6 DEF Unsubscribe, At, CallsShaped
    <2>4. /\ filters' = [filters EXCEPT ![c] = @ \ {w}]
          /\ tidy' = IF w \in filters[c] THEN tidy ELSE tidy \ {w}
          /\ UNCHANGED <<registered, counts, gitWatchers, aliases, active, streaming>>
      BY <1>6 DEF Unsubscribe, git
    <2>5. filters \in [Client -> SUBSET Workspace]
      BY DEF TypeOK
    <2>6. TypeOK'
      BY <2>1, <2>2, <2>4, CallType DEF streaming, TypeOK
    <2>7. CallsShaped' /\ CallsMatchFilters'
      BY <2>2, <2>3, <2>4, <2>5 DEF CallsShaped, CallsMatchFilters, At
    <2>8. RunningIsCounted'
      BY <2>4 DEF RunningIsCounted
    <2>9. \A v \in tidy' : Holders(v)' = Holders(v)
      BY <2>2, <2>3, <2>4, <2>5 DEF Holders, At
    <2>10. PairedCallsCount'
      BY <2>4, <2>9 DEF PairedCallsCount
    <2> QED
      BY <1>a, <2>4, <2>6, <2>7, <2>8, <2>10 DEF WatchInv
  <1>7. ASSUME NEW c \in Client, StopGitWatcher(c) PROVE WatchInv'
    <2>1. PICK w \in Workspace : call[c].ws = {w}
      BY <1>7 DEF StopGitWatcher, At, CallsShaped
    <2>2. /\ DropReference(w)
          /\ call' = [call EXCEPT ![c] = Idle]
          /\ call[c].op = "stopping"
          /\ UNCHANGED <<registered, filters, aliases, active, streaming, tidy>>
      BY <1>7, <2>1 DEF StopGitWatcher, Returns, At
    <2>3. Idle \in Calls /\ Idle.op = "idle" /\ Idle.ws = {}
      BY DEF Calls, Idle
    <2>4. call'[c] = Idle /\ \A d \in Client \ {c} : call'[d] = call[d]
      BY <2>2, <2>3, CallType
    <2>5. /\ counts' \in [Workspace -> Nat] /\ gitWatchers' \subseteq Workspace
          /\ RunningIsCounted'
          /\ counts[w] > 0 => counts'[w] = counts[w] - 1
          /\ \A v \in Workspace \ {w} : counts'[v] = counts[v]
      BY <2>2, DropKeeps
    <2>6. TypeOK'
      BY <2>2, <2>3, <2>5, CallType DEF streaming, TypeOK
    <2>7. CallsShaped' /\ CallsMatchFilters'
      BY <2>2, <2>3, <2>4 DEF CallsShaped, CallsMatchFilters, At
    <2>8. w \notin filters[c]
      BY <2>1, <2>2 DEF CallsMatchFilters, At
    <2>9. c \in Holders(w) /\ Holders(w)' = Holders(w) \ {c}
      BY <2>1, <2>2, <2>3, <2>4, <2>8 DEF Holders, At
    <2>10. \A v \in Workspace \ {w} : Holders(v)' = Holders(v)
      BY <2>1, <2>2, <2>3, <2>4 DEF Holders, At
    <2>11. PairedCallsCount'
      BY <2>2, <2>5, <2>9, <2>10, GivenBack
    <2> QED
      BY <1>a, <2>2, <2>5, <2>6, <2>7, <2>11 DEF WatchInv
  <1>8. ASSUME NEW c \in Client, SubscribeAll(c) PROVE WatchInv'
    <2>1. /\ filters' = [filters EXCEPT ![c] = {}]
          /\ tidy' = tidy \ filters[c]
          /\ UNCHANGED <<registered, counts, gitWatchers, aliases, active, streaming, call>>
          /\ call[c].op = "idle"
      BY <1>8 DEF SubscribeAll, At, git
    <2>2. filters \in [Client -> SUBSET Workspace]
      BY DEF TypeOK
    <2>3. TypeOK'
      BY <2>1 DEF streaming, TypeOK
    <2>4. CallsShaped' /\ CallsMatchFilters'
      BY <2>1, <2>2 DEF CallsShaped, CallsMatchFilters, At
    <2>5. RunningIsCounted'
      BY <2>1 DEF RunningIsCounted
    <2>6. \A v \in tidy' : Holders(v)' = Holders(v)
      BY <2>1, <2>2 DEF Holders, At
    <2>7. PairedCallsCount'
      BY <2>1, <2>6 DEF PairedCallsCount
    <2> QED
      BY <1>a, <2>1, <2>3, <2>4, <2>5, <2>7 DEF WatchInv
  \* Session streamers.
  <1>9. ASSUME NEW c \in Watcher, NEW w \in Workspace, NEW s \in Session,
               Watches(c, w, s), UNCHANGED <<registered, filters, git, aliases, call, tidy>>
        PROVE  WatchInv'
    <2>1. /\ Partial(active', Workspace, Session)
          /\ Partial(streams', Key, SUBSET Watcher)
          /\ watched' \in [Watcher -> SUBSET Key]
          /\ WatchersAgree'
      BY <1>9, WatchesKeeps
    <2>2. TypeOK'
      BY <1>9, <2>1 DEF git, TypeOK
    <2>3. CallsShaped' /\ CallsMatchFilters' /\ RunningIsCounted' /\ PairedCallsCount'
      BY <1>9, CountsKept
    <2> QED
      BY <2>1, <2>2, <2>3 DEF WatchInv
  <1>10. ASSUME NEW c \in Client, NEW K \in SUBSET Key, LeavesStreams(c, K),
                UNCHANGED <<registered, filters, git, aliases, active, call, tidy>>
         PROVE  WatchInv'
    <2>1. /\ Partial(streams', Key, SUBSET Watcher)
          /\ watched' \in [Watcher -> SUBSET Key]
          /\ WatchersAgree'
      BY <1>10, LeavesKeeps DEF Watcher
    <2>2. TypeOK'
      BY <1>10, <2>1 DEF git, TypeOK
    <2>3. CallsShaped' /\ CallsMatchFilters' /\ RunningIsCounted' /\ PairedCallsCount'
      BY <1>10, CountsKept
    <2> QED
      BY <2>1, <2>2, <2>3 DEF WatchInv
  <1>11. ASSUME NEW c \in Client, UnwatchAny(c) \/ \E s \in Session : UnwatchSession(c, s)
         PROVE  WatchInv'
    <2>1. PICK k \in watched[c] : LeavesStreams(c, {k})
      BY <1>11 DEF UnwatchAny, UnwatchSession
    <2>2. {k} \in SUBSET Key
      BY DEF TypeOK, Watcher
    <2>3. UNCHANGED <<registered, filters, git, aliases, active, call, tidy>>
      BY <1>11 DEF UnwatchAny, UnwatchSession
    <2> QED
      BY <1>10, <2>1, <2>2, <2>3
  \* session/stop: a call moves on, and only EndStream touches the streamers.
  <1>12. ASSUME NEW c \in Client, NEW r \in Calls, call' = [call EXCEPT ![c] = r],
                call[c].op \in {"idle", "seeking", "ending", "ended"},
                \/ r.op = "idle"
                \/ r.op = "seeking" /\ r.key \in Session
                \/ r.op \in {"ending", "ended"} /\ r.key \in Key,
                r.ws = {}, UNCHANGED <<registered, filters, git, aliases, tidy>>,
                Partial(active', Workspace, Session),
                Partial(streams', Key, SUBSET Watcher),
                watched' \in [Watcher -> SUBSET Key], WatchersAgree'
         PROVE  WatchInv'
    <2>1. TypeOK'
      BY <1>12, CallType DEF git, TypeOK
    <2>2. call[c].ws = {}
      BY <1>12 DEF CallsShaped
    <2>3. CallsShaped' /\ CallsMatchFilters' /\ RunningIsCounted' /\ PairedCallsCount'
      BY <1>12, <2>2, CountsMoved
    <2> QED
      BY <1>12, <2>1, <2>3 DEF WatchInv
  <1>b. /\ Partial(active, Workspace, Session) /\ Partial(streams, Key, SUBSET Watcher)
        /\ Partial(aliases, Session, Session) /\ watched \in [Watcher -> SUBSET Key]
    BY DEF TypeOK
  <1>c. /\ Idle \in Calls /\ Idle.op = "idle" /\ Idle.ws = {}
        /\ \A s \in Session : at("seeking", {}, s) \in Calls
        /\ \A o \in {"ending", "ended"}, k \in Key : at(o, {}, k) \in Calls
    BY DEF Calls, Idle
  <1>13. ASSUME NEW c \in Client, NEW s \in Session, FindActive(c, s) PROVE WatchInv'
    <2> DEFINE id == Resolve(aliases, s)
    <2>1. id \in Session
      BY <1>b, ResolveType
    <2>2. \A w \in DOMAIN active : <<w, id>> \in Key
      BY <1>b, <2>1, PartialApplication DEF Key
    <2>3. /\ UNCHANGED <<registered, filters, git, aliases, active, streaming, tidy>>
          /\ call[c].op = "idle"
          /\ \/ \E w \in DOMAIN active : call' = [call EXCEPT ![c] = at("ending", {}, <<w, id>>)]
             \/ call' = [call EXCEPT ![c] = at("seeking", {}, id)]
      BY <1>13 DEF FindActive, GoesOn, At
    <2>4. /\ Partial(active', Workspace, Session) /\ Partial(streams', Key, SUBSET Watcher)
          /\ watched' \in [Watcher -> SUBSET Key] /\ WatchersAgree'
      BY <1>a, <1>b, <2>3 DEF streaming
    <2> HIDE DEF id
    <2> QED
      BY <1>12, <1>c, <2>1, <2>2, <2>3, <2>4
  <1>14. ASSUME NEW c \in Client, FindStream(c) PROVE WatchInv'
    <2>1. /\ UNCHANGED <<registered, filters, git, aliases, active, streaming, tidy>>
          /\ call[c].op = "seeking"
          /\ \/ \E k \in DOMAIN streams : call' = [call EXCEPT ![c] = at("ending", {}, k)]
             \/ call' = [call EXCEPT ![c] = Idle]
      BY <1>14 DEF FindStream, GoesOn, Returns, At
    <2>2. \A k \in DOMAIN streams : k \in Key
      BY <1>b, PartialApplication
    <2>3. /\ Partial(active', Workspace, Session) /\ Partial(streams', Key, SUBSET Watcher)
          /\ watched' \in [Watcher -> SUBSET Key] /\ WatchersAgree'
      BY <1>a, <1>b, <2>1 DEF streaming
    <2> QED
      BY <1>12, <1>c, <2>1, <2>2, <2>3
  <1>15. ASSUME NEW c \in Client, EndStream(c) PROVE WatchInv'
    <2> DEFINE k == call[c].key
    <2>1. call[c].op = "ending" /\ k \in Key
      BY <1>15 DEF EndStream, At, CallsShaped
    <2>2. /\ call' = [call EXCEPT ![c] = at("ended", {}, k)]
          /\ UNCHANGED <<registered, filters, git, aliases, active, tidy>>
          /\ \/ UNCHANGED streaming
             \/ /\ streams' = Without(streams, k)
                /\ watched' = [d \in Watcher |-> watched[d] \ {k}]
      BY <1>15 DEF EndStream, GoesOn
    <2> HIDE DEF k
    <2>3. Partial(streams', Key, SUBSET Watcher) /\ watched' \in [Watcher -> SUBSET Key]
      BY <1>b, <2>2, WithoutPartial DEF streaming
    <2>4. ASSUME streams' = Without(streams, k),
                 watched' = [d \in Watcher |-> watched[d] \ {k}]
          PROVE  WatchersAgree'
      <3>1. /\ DOMAIN (streams') = DOMAIN streams \ {k}
            /\ \A j \in DOMAIN (streams') : streams'[j] = streams[j]
        BY <2>4 DEF Without
      <3>2. \A d \in Watcher : watched'[d] = watched[d] \ {k}
        BY <2>4
      <3> QED
        BY <3>1, <3>2 DEF WatchersAgree, Watcher
    <2>5. WatchersAgree' /\ Partial(active', Workspace, Session)
      BY <1>a, <1>b, <2>2, <2>4
    <2> QED
      BY <1>12, <1>c, <2>1, <2>2, <2>3, <2>5
  <1>16. ASSUME NEW c \in Client, ClearActive(c) PROVE WatchInv'
    <2>1. /\ call' = [call EXCEPT ![c] = Idle] /\ call[c].op = "ended"
          /\ UNCHANGED <<registered, filters, git, aliases, streaming, tidy>>
          /\ \/ active' = active
             \/ \E w : active' = Without(active, w)
      BY <1>16 DEF ClearActive, Returns, At
    <2>2. Partial(active', Workspace, Session)
      BY <1>b, <2>1, WithoutPartial
    <2>3. /\ Partial(streams', Key, SUBSET Watcher)
          /\ watched' \in [Watcher -> SUBSET Key] /\ WatchersAgree'
      BY <1>a, <1>b, <2>1 DEF streaming
    <2> QED
      BY <1>12, <1>c, <2>1, <2>2, <2>3
  \* A connection ends.
  <1>17. ASSUME NEW c \in Client, Disconnect(c) PROVE WatchInv'
    <2> DEFINE r == at(IF filters[c] = {} THEN "gone" ELSE "leaving", filters[c], None)
    <2>1. filters \in [Client -> SUBSET Workspace]
      BY DEF TypeOK
    <2>2. r \in Calls /\ call' = [call EXCEPT ![c] = r]
      BY <1>17, <2>1 DEF Disconnect, GoesOn, Calls
    <2>3. call'[c] = r /\ \A d \in Client \ {c} : call'[d] = call[d]
      BY <2>2, CallType
    <2>4. /\ call[c].op = "idle" /\ call[c].ws = {}
          /\ filters' = [filters EXCEPT ![c] = {}]
          /\ UNCHANGED <<registered, counts, gitWatchers, aliases, active, streaming, tidy>>
      BY <1>17 DEF Disconnect, At, CallsShaped, git
    <2>5. TypeOK'
      BY <2>2, <2>3, <2>4, CallType DEF streaming, TypeOK
    <2>6. CallsShaped' /\ CallsMatchFilters'
      BY <2>1, <2>3, <2>4 DEF CallsShaped, CallsMatchFilters, At
    <2>7. RunningIsCounted'
      BY <2>4 DEF RunningIsCounted
    <2>8. \A v : Holders(v)' = Holders(v)
      BY <2>1, <2>3, <2>4 DEF Holders, At
    <2>9. PairedCallsCount'
      BY <2>4, <2>8 DEF PairedCallsCount
    <2> QED
      BY <1>a, <2>4, <2>5, <2>6, <2>7, <2>9 DEF WatchInv
  <1>18. ASSUME NEW c \in Client, LeaveWorkspace(c) PROVE WatchInv'
    <2>1. PICK w \in call[c].ws :
             DropReference(w) /\ GoesOn(c, "leaving", call[c].ws \ {w}, None)
      BY <1>18 DEF LeaveWorkspace
    <2> DEFINE r == at("leaving", call[c].ws \ {w}, None)
    <2>2. w \in Workspace /\ r \in Calls /\ call' = [call EXCEPT ![c] = r]
      BY <2>1 DEF GoesOn, Calls, TypeOK
    <2>3. call'[c] = r /\ \A d \in Client \ {c} : call'[d] = call[d]
      BY <2>2, CallType
    <2>4. /\ call[c].op = "leaving" /\ filters[c] = {}
          /\ UNCHANGED <<registered, filters, aliases, active, streaming, tidy>>
      BY <1>18 DEF LeaveWorkspace, At, CallsMatchFilters
    <2>5. /\ counts' \in [Workspace -> Nat] /\ gitWatchers' \subseteq Workspace
          /\ RunningIsCounted'
          /\ counts[w] > 0 => counts'[w] = counts[w] - 1
          /\ \A v \in Workspace \ {w} : counts'[v] = counts[v]
      BY <2>1, <2>2, DropKeeps
    <2>6. TypeOK'
      BY <2>2, <2>3, <2>4, <2>5, CallType DEF streaming, TypeOK
    <2>7. CallsShaped' /\ CallsMatchFilters'
      BY <2>3, <2>4 DEF CallsShaped, CallsMatchFilters, At
    <2>8. c \in Holders(w) /\ Holders(w)' = Holders(w) \ {c}
      BY <2>1, <2>3, <2>4 DEF Holders, At
    <2>9. \A v \in Workspace \ {w} : Holders(v)' = Holders(v)
      BY <2>3, <2>4 DEF Holders, At
    <2>10. PairedCallsCount'
      BY <2>2, <2>4, <2>5, <2>8, <2>9, GivenBack
    <2> QED
      BY <1>a, <2>4, <2>5, <2>6, <2>7, <2>10 DEF WatchInv
  <1>19. ASSUME NEW c \in Client, LeaveStreams(c) PROVE WatchInv'
    <2> DEFINE r == at("gone", {}, None)
    <2>1. r \in Calls /\ call' = [call EXCEPT ![c] = r]
      BY <1>19 DEF LeaveStreams, GoesOn, Calls
    <2>2. /\ call[c].op = "leaving" /\ call[c].ws = {} /\ filters[c] = {}
          /\ LeavesStreams(c, watched[c])
          /\ UNCHANGED <<registered, filters, git, aliases, active, tidy>>
      BY <1>19 DEF LeaveStreams, At, CallsMatchFilters
    <2>3. c \in Watcher /\ watched[c] \in SUBSET Key
      BY <1>b DEF Watcher
    <2>4. /\ Partial(streams', Key, SUBSET Watcher)
          /\ watched' \in [Watcher -> SUBSET Key]
          /\ WatchersAgree'
      BY <2>2, <2>3, LeavesKeeps
    <2>5. TypeOK'
      BY <2>1, <2>2, <2>4, CallType DEF git, TypeOK
    <2>6. CallsShaped' /\ CallsMatchFilters' /\ RunningIsCounted' /\ PairedCallsCount'
      BY <2>1, <2>2, CountsMoved
    <2> QED
      BY <2>4, <2>5, <2>6 DEF WatchInv
  \* The rest of the session manager.
  <1>20. ASSUME UNCHANGED <<registered, filters, git, streaming, call, tidy>>,
                Partial(aliases', Session, Session), Partial(active', Workspace, Session)
         PROVE  WatchInv'
    <2>1. TypeOK'
      BY <1>20 DEF git, streaming, TypeOK
    <2>2. CallsShaped' /\ CallsMatchFilters' /\ RunningIsCounted' /\ PairedCallsCount'
      BY <1>20, CountsKept
    <2> QED
      BY <1>20, <1>a, <2>1, <2>2 DEF WatchInv
  <1>21. ASSUME NEW w \in Workspace, NEW s \in Session, NEW r \in Session, Rename(w, s, r)
         PROVE  WatchInv'
    <2>1. Partial(aliases', Session, Session)
      BY <1>21, <1>b, RenamedType DEF Rename
    <2>2. Partial(active', Workspace, Session)
      BY <1>21, <1>b, WithPartial DEF Rename
    <2> QED
      BY <1>20, <1>21, <2>1, <2>2 DEF Rename
  <1>22. ASSUME NEW w \in Workspace, NEW s \in Session, Activate(w, s) PROVE WatchInv'
    <2>1. Partial(active', Workspace, Session)
      BY <1>22, <1>b, WithPartial DEF Activate
    <2> QED
      BY <1>b, <1>20, <1>22, <2>1 DEF Activate
  <1>23. ASSUME NEW c \in Client, NEW w \in Workspace, NEW s \in Session,
                WatchSession(c, w, s)
         PROVE  WatchInv'
    BY <1>9, <1>23 DEF WatchSession, Watcher
  <1>24. ASSUME NEW w \in Workspace, NEW s \in Session, FollowTerminal(w, s)
         PROVE  WatchInv'
    BY <1>9, <1>24 DEF FollowTerminal, Watcher
  <1>25. CASE UNCHANGED vars
    BY <1>20, <1>25, <1>b DEF vars
  <1>26. ASSUME NEW c \in Client, Calling(c) PROVE WatchInv'
    BY <1>2, <1>3, <1>6, <1>8, <1>11, <1>13, <1>17, <1>23, <1>26 DEF Calling
  <1>27. ASSUME NEW c \in Client, Working(c) PROVE WatchInv'
    BY <1>4, <1>5, <1>7, <1>14, <1>15, <1>16, <1>18, <1>19, <1>27 DEF Working
  <1>28. CASE Others
    BY <1>1, <1>21, <1>22, <1>24, <1>28 DEF Others
  <1> QED
    BY <1>25, <1>26, <1>27, <1>28 DEF Next

-----------------------------------------------------------------------------
(* Who ends a streamer *)

\* What StreamsOutliveOthers asks of a step.
OutliveOthers ==
    \A k \in DOMAIN streams :
        \/ \E c \in Client : At(c, "ending") /\ call[c].key = k /\ call'[c] # call[c]
        \/ k \in DOMAIN (streams') /\ Cardinality(streams[k] \ (streams')[k]) <= 1
        \/ k \notin DOMAIN (streams') /\ Cardinality(streams[k]) = 1

\* A step that takes at most one watcher off a streamer, and closes it only
\* when it was the last one, is allowed.
LEMMA OneLeaves ==
    ASSUME TypeOK, WatchersAgree, NEW k \in DOMAIN streams, NEW c,
           \/ k \in DOMAIN (streams') /\ streams[k] \ (streams')[k] \subseteq {c}
           \/ k \notin DOMAIN (streams') /\ streams[k] \subseteq {c}
    PROVE  \/ k \in DOMAIN (streams') /\ Cardinality(streams[k] \ (streams')[k]) <= 1
           \/ k \notin DOMAIN (streams') /\ Cardinality(streams[k]) = 1
  <1>1. IsFiniteSet({c}) /\ Cardinality({c}) = 1
    BY FS_Singleton
  <1>2. CASE k \in DOMAIN (streams') /\ streams[k] \ (streams')[k] \subseteq {c}
    BY <1>1, <1>2, FS_Subset
  <1>3. CASE k \notin DOMAIN (streams') /\ streams[k] \subseteq {c}
    <2>1. streams[k] # {}
      BY DEF WatchersAgree
    <2>2. streams[k] = {c}
      BY <1>3, <2>1
    <2> QED
      BY <1>1, <1>3, <2>2
  <1> QED
    BY <1>2, <1>3

\* No step of one client ends a streamer of another, but a stop of that session.
LEMMA NextOutlive == WatchInv /\ [Next]_vars => OutliveOthers
  <1> SUFFICES ASSUME WatchInv, [Next]_vars PROVE OutliveOthers
    OBVIOUS
  <1>0. TypeOK /\ CallsShaped /\ WatchersAgree
    BY DEF WatchInv
  <1> USE <1>0
  <1>1. ASSUME streams' = streams PROVE OutliveOthers
    <2>1. \A k \in DOMAIN streams : streams[k] \ (streams')[k] \subseteq {None}
      BY <1>1
    <2> QED
      BY <1>1, <2>1, OneLeaves DEF OutliveOthers
  <1>2. ASSUME NEW c \in Watcher, NEW w \in Workspace, NEW s \in Session, Watches(c, w, s)
        PROVE  OutliveOthers
    <2>1. \A k \in DOMAIN streams :
             k \in DOMAIN (streams') /\ streams[k] \ (streams')[k] \subseteq {c}
      BY <1>2 DEF Watches, With
    <2> QED
      BY <2>1, OneLeaves DEF OutliveOthers
  <1>3. ASSUME NEW c \in Watcher, NEW K, LeavesStreams(c, K) PROVE OutliveOthers
    <2>1. ASSUME NEW k \in DOMAIN streams
          PROVE  \/ k \in DOMAIN (streams') /\ streams[k] \ (streams')[k] \subseteq {c}
                 \/ k \notin DOMAIN (streams') /\ streams[k] \subseteq {c}
      BY <1>3 DEF LeavesStreams
    <2> QED
      BY <2>1, OneLeaves DEF OutliveOthers
  <1>4. ASSUME NEW c \in Client, EndStream(c) PROVE OutliveOthers
    <2> DEFINE r == [op |-> "ended", ws |-> {}, key |-> call[c].key]
    <2>1. call[c].op = "ending" /\ call'[c] = r
      BY <1>4 DEF EndStream, GoesOn, At, TypeOK
    <2>2. call'[c] # call[c]
      BY <2>1
    <2>3. \A k \in DOMAIN streams \ {call[c].key} :
             k \in DOMAIN (streams') /\ streams'[k] = streams[k]
      BY <1>4 DEF EndStream, Without, streaming
    <2>4. \A k \in DOMAIN streams \ {call[c].key} :
             \/ k \in DOMAIN (streams') /\ Cardinality(streams[k] \ (streams')[k]) <= 1
             \/ k \notin DOMAIN (streams') /\ Cardinality(streams[k]) = 1
      <3>1. \A k \in DOMAIN streams \ {call[c].key} :
               k \in DOMAIN (streams') /\ streams[k] \ (streams')[k] \subseteq {None}
        BY <2>3
      <3> QED
        BY <3>1, OneLeaves
    <2> QED
      BY <2>1, <2>2, <2>4 DEF OutliveOthers, At
  <1>5. ASSUME NEW c \in Client, Calling(c) PROVE OutliveOthers
    <2>1. \/ streams' = streams
          \/ \E w \in Workspace, s \in Session : Watches(c, w, s)
          \/ \E K : LeavesStreams(c, K)
      BY <1>5
      DEF Calling, Connect, Subscribe, Unsubscribe, SubscribeAll, WatchSession,
          UnwatchSession, UnwatchAny, FindActive, Disconnect, streaming
    <2> QED
      BY <1>1, <1>2, <1>3, <2>1 DEF Watcher
  <1>6. ASSUME NEW c \in Client, Working(c) PROVE OutliveOthers
    <2>1. streams' = streams \/ LeavesStreams(c, watched[c]) \/ EndStream(c)
      BY <1>6
      DEF Working, StartGitWatcher, StartFails, StopGitWatcher, FindStream,
          ClearActive, LeaveWorkspace, LeaveStreams, streaming
    <2> QED
      BY <1>1, <1>3, <1>4, <2>1 DEF Watcher
  <1>7. CASE Others
    <2>1. \/ streams' = streams
          \/ \E w \in Workspace, s \in Session : Watches(Daemon, w, s)
      BY <1>7
      DEF Others, Register, Unregister, FollowTerminal, Activate, Rename, streaming
    <2> QED
      BY <1>1, <1>2, <2>1 DEF Watcher
  <1>8. CASE UNCHANGED vars
    BY <1>1, <1>8 DEF vars, streaming
  <1> QED
    BY <1>5, <1>6, <1>7, <1>8 DEF Next

-----------------------------------------------------------------------------
(* The theorems *)

\* However the calls and disconnects of the clients interleave, the books of
\* filters, counts, git watchers and streamers keep the invariant.
THEOREM Invariance == Spec => []WatchInv
  BY InitInv, NextInv, PTL DEF Spec

\* Every variable keeps its type.
THEOREM TypeCorrect == Spec => []TypeOK
  <1>1. WatchInv => TypeOK
    BY DEF WatchInv
  <1> QED
    BY <1>1, Invariance, PTL

\* A git watcher runs exactly for the workspaces with references.
THEOREM AlwaysRunningIsCounted == Spec => []RunningIsCounted
  <1>1. WatchInv => RunningIsCounted
    BY DEF WatchInv
  <1> QED
    BY <1>1, Invariance, PTL

\* Where calls are paired, StartGitWatcher and StopGitWatcher count the
\* subscribers of the workspace, however many there are.
THEOREM AlwaysPairedCallsCount == Spec => []PairedCallsCount
  <1>1. WatchInv => PairedCallsCount
    BY DEF WatchInv
  <1> QED
    BY <1>1, Invariance, PTL

\* A streamer has watchers, and streamers and clients agree on who watches what.
THEOREM WatchersAlwaysAgree == Spec => []WatchersAgree
  <1>1. WatchInv => WatchersAgree
    BY DEF WatchInv
  <1> QED
    BY <1>1, Invariance, PTL

\* No step of one client takes a streamer away from another, unless it is one
\* that stops that very session.
THEOREM StreamsAlwaysOutlive == Spec => StreamsOutliveOthers
  <1>1. WatchInv /\ [Next]_vars => [OutliveOthers]_vars
    BY NextOutlive
  <1>2. Spec => [][OutliveOthers]_vars
    BY <1>1, Invariance, PTL DEF Spec
  <1> QED
    BY <1>2 DEF StreamsOutliveOthers, OutliveOthers
=============================================================================
