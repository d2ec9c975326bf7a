---------------------------- MODULE WorkspaceWatch ----------------------------
(***************************************************************************)
(* What the daemon watches on behalf of its clients: the git watchers of   *)
(* the workspaces they subscribe to, counted by reference, and the session *)
(* streamers they share, which know their watchers.  From                  *)
(* internal/rpc/handler/methods/subscription.go, removeClient of           *)
(* internal/server/unified/server.go and internal/session/manager.go.      *)
(*                                                                         *)
(* A client's calls are handled one after another by its read pump, which  *)
(* also removes the client when the connection has ended; the calls of     *)
(* different clients interleave between the sections that gitWatchersMu,   *)
(* streamerMu and mu protect.  Git is enabled.                             *)
(*                                                                         *)
(* Left out: the focus of a client (sessionFocus and the filter's copy),   *)
(* the events that are published, what a streamer and a git watcher do     *)
(* while they run, and calls that fail before they change anything.        *)
(***************************************************************************)
EXTENDS Integers, FiniteSets, SessionAliases

CONSTANTS
    Client,
    Daemon,     \* "internal:pty-session", which never disconnects
    Workspace,
    Session,
    MaxCount,   \* bound: references to a workspace's git watcher
    None

ASSUME NamesAssumption == Daemon \notin Client /\ None \notin Workspace \cup Session

ASSUME ClientAssumption == IsFiniteSet(Client)

ASSUME MaxCountAssumption == MaxCount \in Nat

VARIABLES
    registered,   \* Manager.workspaces
    filters,      \* the FilteredSubscriber.workspaces of a connected client
    counts,       \* Manager.gitWatcherCounts
    gitWatchers,  \* Manager.gitWatchers
    aliases,      \* Manager.sessionAliases
    active,       \* Manager.activeSessions
    streams,      \* Manager.streamerSessions: the watchers of each streamer
    watched,      \* Manager.streamerClientSessions
    call,         \* where a client's read pump is
    tidy          \* history: the workspaces with paired and successful calls

git == <<counts, gitWatchers>>
streaming == <<streams, watched>>
vars == <<registered, filters, git, aliases, active, streaming, call, tidy>>

Watcher == Client \cup {Daemon}
Key == Workspace \X Session      \* watchedSessionKey

Calls ==
    [op : {"none", "idle", "starting", "stopping", "seeking", "ending", "ended",
           "leaving", "gone"},
     ws : SUBSET Workspace,
     key : Session \cup Key \cup {None}]

Idle == [op |-> "idle", ws |-> {}, key |-> None]

TypeOK ==
    /\ registered \subseteq Workspace
    /\ filters \in [Client -> SUBSET Workspace]
    /\ counts \in [Workspace -> Nat]
    /\ gitWatchers \subseteq Workspace
    /\ Partial(aliases, Session, Session)
    /\ Partial(active, Workspace, Session)
    /\ Partial(streams, Key, SUBSET Watcher)
    /\ watched \in [Watcher -> SUBSET Key]
    /\ call \in [Client -> Calls]
    /\ tidy \subseteq Workspace

Init ==
    /\ registered = Workspace
    /\ filters = [c \in Client |-> {}]
    /\ counts = [w \in Workspace |-> 0]
    /\ gitWatchers = {}
    /\ aliases = EmptyFunction
    /\ active = EmptyFunction
    /\ streams = EmptyFunction
    /\ watched = [c \in Watcher |-> {}]
    /\ call = [c \in Client |-> [Idle EXCEPT !.op = "none"]]
    /\ tidy = Workspace

\* The read pump of c is at op.
At(c, op) == call[c].op = op

\* It goes on to op, about some workspaces or a key.
GoesOn(c, op, W, k) == call' = [call EXCEPT ![c] = [op |-> op, ws |-> W, key |-> k]]

\* Its call returns.
Returns(c) == call' = [call EXCEPT ![c] = Idle]

-----------------------------------------------------------------------------
(* Workspaces and clients come and go *)

Register(w) ==
    /\ w \notin registered
    /\ registered' = registered \cup {w}
    /\ UNCHANGED <<filters, git, aliases, active, streaming, call, tidy>>

\* Without a running session.  The git watcher is not stopped.
Unregister(w) ==
    /\ w \in registered
    /\ registered' = registered \ {w}
    /\ UNCHANGED <<filters, git, aliases, active, streaming, call, tidy>>

Connect(c) ==
    /\ At(c, "none")
    /\ Returns(c)
    /\ UNCHANGED <<registered, filters, git, aliases, active, streaming, tidy>>

-----------------------------------------------------------------------------
(* Git watchers *)

\* The references w has and may get from calls under way.
References(w) == counts[w] + Cardinality({c \in Client : At(c, "starting") /\ w \in call[c].ws})

\* workspace/subscribe: the filter, and then StartGitWatcher.
Subscribe(c, w) ==
    /\ At(c, "idle")
    /\ References(w) < MaxCount
    /\ filters' = [filters EXCEPT ![c] = @ \cup {w}]
    /\ GoesOn(c, "starting", {w}, None)
    /\ tidy' = IF w \in filters[c] THEN tidy \ {w} ELSE tidy
    /\ UNCHANGED <<registered, git, aliases, active, streaming>>

\* StartGitWatcher when a watcher runs, or when it can start one.
StartGitWatcher(c) ==
    /\ At(c, "starting")
    /\ \E w \in call[c].ws :
        /\ w \in gitWatchers \cup registered
        /\ counts' = [counts EXCEPT ![w] = @ + 1]
        /\ gitWatchers' = gitWatchers \cup {w}
    /\ Returns(c)
    /\ UNCHANGED <<registered, filters, aliases, active, streaming, tidy>>

\* It cannot: no such workspace, or no repository.  The count is taken back,
\* and Subscribe ignores the error.
StartFails(c) ==
    /\ At(c, "starting")
    /\ call[c].ws \cap gitWatchers = {}
    /\ Returns(c)
    /\ tidy' = tidy \ call[c].ws
    /\ UNCHANGED <<registered, filters, git, aliases, active, streaming>>

\* StopGitWatcher
DropReference(w) ==
    IF counts[w] > 1
    THEN /\ counts' = [counts EXCEPT ![w] = @ - 1]
         /\ UNCHANGED gitWatchers
    ELSE /\ counts' = [counts EXCEPT ![w] = 0]
         /\ gitWatchers' = gitWatchers \ {w}

\* workspace/unsubscribe: the filter, and then StopGitWatcher.
Unsubscribe(c, w) ==
    /\ At(c, "idle")
    /\ filters' = [filters EXCEPT ![c] = @ \ {w}]
    /\ GoesOn(c, "stopping", {w}, None)
    /\ tidy' = IF w \in filters[c] THEN tidy ELSE tidy \ {w}
    /\ UNCHANGED <<registered, git, aliases, active, streaming>>

StopGitWatcher(c) ==
    /\ At(c, "stopping")
    /\ \E w \in call[c].ws : DropReference(w)
    /\ Returns(c)
    /\ UNCHANGED <<registered, filters, aliases, active, streaming, tidy>>

\* workspace/subscribeAll.  The references stay.
SubscribeAll(c) ==
    /\ At(c, "idle")
    /\ filters[c] # {}
    /\ filters' = [filters EXCEPT ![c] = {}]
    /\ tidy' = tidy \ filters[c]
    /\ UNCHANGED <<registered, git, aliases, active, streaming, call>>

-----------------------------------------------------------------------------
(* Session streamers *)

\* Mutant of Watches: a client that joins a streamer is not entered for it.
WatchesOneSided(c, w, s) ==
    LET k == <<w, Resolve(aliases, s)>>
    IN  IF k \in DOMAIN streams
        THEN /\ streams' = With(streams, k, streams[k] \cup {c})
             /\ UNCHANGED <<watched, active>>
        ELSE /\ streams' = With(streams, k, {c})
             /\ watched' = [watched EXCEPT ![c] = @ \cup {k}]
             /\ active' = With(active, w, k[2])

\* WatchWorkspaceSession, where the session's file exists.  A new streamer
\* makes its session the active one.
Watches(c, w, s) ==
    LET k == <<w, Resolve(aliases, s)>>
    IN  /\ watched' = [watched EXCEPT ![c] = @ \cup {k}]
        /\ IF k \in DOMAIN streams
           THEN /\ streams' = With(streams, k, streams[k] \cup {c})
                /\ UNCHANGED active
           ELSE /\ streams' = With(streams, k, {c})
                /\ active' = With(active, w, k[2])

\* workspace/session/watch
WatchSession(c, w, s) ==
    /\ At(c, "idle")
    /\ Watches(c, w, s)
    /\ UNCHANGED <<registered, filters, git, aliases, call, tidy>>

\* The daemon follows the sessions it runs in a terminal.
FollowTerminal(w, s) ==
    /\ Watches(Daemon, w, s)
    /\ UNCHANGED <<registered, filters, git, aliases, call, tidy>>

\* Mutant of LeavesStreams: the streamer is closed for all of its watchers.
ClosesStreams(c, K) ==
    /\ streams' = [k \in DOMAIN streams \ K |-> streams[k]]
    /\ watched' = [d \in Watcher |-> watched[d] \ K]

\* c stops watching the keys in K: a streamer without watchers is closed.
LeavesStreams(c, K) ==
    /\ streams' = [k \in {k \in DOMAIN streams : k \in K => streams[k] \ {c} # {}} |->
                      IF k \in K THEN streams[k] \ {c} ELSE streams[k]]
    /\ watched' = [watched EXCEPT ![c] = @ \ K]

\* workspace/session/unwatch of a session that c watches.  The client may
\* name it by an ID it had earlier.
UnwatchSession(c, s) ==
    /\ At(c, "idle")
    /\ \E k \in watched[c] :
        /\ k[2] = Resolve(aliases, s)
        /\ LeavesStreams(c, {k})
    /\ UNCHANGED <<registered, filters, git, aliases, active, call, tidy>>

\* Without an ID, any one of them.
UnwatchAny(c) ==
    /\ At(c, "idle")
    /\ \E k \in watched[c] : LeavesStreams(c, {k})
    /\ UNCHANGED <<registered, filters, git, aliases, active, call, tidy>>

-----------------------------------------------------------------------------
(* session/stop of a session that the daemon does not run *)

\* StopSession looks for a workspace that has the session active.
FindActive(c, s) ==
    /\ At(c, "idle")
    /\ LET id == Resolve(aliases, s)
           W == {w \in DOMAIN active : active[w] = id}
       IN  \/ \E w \in W : GoesOn(c, "ending", {}, <<w, id>>)
           \/ W = {} /\ GoesOn(c, "seeking", {}, id)
    /\ UNCHANGED <<registered, filters, git, aliases, active, streaming, tidy>>

\* Failing that, for one where the session is streamed; else it is an error.
FindStream(c) ==
    /\ At(c, "seeking")
    /\ LET K == {k \in DOMAIN streams : k[2] = call[c].key}
       IN  \/ \E k \in K : GoesOn(c, "ending", {}, k)
           \/ K = {} /\ Returns(c)
    /\ UNCHANGED <<registered, filters, git, aliases, active, streaming, tidy>>

\* stopWatchingLiveSession: the streamer, for all its watchers ...
EndStream(c) ==
    /\ At(c, "ending")
    /\ LET k == call[c].key
       IN  /\ IF k \in DOMAIN streams
              THEN /\ streams' = Without(streams, k)
                   /\ watched' = [d \in Watcher |-> watched[d] \ {k}]
              ELSE UNCHANGED streaming
           /\ GoesOn(c, "ended", {}, k)
    /\ UNCHANGED <<registered, filters, git, aliases, active, tidy>>

\* ... and then the mark that the session is active.
ClearActive(c) ==
    /\ At(c, "ended")
    /\ LET w == call[c].key[1]
       IN  active' = IF w \in DOMAIN active /\ active[w] = call[c].key[2]
                     THEN Without(active, w) ELSE active
    /\ Returns(c)
    /\ UNCHANGED <<registered, filters, git, aliases, streaming, tidy>>

-----------------------------------------------------------------------------
(* A connection ends *)

\* removeClient: the filter's workspaces are read and the filter is deleted.
\* The disconnect handler is called only for a client that had subscribed.
Disconnect(c) ==
    /\ At(c, "idle")
    /\ filters' = [filters EXCEPT ![c] = {}]
    /\ GoesOn(c, IF filters[c] = {} THEN "gone" ELSE "leaving", filters[c], None)
    /\ UNCHANGED <<registered, git, aliases, active, streaming, tidy>>

\* OnClientDisconnect: StopGitWatcher for each workspace, in any order.
LeaveWorkspace(c) ==
    /\ At(c, "leaving")
    /\ \E w \in call[c].ws :
        /\ DropReference(w)
        /\ GoesOn(c, "leaving", call[c].ws \ {w}, None)
    /\ UNCHANGED <<registered, filters, aliases, active, streaming, tidy>>

\* Mutant of LeaveStreams: only the session the client has active is left.
LeaveOneStream(c) ==
    /\ At(c, "leaving")
    /\ call[c].ws = {}
    /\ IF watched[c] = {} THEN UNCHANGED streaming
       ELSE \E k \in watched[c] : LeavesStreams(c, {k})
    /\ GoesOn(c, "gone", {}, None)
    /\ UNCHANGED <<registered, filters, git, aliases, active, tidy>>

\* Then the streamers, in one section of streamerMu.
LeaveStreams(c) ==
    /\ At(c, "leaving")
    /\ call[c].ws = {}
    /\ LeavesStreams(c, watched[c])
    /\ GoesOn(c, "gone", {}, None)
    /\ UNCHANGED <<registered, filters, git, aliases, active, tidy>>

-----------------------------------------------------------------------------
(* The rest of the session manager *)

\* A session of w is given another ID (updateSessionID, see SessionRegistry).
Rename(w, s, r) ==
    /\ s # r
    /\ {s, r} \cap DOMAIN aliases = {}
    /\ aliases' = Renamed(aliases, s, s, r)
    /\ active' = IF w \in DOMAIN active /\ active[w] = s THEN With(active, w, r) ELSE active
    /\ UNCHANGED <<registered, filters, git, streaming, call, tidy>>

\* ActivateSession, of a session whose ID the caller knows.
Activate(w, s) ==
    /\ w \in registered
    /\ active' = With(active, w, s)
    /\ UNCHANGED <<registered, filters, git, aliases, streaming, call, tidy>>

-----------------------------------------------------------------------------
Calling(c) ==
    \/ Connect(c)
    \/ \E w \in Workspace : Subscribe(c, w) \/ Unsubscribe(c, w)
    \/ SubscribeAll(c)
    \/ \E w \in Workspace, s \in Session : WatchSession(c, w, s)
    \/ \E s \in Session : UnwatchSession(c, s) \/ FindActive(c, s)
    \/ UnwatchAny(c)
    \/ Disconnect(c)

\* What a call does after its first section.
Working(c) ==
    \/ StartGitWatcher(c) \/ StartFails(c) \/ StopGitWatcher(c)
    \/ FindStream(c) \/ EndStream(c) \/ ClearActive(c)
    \/ LeaveWorkspace(c) \/ LeaveStreams(c)

Others ==
    \/ \E w \in Workspace : Register(w) \/ Unregister(w)
    \/ \E w \in Workspace, s \in Session :
          \/ FollowTerminal(w, s) \/ Activate(w, s)
          \/ \E r \in Session : Rename(w, s, r)

Next ==
    \/ \E c \in Client : Calling(c) \/ Working(c)
    \/ Others

\* A goroutine that handles a call gets to run; nobody has to make one.
Fairness == \A c \in Client : WF_vars(Working(c))

Spec == Init /\ [][Next]_vars /\ Fairness

-----------------------------------------------------------------------------
(* Properties *)

\* StartGitWatcher counts before it knows whether there will be a watcher and
\* takes the count back when there is none; StopGitWatcher forgets the count
\* with the watcher.  Whoever calls how often, a git watcher runs exactly for
\* the workspaces with references, so that none is left without a way to stop.
RunningIsCounted == \A w \in Workspace : w \in gitWatchers <=> counts[w] > 0

\* Whose reference the count of w includes: a client that is subscribed to it,
\* or whose call or disconnect handler has still to give the reference back.
Holders(w) ==
    {c \in Client :
        \/ w \in filters[c] /\ ~(At(c, "starting") /\ w \in call[c].ws)
        \/ (At(c, "stopping") \/ At(c, "leaving")) /\ w \in call[c].ws}

\* The filters and the counts are kept by different packages under different
\* locks.  Where clients subscribe only to what they are not subscribed to,
\* unsubscribe only from what they are, do not drop subscriptions through
\* subscribeAll, and a watcher could be started, they agree: the count is the
\* number of subscribers, through all interleavings of calls and disconnects.
PairedCallsCount == \A w \in tidy : counts[w] = Cardinality(Holders(w))

\* A streamer knows its watchers and a client the streamers it watches; four
\* functions keep the two up to date.  They agree, and a streamer always has
\* a watcher: otherwise no unwatch and no disconnect would ever close it.
WatchersAgree ==
    /\ \A c \in Watcher :
          watched[c] = {k \in DOMAIN streams : c \in streams[k]}
    /\ \A k \in DOMAIN streams : streams[k] # {}

\* "The streamer continues running until all clients have stopped watching"
\* (UnwatchWorkspaceSession).  No step of one client takes a streamer away
\* from another, unless it is one that stops that very session.
StreamsOutliveOthers ==
    [][\A k \in DOMAIN streams :
          \/ \E c \in Client : At(c, "ending") /\ call[c].key = k /\ call'[c] # call[c]
          \/ k \in DOMAIN (streams') /\ Cardinality(streams[k] \ (streams')[k]) <= 1
          \/ k \notin DOMAIN (streams') /\ Cardinality(streams[k]) = 1]_vars

\* When the connection of a client that had subscribed has ended, its cleanup
\* runs to the end, beside everybody else's calls, and it watches nothing.
LeaversLeaveNothing ==
    \A c \in Client : At(c, "leaving") ~> (At(c, "gone") /\ watched[c] = {})

\* "Call disconnect handler for cleanup (git watchers, session streamers,
\* etc.)" (removeClient), which "decrements git watcher counts and session
\* streamer counts for the disconnected client" (OnClientDisconnect): a
\* client that is gone keeps no streamer running.
GoneWatchNothing == \A c \in Client : At(c, "gone") => watched[c] = {}
=============================================================================
