---------------------------- MODULE SessionRegistry ----------------------------
(***************************************************************************)
(* The registry of Claude sessions: internal/session/manager.go with the   *)
(* session starters of the RPC and agent layers.                           *)
(*                                                                         *)
(* The daemon names a session with an ID of its own until Claude has       *)
(* written the transcript <uuid>.jsonl into the project directory; a       *)
(* watcher goroutine then sees the file and renames the session.  Clients  *)
(* go on using whichever ID they know.                                     *)
(*                                                                         *)
(* A Session is one Session object; the ID uuid.New() makes for it is      *)
(* represented by the object itself.  A Transcript is a UUID that Claude   *)
(* chose for a file.  A Call is a goroutine that serves SendPrompt or      *)
(* StopSession.  Whatever happens while Manager.mu (or the watchers' own   *)
(* mutex) is held is one step; the statuses "starting" and "stopping" do   *)
(* not outlive such a step.  Between steps anything may interleave.        *)
(*                                                                         *)
(* Left out: sessionProjectPaths and activeSessionWorkspaces, which say    *)
(* where a transcript is looked for (here: anywhere it may be); streamers; *)
(* the file and git watchers a session owns, which live and die with it.   *)
(* Stopping a claude.Manager asks its process to end: see ClaudeExits.     *)
(***************************************************************************)
EXTENDS SessionAliases, FiniteSets

CONSTANTS
    Session,      \* session objects; the bound on how many are started
    Transcript,   \* UUIDs of Claude's files; the bound on how many appear
    Workspace,
    Dir,          \* project directories: workspaces and their worktrees
    Home,         \* Home[w]: the path of workspace w
    Paths,        \* Paths[w]: the directories that belong to w
    Call,         \* concurrent SendPrompt and StopSession calls
    None

ASSUME PlaceAssumption ==
    /\ Paths \in [Workspace -> SUBSET Dir]
    /\ Home \in [Workspace -> Dir]
    /\ \A w \in Workspace : Home[w] \in Paths[w]

ASSUME DisjointIDs == Session \cap Transcript = {}

ASSUME NoneAssumption ==
    None \notin Session \cup Transcript \cup Workspace \cup Dir

ID == Session \cup Transcript

VARIABLES
    phase,       \* of the daemon: "up", "closing", "down", or "stuck" when
                 \* Stop gave up on Manager.mu and left it locked
    registered,  \* Manager.workspaces
    sessions,    \* Manager.sessions: ID -> Session
    aliases,     \* Manager.sessionAliases
    active,      \* Manager.activeSessions: workspace -> ID
    entries,     \* Manager.sessionFileWatchers: ID -> the Session watched for
    ident,       \* Session.ID
    owner,       \* Session.WorkspaceID
    status,      \* Session.Status, "unborn" before it is made
    born,        \* the ID the session was made with (the temporary ID)
    origin,      \* the workspace it was started in
    dir,         \* Session.ProjectPath
    hooked,      \* sessions with an onPTYComplete callback
    claude,      \* the process of the session's claude.Manager
    launching,   \* sessions with a goroutine about to call StartWithPTY
    watcher,     \* where the session's WatchForNewSessionFile goroutine is
    saw,         \* the file creation that waits in its fsnotify queue
    cancelled,   \* sessions whose watcher's context is cancelled
    files,       \* files[d]: the transcripts in directory d
    told,        \* history: sessions whose session_id_resolved was published
    tangled,     \* history: aliases have led in a circle
    call         \* the SendPrompt and StopSession goroutines

maps == <<sessions, aliases, active>>
objects == <<ident, owner, status, born, origin, dir, hooked>>
process == <<claude, launching>>
watch == <<watcher, saw, cancelled, entries>>
vars == <<phase, registered, maps, objects, process, watch, files, told, tangled, call>>

WatcherState == {"none", "called", "entered", "toParent", "toDir", "parent",
                 "deaf", "listening", "renamed", "leaving", "gone"}

\* Watchers that are in their select loop.
InLoop == {"parent", "deaf", "listening"}

\* Watchers that still have to leave the map.
AtWork == InLoop \cup {"entered", "toParent", "toDir", "renamed", "leaving"}

CallState == {"idle", "start", "check", "launch", "follow", "unwatch"}

Mode == {"pty", "print"}

CallRecord == [pc : CallState, id : ID \cup {None},
               ws : Workspace \cup {None}, who : Session \cup {None},
               mode : Mode]

Idle == [pc |-> "idle", id |-> None, ws |-> None, who |-> None, mode |-> "print"]

TypeOK ==
    /\ phase \in {"up", "closing", "down", "stuck"}
    /\ registered \subseteq Workspace
    /\ Partial(sessions, ID, Session)
    /\ Partial(aliases, ID, ID)
    /\ Partial(active, Workspace, ID)
    /\ Partial(entries, ID, Session)
    /\ ident \in [Session -> ID \cup {None}]
    /\ owner \in [Session -> Workspace \cup {None}]
    /\ status \in [Session -> {"unborn", "running", "stopped"}]
    /\ born \in [Session -> ID \cup {None}]
    /\ origin \in [Session -> Workspace \cup {None}]
    /\ dir \in [Session -> Dir \cup {None}]
    /\ hooked \subseteq Session
    /\ claude \in [Session -> Mode \cup {"none"}]
    /\ launching \subseteq Session
    /\ watcher \in [Session -> WatcherState]
    /\ saw \in [Session -> Transcript \cup {None}]
    /\ cancelled \subseteq Session
    /\ files \in [Dir -> SUBSET Transcript]
    /\ told \subseteq Session /\ tangled \in BOOLEAN
    /\ call \in [Call -> CallRecord]

-----------------------------------------------------------------------------
Init ==
    /\ phase = "up"
    /\ registered = Workspace
    /\ sessions = EmptyFunction
    /\ aliases = EmptyFunction
    /\ active = EmptyFunction
    /\ entries = EmptyFunction
    /\ ident = [s \in Session |-> None]
    /\ owner = [s \in Session |-> None]
    /\ status = [s \in Session |-> "unborn"]
    /\ born = [s \in Session |-> None]
    /\ origin = [s \in Session |-> None]
    /\ dir = [s \in Session |-> None]
    /\ hooked = {}
    /\ claude = [s \in Session |-> "none"]
    /\ launching = {}
    /\ watcher = [s \in Session |-> "none"]
    /\ saw = [s \in Session |-> None]
    /\ cancelled = {}
    /\ files = [d \in Dir |-> {}]
    /\ told = {} /\ tangled = FALSE
    /\ call = [c \in Call |-> Idle]

Unlocked == phase # "stuck"
Filed == {sessions[id] : id \in DOMAIN sessions}
Running(s) == status[s] = "running"
Existing == UNION {files[d] : d \in Dir}

\* The IDs clients have been given.
Known == Existing \cup {born[s] : s \in {t \in Session : status[t] # "unborn"}}

-----------------------------------------------------------------------------
(* Workspaces *)

RegisterWorkspace(w) ==
    /\ Unlocked
    /\ registered' = registered \cup {w}
    /\ UNCHANGED <<phase, maps, objects, process, watch, files, told, tangled, call>>

UnregisterWorkspace(w) ==
    /\ Unlocked
    /\ \A s \in Filed : Running(s) => owner[s] # w
    /\ registered' = registered \ {w}
    /\ UNCHANGED <<phase, maps, objects, process, watch, files, told, tangled, call>>

\* session/activate: any ID is accepted.
ActivateSession(w, id) ==
    /\ Unlocked
    /\ w \in registered
    /\ id \in Known
    /\ active' = With(active, w, id)
    /\ UNCHANGED <<phase, registered, sessions, aliases, objects, process, watch,
                   files, told, tangled, call>>

-----------------------------------------------------------------------------
(* Starting sessions *)

\* A new Session object s, filed under id and made the active one.
Install(s, id, w, d) ==
    /\ status[s] = "unborn"
    /\ status' = [status EXCEPT ![s] = "running"]
    /\ ident' = [ident EXCEPT ![s] = id]
    /\ born' = [born EXCEPT ![s] = id]
    /\ owner' = [owner EXCEPT ![s] = w]
    /\ origin' = [origin EXCEPT ![s] = w]
    /\ dir' = [dir EXCEPT ![s] = d]
    /\ sessions' = With(sessions, id, s)
    /\ active' = With(active, w, id)

\* The most recent transcript of the workspace, whichever that is; a new ID
\* when the session cache lists none (or cannot be read).
SessionIDs(s, w) == files[Home[w]] \cup {s}

\* session/start and session/send without an ID: the handler leaves behind
\* the goroutines that watch for the transcript and that start Claude.
StartFromClient(s, w) ==
    /\ Unlocked
    /\ w \in registered
    /\ \E id \in SessionIDs(s, w) : Install(s, id, w, Home[w])
    /\ hooked' = hooked \cup {s}
    /\ watcher' = [watcher EXCEPT ![s] = "called"]
    /\ launching' = launching \cup {s}
    /\ UNCHANGED <<phase, registered, aliases, claude,
                   saw, cancelled, entries, files, told, tangled, call>>

\* The agent's StartSessionWithPrompt, in a worktree; its prompt and its
\* StopSession calls are Calls like any other.
StartForAgent(s, w, d) ==
    /\ Unlocked
    /\ w \in registered
    /\ d \in Paths[w]
    /\ Install(s, s, w, d)
    /\ watcher' = [watcher EXCEPT ![s] = "called"]
    /\ UNCHANGED <<phase, registered, aliases, hooked, process, saw,
                   cancelled, entries, files, told, tangled, call>>

-----------------------------------------------------------------------------
(* Claude's processes *)

\* The goroutine that calls StartWithPTY: an error when a process runs
\* already, and when it cannot be started.
LaunchClaude(s) ==
    /\ s \in launching
    /\ launching' = launching \ {s}
    /\ \E m \in {claude[s]} \cup (IF claude[s] = "none" THEN {"pty"} ELSE {}) :
          claude' = [claude EXCEPT ![s] = m]
    /\ UNCHANGED <<phase, registered, maps, objects, watch,
                   files, told, tangled, call>>

\* Mutant of TranscriptAppears: every watcher hears of every directory.
TranscriptAppearsEverywhere(r, d) ==
    /\ r \notin Existing
    /\ files' = [files EXCEPT ![d] = @ \cup {r}]
    /\ saw' = [s \in Session |->
                 IF watcher[s] = "listening" /\ saw[s] = None THEN r ELSE saw[s]]
    /\ UNCHANGED <<phase, registered, maps, objects, process, watcher, cancelled,
                   entries, told, tangled, call>>

\* A Claude, the daemon's or one in a terminal, creates a transcript.
TranscriptAppears(r, d) ==
    /\ r \notin Existing
    /\ files' = [files EXCEPT ![d] = @ \cup {r}]
    /\ saw' = [s \in Session |->
                 IF watcher[s] = "listening" /\ dir[s] = d /\ saw[s] = None
                 THEN r ELSE saw[s]]
    /\ UNCHANGED <<phase, registered, maps, objects, process, watcher, cancelled,
                   entries, told, tangled, call>>

\* The process ends, by itself or told to.  Its onPTYComplete looks for the
\* watch (HasActiveSessionFileWatcher), looks again and gives it up; the
\* session_id_failed that follows is not recorded (FailSessionIDResolution).
ClaudeExits(s) ==
    LET t == born[s]
        fails == /\ claude[s] = "pty" /\ s \in hooked
                 /\ t \in DOMAIN entries /\ origin[entries[t]] = origin[s]
    IN
    /\ claude[s] # "none"
    /\ claude' = [claude EXCEPT ![s] = "none"]
    /\ entries' = IF fails THEN Without(entries, t) ELSE entries
    /\ cancelled' = IF fails THEN cancelled \cup {entries[t]} ELSE cancelled
    /\ UNCHANGED <<phase, registered, maps, objects, launching, watcher, saw, files,
                   told, tangled, call>>

-----------------------------------------------------------------------------
(* Renaming *)

\* The registry when nobody holds the ID real: the session of temp takes it.
Rename(w, temp, old, real) ==
    LET s == sessions[old]
    IN
    /\ active' = IF w \in DOMAIN active /\ active[w] \in {old, temp}
                 THEN With(active, w, real) ELSE active
    /\ ident' = [ident EXCEPT ![s] = real]
    /\ sessions' = With(Without(Without(sessions, temp), old), real, s)
    /\ aliases' = Renamed(aliases, temp, old, real)

\* updateSessionID
UpdateSessionID(w, temp, real) ==
    LET old == Resolve(aliases, temp)
        taken == real \in DOMAIN sessions
    IN
    /\ \/ /\ old = real
          /\ aliases' = With(aliases, temp, real)
          /\ UNCHANGED <<sessions, active, ident>>
       \/ /\ old # real /\ taken
          /\ aliases' = Redirected(aliases, temp, old, real)
          /\ UNCHANGED <<sessions, active, ident>>
       \/ /\ old # real /\ ~taken /\ old \in DOMAIN sessions
          /\ Rename(w, temp, old, real)
       \/ /\ old # real /\ ~taken /\ old \notin DOMAIN sessions
          /\ UNCHANGED <<maps, ident>>
    /\ tangled' = (tangled \/ ~Acyclic(aliases'))

-----------------------------------------------------------------------------
(* WatchForNewSessionFile, the goroutine that watches for session s *)

Moves(s, to) == watcher' = [watcher EXCEPT ![s] = to]

\* One watcher per temporary ID; without fsnotify there is none.
WatchBegins(s) ==
    /\ watcher[s] = "called"
    /\ \/ /\ born[s] \in DOMAIN entries
          /\ Moves(s, "gone")
          /\ UNCHANGED entries
       \/ /\ born[s] \notin DOMAIN entries
          /\ Moves(s, "entered")
          /\ entries' = With(entries, born[s], s)
    /\ UNCHANGED <<phase, registered, maps, objects, process, saw, cancelled,
                   files, told, tangled, call>>

\* os.Stat: the sessions directory exists once it has had a file.
WatchLooks(s) ==
    /\ watcher[s] = "entered"
    /\ \E to \in {IF files[dir[s]] = {} THEN "toParent" ELSE "toDir", "leaving"} :
          Moves(s, to)
    /\ UNCHANGED <<phase, registered, maps, objects, process, saw, cancelled,
                   entries, files, told, tangled, call>>

\* watcher.Add: what was created before it is not reported.
WatchAttaches(s) ==
    /\ \/ /\ watcher[s] = "toParent"
          /\ \E to \in {IF files[dir[s]] = {} THEN "parent" ELSE "deaf", "leaving"} :
                Moves(s, to)
       \/ /\ watcher[s] = "toDir"
          /\ \E to \in {"listening", "leaving"} : Moves(s, to)
    /\ UNCHANGED <<phase, registered, maps, objects, process, saw, cancelled,
                   entries, files, told, tangled, call>>

\* Mutant of WatchScans: nothing is announced when the real ID is taken.
WatchScansQuietly(s) ==
    /\ watcher[s] = "parent"
    /\ Unlocked
    /\ \E r \in files[dir[s]] :
          /\ r # born[s]
          /\ saw' = [saw EXCEPT ![s] = r]
          /\ UpdateSessionID(origin[s], born[s], r)
          /\ Moves(s, IF r \in DOMAIN sessions THEN "leaving" ELSE "renamed")
    /\ UNCHANGED <<phase, registered, owner, status, born, origin, dir, hooked,
                   process, cancelled, entries, files, told, call>>

\* The directory has appeared: scanForExistingSessionFile takes any file.
WatchScans(s) ==
    /\ watcher[s] = "parent"
    /\ Unlocked
    /\ \E r \in files[dir[s]] :
          /\ r # born[s]
          /\ saw' = [saw EXCEPT ![s] = r]
          /\ UpdateSessionID(origin[s], born[s], r)
    /\ Moves(s, "renamed")
    /\ UNCHANGED <<phase, registered, owner, status, born, origin, dir, hooked,
                   process, cancelled, entries, files, told, call>>

\* A Create event for a transcript.
WatchSees(s) ==
    /\ watcher[s] = "listening"
    /\ saw[s] # None
    /\ Unlocked
    /\ UpdateSessionID(origin[s], born[s], saw[s])
    /\ Moves(s, "renamed")
    /\ UNCHANGED <<phase, registered, owner, status, born, origin, dir, hooked,
                   process, saw, cancelled, entries, files, told, call>>

\* The transcript id can be found for workspace w.
Found(w, id) ==
    \E d \in Dir :
        /\ id \in files[d]
        /\ \/ w \in registered /\ d \in Paths[w]
           \/ \E s \in Session : ident[s] = id /\ dir[s] = d

\* WatchWorkspaceSession, as far as the registry goes: a first watch makes
\* the session active, a later one (or an error) changes nothing.
Follow(w, id) ==
    LET r == Resolve(aliases, id)
    IN  active' \in {active} \cup (IF Found(w, r) THEN {With(active, w, r)} ELSE {})

\* ensureInternalPTYSessionWatch, and session_id_resolved is published.
WatchAnnounces(s) ==
    /\ watcher[s] = "renamed"
    /\ Unlocked
    /\ Follow(origin[s], saw[s])
    /\ told' = told \cup {s}
    /\ Moves(s, "leaving")
    /\ UNCHANGED <<phase, registered, sessions, aliases, objects, process, saw,
                   cancelled, entries, files, tangled, call>>

\* watchCtx.Done: select may also choose a file event that is ready.
WatchIsCancelled(s) ==
    /\ watcher[s] \in InLoop
    /\ s \in cancelled
    /\ Moves(s, "leaving")
    /\ UNCHANGED <<phase, registered, maps, objects, process, saw, cancelled,
                   entries, files, told, tangled, call>>

\* Mutant of WatchLeaves: the entry stays behind.
WatchLeavesEntry(s) ==
    /\ watcher[s] = "leaving"
    /\ Moves(s, "gone")
    /\ UNCHANGED <<phase, registered, maps, objects, process, saw, cancelled,
                   entries, files, told, tangled, call>>

\* The deferred cleanupSessionFileWatcher: whoever's entry it is.
WatchLeaves(s) ==
    /\ watcher[s] = "leaving"
    /\ entries' = Without(entries, born[s])
    /\ Moves(s, "gone")
    /\ UNCHANGED <<phase, registered, maps, objects, process, saw, cancelled,
                   files, told, tangled, call>>

WatcherStep(s) ==
    \/ WatchBegins(s) \/ WatchLooks(s) \/ WatchAttaches(s) \/ WatchScans(s)
    \/ WatchSees(s) \/ WatchAnnounces(s)
    \/ WatchIsCancelled(s) \/ WatchLeaves(s)

-----------------------------------------------------------------------------
(* Stopping sessions *)

\* stopSessionInternal for every session of S: their watchers' entries are
\* looked up under the IDs the sessions have now.
StopAll(S) ==
    LET ids == {ident[s] : s \in S}
    IN
    /\ status' = [s \in Session |-> IF s \in S THEN "stopped" ELSE status[s]]
    /\ cancelled' = cancelled \cup {entries[id] : id \in ids \cap DOMAIN entries}
    /\ entries' = Only(entries, DOMAIN entries \ ids)
    /\ active' = Only(active, {w \in DOMAIN active :
                    ~ \E s \in S : owner[s] = w /\ ident[s] = active[w]})
    /\ UNCHANGED <<registered, sessions, aliases, ident, owner, born, origin, dir,
                   hooked, process, watcher, saw, files, told, tangled, call>>

\* StopSession of a session that is filed; stopping it again does nothing.
StopSession(id) ==
    LET r == Resolve(aliases, id)
    IN
    /\ Unlocked
    /\ r \in DOMAIN sessions
    /\ Running(sessions[r])
    /\ StopAll({sessions[r]})
    /\ UNCHANGED phase

\* checkIdleSessions
StopIdle(S) ==
    /\ Unlocked
    /\ S # {}
    /\ StopAll(S)
    /\ UNCHANGED phase

Ends(c) == call' = [call EXCEPT ![c] = Idle]

\* StopSession of a session in a terminal: the workspace is found first, as
\* the one where it is active or streamed ...
StopLooksUp(c, id) ==
    LET r == Resolve(aliases, id)
        current == {w \in DOMAIN active : active[w] = r}
        streamed == {w \in Workspace : Found(w, r)}
    IN
    /\ Unlocked
    /\ call[c].pc = "idle"
    /\ id \in Known
    /\ r \notin DOMAIN sessions
    /\ \E w \in IF current # {} THEN current ELSE streamed :
          call' = [call EXCEPT ![c] = [pc |-> "unwatch", id |-> r, ws |-> w,
                                       who |-> None, mode |-> "print"]]
    /\ UNCHANGED <<phase, registered, maps, objects, process, watch, files, told, tangled>>

\* ... and stopWatchingLiveSession clears it there later.
StopUnwatches(c) ==
    LET id == call[c].id
        w == call[c].ws
    IN
    /\ Unlocked
    /\ call[c].pc = "unwatch"
    /\ active' = Only(active, {v \in DOMAIN active : v # w \/ active[v] # id})
    /\ Ends(c)
    /\ UNCHANGED <<phase, registered, sessions, aliases, objects, process, watch,
                   files, told, tangled>>

-----------------------------------------------------------------------------
(* SendPrompt *)

\* Call c goes on at the given place, with session s.
GoesOn(c, to, s) ==
    call' = [call EXCEPT ![c] = [pc |-> to, id |-> call[c].id, ws |-> call[c].ws,
                                 who |-> s, mode |-> call[c].mode]]

\* GetSession; failing that, a terminal session or an old transcript.
PromptLooksUp(c, id, m) ==
    LET r == Resolve(aliases, id)
        at(to, w, s) == [pc |-> to, id |-> id, ws |-> w, who |-> s, mode |-> m]
    IN
    /\ Unlocked
    /\ call[c].pc = "idle"
    /\ id \in Known
    /\ \/ /\ r \in DOMAIN sessions
          /\ call' = [call EXCEPT ![c] = at("check", None, sessions[r])]
       \/ /\ r \notin DOMAIN sessions
          /\ \E w \in registered :
                call' = [call EXCEPT ![c] = at("start", w, None)]
    /\ UNCHANGED <<phase, registered, maps, objects, process, watch, files, told, tangled>>

\* A Claude in a terminal has the session: it is made active, and the keys
\* are sent there.
PromptGoesToTerminal(c) ==
    LET id == call[c].id
        w == call[c].ws
    IN
    /\ Unlocked
    /\ call[c].pc = "start"
    /\ active' = With(active, w, id)
    /\ Ends(c)
    /\ UNCHANGED <<phase, registered, sessions, aliases, objects, process, watch,
                   files, told, tangled>>

\* startSessionWithID finds that the session exists by now.
PromptFindsSession(c) ==
    LET id == call[c].id
        w == call[c].ws
        s == sessions[id]
    IN
    /\ Unlocked
    /\ call[c].pc = "start"
    /\ w \in registered
    /\ id \in DOMAIN sessions
    /\ owner' = [owner EXCEPT ![s] = w]
    /\ active' = IF owner[s] = w THEN active ELSE With(active, w, id)
    /\ GoesOn(c, "check", s)
    /\ UNCHANGED <<phase, registered, sessions, aliases, ident, status, born, origin,
                   dir, hooked, process, watch, files, told, tangled>>

\* Mutant of PromptStartsSession: m.sessions is not looked at again.
PromptStartsUnchecked(c, s) ==
    LET id == call[c].id
        w == call[c].ws
    IN
    /\ Unlocked
    /\ call[c].pc = "start"
    /\ w \in registered
    /\ Install(s, id, w, Home[w])
    /\ GoesOn(c, "check", s)
    /\ UNCHANGED <<phase, registered, aliases, hooked, process, watch, files, told, tangled>>

\* startSessionWithID makes one where the transcript is.
PromptStartsSession(c, s) ==
    LET id == call[c].id
        w == call[c].ws
        places == {d \in Dir : id \in files[d]}
    IN
    /\ Unlocked
    /\ call[c].pc = "start"
    /\ w \in registered
    /\ id \notin DOMAIN sessions
    /\ \E d \in IF places = {} THEN {Home[w]} ELSE places : Install(s, id, w, d)
    /\ GoesOn(c, "check", s)
    /\ UNCHANGED <<phase, registered, aliases, hooked, process, watch, files, told, tangled>>

\* The status is read, and "interactive" revives a stopped session, without
\* Manager.mu.
PromptChecks(c) ==
    LET s == call[c].who
        revives == call[c].mode = "pty"
    IN
    /\ call[c].pc = "check"
    /\ status' = IF revives THEN [status EXCEPT ![s] = "running"] ELSE status
    /\ IF revives \/ Running(s) THEN GoesOn(c, "launch", s) ELSE Ends(c)
    /\ UNCHANGED <<phase, registered, maps, ident, owner, born, origin, dir, hooked,
                   process, watch, files, told, tangled>>

\* A process is started under Manager.ctx, or cannot be; with one running
\* the prompt is typed into it, or refused.
PromptLaunches(c) ==
    LET s == call[c].who
        m == call[c].mode
    IN
    /\ call[c].pc = "launch"
    /\ \/ /\ phase = "up"
          /\ claude[s] = "none"
          /\ claude' = [claude EXCEPT ![s] = m]
          /\ IF m = "pty" THEN GoesOn(c, "follow", s) ELSE Ends(c)
       \/ /\ Ends(c)
          /\ UNCHANGED claude
    /\ UNCHANGED <<phase, registered, maps, objects, launching,
                   watch, files, told, tangled>>

PromptFollows(c) ==
    LET s == call[c].who
    IN
    /\ Unlocked
    /\ call[c].pc = "follow"
    /\ \E id \in {ident[s], call[c].id} : Follow(owner[s], id)
    /\ Ends(c)
    /\ UNCHANGED <<phase, registered, sessions, aliases, objects, process,
                   watch, files, told, tangled>>

\* startSessionWithID: the workspace has been removed.
PromptFails(c) ==
    /\ call[c].pc = "start"
    /\ call[c].ws \notin registered
    /\ Ends(c)
    /\ UNCHANGED <<phase, registered, maps, objects, process, watch, files, told, tangled>>

PromptStep(c) ==
    \/ \E id \in ID, m \in Mode : PromptLooksUp(c, id, m)
    \/ PromptGoesToTerminal(c) \/ PromptFindsSession(c)
    \/ \E s \in Session : PromptStartsSession(c, s)
    \/ PromptChecks(c) \/ PromptLaunches(c) \/ PromptFollows(c) \/ PromptFails(c)

\* workspace/session/watch
ClientFollows(w, id) ==
    /\ Unlocked
    /\ id \in Known
    /\ Follow(w, id)
    /\ UNCHANGED <<phase, registered, sessions, aliases, objects, process,
                   watch, files, told, tangled, call>>

-----------------------------------------------------------------------------
(* Manager.Stop *)

\* The watchers are cancelled, and with them Manager.ctx ...
ShutdownBegins ==
    /\ phase = "up"
    /\ phase' = "closing"
    /\ cancelled' = cancelled \cup {entries[id] : id \in DOMAIN entries}
    /\ entries' = EmptyFunction
    /\ UNCHANGED <<registered, maps, objects, process, watcher, saw, files, told, tangled,
                   call>>

\* ... then every session in the map that runs is stopped ...
ShutdownStopsSessions ==
    /\ phase = "closing"
    /\ phase' = "down"
    /\ StopAll({s \in Filed : Running(s)})

\* ... unless Manager.mu is not to be had for 5 seconds; the goroutine that
\* waits for it then takes it and keeps it.
ShutdownGivesUp ==
    /\ phase = "closing"
    /\ phase' = "stuck"
    /\ UNCHANGED <<registered, maps, objects, process, watch, files, told, tangled, call>>

-----------------------------------------------------------------------------
ClientStep ==
    \/ \E w \in Workspace : RegisterWorkspace(w) \/ UnregisterWorkspace(w)
    \/ \E w \in Workspace, id \in ID : ActivateSession(w, id) \/ ClientFollows(w, id)
    \/ \E s \in Session, w \in Workspace : StartFromClient(s, w)
    \/ \E s \in Session, w \in Workspace, d \in Dir : StartForAgent(s, w, d)
    \/ \E id \in ID : StopSession(id)
    \/ \E c \in Call, id \in ID : StopLooksUp(c, id)
    \/ \E c \in Call : StopUnwatches(c) \/ PromptStep(c)

ClaudeStep ==
    \/ \E s \in Session : LaunchClaude(s) \/ ClaudeExits(s)
    \/ \E r \in Transcript, d \in Dir : TranscriptAppears(r, d)

DaemonStep ==
    \/ \E S \in SUBSET {s \in Filed : Running(s)} : StopIdle(S)
    \/ ShutdownBegins \/ ShutdownStopsSessions \/ ShutdownGivesUp

Next == ClientStep \/ ClaudeStep \/ DaemonStep \/ \E s \in Session : WatcherStep(s)

Spec == Init /\ [][Next]_vars

\* The watcher goroutines are scheduled, and fsnotify delivers; nothing else
\* is promised.
Fairness == \A s \in Session : WF_vars(WatcherStep(s))

FairSpec == Spec /\ Fairness

-----------------------------------------------------------------------------
(* Properties *)

\* The map and the sessions agree: a session is filed under the ID it
\* carries (the ID its events and its stop go by) and under no other.
FiledUnderOwnID == \A id \in DOMAIN sessions : ident[sessions[id]] = id

\* An ID a client was given earlier leads to a session: a renaming leaves no
\* alias that points at an ID nobody answers to.
AliasesLeadOn ==
    \A id \in DOMAIN aliases : aliases[id] \in DOMAIN aliases \cup DOMAIN sessions

\* An entry of sessionFileWatchers belongs to a watcher that is at work for
\* that very ID and has not been cancelled: no watch is refused, and no
\* session_id_failed sent, on account of a watcher that is gone.
EntriesAreAlive ==
    \A id \in DOMAIN entries :
        LET s == entries[id]
        IN  born[s] = id /\ watcher[s] \in AtWork /\ s \notin cancelled

\* The only session ever started in its directory.
Alone(s) == \A t \in Session \ {s} : dir[t] # dir[s]

\* GetSession with this ID returns s.
FindsIt(id, s) ==
    LET r == Resolve(aliases, id)
    IN  r \in DOMAIN sessions /\ sessions[r] = s

\* A session that was the only one ever started in its directory can be
\* found under the ID it was made with and under the one it has now: other
\* worktrees' sessions and their transcripts do not get in the way.  (A prompt
\* for an ID that ended in a circle of aliases may make a session for the ID of
\* another one.)
WorktreesAreSeparate ==
    \A s \in Session :
        status[s] # "unborn" /\ Alone(s) /\ born[s] \in {s} \cup Transcript
            => FindsIt(born[s], s) /\ FindsIt(ident[s], s)

\* When session_id_resolved is published, the old ID and the new one lead to
\* the same session, and go on to, as long as aliases have not led in a
\* circle: three sessions of one directory, each started with an ID from the
\* history that another one gave up, can get that far.
AnnouncedIDsAreFound ==
    \A s \in Session :
        s \in told /\ ~tangled =>
            \E t \in Session : FindsIt(born[s], t) /\ FindsIt(saw[s], t)

\* The IDs that clients hold go on to lead to the sessions they were given for.
NamesHold == WorktreesAreSeparate /\ AnnouncedIDsAreFound

\* Once a watcher has a transcript in its queue, the phones are told the
\* real ID, unless the watch is cancelled or the daemon's lock is lost.
SeenIsAnnounced ==
    \A s \in Session :
        saw[s] # None ~> \/ s \in told
                         \/ s \in cancelled
                         \/ phase = "stuck"

\* Two prompts to one old transcript resume it once: startSessionWithID
\* displaces no session, whatever happened since the ID was looked up.
PromptsDisplaceNobody ==
    [][(\E c \in Call : call[c].pc = "start" /\ call'[c].pc = "check")
         => Filed \subseteq Filed']_vars

-----------------------------------------------------------------------------
(* What the repository says, and the code does not do *)

\* "Stop stops all sessions and the manager": no session that runs, filed or
\* not, keeps its Claude.
StopStopsAll ==
    [][phase = "closing" /\ phase' = "down" =>
         \A s \in Session : claude[s] # "none" => status'[s] # "running"]_vars

=============================================================================
