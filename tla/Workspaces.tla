----------------------------- MODULE Workspaces -----------------------------
(***************************************************************************)
(* The configured workspaces.  Four tables know a workspace: the           *)
(* configuration manager's map (config), workspaces.yaml (saved), the git  *)
(* tracker manager (tracked) and the session manager (known); the          *)
(* authentication registry says which device it is bound to.  Every table  *)
(* has a lock of its own and no call holds two of them, so workspace/add,  *)
(* workspace/remove, a device's revocation, the hourly pruning of expired  *)
(* devices and session/start interleave between the tables.                *)
(*                                                                         *)
(* A workspace is its identifier, a fresh UUID: an identifier is added at  *)
(* most once, each for a directory of its own (an add of a path that is    *)
(* configured, or is no directory, changes nothing).  Names, start options *)
(* and the discovery engine are left out; the registry's file is written   *)
(* in the step that changes the registry.                                  *)
(***************************************************************************)
EXTENDS FiniteSets, Naturals

CONSTANTS Workspaces,   \* identifiers workspace/add may draw
          Devices,      \* paired devices
          Callers,      \* requests (and the pruning ticker) that may overlap
          MaxFails,     \* bound on failing writes of workspaces.yaml
          MaxRestarts   \* bound on restarts of the program

VARIABLES config, saved, tracked, known,
          sessions, \* workspaces with a running session
          devices, bound,
          call,     \* what each caller is doing
          used,     \* identifiers drawn so far
          fails, restarts,
          acked,    \* history: workspaces whose add was answered
          gone,     \* history: workspaces a remove, or the clean-up, took out
          left,     \* history: workspaces the clean-up gave up on
          strays,   \* history: overlapping calls left these half known
          torn      \* history: a write of workspaces.yaml was cut off

tables   == <<config, saved, tracked, known>>
registry == <<devices, bound>>
bounds   == <<used, fails, restarts>>
workspaceHistory == <<acked, gone, left, strays, torn>>
workspaceVars == <<tables, sessions, registry, call, bounds, workspaceHistory>>

Idle == [op |-> "idle"]
\* The steps of a call, after its first one.
Call == {Idle}
  \cup [op : {"add"}, at : {"register", "bind", "unregister", "remove"},
        ws : Workspaces, device : Devices]
  \cup [op : {"remove"}, at : {"unregister", "remove", "unbind"}, ws : Workspaces]
  \cup [op : {"clean"}, at : {"check", "unregister", "remove"},
        ws : Workspaces, todo : SUBSET Workspaces]

WorkspacesTypeOK ==
  /\ config \subseteq Workspaces /\ saved \subseteq Workspaces
  /\ tracked \subseteq Workspaces /\ known \subseteq Workspaces
  /\ sessions \subseteq Workspaces
  /\ devices \subseteq Devices /\ bound \in [Workspaces -> SUBSET Devices]
  /\ call \in [Callers -> Call]
  /\ used \subseteq Workspaces /\ fails \in Nat /\ restarts \in Nat
  /\ acked \subseteq Workspaces /\ gone \subseteq Workspaces
  /\ left \subseteq Workspaces /\ strays \subseteq Workspaces
  /\ torn \in BOOLEAN

WorkspacesInit ==
  /\ config = {} /\ saved = {} /\ tracked = {} /\ known = {} /\ sessions = {}
  /\ devices = Devices /\ bound = [w \in Workspaces |-> {}]
  /\ call = [c \in Callers |-> Idle]
  /\ used = {} /\ fails = 0 /\ restarts = 0
  /\ acked = {} /\ gone = {} /\ left = {} /\ strays = {} /\ torn = FALSE

-----------------------------------------------------------------------------
\* saveConfig writes the whole map over the old file.
SaveWorks(ws) == saved' = ws /\ torn' = FALSE /\ UNCHANGED fails

\* A write that fails may have emptied the file before it failed: the caller
\* puts its map back, and nobody puts the file back.
SaveFails ==
  /\ fails < MaxFails /\ fails' = fails + 1
  /\ \/ UNCHANGED <<saved, torn>>
     \/ saved' = {} /\ torn' = TRUE

\* RegisterWorkspace of the git tracker manager refuses a path that is not
\* there, and its callers ignore the refusal.
Registers(ws) == \E found \in SUBSET ws : tracked' = (tracked \ ws) \cup found

Goes(c, step) == call' = [call EXCEPT ![c] = step]
Ends(c) == Goes(c, Idle)

-----------------------------------------------------------------------------
\* workspace/add: AddWorkspaceWithOptions under the configuration's lock.  It
\* makes the directory when it is missing and that was asked for, and refuses
\* a path that is configured already.
AddWorkspaceWithOptions(c, w, d) ==
  /\ call[c] = Idle /\ w \notin used /\ used' = used \cup {w}
  /\ \/ /\ SaveWorks(config \cup {w})
        /\ config' = config \cup {w}
        /\ tracked' = tracked \cup {w}
        /\ Goes(c, [op |-> "add", at |-> "register", ws |-> w, device |-> d])
     \/ SaveFails /\ UNCHANGED <<config, tracked, call>>
  /\ UNCHANGED <<known, sessions, registry, restarts, acked, gone, left, strays>>

\* Then the session manager learns of it, whoever removed it in between.
RegisterWorkspace(c) ==
  /\ call[c].op = "add" /\ call[c].at = "register"
  /\ known' = known \cup {call[c].ws}
  /\ Goes(c, [call[c] EXCEPT !.at = "bind"])
  /\ UNCHANGED <<config, saved, tracked, sessions, registry, bounds, workspaceHistory>>

\* And the device that asked is bound to it; one that is no longer registered
\* makes the call undo what it did.
BindWorkspace(c) ==
  /\ call[c].op = "add" /\ call[c].at = "bind"
  /\ IF call[c].device \in devices
     THEN /\ bound' = [bound EXCEPT ![call[c].ws] = @ \cup {call[c].device}]
          /\ acked' = acked \cup {call[c].ws}
          /\ Ends(c)
     ELSE Goes(c, [call[c] EXCEPT !.at = "unregister"]) /\ UNCHANGED <<bound, acked>>
  /\ UNCHANGED <<tables, sessions, devices, bounds, gone, left, strays, torn>>

\* Mutant of Unregister: it trusts the count its caller took.
UnregisterTrusting(w) == known' = known \ {w}

\* UnregisterWorkspace of the session manager refuses a workspace that has a
\* running session; it looks under the lock session/start takes.
Unregister(w) == known' = IF w \in sessions THEN known ELSE known \ {w}

\* The add that undoes itself ignores what the two removals return: a session
\* started since keeps the workspace in the session manager alone.
UndoRegister(c) ==
  /\ call[c].op = "add" /\ call[c].at = "unregister"
  /\ Unregister(call[c].ws)
  /\ strays' = IF call[c].ws \in sessions THEN strays \cup {call[c].ws} ELSE strays
  /\ Goes(c, [call[c] EXCEPT !.at = "remove"])
  /\ UNCHANGED <<config, saved, tracked, sessions, registry, bounds,
                 acked, gone, left, torn>>

\* RemoveWorkspace under the configuration's lock: a failing save puts the
\* workspace back in the map, and in the trackers if its path is there.
RemoveFromConfig(w) ==
  \/ SaveWorks(config \ {w}) /\ config' = config \ {w} /\ tracked' = tracked \ {w}
  \/ SaveFails /\ Registers({w}) /\ UNCHANGED config

\* Mutant of UndoAdd: the configuration keeps what could not be bound.
UndoAddHalf(c) ==
  /\ call[c].op = "add" /\ call[c].at = "remove"
  /\ Ends(c)
  /\ UNCHANGED <<tables, sessions, registry, bounds, workspaceHistory>>

UndoAdd(c) ==
  /\ call[c].op = "add" /\ call[c].at = "remove"
  /\ \/ call[c].ws \in config /\ RemoveFromConfig(call[c].ws)
     \/ call[c].ws \notin config /\ UNCHANGED <<config, saved, tracked, fails, torn>>
  /\ strays' = strays \cup ({call[c].ws} \cap config')
  /\ Ends(c)
  /\ UNCHANGED <<known, sessions, registry, used, restarts, acked, gone, left>>

-----------------------------------------------------------------------------
\* workspace/remove looks the workspace up and refuses one whose sessions run.
\* The configuration lists a workspace before its add is done.
RemoveBegins(c, w) ==
  /\ call[c] = Idle /\ w \in config /\ w \notin sessions
  /\ Goes(c, [op |-> "remove", at |-> "unregister", ws |-> w])
  /\ strays' = IF \E b \in Callers : call[b].op = "add" /\ call[b].ws = w
               THEN strays \cup {w} ELSE strays
  /\ UNCHANGED <<tables, sessions, registry, bounds, acked, gone, left, torn>>

\* A session may have started since: then the call fails here.
RemoveUnregisters(c) ==
  /\ call[c].op = "remove" /\ call[c].at = "unregister"
  /\ Unregister(call[c].ws)
  /\ IF call[c].ws \in sessions THEN Ends(c)
                               ELSE Goes(c, [call[c] EXCEPT !.at = "remove"])
  /\ UNCHANGED <<config, saved, tracked, sessions, registry, bounds, workspaceHistory>>

\* Nothing puts the workspace back in the session manager when this fails.
RemoveRemoves(c) ==
  /\ call[c].op = "remove" /\ call[c].at = "remove"
  /\ LET w == call[c].ws IN
     \/ /\ w \in config /\ RemoveFromConfig(w)
        /\ IF w \in config'
           THEN Ends(c) /\ strays' = strays \cup {w} /\ UNCHANGED gone
           ELSE /\ Goes(c, [call[c] EXCEPT !.at = "unbind"])
                /\ gone' = gone \cup {w} /\ UNCHANGED strays
     \/ /\ w \notin config /\ Ends(c)
        /\ UNCHANGED <<config, saved, tracked, fails, gone, strays, torn>>
  /\ UNCHANGED <<known, sessions, registry, used, restarts, acked, left>>

UnbindWorkspace(c) ==
  /\ call[c].op = "remove" /\ call[c].at = "unbind"
  /\ bound' = [bound EXCEPT ![call[c].ws] = {}]
  /\ Ends(c)
  /\ UNCHANGED <<tables, sessions, devices, bounds, workspaceHistory>>

\* workspace/update changes the definition in place and saves; the change
\* stays in memory when the save fails.
UpdateWorkspace(w) ==
  /\ w \in config
  /\ SaveWorks(config) \/ SaveFails
  /\ UNCHANGED <<config, tracked, known, sessions, registry, call, used,
                 restarts, acked, gone, left, strays>>

-----------------------------------------------------------------------------
\* pruneDeviceBindingsLocked: the workspaces that lose their last device.
Orphaned(ds) == {w \in Workspaces : bound[w] # {} /\ bound[w] \subseteq ds}

Drop(ds) ==
  /\ devices' = devices \ ds
  /\ bound' = [w \in Workspaces |-> bound[w] \ ds]

\* cleanupOrphanedWorkspaces takes the orphans one by one, in no fixed order.
CleanNext(c, todo) ==
  IF todo = {} THEN Ends(c)
  ELSE \E w \in todo :
         Goes(c, [op |-> "clean", at |-> "check", ws |-> w, todo |-> todo \ {w}])

\* A token exchange registers a new device; a refresh that overlaps a revocation
\* registers the device again, without its bindings.
RegisterDevice(d) ==
  /\ d \notin devices /\ devices' = devices \cup {d}
  /\ UNCHANGED <<tables, sessions, bound, call, bounds, workspaceHistory>>

\* A device is revoked: its bindings go and the request cleans up after it.
RemoveDevice(c, d) ==
  /\ call[c] = Idle /\ d \in devices
  /\ Drop({d}) /\ CleanNext(c, Orphaned({d}))
  /\ UNCHANGED <<tables, sessions, bounds, workspaceHistory>>

\* At startup and every hour the devices whose refresh token has expired go.
PruneExpired(c, ds) ==
  /\ call[c] = Idle /\ ds # {} /\ ds \subseteq devices
  /\ Drop(ds) /\ CleanNext(c, Orphaned(ds))
  /\ UNCHANGED <<tables, sessions, bounds, workspaceHistory>>

\* Mutant of CleanChecks: one kept workspace ends the whole clean-up.
CleanChecksReturns(c) ==
  /\ call[c].op = "clean" /\ call[c].at = "check"
  /\ LET w == call[c].ws IN
     IF w \in config /\ w \notin sessions
     THEN Goes(c, [call[c] EXCEPT !.at = "unregister"]) /\ UNCHANGED left
     ELSE Ends(c) /\ left' = left \cup ({w} \cap sessions)
  /\ UNCHANGED <<tables, sessions, registry, bounds, acked, gone, strays, torn>>

\* A workspace whose sessions run is kept; nobody comes back for it.
CleanChecks(c) ==
  /\ call[c].op = "clean" /\ call[c].at = "check"
  /\ LET w == call[c].ws IN
     IF w \in config /\ w \notin sessions
     THEN Goes(c, [call[c] EXCEPT !.at = "unregister"]) /\ UNCHANGED left
     ELSE CleanNext(c, call[c].todo) /\ left' = left \cup ({w} \cap sessions)
  /\ UNCHANGED <<tables, sessions, registry, bounds, acked, gone, strays, torn>>

CleanUnregisters(c) ==
  /\ call[c].op = "clean" /\ call[c].at = "unregister"
  /\ LET w == call[c].ws IN
     /\ Unregister(w)
     /\ IF w \in sessions
        THEN CleanNext(c, call[c].todo) /\ left' = left \cup {w}
        ELSE Goes(c, [call[c] EXCEPT !.at = "remove"]) /\ UNCHANGED left
  /\ UNCHANGED <<config, saved, tracked, sessions, registry, bounds,
                 acked, gone, strays, torn>>

CleanRemoves(c) ==
  /\ call[c].op = "clean" /\ call[c].at = "remove"
  /\ LET w == call[c].ws IN
     \/ /\ w \in config /\ RemoveFromConfig(w)
        /\ gone' = gone \cup ({w} \ config')
        /\ left' = left \cup ({w} \cap config') /\ strays' = strays \cup ({w} \cap config')
     \/ /\ w \notin config
        /\ UNCHANGED <<config, saved, tracked, fails, torn, gone, left, strays>>
  /\ CleanNext(c, call[c].todo)
  /\ UNCHANGED <<known, sessions, registry, used, restarts, acked>>

-----------------------------------------------------------------------------
\* session/start checks the workspace under the session manager's lock.
StartSession(w) ==
  /\ w \in known /\ w \notin sessions
  /\ sessions' = sessions \cup {w}
  /\ UNCHANGED <<tables, registry, call, bounds, workspaceHistory>>

EndSession(w) ==
  /\ w \in sessions /\ sessions' = sessions \ {w}
  /\ UNCHANGED <<tables, registry, call, bounds, workspaceHistory>>

\* LoadWorkspaces: the program may have stopped in the middle of a write, and a
\* file that does not parse counts as an empty one.
LoadWorkspaces ==
  /\ \/ config' = saved /\ UNCHANGED torn
     \/ config' = {} /\ torn' = TRUE
  /\ saved' = config'

\* The program stops and starts again: the trackers and the session manager
\* are filled from the configuration, the registry is read back, and no
\* session and no request is left.
Restart ==
  /\ restarts < MaxRestarts /\ restarts' = restarts + 1
  /\ LoadWorkspaces
  /\ tracked' \in SUBSET config'
  /\ known' = config'
  /\ sessions' = {}
  /\ call' = [c \in Callers |-> Idle]
  /\ strays' = {}
  /\ left' = left \cup {w \in config' : bound[w] = {}}
  /\ acked' = IF torn' THEN acked \cap config' ELSE acked
  /\ UNCHANGED <<registry, used, fails, gone>>

CallStep(c) ==
  \/ RegisterWorkspace(c) \/ BindWorkspace(c) \/ UndoRegister(c) \/ UndoAdd(c)
  \/ RemoveUnregisters(c) \/ RemoveRemoves(c) \/ UnbindWorkspace(c)
  \/ CleanChecks(c) \/ CleanUnregisters(c) \/ CleanRemoves(c)

WorkspacesNext ==
  \/ \E c \in Callers :
       \/ \E w \in Workspaces, d \in Devices : AddWorkspaceWithOptions(c, w, d)
       \/ \E w \in Workspaces : RemoveBegins(c, w)
       \/ \E d \in Devices : RemoveDevice(c, d)
       \/ \E ds \in SUBSET Devices : PruneExpired(c, ds)
       \/ CallStep(c)
  \/ \E w \in Workspaces : UpdateWorkspace(w) \/ StartSession(w) \/ EndSession(w)
  \/ \E d \in Devices : RegisterDevice(d)
  \/ Restart

\* A request that has begun goes on: its goroutine waits for locks only.
WorkspacesFairness == \A c \in Callers : WF_workspaceVars(CallStep(c))

WorkspacesSpec == WorkspacesInit /\ [][WorkspacesNext]_workspaceVars /\ WorkspacesFairness

-----------------------------------------------------------------------------
\* A session that runs belongs to a workspace the session manager knows: a
\* removal that looked before the session started does not take the workspace
\* from under it (the check is made again under the lock session/start holds).
SessionsHaveWorkspaces == sessions \subseteq known

\* When no call is at work on a workspace, the configuration and the session
\* manager agree about it, and the trackers hold nothing else; unless a remove
\* overlapped its add, a session kept it, or a save failed half way.
WorkspacesAgree ==
  /\ tracked \subseteq config
  /\ \A w \in Workspaces \ strays :
       (\A c \in Callers : call[c] = Idle \/ call[c].ws # w)
         => (w \in config <=> w \in known)

\* A workspace whose add was answered stays configured until somebody removes
\* it or its last device goes, through failed calls of others and restarts, and
\* the file says so too unless a write of it was cut off.
AnsweredAddsLast ==
  /\ acked \ gone \subseteq config
  /\ torn \/ acked \ gone \subseteq saved

\* A workspace that has lost its last device leaves the configuration, unless
\* the clean-up gave it up: a session ran in it, its save failed, or the
\* program stopped in between.
OrphansLeave ==
  \A w \in Workspaces :
    (w \in acked /\ bound[w] = {}) ~> (w \notin config \/ w \in left)

\* The tables agree about the workspaces and keep those whose add was answered and
\* those that a session runs in.
WorkspacesLast == SessionsHaveWorkspaces /\ WorkspacesAgree /\ AnsweredAddsLast
=============================================================================
