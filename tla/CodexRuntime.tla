------------------------------ MODULE CodexRuntime ------------------------------
(***************************************************************************)
(* The Codex processes that SessionManagerService keeps for one workspace  *)
(* (internal/rpc/handler/methods/session_manager.go).  session/start and   *)
(* session/send launch a process under a temporary ID and look for the     *)
(* transcript it writes, the transcript's name becoming the session's ID;  *)
(* session/send with an ID interrupts the session's process and launches   *)
(* another that resumes it; a goroutine per process waits for its end.     *)
(*                                                                         *)
(* A critical section of codexMu, a launch, a refresh of the index and a   *)
(* published event are steps of their own, so that calls of several        *)
(* clients, the goroutines and the processes interleave.  Keyboard input,  *)
(* which changes nothing in the service, and the output that the processes *)
(* print are left out.                                                     *)
(***************************************************************************)
EXTENDS Naturals, FiniteSets, TLC

CONSTANTS
    Clients,   \* clients, each with at most one call under way
    Procs,     \* processes the service may launch
    MaxCalls   \* bound on the calls that clients make

ASSUME CodexAssumption == MaxCalls \in Nat

Temp(p) == <<"codex-temp", p>>     \* the ID under which p is launched
Real(p) == <<"real", p>>           \* the name of the transcript p writes

Temps == {Temp(p) : p \in Procs}
Reals == {Real(p) : p \in Procs}
IDs == Temps \cup Reals
NoID == <<"none">>
NoProc == "no process"

ASSUME NoProcAssumption == NoProc \notin Procs

VARIABLES
    codexSessions,   \* the service's map: ID -> process, or NoProc
    sessionID,       \* the ID a process is known by (codexPTYSession.sessionID)
    pstate,          \* "none", "live", "exited", "reaping" or "reaped"
    origin,          \* the ID a process was launched under
    filed,           \* processes that were put into the map and are waited for
    history,         \* the transcripts of the workspace in the Codex index
    wrote,           \* processes that have created their transcript
    registered,      \* codexSessionWatchers, by the process of the temporary ID
    watcher,         \* the ID-watcher goroutines: [at, id, before]
    killers,         \* goroutines that wait 2 s to kill <<ID, process>>
    interrupted,     \* processes that were sent SIGINT
    calls,           \* how many calls were made, up to MaxCalls
    call,            \* a client's call: [at, id, proc, before, twin]
    resolved,        \* session_id_resolved events: <<process of the temporary ID, ID>>
    displaced,       \* history: processes whose entry another one took
    lost,            \* history: see Lose
    hasty            \* history: processes launched while another ran that the map did not show

procVars == <<pstate, origin, filed, wrote, interrupted>>
ghosts == <<displaced, lost, hasty>>
vars == <<codexSessions, sessionID, pstate, origin, filed, history, wrote,
          registered, watcher, killers, interrupted, calls, call, resolved, displaced, lost, hasty>>

Idle == [at |-> "idle", id |-> NoID, proc |-> NoProc, before |-> {}, twin |-> FALSE]
Asleep == [at |-> "off", id |-> NoID, before |-> {}]

TypeOK ==
    /\ codexSessions \in [IDs -> Procs \cup {NoProc}]
    /\ sessionID \in [Procs -> IDs \cup {NoID}]
    /\ pstate \in [Procs -> {"none", "live", "exited", "reaping", "reaped"}]
    /\ origin \in [Procs -> IDs \cup {NoID}]
    /\ filed \subseteq Procs /\ interrupted \subseteq Procs
    /\ history \subseteq Reals /\ wrote \subseteq Procs
    /\ registered \subseteq Procs
    /\ watcher \in [Procs -> [at : {"off", "on", "remap", "announce"}, id : Reals \cup {NoID},
                               before : SUBSET Reals]]
    /\ killers \subseteq IDs \X Procs /\ calls \in 0..MaxCalls
    /\ call \in [Clients -> [at : {"idle", "look", "snapshot", "launch", "file", "poll",
                                   "remap", "announce", "watch", "stop"},
                             id : Reals \cup {NoID}, proc : Procs \cup {NoProc},
                             before : SUBSET Reals, twin : BOOLEAN]]
    /\ resolved \subseteq Procs \X Reals
    /\ displaced \subseteq Procs /\ lost \subseteq Procs /\ hasty \subseteq Procs

Init ==
    /\ codexSessions = [i \in IDs |-> NoProc]
    /\ sessionID = [p \in Procs |-> NoID]
    /\ pstate = [p \in Procs |-> "none"]
    /\ origin = [p \in Procs |-> NoID]
    /\ filed = {} /\ wrote = {} /\ interrupted = {}
    /\ history = {}
    /\ registered = {}
    /\ watcher = [p \in Procs |-> Asleep]
    /\ killers = {} /\ calls = 0
    /\ call = [c \in Clients |-> Idle]
    /\ resolved = {}
    /\ displaced = {} /\ lost = {} /\ hasty = {}

----------------------------------------------------------------------------
(* Helpers.                                                                *)

\* getCodexSessionForWorkspace: all entries are of this workspace.
Managed == {i \in IDs : codexSessions[i] # NoProc}

\* Calls that launch a new session and have not put its process into the map:
\* nobody can see it yet.
Unseen(c) ==
    \/ call[c].at = "snapshot"
    \/ call[c].at \in {"launch", "file"} /\ call[c].id = NoID

Go(c, at) == call' = [call EXCEPT ![c].at = at]
Begin(c, at, i) ==
    /\ call[c].at = "idle" /\ calls < MaxCalls
    /\ calls' = calls + 1
    /\ call' = [call EXCEPT ![c].at = at, ![c].id = i]
Return(c) == call' = [call EXCEPT ![c] = Idle]

\* A stopped process that the kill after 2 s will not find: renamed since, or
\* displaced by one that has ended since.  History only.
Lose(ps) == lost' = lost \cup (ps \cap interrupted)

\* stopCodexSession: SIGINT, and a goroutine that kills after 2 s.
Interrupt(i) ==
    LET p == codexSessions[i]
    IN  IF p = NoProc THEN UNCHANGED <<interrupted, killers>>
        ELSE /\ interrupted' = interrupted \cup {p}
             /\ killers' = killers \cup {<<i, p>>}

\* remapCodexSessionID: the process filed under a temporary ID moves to the ID
\* of the transcript; nothing happens when it is gone.
\* Mutant of Remap: the process is not told its new ID.
RemapUntold(p, new) ==
    LET q == codexSessions[Temp(p)]
        old == codexSessions[new]
    IN  IF q = NoProc THEN UNCHANGED <<codexSessions, sessionID, displaced, lost>>
        ELSE /\ codexSessions' = [codexSessions EXCEPT ![Temp(p)] = NoProc, ![new] = q]
             /\ displaced' = displaced \cup ({old} \ {NoProc})
             /\ Lose({q})
             /\ UNCHANGED sessionID

Remap(p, new) ==
    LET q == codexSessions[Temp(p)]
        old == codexSessions[new]
    IN  IF q = NoProc THEN UNCHANGED <<codexSessions, sessionID, displaced, lost>>
        ELSE /\ codexSessions' = [codexSessions EXCEPT ![Temp(p)] = NoProc, ![new] = q]
             /\ sessionID' = [sessionID EXCEPT ![q] = new]
             /\ displaced' = displaced \cup ({old} \ {NoProc})
             /\ Lose({q})

----------------------------------------------------------------------------
(* session/start and session/send of a new session.                        *)

\* startCodexSession without an ID: only when the index has no session.
StartCodexSession(c) ==
    /\ history = {} /\ Begin(c, "look", NoID)
    /\ UNCHANGED <<codexSessions, sessionID, procVars, history, registered,
                   watcher, killers, resolved, ghosts>>

\* sendCodexPrompt in mode "new" without an ID, or with one that is not in the
\* index, as a temporary ID never is.
SendNew(c) ==
    /\ Begin(c, "look", NoID)
    /\ UNCHANGED <<codexSessions, sessionID, procVars, history, registered,
                   watcher, killers, resolved, ghosts>>

Look(c) ==
    LET twins == {d \in Clients \ {c} : Unseen(d)}
        hidden == {q \in displaced : pstate[q] = "live"}
    IN  /\ call[c].at = "look"
        /\ IF Managed # {} THEN Return(c) /\ UNCHANGED hasty
           ELSE /\ call' = [d \in Clients |->
                              IF d = c THEN [call[c] EXCEPT !.at = "snapshot",
                                                               !.twin = (twins \cup hidden # {})]
                              ELSE [call[d] EXCEPT !.twin = @ \/ d \in twins]]
                /\ hasty' = (hasty \cup {call[d].proc : d \in twins}) \ {NoProc}
        /\ UNCHANGED <<calls, codexSessions, sessionID, procVars, history, registered,
                       watcher, killers, resolved, displaced, lost>>

\* snapshotCodexSessionIDs.
Snapshot(c) ==
    /\ call[c].at = "snapshot"
    /\ call' = [call EXCEPT ![c].at = "launch", ![c].before = history]
    /\ UNCHANGED <<calls, codexSessions, sessionID, procVars, history, registered,
                   watcher, killers, resolved, ghosts>>

\* startCodexProcess up to pty.Start, for a new session or to resume one.
Launch(c, p) ==
    LET i == IF call[c].id = NoID THEN Temp(p) ELSE call[c].id
    IN  /\ call[c].at = "launch" /\ pstate[p] = "none"
        /\ pstate' = [pstate EXCEPT ![p] = "live"]
        /\ origin' = [origin EXCEPT ![p] = i]
        /\ sessionID' = [sessionID EXCEPT ![p] = i]
        /\ call' = [call EXCEPT ![c].at = "file", ![c].proc = p]
        /\ hasty' = IF call[c].twin THEN hasty \cup {p} ELSE hasty
        /\ UNCHANGED <<calls, codexSessions, filed, history, wrote, registered, watcher,
                       killers, interrupted, resolved, displaced, lost>>

\* pty.Start fails: the call returns the error.
LaunchFails(c) ==
    /\ call[c].at = "launch"
    /\ Return(c)
    /\ UNCHANGED <<calls, codexSessions, sessionID, procVars, history, registered,
                   watcher, killers, resolved, ghosts>>

\* The rest of startCodexProcess: the process takes the entry of its ID,
\* whoever had it, and is waited for from here on.
File(c) ==
    LET p == call[c].proc
        i == sessionID[p]
    IN  /\ call[c].at = "file"
        /\ codexSessions' = [codexSessions EXCEPT ![i] = p]
        /\ displaced' = displaced \cup ({codexSessions[i]} \ {NoProc})
        /\ filed' = filed \cup {p}
        /\ IF call[c].id = NoID THEN Go(c, "poll") ELSE Return(c)
        /\ UNCHANGED <<calls, sessionID, pstate, origin, history, wrote, registered,
                       watcher, killers, interrupted, resolved, lost, hasty>>

\* resolveNewCodexSessionID: any transcript that was not there before.
Poll(c) ==
    /\ call[c].at = "poll"
    /\ \E i \in history \ call[c].before :
          call' = [call EXCEPT ![c].at = "remap", ![c].id = i]
    /\ UNCHANGED <<calls, codexSessions, sessionID, procVars, history, registered,
                   watcher, killers, resolved, ghosts>>

\* ... or none within 10 s.
PollTimesOut(c) ==
    /\ call[c].at = "poll"
    /\ Go(c, "watch")
    /\ UNCHANGED <<calls, codexSessions, sessionID, procVars, history, registered,
                   watcher, killers, resolved, ghosts>>

RemapFound(c) ==
    /\ call[c].at = "remap"
    /\ Remap(call[c].proc, call[c].id)
    /\ Go(c, "announce")
    /\ UNCHANGED <<calls, procVars, history, registered, watcher, killers, resolved, hasty>>

\* The session_id_resolved event, published whether or not the remap found the
\* process; the answer carries the same ID.
Announce(c) ==
    /\ call[c].at = "announce"
    /\ resolved' = resolved \cup {<<call[c].proc, call[c].id>>}
    /\ Return(c)
    /\ UNCHANGED <<calls, codexSessions, sessionID, procVars, history, registered,
                   watcher, killers, ghosts>>

\* startCodexSessionIDWatcher; the answer carries the temporary ID.
StartWatcher(c) ==
    LET p == call[c].proc
    IN  /\ call[c].at = "watch"
        /\ registered' = registered \cup {p}
        /\ watcher' = [watcher EXCEPT ![p] = [at |-> "on", id |-> NoID, before |-> call[c].before]]
        /\ Return(c)
        /\ UNCHANGED <<calls, codexSessions, sessionID, procVars, history, killers,
                       resolved, ghosts>>

----------------------------------------------------------------------------
(* session/send to a session of the index, session/stop, session/delete.   *)

\* sendCodexPrompt with an ID of the index; mode "continue" without one takes
\* the latest of them.
SendResume(c, i) ==
    /\ i \in history /\ Begin(c, "stop", i)
    /\ UNCHANGED <<codexSessions, sessionID, procVars, history, registered,
                   watcher, killers, resolved, ghosts>>

\* Its stopCodexSession; the launch does not wait for the process to end.
StopOld(c) ==
    /\ call[c].at = "stop"
    /\ Interrupt(call[c].id)
    /\ Go(c, "launch")
    /\ UNCHANGED <<calls, codexSessions, sessionID, pstate, origin, filed, history, wrote,
                   registered, watcher, resolved, ghosts>>

\* stopCodexSessionRPC.
StopCodexSession(i) ==
    /\ codexSessions[i] # NoProc /\ calls < MaxCalls
    /\ calls' = calls + 1
    /\ Interrupt(i)
    /\ UNCHANGED <<codexSessions, sessionID, pstate, origin, filed, history, wrote,
                   registered, watcher, call, resolved, ghosts>>

\* The goroutine of a stop: it kills the process if, after 2 s, the ID it was
\* stopped under has an entry, of whichever process.
\* Mutant of Kill: the entry must be of the process that was stopped.
KillOwnEntry(i, p) ==
    /\ <<i, p>> \in killers
    /\ killers' = killers \ {<<i, p>>}
    /\ pstate' = IF codexSessions[i] = p /\ pstate[p] = "live"
                 THEN [pstate EXCEPT ![p] = "exited"] ELSE pstate
    /\ UNCHANGED <<codexSessions, sessionID, origin, filed, history, wrote,
                   registered, watcher, interrupted, calls, call, resolved, ghosts>>

Kill(i, p) ==
    /\ <<i, p>> \in killers
    /\ killers' = killers \ {<<i, p>>}
    /\ pstate' = IF codexSessions[i] # NoProc /\ pstate[p] = "live"
                 THEN [pstate EXCEPT ![p] = "exited"] ELSE pstate
    /\ UNCHANGED <<codexSessions, sessionID, origin, filed, history, wrote,
                   registered, watcher, interrupted, calls, call, resolved, ghosts>>

\* deleteCodexWorkspaceSession removes a transcript, of a running session too.
DeleteTranscript(i) ==
    /\ i \in history /\ calls < MaxCalls
    /\ calls' = calls + 1
    /\ history' = history \ {i}
    /\ UNCHANGED <<codexSessions, sessionID, procVars, registered, watcher,
                   killers, call, resolved, ghosts>>

----------------------------------------------------------------------------
(* The processes.                                                          *)

\* A process launched for a new session creates its transcript, at its first
\* prompt.  (A Codex that is started by hand in the workspace is not modelled: its
\* transcript would be taken for a managed one's in the same way.)
Write(p) ==
    /\ pstate[p] = "live" /\ origin[p] = Temp(p)
    /\ p \notin wrote
    /\ wrote' = wrote \cup {p}
    /\ history' = history \cup {Real(p)}
    /\ UNCHANGED <<codexSessions, sessionID, pstate, origin, filed, registered,
                   watcher, killers, interrupted, calls, call, resolved, ghosts>>

\* A process ends by itself, or on SIGINT if it cares for it.
Exit(p) ==
    /\ pstate[p] = "live"
    /\ pstate' = [pstate EXCEPT ![p] = "exited"]
    /\ UNCHANGED <<codexSessions, sessionID, origin, filed, history, wrote,
                   registered, watcher, killers, interrupted, calls, call, resolved, ghosts>>

\* waitCodexProcess up to its unlock: every entry of the process goes.
Reap(p) ==
    /\ pstate[p] = "exited" /\ p \in filed
    /\ pstate' = [pstate EXCEPT ![p] = "reaping"]
    /\ codexSessions' = [i \in IDs |-> IF codexSessions[i] = p THEN NoProc ELSE codexSessions[i]]
    /\ Lose({q \in displaced : codexSessions[sessionID[q]] = p})
    /\ UNCHANGED <<sessionID, origin, filed, history, wrote, registered, watcher,
                   killers, interrupted, calls, call, resolved, displaced, hasty>>

\* Its stopCodexSessionIDWatcher, by the ID the process was last known by, and
\* its idle event.
StopWatcher(p) ==
    /\ pstate[p] = "reaping"
    /\ pstate' = [pstate EXCEPT ![p] = "reaped"]
    /\ registered' = registered \ {q \in Procs : Temp(q) = sessionID[p]}
    /\ UNCHANGED <<codexSessions, sessionID, origin, filed, history, wrote,
                   watcher, killers, interrupted, calls, call, resolved, ghosts>>

----------------------------------------------------------------------------
(* The ID watcher of a temporary ID.                                       *)

Tick(p) ==
    /\ watcher[p].at = "on"
    /\ \/ /\ p \notin registered \/ codexSessions[Temp(p)] = NoProc
          /\ watcher' = [watcher EXCEPT ![p] = Asleep]
          /\ registered' = registered \ {p}
       \/ /\ p \in registered /\ codexSessions[Temp(p)] # NoProc
          /\ \E i \in history \ watcher[p].before :
                watcher' = [watcher EXCEPT ![p].at = "remap", ![p].id = i]
          /\ UNCHANGED registered
    /\ UNCHANGED <<codexSessions, sessionID, procVars, history, killers, calls, call,
                   resolved, ghosts>>

WatchRemap(p) ==
    /\ watcher[p].at = "remap"
    /\ Remap(p, watcher[p].id)
    /\ watcher' = [watcher EXCEPT ![p].at = "announce"]
    /\ UNCHANGED <<procVars, history, registered, killers, calls, call, resolved, hasty>>

WatchAnnounce(p) ==
    /\ watcher[p].at = "announce"
    /\ resolved' = resolved \cup {<<p, watcher[p].id>>}
    /\ watcher' = [watcher EXCEPT ![p] = Asleep]
    /\ registered' = registered \ {p}
    /\ UNCHANGED <<codexSessions, sessionID, procVars, history, killers, calls, call, ghosts>>

----------------------------------------------------------------------------
Step(c) ==
    \/ Look(c) \/ Snapshot(c) \/ LaunchFails(c) \/ File(c)
    \/ \E p \in Procs : Launch(c, p)
    \/ Poll(c) \/ PollTimesOut(c) \/ RemapFound(c) \/ Announce(c) \/ StartWatcher(c)
    \/ StopOld(c)

Watch(p) == Tick(p) \/ WatchRemap(p) \/ WatchAnnounce(p)

Next ==
    \/ \E c \in Clients : StartCodexSession(c) \/ SendNew(c) \/ Step(c)
    \/ \E c \in Clients, i \in Reals : SendResume(c, i)
    \/ \E i \in IDs : StopCodexSession(i) \/ \E p \in Procs : Kill(i, p)
    \/ \E i \in Reals : DeleteTranscript(i)
    \/ \E p \in Procs : Write(p)
    \/ \E p \in Procs : Exit(p) \/ Reap(p) \/ StopWatcher(p) \/ Watch(p)

\* A watcher ticks.  Nothing makes a process end or write.
Fairness == \A p \in Procs : WF_vars(Watch(p))

Spec == Init /\ [][Next]_vars /\ Fairness

----------------------------------------------------------------------------
(* Properties.                                                             *)

Unreaped(p) == p \in filed /\ pstate[p] \in {"live", "exited"}

\* A process that was put into the map and has not been waited for is found
\* under the ID it is known by, through every rename, unless another process
\* took that ID; and an entry is always of such a process, by its own ID.  Stop,
\* input and the answers of session/start go by this map.
ProcessesAreReachable ==
    /\ \A p \in Procs : Unreaped(p) => codexSessions[sessionID[p]] = p \/ p \in displaced
    /\ \A i \in Managed : Unreaped(codexSessions[i]) /\ sessionID[codexSessions[i]] = i

\* A temporary ID is announced to stand for another process's transcript only
\* where the check for a managed session cannot see the other process: two launches
\* ran at once, the process ended while its call was still looking, or another that
\* had lost its entry in such a race was still running.
MistakesNeedTwins ==
    \A r \in resolved :
        r[2] # Real(r[1]) => \/ r[1] \in hasty
                             \/ pstate[r[1]] \in {"exited", "reaping", "reaped"}

\* The map and the announcements tell processes apart: who runs is found, and a
\* temporary ID stands for another process's transcript only in those races.
ProcessesAreKnown == ProcessesAreReachable /\ MistakesNeedTwins

\* A process that was stopped has ended 2 s later even if it ignores SIGINT, and
\* also when session/send has given its entry to the process that resumes it,
\* unless it was renamed in between or the process that took its entry ended
\* first.
StopsTakeEffect ==
    [][\A i \in IDs, p \in Procs :
         (<<i, p>> \in killers \ killers') => (pstate'[p] # "live" \/ p \in lost)]_vars

\* No ID watcher outlives its process.
WatchersEnd == \A p \in Procs : (pstate[p] = "reaped" /\ watcher[p].at # "off") ~> (watcher[p].at = "off")
=============================================================================
