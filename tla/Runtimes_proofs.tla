--------------------------- MODULE Runtimes_proofs ---------------------------
(***************************************************************************)
(* Theorems about the two runtimes of a session: the map of the Codex      *)
(* processes, for any number of clients, processes and calls, Claude's     *)
(* manager, for any number of runs, lines printed and keys pressed, and    *)
(* the streamers of both, for any number of watches and any transcripts.   *)
(***************************************************************************)
EXTENDS CodexRuntime, ClaudeManager, SessionStreamer, FiniteSetTheorems, TLAPS

-----------------------------------------------------------------------------
(* The Codex processes: the invariant *)

CallState == [at : {"idle", "look", "snapshot", "launch", "file", "poll",
                    "remap", "announce", "watch", "stop"},
              id : Reals \cup {NoID}, proc : Procs \cup {NoProc},
              before : SUBSET Reals, twin : BOOLEAN]

WatcherState == [at : {"off", "on", "remap", "announce"}, id : Reals \cup {NoID},
                 before : SUBSET Reals]

\* The stages of a call that has launched its process, and of one that has
\* also put it into the map.
Holding == {"file", "poll", "remap", "announce", "watch"}
Filing == {"poll", "remap", "announce", "watch"}

\* A process has at most one caller, and after it one ID watcher; a process that
\* is not in the map yet has a caller that will put it there.
CallersAreOwners ==
    /\ \A p \in Procs :
          /\ pstate[p] = "none" => p \notin filed
          /\ pstate[p] \in {"live", "exited"} /\ p \notin filed
               => \E c \in Clients : call[c].at = "file" /\ call[c].proc = p
          /\ watcher[p].at # "off" => p \in filed
    /\ \A c \in Clients :
          /\ call[c].at \in Holding => call[c].proc \in Procs
          /\ call[c].at \notin Holding => call[c].proc = NoProc
          /\ call[c].at \in {"look", "snapshot", "poll", "watch"} => call[c].id = NoID
          /\ call[c].at \in {"stop", "remap", "announce"} => call[c].id \in Reals
          /\ call[c].at \in Filing => call[c].proc \in filed
          /\ call[c].at \in Holding => watcher[call[c].proc].at = "off"
    /\ \A c, d \in Clients :
          call[c].at \in Holding /\ call[d].at \in Holding /\ call[c].proc = call[d].proc => c = d

\* The ID of a process that is about to be put into the map.
FiledUnderOrigin ==
    \A c \in Clients :
        call[c].at = "file" =>
            LET p == call[c].proc IN
            /\ pstate[p] \in {"live", "exited"} /\ p \notin filed
            /\ sessionID[p] = origin[p]
            /\ origin[p] = IF call[c].id = NoID THEN Temp(p) ELSE call[c].id

\* The map and the IDs of the processes agree; a process has its own temporary
\* ID until it is renamed, and is displaced only after that, or when it was
\* launched to resume a session.
EntriesAgree ==
    /\ ProcessesAreReachable
    /\ \A p \in Procs : pstate[p] # "none" => sessionID[p] \in {Temp(p)} \cup Reals
    /\ \A p \in displaced : p \in filed /\ sessionID[p] \in Reals
    /\ \A c \in Clients :
          call[c].at \in {"poll", "watch"} => sessionID[call[c].proc] = Temp(call[c].proc)

\* The kill that follows a stop finds an entry under the ID it knows.
KillsFind ==
    \A k \in killers :
        LET i == k[1]
            p == k[2] IN
        /\ p \in interrupted /\ p \in filed
        /\ \/ pstate[p] # "live"
           \/ p \in lost
           \/ /\ sessionID[p] = i /\ codexSessions[i] # NoProc
              /\ codexSessions[i] = p \/ p \in displaced

\* Processes that may yet write a transcript of their own.
Writers == {q \in Procs : pstate[q] = "live" /\ origin[q] = Temp(q) /\ q \notin wrote}

\* A call that found nobody else is the only one nobody can see, and its process
\* is the only one that may write, up to the rename.
LaunchesAreAlone ==
    /\ \A c, d \in Clients : Unseen(c) /\ Unseen(d) /\ c # d => call[c].twin /\ call[d].twin
    /\ \A c \in Clients :
          /\ call[c].at = "file" /\ call[c].id = NoID /\ call[c].twin => call[c].proc \in hasty
          /\ Unseen(c) /\ ~call[c].twin => \A q \in Writers : q = call[c].proc
    /\ \A p \in Procs :
          codexSessions[Temp(p)] = p /\ pstate[p] = "live" /\ p \notin hasty
            => (\A q \in Writers : q = p) /\ \A d \in Clients : ~Unseen(d)

\* Only p's transcript is new to a search that began with the transcripts before.
OnlyNew(p, before) == \A q \in Procs : Real(q) \in history \ before => q = p

\* The name found for p is its own, or one of the excuses holds.
IsExcused(p, i) == i = Real(p) \/ p \in hasty \/ pstate[p] \in {"exited", "reaping", "reaped"}

\* What a search may find, and what was found.
SearchesAreRight ==
    /\ \A q \in Procs : Real(q) \in history => q \in wrote
    /\ \A c \in Clients :
          /\ Unseen(c) /\ ~call[c].twin /\ call[c].at # "snapshot" => OnlyNew(call[c].proc, call[c].before)
          /\ call[c].at \in {"poll", "watch"} /\ pstate[call[c].proc] = "live" /\ call[c].proc \notin hasty
               => OnlyNew(call[c].proc, call[c].before)
          /\ call[c].at \in {"remap", "announce"} => IsExcused(call[c].proc, call[c].id)
    /\ \A p \in Procs :
          /\ watcher[p].at = "on" /\ codexSessions[Temp(p)] = p /\ pstate[p] = "live" /\ p \notin hasty
               => OnlyNew(p, watcher[p].before)
          /\ watcher[p].at \in {"remap", "announce"} => watcher[p].id \in Reals /\ IsExcused(p, watcher[p].id)
    /\ \A r \in resolved : r[1] \in filed /\ IsExcused(r[1], r[2])

CodexInv ==
    /\ TypeOK /\ CallersAreOwners /\ FiledUnderOrigin /\ EntriesAgree
    /\ KillsFind /\ LaunchesAreAlone /\ SearchesAreRight

-----------------------------------------------------------------------------
(* The Codex processes: what the steps do *)

\* The temporary ID of a process is nobody else's and no transcript's name.
LEMMA IDsDiffer ==
  /\ \A p \in Procs : Temp(p) \in IDs /\ Temp(p) \in Temps /\ Temp(p) \notin Reals /\ Temp(p) # NoID
  /\ \A p \in Procs : Real(p) \in IDs /\ Real(p) \in Reals /\ Real(p) # NoID
  /\ \A p, q \in Procs : Temp(p) = Temp(q) => p = q
  /\ \A p, q \in Procs : Real(p) = Real(q) => p = q
  /\ \A i \in Reals : i \in IDs /\ i # NoID /\ \E p \in Procs : i = Real(p)
  /\ \A i \in IDs : i # NoID /\ (i \in Reals \/ \E p \in Procs : i = Temp(p))
  BY DEF Temp, Real, Temps, Reals, IDs, NoID

\* A call that goes on changes its place and nothing else of the calls.
LEMMA GoDoes ==
  ASSUME TypeOK, NEW c \in Clients, NEW s, s \in {"look", "snapshot", "launch", "file", "poll",
                                                 "remap", "announce", "watch", "stop"},
         Go(c, s)
  PROVE  /\ call' \in [Clients -> CallState]
         /\ \A d \in Clients : d # c => call'[d] = call[d]
         /\ call'[c].at = s /\ call'[c].id = call[c].id /\ call'[c].proc = call[c].proc
         /\ call'[c].before = call[c].before /\ call'[c].twin = call[c].twin
  BY DEF TypeOK, Go, CallState

\* A call that returns forgets everything it held.
LEMMA ReturnDoes ==
  ASSUME TypeOK, NEW c \in Clients, Return(c)
  PROVE  /\ call' \in [Clients -> CallState]
         /\ \A d \in Clients : d # c => call'[d] = call[d]
         /\ call'[c].at = "idle" /\ call'[c].id = NoID /\ call'[c].proc = NoProc
         /\ call'[c].before = {} /\ call'[c].twin = FALSE
  BY DEF TypeOK, Return, CallState, Idle

\* A call that begins takes its place and its ID.
LEMMA BeginDoes ==
  ASSUME TypeOK, NEW c \in Clients, NEW s, s \in {"look", "stop"}, NEW i \in Reals \cup {NoID},
         Begin(c, s, i)
  PROVE  /\ call' \in [Clients -> CallState] /\ calls' \in 0 .. MaxCalls
         /\ \A d \in Clients : d # c => call'[d] = call[d]
         /\ call'[c].at = s /\ call'[c].id = i /\ call'[c].proc = call[c].proc
         /\ call'[c].before = call[c].before /\ call'[c].twin = call[c].twin
         /\ call[c].at = "idle"
  <1>1. call[c] \in CallState
    BY DEF TypeOK, CallState
  <1> DEFINE u == [[call[c] EXCEPT !.at = s] EXCEPT !.id = i]
  <1>2. u.at = s /\ u.id = i /\ u.proc = call[c].proc /\ u.before = call[c].before
        /\ u.twin = call[c].twin /\ u \in CallState
    BY <1>1 DEF CallState
  <1>3. call' = [call EXCEPT ![c] = u]
    BY DEF Begin, TypeOK
  <1>4. calls' \in 0 .. MaxCalls /\ call[c].at = "idle"
    BY CodexAssumption DEF Begin, TypeOK
  <1> HIDE DEF u
  <1> QED BY <1>2, <1>3, <1>4 DEF TypeOK, CallState

\* Only the process of a temporary ID is ever filed under it.
LEMMA TempIsOwn ==
  ASSUME TypeOK, EntriesAgree, CallersAreOwners, NEW p \in Procs
  PROVE  codexSessions[Temp(p)] \in {NoProc, p}
  <1> SUFFICES ASSUME codexSessions[Temp(p)] # NoProc PROVE codexSessions[Temp(p)] = p
    OBVIOUS
  <1> DEFINE q == codexSessions[Temp(p)]
  <1>1. q \in Procs /\ sessionID[q] = Temp(p) /\ Unreaped(q)
    BY IDsDiffer DEF TypeOK, EntriesAgree, ProcessesAreReachable, Managed
  <1>2. sessionID[q] \in {Temp(q)} \cup Reals
    BY <1>1 DEF EntriesAgree, Unreaped
  <1> QED BY <1>1, <1>2, IDsDiffer

\* A rename: the process of p's temporary ID is p, if it is still filed there.
LEMMA RemapDoes ==
  ASSUME TypeOK, EntriesAgree, CallersAreOwners, NEW p \in Procs, NEW new \in Reals, Remap(p, new)
  PROVE  \/ codexSessions[Temp(p)] = NoProc /\ UNCHANGED <<codexSessions, sessionID, displaced,
                                                           lost>>
         \/ /\ codexSessions[Temp(p)] = p /\ sessionID[p] = Temp(p) /\ Unreaped(p)
            /\ codexSessions' \in [IDs -> Procs \cup {NoProc}]
            /\ sessionID' \in [Procs -> IDs \cup {NoID}]
            /\ codexSessions'[Temp(p)] = NoProc /\ codexSessions'[new] = p /\ new # Temp(p)
            /\ \A i \in IDs : i # Temp(p) /\ i # new => codexSessions'[i] = codexSessions[i]
            /\ sessionID'[p] = new
            /\ \A x \in Procs : x # p => sessionID'[x] = sessionID[x]
            /\ displaced' = displaced \cup ({codexSessions[new]} \ {NoProc})
            /\ lost' = lost \cup ({p} \cap interrupted)
  <1>1. CASE codexSessions[Temp(p)] = NoProc
    BY <1>1 DEF Remap
  <1>2. CASE codexSessions[Temp(p)] # NoProc
    <2>1. codexSessions[Temp(p)] = p
      BY <1>2, TempIsOwn
    <2>2. sessionID[p] = Temp(p) /\ Unreaped(p)
      BY <1>2, <2>1, IDsDiffer DEF EntriesAgree, ProcessesAreReachable, Managed
    <2>3. /\ codexSessions' = [codexSessions EXCEPT ![Temp(p)] = NoProc, ![new] = p]
          /\ sessionID' = [sessionID EXCEPT ![p] = new]
          /\ displaced' = displaced \cup ({codexSessions[new]} \ {NoProc})
          /\ lost' = lost \cup ({p} \cap interrupted)
      BY <1>2, <2>1 DEF Remap, Lose
    <2>4. Temp(p) \in IDs /\ new \in IDs /\ new # Temp(p)
      BY IDsDiffer
    <2> QED BY <2>1, <2>2, <2>3, <2>4, NoProcAssumption DEF TypeOK
  <1> QED BY <1>1, <1>2

\* A rename keeps the map, the IDs and the kills in agreement, and puts nobody
\* under a temporary ID.
LEMMA RemapKeeps ==
  ASSUME TypeOK, CallersAreOwners, EntriesAgree, KillsFind, NEW p \in Procs, NEW new \in Reals,
         Remap(p, new), UNCHANGED <<pstate, filed, killers, interrupted>>
  PROVE  /\ codexSessions' \in [IDs -> Procs \cup {NoProc}]
         /\ sessionID' \in [Procs -> IDs \cup {NoID}]
         /\ displaced' \subseteq Procs /\ lost' \subseteq Procs
         /\ ProcessesAreReachable'
         /\ \A q \in Procs : pstate[q] # "none" => sessionID'[q] \in {Temp(q)} \cup Reals
         /\ \A q \in displaced' : q \in filed /\ sessionID'[q] \in Reals
         /\ \A q \in Procs : q # p => sessionID'[q] = sessionID[q]
         /\ \A q \in Procs : codexSessions'[Temp(q)] = q => codexSessions[Temp(q)] = q
         /\ KillsFind'
  <1>1. CASE UNCHANGED <<codexSessions, sessionID, displaced, lost>>
    <2>1. ProcessesAreReachable' /\ KillsFind'
      BY <1>1 DEF EntriesAgree, ProcessesAreReachable, Unreaped, Managed, KillsFind
    <2> QED BY <1>1, <2>1 DEF TypeOK, EntriesAgree
  <1>2. CASE /\ codexSessions[Temp(p)] = p /\ sessionID[p] = Temp(p) /\ Unreaped(p)
             /\ codexSessions' \in [IDs -> Procs \cup {NoProc}]
             /\ sessionID' \in [Procs -> IDs \cup {NoID}]
             /\ codexSessions'[Temp(p)] = NoProc /\ codexSessions'[new] = p /\ new # Temp(p)
             /\ \A i \in IDs : i # Temp(p) /\ i # new => codexSessions'[i] = codexSessions[i]
             /\ sessionID'[p] = new
             /\ \A x \in Procs : x # p => sessionID'[x] = sessionID[x]
             /\ displaced' = displaced \cup ({codexSessions[new]} \ {NoProc})
             /\ lost' = lost \cup ({p} \cap interrupted)
    <2>1. /\ new \in IDs /\ Temp(p) \in IDs /\ p # NoProc
          /\ codexSessions[new] # NoProc => codexSessions[new] \in Procs /\ codexSessions[new] \in filed
                                            /\ sessionID[codexSessions[new]] = new /\ codexSessions[new] # p
      BY <1>2, IDsDiffer, NoProcAssumption DEF EntriesAgree, ProcessesAreReachable, Managed, Unreaped, TypeOK
    <2>2. \A q \in Procs : pstate[q] # "none" => sessionID'[q] \in {Temp(q)} \cup Reals
      BY <1>2 DEF EntriesAgree
    <2>3. \A q \in displaced' : q \in filed /\ sessionID'[q] \in Reals
      BY <1>2, <2>1 DEF EntriesAgree, TypeOK
    <2>4. ASSUME NEW q \in Procs, codexSessions'[Temp(q)] = q PROVE codexSessions[Temp(q)] = q
      BY <1>2, <2>1, <2>4, IDsDiffer
    <2>5. ASSUME NEW q \in Procs, Unreaped(q) PROVE codexSessions'[sessionID'[q]] = q \/ q \in displaced'
      <3>1. CASE q = p
        BY <1>2, <3>1
      <3>2. CASE q # p
        <4>1. sessionID[q] \in IDs /\ (codexSessions[sessionID[q]] = q \/ q \in displaced)
          BY <2>5, IDsDiffer DEF EntriesAgree, ProcessesAreReachable, Unreaped
        <4>2. CASE sessionID[q] = Temp(p)
          BY <1>2, <3>2, <4>1, <4>2, <2>1
        <4>3. CASE sessionID[q] = new
          BY <1>2, <3>2, <4>1, <4>3, NoProcAssumption
        <4>4. CASE sessionID[q] # Temp(p) /\ sessionID[q] # new
          BY <1>2, <3>2, <4>1, <4>4
        <4> QED BY <4>2, <4>3, <4>4
      <3> QED BY <3>1, <3>2
    <2>6. ASSUME NEW j \in IDs, NEW x, x = codexSessions'[j], x # NoProc
          PROVE  x \in filed /\ pstate[x] \in {"live", "exited"} /\ sessionID'[x] = j
      <3>1. CASE j = new
        BY <1>2, <2>6, <3>1 DEF Unreaped
      <3>2. CASE j # new
        <4>1. j # Temp(p) /\ codexSessions[j] = x
          BY <1>2, <2>6, <3>2
        <4>2. x \in Procs /\ x \in filed /\ pstate[x] \in {"live", "exited"} /\ sessionID[x] = j
          BY <4>1, <2>6 DEF EntriesAgree, ProcessesAreReachable, Managed, Unreaped, TypeOK
        <4> QED BY <1>2, <4>1, <4>2
      <3> QED BY <3>1, <3>2
    <2>7. ProcessesAreReachable'
      BY <2>5, <2>6 DEF ProcessesAreReachable, Managed, Unreaped
    <2>8. KillsFind'
      <3> SUFFICES ASSUME NEW k \in killers,
                          NEW j, j = k[1], NEW x, x = k[2]
                   PROVE  /\ x \in interrupted /\ x \in filed
                          /\ \/ pstate[x] # "live"
                             \/ x \in lost'
                             \/ /\ sessionID'[x] = j /\ codexSessions'[j] # NoProc
                                /\ codexSessions'[j] = x \/ x \in displaced'
        BY DEF KillsFind
      <3>1. /\ j \in IDs /\ x \in Procs /\ x \in interrupted /\ x \in filed
            /\ \/ pstate[x] # "live"
               \/ x \in lost
               \/ /\ sessionID[x] = j /\ codexSessions[j] # NoProc
                  /\ codexSessions[j] = x \/ x \in displaced
        BY DEF KillsFind, TypeOK
      <3>2. CASE x = p
        BY <1>2, <3>1, <3>2
      <3>3. CASE x # p /\ pstate[x] = "live" /\ x \notin lost
        <4>1. sessionID'[x] = j /\ j # Temp(p)
          <5>1. sessionID[x] \in {Temp(x)} \cup Reals
            BY <3>1, <3>3 DEF EntriesAgree
          <5> QED BY <1>2, <3>1, <3>3, <5>1, IDsDiffer
        <4>2. CASE j = new
          BY <1>2, <2>1, <3>1, <3>3, <4>1, <4>2, NoProcAssumption
        <4>3. CASE j # new
          BY <1>2, <3>1, <3>3, <4>1, <4>3
        <4> QED BY <3>1, <4>1, <4>2, <4>3
      <3> QED BY <1>2, <3>1, <3>2, <3>3
    <2>9. displaced' \subseteq Procs /\ lost' \subseteq Procs
      BY <1>2, <2>1 DEF TypeOK
    <2> QED BY <1>2, <2>2, <2>3, <2>4, <2>7, <2>8, <2>9
  <1> QED BY <1>1, <1>2, RemapDoes

\* A stop leaves a kill that will find the process.
LEMMA InterruptFinds ==
  ASSUME TypeOK, EntriesAgree, KillsFind, NEW i \in IDs, Interrupt(i),
         UNCHANGED <<codexSessions, sessionID, pstate, filed, displaced, lost>>
  PROVE  KillsFind'
  <1>1. CASE codexSessions[i] = NoProc
    BY <1>1 DEF Interrupt, KillsFind
  <1>2. CASE codexSessions[i] # NoProc
    <2> DEFINE p == codexSessions[i]
    <2>1. p \in filed /\ sessionID[p] = i
      BY <1>2 DEF EntriesAgree, ProcessesAreReachable, Managed, Unreaped
    <2>2. interrupted' = interrupted \cup {p} /\ killers' = killers \cup {<<i, p>>}
      BY <1>2 DEF Interrupt
    <2>3. <<i, p>>[1] = i /\ <<i, p>>[2] = p
      OBVIOUS
    <2> QED BY <1>2, <2>1, <2>2, <2>3 DEF KillsFind
  <1> QED BY <1>1, <1>2

\* Every section of codexMu, launch, announcement and end of a process keeps the invariant.
LEMMA CodexGoesOn ==
  ASSUME TypeOK, CallersAreOwners, FiledUnderOrigin, EntriesAgree, KillsFind, LaunchesAreAlone,
         SearchesAreRight, [Next]_vars
  PROVE  CodexInv'
<1>1. ASSUME NEW c \in Clients, StartCodexSession(c) PROVE CodexInv'
  <2>a. /\ call' \in [Clients -> CallState] /\ \A d \in Clients : d # c => call'[d] = call[d]
        /\ call'[c].at = "look" /\ call'[c].id = NoID /\ call'[c].proc = call[c].proc
        /\ call'[c].before = call[c].before /\ call'[c].twin = call[c].twin
        /\ call[c].at = "idle" /\ calls' \in 0 .. MaxCalls
    <3>1. Begin(c, "look", NoID)
      BY <1>1 DEF StartCodexSession
    <3> QED BY <3>1, BeginDoes
  <2>b. TRUE
    BY <1>1 DEF StartCodexSession
  <2>f. UNCHANGED <<codexSessions, sessionID, pstate, origin, filed, history, wrote, registered,
                    watcher, killers, interrupted, resolved, displaced, lost, hasty>>
    BY <1>1 DEF StartCodexSession, procVars, ghosts
  <2>1. TypeOK'
    BY <2>a, <2>b, <2>f DEF TypeOK, CallState
  <2>2. CallersAreOwners'
    BY <2>a, <2>b, <2>f DEF CallersAreOwners, Holding, Filing
  <2>3. FiledUnderOrigin'
    BY <2>a, <2>b, <2>f DEF FiledUnderOrigin
  <2>4. EntriesAgree'
    BY <2>a, <2>b, <2>f DEF EntriesAgree, ProcessesAreReachable, Unreaped, Managed
  <2>5. KillsFind'
    BY <2>a, <2>b, <2>f DEF KillsFind
  <2>6. LaunchesAreAlone'
    BY <2>a, <2>b, <2>f DEF LaunchesAreAlone, Unseen, Writers
  <2>7. SearchesAreRight'
    BY <2>a, <2>b, <2>f DEF SearchesAreRight, OnlyNew, IsExcused, Unseen
  <2> QED BY <2>1, <2>2, <2>3, <2>4, <2>5, <2>6, <2>7 DEF CodexInv
<1>2. ASSUME NEW c \in Clients, SendNew(c) PROVE CodexInv'
  <2>a. /\ call' \in [Clients -> CallState] /\ \A d \in Clients : d # c => call'[d] = call[d]
        /\ call'[c].at = "look" /\ call'[c].id = NoID /\ call'[c].proc = call[c].proc
        /\ call'[c].before = call[c].before /\ call'[c].twin = call[c].twin
        /\ call[c].at = "idle" /\ calls' \in 0 .. MaxCalls
    <3>1. Begin(c, "look", NoID)
      BY <1>2 DEF SendNew
    <3> QED BY <3>1, BeginDoes
  <2>b. TRUE
    BY <1>2 DEF SendNew
  <2>f. UNCHANGED <<codexSessions, sessionID, pstate, origin, filed, history, wrote, registered,
                    watcher, killers, interrupted, resolved, displaced, lost, hasty>>
    BY <1>2 DEF SendNew, procVars, ghosts
  <2>1. TypeOK'
    BY <2>a, <2>b, <2>f DEF TypeOK, CallState
  <2>2. CallersAreOwners'
    BY <2>a, <2>b, <2>f DEF CallersAreOwners, Holding, Filing
  <2>3. FiledUnderOrigin'
    BY <2>a, <2>b, <2>f DEF FiledUnderOrigin
  <2>4. EntriesAgree'
    BY <2>a, <2>b, <2>f DEF EntriesAgree, ProcessesAreReachable, Unreaped, Managed
  <2>5. KillsFind'
    BY <2>a, <2>b, <2>f DEF KillsFind
  <2>6. LaunchesAreAlone'
    BY <2>a, <2>b, <2>f DEF LaunchesAreAlone, Unseen, Writers
  <2>7. SearchesAreRight'
    BY <2>a, <2>b, <2>f DEF SearchesAreRight, OnlyNew, IsExcused, Unseen
  <2> QED BY <2>1, <2>2, <2>3, <2>4, <2>5, <2>6, <2>7 DEF CodexInv
<1>3. ASSUME NEW c \in Clients, NEW i \in Reals, SendResume(c, i) PROVE CodexInv'
  <2>a. /\ call' \in [Clients -> CallState] /\ \A d \in Clients : d # c => call'[d] = call[d]
        /\ call'[c].at = "stop" /\ call'[c].id = i /\ call'[c].proc = call[c].proc
        /\ call'[c].before = call[c].before /\ call'[c].twin = call[c].twin
        /\ call[c].at = "idle" /\ calls' \in 0 .. MaxCalls
    <3>1. Begin(c, "stop", i)
      BY <1>3 DEF SendResume
    <3> QED BY <3>1, BeginDoes
  <2>b. TRUE
    BY <1>3 DEF SendResume
  <2>f. UNCHANGED <<codexSessions, sessionID, pstate, origin, filed, history, wrote, registered,
                    watcher, killers, interrupted, resolved, displaced, lost, hasty>>
    BY <1>3 DEF SendResume, procVars, ghosts
  <2>1. TypeOK'
    BY <2>a, <2>b, <2>f DEF TypeOK, CallState
  <2>2. CallersAreOwners'
    BY <2>a, <2>b, <2>f DEF CallersAreOwners, Holding, Filing
  <2>3. FiledUnderOrigin'
    BY <2>a, <2>b, <2>f DEF FiledUnderOrigin
  <2>4. EntriesAgree'
    BY <2>a, <2>b, <2>f DEF EntriesAgree, ProcessesAreReachable, Unreaped, Managed
  <2>5. KillsFind'
    BY <2>a, <2>b, <2>f DEF KillsFind
  <2>6. LaunchesAreAlone'
    BY <2>a, <2>b, <2>f DEF LaunchesAreAlone, Unseen, Writers
  <2>7. SearchesAreRight'
    BY <2>a, <2>b, <2>f DEF SearchesAreRight, OnlyNew, IsExcused, Unseen
  <2> QED BY <2>1, <2>2, <2>3, <2>4, <2>5, <2>6, <2>7 DEF CodexInv
<1>4. ASSUME NEW c \in Clients, Snapshot(c) PROVE CodexInv'
  <2>a. /\ call' \in [Clients -> CallState] /\ \A d \in Clients : d # c => call'[d] = call[d]
        /\ call'[c].at = "launch" /\ call'[c].id = call[c].id /\ call'[c].proc = call[c].proc
        /\ call'[c].before = history /\ call'[c].twin = call[c].twin
    <3> DEFINE u == [[call[c] EXCEPT !.at = "launch"] EXCEPT !.before = history]
    <3>1. call[c] \in CallState /\ history \subseteq Reals
      BY DEF TypeOK, CallState
    <3>2. /\ u.at = "launch" /\ u.id = call[c].id /\ u.proc = call[c].proc
          /\ u.before = history /\ u.twin = call[c].twin /\ u \in CallState
      BY <3>1 DEF CallState
    <3>3. call' = [call EXCEPT ![c] = u]
      BY <1>4 DEF Snapshot, TypeOK
    <3> HIDE DEF u
    <3> QED BY <3>2, <3>3 DEF TypeOK, CallState
  <2>b. call[c].at = "snapshot"
    BY <1>4 DEF Snapshot
  <2>f. UNCHANGED <<codexSessions, sessionID, pstate, origin, filed, history, wrote, registered,
                    watcher, killers, interrupted, calls, resolved, displaced, lost, hasty>>
    BY <1>4 DEF Snapshot, procVars, ghosts
  <2>1. TypeOK'
    BY <2>a, <2>b, <2>f DEF TypeOK, CallState
  <2>2. CallersAreOwners'
    BY <2>a, <2>b, <2>f DEF CallersAreOwners, Holding, Filing
  <2>3. FiledUnderOrigin'
    BY <2>a, <2>b, <2>f DEF FiledUnderOrigin
  <2>4. EntriesAgree'
    BY <2>a, <2>b, <2>f DEF EntriesAgree, ProcessesAreReachable, Unreaped, Managed
  <2>5. KillsFind'
    BY <2>a, <2>b, <2>f DEF KillsFind
  <2>6. LaunchesAreAlone'
    BY <2>a, <2>b, <2>f DEF LaunchesAreAlone, Unseen, Writers
  <2>7. SearchesAreRight'
    BY <2>a, <2>b, <2>f DEF SearchesAreRight, OnlyNew, IsExcused, Unseen
  <2> QED BY <2>1, <2>2, <2>3, <2>4, <2>5, <2>6, <2>7 DEF CodexInv
<1>5. ASSUME NEW c \in Clients, LaunchFails(c) PROVE CodexInv'
  <2>a. /\ call' \in [Clients -> CallState] /\ \A d \in Clients : d # c => call'[d] = call[d]
        /\ call'[c].at = "idle" /\ call'[c].id = NoID /\ call'[c].proc = NoProc
        /\ call'[c].before = {} /\ call'[c].twin = FALSE
    BY <1>5, ReturnDoes DEF LaunchFails
  <2>b. call[c].at = "launch"
    BY <1>5 DEF LaunchFails
  <2>f. UNCHANGED <<codexSessions, sessionID, pstate, origin, filed, history, wrote, registered,
                    watcher, killers, interrupted, calls, resolved, displaced, lost, hasty>>
    BY <1>5 DEF LaunchFails, procVars, ghosts
  <2>1. TypeOK'
    BY <2>a, <2>b, <2>f DEF TypeOK, CallState
  <2>2. CallersAreOwners'
    BY <2>a, <2>b, <2>f DEF CallersAreOwners, Holding, Filing
  <2>3. FiledUnderOrigin'
    BY <2>a, <2>b, <2>f DEF FiledUnderOrigin
  <2>4. EntriesAgree'
    BY <2>a, <2>b, <2>f DEF EntriesAgree, ProcessesAreReachable, Unreaped, Managed
  <2>5. KillsFind'
    BY <2>a, <2>b, <2>f DEF KillsFind
  <2>6. LaunchesAreAlone'
    BY <2>a, <2>b, <2>f DEF LaunchesAreAlone, Unseen, Writers
  <2>7. SearchesAreRight'
    BY <2>a, <2>b, <2>f DEF SearchesAreRight, OnlyNew, IsExcused, Unseen
  <2> QED BY <2>1, <2>2, <2>3, <2>4, <2>5, <2>6, <2>7 DEF CodexInv
<1>6. ASSUME NEW c \in Clients, PollTimesOut(c) PROVE CodexInv'
  <2>a. /\ call' \in [Clients -> CallState] /\ \A d \in Clients : d # c => call'[d] = call[d]
        /\ call'[c].at = "watch" /\ call'[c].id = call[c].id /\ call'[c].proc = call[c].proc
        /\ call'[c].before = call[c].before /\ call'[c].twin = call[c].twin
    BY <1>6, GoDoes DEF PollTimesOut
  <2>b. call[c].at = "poll"
    BY <1>6 DEF PollTimesOut
  <2>f. UNCHANGED <<codexSessions, sessionID, pstate, origin, filed, history, wrote, registered,
                    watcher, killers, interrupted, calls, resolved, displaced, lost, hasty>>
    BY <1>6 DEF PollTimesOut, procVars, ghosts
  <2>1. TypeOK'
    BY <2>a, <2>b, <2>f DEF TypeOK, CallState
  <2>2. CallersAreOwners'
    BY <2>a, <2>b, <2>f DEF CallersAreOwners, Holding, Filing
  <2>3. FiledUnderOrigin'
    BY <2>a, <2>b, <2>f DEF FiledUnderOrigin
  <2>4. EntriesAgree'
    BY <2>a, <2>b, <2>f DEF EntriesAgree, ProcessesAreReachable, Unreaped, Managed
  <2>5. KillsFind'
    BY <2>a, <2>b, <2>f DEF KillsFind
  <2>6. LaunchesAreAlone'
    BY <2>a, <2>b, <2>f DEF LaunchesAreAlone, Unseen, Writers
  <2>7. SearchesAreRight'
    BY <2>a, <2>b, <2>f DEF SearchesAreRight, OnlyNew, IsExcused, Unseen
  <2> QED BY <2>1, <2>2, <2>3, <2>4, <2>5, <2>6, <2>7 DEF CodexInv
<1>7. ASSUME NEW c \in Clients, Look(c) PROVE CodexInv'
  <2> DEFINE twins == {d \in Clients \ {c} : Unseen(d)}
             hidden == {q \in displaced : pstate[q] = "live"}
  <2>b. call[c].at = "look" /\ call[c].id = NoID /\ call[c].proc = NoProc
    BY <1>7 DEF Look, CallersAreOwners, Holding
  <2>a. \/ /\ call' \in [Clients -> CallState] /\ \A d \in Clients : d # c => call'[d] = call[d]
           /\ call'[c].at = "idle" /\ call'[c].id = NoID /\ call'[c].proc = NoProc
           /\ call'[c].before = {} /\ call'[c].twin = FALSE /\ hasty' = hasty
        \/ /\ Managed = {}
           /\ call' \in [Clients -> CallState]
           /\ \A d \in Clients : /\ d # c => call'[d].at = call[d].at
                                 /\ call'[d].id = call[d].id /\ call'[d].proc = call[d].proc
                                 /\ call'[d].before = call[d].before
                                 /\ d # c /\ call[d].twin => call'[d].twin
                                 /\ d \in twins => call'[d].twin
                                 /\ d # c /\ d \notin twins => call'[d].twin = call[d].twin
           /\ call'[c].at = "snapshot" /\ (~call'[c].twin => twins = {} /\ hidden = {})
           /\ hasty \subseteq hasty' /\ hasty' \subseteq Procs
           /\ \A d \in twins : call[d].proc \in Procs => call[d].proc \in hasty'
    <3>1. CASE Managed # {}
      BY <1>7, <3>1, ReturnDoes DEF Look
    <3>2. CASE Managed = {}
      <4> DEFINE u(d) == IF d = c THEN [[call[c] EXCEPT !.at = "snapshot"] EXCEPT !.twin = (twins \cup hidden # {})]
                         ELSE [call[d] EXCEPT !.twin = call[d].twin \/ d \in twins]
      <4>1. call' = [d \in Clients |-> u(d)]
        BY <1>7, <3>2 DEF Look
      <4>2. ASSUME NEW d \in Clients
            PROVE  /\ u(d) \in CallState
                   /\ d # c => u(d).at = call[d].at
                   /\ u(d).id = call[d].id /\ u(d).proc = call[d].proc
                   /\ u(d).before = call[d].before
                   /\ d # c => u(d).twin = (call[d].twin \/ d \in twins)
                   /\ d = c => u(d).at = "snapshot" /\ u(d).twin = (twins \cup hidden # {})
        <5>1. call[d] \in CallState
          BY DEF TypeOK, CallState
        <5> HIDE DEF twins, hidden
        <5>2. CASE d = c
          BY <5>1, <5>2 DEF CallState
        <5>3. CASE d # c
          BY <5>1, <5>3 DEF CallState
        <5> QED BY <5>2, <5>3
      <4>3. /\ hasty' = (hasty \cup {call[d].proc : d \in twins}) \ {NoProc}
        BY <1>7, <3>2 DEF Look
      <4>4. \A d \in Clients : call[d].proc \in Procs \cup {NoProc}
        BY DEF TypeOK
      <4>5. hasty \subseteq hasty' /\ hasty' \subseteq Procs
            /\ \A d \in twins : call[d].proc \in Procs => call[d].proc \in hasty'
        BY <4>3, <4>4, NoProcAssumption DEF TypeOK
      <4>6. c \notin twins
        OBVIOUS
      <4> HIDE DEF u, twins, hidden
      <4>7. call' \in [Clients -> CallState]
        BY <4>1, <4>2
      <4>8. \A d \in Clients : call'[d] = u(d)
        BY <4>1
      <4>9. /\ call'[c].at = "snapshot" /\ (~call'[c].twin => twins = {} /\ hidden = {})
            /\ \A d \in Clients : /\ d # c => call'[d].at = call[d].at
                                  /\ call'[d].id = call[d].id /\ call'[d].proc = call[d].proc
                                  /\ call'[d].before = call[d].before
        BY <4>2, <4>8
      <4>10. ASSUME NEW d \in Clients
             PROVE  /\ d # c /\ call[d].twin => call'[d].twin
                    /\ d \in twins => call'[d].twin
                    /\ d # c /\ d \notin twins => call'[d].twin = call[d].twin
        <5>1. call[d].twin \in BOOLEAN /\ call'[d].twin \in BOOLEAN
          BY <4>7 DEF TypeOK, CallState
        <5>2. d # c => call'[d].twin = (call[d].twin \/ d \in twins)
          BY <4>2, <4>8
        <5> QED BY <5>1, <5>2, <4>6
      <4> QED BY <3>2, <4>5, <4>7, <4>9, <4>10
    <3> QED BY <3>1, <3>2
  <2>f. UNCHANGED <<codexSessions, sessionID, pstate, origin, filed, history, wrote, registered,
                    watcher, killers, interrupted, calls, resolved, displaced, lost>>
    BY <1>7 DEF Look, procVars, ghosts
  <2>1. TypeOK'
    BY <2>a, <2>b, <2>f DEF TypeOK, CallState
  <2>2. CallersAreOwners'
    BY <2>a, <2>b, <2>f DEF CallersAreOwners, Holding, Filing
  <2>3. FiledUnderOrigin'
    BY <2>a, <2>b, <2>f DEF FiledUnderOrigin
  <2>4. EntriesAgree'
    BY <2>a, <2>b, <2>f DEF EntriesAgree, ProcessesAreReachable, Unreaped, Managed
  <2>5. KillsFind'
    BY <2>a, <2>b, <2>f DEF KillsFind
  <2>6. LaunchesAreAlone'
    <3>1. CASE call'[c].at = "idle"
      BY <3>1, <2>a, <2>b, <2>f DEF LaunchesAreAlone, Unseen, Writers
    <3>2. CASE call'[c].at = "snapshot"
      <4>1. /\ \A d \in Clients : Unseen(d)' <=> (d = c \/ d \in twins)
        BY <3>2, <2>a, <2>b DEF Unseen
      <4>2. \A d \in Clients : d \in twins => call'[d].twin /\ call'[c].twin
        BY <3>2, <2>a
      <4>3. ASSUME NEW q \in Writers, hidden = {} PROVE twins # {}
        <5>1. q \in Procs /\ pstate[q] = "live" /\ origin[q] = Temp(q)
          BY DEF Writers
        <5>2. q \notin filed
          <6>1. sessionID[q] \in IDs
            BY <5>1, IDsDiffer DEF EntriesAgree
          <6>2. codexSessions[sessionID[q]] = NoProc
            BY <6>1, <3>2, <2>a DEF Managed
          <6>3. q \notin displaced
            BY <5>1, <4>3
          <6> QED BY <5>1, <6>2, <6>3, NoProcAssumption DEF EntriesAgree, ProcessesAreReachable, Unreaped
        <5>3. PICK d \in Clients : call[d].at = "file" /\ call[d].proc = q
          BY <5>1, <5>2 DEF CallersAreOwners
        <5>4. call[d].id = NoID
          BY <5>1, <5>3, IDsDiffer DEF FiledUnderOrigin, TypeOK
        <5>5. d \in twins
          BY <5>3, <5>4, <2>b DEF Unseen
        <5> QED BY <5>5
      <4>4. Writers' = Writers
        BY <2>f DEF Writers
      <4>5. \A p \in Procs : codexSessions[Temp(p)] # p
        BY <3>2, <2>a, IDsDiffer, NoProcAssumption DEF Managed
      <4>6. ASSUME NEW d \in Clients, call'[d].at = "file" /\ call'[d].id = NoID
            PROVE  call'[d].proc \in hasty'
        <5>1. d \in twins
          BY <4>6, <3>2, <2>a, <2>b DEF Unseen
        <5>2. call[d].proc \in Procs
          BY <4>6, <3>2, <2>a DEF CallersAreOwners, Holding
        <5> QED BY <5>1, <5>2, <3>2, <2>a
      <4>7. ~call'[c].twin => hidden = {} /\ twins = {}
        BY <3>2, <2>a
      <4> HIDE DEF twins, hidden
      <4>8. ASSUME NEW d \in Clients, Unseen(d)', ~call'[d].twin PROVE \A q \in Writers : q = call'[d].proc
        BY <4>8, <4>1, <4>2, <4>3, <4>7
      <4>9. \A b, d \in Clients : Unseen(b)' /\ Unseen(d)' /\ b # d => call'[b].twin /\ call'[d].twin
        BY <4>1, <4>2
      <4> QED BY <4>4, <4>5, <4>6, <4>8, <4>9, <2>f DEF LaunchesAreAlone
    <3> QED BY <3>1, <3>2, <2>a
  <2>7. SearchesAreRight'
    BY <2>a, <2>b, <2>f DEF SearchesAreRight, OnlyNew, IsExcused, Unseen
  <2> QED BY <2>1, <2>2, <2>3, <2>4, <2>5, <2>6, <2>7 DEF CodexInv
<1>8. ASSUME NEW c \in Clients, NEW p \in Procs, Launch(c, p) PROVE CodexInv'
  <2> DEFINE i == IF call[c].id = NoID THEN Temp(p) ELSE call[c].id
  <2>b. /\ call[c].at = "launch" /\ pstate[p] = "none" /\ i \in IDs
        /\ call[c].id # NoID => i = call[c].id /\ i \in Reals
        /\ call[c].id = NoID => i = Temp(p)
        /\ call[c].proc = NoProc /\ p \notin filed /\ watcher[p].at = "off"
    <3>1. call[c].at = "launch" /\ pstate[p] = "none"
      BY <1>8 DEF Launch
    <3>2. call[c].id \in Reals \cup {NoID}
      BY DEF TypeOK
    <3> QED BY <3>1, <3>2, IDsDiffer DEF CallersAreOwners, Holding
  <2>a. /\ call' \in [Clients -> CallState] /\ \A d \in Clients : d # c => call'[d] = call[d]
        /\ call'[c].at = "file" /\ call'[c].id = call[c].id /\ call'[c].proc = p
        /\ call'[c].before = call[c].before /\ call'[c].twin = call[c].twin
        /\ pstate' \in [Procs -> {"none", "live", "exited", "reaping", "reaped"}]
        /\ pstate'[p] = "live" /\ \A q \in Procs : q # p => pstate'[q] = pstate[q]
        /\ origin' \in [Procs -> IDs \cup {NoID}]
        /\ origin'[p] = i /\ \A q \in Procs : q # p => origin'[q] = origin[q]
        /\ sessionID' \in [Procs -> IDs \cup {NoID}]
        /\ sessionID'[p] = i /\ \A q \in Procs : q # p => sessionID'[q] = sessionID[q]
    <3> DEFINE u == [[call[c] EXCEPT !.at = "file"] EXCEPT !.proc = p]
    <3>1. call[c] \in CallState
      BY DEF TypeOK, CallState
    <3>2. /\ u.at = "file" /\ u.id = call[c].id /\ u.proc = p
          /\ u.before = call[c].before /\ u.twin = call[c].twin /\ u \in CallState
      BY <3>1 DEF CallState
    <3>3. call' = [call EXCEPT ![c] = u]
      BY <1>8 DEF Launch, TypeOK
    <3>4. /\ pstate' = [pstate EXCEPT ![p] = "live"]
          /\ origin' = [origin EXCEPT ![p] = i]
          /\ sessionID' = [sessionID EXCEPT ![p] = i]
      BY <1>8 DEF Launch
    <3> HIDE DEF u, i
    <3> QED BY <3>2, <3>3, <3>4, <2>b DEF TypeOK, CallState
  <2>c. /\ hasty \subseteq hasty' /\ hasty' \subseteq Procs
        /\ call[c].twin => p \in hasty'
    BY <1>8 DEF Launch, TypeOK
  <2>d. /\ p \notin displaced /\ call[c].twin \in BOOLEAN
        /\ \A j \in IDs : codexSessions[j] # p
        /\ \A d \in Clients : call[d].at \in Holding => call[d].proc # p
        /\ \A k \in killers : k[2] # p
    <3>1. \A d \in Clients : call[d].at \in Holding => call[d].proc # p
      BY <2>b DEF CallersAreOwners, FiledUnderOrigin, Holding, Filing
    <3>2. \A j \in IDs : codexSessions[j] # p
      BY <2>b, NoProcAssumption DEF EntriesAgree, ProcessesAreReachable, Managed, Unreaped
    <3> QED BY <3>1, <3>2, <2>b DEF EntriesAgree, KillsFind, TypeOK
  <2> HIDE DEF i
  <2>f. UNCHANGED <<codexSessions, filed, history, wrote, registered, watcher, killers,
                    interrupted, calls, resolved, displaced, lost>>
    BY <1>8 DEF Launch, procVars, ghosts
  <2>1. TypeOK'
    BY <2>a, <2>c, <2>f DEF TypeOK, CallState
  <2>2. CallersAreOwners'
    BY <2>a, <2>b, <2>d, <2>f DEF CallersAreOwners, Holding, Filing
  <2>3. FiledUnderOrigin'
    <3>1. ASSUME NEW d \in Clients, d # c, call[d].at = "file" PROVE call[d].proc # p /\ call[d].proc \in Procs
      BY <3>1, <2>d DEF Holding, CallersAreOwners
    <3> QED BY <3>1, <2>a, <2>b, <2>f DEF FiledUnderOrigin
  <2>4. EntriesAgree'
    <3>1. \A q \in Procs : Unreaped(q)' => q # p /\ Unreaped(q)
      BY <2>a, <2>b, <2>f DEF Unreaped
    <3>2. \A q \in Procs : q # p /\ Unreaped(q) => Unreaped(q)'
      BY <2>a, <2>f DEF Unreaped
    <3>3. \A j \in IDs : codexSessions[j] # NoProc => codexSessions[j] \in Procs /\ codexSessions[j] # p
      BY <2>d DEF TypeOK
    <3>4. ProcessesAreReachable'
      <4>1. ASSUME NEW q \in Procs, Unreaped(q)' PROVE codexSessions[sessionID'[q]] = q \/ q \in displaced
        BY <4>1, <3>1, <2>a DEF EntriesAgree, ProcessesAreReachable
      <4>2. ASSUME NEW j \in IDs, codexSessions[j] # NoProc
            PROVE  Unreaped(codexSessions[j])' /\ sessionID'[codexSessions[j]] = j
        <5> DEFINE q == codexSessions[j]
        <5>1. q \in Procs /\ q # p /\ Unreaped(q) /\ sessionID[q] = j
          BY <4>2, <3>3 DEF EntriesAgree, ProcessesAreReachable, Managed
        <5>2. \A x \in Procs : x # p /\ Unreaped(x) => Unreaped(x)' /\ sessionID'[x] = sessionID[x]
          BY <3>2, <2>a
        <5>3. UNCHANGED codexSessions
          BY <2>f
        <5>4. ASSUME NEW x, x = codexSessions[j], x \in Procs, x # p, Unreaped(x) PROVE Unreaped(codexSessions[j])'
          BY <5>3, <5>4, <2>a, <2>f DEF Unreaped
        <5> QED BY <5>1, <5>2, <5>4
      <4> QED BY <4>1, <4>2, <2>f DEF ProcessesAreReachable, Managed
    <3>5. \A x \in Clients : call'[x].at \in {"poll", "watch"} => call[x] = call'[x] /\ call[x].proc # p /\ call[x].proc \in Procs
      BY <2>a, <2>d DEF Holding, CallersAreOwners
    <3>6. \A q \in Procs : pstate'[q] # "none" => sessionID'[q] \in {Temp(q)} \cup Reals
      BY <2>a, <2>b DEF EntriesAgree
    <3>7. \A q \in displaced : q \in filed /\ sessionID'[q] \in Reals
      BY <2>a, <2>d DEF EntriesAgree, TypeOK
    <3>8. \A x \in Clients : call'[x].at \in {"poll", "watch"} => sessionID'[call'[x].proc] = Temp(call'[x].proc)
      BY <3>5, <2>a DEF EntriesAgree
    <3> QED BY <3>4, <3>6, <3>7, <3>8, <2>f DEF EntriesAgree
  <2>5. KillsFind'
    BY <2>a, <2>d, <2>f DEF KillsFind, TypeOK
  <2>6. LaunchesAreAlone'
    <3>1. CASE call[c].id = NoID
      <4>1. \A d \in Clients : Unseen(d)' <=> Unseen(d)
        BY <3>1, <2>a, <2>b DEF Unseen
      <4>2. Unseen(c)
        BY <3>1, <2>b DEF Unseen
      <4>3. \A q \in Writers' : q = p \/ q \in Writers
        BY <2>a, <2>f DEF Writers
      <4>4. ASSUME NEW d \in Clients, Unseen(d), ~call'[d].twin PROVE d = c /\ Writers \subseteq {}
        <5>1. d = c
          BY <4>2, <4>4, <2>a DEF LaunchesAreAlone
        <5>2. \A q \in Writers : q = call[c].proc
          BY <4>4, <5>1, <2>a DEF LaunchesAreAlone
        <5> QED BY <5>1, <5>2, <2>b, NoProcAssumption DEF Writers
      <4>5. \A d \in Clients : call'[d].at = "file" /\ call'[d].id = NoID /\ call'[d].twin => call'[d].proc \in hasty'
        BY <2>a, <2>c DEF LaunchesAreAlone
      <4>6. \A b, d \in Clients : Unseen(b)' /\ Unseen(d)' /\ b # d => call'[b].twin /\ call'[d].twin
        BY <4>1, <2>a DEF LaunchesAreAlone
      <4>7. \A x \in Procs : ~(codexSessions[Temp(x)] = x /\ pstate[x] = "live" /\ x \notin hasty)
        BY <4>2 DEF LaunchesAreAlone
      <4>8. \A x \in Procs : codexSessions[Temp(x)] = x => x # p
        BY <2>d, IDsDiffer
      <4>9. ASSUME NEW d \in Clients, Unseen(d)', ~call'[d].twin PROVE \A q \in Writers' : q = call'[d].proc
        BY <4>1, <4>3, <4>4, <4>9, <2>a
      <4> QED BY <4>5, <4>6, <4>7, <4>8, <4>9, <2>a, <2>c, <2>f DEF LaunchesAreAlone
    <3>2. CASE call[c].id # NoID
      <4>1. \A d \in Clients : Unseen(d)' <=> Unseen(d) /\ d # c
        BY <3>2, <2>a, <2>b DEF Unseen
      <4>2. Writers' \subseteq Writers
        BY <3>2, <2>a, <2>b, <2>f, IDsDiffer DEF Writers
      <4>3. \A x \in Procs : codexSessions[Temp(x)] = x => x # p
        BY <2>d, IDsDiffer
      <4> QED BY <3>2, <4>1, <4>2, <4>3, <2>a, <2>c, <2>f DEF LaunchesAreAlone
    <3> QED BY <3>1, <3>2
  <2>7. SearchesAreRight'
    <3>2. ASSUME Unseen(c)', ~call'[c].twin PROVE OnlyNew(p, call[c].before)
      <4>1. OnlyNew(NoProc, call[c].before)
        <5>1. Unseen(c) /\ ~call[c].twin /\ call[c].at # "snapshot"
          BY <3>2, <2>a, <2>b DEF Unseen
        <5> QED BY <5>1, <2>b DEF SearchesAreRight, OnlyNew
      <4> QED BY <4>1, <2>a, <2>f, NoProcAssumption DEF OnlyNew
    <3>3. ASSUME NEW d \in Clients, d # c
          PROVE  /\ Unseen(d)' => Unseen(d)
                 /\ call[d].at \in {"poll", "watch", "remap", "announce"} => call[d].proc # p /\ call[d].proc \in Procs
      BY <3>3, <2>a, <2>d DEF Unseen, Holding, CallersAreOwners
    <3>4. ASSUME NEW x \in Procs, NEW y, x # p, IsExcused(x, y) PROVE IsExcused(x, y)'
      BY <3>4, <2>a, <2>c DEF IsExcused
    <3>5. \A x \in Procs : watcher[x].at # "off" => x # p
      BY <2>b
    <3>6. \A r \in resolved : IsExcused(r[1], r[2])'
      <4> SUFFICES ASSUME NEW r \in resolved PROVE IsExcused(r[1], r[2])'
        OBVIOUS
      <4>1. r[1] \in Procs /\ IsExcused(r[1], r[2])
        BY DEF TypeOK, SearchesAreRight
      <4>2. r[1] # p
        BY <2>b DEF SearchesAreRight
      <4> QED BY <4>1, <4>2, <3>4
    <3> QED BY <3>2, <3>3, <3>4, <3>5, <3>6, <2>a, <2>b, <2>c, <2>f DEF SearchesAreRight, OnlyNew
  <2> QED BY <2>1, <2>2, <2>3, <2>4, <2>5, <2>6, <2>7 DEF CodexInv
<1>9. ASSUME NEW c \in Clients, File(c) PROVE CodexInv'
  <2> DEFINE p == call[c].proc
             i == sessionID[p]
  <2>b. /\ call[c].at = "file" /\ p \in Procs /\ i \in IDs /\ p \notin filed /\ p \notin displaced
        /\ pstate[p] \in {"live", "exited"} /\ watcher[p].at = "off" /\ p # NoProc
        /\ call[c].id = NoID => i = Temp(p) /\ origin[p] = Temp(p)
        /\ call[c].id # NoID => i \in Reals
    <3>1. call[c].at = "file"
      BY <1>9 DEF File
    <3>2. p \in Procs /\ watcher[p].at = "off"
      BY <3>1 DEF CallersAreOwners, Holding
    <3>3. /\ pstate[p] \in {"live", "exited"} /\ p \notin filed /\ i = origin[p]
          /\ origin[p] = IF call[c].id = NoID THEN Temp(p) ELSE call[c].id
      BY <3>1 DEF FiledUnderOrigin
    <3>4. call[c].id \in Reals \cup {NoID}
      BY DEF TypeOK
    <3>5. p \notin displaced
      BY <3>3 DEF EntriesAgree
    <3> QED BY <3>1, <3>2, <3>3, <3>4, <3>5, IDsDiffer, NoProcAssumption
  <2>a. /\ call' \in [Clients -> CallState] /\ \A d \in Clients : d # c => call'[d] = call[d]
        /\ \/ /\ call[c].id = NoID /\ call'[c].at = "poll" /\ call'[c].id = NoID /\ call'[c].proc = p
              /\ call'[c].before = call[c].before /\ call'[c].twin = call[c].twin
           \/ /\ call[c].id # NoID
              /\ call'[c].at = "idle" /\ call'[c].id = NoID /\ call'[c].proc = NoProc
              /\ call'[c].before = {} /\ call'[c].twin = FALSE
    <3>1. CASE call[c].id = NoID
      <4>1. Go(c, "poll")
        BY <1>9, <3>1 DEF File
      <4> QED BY <3>1, <4>1, GoDoes
    <3>2. CASE call[c].id # NoID
      <4>1. Return(c)
        BY <1>9, <3>2 DEF File
      <4> QED BY <3>2, <4>1, ReturnDoes
    <3> QED BY <3>1, <3>2
  <2>c. /\ codexSessions' \in [IDs -> Procs \cup {NoProc}]
        /\ codexSessions'[i] = p /\ \A j \in IDs : j # i => codexSessions'[j] = codexSessions[j]
        /\ displaced' = displaced \cup ({codexSessions[i]} \ {NoProc})
        /\ filed' = filed \cup {p}
    <3>1. /\ codexSessions' = [codexSessions EXCEPT ![i] = p]
          /\ displaced' = displaced \cup ({codexSessions[i]} \ {NoProc})
          /\ filed' = filed \cup {p}
      BY <1>9 DEF File
    <3> QED BY <3>1, <2>b DEF TypeOK
  <2>d. /\ \A j \in IDs : codexSessions[j] # p
        /\ codexSessions[i] # NoProc => /\ codexSessions[i] \in filed /\ codexSessions[i] \in Procs
                                        /\ sessionID[codexSessions[i]] = i /\ i \in Reals
        /\ \A d \in Clients : d # c /\ call[d].at \in Holding => call[d].proc # p
    <3>1. \A j \in IDs : codexSessions[j] # p
      BY <2>b DEF EntriesAgree, ProcessesAreReachable, Managed, Unreaped
    <3>2. ASSUME codexSessions[i] # NoProc
          PROVE  /\ codexSessions[i] \in filed /\ codexSessions[i] \in Procs
                 /\ sessionID[codexSessions[i]] = i /\ i \in Reals
      <4>1. codexSessions[i] \in filed /\ sessionID[codexSessions[i]] = i /\ codexSessions[i] \in Procs
        BY <3>2, <2>b DEF EntriesAgree, ProcessesAreReachable, Managed, Unreaped, TypeOK
      <4>2. i # Temp(p)
        BY <3>1, <3>2, <2>b, TempIsOwn
      <4> QED BY <4>1, <4>2, <2>b
    <3>3. \A d \in Clients : d # c /\ call[d].at \in Holding => call[d].proc # p
      BY <2>b DEF CallersAreOwners, Holding
    <3> QED BY <3>1, <3>2, <3>3
  <2> HIDE DEF p, i
  <2>f. UNCHANGED <<sessionID, pstate, origin, history, wrote, registered, watcher, killers,
                    interrupted, calls, resolved, lost, hasty>>
    BY <1>9 DEF File, procVars, ghosts
  <2>1. TypeOK'
    BY <2>a, <2>b, <2>c, <2>d, <2>f DEF TypeOK, CallState
  <2>2. CallersAreOwners'
    BY <2>a, <2>b, <2>c, <2>d, <2>f DEF CallersAreOwners, Holding, Filing, p
  <2>3. FiledUnderOrigin'
    <3>1. ASSUME NEW d \in Clients, call'[d].at = "file" PROVE d # c /\ call'[d] = call[d] /\ call[d].proc # p /\ call[d].proc \in Procs
      BY <3>1, <2>a, <2>d DEF CallersAreOwners, Holding
    <3> QED BY <3>1, <2>c, <2>f DEF FiledUnderOrigin
  <2>4. EntriesAgree'
    <3>1. ProcessesAreReachable'
      <4>1. ASSUME NEW q \in Procs, Unreaped(q)' PROVE codexSessions'[sessionID[q]] = q \/ q \in displaced'
        <5>1. CASE q = p
          BY <5>1, <2>c DEF i
        <5>2. CASE q # p
          <6>1. Unreaped(q) /\ sessionID[q] \in IDs
            BY <4>1, <5>2, <2>c, <2>f, IDsDiffer DEF Unreaped, EntriesAgree
          <6>2. codexSessions[sessionID[q]] = q \/ q \in displaced
            BY <6>1 DEF EntriesAgree, ProcessesAreReachable
          <6> QED BY <6>1, <6>2, <2>c, NoProcAssumption
        <5> QED BY <5>1, <5>2
      <4>2. ASSUME NEW j \in IDs, NEW x, x = codexSessions'[j], x # NoProc
            PROVE  x \in filed' /\ pstate[x] \in {"live", "exited"} /\ sessionID[x] = j
        <5>1. CASE j = i
          BY <4>2, <5>1, <2>b, <2>c DEF i
        <5>2. CASE j # i
          <6>1. codexSessions'[j] = codexSessions[j]
            BY <5>2, <2>c
          <6>2. x \in filed /\ pstate[x] \in {"live", "exited"} /\ sessionID[x] = j
            BY <4>2, <6>1 DEF EntriesAgree, ProcessesAreReachable, Managed, Unreaped
          <6> QED BY <6>2, <2>c
        <5> QED BY <5>1, <5>2
      <4> QED BY <4>1, <4>2, <2>f DEF ProcessesAreReachable, Managed, Unreaped
    <3>2. \A q \in displaced' : q \in filed' /\ sessionID[q] \in Reals
      BY <2>c, <2>d DEF EntriesAgree
    <3>3. ASSUME NEW d \in Clients, call'[d].at \in {"poll", "watch"} PROVE sessionID[call'[d].proc] = Temp(call'[d].proc)
      <4>1. CASE d = c
        BY <3>3, <4>1, <2>a, <2>b DEF i
      <4>2. CASE d # c
        BY <3>3, <4>2, <2>a DEF EntriesAgree
      <4> QED BY <4>1, <4>2
    <3> QED BY <3>1, <3>2, <3>3, <2>f DEF EntriesAgree
  <2>5. KillsFind'
    <3> SUFFICES ASSUME NEW k \in killers,
                        NEW j, j = k[1], NEW x, x = k[2]
                 PROVE  /\ x \in interrupted /\ x \in filed'
                        /\ \/ pstate[x] # "live"
                           \/ x \in lost
                           \/ /\ sessionID[x] = j /\ codexSessions'[j] # NoProc
                              /\ codexSessions'[j] = x \/ x \in displaced'
      BY <2>f DEF KillsFind
    <3>1. /\ j \in IDs /\ x \in Procs /\ x \in interrupted /\ x \in filed
          /\ \/ pstate[x] # "live"
             \/ x \in lost
             \/ /\ sessionID[x] = j /\ codexSessions[j] # NoProc
                /\ codexSessions[j] = x \/ x \in displaced
      BY DEF KillsFind, TypeOK
    <3> QED BY <3>1, <2>b, <2>c, NoProcAssumption
  <2>6. LaunchesAreAlone'
    <3>1. \A d \in Clients : Unseen(d)' => Unseen(d) /\ d # c
      BY <2>a, <2>b DEF Unseen
    <3>2. Writers' = Writers
      BY <2>f DEF Writers
    <3>3. ASSUME NEW q \in Procs, codexSessions'[Temp(q)] = q, pstate[q] = "live", q \notin hasty
          PROVE  (\A x \in Writers : x = q) /\ \A d \in Clients : ~Unseen(d)'
      <4>1. CASE Temp(q) # i
        BY <3>1, <3>3, <4>1, <2>c, IDsDiffer DEF LaunchesAreAlone
      <4>2. CASE Temp(q) = i
        <5>1. q = p /\ call[c].id = NoID
          BY <3>3, <4>2, <2>b, <2>c, IDsDiffer
        <5>2. ~call[c].twin /\ Unseen(c)
          BY <3>3, <5>1, <2>b DEF LaunchesAreAlone, Unseen, p
        <5>3. \A x \in Writers : x = q
          BY <5>1, <5>2 DEF LaunchesAreAlone, p
        <5>4. \A d \in Clients : ~Unseen(d)'
          BY <3>1, <5>2 DEF LaunchesAreAlone
        <5> QED BY <5>3, <5>4
      <4> QED BY <4>1, <4>2
    <3>4. \A b, d \in Clients : Unseen(b)' /\ Unseen(d)' /\ b # d => call'[b].twin /\ call'[d].twin
      BY <3>1, <2>a DEF LaunchesAreAlone
    <3>5. ASSUME NEW d \in Clients
          PROVE  /\ call'[d].at = "file" /\ call'[d].id = NoID /\ call'[d].twin => call'[d].proc \in hasty
                 /\ Unseen(d)' /\ ~call'[d].twin => \A q \in Writers : q = call'[d].proc
      BY <3>1, <2>a DEF LaunchesAreAlone
    <3> QED BY <3>2, <3>3, <3>4, <3>5, <2>f DEF LaunchesAreAlone
  <2>7. SearchesAreRight'
    <3>1. \A d \in Clients : Unseen(d)' => Unseen(d) /\ d # c
      BY <2>a, <2>b DEF Unseen
    <3>2. call[c].id = NoID /\ p \notin hasty => OnlyNew(p, call[c].before)
      <4>1. SUFFICES ASSUME call[c].id = NoID, p \notin hasty PROVE OnlyNew(p, call[c].before)
        OBVIOUS
      <4>2. ~call[c].twin /\ Unseen(c)
        BY <4>1, <2>b DEF LaunchesAreAlone, Unseen, p
      <4> QED BY <4>2, <2>b DEF SearchesAreRight, p
    <3>3. ASSUME NEW d \in Clients
          PROVE  /\ Unseen(d)' /\ ~call'[d].twin /\ call'[d].at # "snapshot" => OnlyNew(call'[d].proc, call'[d].before)
                 /\ call'[d].at \in {"poll", "watch"} /\ pstate[call'[d].proc] = "live" /\ call'[d].proc \notin hasty
                      => OnlyNew(call'[d].proc, call'[d].before)
                 /\ call'[d].at \in {"remap", "announce"} => IsExcused(call'[d].proc, call'[d].id)
      <4>1. CASE d = c
        BY <3>1, <3>2, <4>1, <2>a
      <4>2. CASE d # c
        BY <3>1, <4>2, <2>a DEF SearchesAreRight
      <4> QED BY <4>1, <4>2
    <3>4. ASSUME NEW q \in Procs, watcher[q].at = "on" PROVE codexSessions'[Temp(q)] = q => codexSessions[Temp(q)] = q
      <4>1. q # p
        BY <3>4, <2>b
      <4>2. CASE Temp(q) = i
        BY <4>1, <4>2, <2>b, <2>c, IDsDiffer
      <4>3. CASE Temp(q) # i
        BY <4>3, <2>c, IDsDiffer
      <4> QED BY <4>2, <4>3
    <3>5. \A r \in resolved : r[1] \in filed'
      BY <2>c DEF SearchesAreRight
    <3> QED BY <3>3, <3>4, <3>5, <2>f DEF SearchesAreRight, OnlyNew, IsExcused
  <2> QED BY <2>1, <2>2, <2>3, <2>4, <2>5, <2>6, <2>7 DEF CodexInv
<1>10. ASSUME NEW c \in Clients, Poll(c) PROVE CodexInv'
  <2>p. PICK i \in history \ call[c].before : call' = [call EXCEPT ![c].at = "remap", ![c].id = i]
    BY <1>10 DEF Poll
  <2>a. /\ call' \in [Clients -> CallState] /\ \A d \in Clients : d # c => call'[d] = call[d]
        /\ call'[c].at = "remap" /\ call'[c].id = i /\ call'[c].proc = call[c].proc
        /\ call'[c].before = call[c].before /\ call'[c].twin = call[c].twin
    <3> DEFINE u == [[call[c] EXCEPT !.at = "remap"] EXCEPT !.id = i]
    <3>1. call[c] \in CallState /\ i \in Reals
      BY <2>p DEF TypeOK, CallState
    <3>2. /\ u.at = "remap" /\ u.id = i /\ u.proc = call[c].proc
          /\ u.before = call[c].before /\ u.twin = call[c].twin /\ u \in CallState
      BY <3>1 DEF CallState
    <3>3. call' = [call EXCEPT ![c] = u]
      BY <2>p DEF TypeOK
    <3> HIDE DEF u
    <3> QED BY <3>2, <3>3 DEF TypeOK, CallState
  <2>b. call[c].at = "poll" /\ i \in Reals
    BY <1>10, <2>p DEF Poll, TypeOK
  <2>c. IsExcused(call[c].proc, i)
    <3>1. call[c].proc \in Procs /\ pstate[call[c].proc] # "none"
      BY <2>b DEF CallersAreOwners, Holding, Filing
    <3>2. CASE pstate[call[c].proc] = "live" /\ call[c].proc \notin hasty
      <4>1. OnlyNew(call[c].proc, call[c].before)
        BY <2>b, <3>2 DEF SearchesAreRight
      <4>2. PICK q \in Procs : i = Real(q)
        BY <2>b, IDsDiffer
      <4> QED BY <2>p, <4>1, <4>2 DEF OnlyNew, IsExcused
    <3>3. CASE pstate[call[c].proc] # "live" \/ call[c].proc \in hasty
      BY <3>1, <3>3 DEF IsExcused, TypeOK
    <3> QED BY <3>2, <3>3
  <2>f. UNCHANGED <<codexSessions, sessionID, pstate, origin, filed, history, wrote, registered,
                    watcher, killers, interrupted, calls, resolved, displaced, lost, hasty>>
    BY <1>10 DEF Poll, procVars, ghosts
  <2>1. TypeOK'
    BY <2>a, <2>b, <2>c, <2>f DEF TypeOK, CallState
  <2>2. CallersAreOwners'
    BY <2>a, <2>b, <2>c, <2>f DEF CallersAreOwners, Holding, Filing
  <2>3. FiledUnderOrigin'
    BY <2>a, <2>b, <2>c, <2>f DEF FiledUnderOrigin
  <2>4. EntriesAgree'
    BY <2>a, <2>b, <2>c, <2>f DEF EntriesAgree, ProcessesAreReachable, Unreaped, Managed
  <2>5. KillsFind'
    BY <2>a, <2>b, <2>c, <2>f DEF KillsFind
  <2>6. LaunchesAreAlone'
    BY <2>a, <2>b, <2>c, <2>f DEF LaunchesAreAlone, Unseen, Writers
  <2>7. SearchesAreRight'
    BY <2>a, <2>b, <2>c, <2>f DEF SearchesAreRight, OnlyNew, IsExcused, Unseen
  <2> QED BY <2>1, <2>2, <2>3, <2>4, <2>5, <2>6, <2>7 DEF CodexInv
<1>11. ASSUME NEW c \in Clients, RemapFound(c) PROVE CodexInv'
  <2>a. /\ call' \in [Clients -> CallState] /\ \A d \in Clients : d # c => call'[d] = call[d]
        /\ call'[c].at = "announce" /\ call'[c].id = call[c].id /\ call'[c].proc = call[c].proc
        /\ call'[c].before = call[c].before /\ call'[c].twin = call[c].twin
    BY <1>11, GoDoes DEF RemapFound
  <2>b. call[c].at = "remap" /\ Remap(call[c].proc, call[c].id)
        /\ call[c].proc \in Procs /\ call[c].id \in Reals
    BY <1>11 DEF RemapFound, CallersAreOwners, Holding
  <2>f. UNCHANGED <<pstate, origin, filed, history, wrote, registered, watcher, killers,
                    interrupted, calls, resolved, hasty>>
    BY <1>11 DEF RemapFound, procVars, ghosts
  <2>c. /\ codexSessions' \in [IDs -> Procs \cup {NoProc}]
        /\ sessionID' \in [Procs -> IDs \cup {NoID}]
        /\ displaced' \subseteq Procs /\ lost' \subseteq Procs
        /\ ProcessesAreReachable'
        /\ \A q \in Procs : pstate[q] # "none" => sessionID'[q] \in {Temp(q)} \cup Reals
        /\ \A q \in displaced' : q \in filed /\ sessionID'[q] \in Reals
        /\ \A q \in Procs : q # call[c].proc => sessionID'[q] = sessionID[q]
        /\ \A q \in Procs : codexSessions'[Temp(q)] = q => codexSessions[Temp(q)] = q
        /\ KillsFind'
    BY <2>b, <2>f, RemapKeeps
  <2>d. /\ \A d \in Clients : d # c /\ call[d].at \in Holding => call[d].proc # call[c].proc /\ call[d].proc \in Procs
        /\ call[c].proc \in filed
    BY <2>b DEF CallersAreOwners, Holding, Filing
  <2>1. TypeOK'
    BY <2>a, <2>b, <2>c, <2>d, <2>f DEF TypeOK, CallState
  <2>2. CallersAreOwners'
    BY <2>a, <2>b, <2>c, <2>d, <2>f DEF CallersAreOwners, Holding, Filing
  <2>3. FiledUnderOrigin'
    <3>1. \A d \in Clients : call'[d].at = "file" => d # c /\ call'[d] = call[d] /\ sessionID'[call[d].proc] = sessionID[call[d].proc]
      BY <2>a, <2>c, <2>d DEF Holding
    <3> QED BY <3>1, <2>f DEF FiledUnderOrigin
  <2>4. EntriesAgree'
    <3>1. \A d \in Clients : call'[d].at \in {"poll", "watch"} => d # c /\ call'[d] = call[d] /\ sessionID'[call[d].proc] = sessionID[call[d].proc]
      BY <2>a, <2>c, <2>d DEF Holding
    <3> QED BY <3>1, <2>c, <2>f DEF EntriesAgree
  <2>5. KillsFind'
    BY <2>c
  <2>6. LaunchesAreAlone'
    BY <2>a, <2>b, <2>c, <2>d, <2>f DEF LaunchesAreAlone, Unseen, Writers
  <2>7. SearchesAreRight'
    BY <2>a, <2>b, <2>c, <2>d, <2>f DEF SearchesAreRight, OnlyNew, IsExcused, Unseen
  <2> QED BY <2>1, <2>2, <2>3, <2>4, <2>5, <2>6, <2>7 DEF CodexInv
<1>12. ASSUME NEW c \in Clients, Announce(c) PROVE CodexInv'
  <2>a. /\ call' \in [Clients -> CallState] /\ \A d \in Clients : d # c => call'[d] = call[d]
        /\ call'[c].at = "idle" /\ call'[c].id = NoID /\ call'[c].proc = NoProc
        /\ call'[c].before = {} /\ call'[c].twin = FALSE
    BY <1>12, ReturnDoes DEF Announce
  <2>b. call[c].at = "announce" /\ call[c].proc \in Procs /\ call[c].id \in Reals /\ call[c].proc \in filed
        /\ resolved' = resolved \cup {<<call[c].proc, call[c].id>>}
    BY <1>12 DEF Announce, CallersAreOwners, Holding, Filing
  <2>f. UNCHANGED <<codexSessions, sessionID, pstate, origin, filed, history, wrote, registered,
                    watcher, killers, interrupted, calls, displaced, lost, hasty>>
    BY <1>12 DEF Announce, procVars, ghosts
  <2>1. TypeOK'
    BY <2>a, <2>b, <2>f DEF TypeOK, CallState
  <2>2. CallersAreOwners'
    BY <2>a, <2>b, <2>f DEF CallersAreOwners, Holding, Filing
  <2>3. FiledUnderOrigin'
    BY <2>a, <2>b, <2>f DEF FiledUnderOrigin
  <2>4. EntriesAgree'
    BY <2>a, <2>b, <2>f DEF EntriesAgree, ProcessesAreReachable, Unreaped, Managed
  <2>5. KillsFind'
    BY <2>a, <2>b, <2>f DEF KillsFind
  <2>6. LaunchesAreAlone'
    BY <2>a, <2>b, <2>f DEF LaunchesAreAlone, Unseen, Writers
  <2>7. SearchesAreRight'
    BY <2>a, <2>b, <2>f DEF SearchesAreRight, OnlyNew, IsExcused, Unseen
  <2> QED BY <2>1, <2>2, <2>3, <2>4, <2>5, <2>6, <2>7 DEF CodexInv
<1>13. ASSUME NEW c \in Clients, StartWatcher(c) PROVE CodexInv'
  <2>a. /\ call' \in [Clients -> CallState] /\ \A d \in Clients : d # c => call'[d] = call[d]
        /\ call'[c].at = "idle" /\ call'[c].id = NoID /\ call'[c].proc = NoProc
        /\ call'[c].before = {} /\ call'[c].twin = FALSE
    BY <1>13, ReturnDoes DEF StartWatcher
  <2>b. call[c].at = "watch" /\ call[c].proc \in Procs /\ call[c].proc \in filed
    BY <1>13 DEF StartWatcher, CallersAreOwners, Holding, Filing
  <2> DEFINE p == call[c].proc
             w == [at |-> "on", id |-> NoID, before |-> call[c].before]
  <2>c. /\ watcher' \in [Procs -> WatcherState] /\ \A q \in Procs : q # p => watcher'[q] = watcher[q]
        /\ watcher'[p].at = "on" /\ watcher'[p].before = call[c].before
        /\ registered' \subseteq Procs
    <3>1. w \in WatcherState /\ w.at = "on" /\ w.before = call[c].before
      BY DEF WatcherState, TypeOK
    <3>2. watcher' = [watcher EXCEPT ![p] = w] /\ registered' = registered \cup {p}
      BY <1>13 DEF StartWatcher
    <3> HIDE DEF w
    <3> QED BY <3>1, <3>2, <2>b DEF TypeOK, WatcherState
  <2>d. \A d \in Clients : d # c /\ call[d].at \in Holding => call[d].proc # p
    BY <2>b DEF CallersAreOwners, Holding
  <2>f. UNCHANGED <<codexSessions, sessionID, pstate, origin, filed, history, wrote, killers,
                    interrupted, calls, resolved, displaced, lost, hasty>>
    BY <1>13 DEF StartWatcher, procVars, ghosts
  <2>1. TypeOK'
    BY <2>a, <2>b, <2>c, <2>f DEF TypeOK, CallState, WatcherState
  <2>2. CallersAreOwners'
    BY <2>a, <2>b, <2>c, <2>d, <2>f DEF CallersAreOwners, Holding, Filing
  <2>3. FiledUnderOrigin'
    BY <2>a, <2>b, <2>f DEF FiledUnderOrigin
  <2>4. EntriesAgree'
    BY <2>a, <2>b, <2>f DEF EntriesAgree, ProcessesAreReachable, Unreaped, Managed
  <2>5. KillsFind'
    BY <2>a, <2>b, <2>f DEF KillsFind
  <2>6. LaunchesAreAlone'
    BY <2>a, <2>b, <2>f DEF LaunchesAreAlone, Unseen, Writers
  <2>7. SearchesAreRight'
    BY <2>a, <2>b, <2>c, <2>d, <2>f DEF SearchesAreRight, OnlyNew, IsExcused, Unseen
  <2> QED BY <2>1, <2>2, <2>3, <2>4, <2>5, <2>6, <2>7 DEF CodexInv
<1>14. ASSUME NEW c \in Clients, StopOld(c) PROVE CodexInv'
  <2>a. /\ call' \in [Clients -> CallState] /\ \A d \in Clients : d # c => call'[d] = call[d]
        /\ call'[c].at = "launch" /\ call'[c].id = call[c].id /\ call'[c].proc = call[c].proc
        /\ call'[c].before = call[c].before /\ call'[c].twin = call[c].twin
    BY <1>14, GoDoes DEF StopOld
  <2>b. call[c].at = "stop" /\ call[c].id \in Reals /\ Interrupt(call[c].id)
    BY <1>14 DEF StopOld, CallersAreOwners
  <2>c. call[c].id \in IDs /\ call[c].id # NoID
    BY <2>b, IDsDiffer
  <2>f. UNCHANGED <<codexSessions, sessionID, pstate, origin, filed, history, wrote, registered,
                    watcher, calls, resolved, displaced, lost, hasty>>
    BY <1>14 DEF StopOld, procVars, ghosts
  <2>1. TypeOK'
    <3>1. interrupted' \subseteq Procs /\ killers' \subseteq IDs \X Procs
      BY <2>b, <2>c DEF Interrupt, TypeOK
    <3> QED BY <3>1, <2>a, <2>f DEF TypeOK, CallState
  <2>2. CallersAreOwners'
    BY <2>a, <2>b, <2>c, <2>f DEF CallersAreOwners, Holding, Filing
  <2>3. FiledUnderOrigin'
    BY <2>a, <2>b, <2>c, <2>f DEF FiledUnderOrigin
  <2>4. EntriesAgree'
    BY <2>a, <2>b, <2>c, <2>f DEF EntriesAgree, ProcessesAreReachable, Unreaped, Managed
  <2>5. KillsFind'
    BY <2>b, <2>c, <2>f, InterruptFinds
  <2>6. LaunchesAreAlone'
    BY <2>a, <2>b, <2>c, <2>f DEF LaunchesAreAlone, Unseen, Writers
  <2>7. SearchesAreRight'
    BY <2>a, <2>b, <2>c, <2>f DEF SearchesAreRight, OnlyNew, IsExcused, Unseen
  <2> QED BY <2>1, <2>2, <2>3, <2>4, <2>5, <2>6, <2>7 DEF CodexInv
<1>15. ASSUME NEW j \in IDs, StopCodexSession(j) PROVE CodexInv'
  <2>b. Interrupt(j) /\ calls' \in 0 .. MaxCalls
    BY <1>15, CodexAssumption DEF StopCodexSession, TypeOK
  <2>f. UNCHANGED <<codexSessions, sessionID, pstate, origin, filed, history, wrote, registered,
                    watcher, call, resolved, displaced, lost, hasty>>
    BY <1>15 DEF StopCodexSession, procVars, ghosts
  <2>1. TypeOK'
    <3>1. interrupted' \subseteq Procs /\ killers' \subseteq IDs \X Procs
      BY <2>b DEF Interrupt, TypeOK
    <3> QED BY <3>1, <2>b, <2>f DEF TypeOK, CallState
  <2>2. CallersAreOwners'
    BY <2>b, <2>f DEF CallersAreOwners, Holding, Filing
  <2>3. FiledUnderOrigin'
    BY <2>b, <2>f DEF FiledUnderOrigin
  <2>4. EntriesAgree'
    BY <2>b, <2>f DEF EntriesAgree, ProcessesAreReachable, Unreaped, Managed
  <2>5. KillsFind'
    BY <2>b, <2>f, InterruptFinds
  <2>6. LaunchesAreAlone'
    BY <2>b, <2>f DEF LaunchesAreAlone, Unseen, Writers
  <2>7. SearchesAreRight'
    BY <2>b, <2>f DEF SearchesAreRight, OnlyNew, IsExcused, Unseen
  <2> QED BY <2>1, <2>2, <2>3, <2>4, <2>5, <2>6, <2>7 DEF CodexInv
<1>16. ASSUME NEW j \in IDs, NEW p \in Procs, Kill(j, p) PROVE CodexInv'
  <2>a. /\ pstate' \in [Procs -> {"none", "live", "exited", "reaping", "reaped"}]
        /\ \A q \in Procs : pstate'[q] = pstate[q] \/ (pstate[q] = "live" /\ pstate'[q] = "exited")
        /\ killers' \subseteq killers
    BY <1>16 DEF Kill, TypeOK
  <2>b. \A c \in Clients : call[c].at = "file" => call[c].proc \in Procs
    BY DEF CallersAreOwners, Holding
  <2>c. /\ \A q \in Procs : pstate'[q] = "live" => pstate[q] = "live"
        /\ \A q \in Procs : pstate'[q] = "none" <=> pstate[q] = "none"
    BY <2>a
  <2>f. UNCHANGED <<codexSessions, sessionID, origin, filed, history, wrote, registered,
                    watcher, interrupted, calls, call, resolved, displaced, lost, hasty>>
    BY <1>16 DEF Kill, procVars, ghosts
  <2>1. TypeOK'
    BY <2>a, <2>f DEF TypeOK, CallState
  <2>2. CallersAreOwners'
    BY <2>a, <2>f DEF CallersAreOwners, Holding, Filing
  <2>3. FiledUnderOrigin'
    BY <2>a, <2>b, <2>f DEF FiledUnderOrigin
  <2>4. EntriesAgree'
    <3>1. \A q \in Procs : Unreaped(q)' <=> Unreaped(q)
      BY <2>a, <2>f DEF Unreaped
    <3>2. ProcessesAreReachable'
      <4>1. \A i \in IDs : codexSessions[i] # NoProc => codexSessions[i] \in Procs
        BY DEF TypeOK
      <4> QED BY <4>1, <2>a, <2>f DEF EntriesAgree, ProcessesAreReachable, Managed, Unreaped
    <3> QED BY <3>2, <2>c, <2>f DEF EntriesAgree
  <2>5. KillsFind'
    <3>1. \A k \in killers : k[2] \in Procs
      BY DEF TypeOK
    <3> QED BY <3>1, <2>a, <2>c, <2>f DEF KillsFind
  <2>6. LaunchesAreAlone'
    BY <2>a, <2>f DEF LaunchesAreAlone, Unseen, Writers
  <2>7. SearchesAreRight'
    <3>4. \A x \in Procs, y \in Reals : IsExcused(x, y) => IsExcused(x, y)'
      BY <2>a, <2>f DEF IsExcused
    <3>5. \A c \in Clients : /\ call[c].at \in {"poll", "watch", "remap", "announce"} => call[c].proc \in Procs
                             /\ call[c].at \in {"remap", "announce"} => call[c].id \in Reals
      BY DEF CallersAreOwners, Holding
    <3>6. \A r \in resolved : r[1] \in Procs /\ r[2] \in Reals
      BY DEF TypeOK
    <3> QED BY <2>c, <3>4, <3>5, <3>6, <2>f DEF SearchesAreRight, OnlyNew, Unseen
  <2> QED BY <2>1, <2>2, <2>3, <2>4, <2>5, <2>6, <2>7 DEF CodexInv
<1>17. ASSUME NEW j \in Reals, DeleteTranscript(j) PROVE CodexInv'
  <2>a. history' \subseteq history /\ calls' \in 0 .. MaxCalls
    BY <1>17, CodexAssumption DEF DeleteTranscript, TypeOK
  <2>f. UNCHANGED <<codexSessions, sessionID, pstate, origin, filed, wrote, registered, watcher,
                    killers, interrupted, call, resolved, displaced, lost, hasty>>
    BY <1>17 DEF DeleteTranscript, procVars, ghosts
  <2>1. TypeOK'
    BY <2>a, <2>f DEF TypeOK, CallState
  <2>2. CallersAreOwners'
    BY <2>a, <2>f DEF CallersAreOwners, Holding, Filing
  <2>3. FiledUnderOrigin'
    BY <2>a, <2>f DEF FiledUnderOrigin
  <2>4. EntriesAgree'
    BY <2>a, <2>f DEF EntriesAgree, ProcessesAreReachable, Unreaped, Managed
  <2>5. KillsFind'
    BY <2>a, <2>f DEF KillsFind
  <2>6. LaunchesAreAlone'
    BY <2>a, <2>f DEF LaunchesAreAlone, Unseen, Writers
  <2>7. SearchesAreRight'
    BY <2>a, <2>f DEF SearchesAreRight, OnlyNew, IsExcused, Unseen
  <2> QED BY <2>1, <2>2, <2>3, <2>4, <2>5, <2>6, <2>7 DEF CodexInv
<1>18. ASSUME NEW p \in Procs, Write(p) PROVE CodexInv'
  <2>a. /\ pstate[p] = "live" /\ origin[p] = Temp(p) /\ p \notin wrote
        /\ wrote' = wrote \cup {p} /\ history' = history \cup {Real(p)} /\ p \in Writers
    BY <1>18 DEF Write, Writers
  <2>f. UNCHANGED <<codexSessions, sessionID, pstate, origin, filed, registered, watcher,
                    killers, interrupted, calls, call, resolved, displaced, lost, hasty>>
    BY <1>18 DEF Write, procVars, ghosts
  <2>1. TypeOK'
    BY <2>a, <2>f, IDsDiffer DEF TypeOK, CallState
  <2>2. CallersAreOwners'
    BY <2>a, <2>f DEF CallersAreOwners, Holding, Filing
  <2>3. FiledUnderOrigin'
    BY <2>a, <2>f DEF FiledUnderOrigin
  <2>4. EntriesAgree'
    BY <2>a, <2>f DEF EntriesAgree, ProcessesAreReachable, Unreaped, Managed
  <2>5. KillsFind'
    BY <2>a, <2>f DEF KillsFind
  <2>6. LaunchesAreAlone'
    BY <2>a, <2>f DEF LaunchesAreAlone, Unseen, Writers
  <2>7. SearchesAreRight'
    <3>1. ASSUME NEW x, NEW b, OnlyNew(x, b), \A q \in Writers : q = x
          PROVE  \A q \in Procs : Real(q) \in history' \ b => q = x
      BY <3>1, <2>a, IDsDiffer DEF OnlyNew
    <3>2. \A q \in Procs : Real(q) \in history' => q \in wrote'
      BY <2>a, IDsDiffer DEF SearchesAreRight
    <3>3. ASSUME NEW c \in Clients
          PROVE  /\ Unseen(c) /\ ~call[c].twin /\ call[c].at # "snapshot"
                      => \A q \in Procs : Real(q) \in history' \ call[c].before => q = call[c].proc
                 /\ call[c].at \in {"poll", "watch"} /\ pstate[call[c].proc] = "live" /\ call[c].proc \notin hasty
                      => \A q \in Procs : Real(q) \in history' \ call[c].before => q = call[c].proc
      <4>1. ASSUME Unseen(c) /\ ~call[c].twin /\ call[c].at # "snapshot"
            PROVE  \A q \in Procs : Real(q) \in history' \ call[c].before => q = call[c].proc
        BY <3>1, <4>1 DEF SearchesAreRight, LaunchesAreAlone
      <4>2. ASSUME call[c].at \in {"poll", "watch"} /\ pstate[call[c].proc] = "live" /\ call[c].proc \notin hasty
            PROVE  \A q \in Procs : Real(q) \in history' \ call[c].before => q = call[c].proc
        <5>1. OnlyNew(call[c].proc, call[c].before) /\ call[c].proc \in Procs /\ call[c].proc \in filed
          BY <4>2 DEF SearchesAreRight, CallersAreOwners, Holding, Filing
        <5>2. codexSessions[Temp(call[c].proc)] = call[c].proc
          BY <4>2, <5>1, IDsDiffer DEF EntriesAgree, ProcessesAreReachable, Unreaped
        <5> QED BY <3>1, <4>2, <5>1, <5>2 DEF LaunchesAreAlone
      <4> QED BY <4>1, <4>2
    <3>4. ASSUME NEW q \in Procs, watcher[q].at = "on" /\ codexSessions[Temp(q)] = q /\ pstate[q] = "live" /\ q \notin hasty
          PROVE  \A x \in Procs : Real(x) \in history' \ watcher[q].before => x = q
      BY <3>1, <3>4 DEF SearchesAreRight, LaunchesAreAlone
    <3> QED BY <3>2, <3>3, <3>4, <2>f DEF SearchesAreRight, OnlyNew, IsExcused, Unseen
  <2> QED BY <2>1, <2>2, <2>3, <2>4, <2>5, <2>6, <2>7 DEF CodexInv
<1>19. ASSUME NEW p \in Procs, Exit(p) PROVE CodexInv'
  <2>a. /\ pstate' \in [Procs -> {"none", "live", "exited", "reaping", "reaped"}]
        /\ \A q \in Procs : pstate'[q] = pstate[q] \/ (pstate[q] = "live" /\ pstate'[q] = "exited")
    BY <1>19 DEF Exit, TypeOK
  <2>b. \A c \in Clients : call[c].at = "file" => call[c].proc \in Procs
    BY DEF CallersAreOwners, Holding
  <2>c. /\ \A q \in Procs : pstate'[q] = "live" => pstate[q] = "live"
        /\ \A q \in Procs : pstate'[q] = "none" <=> pstate[q] = "none"
    BY <2>a
  <2>f. UNCHANGED <<codexSessions, sessionID, origin, filed, history, wrote, registered,
                    watcher, killers, interrupted, calls, call, resolved, displaced, lost,
                    hasty>>
    BY <1>19 DEF Exit, procVars, ghosts
  <2>1. TypeOK'
    BY <2>a, <2>f DEF TypeOK, CallState
  <2>2. CallersAreOwners'
    BY <2>a, <2>f DEF CallersAreOwners, Holding, Filing
  <2>3. FiledUnderOrigin'
    BY <2>a, <2>b, <2>f DEF FiledUnderOrigin
  <2>4. EntriesAgree'
    <3>1. \A q \in Procs : Unreaped(q)' <=> Unreaped(q)
      BY <2>a, <2>f DEF Unreaped
    <3>2. ProcessesAreReachable'
      <4>1. \A i \in IDs : codexSessions[i] # NoProc => codexSessions[i] \in Procs
        BY DEF TypeOK
      <4> QED BY <4>1, <2>a, <2>f DEF EntriesAgree, ProcessesAreReachable, Managed, Unreaped
    <3> QED BY <3>2, <2>c, <2>f DEF EntriesAgree
  <2>5. KillsFind'
    <3>1. \A k \in killers : k[2] \in Procs
      BY DEF TypeOK
    <3> QED BY <3>1, <2>a, <2>c, <2>f DEF KillsFind
  <2>6. LaunchesAreAlone'
    BY <2>a, <2>f DEF LaunchesAreAlone, Unseen, Writers
  <2>7. SearchesAreRight'
    <3>4. \A x \in Procs, y \in Reals : IsExcused(x, y) => IsExcused(x, y)'
      BY <2>a, <2>f DEF IsExcused
    <3>5. \A c \in Clients : /\ call[c].at \in {"poll", "watch", "remap", "announce"} => call[c].proc \in Procs
                             /\ call[c].at \in {"remap", "announce"} => call[c].id \in Reals
      BY DEF CallersAreOwners, Holding
    <3>6. \A r \in resolved : r[1] \in Procs /\ r[2] \in Reals
      BY DEF TypeOK
    <3> QED BY <2>c, <3>4, <3>5, <3>6, <2>f DEF SearchesAreRight, OnlyNew, Unseen
  <2> QED BY <2>1, <2>2, <2>3, <2>4, <2>5, <2>6, <2>7 DEF CodexInv
<1>20. ASSUME NEW p \in Procs, Reap(p) PROVE CodexInv'
  <2>a. /\ pstate[p] = "exited" /\ p \in filed /\ p # NoProc
        /\ pstate' \in [Procs -> {"none", "live", "exited", "reaping", "reaped"}]
        /\ pstate'[p] = "reaping" /\ \A q \in Procs : q # p => pstate'[q] = pstate[q]
        /\ codexSessions' \in [IDs -> Procs \cup {NoProc}]
        /\ \A i \in IDs : codexSessions'[i] = IF codexSessions[i] = p THEN NoProc ELSE codexSessions[i]
        /\ lost' = lost \cup ({q \in displaced : codexSessions[sessionID[q]] = p} \cap interrupted)
        /\ lost' \subseteq Procs
    BY <1>20, NoProcAssumption DEF Reap, Lose, TypeOK
  <2>b. \A c \in Clients : call[c].at = "file" => call[c].proc \in Procs
    BY DEF CallersAreOwners, Holding
  <2>c. /\ \A q \in Procs : pstate'[q] = "live" => pstate[q] = "live"
        /\ \A q \in Procs : pstate'[q] = "none" <=> pstate[q] = "none"
    BY <2>a
  <2>f. UNCHANGED <<sessionID, origin, filed, history, wrote, registered, watcher, killers,
                    interrupted, calls, call, resolved, displaced, hasty>>
    BY <1>20 DEF Reap, procVars, ghosts
  <2>1. TypeOK'
    BY <2>a, <2>f DEF TypeOK, CallState
  <2>2. CallersAreOwners'
    BY <2>a, <2>f DEF CallersAreOwners, Holding, Filing
  <2>3. FiledUnderOrigin'
    BY <2>a, <2>b, <2>f DEF FiledUnderOrigin
  <2>4. EntriesAgree'
    <3>1. ASSUME NEW q \in Procs, Unreaped(q)' PROVE codexSessions'[sessionID[q]] = q \/ q \in displaced
      <4>1. Unreaped(q) /\ q # p
        BY <3>1, <2>a, <2>f DEF Unreaped
      <4>2. sessionID[q] \in IDs /\ (codexSessions[sessionID[q]] = q \/ q \in displaced)
        BY <4>1, IDsDiffer DEF EntriesAgree, ProcessesAreReachable, Unreaped
      <4> QED BY <4>1, <4>2, <2>a
    <3>2. ASSUME NEW j \in IDs, NEW x, x = codexSessions'[j], x # NoProc
          PROVE  x \in filed /\ pstate'[x] \in {"live", "exited"} /\ sessionID[x] = j
      <4>1. codexSessions[j] = x /\ x # p
        BY <3>2, <2>a
      <4>2. x \in filed /\ pstate[x] \in {"live", "exited"} /\ sessionID[x] = j /\ x \in Procs
        BY <3>2, <4>1 DEF EntriesAgree, ProcessesAreReachable, Managed, Unreaped, TypeOK
      <4> QED BY <4>1, <4>2, <2>a
    <3>3. ProcessesAreReachable'
      BY <3>1, <3>2, <2>f DEF ProcessesAreReachable, Managed, Unreaped
    <3> QED BY <3>3, <2>a, <2>f DEF EntriesAgree
  <2>5. KillsFind'
    <3> SUFFICES ASSUME NEW k \in killers,
                        NEW j, j = k[1], NEW x, x = k[2]
                 PROVE  /\ x \in interrupted /\ x \in filed
                        /\ \/ pstate'[x] # "live"
                           \/ x \in lost'
                           \/ /\ sessionID[x] = j /\ codexSessions'[j] # NoProc
                              /\ codexSessions'[j] = x \/ x \in displaced
      BY <2>f DEF KillsFind
    <3>1. /\ j \in IDs /\ x \in Procs /\ x \in interrupted /\ x \in filed
          /\ \/ pstate[x] # "live"
             \/ x \in lost
             \/ /\ sessionID[x] = j /\ codexSessions[j] # NoProc
                /\ codexSessions[j] = x \/ x \in displaced
      BY DEF KillsFind, TypeOK
    <3>2. CASE x = p
      BY <3>1, <3>2, <2>a
    <3>3. CASE x # p /\ codexSessions[j] = p
      BY <3>1, <3>3, <2>a
    <3>4. CASE x # p /\ codexSessions[j] # p
      BY <3>1, <3>4, <2>a
    <3> QED BY <3>2, <3>3, <3>4
  <2>6. LaunchesAreAlone'
    <3>1. Writers' = Writers
      BY <2>a, <2>f DEF Writers
    <3>2. \A q \in Procs : codexSessions'[Temp(q)] = q => codexSessions[Temp(q)] = q
      BY <2>a, IDsDiffer, NoProcAssumption
    <3>3. \A q \in Procs : pstate'[q] = "live" => pstate[q] = "live"
      BY <2>a
    <3> QED BY <3>1, <3>2, <3>3, <2>f DEF LaunchesAreAlone, Unseen
  <2>7. SearchesAreRight'
    <3>2. \A q \in Procs : codexSessions'[Temp(q)] = q => codexSessions[Temp(q)] = q
      BY <2>a, IDsDiffer, NoProcAssumption
    <3>3. \A q \in Procs : pstate'[q] = "live" => pstate[q] = "live"
      BY <2>a
    <3>4. \A x \in Procs, y \in Reals : IsExcused(x, y) => IsExcused(x, y)'
      BY <2>a, <2>f DEF IsExcused
    <3>5. \A c \in Clients : /\ call[c].at \in {"poll", "watch", "remap", "announce"} => call[c].proc \in Procs
                             /\ call[c].at \in {"remap", "announce"} => call[c].id \in Reals
      BY DEF CallersAreOwners, Holding
    <3>6. \A r \in resolved : r[1] \in Procs /\ r[2] \in Reals
      BY DEF TypeOK
    <3> QED BY <3>2, <3>3, <3>4, <3>5, <3>6, <2>f DEF SearchesAreRight, OnlyNew, Unseen
  <2> QED BY <2>1, <2>2, <2>3, <2>4, <2>5, <2>6, <2>7 DEF CodexInv
<1>21. ASSUME NEW p \in Procs, StopWatcher(p) PROVE CodexInv'
  <2>a. /\ pstate[p] = "reaping" /\ pstate'[p] = "reaped"
        /\ pstate' \in [Procs -> {"none", "live", "exited", "reaping", "reaped"}]
        /\ \A q \in Procs : q # p => pstate'[q] = pstate[q]
        /\ registered' \subseteq Procs
    BY <1>21 DEF StopWatcher, TypeOK
  <2>b. \A c \in Clients : call[c].at = "file" => call[c].proc # p /\ call[c].proc \in Procs
    BY <2>a DEF FiledUnderOrigin, CallersAreOwners, Holding
  <2>c. \A k \in killers : k[2] \in Procs
    BY DEF TypeOK
  <2>f. UNCHANGED <<codexSessions, sessionID, origin, filed, history, wrote, watcher, killers,
                    interrupted, calls, call, resolved, displaced, lost, hasty>>
    BY <1>21 DEF StopWatcher, procVars, ghosts
  <2>1. TypeOK'
    BY <2>a, <2>b, <2>f DEF TypeOK, CallState
  <2>2. CallersAreOwners'
    BY <2>a, <2>b, <2>f DEF CallersAreOwners, Holding, Filing
  <2>3. FiledUnderOrigin'
    BY <2>a, <2>b, <2>f DEF FiledUnderOrigin
  <2>4. EntriesAgree'
    <3>1. \A q \in Procs : Unreaped(q)' <=> Unreaped(q)
      BY <2>a, <2>f DEF Unreaped
    <3>2. ProcessesAreReachable'
      <4>1. \A i \in IDs : codexSessions[i] # NoProc => codexSessions[i] \in Procs
        BY DEF TypeOK
      <4>2. \A i \in IDs : codexSessions[i] # NoProc => codexSessions[i] # p
        BY <2>a DEF EntriesAgree, ProcessesAreReachable, Managed, Unreaped
      <4> QED BY <4>1, <4>2, <2>a, <2>f DEF EntriesAgree, ProcessesAreReachable, Managed, Unreaped
    <3> QED BY <3>2, <2>a, <2>f DEF EntriesAgree
  <2>5. KillsFind'
    BY <2>a, <2>c, <2>f DEF KillsFind
  <2>6. LaunchesAreAlone'
    BY <2>a, <2>b, <2>f DEF LaunchesAreAlone, Unseen, Writers
  <2>7. SearchesAreRight'
    <3>3. \A q \in Procs : pstate'[q] = "live" => pstate[q] = "live"
      BY <2>a
    <3>4. \A x \in Procs, y \in Reals : IsExcused(x, y) => IsExcused(x, y)'
      BY <2>a, <2>f DEF IsExcused
    <3>5. \A c \in Clients : /\ call[c].at \in {"poll", "watch", "remap", "announce"} => call[c].proc \in Procs
                             /\ call[c].at \in {"remap", "announce"} => call[c].id \in Reals
      BY DEF CallersAreOwners, Holding
    <3>6. \A r \in resolved : r[1] \in Procs /\ r[2] \in Reals
      BY DEF TypeOK
    <3> QED BY <3>3, <3>4, <3>5, <3>6, <2>f DEF SearchesAreRight, OnlyNew, Unseen
  <2> QED BY <2>1, <2>2, <2>3, <2>4, <2>5, <2>6, <2>7 DEF CodexInv
<1>22. ASSUME NEW p \in Procs, Tick(p) PROVE CodexInv'
  <2>a. /\ watcher' \in [Procs -> WatcherState] /\ \A q \in Procs : q # p => watcher'[q] = watcher[q]
        /\ \/ watcher'[p].at = "off"
           \/ /\ watcher'[p].at = "remap" /\ watcher'[p].id \in history \ watcher[p].before
              /\ codexSessions[Temp(p)] # NoProc
        /\ registered' \subseteq Procs
    <3>1. CASE watcher' = [watcher EXCEPT ![p] = Asleep] /\ registered' = registered \ {p}
      BY <3>1 DEF TypeOK, WatcherState, Asleep
    <3>2. CASE /\ codexSessions[Temp(p)] # NoProc /\ UNCHANGED registered
               /\ \E i \in history \ watcher[p].before :
                     watcher' = [watcher EXCEPT ![p].at = "remap", ![p].id = i]
      <4>p. PICK i \in history \ watcher[p].before : watcher' = [watcher EXCEPT ![p].at = "remap", ![p].id = i]
        BY <3>2
      <4> DEFINE u == [[watcher[p] EXCEPT !.at = "remap"] EXCEPT !.id = i]
      <4>1. watcher[p] \in WatcherState /\ i \in Reals
        BY <4>p DEF TypeOK, WatcherState
      <4>2. u.at = "remap" /\ u.id = i /\ u \in WatcherState
        BY <4>1 DEF WatcherState
      <4>3. watcher' = [watcher EXCEPT ![p] = u]
        BY <4>p DEF TypeOK
      <4>4. codexSessions[Temp(p)] # NoProc /\ registered' \subseteq Procs
        BY <3>2 DEF TypeOK
      <4>5. i \in history \ watcher[p].before
        BY <4>p
      <4> HIDE DEF u
      <4> QED BY <4>2, <4>3, <4>4, <4>5 DEF TypeOK, WatcherState
    <3> QED BY <1>22, <3>1, <3>2 DEF Tick
  <2>b. watcher[p].at = "on" /\ p \in filed
    BY <1>22 DEF Tick, CallersAreOwners
  <2>c. watcher'[p].at = "remap" => watcher'[p].id \in Reals /\ IsExcused(p, watcher'[p].id)
    <3> SUFFICES ASSUME watcher'[p].at = "remap", NEW i, i = watcher'[p].id
                 PROVE  i \in Reals /\ IsExcused(p, i)
      OBVIOUS
    <3>1. i \in history /\ i \notin watcher[p].before /\ i \in Reals /\ codexSessions[Temp(p)] # NoProc
      BY <2>a DEF TypeOK
    <3>2. codexSessions[Temp(p)] = p /\ pstate[p] # "none"
      BY <3>1, <2>b, TempIsOwn DEF CallersAreOwners
    <3>3. CASE pstate[p] = "live" /\ p \notin hasty
      <4>1. OnlyNew(p, watcher[p].before)
        BY <2>b, <3>2, <3>3 DEF SearchesAreRight
      <4>2. PICK q \in Procs : i = Real(q)
        BY <3>1, IDsDiffer
      <4> QED BY <3>1, <4>1, <4>2 DEF OnlyNew, IsExcused
    <3>4. CASE pstate[p] # "live" \/ p \in hasty
      BY <3>1, <3>2, <3>4 DEF IsExcused, TypeOK
    <3> QED BY <3>3, <3>4
  <2>f. UNCHANGED <<codexSessions, sessionID, pstate, origin, filed, history, wrote, killers,
                    interrupted, calls, call, resolved, displaced, lost, hasty>>
    BY <1>22 DEF Tick, procVars, ghosts
  <2>1. TypeOK'
    BY <2>a, <2>b, <2>f DEF TypeOK, CallState, WatcherState
  <2>2. CallersAreOwners'
    BY <2>a, <2>b, <2>c, <2>f DEF CallersAreOwners, Holding, Filing
  <2>3. FiledUnderOrigin'
    BY <2>a, <2>b, <2>c, <2>f DEF FiledUnderOrigin
  <2>4. EntriesAgree'
    BY <2>a, <2>b, <2>c, <2>f DEF EntriesAgree, ProcessesAreReachable, Unreaped, Managed
  <2>5. KillsFind'
    BY <2>a, <2>b, <2>c, <2>f DEF KillsFind
  <2>6. LaunchesAreAlone'
    BY <2>a, <2>b, <2>c, <2>f DEF LaunchesAreAlone, Unseen, Writers
  <2>7. SearchesAreRight'
    BY <2>a, <2>b, <2>c, <2>f DEF SearchesAreRight, OnlyNew, IsExcused, Unseen
  <2> QED BY <2>1, <2>2, <2>3, <2>4, <2>5, <2>6, <2>7 DEF CodexInv
<1>23. ASSUME NEW p \in Procs, WatchRemap(p) PROVE CodexInv'
  <2>a. /\ watcher' \in [Procs -> WatcherState] /\ \A q \in Procs : q # p => watcher'[q] = watcher[q]
        /\ watcher'[p].at = "announce" /\ watcher'[p].id = watcher[p].id /\ watcher'[p].before = watcher[p].before
    BY <1>23 DEF WatchRemap, TypeOK, WatcherState
  <2>b. /\ watcher[p].at = "remap" /\ p \in filed /\ watcher[p].id \in Reals
        /\ Remap(p, watcher[p].id)
    BY <1>23 DEF WatchRemap, CallersAreOwners, SearchesAreRight
  <2>f. UNCHANGED <<pstate, origin, filed, history, wrote, registered, killers, interrupted,
                    calls, call, resolved, hasty>>
    BY <1>23 DEF WatchRemap, procVars, ghosts
  <2>c. /\ codexSessions' \in [IDs -> Procs \cup {NoProc}]
        /\ sessionID' \in [Procs -> IDs \cup {NoID}]
        /\ displaced' \subseteq Procs /\ lost' \subseteq Procs
        /\ ProcessesAreReachable'
        /\ \A q \in Procs : pstate[q] # "none" => sessionID'[q] \in {Temp(q)} \cup Reals
        /\ \A q \in displaced' : q \in filed /\ sessionID'[q] \in Reals
        /\ \A q \in Procs : q # p => sessionID'[q] = sessionID[q]
        /\ \A q \in Procs : codexSessions'[Temp(q)] = q => codexSessions[Temp(q)] = q
        /\ KillsFind'
    BY <2>b, <2>f, RemapKeeps
  <2>d. \A d \in Clients : call[d].at \in Holding => call[d].proc # p /\ call[d].proc \in Procs
    BY <2>b DEF CallersAreOwners
  <2>1. TypeOK'
    BY <2>a, <2>b, <2>c, <2>f DEF TypeOK, CallState, WatcherState
  <2>2. CallersAreOwners'
    BY <2>a, <2>b, <2>c, <2>d, <2>f DEF CallersAreOwners, Holding, Filing
  <2>3. FiledUnderOrigin'
    <3>1. \A d \in Clients : call[d].at = "file" => sessionID'[call[d].proc] = sessionID[call[d].proc]
      BY <2>c, <2>d DEF Holding
    <3> QED BY <3>1, <2>f DEF FiledUnderOrigin
  <2>4. EntriesAgree'
    <3>1. \A d \in Clients : call[d].at \in {"poll", "watch"} => sessionID'[call[d].proc] = sessionID[call[d].proc]
      BY <2>c, <2>d DEF Holding
    <3> QED BY <3>1, <2>c, <2>f DEF EntriesAgree
  <2>5. KillsFind'
    BY <2>c
  <2>6. LaunchesAreAlone'
    BY <2>a, <2>b, <2>c, <2>d, <2>f DEF LaunchesAreAlone, Unseen, Writers
  <2>7. SearchesAreRight'
    BY <2>a, <2>b, <2>c, <2>d, <2>f DEF SearchesAreRight, OnlyNew, IsExcused, Unseen
  <2> QED BY <2>1, <2>2, <2>3, <2>4, <2>5, <2>6, <2>7 DEF CodexInv
<1>24. ASSUME NEW p \in Procs, WatchAnnounce(p) PROVE CodexInv'
  <2>a. /\ watcher' \in [Procs -> WatcherState] /\ \A q \in Procs : q # p => watcher'[q] = watcher[q]
        /\ watcher'[p].at = "off" /\ registered' \subseteq Procs
        /\ resolved' = resolved \cup {<<p, watcher[p].id>>}
    BY <1>24 DEF WatchAnnounce, TypeOK, WatcherState, Asleep
  <2>b. watcher[p].at = "announce" /\ watcher[p].id \in Reals /\ p \in filed
    BY <1>24 DEF WatchAnnounce, SearchesAreRight, CallersAreOwners
  <2>f. UNCHANGED <<codexSessions, sessionID, pstate, origin, filed, history, wrote, killers,
                    interrupted, calls, call, displaced, lost, hasty>>
    BY <1>24 DEF WatchAnnounce, procVars, ghosts
  <2>1. TypeOK'
    BY <2>a, <2>b, <2>f DEF TypeOK, CallState, WatcherState
  <2>2. CallersAreOwners'
    BY <2>a, <2>b, <2>f DEF CallersAreOwners, Holding, Filing
  <2>3. FiledUnderOrigin'
    BY <2>a, <2>b, <2>f DEF FiledUnderOrigin
  <2>4. EntriesAgree'
    BY <2>a, <2>b, <2>f DEF EntriesAgree, ProcessesAreReachable, Unreaped, Managed
  <2>5. KillsFind'
    BY <2>a, <2>b, <2>f DEF KillsFind
  <2>6. LaunchesAreAlone'
    BY <2>a, <2>b, <2>f DEF LaunchesAreAlone, Unseen, Writers
  <2>7. SearchesAreRight'
    BY <2>a, <2>b, <2>f DEF SearchesAreRight, OnlyNew, IsExcused, Unseen
  <2> QED BY <2>1, <2>2, <2>3, <2>4, <2>5, <2>6, <2>7 DEF CodexInv
<1>25. CASE UNCHANGED vars
  BY <1>25 DEF vars, CodexInv, TypeOK, CallState, CallersAreOwners, Holding, Filing, FiledUnderOrigin, EntriesAgree, ProcessesAreReachable, Unreaped, Managed, KillsFind, LaunchesAreAlone, Unseen, Writers, SearchesAreRight, OnlyNew, IsExcused, Unseen
<1> QED
  BY <1>1, <1>2, <1>3, <1>4, <1>5, <1>6, <1>7, <1>8, <1>9, <1>10, <1>11, <1>12, <1>13, <1>14, <1>15, <1>16, <1>17, <1>18, <1>19, <1>20, <1>21, <1>22, <1>23, <1>24, <1>25 DEF Next, Step, Watch

-----------------------------------------------------------------------------
(* The Codex processes: the theorems *)

\* No process and no call: the invariant holds at the start.
LEMMA CodexBegins == Init => CodexInv
<1> SUFFICES ASSUME Init PROVE CodexInv
  OBVIOUS
<1>1. TypeOK
  BY CodexAssumption, IDsDiffer DEF Init, TypeOK, Idle, Asleep, IDs
<1>2. CallersAreOwners
  BY DEF Init, CallersAreOwners, Holding, Filing, Idle, Asleep
<1>3. FiledUnderOrigin /\ KillsFind
  BY DEF Init, FiledUnderOrigin, KillsFind, Idle
<1>4. EntriesAgree
  BY DEF Init, EntriesAgree, ProcessesAreReachable, Unreaped, Managed, Idle
<1>5. LaunchesAreAlone
  BY DEF Init, LaunchesAreAlone, Unseen, Idle
<1>6. SearchesAreRight
  BY DEF Init, SearchesAreRight, Unseen, Idle, Asleep
<1> QED BY <1>1, <1>2, <1>3, <1>4, <1>5, <1>6 DEF CodexInv

\* The map of the Codex processes keeps its invariant: callers own the processes they
\* launch, the map agrees with the IDs that the processes are known by, every pending
\* kill can find its process, and a launch that saw nobody is alone until it is in the
\* map (session_manager.go, the critical sections of codexMu).
THEOREM CodexInvariance == Spec => []CodexInv
<1>1. CodexInv /\ [Next]_vars => CodexInv'
  BY CodexGoesOn DEF CodexInv
<1> QED BY CodexBegins, <1>1, PTL DEF Spec

\* For any number of clients, processes and calls: a process that is waited for is found
\* under the ID it is known by unless another took its entry, and a temporary ID is
\* announced to stand for another process's transcript only in the named races
\* (remapCodexSessionID, resolveNewCodexSessionID).
THEOREM ProcessesAreAlwaysKnown == Spec => []ProcessesAreKnown
<1>1. CodexInv => ProcessesAreKnown
  <2> SUFFICES ASSUME CodexInv PROVE ProcessesAreKnown
    OBVIOUS
  <2>1. ProcessesAreReachable
    BY DEF CodexInv, EntriesAgree
  <2>2. MistakesNeedTwins
    BY DEF CodexInv, SearchesAreRight, IsExcused, MistakesNeedTwins
  <2> QED BY <2>1, <2>2 DEF ProcessesAreKnown
<1> QED BY CodexInvariance, <1>1, PTL

\* For any number of clients, processes and calls: the kill that follows a stop finds the
\* process, unless it was renamed in between or lost the entry of its ID together with
\* the process that had taken it (stopCodexSession, session_manager.go).
THEOREM StopsAlwaysTakeEffect == Spec => StopsTakeEffect
<1>1. CodexInv /\ [Next]_vars
        => [\A i \in IDs, p \in Procs :
              (<<i, p>> \in killers \ killers') => (pstate'[p] # "live" \/ p \in lost)]_vars
  <2> SUFFICES ASSUME CodexInv, [Next]_vars, NEW i \in IDs, NEW p \in Procs,
                      <<i, p>> \in killers, <<i, p>> \notin killers'
               PROVE  pstate'[p] # "live" \/ p \in lost
    OBVIOUS
  <2>1. <<i, p>>[1] = i /\ <<i, p>>[2] = p
    OBVIOUS
  <2>2. \/ pstate[p] # "live"
        \/ p \in lost
        \/ codexSessions[i] # NoProc
    BY <2>1 DEF CodexInv, KillsFind
  <2>3. Kill(i, p)
    <3>1. ASSUME NEW j \in IDs, Interrupt(j) PROVE FALSE
      BY <3>1 DEF Interrupt
    <3>2. ASSUME NEW j \in IDs, NEW q \in Procs, Kill(j, q) PROVE j = i /\ q = p
      BY <3>2 DEF Kill
    <3>3. ASSUME NEW c \in Clients, StopOld(c) PROVE FALSE
      <4>1. call[c].id \in IDs
        BY <3>3, IDsDiffer DEF StopOld, CodexInv, CallersAreOwners
      <4> QED BY <3>1, <3>3, <4>1 DEF StopOld
    <3>4. ASSUME NEW j \in IDs, StopCodexSession(j) PROVE FALSE
      BY <3>1, <3>4 DEF StopCodexSession
    <3> QED BY <3>2, <3>3, <3>4 DEF Next, Step, Watch, vars, StartCodexSession, SendNew, Look, Snapshot, LaunchFails,
               File, Launch, Poll, PollTimesOut, RemapFound, Announce, StartWatcher, SendResume, DeleteTranscript,
               Write, Exit, Reap, StopWatcher, Tick, WatchRemap, WatchAnnounce
  <2>4. pstate' = IF codexSessions[i] # NoProc /\ pstate[p] = "live"
                  THEN [pstate EXCEPT ![p] = "exited"] ELSE pstate
    BY <2>3 DEF Kill
  <2>5. pstate \in [Procs -> {"none", "live", "exited", "reaping", "reaped"}]
    BY DEF CodexInv, TypeOK
  <2> QED BY <2>2, <2>4, <2>5
<1> QED BY CodexInvariance, <1>1, PTL DEF Spec, StopsTakeEffect

-----------------------------------------------------------------------------
(* Claude's manager: the invariant *)

ParserState == [state : PTYStates, buffer : Seq(Lines)]

\* A run has a process and a start to be published from the moment it gets its kind,
\* an output goroutine once that is published, and shows dialogs while its process lives.
RunsAreInOrder ==
    \A r \in Runs :
        /\ kind[r] = "none" => proc[r] = "none" /\ starter[r] = "off"
        /\ starter[r] # "done" => stream[r] = "off"
        /\ dialog[r] # "none" => proc[r] = "live"

Alive(r) == proc[r] \in {"live", "exited"}

\* The manager is running while it has a process, of which there is one at most; a
\* start that is still to be published is that process's.
StateIsRight ==
    /\ StatusIsPublished
    /\ \A r \in Runs : starter[r] = "publish" => Alive(r)
    /\ \A r \in Runs : Alive(r) => state = "running"
    /\ \A q, r \in Runs : Alive(q) /\ Alive(r) => q = r

EndsWith(buffer, lines, k) ==
    k <= Len(buffer) /\ \A j \in 1..k : buffer[Len(buffer) - k + j] = lines[j]

\* Nothing of a dialog is left to read, and the parser looks for the next one.
Unasked(p, unread) ==
    p.state # "permission" /\ \A j \in 1..Len(unread) : unread[j] = "thinking"

\* The lines of a dialog are read as far as the end of the parser's buffer says, and
\* the parser has not seen the last option.
BeingRead(p, unread, lines) ==
    LET seen == Len(lines) - Len(unread)
    IN  /\ p.state # "permission" /\ Len(unread) >= 2
        /\ \A j \in 1..Len(unread) : unread[j] = IF j + seen < 1 THEN "thinking" ELSE lines[j + seen]
        /\ EndsWith(p.buffer, lines, seen)

\* What the parser of a run that nobody confused has seen of its dialogs.
Follows(r) ==
    r \notin blind =>
        /\ dialog[r] = "none" /\ proc[r] \in {"none", "live"}
             => Unasked(parser[r], out[r]) /\ stream[r] # "report"
        /\ dialog[r] \in {"allow3", "trust2"} /\ r \notin reported /\ stream[r] # "report"
             => BeingRead(parser[r], out[r], LinesOf(dialog[r]))

PromptsFollow == \A r \in Runs : Follows(r)

ClaudeInv == ClaudeTypeOK /\ RunsAreInOrder /\ StateIsRight /\ PromptsFollow

-----------------------------------------------------------------------------
(* Claude's manager: what the parser does with a line *)

\* Runs are numbers, and no run is none of them.
LEMMA RunsAreNumbers == Runs \subseteq Nat /\ NoRun \notin Runs
BY DEF Runs, NoRun

\* Lines in a row count for what they are.
LEMMA CountAtLeast ==
    ASSUME NEW buffer \in Seq(Lines), NEW kinds,
           NEW i \in Nat, NEW j \in Nat, 1 <= i, i <= j, j <= Len(buffer),
           \A m \in i..j : buffer[m] \in kinds
    PROVE  Count(buffer, kinds) \in Nat /\ Count(buffer, kinds) >= j - i + 1
<1> DEFINE K == {m \in DOMAIN buffer : buffer[m] \in kinds}
<1>1. DOMAIN buffer = 1..Len(buffer) /\ Len(buffer) \in Nat
  OBVIOUS
<1>2. IsFiniteSet(1..Len(buffer))
  BY <1>1, FS_Interval
<1>3. IsFiniteSet(K)
  <2>1. K \subseteq 1..Len(buffer)
    BY <1>1
  <2> QED
    BY <2>1, <1>2, FS_Subset
<1>4. i..j \subseteq K
  BY <1>1
<1>5. Cardinality(i..j) = j - i + 1
  BY FS_Interval
<1>6. Cardinality(K) \in Nat
  BY <1>3, FS_CardinalityType
<1>7. Cardinality(i..j) <= Cardinality(K)
  BY <1>3, <1>4, FS_Subset
<1>8. Count(buffer, kinds) = Cardinality(K)
  BY DEF Count
<1> QED
  BY <1>5, <1>6, <1>7, <1>8

\* A count is a number.
LEMMA NoneCounted ==
    ASSUME NEW buffer \in Seq(Lines), NEW kinds
    PROVE  Count(buffer, kinds) \in Nat
<1>1. DOMAIN buffer = 1..Len(buffer) /\ Len(buffer) \in Nat
  OBVIOUS
<1>2. IsFiniteSet(1..Len(buffer))
  BY <1>1, FS_Interval
<1>3. {m \in DOMAIN buffer : buffer[m] \in kinds} \subseteq 1..Len(buffer)
  BY <1>1
<1>4. IsFiniteSet({m \in DOMAIN buffer : buffer[m] \in kinds})
  BY <1>2, <1>3, FS_Subset
<1> QED
  BY <1>4, FS_CardinalityType DEF Count

\* The window of the parser holds lines.
LEMMA SlideTypes ==
    ASSUME NEW buffer \in Seq(Lines)
    PROVE  Slide(buffer) \in Seq(Lines)
<1>1. Len(buffer) > Window => Tail(buffer) \in Seq(Lines)
  <2>1. Window \in Nat \ {0}
    BY ParserAssumption
  <2> QED
    BY <2>1
<1> QED
  BY <1>1 DEF Slide

\* The buffer keeps its last lines when it slides.
LEMMA SlideKeeps ==
    ASSUME NEW buffer \in Seq(Lines), NEW line \in Lines, NEW lines, NEW k \in Nat,
           EndsWith(buffer, lines, k), k + 1 <= 5, line = lines[k + 1]
    PROVE  EndsWith(Slide(Append(buffer, line)), lines, k + 1)
<1> DEFINE longer == Append(buffer, line)
           slid == Slide(longer)
<1>1. longer \in Seq(Lines) /\ Len(longer) = Len(buffer) + 1 /\ Len(buffer) \in Nat
  OBVIOUS
<1>2. \A j \in 1..Len(longer) : longer[j] = IF j <= Len(buffer) THEN buffer[j] ELSE line
  OBVIOUS
<1>3. Window \in Nat /\ Window >= 5
  BY ParserAssumption, DialogsAssumption
<1> HIDE DEF longer
<1>4. /\ slid \in Seq(Lines) /\ Len(slid) \in Nat
      /\ \/ slid = longer
         \/ /\ Len(slid) = Len(buffer) /\ Len(buffer) >= 5
            /\ \A j \in 1..Len(slid) : slid[j] = longer[j + 1]
  BY <1>1, <1>3 DEF Slide
<1> HIDE DEF slid
<1>5. EndsWith(slid, lines, k + 1)
  <2>1. k <= Len(buffer) /\ \A j \in 1..k : buffer[Len(buffer) - k + j] = lines[j]
    BY DEF EndsWith
  <2>2. k + 1 <= Len(slid)
    BY <1>1, <1>4, <2>1
  <2>3. ASSUME NEW j \in 1..(k + 1)  PROVE longer[Len(buffer) - k + j] = lines[j]
    <3>1. CASE j = k + 1
      BY <3>1, <1>1, <1>2
    <3>2. CASE j # k + 1
      <4>1. j \in 1..k /\ Len(buffer) - k + j \in 1..Len(buffer)
        BY <3>2, <2>1, <1>1
      <4>2. longer[Len(buffer) - k + j] = buffer[Len(buffer) - k + j]
        <5> DEFINE i == Len(buffer) - k + j
        <5>1. i \in 1..Len(longer) /\ i <= Len(buffer)
          BY <4>1, <1>1
        <5> HIDE DEF i
        <5>2. longer[i] = buffer[i]
          BY <5>1, <1>2
        <5> QED
          BY <5>2 DEF i
      <4> QED
        BY <4>1, <4>2, <2>1
    <3> QED
      BY <3>1, <3>2
  <2>4. ASSUME NEW j \in 1..(k + 1)  PROVE slid[Len(slid) - (k + 1) + j] = longer[Len(buffer) - k + j]
    <3>1. CASE slid = longer
      <4>1. Len(slid) - (k + 1) + j = Len(buffer) - k + j
        BY <3>1, <1>1
      <4> QED
        BY <4>1, <3>1
    <3>2. CASE /\ Len(slid) = Len(buffer) /\ Len(buffer) >= 5
               /\ \A m \in 1..Len(slid) : slid[m] = longer[m + 1]
      <4>1. /\ Len(slid) - (k + 1) + j \in 1..Len(slid)
            /\ Len(slid) - (k + 1) + j + 1 = Len(buffer) - k + j
        <5> DEFINE n == Len(slid)
        <5>1. n \in Nat /\ n = Len(buffer) /\ k + 1 <= n /\ j \in Nat /\ 1 <= j /\ j <= k + 1
          BY <3>2, <2>2, <1>4
        <5> HIDE DEF n
        <5>2. n - (k + 1) + j \in 1..n /\ n - (k + 1) + j + 1 = n - k + j
          BY <5>1
        <5> QED
          BY <5>1, <5>2 DEF n
      <4>2. slid[Len(slid) - (k + 1) + j] = longer[Len(slid) - (k + 1) + j + 1]
        BY <4>1, <3>2
      <4> QED
        BY <4>1, <4>2
    <3> QED
      BY <3>1, <3>2, <1>4
  <2> QED
    BY <2>2, <2>3, <2>4 DEF EndsWith
<1> QED
  BY <1>5 DEF slid, longer

\* A parser that has taken a line is a parser (ProcessLine).
LEMMA ParsedTypes ==
    ASSUME NEW p \in ParserState, NEW line \in Lines
    PROVE  ProcessLine(p, line).parser \in ParserState
<1>1. p.state \in PTYStates /\ p.buffer \in Seq(Lines) /\ p = [state |-> p.state, buffer |-> p.buffer]
  BY DEF ParserState
<1>2. Append(p.buffer, line) \in Seq(Lines)
  BY <1>1
<1>3. Slide(Append(p.buffer, line)) \in Seq(Lines)
  BY <1>2, SlideTypes
<1>4. [p EXCEPT !.state = "error"] \in ParserState
  BY DEF ParserState, PTYStates
<1>5. <<>> \in Seq(Lines) /\ {"idle", "thinking", "permission", "question", "error"} = PTYStates
  BY DEF PTYStates
<1> QED
  BY <1>1, <1>3, <1>4, <1>5 DEF ProcessLine, ParserState

\* A thinking line makes the parser start anew.
LEMMA Thinks ==
    ASSUME NEW p
    PROVE  /\ ProcessLine(p, "thinking").parser = [state |-> "thinking", buffer |-> <<>>]
           /\ ~(ProcessLine(p, "thinking").prompt > 0)
BY DEF ProcessLine

\* A line of a dialog goes to the buffer, unless the buffer then holds a prompt.
LEMMA TakesLine ==
    ASSUME NEW p \in ParserState, NEW line \in {"allow", "trust", "option"},
           p.state # "permission",
           ~(ProcessLine(p, line).prompt > 0)
    PROVE  /\ ~DetectPermissionFromBuffer(Slide(Append(p.buffer, line)))
           /\ ProcessLine(p, line).parser.state = p.state
           /\ ProcessLine(p, line).parser.buffer = Slide(Append(p.buffer, line))
<1> DEFINE buffer == Slide(Append(p.buffer, line))
           settled == IF p.state \in {"error", "question"} /\ line = "normal" THEN "idle" ELSE p.state
<1>1. settled = p.state
  OBVIOUS
<1>2. ProcessLine(p, line) =
        IF p.state # "permission" /\ DetectPermissionFromBuffer(buffer)
        THEN [parser |-> [state |-> "permission", buffer |-> <<>>], prompt |-> Count(buffer, {"option"})]
        ELSE [parser |-> [state |-> p.state, buffer |-> buffer], prompt |-> 0]
  BY <1>1 DEF ProcessLine
<1>3. DetectPermissionFromBuffer(buffer) => Count(buffer, {"option"}) > 0
  BY DEF DetectPermissionFromBuffer
<1> HIDE DEF buffer
<1>4. ~DetectPermissionFromBuffer(buffer)
  BY <1>2, <1>3
<1>5. ProcessLine(p, line).parser = [state |-> p.state, buffer |-> buffer]
  BY <1>2, <1>4
<1> QED
  BY <1>4, <1>5 DEF buffer

\* The parser detects a dialog by its last option.
LEMMA Detects ==
    ASSUME NEW d \in {"allow3", "trust2"}, NEW buffer \in Seq(Lines),
           EndsWith(buffer, LinesOf(d), Len(LinesOf(d)) - 1)
    PROVE  DetectPermissionFromBuffer(buffer)
<1>1. Len(buffer) \in Nat
  OBVIOUS
<1>2. EnoughOptions \in Nat /\ EnoughTrust \in Nat /\ EnoughOptions <= 3 /\ EnoughTrust <= 2
  BY ParserAssumption, DialogsAssumption
<1>3. /\ Count(buffer, {"option"}) \in Nat /\ Count(buffer, {"trust"}) \in Nat
      /\ Count(buffer, {"allow"}) \in Nat
  BY NoneCounted
<1>4. CASE d = "allow3"
  <2> DEFINE n == Len(buffer)
  <2>1. LinesOf(d) = <<"allow", "option", "option", "option", "end">>
    BY <1>4 DEF LinesOf
  <2>2. /\ n >= 4 /\ buffer[n - 3] = "allow"
        /\ buffer[n - 2] = "option" /\ buffer[n - 1] = "option" /\ buffer[n] = "option"
    <3>1. 4 <= n /\ \A j \in 1..4 : buffer[n - 4 + j] = LinesOf(d)[j]
      BY <2>1 DEF EndsWith
    <3>2. n - 4 + 1 = n - 3 /\ n - 4 + 2 = n - 2 /\ n - 4 + 3 = n - 1 /\ n - 4 + 4 = n
      BY <1>1
    <3>3. 1 \in 1..4 /\ 2 \in 1..4 /\ 3 \in 1..4 /\ 4 \in 1..4
      OBVIOUS
    <3> QED
      BY <3>1, <3>2, <3>3, <2>1
  <2>3. Count(buffer, {"option"}) >= 3
    <3>1. n - 2 \in Nat /\ n \in Nat /\ 1 <= n - 2 /\ n - 2 <= n /\ n <= Len(buffer)
      BY <1>1, <2>2
    <3>2. \A m \in (n - 2)..n : buffer[m] \in {"option"}
      BY <1>1, <2>2
    <3>3. Count(buffer, {"option"}) >= n - (n - 2) + 1
      BY <3>1, <3>2, CountAtLeast
    <3> QED
      BY <3>3, <1>1, <1>3
  <2>4. Count(buffer, {"allow"}) >= 1
    <3>1. n - 3 \in Nat /\ 1 <= n - 3 /\ n - 3 <= n - 3 /\ n - 3 <= Len(buffer)
      BY <1>1, <2>2
    <3>2. \A m \in (n - 3)..(n - 3) : buffer[m] \in {"allow"}
      BY <1>1, <2>2
    <3>3. Count(buffer, {"allow"}) >= (n - 3) - (n - 3) + 1
      BY <3>1, <3>2, CountAtLeast
    <3> QED
      BY <3>3, <1>1, <1>3
  <2> QED
    BY <1>2, <1>3, <2>2, <2>3, <2>4, SMTT(30) DEF DetectPermissionFromBuffer
<1>5. CASE d = "trust2"
  <2> DEFINE n == Len(buffer)
  <2>1. LinesOf(d) = <<"trust", "option", "option", "end">>
    BY <1>5 DEF LinesOf
  <2>2. n >= 3 /\ buffer[n - 2] = "trust" /\ buffer[n - 1] = "option" /\ buffer[n] = "option"
    <3>1. 3 <= n /\ \A j \in 1..3 : buffer[n - 3 + j] = LinesOf(d)[j]
      BY <2>1 DEF EndsWith
    <3>2. n - 3 + 1 = n - 2 /\ n - 3 + 2 = n - 1 /\ n - 3 + 3 = n
      BY <1>1
    <3>3. 1 \in 1..3 /\ 2 \in 1..3 /\ 3 \in 1..3
      OBVIOUS
    <3> QED
      BY <3>1, <3>2, <3>3, <2>1
  <2>3. Count(buffer, {"option"}) >= 2
    <3>1. n - 1 \in Nat /\ n \in Nat /\ 1 <= n - 1 /\ n - 1 <= n /\ n <= Len(buffer)
      BY <1>1, <2>2
    <3>2. \A m \in (n - 1)..n : buffer[m] \in {"option"}
      BY <1>1, <2>2
    <3>3. Count(buffer, {"option"}) >= n - (n - 1) + 1
      BY <3>1, <3>2, CountAtLeast
    <3> QED
      BY <3>3, <1>1, <1>3
  <2>4. Count(buffer, {"trust"}) >= 1
    <3>1. n - 2 \in Nat /\ 1 <= n - 2 /\ n - 2 <= n - 2 /\ n - 2 <= Len(buffer)
      BY <1>1, <2>2
    <3>2. \A m \in (n - 2)..(n - 2) : buffer[m] \in {"trust"}
      BY <1>1, <2>2
    <3>3. Count(buffer, {"trust"}) >= (n - 2) - (n - 2) + 1
      BY <3>1, <3>2, CountAtLeast
    <3> QED
      BY <3>3, <1>1, <1>3
  <2> QED
    BY <1>2, <1>3, <2>2, <2>3, <2>4 DEF DetectPermissionFromBuffer
<1> QED
  BY <1>4, <1>5

\* A line that is read moves from the output to the buffer: the dialog is still being
\* read, or the parser has detected it.
LEMMA ReadsOn ==
    ASSUME NEW p \in ParserState, NEW unread \in Seq(Lines), NEW d \in {"allow3", "trust2"},
           BeingRead(p, unread, LinesOf(d)),
           ~(ProcessLine(p, Head(unread)).prompt > 0)
    PROVE  BeingRead(ProcessLine(p, Head(unread)).parser, Tail(unread), LinesOf(d))
<1> DEFINE lines == LinesOf(d)
           size == Len(lines)
           n == Len(unread)
           result == ProcessLine(p, Head(unread))
           seen == size - n
<1>1. size \in Nat /\ size >= 4 /\ size <= 5 /\ lines \in Seq(Lines)
      /\ \A j \in 1..(size - 1) : lines[j] \in {"allow", "trust", "option"}
  <2>1. CASE d = "allow3"
    BY <2>1 DEF LinesOf, Lines
  <2>2. CASE d = "trust2"
    BY <2>2 DEF LinesOf, Lines
  <2> QED
    BY <2>1, <2>2
<1> HIDE DEF lines
<1>2. n \in Nat /\ n >= 2 /\ p.state # "permission"
      /\ \A j \in 1..n : unread[j] = IF j + seen < 1 THEN "thinking" ELSE lines[j + seen]
  BY DEF BeingRead, lines
<1>3. EndsWith(p.buffer, lines, seen)
  BY DEF BeingRead, lines
<1>4. /\ Head(unread) = unread[1] /\ Tail(unread) \in Seq(Lines) /\ Len(Tail(unread)) = n - 1
      /\ \A j \in 1..(n - 1) : Tail(unread)[j] = unread[j + 1]
  BY <1>2
<1>5. size \in Nat /\ size >= 4 /\ size <= 5 /\ n \in Nat /\ n >= 2
  BY <1>1, <1>2
<1>6. \A j \in 1..(n - 1) :
         Tail(unread)[j] = IF j + (size - (n - 1)) < 1 THEN "thinking" ELSE lines[j + (size - (n - 1))]
  <2> SUFFICES ASSUME NEW j \in 1..(n - 1)
               PROVE  Tail(unread)[j] = IF j + (size - (n - 1)) < 1 THEN "thinking"
                                        ELSE lines[j + (size - (n - 1))]
    OBVIOUS
  <2>1. j + 1 \in 1..n /\ j + 1 + seen = j + (size - (n - 1))
    BY <1>1, <1>2
  <2>2. unread[j + 1] = IF j + 1 + seen < 1 THEN "thinking" ELSE lines[j + 1 + seen]
    BY <2>1, <1>2
  <2> QED
    BY <2>1, <2>2, <1>4
<1>7. CASE seen < 0
  <2>1. Head(unread) = "thinking"
    BY <1>7, <1>1, <1>2, <1>4
  <2>2. result.parser = [state |-> "thinking", buffer |-> <<>>]
    BY <2>1, Thinks
  <2>3. n - 1 >= size
    BY <1>7, <1>1, <1>2
  <2>4. EndsWith(result.parser.buffer, lines, size - (n - 1))
    BY <2>2, <2>3, <1>1, <1>2 DEF EndsWith
  <2>5. result.parser.state # "permission" /\ n - 1 >= 2
    BY <2>2, <2>3, <1>1, <1>2
  <2> HIDE DEF result
  <2>6. BeingRead(result.parser, Tail(unread), lines)
    BY <1>4, <1>6, <2>4, <2>5 DEF BeingRead
  <2> QED
    BY <2>6 DEF result, lines
<1>8. CASE ~(seen < 0)
  <2>1. seen \in Nat /\ seen + 1 \in 1..(size - 1) /\ seen + 1 <= 5 /\ size - (n - 1) = seen + 1
    BY <1>8, <1>5
  <2>2. Head(unread) = lines[seen + 1]
    BY <2>1, <1>2, <1>4
  <2>3. Head(unread) \in {"allow", "trust", "option"} /\ Head(unread) \in Lines
    BY <2>1, <2>2, <1>1 DEF Lines
  <2> DEFINE buffer == Slide(Append(p.buffer, Head(unread)))
  <2>4. /\ ~DetectPermissionFromBuffer(buffer)
        /\ result.parser.state = p.state /\ result.parser.buffer = buffer
    BY <2>3, <1>2, TakesLine
  <2>5. p.buffer \in Seq(Lines)
    BY DEF ParserState
  <2>6. EndsWith(buffer, lines, seen + 1)
    BY <2>1, <2>2, <2>3, <2>5, <1>3, SlideKeeps
  <2>7. buffer \in Seq(Lines)
    <3>1. Append(p.buffer, Head(unread)) \in Seq(Lines)
      BY <2>3, <2>5
    <3> QED
      BY <3>1, SlideTypes
  <2> HIDE DEF buffer, result
  <2>8. n - 1 >= 2
    <3>1. CASE n = 2
      <4>1. seen + 1 = size - 1
        BY <3>1, <1>5
      <4>2. EndsWith(buffer, LinesOf(d), Len(LinesOf(d)) - 1)
        BY <4>1, <2>6 DEF lines
      <4> QED
        BY <4>2, <2>4, <2>7, Detects
    <3>2. n > 2 => n - 1 >= 2
      BY <1>5
    <3>3. n = 2 \/ n > 2
      <4>1. \A m \in Nat : m >= 2 => m = 2 \/ m > 2
        OBVIOUS
      <4> HIDE DEF n
      <4> QED
        BY <4>1, <1>5
    <3> QED
      BY <3>1, <3>2, <3>3
  <2>9. BeingRead(result.parser, Tail(unread), lines)
    BY <1>2, <1>4, <1>6, <2>1, <2>4, <2>6, <2>8 DEF BeingRead
  <2> QED
    BY <2>9 DEF result, lines
<1> QED
  BY <1>7, <1>8

\* A dialog that is shown after nothing but thinking is read from its first line.
LEMMA BeginsToRead ==
    ASSUME NEW p \in ParserState, NEW unread \in Seq(Lines), NEW d \in {"allow3", "trust2"},
           Unasked(p, unread)
    PROVE  BeingRead(p, unread \o LinesOf(d), LinesOf(d))
<1> DEFINE lines == LinesOf(d)
           both == unread \o lines
<1>1. lines \in Seq(Lines) /\ Len(lines) \in Nat /\ Len(lines) >= 4
  <2>1. CASE d = "allow3"
    BY <2>1 DEF LinesOf, Lines
  <2>2. CASE d = "trust2"
    BY <2>2 DEF LinesOf, Lines
  <2> QED
    BY <2>1, <2>2
<1> HIDE DEF lines
<1>2. Len(unread) \in Nat /\ Len(both) = Len(unread) + Len(lines)
      /\ \A j \in 1..Len(both) :
            both[j] = IF j <= Len(unread) THEN unread[j] ELSE lines[j - Len(unread)]
  BY <1>1
<1> HIDE DEF both
<1>3. Len(lines) - Len(both) = 0 - Len(unread)
  BY <1>1, <1>2
<1>4. ASSUME NEW j \in 1..Len(both)
      PROVE  both[j] = IF j + (Len(lines) - Len(both)) < 1 THEN "thinking"
                       ELSE lines[j + (Len(lines) - Len(both))]
  <2>1. CASE j <= Len(unread)
    <3>1. both[j] = "thinking"
      BY <2>1, <1>1, <1>2 DEF Unasked
    <3>2. j + (Len(lines) - Len(both)) < 1
      BY <2>1, <1>1, <1>2
    <3> QED
      BY <3>1, <3>2
  <2>2. CASE ~(j <= Len(unread))
    <3>1. both[j] = lines[j - Len(unread)]
      BY <2>2, <1>2
    <3>2. /\ ~(j + (Len(lines) - Len(both)) < 1)
          /\ j + (Len(lines) - Len(both)) = j - Len(unread)
      BY <2>2, <1>1, <1>2
    <3> QED
      BY <3>1, <3>2
  <2> QED
    BY <2>1, <2>2
<1>5. EndsWith(p.buffer, lines, Len(lines) - Len(both))
  <2>1. Len(p.buffer) \in Nat
    BY DEF ParserState
  <2> QED
    BY <2>1, <1>1, <1>2 DEF EndsWith
<1>6. p.state # "permission" /\ Len(both) >= 2
  <2>1. p.state # "permission"
    BY DEF Unasked
  <2>2. Len(lines) \in Nat /\ Len(lines) >= 4 /\ Len(unread) \in Nat /\ Len(both) = Len(unread) + Len(lines)
    BY <1>1, <1>2
  <2> QED
    BY <2>1, <2>2
<1>7. BeingRead(p, both, lines)
  BY <1>4, <1>5, <1>6 DEF BeingRead
<1> QED
  BY <1>7 DEF both, lines

\* So is one that is next after a thinking line.
LEMMA ReadsFromStart ==
    ASSUME NEW p, p.state # "permission", p.buffer \in Seq(Lines), NEW d \in {"allow3", "trust2"}
    PROVE  BeingRead(p, LinesOf(d), LinesOf(d))
<1> DEFINE lines == LinesOf(d)
<1>1. lines \in Seq(Lines) /\ Len(lines) \in Nat /\ Len(lines) >= 4
  <2>1. CASE d = "allow3"
    BY <2>1 DEF LinesOf, Lines
  <2>2. CASE d = "trust2"
    BY <2>2 DEF LinesOf, Lines
  <2> QED
    BY <2>1, <2>2
<1> HIDE DEF lines
<1>2. Len(lines) - Len(lines) = 0 /\ Len(p.buffer) \in Nat
  BY <1>1
<1>3. EndsWith(p.buffer, lines, Len(lines) - Len(lines))
  BY <1>1, <1>2 DEF EndsWith
<1>4. \A j \in 1..Len(lines) : lines[j] = IF j + (Len(lines) - Len(lines)) < 1 THEN "thinking"
                                          ELSE lines[j + (Len(lines) - Len(lines))]
  BY <1>1
<1>5. Len(lines) >= 2
  BY <1>1
<1>6. BeingRead(p, lines, lines)
  BY <1>3, <1>4, <1>5 DEF BeingRead
<1> QED
  BY <1>6 DEF lines

\* A dialog is printed as lines.
LEMMA LinesAreLines == \A d : LinesOf(d) \in Seq(Lines)
<1> SUFFICES ASSUME NEW d  PROVE LinesOf(d) \in Seq(Lines)
  OBVIOUS
<1>1. CASE d = "allow3"
  BY <1>1 DEF LinesOf, Lines
<1>2. CASE d = "allow2"
  BY <1>2 DEF LinesOf, Lines
<1>3. CASE d = "trust2"
  BY <1>3 DEF LinesOf, Lines
<1>4. CASE d \notin {"allow3", "allow2", "trust2"}
  <2>1. LinesOf(d) = <<>>
    BY <1>4 DEF LinesOf
  <2> QED
    BY <2>1
<1> QED
  BY <1>1, <1>2, <1>3, <1>4

\* A key pressed in the terminal keeps dialogs and output of their types.
LEMMA PressTypes ==
    ASSUME ClaudeTypeOK, NEW r \in Runs, NEW key, NEW byHand \in BOOLEAN, Press(r, key, byHand)
    PROVE  /\ dialog' \in [Runs -> Dialogs \cup {"none"}] /\ out' \in [Runs -> Seq(Lines)]
           /\ blind' \subseteq Runs
<1>1. out[r] \o LinesOf(dialog[r]) \in Seq(Lines)
  BY LinesAreLines DEF ClaudeTypeOK
<1>2. out' = out \/ out' = [out EXCEPT ![r] = @ \o LinesOf(dialog[r])]
  BY DEF Press
<1>3. dialog' = dialog \/ dialog' = [dialog EXCEPT ![r] = "none"]
  BY DEF Press
<1>4. blind' = blind \/ blind' = blind \cup {r}
  BY DEF Press
<1>5. dialog' \in [Runs -> Dialogs \cup {"none"}]
  BY <1>3 DEF ClaudeTypeOK
<1>6. out' \in [Runs -> Seq(Lines)]
  <2>1. out \in [Runs -> Seq(Lines)]
    BY DEF ClaudeTypeOK
  <2>2. CASE out' = out
    BY <2>1, <2>2
  <2>3. CASE out' = [out EXCEPT ![r] = @ \o LinesOf(dialog[r])]
    BY <1>1, <2>1, <2>3
  <2> QED
    BY <1>2, <2>2, <2>3
<1>7. blind' \subseteq Runs
  BY <1>4 DEF ClaudeTypeOK
<1> QED
  BY <1>5, <1>6, <1>7

\* An input keeps dialogs, output and parsers of their types (SendPTYInput).
LEMMA InputTypes ==
    ASSUME ClaudeTypeOK, NEW key, SendPTYInput(key)
    PROVE  /\ dialog' \in [Runs -> Dialogs \cup {"none"}] /\ out' \in [Runs -> Seq(Lines)]
           /\ blind' \subseteq Runs /\ parser' \in [Runs -> [state : PTYStates, buffer : Seq(Lines)]]
<1>1. CASE state = "running" /\ cur # NoRun /\ kind[cur] = "pty"
  <2>1. cur \in Runs /\ Press(cur, key, FALSE)
    BY <1>1 DEF SendPTYInput, ClaudeTypeOK
  <2>2. CASE ptyParser = NoRun
    BY <1>1, <2>1, <2>2, PressTypes DEF SendPTYInput, ClaudeTypeOK
  <2>3. CASE ptyParser # NoRun
    <3>1. ptyParser \in Runs /\ parser' = [parser EXCEPT ![ptyParser].state = "idle"]
      BY <1>1, <2>3 DEF SendPTYInput, ClaudeTypeOK
    <3>2. parser' \in [Runs -> [state : PTYStates, buffer : Seq(Lines)]]
      <4> DEFINE p == [parser[ptyParser] EXCEPT !.state = "idle"]
      <4>1. parser \in [Runs -> [state : PTYStates, buffer : Seq(Lines)]]
        BY DEF ClaudeTypeOK
      <4>2. p \in [state : PTYStates, buffer : Seq(Lines)]
        BY <3>1, <4>1 DEF PTYStates
      <4>3. parser' = [parser EXCEPT ![ptyParser] = p]
        BY <3>1
      <4> HIDE DEF p
      <4> QED
        BY <4>1, <4>2, <4>3
    <3> QED
      BY <2>1, <3>2, PressTypes
  <2> QED
    BY <2>2, <2>3
<1>2. CASE ~(state = "running" /\ cur # NoRun /\ kind[cur] = "pty")
  BY <1>2 DEF SendPTYInput, ClaudeTypeOK
<1> QED
  BY <1>1, <1>2

\* Every step keeps the types.
LEMMA ClaudeTypesGoOn ==
    ASSUME ClaudeTypeOK, [ClaudeNext]_claudeVars
    PROVE  ClaudeTypeOK'
<1>1. ASSUME NEW r \in Runs, StartWithSession(r)  PROVE ClaudeTypeOK'
  BY <1>1, ManagerAssumption, RunsAreNumbers DEF ClaudeTypeOK, StartWithSession, Start, terminal, runVars
<1>2. ASSUME NEW r \in Runs, StartWithPTY(r)  PROVE ClaudeTypeOK'
  BY <1>2, ManagerAssumption, RunsAreNumbers DEF ClaudeTypeOK, StartWithPTY, Start, terminal, runVars
<1>3. ASSUME NEW r \in Runs, LaunchRun(r)  PROVE ClaudeTypeOK'
  BY <1>3, ManagerAssumption, RunsAreNumbers DEF ClaudeTypeOK, LaunchRun, terminal, runVars
<1>4. ASSUME NEW r \in Runs, StreamPTYOutput(r)  PROVE ClaudeTypeOK'
  BY <1>4, ManagerAssumption, RunsAreNumbers DEF ClaudeTypeOK, StreamPTYOutput, At, terminal, runVars
<1>5. ASSUME NEW r \in Runs, ReadLine(r)  PROVE ClaudeTypeOK'
  <2>1. out[r] \in Seq(Lines) /\ out[r] # <<>> /\ parser[r] \in ParserState
    BY <1>5 DEF ReadLine, ParserState, ClaudeTypeOK
  <2>2. Head(out[r]) \in Lines /\ Tail(out[r]) \in Seq(Lines)
    BY <2>1
  <2> DEFINE p == ProcessLine(parser[r], Head(out[r])).parser
  <2>3. p \in ParserState
    BY <2>1, <2>2, ParsedTypes
  <2>4. parser' = [parser EXCEPT ![r] = p]
    BY <1>5 DEF ReadLine
  <2>5. stream' = [stream EXCEPT ![r] = "report"] \/ stream' = [stream EXCEPT ![r] = "read"]
    BY <1>5 DEF ReadLine, At
  <2>6. blind' \subseteq blind
    BY <1>5 DEF ReadLine
  <2>7. out' = [out EXCEPT ![r] = Tail(out[r])]
    BY <1>5 DEF ReadLine
  <2>8. UNCHANGED <<state, cur, kind, proc, ended, starter, typer, ptyParser, dialog, prints,
                    inputs, denies, status, muddled, reported>>
    BY <1>5 DEF ReadLine, runVars
  <2> HIDE DEF p
  <2>9. parser' \in [Runs -> [state : PTYStates, buffer : Seq(Lines)]]
    BY <2>3, <2>4 DEF ClaudeTypeOK, ParserState
  <2>10. out' \in [Runs -> Seq(Lines)]
    BY <2>2, <2>7 DEF ClaudeTypeOK
  <2>11. stream' \in [Runs -> {"off", "begin", "read", "report", "finish", "done"}] /\ blind' \subseteq Runs
    BY <2>5, <2>6 DEF ClaudeTypeOK
  <2> QED
    BY <2>8, <2>9, <2>10, <2>11 DEF ClaudeTypeOK
<1>6. ASSUME NEW r \in Runs, ReportPrompt(r)  PROVE ClaudeTypeOK'
  <2>1. denies' \in Nat
    BY <1>6 DEF ReportPrompt, ClaudeTypeOK
  <2> QED
    BY <1>6, <2>1 DEF ClaudeTypeOK, ReportPrompt, At, terminal, runVars
<1>7. ASSUME NEW r \in Runs, FinishPTYStreaming(r)  PROVE ClaudeTypeOK'
  <2>1. NewPTYParser \in [state : PTYStates, buffer : Seq(Lines)] /\ <<>> \in Seq(Lines)
    BY DEF NewPTYParser, PTYStates
  <2>2. parser' \in [Runs -> [state : PTYStates, buffer : Seq(Lines)]]
    BY <1>7, <2>1 DEF FinishPTYStreaming, ClaudeTypeOK
  <2>3. out' \in [Runs -> Seq(Lines)]
    BY <1>7, <2>1 DEF FinishPTYStreaming, ClaudeTypeOK
  <2> QED
    BY <1>7, <2>2, <2>3 DEF ClaudeTypeOK, FinishPTYStreaming, At, runVars
<1>8. ASSUME NEW r \in Runs, OnPTYComplete(r)  PROVE ClaudeTypeOK'
  BY <1>8, ManagerAssumption, RunsAreNumbers DEF ClaudeTypeOK, OnPTYComplete, At, terminal, runVars
<1>9. ASSUME NEW r \in Runs, StreamOutputEnds(r)  PROVE ClaudeTypeOK'
  BY <1>9, ManagerAssumption, RunsAreNumbers DEF ClaudeTypeOK, StreamOutputEnds, At, terminal, runVars
<1>10. ASSUME NEW r \in Runs, ReapRun(r)  PROVE ClaudeTypeOK'
  <2>1. state' \in {"idle", "running", "stopped", "error"}
    BY <1>10 DEF ReapRun, Outcomes
  <2> QED
    BY <1>10, <2>1 DEF ClaudeTypeOK, ReapRun, terminal
<1>11. ASSUME NEW r \in Runs, NEW d \in Dialogs, Ask(r, d)  PROVE ClaudeTypeOK'
  <2>1. out[r] \o LinesOf(d) \in Seq(Lines)
    BY LinesAreLines DEF ClaudeTypeOK
  <2>2. out' \in [Runs -> Seq(Lines)]
    BY <1>11, <2>1 DEF ClaudeTypeOK, Ask
  <2> QED
    BY <1>11, <2>2, ManagerAssumption, SMTT(40) DEF ClaudeTypeOK, Ask, runVars
<1>12. ASSUME NEW r \in Runs, Think(r)  PROVE ClaudeTypeOK'
  <2>1. Append(out[r], "thinking") \in Seq(Lines)
    BY DEF ClaudeTypeOK, Lines
  <2>2. out' \in [Runs -> Seq(Lines)]
    BY <1>12, <2>1 DEF ClaudeTypeOK, Think
  <2> QED
    BY <1>12, <2>2, ManagerAssumption DEF ClaudeTypeOK, Think, runVars
<1>13. ASSUME NEW r \in Runs, ClaudeExits(r)  PROVE ClaudeTypeOK'
  BY <1>13, ManagerAssumption, RunsAreNumbers DEF ClaudeTypeOK, ClaudeExits, terminal, runVars
<1>14. ASSUME NEW r \in Runs, TypePrompt(r)  PROVE ClaudeTypeOK'
  <2>1. dialog' \in [Runs -> Dialogs \cup {"none"}] /\ out' \in [Runs -> Seq(Lines)] /\ blind' \subseteq Runs
    BY <1>14, PressTypes DEF TypePrompt
  <2> QED
    BY <1>14, <2>1 DEF ClaudeTypeOK, TypePrompt, runVars
<1>15. ASSUME NEW r \in Runs, Timeout(r)  PROVE ClaudeTypeOK'
  BY <1>15, ManagerAssumption, RunsAreNumbers DEF ClaudeTypeOK, Timeout, terminal, runVars
<1>16. ASSUME NEW key \in {"arrow", "other"}, Input(key)  PROVE ClaudeTypeOK'
  <2>1. /\ dialog' \in [Runs -> Dialogs \cup {"none"}] /\ out' \in [Runs -> Seq(Lines)]
        /\ blind' \subseteq Runs /\ parser' \in [Runs -> [state : PTYStates, buffer : Seq(Lines)]]
    BY <1>16, InputTypes DEF Input
  <2> QED
    BY <1>16, <2>1, ManagerAssumption, SMTT(40) DEF ClaudeTypeOK, Input, runVars
<1>17. ASSUME ExecuteBashLocally  PROVE ClaudeTypeOK'
  BY <1>17, ManagerAssumption, RunsAreNumbers DEF ClaudeTypeOK, ExecuteBashLocally, terminal, runVars
<1>18. ASSUME Deny  PROVE ClaudeTypeOK'
  <2>1. /\ dialog' \in [Runs -> Dialogs \cup {"none"}] /\ out' \in [Runs -> Seq(Lines)]
        /\ blind' \subseteq Runs /\ parser' \in [Runs -> [state : PTYStates, buffer : Seq(Lines)]]
    BY <1>18, InputTypes DEF Deny
  <2> QED
    BY <1>18, <2>1, ManagerAssumption DEF ClaudeTypeOK, Deny, runVars
<1>19. ASSUME Stop  PROVE ClaudeTypeOK'
  BY <1>19, ManagerAssumption, RunsAreNumbers DEF ClaudeTypeOK, Stop, terminal, runVars
<1>20. ASSUME UNCHANGED claudeVars  PROVE ClaudeTypeOK'
  BY <1>20, ManagerAssumption, RunsAreNumbers DEF ClaudeTypeOK, claudeVars, terminal, runVars
<1> QED
  BY <1>1, <1>2, <1>3, <1>4, <1>5, <1>6, <1>7, <1>8, <1>9, <1>10, <1>11, <1>12, <1>13, <1>14, <1>15, <1>16, <1>17, <1>18, <1>19, <1>20 DEF ClaudeNext, Goroutines

\* No key opens a dialog.
LEMMA PressOpensNothing ==
    ASSUME ClaudeTypeOK, NEW r \in Runs, NEW key, NEW byHand \in BOOLEAN, Press(r, key, byHand)
    PROVE  \A q \in Runs : dialog'[q] \in {dialog[q], "none"}
BY DEF Press, ClaudeTypeOK

\* An input may close a dialog; it opens none.
LEMMA InputOpensNothing ==
    ASSUME ClaudeTypeOK, NEW key, SendPTYInput(key)
    PROVE  \A q \in Runs : dialog'[q] \in {dialog[q], "none"}
<1>1. CASE state = "running" /\ cur # NoRun /\ kind[cur] = "pty"
  <2>1. cur \in Runs /\ Press(cur, key, FALSE)
    BY <1>1 DEF SendPTYInput, ClaudeTypeOK
  <2> QED
    BY <2>1, PressOpensNothing
<1>2. CASE ~(state = "running" /\ cur # NoRun /\ kind[cur] = "pty")
  BY <1>2 DEF SendPTYInput, ClaudeTypeOK
<1> QED
  BY <1>1, <1>2

\* A run is started, then read, and asks only while it lives: every step keeps that.
LEMMA RunsStayInOrder ==
    ASSUME ClaudeTypeOK, RunsAreInOrder, [ClaudeNext]_claudeVars
    PROVE  RunsAreInOrder'
<1>1. ASSUME NEW r \in Runs, StartWithSession(r)  PROVE RunsAreInOrder'
  BY <1>1 DEF RunsAreInOrder, ClaudeTypeOK, StartWithSession, Start, terminal, runVars
<1>2. ASSUME NEW r \in Runs, StartWithPTY(r)  PROVE RunsAreInOrder'
  BY <1>2 DEF RunsAreInOrder, ClaudeTypeOK, StartWithPTY, Start, terminal, runVars
<1>3. ASSUME NEW r \in Runs, LaunchRun(r)  PROVE RunsAreInOrder'
  BY <1>3 DEF RunsAreInOrder, ClaudeTypeOK, LaunchRun, terminal, runVars
<1>4. ASSUME NEW r \in Runs, StreamPTYOutput(r)  PROVE RunsAreInOrder'
  BY <1>4 DEF RunsAreInOrder, ClaudeTypeOK, StreamPTYOutput, At, terminal, runVars
<1>5. ASSUME NEW r \in Runs, ReadLine(r)  PROVE RunsAreInOrder'
  <2>1. \A q \in Runs : stream'[q] = stream[q] \/ q = r
    BY <1>5 DEF ReadLine, At, ClaudeTypeOK
  <2>2. starter[r] = "done"
    BY <1>5 DEF ReadLine, RunsAreInOrder
  <2>3. UNCHANGED <<kind, proc, starter, dialog>>
    BY <1>5 DEF ReadLine, runVars
  <2> QED
    BY <2>1, <2>2, <2>3 DEF RunsAreInOrder
<1>6. ASSUME NEW r \in Runs, ReportPrompt(r)  PROVE RunsAreInOrder'
  BY <1>6 DEF RunsAreInOrder, ClaudeTypeOK, ReportPrompt, At, terminal, runVars
<1>7. ASSUME NEW r \in Runs, FinishPTYStreaming(r)  PROVE RunsAreInOrder'
  BY <1>7 DEF RunsAreInOrder, ClaudeTypeOK, FinishPTYStreaming, At, NewPTYParser, PTYStates, terminal, runVars
<1>8. ASSUME NEW r \in Runs, OnPTYComplete(r)  PROVE RunsAreInOrder'
  BY <1>8 DEF RunsAreInOrder, ClaudeTypeOK, OnPTYComplete, At, terminal, runVars
<1>9. ASSUME NEW r \in Runs, StreamOutputEnds(r)  PROVE RunsAreInOrder'
  BY <1>9 DEF RunsAreInOrder, ClaudeTypeOK, StreamOutputEnds, At, terminal, runVars
<1>10. ASSUME NEW r \in Runs, ReapRun(r)  PROVE RunsAreInOrder'
  BY <1>10 DEF RunsAreInOrder, ClaudeTypeOK, ReapRun, terminal, runVars
<1>11. ASSUME NEW r \in Runs, NEW d \in Dialogs, Ask(r, d)  PROVE RunsAreInOrder'
  BY <1>11 DEF RunsAreInOrder, ClaudeTypeOK, Ask, terminal, runVars
<1>12. ASSUME NEW r \in Runs, Think(r)  PROVE RunsAreInOrder'
  BY <1>12 DEF RunsAreInOrder, ClaudeTypeOK, Think, terminal, runVars
<1>13. ASSUME NEW r \in Runs, ClaudeExits(r)  PROVE RunsAreInOrder'
  BY <1>13 DEF RunsAreInOrder, ClaudeTypeOK, ClaudeExits, terminal, runVars
<1>14. ASSUME NEW r \in Runs, TypePrompt(r)  PROVE RunsAreInOrder'
  <2>1. \A q \in Runs : dialog'[q] \in {dialog[q], "none"}
    BY <1>14, PressOpensNothing DEF TypePrompt
  <2> QED
    BY <1>14, <2>1 DEF RunsAreInOrder, TypePrompt, runVars
<1>15. ASSUME NEW r \in Runs, Timeout(r)  PROVE RunsAreInOrder'
  BY <1>15 DEF RunsAreInOrder, ClaudeTypeOK, Timeout, terminal, runVars
<1>16. ASSUME NEW key \in {"arrow", "other"}, Input(key)  PROVE RunsAreInOrder'
  <2>1. \A q \in Runs : dialog'[q] \in {dialog[q], "none"}
    BY <1>16, InputOpensNothing DEF Input
  <2> QED
    BY <1>16, <2>1 DEF RunsAreInOrder, Input, runVars
<1>17. ASSUME ExecuteBashLocally  PROVE RunsAreInOrder'
  BY <1>17 DEF RunsAreInOrder, ClaudeTypeOK, ExecuteBashLocally, terminal, runVars
<1>18. ASSUME Deny  PROVE RunsAreInOrder'
  <2>1. \A q \in Runs : dialog'[q] \in {dialog[q], "none"}
    BY <1>18, InputOpensNothing DEF Deny
  <2> QED
    BY <1>18, <2>1 DEF RunsAreInOrder, Deny, runVars
<1>19. ASSUME Stop  PROVE RunsAreInOrder'
  BY <1>19 DEF RunsAreInOrder, ClaudeTypeOK, Stop, terminal, runVars
<1>20. ASSUME UNCHANGED claudeVars  PROVE RunsAreInOrder'
  BY <1>20 DEF RunsAreInOrder, ClaudeTypeOK, claudeVars, terminal, runVars
<1> QED
  BY <1>1, <1>2, <1>3, <1>4, <1>5, <1>6, <1>7, <1>8, <1>9, <1>10, <1>11, <1>12, <1>13, <1>14, <1>15, <1>16, <1>17, <1>18, <1>19, <1>20 DEF ClaudeNext, Goroutines

\* The state is running exactly while there is a process, and is published so, after every
\* step (setState).
LEMMA StateStaysRight ==
    ASSUME ClaudeTypeOK, RunsAreInOrder, StateIsRight, [ClaudeNext]_claudeVars
    PROVE  StateIsRight'
<1>1. ASSUME NEW r \in Runs, StartWithSession(r)  PROVE StateIsRight'
  <2>1. /\ \A q \in Runs : proc'[q] = IF q = r THEN "live" ELSE proc[q]
        /\ \A q \in Runs : starter'[q] = IF q = r THEN "publish" ELSE starter[q]
        /\ state # "running" /\ state' = "running"
    BY <1>1 DEF StartWithSession, Start, ClaudeTypeOK
  <2>2. \A q \in Runs : ~Alive(q) /\ starter[q] # "publish"
    BY <2>1 DEF StateIsRight
  <2>3. \A q \in Runs : (proc'[q] \in {"live", "exited"} \/ starter'[q] = "publish") => q = r
    BY <2>1, <2>2 DEF Alive
  <2>4. starter'[r] = "publish" /\ proc'[r] = "live"
    BY <2>1
  <2> QED
    BY <2>1, <2>3, <2>4 DEF StateIsRight, StatusIsPublished, Alive
<1>2. ASSUME NEW r \in Runs, StartWithPTY(r)  PROVE StateIsRight'
  <2>1. /\ \A q \in Runs : proc'[q] = IF q = r THEN "live" ELSE proc[q]
        /\ \A q \in Runs : starter'[q] = IF q = r THEN "publish" ELSE starter[q]
        /\ state # "running" /\ state' = "running"
    BY <1>2 DEF StartWithPTY, Start, ClaudeTypeOK
  <2>2. \A q \in Runs : ~Alive(q) /\ starter[q] # "publish"
    BY <2>1 DEF StateIsRight
  <2>3. \A q \in Runs : (proc'[q] \in {"live", "exited"} \/ starter'[q] = "publish") => q = r
    BY <2>1, <2>2 DEF Alive
  <2>4. starter'[r] = "publish" /\ proc'[r] = "live"
    BY <2>1
  <2> QED
    BY <2>1, <2>3, <2>4 DEF StateIsRight, StatusIsPublished, Alive
<1>3. ASSUME NEW r \in Runs, LaunchRun(r)  PROVE StateIsRight'
  <2>1. Alive(r) /\ state = "running"
    BY <1>3 DEF LaunchRun, StateIsRight
  <2>2. \A q \in Runs : starter'[q] = IF q = r THEN "done" ELSE starter[q]
    BY <1>3 DEF LaunchRun, ClaudeTypeOK
  <2>3. UNCHANGED <<state, proc>> /\ status' = "running"
    BY <1>3 DEF LaunchRun
  <2> QED
    BY <2>1, <2>2, <2>3 DEF StateIsRight, StatusIsPublished, Alive
<1>4. ASSUME NEW r \in Runs, StreamPTYOutput(r)  PROVE StateIsRight'
  BY <1>4 DEF StateIsRight, StatusIsPublished, Alive, ClaudeTypeOK, StreamPTYOutput, At, terminal, runVars
<1>5. ASSUME NEW r \in Runs, ReadLine(r)  PROVE StateIsRight'
  <2>1. UNCHANGED <<state, status, muddled, proc, starter>>
    BY <1>5 DEF ReadLine, runVars
  <2> QED
    BY <2>1 DEF StateIsRight, StatusIsPublished, Alive
<1>6. ASSUME NEW r \in Runs, ReportPrompt(r)  PROVE StateIsRight'
  BY <1>6 DEF StateIsRight, StatusIsPublished, Alive, ClaudeTypeOK, ReportPrompt, At, terminal, runVars
<1>7. ASSUME NEW r \in Runs, FinishPTYStreaming(r)  PROVE StateIsRight'
  BY <1>7 DEF StateIsRight, StatusIsPublished, Alive, ClaudeTypeOK, FinishPTYStreaming, At, NewPTYParser, PTYStates, terminal, runVars
<1>8. ASSUME NEW r \in Runs, OnPTYComplete(r)  PROVE StateIsRight'
  BY <1>8 DEF StateIsRight, StatusIsPublished, Alive, ClaudeTypeOK, OnPTYComplete, At, terminal, runVars
<1>9. ASSUME NEW r \in Runs, StreamOutputEnds(r)  PROVE StateIsRight'
  BY <1>9 DEF StateIsRight, StatusIsPublished, Alive, ClaudeTypeOK, StreamOutputEnds, At, terminal, runVars
<1>10. ASSUME NEW r \in Runs, ReapRun(r)  PROVE StateIsRight'
  <2>1. Alive(r) /\ starter[r] = "done"
    BY <1>10 DEF ReapRun, Alive
  <2>2. \A q \in Runs : Alive(q) => q = r
    BY <2>1 DEF StateIsRight
  <2>3. \A q \in Runs : starter'[q] = starter[q] /\ proc'[q] = IF q = r THEN "reaped" ELSE proc[q]
    BY <1>10 DEF ReapRun, ClaudeTypeOK
  <2>4. \A q \in Runs : ~(proc'[q] \in {"live", "exited"}) /\ starter'[q] # "publish"
    BY <2>1, <2>2, <2>3 DEF StateIsRight, Alive
  <2>5. status' = state'
    BY <1>10 DEF ReapRun
  <2> QED
    BY <2>4, <2>5 DEF StateIsRight, StatusIsPublished, Alive
<1>11. ASSUME NEW r \in Runs, NEW d \in Dialogs, Ask(r, d)  PROVE StateIsRight'
  BY <1>11 DEF StateIsRight, StatusIsPublished, Alive, ClaudeTypeOK, Ask, terminal, runVars
<1>12. ASSUME NEW r \in Runs, Think(r)  PROVE StateIsRight'
  BY <1>12 DEF StateIsRight, StatusIsPublished, Alive, ClaudeTypeOK, Think, terminal, runVars
<1>13. ASSUME NEW r \in Runs, ClaudeExits(r)  PROVE StateIsRight'
  <2>1. \A q \in Runs : proc'[q] = IF q = r THEN "exited" ELSE proc[q]
    BY <1>13 DEF ClaudeExits, ClaudeTypeOK
  <2>2. Alive(r) /\ UNCHANGED <<state, status, muddled, starter>>
    BY <1>13 DEF ClaudeExits, Alive
  <2>3. \A q \in Runs : proc'[q] \in {"live", "exited"} <=> proc[q] \in {"live", "exited"}
    BY <2>1, <2>2 DEF Alive
  <2> QED
    BY <2>2, <2>3 DEF StateIsRight, StatusIsPublished, Alive
<1>14. ASSUME NEW r \in Runs, TypePrompt(r)  PROVE StateIsRight'
  <2>1. UNCHANGED <<state, status, muddled, proc, starter>>
    BY <1>14 DEF TypePrompt, runVars
  <2> QED
    BY <2>1 DEF StateIsRight, StatusIsPublished, Alive
<1>15. ASSUME NEW r \in Runs, Timeout(r)  PROVE StateIsRight'
  BY <1>15 DEF StateIsRight, StatusIsPublished, Alive, ClaudeTypeOK, Timeout, terminal, runVars
<1>16. ASSUME NEW key \in {"arrow", "other"}, Input(key)  PROVE StateIsRight'
  <2>1. UNCHANGED <<state, status, muddled, proc, starter>>
    BY <1>16 DEF Input, runVars
  <2> QED
    BY <2>1 DEF StateIsRight, StatusIsPublished, Alive
<1>17. ASSUME ExecuteBashLocally  PROVE StateIsRight'
  BY <1>17 DEF StateIsRight, StatusIsPublished, Alive, ClaudeTypeOK, ExecuteBashLocally, terminal, runVars
<1>18. ASSUME Deny  PROVE StateIsRight'
  <2>1. UNCHANGED <<state, status, muddled, proc, starter>>
    BY <1>18 DEF Deny, runVars
  <2> QED
    BY <2>1 DEF StateIsRight, StatusIsPublished, Alive
<1>19. ASSUME Stop  PROVE StateIsRight'
  BY <1>19 DEF StateIsRight, StatusIsPublished, Alive, ClaudeTypeOK, Stop, terminal, runVars
<1>20. ASSUME UNCHANGED claudeVars  PROVE StateIsRight'
  BY <1>20 DEF StateIsRight, StatusIsPublished, Alive, ClaudeTypeOK, claudeVars, terminal, runVars
<1> QED
  BY <1>1, <1>2, <1>3, <1>4, <1>5, <1>6, <1>7, <1>8, <1>9, <1>10, <1>11, <1>12, <1>13, <1>14, <1>15, <1>16, <1>17, <1>18, <1>19, <1>20 DEF ClaudeNext, Goroutines

\* A run goes on following if nothing happens to its dialog but that it was announced,
\* and to its parser but that it was told of an answer.
LEMMA GoesOnFollowing ==
    ASSUME ClaudeTypeOK, NEW r \in Runs, Follows(r),
           r \in blind => r \in blind',
           dialog'[r] = dialog[r], out'[r] = out[r],
           proc'[r] \in {"none", "live"} => proc[r] \in {"none", "live"},
           parser'[r].buffer = parser[r].buffer, parser'[r].state \in {parser[r].state, "idle"},
           r \in reported => r \in reported',
           stream'[r] = "report" <=> stream[r] = "report"
    PROVE  Follows(r)'
<1>1. Unasked(parser[r], out[r]) => Unasked(parser'[r], out'[r])
  BY DEF Unasked
<1>2. ASSUME NEW lines, BeingRead(parser[r], out[r], lines)
      PROVE  BeingRead(parser'[r], out'[r], lines)
  BY <1>2 DEF BeingRead
<1> QED
  BY <1>1, <1>2 DEF Follows

\* So does one that a key is typed into: where the parser may have missed it, the run
\* is blind; otherwise all was read, and the parser looks for the next dialog.
LEMMA PressedFollows ==
    ASSUME ClaudeTypeOK, NEW r \in Runs, NEW key, NEW byHand \in BOOLEAN, Press(r, key, byHand),
           PromptsFollow, UNCHANGED <<proc, stream, reported>>,
           \A q \in Runs : /\ parser'[q].buffer = parser[q].buffer
                           /\ parser'[q].state \in {parser[q].state, "idle"},
           ~byHand /\ ptyParser = r => parser'[r].state = "idle"
    PROVE  PromptsFollow'
<1>1. CASE proc[r] = "live" /\ dialog[r] # "none"
  <2>1. /\ dialog' = IF key = "arrow" THEN dialog ELSE [dialog EXCEPT ![r] = "none"]
        /\ out' = IF key = "arrow" THEN [out EXCEPT ![r] = @ \o LinesOf(dialog[r])] ELSE out
        /\ blind' = IF byHand \/ ptyParser # r \/ out[r] # <<>> \/ stream[r] # "read"
                    THEN blind \cup {r} ELSE blind
    BY <1>1 DEF Press
  <2>2. ASSUME NEW q \in Runs, q # r  PROVE Follows(q)'
    <3>1. dialog'[q] = dialog[q] /\ out'[q] = out[q] /\ (q \in blind => q \in blind')
      BY <2>1, <2>2 DEF ClaudeTypeOK
    <3>2. Follows(q)
      BY DEF PromptsFollow
    <3> QED
      BY <3>1, <3>2, GoesOnFollowing
  <2>3. Follows(r)'
    <3> SUFFICES ASSUME r \notin blind'
                 PROVE  /\ dialog'[r] = "none" /\ proc'[r] \in {"none", "live"}
                             => Unasked(parser'[r], out'[r]) /\ stream'[r] # "report"
                        /\ dialog'[r] \in {"allow3", "trust2"} /\ r \notin reported' /\ stream'[r] # "report"
                             => BeingRead(parser'[r], out'[r], LinesOf(dialog'[r]))
      BY DEF Follows
    <3>1. ~byHand /\ ptyParser = r /\ out[r] = <<>> /\ stream[r] = "read" /\ r \notin blind
      BY <2>1
    <3>2. CASE key = "arrow"
      <4>1. dialog'[r] = dialog[r] /\ dialog[r] # "none"
        BY <1>1, <2>1, <3>2
      <4>2. ~BeingRead(parser[r], out[r], LinesOf(dialog[r]))
        BY <3>1 DEF BeingRead
      <4>3. ~(dialog[r] \in {"allow3", "trust2"} /\ r \notin reported)
        BY <3>1, <4>2 DEF PromptsFollow, Follows
      <4> QED
        BY <4>1, <4>3
    <3>3. CASE key # "arrow"
      <4>1. dialog'[r] = "none" /\ out'[r] = <<>>
        BY <2>1, <3>1, <3>3 DEF ClaudeTypeOK
      <4>2. parser'[r].state = "idle"
        BY <3>1
      <4>3. Unasked(parser'[r], out'[r])
        BY <4>1, <4>2 DEF Unasked
      <4> QED
        BY <3>1, <4>1, <4>3
    <3> QED
      BY <3>2, <3>3
  <2> QED
    BY <2>2, <2>3 DEF PromptsFollow
<1>2. CASE ~(proc[r] = "live" /\ dialog[r] # "none")
  <2>1. UNCHANGED <<dialog, out, blind>>
    BY <1>2 DEF Press
  <2> QED
    BY <2>1, GoesOnFollowing DEF PromptsFollow
<1> QED
  BY <1>1, <1>2

\* A key that answers a dialog, and resets the parser, leaves it following what is printed.
LEMMA AnsweredFollows ==
    ASSUME ClaudeTypeOK, NEW key, SendPTYInput(key), PromptsFollow, UNCHANGED <<proc, stream,
                                                                                reported>>
    PROVE  PromptsFollow'
<1>1. CASE state = "running" /\ cur # NoRun /\ kind[cur] = "pty"
  <2>1. cur \in Runs /\ Press(cur, key, FALSE) /\ FALSE \in BOOLEAN
    BY <1>1 DEF SendPTYInput, ClaudeTypeOK
  <2>2. parser' = IF ptyParser = NoRun THEN parser ELSE [parser EXCEPT ![ptyParser].state = "idle"]
    BY <1>1 DEF SendPTYInput
  <2>3. /\ \A q \in Runs : /\ parser'[q].buffer = parser[q].buffer
                           /\ parser'[q].state \in {parser[q].state, "idle"}
        /\ ptyParser = cur => parser'[cur].state = "idle"
    <3>1. CASE ptyParser = NoRun
      <4>1. parser' = parser /\ ptyParser # cur
        BY <2>1, <2>2, <3>1, RunsAreNumbers
      <4> QED
        BY <4>1
    <3>2. CASE ptyParser # NoRun
      <4> DEFINE p == [parser[ptyParser] EXCEPT !.state = "idle"]
      <4>1. ptyParser \in Runs /\ parser[ptyParser] \in [state : PTYStates, buffer : Seq(Lines)]
        BY <3>2 DEF ClaudeTypeOK
      <4>2. p.state = "idle" /\ p.buffer = parser[ptyParser].buffer
        BY <4>1
      <4>3. parser' = [parser EXCEPT ![ptyParser] = p]
        BY <2>2, <3>2
      <4> HIDE DEF p
      <4>4. \A q \in Runs : parser'[q] = IF q = ptyParser THEN p ELSE parser[q]
        BY <4>1, <4>3 DEF ClaudeTypeOK
      <4> QED
        BY <2>1, <4>2, <4>4
    <3> QED
      BY <3>1, <3>2
  <2> QED
    BY <2>1, <2>3, PressedFollows
<1>2. CASE ~(state = "running" /\ cur # NoRun /\ kind[cur] = "pty")
  <2>1. UNCHANGED <<dialog, out, blind, parser>>
    BY <1>2 DEF SendPTYInput
  <2> QED
    BY <2>1, GoesOnFollowing DEF PromptsFollow
<1> QED
  BY <1>1, <1>2

\* After every step the parser is in the middle of a dialog, or looks for the next one
\* (streamPTYOutput, ProcessLine).
LEMMA PromptsKeepFollowing ==
    ASSUME ClaudeTypeOK, RunsAreInOrder, PromptsFollow, [ClaudeNext]_claudeVars
    PROVE  PromptsFollow'
<1>1. ASSUME NEW r \in Runs, StartWithSession(r)  PROVE PromptsFollow'
  <2>1. UNCHANGED <<blind, dialog, out, parser, reported, stream>>
    BY <1>1 DEF StartWithSession, Start, terminal, runVars
  <2>2. \A q \in Runs : proc'[q] \in {"none", "live"} => proc[q] \in {"none", "live"}
    BY <1>1 DEF StartWithSession, Start, ClaudeTypeOK, RunsAreInOrder
  <2>3. ASSUME NEW q \in Runs  PROVE Follows(q)'
    <3>1. Follows(q)
      BY DEF PromptsFollow
    <3> QED
      BY <2>1, <2>2, <3>1, GoesOnFollowing
  <2> QED
    BY <2>3 DEF PromptsFollow
<1>2. ASSUME NEW r \in Runs, StartWithPTY(r)  PROVE PromptsFollow'
  <2>1. UNCHANGED <<blind, dialog, out, parser, reported, stream>>
    BY <1>2 DEF StartWithPTY, Start, terminal, runVars
  <2>2. \A q \in Runs : proc'[q] \in {"none", "live"} => proc[q] \in {"none", "live"}
    BY <1>2 DEF StartWithPTY, Start, ClaudeTypeOK, RunsAreInOrder
  <2>3. ASSUME NEW q \in Runs  PROVE Follows(q)'
    <3>1. Follows(q)
      BY DEF PromptsFollow
    <3> QED
      BY <2>1, <2>2, <3>1, GoesOnFollowing
  <2> QED
    BY <2>3 DEF PromptsFollow
<1>3. ASSUME NEW r \in Runs, LaunchRun(r)  PROVE PromptsFollow'
  <2>1. UNCHANGED <<blind, dialog, out, proc, parser, reported>>
    BY <1>3 DEF LaunchRun, terminal, runVars
  <2>2. \A q \in Runs : stream'[q] = "report" <=> stream[q] = "report"
    BY <1>3 DEF LaunchRun, ClaudeTypeOK, RunsAreInOrder
  <2>3. ASSUME NEW q \in Runs  PROVE Follows(q)'
    <3>1. Follows(q)
      BY DEF PromptsFollow
    <3> QED
      BY <2>1, <2>2, <3>1, GoesOnFollowing
  <2> QED
    BY <2>3 DEF PromptsFollow
<1>4. ASSUME NEW r \in Runs, StreamPTYOutput(r)  PROVE PromptsFollow'
  <2>1. UNCHANGED <<blind, dialog, out, proc, parser, reported>>
    BY <1>4 DEF StreamPTYOutput, At, terminal, runVars
  <2>2. \A q \in Runs : stream'[q] = "report" <=> stream[q] = "report"
    BY <1>4 DEF StreamPTYOutput, At, ClaudeTypeOK, RunsAreInOrder
  <2>3. ASSUME NEW q \in Runs  PROVE Follows(q)'
    <3>1. Follows(q)
      BY DEF PromptsFollow
    <3> QED
      BY <2>1, <2>2, <3>1, GoesOnFollowing
  <2> QED
    BY <2>3 DEF PromptsFollow
<1>5. ASSUME NEW r \in Runs, ReadLine(r)  PROVE PromptsFollow'
  <2> DEFINE line == Head(out[r])
             result == ProcessLine(parser[r], line)
  <2>1. UNCHANGED <<dialog, proc, reported>>
    BY <1>5 DEF ReadLine, runVars
  <2>2. out[r] \in Seq(Lines) /\ out[r] # <<>> /\ parser[r] \in ParserState /\ stream[r] = "read"
    BY <1>5 DEF ReadLine, ClaudeTypeOK, ParserState
  <2>3. /\ parser' = [parser EXCEPT ![r] = result.parser]
        /\ stream' = [stream EXCEPT ![r] = IF result.prompt > 0 THEN "report" ELSE "read"]
        /\ blind' = IF line = "thinking" /\ Tail(out[r]) = LinesOf(dialog[r]) THEN blind \ {r} ELSE blind
        /\ out' = [out EXCEPT ![r] = Tail(out[r])]
    BY <1>5 DEF ReadLine, At
  <2> HIDE DEF result
  <2>4. /\ parser'[r] = result.parser /\ out'[r] = Tail(out[r])
        /\ stream'[r] = IF result.prompt > 0 THEN "report" ELSE "read"
        /\ \A q \in Runs : q # r => /\ stream'[q] = stream[q] /\ parser'[q] = parser[q] /\ out'[q] = out[q]
                                    /\ (q \in blind => q \in blind')
    BY <2>3 DEF ClaudeTypeOK
  <2>5. ASSUME NEW q \in Runs, q # r  PROVE Follows(q)'
    <3>1. Follows(q)
      BY DEF PromptsFollow
    <3> QED
      BY <2>1, <2>4, <2>5, <3>1, GoesOnFollowing
  <2>6. CASE line = "thinking" /\ Tail(out[r]) = LinesOf(dialog[r])
    <3>1. result.parser = [state |-> "thinking", buffer |-> <<>>] /\ ~(result.prompt > 0)
      BY <2>6, Thinks DEF result
    <3>2. dialog[r] = "none" => Unasked(result.parser, LinesOf(dialog[r]))
      BY <3>1 DEF Unasked, LinesOf
    <3>3. dialog[r] \in {"allow3", "trust2"} => BeingRead(result.parser, LinesOf(dialog[r]), LinesOf(dialog[r]))
      <4>1. result.parser.state # "permission" /\ result.parser.buffer = <<>> /\ <<>> \in Seq(Lines)
        BY <3>1
      <4> QED
        BY <4>1, ReadsFromStart
    <3>4. Follows(r)'
      BY <2>1, <2>4, <2>6, <3>1, <3>2, <3>3 DEF Follows
    <3> QED
      BY <2>5, <3>4 DEF PromptsFollow
  <2>7. CASE ~(line = "thinking" /\ Tail(out[r]) = LinesOf(dialog[r]))
    <3>1. r \notin blind' => r \notin blind
      BY <2>3, <2>7
    <3>2. ASSUME r \notin blind', dialog[r] = "none", proc[r] \in {"none", "live"}
          PROVE  Unasked(parser'[r], out'[r]) /\ stream'[r] # "report"
      <4>1. Unasked(parser[r], out[r])
        BY <3>1, <3>2 DEF PromptsFollow, Follows
      <4>2. line = "thinking" /\ \A j \in 1..Len(Tail(out[r])) : Tail(out[r])[j] = "thinking"
        BY <2>2, <4>1 DEF Unasked
      <4>3. result.parser = [state |-> "thinking", buffer |-> <<>>] /\ ~(result.prompt > 0)
        BY <4>2, Thinks DEF result
      <4> QED
        BY <2>4, <4>2, <4>3 DEF Unasked
    <3>3. ASSUME r \notin blind', dialog[r] \in {"allow3", "trust2"}, r \notin reported, stream'[r] # "report"
          PROVE  BeingRead(parser'[r], out'[r], LinesOf(dialog[r]))
      <4>1. BeingRead(parser[r], out[r], LinesOf(dialog[r]))
        BY <2>2, <3>1, <3>3 DEF PromptsFollow, Follows
      <4>2. ~(result.prompt > 0)
        BY <2>4, <3>3
      <4>3. BeingRead(result.parser, Tail(out[r]), LinesOf(dialog[r]))
        BY <2>2, <3>3, <4>1, <4>2, ReadsOn DEF result
      <4> QED
        BY <2>4, <4>3
    <3>4. Follows(r)'
      BY <2>1, <3>2, <3>3 DEF Follows
    <3> QED
      BY <2>5, <3>4 DEF PromptsFollow
  <2> QED
    BY <2>6, <2>7
<1>6. ASSUME NEW r \in Runs, ReportPrompt(r)  PROVE PromptsFollow'
  <2>1. UNCHANGED <<blind, dialog, out, proc, parser>>
    BY <1>6 DEF ReportPrompt, At, terminal, runVars
  <2>2. /\ \A q \in Runs : q # r => stream'[q] = stream[q]
        /\ stream[r] = "report" /\ reported' = reported \cup {r}
    BY <1>6 DEF ReportPrompt, At, ClaudeTypeOK
  <2>3. ASSUME NEW q \in Runs, q # r  PROVE Follows(q)'
    <3>1. Follows(q)
      BY DEF PromptsFollow
    <3> QED
      BY <2>1, <2>2, <2>3, <3>1, GoesOnFollowing
  <2>4. Follows(r)'
    <3>1. Follows(r)
      BY DEF PromptsFollow
    <3> QED
      BY <2>1, <2>2, <3>1 DEF Follows
  <2> QED
    BY <2>3, <2>4 DEF PromptsFollow
<1>7. ASSUME NEW r \in Runs, FinishPTYStreaming(r)  PROVE PromptsFollow'
  <2>1. UNCHANGED <<dialog, proc>>
    BY <1>7 DEF FinishPTYStreaming, At, NewPTYParser, PTYStates, terminal, runVars
  <2>2. \A q \in Runs : q # r => /\ stream'[q] = stream[q] /\ parser'[q] = parser[q] /\ out'[q] = out[q]
                                 /\ (q \in blind => q \in blind') /\ (q \in reported => q \in reported')
    BY <1>7 DEF FinishPTYStreaming, At, ClaudeTypeOK
  <2>3. ASSUME NEW q \in Runs, q # r  PROVE Follows(q)'
    <3>1. Follows(q)
      BY DEF PromptsFollow
    <3> QED
      BY <2>1, <2>2, <2>3, <3>1, GoesOnFollowing
  <2>4. Follows(r)'
    <3>1. proc[r] \in {"exited", "reaped"} /\ dialog[r] = "none"
      BY <1>7 DEF FinishPTYStreaming, RunsAreInOrder
    <3> QED
      BY <2>1, <3>1 DEF Follows
  <2> QED
    BY <2>3, <2>4 DEF PromptsFollow
<1>8. ASSUME NEW r \in Runs, OnPTYComplete(r)  PROVE PromptsFollow'
  <2>1. UNCHANGED <<blind, dialog, out, proc, parser, reported>>
    BY <1>8 DEF OnPTYComplete, At, terminal, runVars
  <2>2. \A q \in Runs : stream'[q] = "report" <=> stream[q] = "report"
    BY <1>8 DEF OnPTYComplete, At, ClaudeTypeOK, RunsAreInOrder
  <2>3. ASSUME NEW q \in Runs  PROVE Follows(q)'
    <3>1. Follows(q)
      BY DEF PromptsFollow
    <3> QED
      BY <2>1, <2>2, <3>1, GoesOnFollowing
  <2> QED
    BY <2>3 DEF PromptsFollow
<1>9. ASSUME NEW r \in Runs, StreamOutputEnds(r)  PROVE PromptsFollow'
  <2>1. UNCHANGED <<blind, dialog, out, proc, parser, reported>>
    BY <1>9 DEF StreamOutputEnds, At, terminal, runVars
  <2>2. \A q \in Runs : stream'[q] = "report" <=> stream[q] = "report"
    BY <1>9 DEF StreamOutputEnds, At, ClaudeTypeOK, RunsAreInOrder
  <2>3. ASSUME NEW q \in Runs  PROVE Follows(q)'
    <3>1. Follows(q)
      BY DEF PromptsFollow
    <3> QED
      BY <2>1, <2>2, <3>1, GoesOnFollowing
  <2> QED
    BY <2>3 DEF PromptsFollow
<1>10. ASSUME NEW r \in Runs, ReapRun(r)  PROVE PromptsFollow'
  <2>1. UNCHANGED <<blind, dialog, out, parser, reported, stream>>
    BY <1>10 DEF ReapRun, terminal, runVars
  <2>2. \A q \in Runs : proc'[q] \in {"none", "live"} => proc[q] \in {"none", "live"}
    BY <1>10 DEF ReapRun, ClaudeTypeOK, RunsAreInOrder
  <2>3. ASSUME NEW q \in Runs  PROVE Follows(q)'
    <3>1. Follows(q)
      BY DEF PromptsFollow
    <3> QED
      BY <2>1, <2>2, <3>1, GoesOnFollowing
  <2> QED
    BY <2>3 DEF PromptsFollow
<1>11. ASSUME NEW r \in Runs, NEW d \in Dialogs, Ask(r, d)  PROVE PromptsFollow'
  <2>1. UNCHANGED <<blind, proc, parser, stream>>
    BY <1>11 DEF Ask, terminal, runVars
  <2>2. /\ \A q \in Runs : q # r => dialog'[q] = dialog[q] /\ out'[q] = out[q]
        /\ dialog'[r] = d /\ out'[r] = out[r] \o LinesOf(d) /\ reported' = reported \ {r}
    BY <1>11 DEF Ask, ClaudeTypeOK
  <2>3. ASSUME NEW q \in Runs, q # r  PROVE Follows(q)'
    <3>1. Follows(q)
      BY DEF PromptsFollow
    <3> QED
      BY <2>1, <2>2, <2>3, <3>1, GoesOnFollowing
  <2>4. Follows(r)'
    <3>1. dialog[r] = "none" /\ proc[r] = "live" /\ d # "none"
      BY <1>11, DialogsAssumption DEF Ask
    <3>2. r \notin blind => Unasked(parser[r], out[r])
      BY <3>1 DEF PromptsFollow, Follows
    <3>3. parser[r] \in ParserState /\ out[r] \in Seq(Lines)
      BY DEF ClaudeTypeOK, ParserState
    <3>4. r \notin blind /\ d \in {"allow3", "trust2"} => BeingRead(parser[r], out[r] \o LinesOf(d), LinesOf(d))
      BY <3>2, <3>3, BeginsToRead
    <3> QED
      BY <2>1, <2>2, <3>1, <3>4 DEF Follows
  <2> QED
    BY <2>3, <2>4 DEF PromptsFollow
<1>12. ASSUME NEW r \in Runs, Think(r)  PROVE PromptsFollow'
  <2>1. UNCHANGED <<blind, dialog, proc, parser, reported, stream>>
    BY <1>12 DEF Think, terminal, runVars
  <2>2. /\ \A q \in Runs : q # r => out'[q] = out[q]
        /\ out'[r] = Append(out[r], "thinking")
    BY <1>12 DEF Think, ClaudeTypeOK
  <2>3. ASSUME NEW q \in Runs, q # r  PROVE Follows(q)'
    <3>1. Follows(q)
      BY DEF PromptsFollow
    <3> QED
      BY <2>1, <2>2, <2>3, <3>1, GoesOnFollowing
  <2>4. Follows(r)'
    <3>1. dialog[r] = "none" /\ proc[r] = "live" /\ out[r] \in Seq(Lines)
      BY <1>12 DEF Think, ClaudeTypeOK
    <3>2. r \notin blind => Unasked(parser[r], out[r]) /\ stream[r] # "report"
      BY <3>1 DEF PromptsFollow, Follows
    <3>3. Unasked(parser[r], out[r]) => Unasked(parser[r], Append(out[r], "thinking"))
      BY <3>1 DEF Unasked
    <3> QED
      BY <2>1, <2>2, <3>1, <3>2, <3>3 DEF Follows
  <2> QED
    BY <2>3, <2>4 DEF PromptsFollow
<1>13. ASSUME NEW r \in Runs, ClaudeExits(r)  PROVE PromptsFollow'
  <2>1. UNCHANGED <<blind, out, parser, reported, stream>>
    BY <1>13 DEF ClaudeExits, terminal, runVars
  <2>2. \A q \in Runs : /\ proc'[q] = IF q = r THEN "exited" ELSE proc[q]
                        /\ dialog'[q] = IF q = r THEN "none" ELSE dialog[q]
    BY <1>13 DEF ClaudeExits, ClaudeTypeOK
  <2>3. ASSUME NEW q \in Runs, q # r  PROVE Follows(q)'
    <3>1. Follows(q)
      BY DEF PromptsFollow
    <3> QED
      BY <2>1, <2>2, <2>3, <3>1, GoesOnFollowing
  <2>4. Follows(r)'
    BY <2>2 DEF Follows
  <2> QED
    BY <2>3, <2>4 DEF PromptsFollow
<1>14. ASSUME NEW r \in Runs, TypePrompt(r)  PROVE PromptsFollow'
  <2>1. /\ Press(r, "enter", TRUE) /\ TRUE \in BOOLEAN
        /\ UNCHANGED <<proc, stream, reported, parser>>
    BY <1>14 DEF TypePrompt, runVars
  <2> QED
    BY <2>1, PressedFollows
<1>15. ASSUME NEW r \in Runs, Timeout(r)  PROVE PromptsFollow'
  <2>1. UNCHANGED <<blind, dialog, out, proc, parser, reported, stream>>
    BY <1>15 DEF Timeout, terminal, runVars
  <2>2. ASSUME NEW q \in Runs  PROVE Follows(q)'
    <3>1. Follows(q)
      BY DEF PromptsFollow
    <3> QED
      BY <2>1, <3>1, GoesOnFollowing
  <2> QED
    BY <2>2 DEF PromptsFollow
<1>16. ASSUME NEW key \in {"arrow", "other"}, Input(key)  PROVE PromptsFollow'
  <2>1. SendPTYInput(key) /\ UNCHANGED <<proc, stream, reported>>
    BY <1>16 DEF Input, runVars
  <2> QED
    BY <2>1, AnsweredFollows
<1>17. ASSUME ExecuteBashLocally  PROVE PromptsFollow'
  <2>1. UNCHANGED <<blind, dialog, out, proc, parser, reported, stream>>
    BY <1>17 DEF ExecuteBashLocally, terminal, runVars
  <2>2. ASSUME NEW q \in Runs  PROVE Follows(q)'
    <3>1. Follows(q)
      BY DEF PromptsFollow
    <3> QED
      BY <2>1, <3>1, GoesOnFollowing
  <2> QED
    BY <2>2 DEF PromptsFollow
<1>18. ASSUME Deny  PROVE PromptsFollow'
  <2>1. SendPTYInput("escape") /\ UNCHANGED <<proc, stream, reported>>
    BY <1>18 DEF Deny, runVars
  <2> QED
    BY <2>1, AnsweredFollows
<1>19. ASSUME Stop  PROVE PromptsFollow'
  <2>1. UNCHANGED <<blind, dialog, out, proc, parser, reported, stream>>
    BY <1>19 DEF Stop, terminal, runVars
  <2>2. ASSUME NEW q \in Runs  PROVE Follows(q)'
    <3>1. Follows(q)
      BY DEF PromptsFollow
    <3> QED
      BY <2>1, <3>1, GoesOnFollowing
  <2> QED
    BY <2>2 DEF PromptsFollow
<1>20. ASSUME UNCHANGED claudeVars  PROVE PromptsFollow'
  <2>1. UNCHANGED <<blind, dialog, out, proc, parser, reported, stream>>
    BY <1>20 DEF claudeVars, terminal, runVars
  <2>2. ASSUME NEW q \in Runs  PROVE Follows(q)'
    <3>1. Follows(q)
      BY DEF PromptsFollow
    <3> QED
      BY <2>1, <3>1, GoesOnFollowing
  <2> QED
    BY <2>2 DEF PromptsFollow
<1> QED
  BY <1>1, <1>2, <1>3, <1>4, <1>5, <1>6, <1>7, <1>8, <1>9, <1>10, <1>11, <1>12, <1>13, <1>14, <1>15, <1>16, <1>17, <1>18, <1>19, <1>20 DEF ClaudeNext, Goroutines

-----------------------------------------------------------------------------
(* Claude's manager: the theorems *)

\* No run is started: the invariant holds at the start.
LEMMA ClaudeBegins == ClaudeInit => ClaudeInv
<1> SUFFICES ASSUME ClaudeInit  PROVE ClaudeInv
  OBVIOUS
<1>1. ClaudeTypeOK
  <2>1. NewPTYParser \in [state : PTYStates, buffer : Seq(Lines)] /\ <<>> \in Seq(Lines)
    BY DEF NewPTYParser, PTYStates
  <2>2. parser \in [Runs -> [state : PTYStates, buffer : Seq(Lines)]]
    BY <2>1 DEF ClaudeInit
  <2>3. out \in [Runs -> Seq(Lines)]
    BY <2>1 DEF ClaudeInit
  <2>4. prints \in 0..MaxPrints /\ inputs \in 0..MaxInputs
    BY ManagerAssumption DEF ClaudeInit
  <2> QED
    BY <2>2, <2>3, <2>4 DEF ClaudeInit, ClaudeTypeOK
<1>2. RunsAreInOrder
  BY DEF ClaudeInit, RunsAreInOrder
<1>3. StateIsRight
  BY DEF ClaudeInit, StateIsRight, StatusIsPublished, Alive
<1>4. PromptsFollow
  <2>1. ASSUME NEW r \in Runs  PROVE Follows(r)
    <3>1. dialog[r] = "none" /\ out[r] = <<>> /\ stream[r] = "off" /\ parser[r].state = "idle"
      BY DEF ClaudeInit, NewPTYParser
    <3>2. Unasked(parser[r], out[r])
      BY <3>1 DEF Unasked
    <3> QED
      BY <3>1, <3>2 DEF Follows
  <2> QED
    BY <2>1 DEF PromptsFollow
<1> QED
  BY <1>1, <1>2, <1>3, <1>4 DEF ClaudeInv

\* The state, the processes, the dialogs and what the parser has read of them agree after
\* every step, at any number of runs, of lines printed and of keys pressed (manager.go,
\* pty_parser.go).
THEOREM ClaudeInvariance == ClaudeSpec => []ClaudeInv
<1>1. ASSUME ClaudeInv, [ClaudeNext]_claudeVars  PROVE ClaudeInv'
  BY <1>1, ClaudeTypesGoOn, RunsStayInOrder, StateStaysRight, PromptsKeepFollowing DEF ClaudeInv
<1> QED
  BY <1>1, ClaudeBegins, PTL DEF ClaudeSpec

\* Clients are told the state that the manager is in, and of every dialog that Claude
\* waits in once its lines are read (setState and the wait goroutine, streamPTYOutput,
\* PTYParser.ProcessLine, SendPTYInput).
THEOREM ClaudeIsAlwaysShown == ClaudeSpec => []ClaudeIsShown
<1>1. ASSUME ClaudeInv  PROVE ClaudeIsShown
  <2>1. StatusIsPublished
    BY <1>1 DEF ClaudeInv, StateIsRight
  <2>2. ASSUME NEW r \in Runs, dialog[r] \in {"allow3", "trust2"}, out[r] = <<>>, stream[r] = "read"
        PROVE  r \in reported \cup blind
    <3>1. ~BeingRead(parser[r], out[r], LinesOf(dialog[r]))
      BY <2>2 DEF BeingRead
    <3> QED
      BY <1>1, <2>2, <3>1 DEF ClaudeInv, PromptsFollow, Follows
  <2> QED
    BY <2>1, <2>2 DEF ClaudeIsShown, PromptsAreAnnounced
<1> QED
  BY <1>1, ClaudeInvariance, PTL

-----------------------------------------------------------------------------
(* The feed of a streamer: the invariant *)

Acting == {"cancelling", "reading", "storing"}
Busy == Acting \cup {"scheduling"}
Awake == Busy \cup {"starting", "selecting"}

Place(g) == IF loop[g].pc \in Acting THEN loop[g].read.pos ELSE offset

\* All that was whole up to p is published for g, and nothing else.
ToldUpTo(g, p) ==
    /\ start[g] <= p
    /\ Published(g) = LinesUpTo(g, p) \ torn[g]
    /\ \A k \in torn[g] : 2 * k <= p + 1

\* What has not begun has left no trace; a check is of a watch that began.
Begins ==
    /\ watch # 0 => of[watch] # None
    /\ \A g \in Watches : of[g] = None => /\ writes[g] = 0 /\ feed[g] = <<>>
                                         /\ torn[g] = {} /\ loop[g].pc = "none"
    /\ \A g \in Watches : of[g] # None => start[g] + writes[g] <= file[of[g]]
    /\ \A i \in Watches : loop[i].pc \in Busy =>
           loop[i].read # None /\ of[loop[i].read.watch] # None

StreamTyped == StreamTypeOK /\ Begins

\* Each loop keeps to its own watch.
LoopsKeepTo ==
    /\ \A i \in Watches : loop[i].pc \in Awake => loop[i].follows = i
    /\ \A i \in Watches : loop[i].pc \in Busy => loop[i].read.watch = i

\* A check has published nothing beyond its position, and each line once.
InOrder ==
    /\ \A i \in Watches : loop[i].pc \in Acting =>
           \A n \in DOMAIN feed[i] : 2 * feed[i][n] <= loop[i].read.pos
    /\ \A g \in Watches : \A m, n \in DOMAIN feed[g] : m < n => feed[g][m] < feed[g][n]

InPlace == \A g \in Watches, p \in Size : watch = g /\ p = Place(g) => ToldUpTo(g, p)

Faithful == LoopsKeepTo /\ InOrder /\ InPlace

StreamInv == StreamTyped /\ (~crossed => Faithful)

\* What is left over when a position is halved.
LEMMA Halves ==
    ASSUME NEW p \in Nat
    PROVE  p \div 2 \in Nat /\ (p = 2 * (p \div 2) \/ p = 2 * (p \div 2) + 1)
OBVIOUS

\* The line that a position is in, and that it is one of the transcript.
LEMMA NextLine ==
    ASSUME NEW p \in Size, NEW size \in Size, p < size, StreamAssumption,
           NEW line, line = p \div 2 + 1
    PROVE  /\ line \in Line
           /\ p = 2 * line - 2 \/ p = 2 * line - 1
<1>1. MaxHalves \in Nat /\ p \in Nat /\ size \in Nat
    BY DEF StreamAssumption, Size
<1>2. PICK m \in Nat : m = p \div 2 /\ (p = 2 * m \/ p = 2 * m + 1)
    BY <1>1, Halves
<1>3. PICK h \in Nat : h = (MaxHalves + 1) \div 2 /\ (MaxHalves + 1 = 2 * h \/ MaxHalves + 1 = 2 * h + 1)
    BY <1>1, Halves
<1> QED
    BY <1>1, <1>2, <1>3 DEF Size, Line

\* The invariant holds at first.
LEMMA StreamStarts == StreamAssumption /\ StreamInit => StreamInv
<1> SUFFICES ASSUME StreamAssumption, StreamInit PROVE StreamInv
    OBVIOUS
<1> USE DEF StreamInit, StreamAssumption
<1>1. StreamTypeOK
    <2>1. 0 \in Size /\ 0 \in Nat
        BY DEF Size
    <2>2. NoLoop \in Loop
        BY DEF NoLoop, Loop
    <2>3. <<>> \in Seq(Line) /\ feed \in [Watches -> Seq(Line)] /\ torn \in [Watches -> SUBSET Line]
        OBVIOUS
    <2>4. /\ loop \in [Watches -> Loop] /\ inbox \in [Watches -> Info \cup {None}]
          /\ of \in [Watches -> Session \cup {None}]
        BY <2>2
    <2> QED
        BY <2>1, <2>3, <2>4 DEF StreamTypeOK
<1>2. Begins
    BY DEF Begins, NoLoop, Busy, Acting
<1>3. LoopsKeepTo /\ InOrder /\ InPlace
    <2>1. \A i \in Watches : loop[i].pc = "none" /\ feed[i] = <<>>
        BY DEF NoLoop
    <2>2. LoopsKeepTo
        BY <2>1 DEF LoopsKeepTo, Busy, Acting, Awake
    <2>3. InOrder
        <3>1. \A i \in Watches : loop[i].pc \notin Acting
            BY <2>1 DEF Acting
        <3>2. \A i \in Watches : DOMAIN feed[i] = {}
            BY <2>1
        <3> QED
            BY <3>1, <3>2 DEF InOrder
    <2>4. InPlace
        BY DEF InPlace, Watches
    <2> QED
        BY <2>2, <2>3, <2>4
<1> QED
    BY <1>1, <1>2, <1>3 DEF StreamInv, StreamTyped, Faithful

-----------------------------------------------------------------------------

\* Types, and what has begun, under a write.
LEMMA WriteTranscriptTyped ==
    ASSUME StreamTyped, StreamAssumption, NEW s \in Session, NEW n \in 1 .. 2, WriteTranscript(s, n)
    PROVE  StreamTyped'
<1> USE DEF StreamTyped, WriteTranscript, files, watches, completion, streamHistory
<1>1. MaxHalves \in Nat /\ file[s] \in Nat /\ file[s] + n \in Size
    BY DEF StreamTypeOK, Size, StreamAssumption
<1>2. \A t \in Session : file[t] <= file'[t] /\ file'[t] \in Size
    BY <1>1 DEF StreamTypeOK, Size
<1>3. \A g \in Watches : writes'[g] \in Size
    <2> TAKE g \in Watches
    <2>1. CASE g = watch /\ of[g] = s
        <3>1. s # None
            BY NoneAssumption
        <3>2. start[g] + writes[g] <= file[s]
            BY <2>1, <3>1 DEF Begins
        <3> QED
            BY <2>1, <3>2, <1>1 DEF StreamTypeOK, Size
    <2> QED
        BY <2>1 DEF StreamTypeOK
<1>4. StreamTypeOK'
    BY <1>2, <1>3, Zenon DEF StreamTypeOK
<1>5. Begins'
    <2>1. \A g \in Watches : of[g] = None => writes'[g] = 0
        BY NoneAssumption DEF Begins, StreamTypeOK
    <2>2. \A g \in Watches : of[g] # None => start[g] + writes'[g] <= file'[of[g]]
        <3> SUFFICES ASSUME NEW g \in Watches, of[g] # None
                     PROVE  start[g] + writes'[g] <= file'[of[g]]
            OBVIOUS
        <3>1. of[g] \in Session /\ start[g] \in Nat /\ writes[g] \in Nat
            BY DEF StreamTypeOK, Size
        <3>2. start[g] + writes[g] <= file[of[g]] /\ file[of[g]] \in Nat /\ file'[of[g]] \in Nat
            BY <3>1, <1>2 DEF Begins, StreamTypeOK, Size
        <3>3. CASE g = watch /\ of[g] = s
            BY <3>1, <3>2, <3>3 DEF StreamTypeOK
        <3>4. CASE ~(g = watch /\ of[g] = s)
            <4>1. writes'[g] = writes[g]
                BY <3>4 DEF StreamTypeOK
            <4> QED
                BY <4>1, <3>1, <3>2, <1>2
        <3> QED
            BY <3>3, <3>4
    <2> QED
        BY <2>1, <2>2 DEF Begins
<1> QED
    BY <1>4, <1>5

\* Types, and what has begun, under a new watch.
LEMMA WatchTyped ==
    ASSUME StreamTyped, StreamAssumption, NEW s \in Session, WatchSession(s)
    PROVE  StreamTyped'
<1> USE DEF StreamTyped, files, watches, completion, streamHistory, Stops
<1>1. PICK g \in Watches \ Begun :
          /\ watch' = g
          /\ of' = [of EXCEPT ![g] = s]
          /\ start' = [start EXCEPT ![g] = file[s]]
          /\ loop' = [loop EXCEPT ![g] = [pc |-> "starting", follows |-> g, read |-> None]]
    BY DEF WatchSession
<1>2. [pc |-> "starting", follows |-> g, read |-> None] \in Loop
    BY DEF Loop
<1>3. StreamTypeOK'
    BY <1>1, <1>2 DEF StreamTypeOK, WatchSession
<1>4. of[g] = None /\ s # None /\ file[s] \in Nat
    BY NoneAssumption, <1>1 DEF Begun, StreamTypeOK, Size
<1>5. Begins'
    <2>1. /\ of'[g] = s /\ start'[g] = file[s] /\ loop'[g].pc = "starting"
          /\ \A h \in Watches : h # g => of'[h] = of[h] /\ start'[h] = start[h] /\ loop'[h] = loop[h]
          /\ UNCHANGED <<file, writes, feed, torn>>
        BY <1>1 DEF StreamTypeOK, WatchSession
    <2>2. writes[g] = 0
        BY <1>1, <1>4 DEF Begins
    <2>3. \A i \in Watches : loop'[i].pc \in Busy => i # g
        BY <2>1 DEF Busy, Acting
    <2>4. \A h \in Watches : of[h] # None => of'[h] # None
        BY <2>1, <1>4
    <2>5. \A i \in Watches : loop[i].pc \in Busy =>
              loop[i].read # None /\ loop[i].read.watch \in Watches /\ of[loop[i].read.watch] # None
        BY DEF Begins, StreamTypeOK, Loop, Read
    <2>6. \A i \in Watches : loop'[i].pc \in Busy =>
              loop'[i].read # None /\ of'[loop'[i].read.watch] # None
        BY <2>1, <2>3, <2>4, <2>5
    <2>7. \A h \in Watches : of'[h] # None => start'[h] + writes'[h] <= file'[of'[h]]
        BY <2>1, <2>2, <1>4 DEF Begins
    <2>8. \A h \in Watches : of'[h] = None => /\ writes'[h] = 0 /\ feed'[h] = <<>>
                                              /\ torn'[h] = {} /\ loop'[h].pc = "none"
        BY <2>1, <1>4 DEF Begins
    <2>9. watch' # 0 => of'[watch'] # None
        BY <1>1, <2>1, <1>4
    <2> QED
        BY <2>6, <2>7, <2>8, <2>9 DEF Begins
<1> QED
    BY <1>3, <1>5

\* Types, and what has begun, when a watch ends.
LEMMA UnwatchTyped ==
    ASSUME StreamTyped, StreamAssumption, UnwatchSession \/ \E s \in Session : WatchSessionFails(s)
    PROVE  StreamTyped'
<1>1. 0 \in Size
    BY DEF StreamAssumption, Size
<1> QED
    BY <1>1 DEF StreamTyped, StreamTypeOK, Begins, UnwatchSession, WatchSessionFails, files, watches,
           completion, streamHistory, Stops

\* The steps of a loop, of which each leaves most of the state alone.
LEMMA LoopTyped ==
    ASSUME StreamTyped, NEW i \in Watches, ~LoopAt(i, "none"), NEW l \in Loop,
           loop' = [loop EXCEPT ![i] = l],
           l.pc # "none",
           l.pc \in Busy => l.read # None /\ of[l.read.watch] # None,
           UNCHANGED <<watch, of, start, file>>,
           writes' \in [Watches -> Size],
           \A g \in Watches : writes'[g] <= writes[g],
           \A g \in Watches : of[g] = None => feed'[g] = feed[g] /\ torn'[g] = torn[g]
    PROVE  Begins' /\ loop' \in [Watches -> Loop]
<1> USE DEF StreamTyped
<1>1. loop' \in [Watches -> Loop] /\ loop'[i] = l /\ \A j \in Watches : j # i => loop'[j] = loop[j]
    BY DEF StreamTypeOK
<1>2. of[i] # None
    BY DEF Begins, LoopAt
<1>3. \A g \in Watches : of[g] = None => writes'[g] = 0
    <2> SUFFICES ASSUME NEW g \in Watches, of[g] = None PROVE writes'[g] = 0
        OBVIOUS
    <2>1. writes[g] = 0 /\ writes'[g] <= writes[g] /\ writes'[g] \in Size
        BY DEF Begins
    <2> QED
        BY <2>1 DEF Size
<1>4. \A g \in Watches : of[g] # None => start[g] + writes'[g] <= file[of[g]]
    <2> SUFFICES ASSUME NEW g \in Watches, of[g] # None PROVE start[g] + writes'[g] <= file[of[g]]
        OBVIOUS
    <2>1. of[g] \in Session /\ start[g] + writes[g] <= file[of[g]]
        BY DEF StreamTypeOK, Begins
    <2>2. start[g] \in Nat /\ writes[g] \in Nat /\ file[of[g]] \in Nat
        BY <2>1 DEF StreamTypeOK, Size
    <2>3. writes'[g] \in Nat
        BY DEF Size
    <2> QED
        BY <2>1, <2>2, <2>3
<1>5. \A j \in Watches : loop'[j].pc \in Busy => loop'[j].read # None /\ of[loop'[j].read.watch] # None
    BY <1>1 DEF Begins
<1>6. \A g \in Watches : of[g] = None => feed'[g] = <<>> /\ torn'[g] = {} /\ loop'[g].pc = "none"
    BY <1>1, <1>2 DEF Begins
<1> QED
    BY <1>1, <1>3, <1>4, <1>5, <1>6 DEF Begins

\* What is published up to a position depends on the feed of that watch alone.
LEMMA ToldKeeps ==
    ASSUME NEW g \in Watches, NEW p \in Size, ToldUpTo(g, p),
           start'[g] = start[g], feed'[g] = feed[g], torn'[g] = torn[g]
    PROVE  ToldUpTo(g, p)'
<1>1. Published(g)' = Published(g)
    BY DEF Published
<1>2. LinesUpTo(g, p)' = LinesUpTo(g, p)
    BY DEF LinesUpTo
<1> QED
    BY <1>1, <1>2 DEF ToldUpTo

\* What touches neither loops nor feeds.
LEMMA StreamRests ==
    ASSUME Faithful, UNCHANGED <<loop, offset, watch, start, feed, torn>>
    PROVE  Faithful'
<1>1. LoopsKeepTo' /\ InOrder'
    BY DEF Faithful, LoopsKeepTo, InOrder
<1>2. InPlace'
    <2> SUFFICES ASSUME NEW g \in Watches, NEW p \in Size, watch' = g, p = Place(g)'
                 PROVE  ToldUpTo(g, p)'
        BY DEF InPlace
    <2>1. p = Place(g)
        BY DEF Place
    <2>2. ToldUpTo(g, p)
        BY <2>1 DEF Faithful, InPlace
    <2> QED
        BY <2>2, ToldKeeps
<1> QED
    BY <1>1, <1>2 DEF Faithful

\* A step of a loop that leaves the feeds alone.
LEMMA LoopIsFaithful ==
    ASSUME StreamTyped, Faithful, NEW i \in Watches, NEW l \in Loop,
           loop' = [loop EXCEPT ![i] = l],
           UNCHANGED <<watch, start, feed, torn>>,
           l.pc \in Awake => l.follows = i,
           l.pc \in Busy => l.read.watch = i,
           l.pc \in Acting => \A n \in DOMAIN feed[i] : 2 * feed[i][n] <= l.read.pos,
           watch = i => Place(i)' = Place(i),
           watch # i => offset' = offset
    PROVE  Faithful'
<1>1. loop'[i] = l /\ \A j \in Watches : j # i => loop'[j] = loop[j]
    BY DEF StreamTyped, StreamTypeOK
<1>2. LoopsKeepTo'
    BY <1>1 DEF Faithful, LoopsKeepTo
<1>3. InOrder'
    BY <1>1 DEF Faithful, InOrder
<1>4. InPlace'
    <2> SUFFICES ASSUME NEW g \in Watches, NEW p \in Size, watch' = g, p = Place(g)'
                 PROVE  ToldUpTo(g, p)'
        BY DEF InPlace
    <2>1. CASE g = i
        <3>1. p = Place(g)
            BY <2>1
        <3> QED
            BY <3>1, ToldKeeps DEF Faithful, InPlace
    <2>2. CASE g # i
        <3>1. p = Place(g)
            BY <2>2, <1>1 DEF Place
        <3> QED
            BY <3>1, ToldKeeps DEF Faithful, InPlace
    <2> QED
        BY <2>1, <2>2
<1> QED
    BY <1>2, <1>3, <1>4 DEF Faithful

\* The next line of a check, published if it is whole.
LEMMA LineIsTold ==
    ASSUME NEW i \in Watches, NEW p \in Size, NEW end \in Size, NEW line \in Line,
           MaxHalves \in Nat,
           start[i] \in Nat, feed[i] \in Seq(Line), torn[i] \subseteq Line,
           ToldUpTo(i, p),
           p = 2 * line - 2 \/ p = 2 * line - 1,
           p < end, end <= 2 * line,
           start'[i] = start[i],
           \/ /\ end = p + 2
              /\ feed'[i] = Append(feed[i], line) /\ torn'[i] = torn[i]
           \/ /\ end # p + 2
              /\ feed'[i] = feed[i] /\ torn'[i] = torn[i] \cup {line}
    PROVE  ToldUpTo(i, end)'
<1>1. p \in Nat /\ end \in Nat /\ line \in Nat /\ Line \subseteq Nat
    BY DEF Size, Line
<1>2. CASE end = p + 2
    <2>1. p = 2 * line - 2 /\ feed'[i] = Append(feed[i], line) /\ torn'[i] = torn[i]
        BY <1>1, <1>2
    <2>2. Published(i)' = Published(i) \cup {line}
        <3>1. /\ DOMAIN feed'[i] = DOMAIN feed[i] \cup {Len(feed[i]) + 1}
              /\ \A n \in DOMAIN feed[i] : feed'[i][n] = feed[i][n]
              /\ feed'[i][Len(feed[i]) + 1] = line
            BY <2>1
        <3> QED
            BY <3>1 DEF Published
    <2>3. LinesUpTo(i, end)' = LinesUpTo(i, p) \cup {line}
        <3>1. start[i] <= 2 * line - 2
            BY <2>1 DEF ToldUpTo
        <3>2. \A k \in Line : 2 * k <= end <=> 2 * k <= p \/ k = line
            BY <2>1, <1>1, <1>2
        <3> QED
            BY <3>1, <3>2, <1>1, <1>2, <2>1 DEF LinesUpTo
    <2>4. line \notin torn[i]
        BY <2>1, <1>1 DEF ToldUpTo
    <2>5. Published(i)' = LinesUpTo(i, end)' \ torn'[i]
        BY <2>1, <2>2, <2>3, <2>4 DEF ToldUpTo
    <2>6. start'[i] <= end
        BY <1>1, <1>2 DEF ToldUpTo
    <2>7. \A k \in torn'[i] : 2 * k <= end + 1
        <3> SUFFICES ASSUME NEW k \in torn[i] PROVE 2 * k <= end + 1
            BY <2>1
        <3>1. k \in Nat /\ 2 * k <= p + 1
            BY <1>1 DEF ToldUpTo
        <3> QED
            BY <3>1, <1>1, <1>2
    <2> QED
        BY <2>5, <2>6, <2>7 DEF ToldUpTo
<1>3. CASE end # p + 2
    <2>1. feed'[i] = feed[i] /\ torn'[i] = torn[i] \cup {line} /\ end = p + 1
        BY <1>1, <1>3
    <2>2. Published(i)' = Published(i)
        BY <2>1 DEF Published
    <2>3. \A k \in Line : k # line => (2 * k <= end <=> 2 * k <= p)
        BY <2>1, <1>1
    <2>4. LinesUpTo(i, end)' \ {line} = LinesUpTo(i, p) \ {line}
        BY <2>3 DEF LinesUpTo
    <2>5. line \notin LinesUpTo(i, p)
        BY <1>1 DEF LinesUpTo
    <2>6. Published(i)' = LinesUpTo(i, end)' \ torn'[i]
        BY <2>1, <2>2, <2>4, <2>5 DEF ToldUpTo
    <2>7. start'[i] <= end
        BY <2>1, <1>1 DEF ToldUpTo
    <2>8. \A k \in torn'[i] : 2 * k <= end + 1
        <3> SUFFICES ASSUME NEW k \in torn[i] \cup {line} PROVE 2 * k <= end + 1
            BY <2>1
        <3>1. CASE k = line
            BY <3>1, <2>1, <1>1
        <3>2. CASE k \in torn[i]
            <4>1. k \in Nat /\ 2 * k <= p + 1
                BY <3>2, <1>1 DEF ToldUpTo
            <4> QED
                BY <4>1, <2>1, <1>1
        <3> QED
            BY <3>1, <3>2
    <2> QED
        BY <2>6, <2>7, <2>8 DEF ToldUpTo
<1> QED
    BY <1>2, <1>3

-----------------------------------------------------------------------------
(* The feed of a streamer: the steps *)

\* A write moves no position.
LEMMA WriteTranscriptKeeps ==
    ASSUME StreamInv, StreamAssumption, NEW s \in Session, NEW n \in 1 .. 2, WriteTranscript(s, n)
    PROVE  StreamInv'
<1>1. StreamTyped'
    BY WriteTranscriptTyped DEF StreamInv
<1>2. ~crossed' => Faithful'
    BY StreamRests DEF StreamInv, WriteTranscript, watches, streamHistory
<1> QED
    BY <1>1, <1>2 DEF StreamInv

\* A new watch starts where its transcript ends, with nothing to publish.
LEMMA WatchKeeps ==
    ASSUME StreamInv, StreamAssumption, NEW s \in Session, WatchSession(s)
    PROVE  StreamInv'
<1> USE DEF StreamInv
<1>1. StreamTyped'
    BY WatchTyped
<1>2. PICK g \in Watches \ Begun :
          /\ watch' = g
          /\ start' = [start EXCEPT ![g] = file[s]]
          /\ loop' = [loop EXCEPT ![g] = [pc |-> "starting", follows |-> g, read |-> None]]
    BY DEF WatchSession
<1>3. ASSUME ~crossed' PROVE Faithful'
    <2>1. Faithful
        BY <1>3 DEF WatchSession
    <2>2. /\ start'[g] = file[s] /\ loop'[g].pc = "starting" /\ loop'[g].follows = g
          /\ \A h \in Watches : h # g => start'[h] = start[h] /\ loop'[h] = loop[h]
          /\ UNCHANGED <<feed, torn>> /\ offset' = file[s]
        BY <1>2 DEF WatchSession, StreamTyped, StreamTypeOK, streamHistory
    <2>3. LoopsKeepTo' /\ InOrder'
        BY <2>1, <2>2 DEF Faithful, LoopsKeepTo, InOrder, Busy, Acting
    <2>4. feed[g] = <<>> /\ torn[g] = {}
        BY <1>2 DEF Begun, StreamTyped, Begins
    <2>5. InPlace'
        <3> SUFFICES ASSUME NEW h \in Watches, NEW p \in Size, watch' = h, p = Place(h)'
                     PROVE  ToldUpTo(h, p)'
            BY DEF InPlace
        <3>1. h = g /\ p = file[s]
            BY <1>2, <2>2 DEF Place, Acting
        <3>2. start'[h] = p /\ feed'[h] = <<>> /\ torn'[h] = {} /\ p \in Nat
            BY <3>1, <2>2, <2>4 DEF Size
        <3>3. Published(h)' = {}
            BY <3>2 DEF Published
        <3>4. LinesUpTo(h, p)' = {}
            BY <3>2 DEF LinesUpTo, Line
        <3> QED
            BY <3>2, <3>3, <3>4 DEF ToldUpTo
    <2> QED
        BY <2>3, <2>5 DEF Faithful
<1> QED
    BY <1>1, <1>3

\* With no watch on, only the order of the feeds is owed.
LEMMA UnwatchKeeps ==
    ASSUME StreamInv, StreamAssumption, UnwatchSession \/ \E s \in Session : WatchSessionFails(s)
    PROVE  StreamInv'
<1>1. StreamTyped'
    BY UnwatchTyped DEF StreamInv
<1>2. watch' = 0 /\ UNCHANGED <<crossed, loop, feed>>
    BY DEF UnwatchSession, WatchSessionFails, streamHistory
<1>3. ~crossed' => Faithful'
    BY <1>2 DEF StreamInv, Faithful, LoopsKeepTo, InOrder, InPlace, Watches
<1> QED
    BY <1>1, <1>3 DEF StreamInv

\* A step of a loop to l that leaves transcripts, watches and feeds alone.
LEMMA LoopMoves ==
    ASSUME StreamInv, NEW i \in Watches, loop[i].pc # "none", NEW l \in Loop,
           loop' = [loop EXCEPT ![i] = l],
           l.pc # "none",
           l.pc \in Busy => l.read # None /\ of[l.read.watch] # None,
           UNCHANGED <<watch, of, start, file, writes, feed, torn>>,
           crossed => crossed',
           ~crossed' => /\ l.pc \in Awake => l.follows = i
                        /\ l.pc \in Busy => l.read.watch = i
                        /\ l.pc \in Acting => \A n \in DOMAIN feed[i] : 2 * feed[i][n] <= l.read.pos
                        /\ watch = i => Place(i)' = Place(i)
                        /\ watch # i => offset' = offset
    PROVE  Begins' /\ loop' \in [Watches -> Loop] /\ (~crossed' => Faithful')
<1>1. StreamTyped
    BY DEF StreamInv
<1>2. \A g \in Watches : writes'[g] <= writes[g]
    <2> TAKE g \in Watches
    <2>1. writes[g] \in Int
        BY <1>1 DEF StreamTyped, StreamTypeOK, Size
    <2> QED
        BY <2>1
<1>3. writes' \in [Watches -> Size]
    BY <1>1 DEF StreamTyped, StreamTypeOK
<1>4. Begins' /\ loop' \in [Watches -> Loop]
    BY <1>1, <1>2, <1>3, LoopTyped DEF LoopAt
<1>5. ASSUME ~crossed' PROVE Faithful'
    <2>1. Faithful
        BY <1>5 DEF StreamInv
    <2> QED
        BY <1>1, <1>5, <2>1, LoopIsFaithful
<1> QED
    BY <1>4, <1>5

\* A loop that takes the channels of its own watch follows it.
LEMMA TakeChannelsKeeps ==
    ASSUME StreamInv, NEW i \in Watches, TakeChannels(i)
    PROVE  StreamInv'
<1> USE DEF StreamInv, TakeChannels, files, watches, completion, streamHistory
<1>1. loop[i] \in Loop /\ watch \in Watches \cup {0} /\ loop[i].pc = "starting"
    BY DEF StreamTyped, StreamTypeOK, LoopAt
<1>2. PICK l \in Loop :
          /\ loop' = [loop EXCEPT ![i] = l]
          /\ l.pc \in {"selecting", "ended", "panicked"}
          /\ l.pc = "selecting" => l.follows = watch
          /\ l.pc = "selecting" /\ watch # i => crossed'
    <2>1. CASE watch # 0 /\ loop' = [loop EXCEPT ![i].pc = "selecting", ![i].follows = watch]
        <3>1. [loop[i] EXCEPT !.pc = "selecting", !.follows = watch] \in Loop
            BY <1>1 DEF Loop
        <3> QED
            BY <3>1, <2>1, <1>1 DEF Loop, StreamTyped, StreamTypeOK
    <2>2. ASSUME NEW pc \in {"ended", "panicked"}, GoesTo(i, pc)
          PROVE  [loop[i] EXCEPT !.pc = pc] \in Loop /\ loop' = [loop EXCEPT ![i] = [loop[i] EXCEPT !.pc = pc]]
        BY <1>1, <2>2 DEF GoesTo, Loop, StreamTyped, StreamTypeOK
    <2> QED
        BY <2>1, <2>2, <1>1 DEF Loop
<1> HIDE DEF TakeChannels
<1>9. loop'[i] = l
    BY <1>2 DEF StreamTyped, StreamTypeOK
<1>8. loop[i].pc \notin Acting /\ loop[i].pc # "none" /\ l.pc # "none"
    BY <1>1, <1>2 DEF Acting
<1>7. l.pc \notin Acting /\ l.pc \notin Busy /\ (l.pc \in Awake => l.pc = "selecting")
    BY <1>2 DEF Acting, Busy, Awake
<1>3. l.pc \notin Acting /\ loop[i].pc \notin Acting /\ l.pc \notin Busy /\ loop'[i] = l
    BY <1>7, <1>8, <1>9
<1>10. UNCHANGED <<watch, of, start, file, writes, feed, torn, offset>>
    BY DEF TakeChannels
<1>12. crossed => crossed'
    BY Zenon DEF TakeChannels
<1>4. Place(i)' = Place(i)
    BY <1>3, <1>10 DEF Place
<1>5. ~crossed' => (l.pc \in Awake => l.follows = i)
    BY <1>2, <1>7
<1>6. Begins' /\ loop' \in [Watches -> Loop] /\ (~crossed' => Faithful')
    BY <1>2, <1>4, <1>5, <1>7, <1>8, <1>10, <1>12, LoopMoves
<1>11. StreamTypeOK'
    BY <1>6 DEF StreamTyped, StreamTypeOK, TakeChannels
<1> QED
    BY <1>6, <1>11 DEF StreamTyped

\* A loop that ends.
LEMMA EndKeeps ==
    ASSUME StreamInv, NEW i \in Watches, End(i)
    PROVE  StreamInv'
<1> USE DEF StreamInv, files, watches, completion, streamHistory
<1>1. loop[i] \in Loop /\ loop[i].pc = "selecting"
    BY DEF StreamTyped, StreamTypeOK, LoopAt, End
<1>2. PICK l \in Loop : loop' = [loop EXCEPT ![i] = l] /\ l.pc = "ended"
    <2>1. [loop[i] EXCEPT !.pc = "ended"] \in Loop
        BY <1>1 DEF Loop
    <2>2. loop' = [loop EXCEPT ![i] = [loop[i] EXCEPT !.pc = "ended"]]
        BY <1>1 DEF GoesTo, End, StreamTyped, StreamTypeOK
    <2> QED
        BY <1>1, <2>1, <2>2 DEF Loop
<1>3. loop'[i] = l /\ l.pc \notin Awake /\ l.pc \notin Busy /\ l.pc \notin Acting /\ loop[i].pc \notin Acting
    BY <1>1, <1>2 DEF Acting, Busy, Awake, StreamTyped, StreamTypeOK
<1>4. UNCHANGED <<watch, of, start, file, writes, feed, torn, offset, crossed>>
    BY DEF End
<1>5. Place(i)' = Place(i)
    BY <1>3, <1>4 DEF Place
<1>6. Begins' /\ loop' \in [Watches -> Loop] /\ (~crossed' => Faithful')
    BY <1>1, <1>2, <1>3, <1>4, <1>5, LoopMoves
<1>7. StreamTypeOK'
    BY <1>6 DEF StreamTyped, StreamTypeOK, End
<1> QED
    BY <1>6, <1>7 DEF StreamTyped

\* A loop that is back at its select.
LEMMA Returned ==
    ASSUME StreamTyped, NEW i \in Watches, Returns(i)
    PROVE  \E l \in Loop : /\ loop' = [loop EXCEPT ![i] = l]
                           /\ l.pc \in {"starting", "selecting"}
                           /\ l.follows = loop[i].follows
<1>1. loop[i] \in Loop /\ Selects \in {"starting", "selecting"}
    BY DEF StreamTyped, StreamTypeOK, Selects
<1> DEFINE l == [loop[i] EXCEPT !.pc = Selects, !.read = None]
<1>2. l \in Loop /\ l.pc = Selects /\ l.follows = loop[i].follows
    BY <1>1 DEF Loop
<1>3. loop' = [loop EXCEPT ![i] = l]
    BY <1>1 DEF Returns, StreamTyped, StreamTypeOK
<1> QED
    BY <1>1, <1>2, <1>3

\* A write event leaves position and feed as they are.
LEMMA TakeWriteKeeps ==
    ASSUME StreamInv, StreamAssumption, NEW i \in Watches, TakeWrite(i)
    PROVE  StreamInv'
<1> USE DEF StreamInv, files, watches, completion, streamHistory
<1>1. loop[i] \in Loop /\ loop[i].pc = "selecting" /\ loop[i].follows = watch
    BY DEF StreamTyped, StreamTypeOK, LoopAt, TakeWrite
<1>2. PICK l \in Loop : /\ loop' = [loop EXCEPT ![i] = l]
                       /\ l.pc \in {"starting", "selecting"}
                       /\ l.follows = loop[i].follows
    BY Returned DEF TakeWrite
<1>3. /\ loop'[i] = l /\ l.pc \notin Busy /\ l.pc \notin Acting /\ loop[i].pc \notin Acting
      /\ l.pc # "none" /\ ~LoopAt(i, "none")
    BY <1>1, <1>2 DEF Acting, Busy, StreamTyped, StreamTypeOK, LoopAt
<1>4. UNCHANGED <<watch, of, start, file, feed, torn, offset, crossed>>
    BY DEF TakeWrite
<1>5. \A g \in Watches : writes'[g] \in Size /\ writes'[g] <= writes[g]
    <2> SUFFICES ASSUME NEW g \in Watches PROVE writes'[g] \in Size /\ writes'[g] <= writes[g]
        OBVIOUS
    <2>1. writes[g] \in Nat /\ writes[g] <= MaxHalves /\ MaxHalves \in Nat
        BY DEF StreamTyped, StreamTypeOK, Size, StreamAssumption
    <2>2. writes' = [writes EXCEPT ![watch] = @ - 1] /\ writes[watch] > 0
        BY DEF TakeWrite
    <2>3. CASE g = watch
        <3>1. writes'[g] = writes[g] - 1
            BY <2>2, <2>3 DEF StreamTyped, StreamTypeOK
        <3> QED
            BY <2>1, <2>2, <2>3, <3>1 DEF Size
    <2>4. CASE g # watch
        <3>1. writes'[g] = writes[g]
            BY <2>2, <2>4 DEF StreamTyped, StreamTypeOK
        <3> QED
            BY <2>1, <3>1 DEF Size
    <2> QED
        BY <2>3, <2>4
<1>6. writes' \in [Watches -> Size]
    <2>1. writes' = [writes EXCEPT ![watch] = @ - 1] /\ writes \in [Watches -> Size]
        BY DEF TakeWrite, StreamTyped, StreamTypeOK
    <2>2. writes' = [g \in Watches |-> writes'[g]]
        BY <2>1
    <2> QED
        BY <2>2, <1>5
<1>7. Begins' /\ loop' \in [Watches -> Loop]
    BY <1>2, <1>3, <1>4, <1>5, <1>6, LoopTyped
<1>8. ASSUME ~crossed' PROVE Faithful'
    <2>1. Faithful
        BY <1>4, <1>8
    <2>2. l.follows = i
        BY <1>1, <1>2, <2>1 DEF Faithful, LoopsKeepTo, Awake
    <2>3. Place(i)' = Place(i)
        BY <1>3, <1>4 DEF Place
    <2> QED
        BY <1>2, <1>3, <1>4, <2>1, <2>2, <2>3, LoopIsFaithful
<1>9. timer' = None /\ pending' \in Info \cup {None} /\ UNCHANGED <<loose, inbox, told, runtime>>
    BY DEF TakeWrite, Cancels, StreamTyped, StreamTypeOK
<1>10. StreamTypeOK'
    BY <1>4, <1>6, <1>7, <1>9 DEF StreamTyped, StreamTypeOK
<1> QED
    BY <1>7, <1>8, <1>10 DEF StreamTyped

\* A check starts at the offset, behind everything published.
LEMMA CheckKeeps ==
    ASSUME StreamInv, NEW i \in Watches, Check(i)
    PROVE  StreamInv'
<1> USE DEF StreamInv, files, watches, completion, streamHistory
<1>1. /\ loop[i] \in Loop /\ loop[i].pc = "selecting" /\ watch \in Watches /\ of[watch] # None
      /\ offset \in Size
    BY DEF StreamTyped, StreamTypeOK, LoopAt, Check, Begins
<1>2. PICK l \in Loop :
          /\ loop' = [loop EXCEPT ![i] = l] /\ l.pc = "cancelling" /\ l.follows = loop[i].follows
          /\ l.read = [watch |-> watch, pos |-> offset]
    <2> DEFINE l == [loop[i] EXCEPT !.pc = "cancelling", !.read = [watch |-> watch, pos |-> offset]]
    <2>1. l \in Loop /\ l.pc = "cancelling" /\ l.follows = loop[i].follows
              /\ l.read = [watch |-> watch, pos |-> offset]
        BY <1>1 DEF Loop, Read
    <2>2. loop' = [loop EXCEPT ![i] = l]
        BY <1>1 DEF Check, StreamTyped, StreamTypeOK
    <2> QED
        BY <2>1, <2>2
<1>3. loop'[i] = l /\ l.pc \in Acting /\ loop[i].pc \notin Acting /\ loop[i].pc \in Awake
    BY <1>1, <1>2 DEF Acting, Awake, StreamTyped, StreamTypeOK
<1>4. UNCHANGED <<watch, of, start, file, writes, feed, torn, offset>>
    BY DEF Check
<1>5. (crossed => crossed') /\ (loop[i].follows # watch => crossed')
    BY Zenon DEF Check
<1>6. Place(i)' = Place(i)
    BY <1>2, <1>3, <1>4 DEF Place
<1>7. l.read # None /\ of[l.read.watch] # None
    BY <1>1, <1>2, NoneAssumption DEF Read
<1>8. ASSUME ~crossed'
      PROVE  /\ l.follows = i /\ l.read.watch = i
             /\ \A n \in DOMAIN feed[i] : 2 * feed[i][n] <= l.read.pos
    <2>1. Faithful /\ watch = i /\ loop[i].follows = i
        BY <1>3, <1>5, <1>8 DEF Faithful, LoopsKeepTo
    <2>2. ToldUpTo(i, offset)
        BY <1>1, <1>3, <2>1 DEF Faithful, InPlace, Place
    <2>3. \A n \in DOMAIN feed[i] : feed[i][n] \in LinesUpTo(i, offset)
        BY <2>2 DEF ToldUpTo, Published
    <2> QED
        BY <1>2, <2>1, <2>3 DEF LinesUpTo
<1>9. Begins' /\ loop' \in [Watches -> Loop] /\ (~crossed' => Faithful')
    <2>1. l.pc # "none" /\ loop[i].pc # "none"
        BY <1>1, <1>2
    <2> QED
        BY <2>1, <1>2, <1>4, <1>5, <1>6, <1>7, <1>8, LoopMoves
<1>10. StreamTypeOK'
    BY <1>4, <1>9 DEF StreamTyped, StreamTypeOK, Check
<1> QED
    BY <1>9, <1>10 DEF StreamTyped

\* The check goes on to read, at the same position.
LEMMA CancelPendingKeeps ==
    ASSUME StreamInv, NEW i \in Watches, CancelPending(i)
    PROVE  StreamInv'
<1> USE DEF StreamInv, files, watches, completion, streamHistory
<1>1. loop[i] \in Loop /\ loop[i].pc = "cancelling"
    BY DEF StreamTyped, StreamTypeOK, LoopAt, CancelPending
<1>2. PICK l \in Loop :
          /\ loop' = [loop EXCEPT ![i] = l] /\ l.pc = "reading"
          /\ l.follows = loop[i].follows /\ l.read = loop[i].read
    <2>1. [loop[i] EXCEPT !.pc = "reading"] \in Loop
        BY <1>1 DEF Loop
    <2>2. loop' = [loop EXCEPT ![i] = [loop[i] EXCEPT !.pc = "reading"]]
        BY <1>1 DEF GoesTo, CancelPending, StreamTyped, StreamTypeOK
    <2> QED
        BY <1>1, <2>1, <2>2 DEF Loop
<1>3. /\ loop'[i] = l /\ l.pc \in Acting /\ loop[i].pc \in Acting
      /\ l.pc \in Busy /\ loop[i].pc \in Busy /\ loop[i].pc \in Awake
    BY <1>1, <1>2 DEF Acting, Awake, Busy, StreamTyped, StreamTypeOK
<1>4. UNCHANGED <<watch, of, start, file, writes, feed, torn, offset, crossed>>
    BY DEF CancelPending
<1>5. Place(i)' = Place(i)
    BY <1>2, <1>3 DEF Place
<1>6. l.read # None /\ of[l.read.watch] # None
    BY <1>2, <1>3 DEF StreamTyped, Begins
<1>7. ASSUME ~crossed'
      PROVE  /\ l.follows = i /\ l.read.watch = i
             /\ \A n \in DOMAIN feed[i] : 2 * feed[i][n] <= l.read.pos
    BY <1>2, <1>3, <1>4, <1>7 DEF Faithful, LoopsKeepTo, InOrder
<1>8. Begins' /\ loop' \in [Watches -> Loop] /\ (~crossed' => Faithful')
    <2>1. l.pc # "none" /\ loop[i].pc # "none"
        BY <1>1, <1>2
    <2> QED
        BY <2>1, <1>2, <1>4, <1>5, <1>6, <1>7, LoopMoves
<1>9. timer' = None /\ pending' \in Info \cup {None} /\ UNCHANGED <<loose, inbox, told, runtime>>
    BY DEF CancelPending, Cancels, StreamTyped, StreamTypeOK
<1>10. StreamTypeOK'
    BY <1>4, <1>8, <1>9 DEF StreamTyped, StreamTypeOK
<1> QED
    BY <1>8, <1>10 DEF StreamTyped

\* The check has come to the end of the file.
LEMMA EndOfFileKeeps ==
    ASSUME StreamInv, NEW i \in Watches, EndOfFile(i)
    PROVE  StreamInv'
<1> USE DEF StreamInv, files, watches, completion, streamHistory
<1>1. loop[i] \in Loop /\ loop[i].pc = "reading"
    BY DEF StreamTyped, StreamTypeOK, LoopAt, EndOfFile
<1>2. PICK l \in Loop :
          /\ loop' = [loop EXCEPT ![i] = l] /\ l.pc = "storing"
          /\ l.follows = loop[i].follows /\ l.read = loop[i].read
    <2>1. [loop[i] EXCEPT !.pc = "storing"] \in Loop
        BY <1>1 DEF Loop
    <2>2. loop' = [loop EXCEPT ![i] = [loop[i] EXCEPT !.pc = "storing"]]
        BY <1>1 DEF GoesTo, EndOfFile, StreamTyped, StreamTypeOK
    <2> QED
        BY <1>1, <2>1, <2>2 DEF Loop
<1>3. /\ loop'[i] = l /\ l.pc \in Acting /\ loop[i].pc \in Acting
      /\ l.pc \in Busy /\ loop[i].pc \in Busy /\ loop[i].pc \in Awake
    BY <1>1, <1>2 DEF Acting, Awake, Busy, StreamTyped, StreamTypeOK
<1>4. UNCHANGED <<watch, of, start, file, writes, feed, torn, offset, crossed>>
    BY DEF EndOfFile
<1>5. Place(i)' = Place(i)
    BY <1>2, <1>3 DEF Place
<1>6. l.read # None /\ of[l.read.watch] # None
    BY <1>2, <1>3 DEF StreamTyped, Begins
<1>7. ASSUME ~crossed'
      PROVE  /\ l.follows = i /\ l.read.watch = i
             /\ \A n \in DOMAIN feed[i] : 2 * feed[i][n] <= l.read.pos
    BY <1>2, <1>3, <1>4, <1>7 DEF Faithful, LoopsKeepTo, InOrder
<1>8. Begins' /\ loop' \in [Watches -> Loop] /\ (~crossed' => Faithful')
    <2>1. l.pc # "none" /\ loop[i].pc # "none"
        BY <1>1, <1>2
    <2> QED
        BY <2>1, <1>2, <1>4, <1>5, <1>6, <1>7, LoopMoves
<1>9. StreamTypeOK'
    BY <1>4, <1>8 DEF StreamTyped, StreamTypeOK, EndOfFile
<1> QED
    BY <1>8, <1>9 DEF StreamTyped

\* The offset becomes the position of the check.
LEMMA StoreOffsetKeeps ==
    ASSUME StreamInv, NEW i \in Watches, StoreOffset(i)
    PROVE  StreamInv'
<1> USE DEF StreamInv, files, watches, completion, streamHistory
<1>1. loop[i] \in Loop /\ loop[i].pc = "storing" /\ offset' = loop[i].read.pos
    BY DEF StreamTyped, StreamTypeOK, LoopAt, StoreOffset
<1>2. PICK l \in Loop :
          /\ loop' = [loop EXCEPT ![i] = l] /\ l.pc = "scheduling"
          /\ l.follows = loop[i].follows /\ l.read = loop[i].read
    <2>1. [loop[i] EXCEPT !.pc = "scheduling"] \in Loop
        BY <1>1 DEF Loop
    <2>2. loop' = [loop EXCEPT ![i] = [loop[i] EXCEPT !.pc = "scheduling"]]
        BY <1>1 DEF GoesTo, StoreOffset, StreamTyped, StreamTypeOK
    <2> QED
        BY <1>1, <2>1, <2>2 DEF Loop
<1>3. /\ loop'[i] = l /\ l.pc \notin Acting /\ loop[i].pc \in Acting
      /\ l.pc \in Busy /\ loop[i].pc \in Busy /\ loop[i].pc \in Awake
    BY <1>1, <1>2 DEF Acting, Awake, Busy, StreamTyped, StreamTypeOK
<1>4. UNCHANGED <<watch, of, start, file, writes, feed, torn>>
    BY DEF StoreOffset
<1>5. (crossed => crossed') /\ (loop[i].read.watch # watch => crossed')
    BY Zenon DEF StoreOffset
<1>6. l.read # None /\ of[l.read.watch] # None
    BY <1>2, <1>3 DEF StreamTyped, Begins
<1>7. ASSUME ~crossed'
      PROVE  l.follows = i /\ l.read.watch = i /\ watch = i
    BY <1>2, <1>3, <1>5, <1>7 DEF Faithful, LoopsKeepTo
<1>8. Place(i)' = Place(i)
    BY <1>1, <1>3 DEF Place
<1>9. Begins' /\ loop' \in [Watches -> Loop] /\ (~crossed' => Faithful')
    <2>1. l.pc # "none" /\ loop[i].pc # "none"
        BY <1>1, <1>2
    <2> QED
        BY <2>1, <1>2, <1>3, <1>4, <1>5, <1>6, <1>7, <1>8, LoopMoves
<1>10. offset' \in Size
    <2>1. loop[i].read \in Read
        BY <1>1, <1>3 DEF Loop, StreamTyped, Begins
    <2> QED
        BY <2>1, <1>1 DEF Read
<1>11. crossed' \in BOOLEAN
    BY Zenon DEF StoreOffset
<1>12. StreamTypeOK'
    BY <1>4, <1>9, <1>10, <1>11 DEF StreamTyped, StreamTypeOK, StoreOffset
<1> QED
    BY <1>9, <1>12 DEF StreamTyped

\* The loop returns with a timer running.
LEMMA ScheduleCompleteKeeps ==
    ASSUME StreamInv, NEW i \in Watches, ScheduleComplete(i)
    PROVE  StreamInv'
<1> USE DEF StreamInv, files, watches, completion, streamHistory
<1>1. loop[i] \in Loop /\ loop[i].pc = "scheduling"
    BY DEF StreamTyped, StreamTypeOK, LoopAt, ScheduleComplete
<1>2. PICK l \in Loop : /\ loop' = [loop EXCEPT ![i] = l]
                       /\ l.pc \in {"starting", "selecting"}
                       /\ l.follows = loop[i].follows
    BY Returned DEF ScheduleComplete
<1>3. /\ loop'[i] = l /\ l.pc \notin Busy /\ l.pc \notin Acting /\ loop[i].pc \notin Acting
      /\ l.pc # "none" /\ loop[i].pc # "none" /\ loop[i].pc \in Busy /\ loop[i].pc \in Awake
    BY <1>1, <1>2 DEF Acting, Busy, Awake, StreamTyped, StreamTypeOK, LoopAt
<1>4. UNCHANGED <<watch, of, start, file, writes, feed, torn, offset>>
    BY DEF ScheduleComplete
<1>5. crossed => crossed'
    BY Zenon DEF ScheduleComplete
<1>6. ~crossed' => l.follows = i
    BY <1>2, <1>3, <1>5 DEF Faithful, LoopsKeepTo
<1>7. Place(i)' = Place(i)
    BY <1>3, <1>4 DEF Place
<1>8. Begins' /\ loop' \in [Watches -> Loop] /\ (~crossed' => Faithful')
    BY <1>2, <1>3, <1>4, <1>5, <1>6, <1>7, LoopMoves
<1>9. loop[i].read \in Read
    BY <1>1, <1>3 DEF Loop, StreamTyped, Begins
<1>10. /\ timer' \in [loop : Watches, live : BOOLEAN] \cup {None}
       /\ pending' \in Info \cup {None}
    BY <1>9 DEF ScheduleComplete, Read, Info
<1>11. crossed' \in BOOLEAN
    BY Zenon DEF ScheduleComplete
<1>12. UNCHANGED <<loose, inbox, told, runtime>>
    BY DEF ScheduleComplete
<1>13. StreamTypeOK'
    BY <1>4, <1>8, <1>10, <1>11, <1>12 DEF StreamTyped, StreamTypeOK
<1> QED
    BY <1>8, <1>13 DEF StreamTyped

\* A complete event says nothing of the lines.
LEMMA EmitCompleteKeeps ==
    ASSUME StreamInv, NEW i \in Watches, EmitComplete(i)
    PROVE  StreamInv'
<1> USE DEF StreamInv, files, watches, completion, streamHistory
<1>1. loop[i] \in Loop /\ loop[i].pc = "selecting"
    BY DEF StreamTyped, StreamTypeOK, LoopAt, EmitComplete
<1>2. PICK l \in Loop : /\ loop' = [loop EXCEPT ![i] = l]
                       /\ l.pc \in {"starting", "selecting"}
                       /\ l.follows = loop[i].follows
    BY Returned DEF EmitComplete
<1>3. /\ loop'[i] = l /\ l.pc \notin Busy /\ l.pc \notin Acting /\ loop[i].pc \notin Acting
      /\ l.pc # "none" /\ loop[i].pc # "none" /\ loop[i].pc \in Awake
    BY <1>1, <1>2 DEF Acting, Busy, Awake, StreamTyped, StreamTypeOK, LoopAt
<1>4. UNCHANGED <<watch, of, start, file, writes, feed, torn, offset, crossed>>
    BY DEF EmitComplete
<1>5. ~crossed' => l.follows = i
    BY <1>2, <1>3, <1>4 DEF Faithful, LoopsKeepTo
<1>6. Place(i)' = Place(i)
    BY <1>3, <1>4 DEF Place
<1>7. Begins' /\ loop' \in [Watches -> Loop] /\ (~crossed' => Faithful')
    BY <1>2, <1>3, <1>4, <1>5, <1>6, LoopMoves
<1>8. inbox[i] \in Info
    BY DEF EmitComplete, StreamTyped, StreamTypeOK
<1>9. told' \in [Watches -> Size] /\ inbox' \in [Watches -> Info \cup {None}]
    BY <1>8 DEF EmitComplete, StreamTyped, StreamTypeOK, Info
<1>10. UNCHANGED <<timer, loose, pending, runtime>>
    BY DEF EmitComplete
<1>11. StreamTypeOK'
    BY <1>4, <1>7, <1>9, <1>10 DEF StreamTyped, StreamTypeOK
<1> QED
    BY <1>7, <1>11 DEF StreamTyped

\* The timer fires.
LEMMA ExpireKeeps ==
    ASSUME StreamInv, Expire
    PROVE  StreamInv'
<1> USE DEF StreamInv, files, watches, completion, streamHistory
<1>1. UNCHANGED <<runtime, file, writes, watch, of, start, offset, loop, pending, inbox, feed, torn, told, crossed>>
    BY DEF Expire
<1>2. timer \in [loop : Watches, live : BOOLEAN]
    BY DEF Expire, StreamTyped, StreamTypeOK
<1>3. timer' \in [loop : Watches, live : BOOLEAN] /\ loose' \in [Watches -> Nat]
    <2>1. timer' = [timer EXCEPT !.live = FALSE] /\ loose' = [loose EXCEPT ![timer.loop] = @ + 1]
        BY DEF Expire
    <2>2. loose \in [Watches -> Nat] /\ timer.loop \in Watches
        BY <1>2 DEF StreamTyped, StreamTypeOK
    <2>3. timer' = [loop |-> timer.loop, live |-> FALSE]
        BY <1>2, <2>1
    <2>4. timer' \in [loop : Watches, live : BOOLEAN]
        BY <2>2, <2>3
    <2>5. loose' \in [Watches -> Nat]
        BY <2>1, <2>2
    <2> QED
        BY <2>4, <2>5
<1>4. StreamTyped'
    BY <1>1, <1>3 DEF StreamTyped, StreamTypeOK, Begins
<1>5. ~crossed' => Faithful'
    BY <1>1, StreamRests
<1> QED
    BY <1>4, <1>5

\* Its callback hands over what is pending.
LEMMA CallBackKeeps ==
    ASSUME StreamInv, NEW i \in Watches, CallBack(i)
    PROVE  StreamInv'
<1> USE DEF StreamInv, files, watches, completion, streamHistory
<1>1. UNCHANGED <<runtime, file, writes, watch, of, start, offset, loop, feed, torn, told>>
    BY DEF CallBack
<1>2. Loosened \in [Watches -> Nat] /\ Loosened[i] > 0
    <2>1. loose \in [Watches -> Nat] /\ loose[i] > 0
        BY DEF CallBack, StreamTyped, StreamTypeOK
    <2>2. CASE timer # None /\ timer.live
        <3>1. timer.loop \in Watches
            BY <2>2 DEF StreamTyped, StreamTypeOK
        <3> QED
            BY <2>1, <2>2, <3>1 DEF Loosened
    <2>3. CASE ~(timer # None /\ timer.live)
        BY <2>1, <2>3 DEF Loosened
    <2> QED
        BY <2>2, <2>3
<1>3. loose' = [Loosened EXCEPT ![i] = @ - 1]
    BY DEF CallBack
<1>4. loose' \in [Watches -> Nat]
    BY <1>2, <1>3
<1>5. timer' = None /\ pending' = None /\ inbox' \in [Watches -> Info \cup {None}]
    BY DEF CallBack, StreamTyped, StreamTypeOK
<1>6. crossed' \in BOOLEAN /\ (crossed => crossed')
    BY Zenon DEF CallBack
<1>7. StreamTyped'
    BY <1>1, <1>4, <1>5, <1>6 DEF StreamTyped, StreamTypeOK, Begins
<1>8. ~crossed' => Faithful'
    BY <1>1, <1>6, StreamRests
<1> QED
    BY <1>7, <1>8

\* A check reads its next line, and publishes it if it is whole.
LEMMA ReadNextLineKeeps ==
    ASSUME StreamInv, StreamAssumption, NEW i \in Watches, ReadNextLine(i)
    PROVE  StreamInv'
<1> USE DEF StreamInv, files, watches, completion, streamHistory
<1>1. loop[i] \in Loop /\ loop[i].pc = "reading"
    BY DEF StreamTyped, StreamTypeOK, LoopAt, ReadNextLine
<1>2. /\ loop[i].pc \in Acting /\ loop[i].pc \in Busy /\ loop[i].pc \in Awake
      /\ loop[i].pc # "none" /\ ~LoopAt(i, "none")
    BY <1>1 DEF Acting, Busy, Awake, LoopAt
<1>3. PICK g \in Watches, p \in Size : loop[i].read = [watch |-> g, pos |-> p] /\ of[g] \in Session
    <2>1. loop[i].read \in Read /\ of[loop[i].read.watch] # None
        BY <1>1, <1>2 DEF Loop, StreamTyped, Begins
    <2> QED
        BY <2>1 DEF Read, StreamTyped, StreamTypeOK
<1>4. PICK size \in Size : size = file[of[g]] /\ p < size
    BY <1>3 DEF ReadNextLine, StreamTyped, StreamTypeOK
<1>5. PICK line \in Line : line = p \div 2 + 1 /\ (p = 2 * line - 2 \/ p = 2 * line - 1)
    BY <1>4, NextLine
<1>6. MaxHalves \in Nat /\ p \in Nat /\ size \in Nat /\ line \in Nat
    BY DEF StreamAssumption, Size, Line
<1>7. PICK end \in Size : end = (IF 2 * line <= size THEN 2 * line ELSE size)
    <2>1. 2 * line <= size => 2 * line \in Size
        BY <1>6 DEF Size
    <2> QED
        BY <2>1
<1>8. p < end /\ end <= 2 * line /\ (end - p = 2 <=> end = p + 2) /\ end \in Nat
    BY <1>4, <1>5, <1>6, <1>7 DEF Size
<1>9. /\ loop' = [loop EXCEPT ![i].read.pos = end]
      /\ \/ /\ end = p + 2
            /\ feed' = [feed EXCEPT ![g] = Append(@, line)] /\ torn' = torn
         \/ /\ end # p + 2
            /\ feed' = feed /\ torn' = [torn EXCEPT ![g] = @ \cup {line}]
    BY <1>3, <1>4, <1>5, <1>7, <1>8 DEF ReadNextLine
<1>10. UNCHANGED <<runtime, file, writes, watch, of, start, offset, timer, loose, pending, inbox, told, crossed>>
    BY DEF ReadNextLine
<1>11. PICK l \in Loop :
          /\ loop' = [loop EXCEPT ![i] = l] /\ l.pc = loop[i].pc /\ l.follows = loop[i].follows
          /\ l.read = [watch |-> g, pos |-> end]
    <2> DEFINE l == [loop[i] EXCEPT !.read.pos = end]
    <2>1. l = [loop[i] EXCEPT !.read = [watch |-> g, pos |-> end]]
        BY <1>3
    <2>2. [watch |-> g, pos |-> end] \in Read
        BY DEF Read
    <2>3. l \in Loop /\ l.pc = loop[i].pc /\ l.follows = loop[i].follows
              /\ l.read = [watch |-> g, pos |-> end]
        BY <1>1, <2>1, <2>2 DEF Loop
    <2>4. loop' = [loop EXCEPT ![i] = l]
        BY <1>9
    <2> QED
        BY <2>3, <2>4
<1>12. loop'[i] = l /\ \A j \in Watches : j # i => loop'[j] = loop[j]
    BY <1>11 DEF StreamTyped, StreamTypeOK
<1>13. feed \in [Watches -> Seq(Line)] /\ torn \in [Watches -> SUBSET Line]
    BY DEF StreamTyped, StreamTypeOK
<1>14. /\ feed' \in [Watches -> Seq(Line)] /\ torn' \in [Watches -> SUBSET Line]
       /\ \A h \in Watches : h # g => feed'[h] = feed[h] /\ torn'[h] = torn[h]
    <2>1. Append(feed[g], line) \in Seq(Line) /\ torn[g] \cup {line} \in SUBSET Line
        BY <1>13
    <2> QED
        BY <1>9, <1>13, <2>1
<1>15. Begins' /\ loop' \in [Watches -> Loop]
    <2>1. \A h \in Watches : writes'[h] <= writes[h]
        <3> TAKE h \in Watches
        <3>1. writes[h] \in Int
            BY DEF StreamTyped, StreamTypeOK, Size
        <3> QED
            BY <3>1, <1>10
    <2>2. writes' \in [Watches -> Size]
        BY <1>10 DEF StreamTyped, StreamTypeOK
    <2>3. l.pc \in Busy => l.read # None /\ of[l.read.watch] # None
        <3>1. l.read \in Read /\ l.read.watch = g
            BY <1>11 DEF Read
        <3> QED
            BY <3>1, <1>3, NoneAssumption
    <2>4. \A h \in Watches : of[h] = None => feed'[h] = feed[h] /\ torn'[h] = torn[h]
        BY <1>3, <1>14, NoneAssumption
    <2>5. l.pc # "none"
        BY <1>2, <1>11
    <2> QED
        BY <1>2, <1>10, <1>11, <2>1, <2>2, <2>3, <2>4, <2>5, LoopTyped
<1>16. ASSUME ~crossed' PROVE Faithful'
    <2>1. Faithful
        BY <1>10, <1>16
    <2>2. loop[i].follows = i /\ g = i
        BY <1>2, <1>3, <2>1 DEF Faithful, LoopsKeepTo
    <2>3. LoopsKeepTo'
        BY <1>11, <1>12, <2>1, <2>2 DEF Faithful, LoopsKeepTo
    <2>4. \A n \in DOMAIN feed[i] : feed[i][n] \in Nat /\ 2 * feed[i][n] <= p
        <3>1. \A n \in DOMAIN feed[i] : feed[i][n] \in Line
            BY <1>13
        <3> QED
            BY <1>2, <1>3, <2>1, <3>1 DEF Faithful, InOrder, Line
    <2>5. \A n \in DOMAIN feed'[i] : 2 * feed'[i][n] <= end
        <3>1. CASE feed'[i] = feed[i]
            BY <3>1, <2>4, <1>6, <1>8
        <3>2. CASE end = p + 2 /\ feed'[i] = Append(feed[i], line)
            <4>1. /\ DOMAIN feed'[i] = DOMAIN feed[i] \cup {Len(feed[i]) + 1}
                  /\ \A n \in DOMAIN feed[i] : feed'[i][n] = feed[i][n]
                  /\ feed'[i][Len(feed[i]) + 1] = line
                BY <3>2, <1>13
            <4>2. 2 * line <= end
                BY <1>5, <1>6, <1>8, <3>2
            <4> QED
                BY <4>1, <4>2, <2>4, <1>6, <1>8
        <3> QED
            BY <3>1, <3>2, <1>9, <1>13, <2>2
    <2>6. \A m, n \in DOMAIN feed'[i] : m < n => feed'[i][m] < feed'[i][n]
        <3>1. CASE feed'[i] = feed[i]
            BY <3>1, <2>1 DEF Faithful, InOrder
        <3>2. CASE end = p + 2 /\ feed'[i] = Append(feed[i], line)
            <4>1. /\ DOMAIN feed'[i] = DOMAIN feed[i] \cup {Len(feed[i]) + 1}
                  /\ \A n \in DOMAIN feed[i] : feed'[i][n] = feed[i][n] /\ n \in Nat /\ n < Len(feed[i]) + 1
                  /\ feed'[i][Len(feed[i]) + 1] = line /\ Len(feed[i]) \in Nat
                BY <3>2, <1>13
            <4>2. \A n \in DOMAIN feed[i] : feed[i][n] < line
                BY <2>4, <1>5, <1>6
            <4>3. \A m, n \in DOMAIN feed[i] : m < n => feed[i][m] < feed[i][n]
                BY <2>1 DEF Faithful, InOrder
            <4> SUFFICES ASSUME NEW m \in DOMAIN feed'[i], NEW n \in DOMAIN feed'[i], m < n
                         PROVE  feed'[i][m] < feed'[i][n]
                OBVIOUS
            <4>4. m \in DOMAIN feed[i]
                BY <4>1
            <4>5. CASE n \in DOMAIN feed[i]
                BY <4>1, <4>3, <4>4, <4>5
            <4>6. CASE n = Len(feed[i]) + 1
                BY <4>1, <4>2, <4>4, <4>6
            <4> QED
                BY <4>1, <4>5, <4>6
        <3> QED
            BY <3>1, <3>2, <1>9, <1>13, <2>2
    <2>7. InOrder'
        <3>1. \A h \in Watches : h # i => feed'[h] = feed[h] /\ loop'[h] = loop[h]
            BY <1>12, <1>14, <2>2
        <3> QED
            BY <1>11, <1>12, <2>1, <2>5, <2>6, <3>1 DEF Faithful, InOrder
    <2>8. InPlace'
        <3> SUFFICES ASSUME NEW h \in Watches, NEW q \in Size, watch' = h, q = Place(h)'
                     PROVE  ToldUpTo(h, q)'
            BY DEF InPlace
        <3>1. CASE h = i
            <4>1. q = end /\ p = Place(i)
                BY <1>2, <1>3, <1>11, <1>12, <3>1 DEF Place
            <4>2. ToldUpTo(i, p)
                BY <2>1, <4>1, <1>10, <3>1 DEF Faithful, InPlace
            <4>3. start[i] \in Nat /\ feed[i] \in Seq(Line) /\ torn[i] \subseteq Line
                BY <1>13 DEF StreamTyped, StreamTypeOK, Size
            <4>4. \/ /\ end = p + 2
                     /\ feed'[i] = Append(feed[i], line) /\ torn'[i] = torn[i]
                  \/ /\ end # p + 2
                     /\ feed'[i] = feed[i] /\ torn'[i] = torn[i] \cup {line}
                BY <1>9, <1>13, <2>2
            <4>5. start'[i] = start[i]
                BY <1>10
            <4>6. ToldUpTo(i, end)'
                BY <1>5, <1>6, <1>8, <4>2, <4>3, <4>4, <4>5, LineIsTold
            <4> QED
                BY <3>1, <4>1, <4>6
        <3>2. CASE h # i
            <4>1. q = Place(h)
                BY <1>10, <1>12, <3>2 DEF Place
            <4> QED
                BY <2>1, <2>2, <4>1, <3>2, <1>10, <1>14, ToldKeeps DEF Faithful, InPlace
        <3> QED
            BY <3>1, <3>2
    <2> QED
        BY <2>3, <2>7, <2>8 DEF Faithful
<1>17. StreamTypeOK'
    BY <1>10, <1>14, <1>15 DEF StreamTyped, StreamTypeOK
<1> QED
    BY <1>15, <1>16, <1>17 DEF StreamTyped

-----------------------------------------------------------------------------
(* The feed of a streamer: the theorems *)

\* Every step keeps the invariant.
LEMMA StreamStep == StreamAssumption /\ StreamInv /\ [StreamNext]_streamVars => StreamInv'
<1> SUFFICES ASSUME StreamAssumption, StreamInv, [StreamNext]_streamVars PROVE StreamInv'
    OBVIOUS
<1>1. CASE UNCHANGED streamVars
    <2>1. UNCHANGED <<runtime, file, writes, watch, of, start, offset, loop, timer, loose, pending,
                      inbox, feed, torn, told, crossed>>
        BY <1>1 DEF streamVars, files, watches, completion, streamHistory
    <2>2. StreamTyped'
        BY <2>1 DEF StreamInv, StreamTyped, StreamTypeOK, Begins
    <2>3. ~crossed' => Faithful'
        BY <2>1, StreamRests DEF StreamInv
    <2> QED
        BY <2>2, <2>3 DEF StreamInv
<1>2. ASSUME NEW s \in Session, NEW n \in 1 .. 2, WriteTranscript(s, n) PROVE StreamInv'
    BY <1>2, WriteTranscriptKeeps
<1>3. CASE Client
    BY <1>3, WatchKeeps, UnwatchKeeps DEF Client
<1>4. ASSUME NEW i \in Watches, LoopStep(i) \/ CallBack(i) PROVE StreamInv'
    BY <1>4, TakeChannelsKeeps, EndKeeps, TakeWriteKeeps, CheckKeeps, CancelPendingKeeps,
       ReadNextLineKeeps, EndOfFileKeeps, StoreOffsetKeeps, ScheduleCompleteKeeps,
       EmitCompleteKeeps, CallBackKeeps DEF LoopStep
<1>5. CASE Expire
    BY <1>5, ExpireKeeps
<1> QED
    BY <1>1, <1>2, <1>3, <1>4, <1>5 DEF StreamNext

\* For any number of watches and any transcripts: every check is of a watch that
\* has begun, a loop that has not crossed keeps to its own watch, and what it has
\* published is what its position says.
THEOREM StreamInvariance == StreamSpec => []StreamInv
<1> USE StreamAssumption
<1>1. StreamInit => StreamInv
    BY StreamStarts
<1>2. StreamInv /\ [StreamNext]_streamVars => StreamInv'
    BY StreamStep
<1> QED
    BY <1>1, <1>2, PTL DEF StreamSpec

\* The position of the watch that is on, when no loop has crossed.
LEMMA PositionIsThePlace ==
    ASSUME StreamTyped, Faithful, watch \in Watches
    PROVE  Position = Place(watch)
<1> DEFINE own == {i \in Watches : /\ loop[i].read # None
                                   /\ loop[i].read.watch = watch
                                   /\ loop[i].pc \in {"cancelling", "reading", "storing"}}
<1>1. \A i \in own : i = watch
    BY DEF Faithful, LoopsKeepTo, Busy, Acting
<1>2. watch \in own <=> loop[watch].pc \in Acting
    BY DEF Faithful, LoopsKeepTo, Busy, Acting, StreamTyped, Begins
<1>3. CASE own = {}
    <2>1. Position = offset
        BY <1>3 DEF Position
    <2> QED
        BY <1>2, <1>3, <2>1 DEF Place
<1>4. CASE own # {}
    <2>1. own = {watch}
        BY <1>1, <1>4
    <2>2. (CHOOSE i \in own : TRUE) = watch
        BY <2>1
    <2>3. Position = loop[CHOOSE i \in own : TRUE].read.pos
        BY <1>4 DEF Position
    <2> QED
        BY <1>2, <2>1, <2>2, <2>3 DEF Place
<1> QED
    BY <1>3, <1>4

\* A watch publishes the lines of its transcript in order and once each, and
\* leaves none out that was whole when it was read, for any number of watches,
\* of writes in halves and of interleavings of checks, timers and clients, as
\* long as no loop acts on a watch that is not its own.
THEOREM FeedStaysTrue == StreamSpec => []FeedIsTheTranscript
<1>1. StreamInv => FeedIsTheTranscript
    <2> SUFFICES ASSUME StreamInv, ~crossed
                 PROVE  /\ \A g \in Watches : \A m, n \in DOMAIN feed[g] : m < n => feed[g][m] < feed[g][n]
                        /\ watch # 0 => Published(watch) = LinesUpTo(watch, Position) \ torn[watch]
        BY DEF FeedIsTheTranscript
    <2>1. StreamTyped /\ Faithful
        BY DEF StreamInv
    <2>2. ASSUME watch # 0
          PROVE  Published(watch) = LinesUpTo(watch, Position) \ torn[watch]
        <3>1. watch \in Watches
            BY <2>1, <2>2 DEF StreamTyped, StreamTypeOK
        <3>2. PICK p \in Size : p = Place(watch)
            <4>1. loop[watch].pc \in Acting => loop[watch].read \in Read
                BY <2>1, <3>1 DEF StreamTyped, StreamTypeOK, Begins, Loop, Busy
            <4> QED
                BY <2>1, <3>1, <4>1 DEF Place, Read, StreamTyped, StreamTypeOK
        <3>3. Position = p
            BY <2>1, <3>1, <3>2, PositionIsThePlace
        <3>4. ToldUpTo(watch, p)
            BY <2>1, <3>1, <3>2 DEF Faithful, InPlace
        <3> QED
            BY <3>3, <3>4 DEF ToldUpTo
    <2> QED
        BY <2>1, <2>2 DEF Faithful, InOrder
<1> QED
    BY <1>1, StreamInvariance, PTL
=============================================================================
