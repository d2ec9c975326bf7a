------------------------ MODULE SessionRegistry_proofs ------------------------
(***************************************************************************)
(* Theorems about SessionRegistry, for every set of sessions, transcripts, *)
(* workspaces, directories and calls.                                      *)
(***************************************************************************)
EXTENDS SessionRegistry, GoMaps_proofs

-----------------------------------------------------------------------------
(* The invariant *)

\* A session that has been made has IDs and a place.
BornIsPlaced ==
    \A s \in Session : status[s] # "unborn" =>
        /\ ident[s] \in ID /\ born[s] \in ID
        /\ owner[s] \in Workspace /\ origin[s] \in Workspace
        /\ dir[s] \in Dir

\* What is filed or watched for has been made.
FiledAreBorn == \A id \in DOMAIN sessions : status[sessions[id]] # "unborn"

WatchersAreBorn == \A s \in Session : watcher[s] # "none" => status[s] # "unborn"

\* A watcher renames with a transcript it has seen.
RenamedHaveSeen == \A s \in Session : watcher[s] = "renamed" => saw[s] \in Transcript

\* Only a watcher that has entered the map can be cancelled.
CancelledHaveEntered == \A s \in cancelled : watcher[s] \notin {"none", "called"}

\* What a call holds on to, by its program counter.
CallsAreGrounded ==
    \A c \in Call :
        /\ call[c].pc # "idle" => call[c].id \in ID
        /\ call[c].pc \in {"start", "unwatch"} => call[c].ws \in Workspace
        /\ call[c].pc \in {"check", "launch", "follow"} =>
              call[c].who \in Session /\ status[call[c].who] # "unborn"

\* The inductive invariant.
RegistryInv ==
    /\ TypeOK
    /\ BornIsPlaced /\ FiledAreBorn /\ WatchersAreBorn
    /\ RenamedHaveSeen /\ CancelledHaveEntered /\ CallsAreGrounded
    /\ FiledUnderOwnID
    /\ EntriesAreAlive
    /\ AliasesLeadOn

-----------------------------------------------------------------------------
(* updateSessionID *)

\* updateSessionID keeps the types of what it changes.
LEMMA UpdateType ==
    ASSUME TypeOK, NEW w \in Workspace, NEW temp \in ID, NEW real \in ID,
           UpdateSessionID(w, temp, real)
    PROVE  /\ Partial(sessions', ID, Session)
           /\ Partial(aliases', ID, ID)
           /\ Partial(active', Workspace, ID)
           /\ ident' \in [Session -> ID \cup {None}]
           /\ tangled' \in BOOLEAN
  <1> DEFINE old == Resolve(aliases, temp)
  <1>0. Partial(aliases, ID, ID) /\ Partial(sessions, ID, Session)
        /\ Partial(active, Workspace, ID) /\ ident \in [Session -> ID \cup {None}]
    BY DEF TypeOK
  <1>1. old \in ID
    BY <1>0, ResolveType
  <1>2. Partial(With(aliases, temp, real), ID, ID)
    BY <1>0, WithPartial
  <1>3. Partial(Redirected(aliases, temp, old, real), ID, ID)
    BY <1>0, <1>1, RedirectedType
  <1>4. ASSUME old \in DOMAIN sessions, Rename(w, temp, old, real)
        PROVE  /\ Partial(sessions', ID, Session)
               /\ Partial(aliases', ID, ID)
               /\ Partial(active', Workspace, ID)
               /\ ident' \in [Session -> ID \cup {None}]
    <2>1. sessions[old] \in Session
      BY <1>0, <1>4, PartialApplication
    <2>2. Partial(Without(Without(sessions, temp), old), ID, Session)
      BY <1>0, WithoutPartial
    <2>3. Partial(sessions', ID, Session)
      BY <1>4, <2>1, <2>2, WithPartial DEF Rename
    <2>4. Partial(aliases', ID, ID)
      BY <1>0, <1>1, <1>4, RenamedType DEF Rename
    <2>5. Partial(With(active, w, real), Workspace, ID)
      BY <1>0, WithPartial
    <2> QED
      BY <1>0, <1>4, <2>3, <2>4, <2>5 DEF Rename
  <1>5. ASSUME UNCHANGED <<sessions, active, ident>>, Partial(aliases', ID, ID)
        PROVE  /\ Partial(sessions', ID, Session)
               /\ Partial(aliases', ID, ID)
               /\ Partial(active', Workspace, ID)
               /\ ident' \in [Session -> ID \cup {None}]
    BY <1>0, <1>5
  <1>6. tangled' \in BOOLEAN
    <2>1. tangled' = (tangled \/ ~Acyclic(aliases'))
      BY DEF UpdateSessionID
    <2> QED
      BY <2>1
  <1>7. /\ Partial(sessions', ID, Session)
        /\ Partial(aliases', ID, ID)
        /\ Partial(active', Workspace, ID)
        /\ ident' \in [Session -> ID \cup {None}]
    BY <1>0, <1>2, <1>3, <1>4, <1>5 DEF UpdateSessionID, maps
  <1> QED
    BY <1>6, <1>7

\* updateSessionID gives no session an ID other than the real one.
LEMMA UpdateIdents ==
    ASSUME TypeOK, NEW w \in Workspace, NEW temp \in ID, NEW real \in ID,
           UpdateSessionID(w, temp, real)
    PROVE  \A s \in Session : ident'[s] \in {ident[s], real}
  BY DEF UpdateSessionID, Rename, maps, TypeOK

\* updateSessionID keeps every session filed under its own ID, and files no
\* session that was not filed.
LEMMA UpdateFiles ==
    ASSUME TypeOK, FiledUnderOwnID,
           NEW w \in Workspace, NEW temp \in ID, NEW real \in ID,
           UpdateSessionID(w, temp, real)
    PROVE  /\ FiledUnderOwnID'
           /\ \A id \in DOMAIN (sessions') :
                 \E x \in DOMAIN sessions : sessions'[id] = sessions[x]
  <1> DEFINE old == Resolve(aliases, temp)
  <1>0. Partial(sessions, ID, Session) /\ ident \in [Session -> ID \cup {None}]
    BY DEF TypeOK
  <1>1. ASSUME old \in DOMAIN sessions, Rename(w, temp, old, real)
        PROVE  /\ FiledUnderOwnID'
               /\ \A id \in DOMAIN (sessions') :
                     \E x \in DOMAIN sessions : sessions'[id] = sessions[x]
    <2> DEFINE s == sessions[old]
    <2>1. s \in Session
      BY <1>0, <1>1, PartialApplication
    <2>2. /\ DOMAIN (sessions') = (DOMAIN sessions \ {temp, old}) \cup {real}
          /\ sessions'[real] = s
          /\ \A id \in DOMAIN (sessions') \ {real} : sessions'[id] = sessions[id]
      BY <1>1 DEF Rename, With, Without
    <2>3. \A x \in DOMAIN sessions : sessions[x] = s => x = old
      BY <1>1 DEF FiledUnderOwnID
    <2>4. ident'[s] = real /\ \A t \in Session \ {s} : ident'[t] = ident[t]
      BY <1>0, <1>1, <2>1 DEF Rename
    <2>5. ASSUME NEW id \in DOMAIN (sessions') \ {real}
          PROVE  ident'[sessions'[id]] = id
      <3>1. id \in DOMAIN sessions /\ id # old /\ sessions'[id] = sessions[id]
        BY <2>2
      <3>2. sessions[id] \in Session \ {s}
        BY <1>0, <2>3, <3>1, PartialApplication
      <3> QED
        BY <2>4, <3>1, <3>2 DEF FiledUnderOwnID
    <2>6. FiledUnderOwnID'
      BY <2>2, <2>4, <2>5 DEF FiledUnderOwnID
    <2> QED
      BY <1>1, <2>2, <2>6
  <1>2. ASSUME UNCHANGED <<sessions, ident>>
        PROVE  /\ FiledUnderOwnID'
               /\ \A id \in DOMAIN (sessions') :
                     \E x \in DOMAIN sessions : sessions'[id] = sessions[x]
    BY <1>2 DEF FiledUnderOwnID
  <1> QED
    BY <1>1, <1>2 DEF UpdateSessionID, maps

\* updateSessionID leaves no alias that points at an ID nobody answers to.
LEMMA UpdateLeadsOn ==
    ASSUME TypeOK, AliasesLeadOn,
           NEW w \in Workspace, NEW temp \in ID, NEW real \in ID,
           UpdateSessionID(w, temp, real)
    PROVE  AliasesLeadOn'
  <1> DEFINE old == Resolve(aliases, temp)
  <1>0. Partial(aliases, ID, ID) /\ Partial(sessions, ID, Session)
    BY DEF TypeOK
  <1>1. old \in ID
    BY <1>0, ResolveType
  <1>2. CASE old = real /\ aliases' = With(aliases, temp, real)
             /\ UNCHANGED <<sessions, active, ident>>
    <2>1. real \in DOMAIN aliases \cup DOMAIN sessions \cup {temp}
      BY <1>2, ResolveEnds DEF AliasIDs, AliasesLeadOn
    <2>2. /\ DOMAIN (aliases') = DOMAIN aliases \cup {temp}
          /\ \A x \in DOMAIN (aliases') :
                aliases'[x] = IF x = temp THEN real ELSE aliases[x]
      BY <1>2 DEF With
    <2> QED
      BY <1>2, <2>1, <2>2 DEF AliasesLeadOn
  <1>3. CASE real \in DOMAIN sessions /\ aliases' = Redirected(aliases, temp, old, real)
             /\ UNCHANGED <<sessions, active, ident>>
    <2>1. /\ DOMAIN (aliases') = DOMAIN aliases \cup {temp, old}
          /\ \A x \in DOMAIN (aliases') :
                aliases'[x] = IF x \in {temp, old} THEN real ELSE aliases[x]
      <3> DEFINE r == Redirected(aliases, temp, old, real)
      <3>1. /\ DOMAIN r = DOMAIN aliases \cup {temp, old}
            /\ \A x \in DOMAIN r : r[x] = IF x \in {temp, old} THEN real ELSE aliases[x]
        BY DEF Redirected, With
      <3>2. aliases' = r
        BY <1>3
      <3> HIDE DEF r
      <3> QED
        BY <3>1, <3>2
    <2> QED
      BY <1>3, <2>1 DEF AliasesLeadOn
  <1>4. CASE old \in DOMAIN sessions /\ Rename(w, temp, old, real)
    <2>1. /\ DOMAIN (aliases') = DOMAIN aliases \cup {temp, old}
          /\ \A x \in DOMAIN (aliases') :
                \/ aliases'[x] = real
                \/ x \in DOMAIN aliases /\ aliases'[x] = aliases[x]
      <3>1. /\ DOMAIN Renamed(aliases, temp, old, real) = DOMAIN aliases \cup {temp, old}
            /\ \A x \in DOMAIN aliases \cup {temp, old} :
                  \/ Renamed(aliases, temp, old, real)[x] = real
                  \/ /\ x \in DOMAIN aliases
                     /\ Renamed(aliases, temp, old, real)[x] = aliases[x]
        BY DEF Renamed, Redirected, With
      <3>2. aliases' = Renamed(aliases, temp, old, real)
        BY <1>4 DEF Rename
      <3> QED
        BY <3>1, <3>2
    <2>2. DOMAIN (sessions') = (DOMAIN sessions \ {temp, old}) \cup {real}
      BY <1>4 DEF Rename, With, Without
    <2> QED
      BY <2>1, <2>2 DEF AliasesLeadOn
  <1>5. CASE UNCHANGED <<maps, ident>>
    BY <1>5 DEF maps, AliasesLeadOn
  <1> QED
    BY <1>2, <1>3, <1>4, <1>5 DEF UpdateSessionID

-----------------------------------------------------------------------------
(* Helpers of several actions *)

\* An ID lookup does not leave the types of the active sessions.
LEMMA FollowType ==
    ASSUME TypeOK, NEW w \in Workspace, NEW id \in ID, Follow(w, id)
    PROVE  Partial(active', Workspace, ID)
  <1>1. Partial(aliases, ID, ID) /\ Partial(active, Workspace, ID)
    BY DEF TypeOK
  <1>2. Partial(With(active, w, Resolve(aliases, id)), Workspace, ID)
    BY <1>1, ResolveType, WithPartial
  <1> QED
    BY <1>1, <1>2 DEF Follow

\* A watcher that moves changes its own place only.
LEMMA MovesType ==
    ASSUME TypeOK, NEW s \in Session, NEW to \in WatcherState, Moves(s, to)
    PROVE  /\ watcher' \in [Session -> WatcherState]
           /\ watcher'[s] = to
           /\ \A t \in Session \ {s} : watcher'[t] = watcher[t]
  BY DEF Moves, TypeOK

\* A call that moves changes its own record only.
LEMMA CallType ==
    ASSUME TypeOK, NEW c \in Call, NEW r \in CallRecord, call' = [call EXCEPT ![c] = r]
    PROVE  /\ call' \in [Call -> CallRecord]
           /\ call'[c] = r
           /\ \A b \in Call \ {c} : call'[b] = call[b]
  BY DEF TypeOK

\* The record of a call that goes on, and of one that ends.
LEMMA CallRecords ==
    ASSUME TypeOK, NEW c \in Call
    PROVE  /\ Idle \in CallRecord
           /\ \A to \in CallState, s \in Session \cup {None} :
                 [pc |-> to, id |-> call[c].id, ws |-> call[c].ws,
                  who |-> s, mode |-> call[c].mode] \in CallRecord
  <1>1. call[c] \in CallRecord
    BY DEF TypeOK
  <1> QED
    BY <1>1 DEF CallRecord, Idle, CallState, Mode

\* A new session changes nothing about those that have been made.
LEMMA InstallType ==
    ASSUME TypeOK, NEW s \in Session, NEW id \in ID, NEW w \in Workspace, NEW d \in Dir,
           Install(s, id, w, d)
    PROVE  /\ Partial(sessions', ID, Session)
           /\ Partial(active', Workspace, ID)
           /\ ident' \in [Session -> ID \cup {None}]
           /\ born' \in [Session -> ID \cup {None}]
           /\ owner' \in [Session -> Workspace \cup {None}]
           /\ origin' \in [Session -> Workspace \cup {None}]
           /\ dir' \in [Session -> Dir \cup {None}]
           /\ status' \in [Session -> {"unborn", "running", "stopped"}]
           /\ status'[s] # "unborn" /\ ident'[s] = id /\ born'[s] = id
           /\ owner'[s] = w /\ origin'[s] = w /\ dir'[s] = d
           /\ \A t \in Session \ {s} :
                 /\ status'[t] = status[t] /\ ident'[t] = ident[t] /\ born'[t] = born[t]
                 /\ owner'[t] = owner[t] /\ origin'[t] = origin[t] /\ dir'[t] = dir[t]
  <1>1. Partial(sessions', ID, Session) /\ Partial(active', Workspace, ID)
    BY WithPartial DEF Install, TypeOK
  <1>2. /\ ident' \in [Session -> ID \cup {None}]
        /\ born' \in [Session -> ID \cup {None}]
        /\ ident'[s] = id /\ born'[s] = id
        /\ \A t \in Session \ {s} : ident'[t] = ident[t] /\ born'[t] = born[t]
    BY DEF Install, TypeOK
  <1>3. /\ owner' \in [Session -> Workspace \cup {None}]
        /\ origin' \in [Session -> Workspace \cup {None}]
        /\ owner'[s] = w /\ origin'[s] = w
        /\ \A t \in Session \ {s} : owner'[t] = owner[t] /\ origin'[t] = origin[t]
    BY DEF Install, TypeOK
  <1>4. /\ dir' \in [Session -> Dir \cup {None}]
        /\ status' \in [Session -> {"unborn", "running", "stopped"}]
        /\ status'[s] # "unborn" /\ dir'[s] = d
        /\ \A t \in Session \ {s} : status'[t] = status[t] /\ dir'[t] = dir[t]
    BY DEF Install, TypeOK
  <1> QED
    BY <1>1, <1>2, <1>3, <1>4

\* A new session takes no ID from those that are filed, watched or held.
LEMMA InstallKeeps ==
    ASSUME RegistryInv,
           NEW s \in Session, NEW id \in ID, NEW w \in Workspace, NEW d \in Dir,
           Install(s, id, w, d), aliases' = aliases
    PROVE  /\ BornIsPlaced' /\ FiledAreBorn' /\ FiledUnderOwnID' /\ AliasesLeadOn'
           /\ status[s] = "unborn"
  <1>0. /\ TypeOK /\ BornIsPlaced /\ FiledAreBorn /\ FiledUnderOwnID /\ AliasesLeadOn
        /\ Partial(sessions, ID, Session)
    BY DEF RegistryInv, TypeOK
  <1>1. status[s] = "unborn"
    BY DEF Install
  <1>2. /\ status'[s] # "unborn" /\ ident'[s] = id /\ born'[s] = id
        /\ owner'[s] = w /\ origin'[s] = w /\ dir'[s] = d
        /\ \A t \in Session \ {s} :
              /\ status'[t] = status[t] /\ ident'[t] = ident[t] /\ born'[t] = born[t]
              /\ owner'[t] = owner[t] /\ origin'[t] = origin[t] /\ dir'[t] = dir[t]
    BY <1>0, InstallType
  <1>3. BornIsPlaced'
    BY <1>0, <1>2 DEF BornIsPlaced
  <1>4. /\ DOMAIN (sessions') = DOMAIN sessions \cup {id}
        /\ \A x \in DOMAIN (sessions') :
              sessions'[x] = IF x = id THEN s ELSE sessions[x]
    BY DEF Install, With
  <1>5. \A x \in DOMAIN sessions : sessions[x] \in Session \ {s}
    BY <1>0, <1>1, PartialApplication DEF FiledAreBorn
  <1>6. FiledAreBorn'
    BY <1>0, <1>2, <1>4, <1>5 DEF FiledAreBorn
  <1>7. FiledUnderOwnID'
    BY <1>0, <1>2, <1>4, <1>5 DEF FiledUnderOwnID
  <1>8. AliasesLeadOn'
    BY <1>0, <1>4 DEF AliasesLeadOn
  <1> QED
    BY <1>1, <1>3, <1>6, <1>7, <1>8

\* Stopping sessions keeps the invariant: the entries that go are those
\* whose watchers are cancelled, because an entry is its watcher's own.
LEMMA StopAllKeeps ==
    ASSUME RegistryInv, NEW S, S \subseteq Filed, StopAll(S),
           phase' \in {"up", "closing", "down", "stuck"}
    PROVE  RegistryInv'
  <1> DEFINE ids == {ident[s] : s \in S}
  <1>0. /\ TypeOK /\ BornIsPlaced /\ FiledAreBorn /\ WatchersAreBorn /\ RenamedHaveSeen
        /\ CancelledHaveEntered /\ CallsAreGrounded
        /\ FiledUnderOwnID /\ EntriesAreAlive /\ AliasesLeadOn
    BY DEF RegistryInv
  <1>1. Partial(entries, ID, Session) /\ Partial(active, Workspace, ID)
        /\ status \in [Session -> {"unborn", "running", "stopped"}]
        /\ cancelled \subseteq Session
    BY <1>0 DEF TypeOK
  <1>2. /\ DOMAIN (entries') = DOMAIN entries \ ids
        /\ \A id \in DOMAIN (entries') : entries'[id] = entries[id]
    BY DEF StopAll, Only
  <1>3. cancelled' = cancelled \cup {entries[id] : id \in ids \cap DOMAIN entries}
    BY DEF StopAll
  <1>4. cancelled' \subseteq Session
    BY <1>1, <1>3, PartialApplication
  <1>5. Partial(entries', ID, Session) /\ Partial(active', Workspace, ID)
    BY <1>1, OnlyPartial DEF StopAll
  <1>6. /\ status' \in [Session -> {"unborn", "running", "stopped"}]
        /\ \A s \in Session : status'[s] = IF s \in S THEN "stopped" ELSE status[s]
    BY <1>1 DEF StopAll
  <1>7. \A s \in Session : status'[s] = "unborn" <=> status[s] = "unborn"
    <2>1. \A s \in S : status[s] # "unborn"
      BY <1>0 DEF Filed, FiledAreBorn
    <2> QED
      BY <1>6, <2>1
  <1>8. TypeOK'
    BY <1>0, <1>4, <1>5, <1>6 DEF StopAll, process, TypeOK
  <1>9. BornIsPlaced' /\ WatchersAreBorn' /\ RenamedHaveSeen'
    BY <1>0, <1>7 DEF StopAll, BornIsPlaced, WatchersAreBorn, RenamedHaveSeen
  <1>10. FiledAreBorn'
    <2>1. \A id \in DOMAIN sessions : sessions[id] \in Session
      BY <1>0, PartialApplication DEF TypeOK
    <2> QED
      BY <1>0, <1>7, <2>1 DEF StopAll, FiledAreBorn
  <1>11. FiledUnderOwnID' /\ AliasesLeadOn'
    BY <1>0 DEF StopAll, FiledUnderOwnID, AliasesLeadOn
  <1>12. CallsAreGrounded'
    BY <1>0, <1>7 DEF StopAll, CallsAreGrounded
  <1>13. CancelledHaveEntered'
    <2>1. \A id \in DOMAIN entries : watcher[entries[id]] \notin {"none", "called"}
      BY <1>0 DEF EntriesAreAlive, AtWork, InLoop
    <2>2. watcher' = watcher
      BY DEF StopAll
    <2> QED
      BY <1>0, <1>3, <2>1, <2>2 DEF CancelledHaveEntered
  <1>14. EntriesAreAlive'
    <2>1. born' = born /\ watcher' = watcher
      BY DEF StopAll
    <2>2. ASSUME NEW id \in DOMAIN (entries') PROVE entries[id] \notin cancelled'
      <3>1. id \in DOMAIN entries /\ id \notin ids /\ born[entries[id]] = id
            /\ entries[id] \notin cancelled
        BY <1>0, <1>2 DEF EntriesAreAlive
      <3>2. \A x \in ids \cap DOMAIN entries : entries[x] # entries[id]
        BY <1>0, <3>1 DEF EntriesAreAlive
      <3> QED
        BY <1>3, <3>1, <3>2
    <2> QED
      BY <1>0, <1>2, <2>1, <2>2 DEF EntriesAreAlive
  <1> QED
    BY <1>8, <1>9, <1>10, <1>11, <1>12, <1>13, <1>14 DEF RegistryInv

-----------------------------------------------------------------------------
(* The invariant is inductive *)

\* Every step keeps the invariant.
LEMMA NextInv == RegistryInv /\ [Next]_vars => RegistryInv'
  <1> SUFFICES ASSUME RegistryInv, [Next]_vars PROVE RegistryInv'
    OBVIOUS
  <1>0. /\ TypeOK /\ BornIsPlaced /\ FiledAreBorn /\ WatchersAreBorn /\ RenamedHaveSeen
        /\ CancelledHaveEntered /\ CallsAreGrounded
        /\ FiledUnderOwnID /\ EntriesAreAlive /\ AliasesLeadOn
    BY DEF RegistryInv
  <1> USE <1>0
  <1>1. ASSUME NEW w \in Workspace, RegisterWorkspace(w) PROVE RegistryInv'
    <2>1. TypeOK'
      BY <1>1 DEF RegisterWorkspace, maps, objects, process, watch, TypeOK
    <2>2. /\ BornIsPlaced' /\ FiledAreBorn' /\ WatchersAreBorn' /\ RenamedHaveSeen'
          /\ CancelledHaveEntered' /\ CallsAreGrounded' /\ FiledUnderOwnID'
          /\ EntriesAreAlive' /\ AliasesLeadOn'
      BY <1>1
      DEF RegisterWorkspace, maps, objects, process, watch, BornIsPlaced,
          FiledAreBorn, WatchersAreBorn, RenamedHaveSeen, CancelledHaveEntered,
          CallsAreGrounded, FiledUnderOwnID, EntriesAreAlive, AliasesLeadOn
    <2> QED
      BY <2>1, <2>2 DEF RegistryInv
  <1>2. ASSUME NEW w \in Workspace, UnregisterWorkspace(w) PROVE RegistryInv'
    <2>1. TypeOK'
      BY <1>2 DEF UnregisterWorkspace, maps, objects, process, watch, TypeOK
    <2>2. /\ BornIsPlaced' /\ FiledAreBorn' /\ WatchersAreBorn' /\ RenamedHaveSeen'
          /\ CancelledHaveEntered' /\ CallsAreGrounded' /\ FiledUnderOwnID'
          /\ EntriesAreAlive' /\ AliasesLeadOn'
      BY <1>2
      DEF UnregisterWorkspace, maps, objects, process, watch, BornIsPlaced,
          FiledAreBorn, WatchersAreBorn, RenamedHaveSeen, CancelledHaveEntered,
          CallsAreGrounded, FiledUnderOwnID, EntriesAreAlive, AliasesLeadOn
    <2> QED
      BY <2>1, <2>2 DEF RegistryInv
  <1>3. ASSUME NEW w \in Workspace, NEW id \in ID, ActivateSession(w, id) PROVE RegistryInv'
    <2>a. Partial(active', Workspace, ID)
      BY <1>3, WithPartial DEF ActivateSession, TypeOK
    <2>1. TypeOK'
      BY <1>3, <2>a DEF ActivateSession, objects, process, watch, TypeOK
    <2>2. /\ BornIsPlaced' /\ FiledAreBorn' /\ WatchersAreBorn' /\ RenamedHaveSeen'
          /\ CancelledHaveEntered' /\ CallsAreGrounded' /\ FiledUnderOwnID'
          /\ EntriesAreAlive' /\ AliasesLeadOn'
      BY <1>3
      DEF ActivateSession, objects, process, watch, BornIsPlaced, FiledAreBorn,
          WatchersAreBorn, RenamedHaveSeen, CancelledHaveEntered, CallsAreGrounded,
          FiledUnderOwnID, EntriesAreAlive, AliasesLeadOn
    <2> QED
      BY <2>1, <2>2 DEF RegistryInv
  <1>4. ASSUME NEW s \in Session, NEW w \in Workspace, StartFromClient(s, w) PROVE RegistryInv'
    <2>h. Home[w] \in Dir
      BY PlaceAssumption
    <2>a. PICK id \in ID : Install(s, id, w, Home[w])
      BY <1>4, <2>h DEF StartFromClient, SessionIDs, TypeOK, ID
    <2>b. /\ Partial(sessions', ID, Session) /\ Partial(active', Workspace, ID)
          /\ ident' \in [Session -> ID \cup {None}] /\ born' \in [Session -> ID \cup {None}]
          /\ owner' \in [Session -> Workspace \cup {None}]
          /\ origin' \in [Session -> Workspace \cup {None}]
          /\ dir' \in [Session -> Dir \cup {None}]
          /\ status' \in [Session -> {"unborn", "running", "stopped"}]
      BY <2>a, <2>h, InstallType
    <2>c. /\ status[s] = "unborn" /\ status'[s] # "unborn"
          /\ \A t \in Session \ {s} : status'[t] = status[t] /\ born'[t] = born[t]
      BY <2>a, <2>h, InstallType DEF Install
    <2>d. BornIsPlaced' /\ FiledAreBorn' /\ FiledUnderOwnID' /\ AliasesLeadOn'
      BY <1>4, <2>a, <2>h, InstallKeeps DEF StartFromClient
    <2>e. /\ watcher' \in [Session -> WatcherState] /\ watcher'[s] = "called"
          /\ \A t \in Session \ {s} : watcher'[t] = watcher[t]
      BY <1>4 DEF StartFromClient, TypeOK, WatcherState
    <2>f. watcher[s] = "none"
      BY <2>c DEF WatchersAreBorn
    <2>1. TypeOK'
      BY <1>4, <2>b, <2>e DEF StartFromClient, TypeOK
    <2>2. BornIsPlaced'
      BY <2>d
    <2>3. FiledAreBorn'
      BY <2>d
    <2>4. WatchersAreBorn'
      BY <2>c, <2>e DEF WatchersAreBorn
    <2>5. RenamedHaveSeen'
      BY <1>4, <2>e DEF StartFromClient, RenamedHaveSeen
    <2>6. CancelledHaveEntered'
      BY <1>4, <2>e, <2>f DEF StartFromClient, CancelledHaveEntered, TypeOK
    <2>7. CallsAreGrounded'
      BY <1>4, <2>c DEF StartFromClient, CallsAreGrounded
    <2>8. FiledUnderOwnID'
      BY <2>d
    <2>9. EntriesAreAlive'
      <3>1. entries' = entries /\ cancelled' = cancelled
        BY <1>4 DEF StartFromClient
      <3>2. \A x \in DOMAIN entries : entries[x] \in Session \ {s}
        BY <2>f, PartialApplication DEF EntriesAreAlive, AtWork, InLoop, TypeOK
      <3> QED
        BY <2>c, <2>e, <3>1, <3>2 DEF EntriesAreAlive
    <2>10. AliasesLeadOn'
      BY <2>d
    <2> QED
      BY <2>1, <2>2, <2>3, <2>4, <2>5, <2>6, <2>7, <2>8, <2>9, <2>10 DEF RegistryInv
  <1>5. ASSUME NEW s \in Session, NEW w \in Workspace, NEW d \in Dir, StartForAgent(s, w, d) PROVE RegistryInv'
    <2>a. Install(s, s, w, d) /\ s \in ID
      BY <1>5 DEF StartForAgent, ID
    <2>b. /\ Partial(sessions', ID, Session) /\ Partial(active', Workspace, ID)
          /\ ident' \in [Session -> ID \cup {None}] /\ born' \in [Session -> ID \cup {None}]
          /\ owner' \in [Session -> Workspace \cup {None}]
          /\ origin' \in [Session -> Workspace \cup {None}]
          /\ dir' \in [Session -> Dir \cup {None}]
          /\ status' \in [Session -> {"unborn", "running", "stopped"}]
      BY <2>a, InstallType
    <2>c. /\ status[s] = "unborn" /\ status'[s] # "unborn"
          /\ \A t \in Session \ {s} : status'[t] = status[t] /\ born'[t] = born[t]
      BY <2>a, InstallType DEF Install
    <2>d. BornIsPlaced' /\ FiledAreBorn' /\ FiledUnderOwnID' /\ AliasesLeadOn'
      BY <1>5, <2>a, InstallKeeps DEF StartForAgent
    <2>e. /\ watcher' \in [Session -> WatcherState] /\ watcher'[s] = "called"
          /\ \A t \in Session \ {s} : watcher'[t] = watcher[t]
      BY <1>5 DEF StartForAgent, TypeOK, WatcherState
    <2>f. watcher[s] = "none"
      BY <2>c DEF WatchersAreBorn
    <2>1. TypeOK'
      BY <1>5, <2>b, <2>e DEF StartForAgent, process, TypeOK
    <2>2. BornIsPlaced'
      BY <2>d
    <2>3. FiledAreBorn'
      BY <2>d
    <2>4. WatchersAreBorn'
      BY <2>c, <2>e DEF WatchersAreBorn
    <2>5. RenamedHaveSeen'
      BY <1>5, <2>e DEF StartForAgent, RenamedHaveSeen
    <2>6. CancelledHaveEntered'
      BY <1>5, <2>e, <2>f DEF StartForAgent, CancelledHaveEntered, TypeOK
    <2>7. CallsAreGrounded'
      BY <1>5, <2>c DEF StartForAgent, CallsAreGrounded
    <2>8. FiledUnderOwnID'
      BY <2>d
    <2>9. EntriesAreAlive'
      <3>1. entries' = entries /\ cancelled' = cancelled
        BY <1>5 DEF StartForAgent
      <3>2. \A id \in DOMAIN entries : entries[id] \in Session \ {s}
        BY <2>f, PartialApplication DEF EntriesAreAlive, AtWork, InLoop, TypeOK
      <3> QED
        BY <2>c, <2>e, <3>1, <3>2 DEF EntriesAreAlive
    <2>10. AliasesLeadOn'
      BY <2>d
    <2> QED
      BY <2>1, <2>2, <2>3, <2>4, <2>5, <2>6, <2>7, <2>8, <2>9, <2>10 DEF RegistryInv
  <1>6. ASSUME NEW s \in Session, LaunchClaude(s) PROVE RegistryInv'
    <2>1. TypeOK'
      <3>1. PICK m \in Mode \cup {"none"} : claude' = [claude EXCEPT ![s] = m]
        BY <1>6 DEF LaunchClaude, Mode, TypeOK
      <3> QED
        BY <1>6, <3>1 DEF LaunchClaude, maps, objects, watch, TypeOK
    <2>2. /\ BornIsPlaced' /\ FiledAreBorn' /\ WatchersAreBorn' /\ RenamedHaveSeen'
          /\ CancelledHaveEntered' /\ CallsAreGrounded' /\ FiledUnderOwnID'
          /\ EntriesAreAlive' /\ AliasesLeadOn'
      BY <1>6
      DEF LaunchClaude, maps, objects, watch, BornIsPlaced, FiledAreBorn,
          WatchersAreBorn, RenamedHaveSeen, CancelledHaveEntered, CallsAreGrounded,
          FiledUnderOwnID, EntriesAreAlive, AliasesLeadOn
    <2> QED
      BY <2>1, <2>2 DEF RegistryInv
  <1>7. ASSUME NEW s \in Session, ClaudeExits(s) PROVE RegistryInv'
    <2> DEFINE fails == /\ claude[s] = "pty" /\ s \in hooked
                        /\ born[s] \in DOMAIN entries /\ origin[entries[born[s]]] = origin[s]
    <2>a. CASE ~ fails
      <3>1. UNCHANGED <<entries, cancelled, watcher, saw>>
        BY <1>7, <2>a DEF ClaudeExits
      <3>2. TypeOK'
        BY <1>7, <3>1 DEF ClaudeExits, maps, objects, TypeOK
      <3>3. /\ BornIsPlaced' /\ FiledAreBorn' /\ WatchersAreBorn' /\ RenamedHaveSeen'
            /\ CancelledHaveEntered' /\ CallsAreGrounded' /\ FiledUnderOwnID'
            /\ EntriesAreAlive' /\ AliasesLeadOn'
        BY <1>7, <3>1 DEF ClaudeExits, maps, objects, BornIsPlaced, FiledAreBorn,
           WatchersAreBorn, RenamedHaveSeen, CancelledHaveEntered, CallsAreGrounded,
           FiledUnderOwnID, EntriesAreAlive, AliasesLeadOn
      <3> QED
        BY <3>2, <3>3 DEF RegistryInv
    <2>b. CASE fails
      <3>1. /\ born[s] \in DOMAIN entries
            /\ entries' = Without(entries, born[s])
            /\ cancelled' = cancelled \cup {entries[born[s]]}
        BY <1>7, <2>b DEF ClaudeExits
      <3>2. entries[born[s]] \in Session
        BY <3>1, PartialApplication DEF TypeOK
      <3>3. TypeOK'
        BY <1>7, <3>1, <3>2, WithoutPartial
        DEF ClaudeExits, maps, objects, TypeOK, Mode
      <3>4. CancelledHaveEntered'
        BY <1>7, <3>1
        DEF ClaudeExits, CancelledHaveEntered, EntriesAreAlive, AtWork, InLoop
      <3>5. EntriesAreAlive'
        <4>1. \A id \in DOMAIN (entries') : id \in DOMAIN entries /\ id # born[s]
                                            /\ entries'[id] = entries[id]
          BY <3>1 DEF Without
        <4>2. \A id \in DOMAIN (entries') : entries[id] \notin cancelled'
          BY <3>1, <4>1 DEF EntriesAreAlive
        <4> QED
          BY <1>7, <4>1, <4>2 DEF ClaudeExits, objects, EntriesAreAlive
      <3>6. /\ BornIsPlaced' /\ FiledAreBorn' /\ WatchersAreBorn' /\ RenamedHaveSeen'
            /\ CallsAreGrounded' /\ FiledUnderOwnID' /\ AliasesLeadOn'
        BY <1>7 DEF ClaudeExits, maps, objects, BornIsPlaced, FiledAreBorn,
           WatchersAreBorn, RenamedHaveSeen, CallsAreGrounded, FiledUnderOwnID, AliasesLeadOn
      <3> QED
        BY <3>3, <3>4, <3>5, <3>6 DEF RegistryInv
    <2> QED
      BY <2>a, <2>b
  <1>8. ASSUME NEW r \in Transcript, NEW d \in Dir, TranscriptAppears(r, d) PROVE RegistryInv'
    <2>1. TypeOK'
      BY <1>8 DEF TranscriptAppears, maps, objects, process, TypeOK
    <2>2. RenamedHaveSeen'
      BY <1>8 DEF TranscriptAppears, maps, objects, process, RenamedHaveSeen
    <2>3. /\ BornIsPlaced' /\ FiledAreBorn' /\ WatchersAreBorn'
          /\ CancelledHaveEntered' /\ CallsAreGrounded' /\ FiledUnderOwnID'
          /\ EntriesAreAlive' /\ AliasesLeadOn'
      BY <1>8
      DEF TranscriptAppears, maps, objects, process, BornIsPlaced, FiledAreBorn,
          WatchersAreBorn, CancelledHaveEntered, CallsAreGrounded, FiledUnderOwnID,
          EntriesAreAlive, AliasesLeadOn
    <2> QED
      BY <2>1, <2>2, <2>3 DEF RegistryInv
  <1>9. ASSUME NEW s \in Session, WatchBegins(s) PROVE RegistryInv'
    <2>a. status[s] # "unborn" /\ born[s] \in ID
      BY <1>9 DEF WatchBegins, WatchersAreBorn, BornIsPlaced
    <2>b. s \notin cancelled
      BY <1>9 DEF WatchBegins, CancelledHaveEntered
    <2>c. /\ watcher' \in [Session -> WatcherState]
          /\ watcher'[s] \in {"gone", "entered"}
          /\ \A t \in Session \ {s} : watcher'[t] = watcher[t]
      BY <1>9, MovesType DEF WatchBegins, WatcherState
    <2>d. Partial(With(entries, born[s], s), ID, Session)
      BY <2>a, WithPartial DEF TypeOK
    <2>1. TypeOK'
      BY <1>9, <2>c, <2>d DEF WatchBegins, maps, objects, process, TypeOK
    <2>2. WatchersAreBorn'
      BY <1>9, <2>a, <2>c DEF WatchBegins, objects, WatchersAreBorn
    <2>3. RenamedHaveSeen'
      BY <1>9, <2>c DEF WatchBegins, RenamedHaveSeen
    <2>4. CancelledHaveEntered'
      BY <1>9, <2>b, <2>c DEF WatchBegins, CancelledHaveEntered, TypeOK
    <2>5. EntriesAreAlive'
      <3>1. \A id \in DOMAIN entries : entries[id] \in Session \ {s}
        BY <1>9, PartialApplication
        DEF WatchBegins, EntriesAreAlive, AtWork, InLoop, TypeOK
      <3>2. born' = born /\ cancelled' = cancelled
        BY <1>9 DEF WatchBegins, objects
      <3>3. CASE entries' = entries
        BY <2>c, <3>1, <3>2, <3>3 DEF EntriesAreAlive
      <3>4. CASE entries' = With(entries, born[s], s) /\ Moves(s, "entered")
        <4>1. watcher'[s] = "entered"
          BY <3>4, MovesType DEF WatcherState
        <4>2. /\ DOMAIN (entries') = DOMAIN entries \cup {born[s]}
              /\ \A id \in DOMAIN (entries') :
                    entries'[id] = IF id = born[s] THEN s ELSE entries[id]
          BY <3>4 DEF With
        <4> QED
          BY <2>b, <2>c, <3>1, <3>2, <4>1, <4>2 DEF EntriesAreAlive, AtWork
      <3> QED
        BY <1>9, <3>3, <3>4 DEF WatchBegins
    <2>6. /\ BornIsPlaced' /\ FiledAreBorn' /\ CallsAreGrounded' /\ FiledUnderOwnID'
          /\ AliasesLeadOn'
      BY <1>9
      DEF WatchBegins, maps, objects, process, BornIsPlaced, FiledAreBorn,
          CallsAreGrounded, FiledUnderOwnID, AliasesLeadOn
    <2> QED
      BY <2>1, <2>2, <2>3, <2>4, <2>5, <2>6 DEF RegistryInv
  <1>10. ASSUME NEW s \in Session, WatchLooks(s) PROVE RegistryInv'
    <2>a. /\ watcher' \in [Session -> WatcherState]
          /\ watcher'[s] \in {"toParent", "toDir", "leaving"} /\ watcher[s] \in {"entered"}
          /\ \A t \in Session \ {s} : watcher'[t] = watcher[t]
      BY <1>10, MovesType DEF WatchLooks, WatcherState, InLoop
    <2>1. TypeOK'
      BY <1>10, <2>a DEF WatchLooks, maps, objects, process, TypeOK
    <2>2. WatchersAreBorn'
      BY <1>10, <2>a DEF WatchLooks, maps, objects, process, WatchersAreBorn, InLoop
    <2>3. RenamedHaveSeen'
      BY <1>10, <2>a DEF WatchLooks, maps, objects, process, RenamedHaveSeen
    <2>4. CancelledHaveEntered'
      BY <1>10, <2>a
      DEF WatchLooks, maps, objects, process, CancelledHaveEntered, TypeOK
    <2>5. EntriesAreAlive'
      <3>1. \A id \in DOMAIN entries : entries[id] \in Session
        BY PartialApplication DEF TypeOK
      <3>2. born' = born /\ entries' = entries /\ cancelled' = cancelled
        BY <1>10 DEF WatchLooks, maps, objects, process
      <3> QED
        BY <2>a, <3>1, <3>2 DEF EntriesAreAlive, AtWork, InLoop
    <2>6. /\ BornIsPlaced' /\ FiledAreBorn' /\ CallsAreGrounded' /\ FiledUnderOwnID'
          /\ AliasesLeadOn'
      BY <1>10
      DEF WatchLooks, maps, objects, process, BornIsPlaced, FiledAreBorn,
          CallsAreGrounded, FiledUnderOwnID, AliasesLeadOn
    <2> QED
      BY <2>1, <2>2, <2>3, <2>4, <2>5, <2>6 DEF RegistryInv
  <1>11. ASSUME NEW s \in Session, WatchAttaches(s) PROVE RegistryInv'
    <2>a. /\ watcher' \in [Session -> WatcherState]
          /\ watcher'[s] \in {"parent", "deaf", "listening", "leaving"} /\ watcher[s] \in {"toParent", "toDir"}
          /\ \A t \in Session \ {s} : watcher'[t] = watcher[t]
      BY <1>11, MovesType DEF WatchAttaches, WatcherState, InLoop
    <2>1. TypeOK'
      BY <1>11, <2>a DEF WatchAttaches, maps, objects, process, TypeOK
    <2>2. WatchersAreBorn'
      BY <1>11, <2>a
      DEF WatchAttaches, maps, objects, process, WatchersAreBorn, InLoop
    <2>3. RenamedHaveSeen'
      BY <1>11, <2>a DEF WatchAttaches, maps, objects, process, RenamedHaveSeen
    <2>4. CancelledHaveEntered'
      BY <1>11, <2>a
      DEF WatchAttaches, maps, objects, process, CancelledHaveEntered, TypeOK
    <2>5. EntriesAreAlive'
      <3>1. \A id \in DOMAIN entries : entries[id] \in Session
        BY PartialApplication DEF TypeOK
      <3>2. born' = born /\ entries' = entries /\ cancelled' = cancelled
        BY <1>11 DEF WatchAttaches, maps, objects, process
      <3> QED
        BY <2>a, <3>1, <3>2 DEF EntriesAreAlive, AtWork, InLoop
    <2>6. /\ BornIsPlaced' /\ FiledAreBorn' /\ CallsAreGrounded' /\ FiledUnderOwnID'
          /\ AliasesLeadOn'
      BY <1>11
      DEF WatchAttaches, maps, objects, process, BornIsPlaced, FiledAreBorn,
          CallsAreGrounded, FiledUnderOwnID, AliasesLeadOn
    <2> QED
      BY <2>1, <2>2, <2>3, <2>4, <2>5, <2>6 DEF RegistryInv
  <1>12. ASSUME NEW s \in Session, WatchScans(s) PROVE RegistryInv'
    <2>w. status[s] # "unborn" /\ dir[s] \in Dir
      BY <1>12 DEF WatchScans, WatchersAreBorn, BornIsPlaced
    <2>r. PICK r \in files[dir[s]] :
             saw' = [saw EXCEPT ![s] = r] /\ UpdateSessionID(origin[s], born[s], r)
      BY <1>12 DEF WatchScans
    <2>a. r \in Transcript /\ r \in ID
      BY <2>w, <2>r DEF TypeOK, ID
    <2>b. /\ UpdateSessionID(origin[s], born[s], r)
          /\ origin[s] \in Workspace /\ born[s] \in ID
      BY <2>w, <2>r DEF BornIsPlaced
    <2>c. /\ Partial(sessions', ID, Session) /\ Partial(aliases', ID, ID)
          /\ Partial(active', Workspace, ID) /\ ident' \in [Session -> ID \cup {None}]
          /\ tangled' \in BOOLEAN
      BY <2>a, <2>b, UpdateType
    <2>d. \A t \in Session : ident'[t] \in {ident[t], r}
      BY <2>a, <2>b, UpdateIdents
    <2>e. /\ FiledUnderOwnID'
          /\ \A id \in DOMAIN (sessions') :
                \E x \in DOMAIN sessions : sessions'[id] = sessions[x]
      BY <2>a, <2>b, UpdateFiles
    <2>f. AliasesLeadOn'
      BY <2>a, <2>b, UpdateLeadsOn
    <2>g. /\ watcher' \in [Session -> WatcherState] /\ watcher'[s] = "renamed"
          /\ watcher[s] \in InLoop
          /\ \A t \in Session \ {s} : watcher'[t] = watcher[t]
      BY <1>12, MovesType DEF WatchScans, WatcherState, InLoop
    <2>h. /\ saw' \in [Session -> Transcript \cup {None}] /\ saw'[s] = r
          /\ \A t \in Session \ {s} : saw'[t] = saw[t]
      BY <2>a, <2>r DEF TypeOK
    <2>1. TypeOK'
      BY <1>12, <2>c, <2>g, <2>h DEF WatchScans, process, TypeOK
    <2>2. BornIsPlaced'
      BY <1>12, <2>a, <2>d DEF WatchScans, BornIsPlaced
    <2>3. FiledAreBorn'
      BY <1>12, <2>e DEF WatchScans, FiledAreBorn
    <2>4. WatchersAreBorn'
      BY <1>12, <2>g DEF WatchScans, WatchersAreBorn, InLoop
    <2>5. RenamedHaveSeen'
      BY <2>a, <2>g, <2>h DEF RenamedHaveSeen
    <2>6. CancelledHaveEntered'
      BY <1>12, <2>g DEF WatchScans, CancelledHaveEntered, InLoop, TypeOK
    <2>7. FiledUnderOwnID'
      BY <2>e
    <2>8. EntriesAreAlive'
      <3>1. \A id \in DOMAIN entries : entries[id] \in Session
        BY PartialApplication DEF TypeOK
      <3>2. born' = born /\ entries' = entries /\ cancelled' = cancelled
        BY <1>12 DEF WatchScans
      <3> QED
        BY <2>g, <3>1, <3>2 DEF EntriesAreAlive, AtWork
    <2>9. AliasesLeadOn'
      BY <2>f
    <2>10. CallsAreGrounded'
      BY <1>12 DEF WatchScans, process, CallsAreGrounded
    <2> QED
      BY <2>1, <2>2, <2>3, <2>4, <2>5, <2>6, <2>7, <2>8, <2>9, <2>10 DEF RegistryInv
  <1>13. ASSUME NEW s \in Session, WatchSees(s) PROVE RegistryInv'
    <2> DEFINE r == saw[s]
    <2>a. r \in Transcript /\ r \in ID
      BY <1>13 DEF WatchSees, TypeOK, ID
    <2>b. /\ UpdateSessionID(origin[s], born[s], r)
          /\ origin[s] \in Workspace /\ born[s] \in ID
      BY <1>13 DEF WatchSees, WatchersAreBorn, BornIsPlaced
    <2>c. /\ Partial(sessions', ID, Session) /\ Partial(aliases', ID, ID)
          /\ Partial(active', Workspace, ID) /\ ident' \in [Session -> ID \cup {None}]
          /\ tangled' \in BOOLEAN
      BY <2>a, <2>b, UpdateType
    <2>d. \A t \in Session : ident'[t] \in {ident[t], r}
      BY <2>a, <2>b, UpdateIdents
    <2>e. /\ FiledUnderOwnID'
          /\ \A id \in DOMAIN (sessions') :
                \E x \in DOMAIN sessions : sessions'[id] = sessions[x]
      BY <2>a, <2>b, UpdateFiles
    <2>f. AliasesLeadOn'
      BY <2>a, <2>b, UpdateLeadsOn
    <2>g. /\ watcher' \in [Session -> WatcherState] /\ watcher'[s] = "renamed"
          /\ watcher[s] \in InLoop
          /\ \A t \in Session \ {s} : watcher'[t] = watcher[t]
      BY <1>13, MovesType DEF WatchSees, WatcherState, InLoop
    <2>h. /\ saw' \in [Session -> Transcript \cup {None}] /\ saw'[s] = r
          /\ \A t \in Session \ {s} : saw'[t] = saw[t]
      BY <1>13 DEF WatchSees, TypeOK
    <2>1. TypeOK'
      BY <1>13, <2>c, <2>g, <2>h DEF WatchSees, process, TypeOK
    <2>2. BornIsPlaced'
      BY <1>13, <2>a, <2>d DEF WatchSees, BornIsPlaced
    <2>3. FiledAreBorn'
      BY <1>13, <2>e DEF WatchSees, FiledAreBorn
    <2>4. WatchersAreBorn'
      BY <1>13, <2>g DEF WatchSees, WatchersAreBorn, InLoop
    <2>5. RenamedHaveSeen'
      BY <2>a, <2>g, <2>h DEF RenamedHaveSeen
    <2>6. CancelledHaveEntered'
      BY <1>13, <2>g DEF WatchSees, CancelledHaveEntered, InLoop, TypeOK
    <2>7. FiledUnderOwnID'
      BY <2>e
    <2>8. EntriesAreAlive'
      <3>1. \A id \in DOMAIN entries : entries[id] \in Session
        BY PartialApplication DEF TypeOK
      <3>2. born' = born /\ entries' = entries /\ cancelled' = cancelled
        BY <1>13 DEF WatchSees
      <3> QED
        BY <2>g, <3>1, <3>2 DEF EntriesAreAlive, AtWork
    <2>9. AliasesLeadOn'
      BY <2>f
    <2>10. CallsAreGrounded'
      BY <1>13 DEF WatchSees, process, CallsAreGrounded
    <2> QED
      BY <2>1, <2>2, <2>3, <2>4, <2>5, <2>6, <2>7, <2>8, <2>9, <2>10 DEF RegistryInv
  <1>14. ASSUME NEW s \in Session, WatchAnnounces(s) PROVE RegistryInv'
    <2>a. /\ watcher' \in [Session -> WatcherState]
          /\ watcher'[s] \in {"leaving"} /\ watcher[s] \in {"renamed"}
          /\ \A t \in Session \ {s} : watcher'[t] = watcher[t]
      BY <1>14, MovesType DEF WatchAnnounces, WatcherState, InLoop
    <2>b. origin[s] \in Workspace /\ saw[s] \in ID
      BY <2>a DEF WatchersAreBorn, BornIsPlaced, RenamedHaveSeen, ID
    <2>c. Partial(active', Workspace, ID)
      BY <1>14, <2>b, FollowType DEF WatchAnnounces
    <2>1. TypeOK'
      BY <1>14, <2>a, <2>c DEF WatchAnnounces, objects, process, TypeOK
    <2>2. WatchersAreBorn'
      BY <1>14, <2>a DEF WatchAnnounces, objects, process, WatchersAreBorn, InLoop
    <2>3. RenamedHaveSeen'
      BY <1>14, <2>a DEF WatchAnnounces, objects, process, RenamedHaveSeen
    <2>4. CancelledHaveEntered'
      BY <1>14, <2>a
      DEF WatchAnnounces, objects, process, CancelledHaveEntered, TypeOK
    <2>5. EntriesAreAlive'
      <3>1. \A id \in DOMAIN entries : entries[id] \in Session
        BY PartialApplication DEF TypeOK
      <3>2. born' = born /\ entries' = entries /\ cancelled' = cancelled
        BY <1>14 DEF WatchAnnounces, objects, process
      <3> QED
        BY <2>a, <3>1, <3>2 DEF EntriesAreAlive, AtWork, InLoop
    <2>6. /\ BornIsPlaced' /\ FiledAreBorn' /\ CallsAreGrounded' /\ FiledUnderOwnID'
          /\ AliasesLeadOn'
      BY <1>14
      DEF WatchAnnounces, objects, process, BornIsPlaced, FiledAreBorn,
          CallsAreGrounded, FiledUnderOwnID, AliasesLeadOn
    <2> QED
      BY <2>1, <2>2, <2>3, <2>4, <2>5, <2>6 DEF RegistryInv
  <1>15. ASSUME NEW s \in Session, WatchIsCancelled(s) PROVE RegistryInv'
    <2>a. /\ watcher' \in [Session -> WatcherState]
          /\ watcher'[s] \in {"leaving"} /\ watcher[s] \in InLoop
          /\ \A t \in Session \ {s} : watcher'[t] = watcher[t]
      BY <1>15, MovesType DEF WatchIsCancelled, WatcherState, InLoop
    <2>1. TypeOK'
      BY <1>15, <2>a DEF WatchIsCancelled, maps, objects, process, TypeOK
    <2>2. WatchersAreBorn'
      BY <1>15, <2>a
      DEF WatchIsCancelled, maps, objects, process, WatchersAreBorn, InLoop
    <2>3. RenamedHaveSeen'
      BY <1>15, <2>a DEF WatchIsCancelled, maps, objects, process, RenamedHaveSeen
    <2>4. CancelledHaveEntered'
      BY <1>15, <2>a
      DEF WatchIsCancelled, maps, objects, process, CancelledHaveEntered, TypeOK
    <2>5. EntriesAreAlive'
      <3>1. \A id \in DOMAIN entries : entries[id] \in Session
        BY PartialApplication DEF TypeOK
      <3>2. born' = born /\ entries' = entries /\ cancelled' = cancelled
        BY <1>15 DEF WatchIsCancelled, maps, objects, process
      <3> QED
        BY <2>a, <3>1, <3>2 DEF EntriesAreAlive, AtWork, InLoop
    <2>6. /\ BornIsPlaced' /\ FiledAreBorn' /\ CallsAreGrounded' /\ FiledUnderOwnID'
          /\ AliasesLeadOn'
      BY <1>15
      DEF WatchIsCancelled, maps, objects, process, BornIsPlaced, FiledAreBorn,
          CallsAreGrounded, FiledUnderOwnID, AliasesLeadOn
    <2> QED
      BY <2>1, <2>2, <2>3, <2>4, <2>5, <2>6 DEF RegistryInv
  <1>16. ASSUME NEW s \in Session, WatchLeaves(s) PROVE RegistryInv'
    <2>a. /\ watcher' \in [Session -> WatcherState]
          /\ watcher'[s] \in {"gone"} /\ watcher[s] \in {"leaving"}
          /\ \A t \in Session \ {s} : watcher'[t] = watcher[t]
      BY <1>16, MovesType DEF WatchLeaves, WatcherState, InLoop
    <2>b. Partial(entries', ID, Session)
      BY <1>16, WithoutPartial DEF WatchLeaves, TypeOK
    <2>1. TypeOK'
      BY <1>16, <2>a, <2>b DEF WatchLeaves, maps, objects, process, TypeOK
    <2>2. WatchersAreBorn'
      BY <1>16, <2>a
      DEF WatchLeaves, maps, objects, process, WatchersAreBorn, InLoop
    <2>3. RenamedHaveSeen'
      BY <1>16, <2>a DEF WatchLeaves, maps, objects, process, RenamedHaveSeen
    <2>4. CancelledHaveEntered'
      BY <1>16, <2>a
      DEF WatchLeaves, maps, objects, process, CancelledHaveEntered, TypeOK
    <2>5. EntriesAreAlive'
      <3>1. \A id \in DOMAIN entries : entries[id] \in Session
        BY PartialApplication DEF TypeOK
      <3>2. \A id \in DOMAIN (entries') : id \in DOMAIN entries /\ id # born[s]
                                          /\ entries'[id] = entries[id]
        BY <1>16 DEF WatchLeaves, Without
      <3>3. born' = born /\ cancelled' = cancelled
        BY <1>16 DEF WatchLeaves, objects
      <3> QED
        BY <2>a, <3>1, <3>2, <3>3 DEF EntriesAreAlive
    <2>6. /\ BornIsPlaced' /\ FiledAreBorn' /\ CallsAreGrounded' /\ FiledUnderOwnID'
          /\ AliasesLeadOn'
      BY <1>16
      DEF WatchLeaves, maps, objects, process, BornIsPlaced, FiledAreBorn,
          CallsAreGrounded, FiledUnderOwnID, AliasesLeadOn
    <2> QED
      BY <2>1, <2>2, <2>3, <2>4, <2>5, <2>6 DEF RegistryInv
  <1>17. ASSUME NEW id \in ID, StopSession(id) PROVE RegistryInv'
    <2> DEFINE r == Resolve(aliases, id)
    <2>1. StopAll({sessions[r]}) /\ {sessions[r]} \subseteq Filed /\ phase' = phase
      BY <1>17 DEF StopSession, Filed
    <2> QED
      BY <2>1, StopAllKeeps DEF TypeOK
  <1>18. ASSUME NEW S \in SUBSET {s \in Filed : Running(s)}, StopIdle(S) PROVE RegistryInv'
    <2>1. StopAll(S) /\ S \subseteq Filed /\ phase' = phase
      BY <1>18 DEF StopIdle
    <2> QED
      BY <2>1, StopAllKeeps DEF TypeOK
  <1>19. ASSUME NEW c \in Call, NEW id \in ID, StopLooksUp(c, id) PROVE RegistryInv'
    <2> DEFINE at(w) == [pc |-> "unwatch", id |-> Resolve(aliases, id), ws |-> w,
                         who |-> None, mode |-> "print"]
    <2>a. PICK w \in Workspace : call' = [call EXCEPT ![c] = at(w)]
      <3>1. {w \in DOMAIN active : active[w] = Resolve(aliases, id)} \subseteq Workspace
        BY DEF TypeOK, Partial
      <3> QED
        BY <1>19, <3>1 DEF StopLooksUp
    <2>b. Resolve(aliases, id) \in ID
      BY ResolveType DEF TypeOK
    <2>c. at(w) \in CallRecord
      BY <2>b DEF CallRecord, CallState, Mode
    <2>d. /\ call' \in [Call -> CallRecord] /\ call'[c] = at(w)
          /\ \A b \in Call \ {c} : call'[b] = call[b]
      BY <2>a, <2>c, CallType
    <2>1. TypeOK'
      BY <1>19, <2>d DEF StopLooksUp, maps, objects, process, watch, TypeOK
    <2>2. CallsAreGrounded'
      BY <1>19, <2>b, <2>d DEF StopLooksUp, objects, CallsAreGrounded
    <2>3. /\ BornIsPlaced' /\ FiledAreBorn' /\ WatchersAreBorn' /\ RenamedHaveSeen'
          /\ CancelledHaveEntered' /\ FiledUnderOwnID' /\ EntriesAreAlive'
          /\ AliasesLeadOn'
      BY <1>19
      DEF StopLooksUp, maps, objects, process, watch, BornIsPlaced, FiledAreBorn,
          WatchersAreBorn, RenamedHaveSeen, CancelledHaveEntered, FiledUnderOwnID,
          EntriesAreAlive, AliasesLeadOn
    <2> QED
      BY <2>1, <2>2, <2>3 DEF RegistryInv
  <1>20. ASSUME NEW c \in Call, StopUnwatches(c) PROVE RegistryInv'
    <2>a. /\ call' \in [Call -> CallRecord] /\ call'[c].pc = "idle"
          /\ \A b \in Call \ {c} : call'[b] = call[b]
      BY <1>20, CallRecords, CallType DEF StopUnwatches, Ends, Idle
    <2>b. Partial(active', Workspace, ID)
      BY <1>20, OnlyPartial DEF StopUnwatches, TypeOK
    <2>1. TypeOK'
      BY <1>20, <2>a, <2>b DEF StopUnwatches, objects, process, watch, TypeOK
    <2>2. CallsAreGrounded'
      BY <1>20, <2>a DEF StopUnwatches, objects, process, watch, CallsAreGrounded
    <2>3. /\ BornIsPlaced' /\ FiledAreBorn' /\ WatchersAreBorn' /\ RenamedHaveSeen'
          /\ CancelledHaveEntered' /\ FiledUnderOwnID' /\ EntriesAreAlive'
          /\ AliasesLeadOn'
      BY <1>20
      DEF StopUnwatches, objects, process, watch, BornIsPlaced, FiledAreBorn,
          WatchersAreBorn, RenamedHaveSeen, CancelledHaveEntered, FiledUnderOwnID,
          EntriesAreAlive, AliasesLeadOn
    <2> QED
      BY <2>1, <2>2, <2>3 DEF RegistryInv
  <1>21. ASSUME NEW c \in Call, NEW id \in ID, NEW m \in Mode, PromptLooksUp(c, id, m) PROVE RegistryInv'
    <2> DEFINE at(to, w, s) == [pc |-> to, id |-> id, ws |-> w, who |-> s, mode |-> m]
    <2>a. ASSUME Resolve(aliases, id) \in DOMAIN sessions,
                 call' = [call EXCEPT ![c] = at("check", None, sessions[Resolve(aliases, id)])]
          PROVE  TypeOK' /\ CallsAreGrounded'
      <3> DEFINE s == sessions[Resolve(aliases, id)]
      <3>1. s \in Session /\ status[s] # "unborn"
        BY <2>a, PartialApplication DEF TypeOK, FiledAreBorn
      <3>2. at("check", None, s) \in CallRecord
        BY <3>1 DEF CallRecord, CallState
      <3>3. /\ call' \in [Call -> CallRecord] /\ call'[c] = at("check", None, s)
            /\ \A b \in Call \ {c} : call'[b] = call[b]
        BY <2>a, <3>2, CallType
      <3>4. TypeOK'
        BY <1>21, <3>3 DEF PromptLooksUp, maps, objects, process, watch, TypeOK
      <3>5. CallsAreGrounded'
        BY <1>21, <3>1, <3>3 DEF PromptLooksUp, objects, CallsAreGrounded
      <3> QED
        BY <3>4, <3>5
    <2>b. ASSUME \E w \in registered : call' = [call EXCEPT ![c] = at("start", w, None)]
          PROVE  TypeOK' /\ CallsAreGrounded'
      <3>1. PICK w \in Workspace : call' = [call EXCEPT ![c] = at("start", w, None)]
        BY <2>b DEF TypeOK
      <3>2. at("start", w, None) \in CallRecord
        BY DEF CallRecord, CallState
      <3>3. /\ call' \in [Call -> CallRecord] /\ call'[c] = at("start", w, None)
            /\ \A b \in Call \ {c} : call'[b] = call[b]
        BY <3>1, <3>2, CallType
      <3>4. TypeOK'
        BY <1>21, <3>3 DEF PromptLooksUp, maps, objects, process, watch, TypeOK
      <3>5. CallsAreGrounded'
        BY <1>21, <3>3 DEF PromptLooksUp, objects, CallsAreGrounded
      <3> QED
        BY <3>4, <3>5
    <2>c. TypeOK' /\ CallsAreGrounded'
      BY <1>21, <2>a, <2>b DEF PromptLooksUp
    <2>1. TypeOK'
      BY <2>c
    <2>2. CallsAreGrounded'
      BY <2>c
    <2>3. /\ BornIsPlaced' /\ FiledAreBorn' /\ WatchersAreBorn' /\ RenamedHaveSeen'
          /\ CancelledHaveEntered' /\ FiledUnderOwnID' /\ EntriesAreAlive'
          /\ AliasesLeadOn'
      BY <1>21
      DEF PromptLooksUp, maps, objects, process, watch, BornIsPlaced, FiledAreBorn,
          WatchersAreBorn, RenamedHaveSeen, CancelledHaveEntered, FiledUnderOwnID,
          EntriesAreAlive, AliasesLeadOn
    <2> QED
      BY <2>1, <2>2, <2>3 DEF RegistryInv
  <1>22. ASSUME NEW c \in Call, PromptGoesToTerminal(c) PROVE RegistryInv'
    <2>a. /\ call' \in [Call -> CallRecord] /\ call'[c].pc = "idle"
          /\ \A b \in Call \ {c} : call'[b] = call[b]
      BY <1>22, CallRecords, CallType DEF PromptGoesToTerminal, Ends, Idle
    <2>c. call[c].id \in ID /\ call[c].ws \in Workspace
      BY <1>22 DEF PromptGoesToTerminal, CallsAreGrounded
    <2>b. Partial(active', Workspace, ID)
      BY <1>22, <2>c, WithPartial DEF PromptGoesToTerminal, TypeOK
    <2>1. TypeOK'
      BY <1>22, <2>a, <2>b DEF PromptGoesToTerminal, objects, process, watch, TypeOK
    <2>2. CallsAreGrounded'
      BY <1>22, <2>a
      DEF PromptGoesToTerminal, objects, process, watch, CallsAreGrounded
    <2>3. /\ BornIsPlaced' /\ FiledAreBorn' /\ WatchersAreBorn' /\ RenamedHaveSeen'
          /\ CancelledHaveEntered' /\ FiledUnderOwnID' /\ EntriesAreAlive'
          /\ AliasesLeadOn'
      BY <1>22
      DEF PromptGoesToTerminal, objects, process, watch, BornIsPlaced, FiledAreBorn,
          WatchersAreBorn, RenamedHaveSeen, CancelledHaveEntered, FiledUnderOwnID,
          EntriesAreAlive, AliasesLeadOn
    <2> QED
      BY <2>1, <2>2, <2>3 DEF RegistryInv
  <1>23. ASSUME NEW c \in Call, PromptFindsSession(c) PROVE RegistryInv'
    <2> DEFINE s == sessions[call[c].id]
               r == [pc |-> "check", id |-> call[c].id, ws |-> call[c].ws,
                     who |-> s, mode |-> call[c].mode]
    <2>a. call[c].id \in ID /\ call[c].ws \in Workspace
      BY <1>23 DEF PromptFindsSession, CallsAreGrounded
    <2>b. s \in Session /\ status[s] # "unborn"
      BY <1>23, PartialApplication DEF PromptFindsSession, TypeOK, FiledAreBorn
    <2>c. r \in CallRecord
      BY <2>b, CallRecords DEF CallState
    <2>d. /\ call' \in [Call -> CallRecord] /\ call'[c] = r
          /\ \A b \in Call \ {c} : call'[b] = call[b]
      BY <1>23, <2>c, CallType DEF PromptFindsSession, GoesOn
    <2>e. Partial(active', Workspace, ID)
      BY <1>23, <2>a, WithPartial DEF PromptFindsSession, TypeOK
    <2>f. /\ owner' \in [Session -> Workspace \cup {None}]
          /\ owner'[s] = call[c].ws
          /\ \A t \in Session \ {s} : owner'[t] = owner[t]
      BY <1>23, <2>a, <2>b DEF PromptFindsSession, TypeOK
    <2>1. TypeOK'
      BY <1>23, <2>d, <2>e, <2>f DEF PromptFindsSession, process, watch, TypeOK
    <2>2. BornIsPlaced'
      BY <1>23, <2>a, <2>f DEF PromptFindsSession, BornIsPlaced
    <2>3. CallsAreGrounded'
      BY <1>23, <2>a, <2>b, <2>d DEF PromptFindsSession, CallsAreGrounded
    <2>4. /\ FiledAreBorn' /\ WatchersAreBorn' /\ RenamedHaveSeen'
          /\ CancelledHaveEntered' /\ FiledUnderOwnID' /\ EntriesAreAlive'
          /\ AliasesLeadOn'
      BY <1>23
      DEF PromptFindsSession, process, watch, FiledAreBorn, WatchersAreBorn,
          RenamedHaveSeen, CancelledHaveEntered, FiledUnderOwnID, EntriesAreAlive,
          AliasesLeadOn
    <2> QED
      BY <2>1, <2>2, <2>3, <2>4 DEF RegistryInv
  <1>24. ASSUME NEW c \in Call, NEW s \in Session, PromptStartsSession(c, s) PROVE RegistryInv'
    <2>g. call[c].pc = "start" /\ call[c].id \in ID /\ call[c].ws \in Workspace
      BY <1>24 DEF PromptStartsSession, CallsAreGrounded
    <2>h. PICK d \in Dir : Install(s, call[c].id, call[c].ws, d)
      BY <1>24, <2>g, PlaceAssumption DEF PromptStartsSession
    <2>a. Install(s, call[c].id, call[c].ws, d)
      BY <2>h
    <2>b. /\ Partial(sessions', ID, Session) /\ Partial(active', Workspace, ID)
          /\ ident' \in [Session -> ID \cup {None}] /\ born' \in [Session -> ID \cup {None}]
          /\ owner' \in [Session -> Workspace \cup {None}]
          /\ origin' \in [Session -> Workspace \cup {None}]
          /\ dir' \in [Session -> Dir \cup {None}]
          /\ status' \in [Session -> {"unborn", "running", "stopped"}]
      BY <2>a, <2>g, InstallType
    <2>c. /\ status[s] = "unborn" /\ status'[s] # "unborn"
          /\ \A t \in Session \ {s} : status'[t] = status[t] /\ born'[t] = born[t]
      BY <2>a, <2>g, InstallType DEF Install
    <2>d. BornIsPlaced' /\ FiledAreBorn' /\ FiledUnderOwnID' /\ AliasesLeadOn'
      BY <1>24, <2>a, <2>g, InstallKeeps DEF PromptStartsSession
    <2>i. [pc |-> "check", id |-> call[c].id, ws |-> call[c].ws,
           who |-> s, mode |-> call[c].mode] \in CallRecord
      BY CallRecords DEF CallState
    <2>e. /\ call' \in [Call -> CallRecord]
          /\ call'[c] = [pc |-> "check", id |-> call[c].id, ws |-> call[c].ws,
                         who |-> s, mode |-> call[c].mode]
          /\ \A b \in Call \ {c} : call'[b] = call[b]
      BY <1>24, <2>i, CallType DEF PromptStartsSession, GoesOn
    <2>f. watcher[s] = "none"
      BY <2>c DEF WatchersAreBorn
    <2>1. TypeOK'
      BY <1>24, <2>b, <2>e DEF PromptStartsSession, process, watch, TypeOK
    <2>2. BornIsPlaced'
      BY <2>d
    <2>3. FiledAreBorn'
      BY <2>d
    <2>4. WatchersAreBorn'
      BY <1>24, <2>c DEF PromptStartsSession, watch, WatchersAreBorn
    <2>5. CallsAreGrounded'
      BY <2>c, <2>e, <2>g DEF CallsAreGrounded
    <2>6. FiledUnderOwnID'
      BY <2>d
    <2>7. EntriesAreAlive'
      <3>1. entries' = entries /\ cancelled' = cancelled /\ watcher' = watcher
        BY <1>24 DEF PromptStartsSession, watch
      <3>2. \A id \in DOMAIN entries : entries[id] \in Session \ {s}
        BY <2>f, PartialApplication DEF EntriesAreAlive, AtWork, InLoop, TypeOK
      <3> QED
        BY <2>c, <3>1, <3>2 DEF EntriesAreAlive
    <2>8. AliasesLeadOn'
      BY <2>d
    <2>9. RenamedHaveSeen' /\ CancelledHaveEntered'
      BY <1>24
      DEF PromptStartsSession, Install, process, watch, RenamedHaveSeen,
          CancelledHaveEntered
    <2> QED
      BY <2>1, <2>2, <2>3, <2>4, <2>5, <2>6, <2>7, <2>8, <2>9 DEF RegistryInv
  <1>25. ASSUME NEW c \in Call, PromptChecks(c) PROVE RegistryInv'
    <2> DEFINE s == call[c].who
               r == [pc |-> "launch", id |-> call[c].id, ws |-> call[c].ws,
                     who |-> s, mode |-> call[c].mode]
    <2>a. call[c].id \in ID /\ s \in Session /\ status[s] # "unborn"
      BY <1>25 DEF PromptChecks, CallsAreGrounded
    <2>b. Idle \in CallRecord /\ r \in CallRecord
      BY <2>a, CallRecords DEF CallState
    <2>c. /\ call' \in [Call -> CallRecord] /\ call'[c] \in {Idle, r}
          /\ \A b \in Call \ {c} : call'[b] = call[b]
      BY <1>25, <2>b, CallType DEF PromptChecks, GoesOn, Ends
    <2>d. /\ status' \in [Session -> {"unborn", "running", "stopped"}]
          /\ \A t \in Session : status'[t] = "unborn" <=> status[t] = "unborn"
      BY <1>25, <2>a DEF PromptChecks, TypeOK
    <2>1. TypeOK'
      BY <1>25, <2>c, <2>d DEF PromptChecks, maps, process, watch, TypeOK
    <2>2. BornIsPlaced'
      BY <1>25, <2>d DEF PromptChecks, BornIsPlaced
    <2>3. FiledAreBorn'
      <3>1. \A id \in DOMAIN sessions : sessions[id] \in Session
        BY PartialApplication DEF TypeOK
      <3> QED
        BY <1>25, <2>d, <3>1 DEF PromptChecks, maps, FiledAreBorn
    <2>4. WatchersAreBorn'
      BY <1>25, <2>d DEF PromptChecks, watch, WatchersAreBorn
    <2>5. CallsAreGrounded'
      BY <2>a, <2>c, <2>d DEF CallsAreGrounded, Idle
    <2>6. /\ RenamedHaveSeen' /\ CancelledHaveEntered' /\ FiledUnderOwnID'
          /\ EntriesAreAlive' /\ AliasesLeadOn'
      BY <1>25
      DEF PromptChecks, maps, process, watch, RenamedHaveSeen, CancelledHaveEntered,
          FiledUnderOwnID, EntriesAreAlive, AliasesLeadOn
    <2> QED
      BY <2>1, <2>2, <2>3, <2>4, <2>5, <2>6 DEF RegistryInv
  <1>26. ASSUME NEW c \in Call, PromptLaunches(c) PROVE RegistryInv'
    <2> DEFINE s == call[c].who
               r == [pc |-> "follow", id |-> call[c].id, ws |-> call[c].ws,
                     who |-> s, mode |-> call[c].mode]
    <2>a. call[c].id \in ID /\ s \in Session /\ status[s] # "unborn"
      BY <1>26 DEF PromptLaunches, CallsAreGrounded
    <2>b. Idle \in CallRecord /\ r \in CallRecord
      BY <2>a, CallRecords DEF CallState
    <2>c. /\ call' \in [Call -> CallRecord] /\ call'[c] \in {Idle, r}
          /\ \A b \in Call \ {c} : call'[b] = call[b]
      BY <1>26, <2>b, CallType DEF PromptLaunches, GoesOn, Ends
    <2>d. claude' \in [Session -> Mode \cup {"none"}]
      <3>1. call[c].mode \in Mode
        BY DEF TypeOK, CallRecord
      <3> QED
        BY <1>26, <2>a, <3>1 DEF PromptLaunches, TypeOK
    <2>1. TypeOK'
      BY <1>26, <2>c, <2>d DEF PromptLaunches, maps, objects, watch, TypeOK
    <2>2. CallsAreGrounded'
      BY <1>26, <2>a, <2>c DEF PromptLaunches, objects, CallsAreGrounded, Idle
    <2>3. /\ BornIsPlaced' /\ FiledAreBorn' /\ WatchersAreBorn' /\ RenamedHaveSeen'
          /\ CancelledHaveEntered' /\ FiledUnderOwnID' /\ EntriesAreAlive'
          /\ AliasesLeadOn'
      BY <1>26
      DEF PromptLaunches, maps, objects, watch, BornIsPlaced, FiledAreBorn,
          WatchersAreBorn, RenamedHaveSeen, CancelledHaveEntered, FiledUnderOwnID,
          EntriesAreAlive, AliasesLeadOn
    <2> QED
      BY <2>1, <2>2, <2>3 DEF RegistryInv
  <1>27. ASSUME NEW c \in Call, PromptFollows(c) PROVE RegistryInv'
    <2>a. /\ call' \in [Call -> CallRecord] /\ call'[c].pc = "idle"
          /\ \A b \in Call \ {c} : call'[b] = call[b]
      BY <1>27, CallRecords, CallType DEF PromptFollows, Ends, Idle
    <2>c. /\ owner[call[c].who] \in Workspace
          /\ \A id \in {ident[call[c].who], call[c].id} : id \in ID
      BY <1>27 DEF PromptFollows, CallsAreGrounded, BornIsPlaced
    <2>b. Partial(active', Workspace, ID)
      BY <1>27, <2>c, FollowType DEF PromptFollows
    <2>1. TypeOK'
      BY <1>27, <2>a, <2>b DEF PromptFollows, objects, process, watch, TypeOK
    <2>2. CallsAreGrounded'
      BY <1>27, <2>a DEF PromptFollows, objects, process, watch, CallsAreGrounded
    <2>3. /\ BornIsPlaced' /\ FiledAreBorn' /\ WatchersAreBorn' /\ RenamedHaveSeen'
          /\ CancelledHaveEntered' /\ FiledUnderOwnID' /\ EntriesAreAlive'
          /\ AliasesLeadOn'
      BY <1>27
      DEF PromptFollows, objects, process, watch, BornIsPlaced, FiledAreBorn,
          WatchersAreBorn, RenamedHaveSeen, CancelledHaveEntered, FiledUnderOwnID,
          EntriesAreAlive, AliasesLeadOn
    <2> QED
      BY <2>1, <2>2, <2>3 DEF RegistryInv
  <1>28. ASSUME NEW c \in Call, PromptFails(c) PROVE RegistryInv'
    <2>a. /\ call' \in [Call -> CallRecord] /\ call'[c].pc = "idle"
          /\ \A b \in Call \ {c} : call'[b] = call[b]
      BY <1>28, CallRecords, CallType DEF PromptFails, Ends, Idle
    <2>1. TypeOK'
      BY <1>28, <2>a DEF PromptFails, maps, objects, process, watch, TypeOK
    <2>2. CallsAreGrounded'
      BY <1>28, <2>a
      DEF PromptFails, maps, objects, process, watch, CallsAreGrounded
    <2>3. /\ BornIsPlaced' /\ FiledAreBorn' /\ WatchersAreBorn' /\ RenamedHaveSeen'
          /\ CancelledHaveEntered' /\ FiledUnderOwnID' /\ EntriesAreAlive'
          /\ AliasesLeadOn'
      BY <1>28
      DEF PromptFails, maps, objects, process, watch, BornIsPlaced, FiledAreBorn,
          WatchersAreBorn, RenamedHaveSeen, CancelledHaveEntered, FiledUnderOwnID,
          EntriesAreAlive, AliasesLeadOn
    <2> QED
      BY <2>1, <2>2, <2>3 DEF RegistryInv
  <1>29. ASSUME NEW w \in Workspace, NEW id \in ID, ClientFollows(w, id) PROVE RegistryInv'
    <2>1. TypeOK'
      <3>1. Partial(active', Workspace, ID)
        BY <1>29, FollowType DEF ClientFollows
      <3> QED
        BY <1>29, <3>1 DEF ClientFollows, objects, process, watch, TypeOK
    <2>2. /\ BornIsPlaced' /\ FiledAreBorn' /\ WatchersAreBorn' /\ RenamedHaveSeen'
          /\ CancelledHaveEntered' /\ CallsAreGrounded' /\ FiledUnderOwnID'
          /\ EntriesAreAlive' /\ AliasesLeadOn'
      BY <1>29
      DEF ClientFollows, objects, process, watch, BornIsPlaced, FiledAreBorn,
          WatchersAreBorn, RenamedHaveSeen, CancelledHaveEntered, CallsAreGrounded,
          FiledUnderOwnID, EntriesAreAlive, AliasesLeadOn
    <2> QED
      BY <2>1, <2>2 DEF RegistryInv
  <1>30. ASSUME ShutdownBegins PROVE RegistryInv'
    <2>a. cancelled' = cancelled \cup {entries[id] : id \in DOMAIN entries}
      BY <1>30 DEF ShutdownBegins
    <2>b. \A id \in DOMAIN entries :
             entries[id] \in Session /\ watcher[entries[id]] \notin {"none", "called"}
      BY PartialApplication DEF EntriesAreAlive, AtWork, InLoop, TypeOK
    <2>1. TypeOK'
      BY <1>30, <2>a, <2>b, EmptyPartial
      DEF ShutdownBegins, maps, objects, process, TypeOK
    <2>2. CancelledHaveEntered'
      BY <1>30, <2>a, <2>b DEF ShutdownBegins, CancelledHaveEntered
    <2>3. EntriesAreAlive'
      BY <1>30 DEF ShutdownBegins, EmptyFunction, EntriesAreAlive
    <2>4. /\ BornIsPlaced' /\ FiledAreBorn' /\ WatchersAreBorn' /\ RenamedHaveSeen'
          /\ CallsAreGrounded' /\ FiledUnderOwnID' /\ AliasesLeadOn'
      BY <1>30
      DEF ShutdownBegins, maps, objects, process, BornIsPlaced, FiledAreBorn,
          WatchersAreBorn, RenamedHaveSeen, CallsAreGrounded, FiledUnderOwnID,
          AliasesLeadOn
    <2> QED
      BY <2>1, <2>2, <2>3, <2>4 DEF RegistryInv
  <1>31. ASSUME ShutdownStopsSessions PROVE RegistryInv'
    <2> DEFINE S == {s \in Filed : Running(s)}
    <2>1. StopAll(S) /\ S \subseteq Filed /\ phase' = "down"
      BY <1>31 DEF ShutdownStopsSessions
    <2> QED
      BY <2>1, StopAllKeeps
  <1>32. ASSUME ShutdownGivesUp PROVE RegistryInv'
    <2>1. TypeOK'
      BY <1>32 DEF ShutdownGivesUp, maps, objects, process, watch, TypeOK
    <2>2. /\ BornIsPlaced' /\ FiledAreBorn' /\ WatchersAreBorn' /\ RenamedHaveSeen'
          /\ CancelledHaveEntered' /\ CallsAreGrounded' /\ FiledUnderOwnID'
          /\ EntriesAreAlive' /\ AliasesLeadOn'
      BY <1>32
      DEF ShutdownGivesUp, maps, objects, process, watch, BornIsPlaced, FiledAreBorn,
          WatchersAreBorn, RenamedHaveSeen, CancelledHaveEntered, CallsAreGrounded,
          FiledUnderOwnID, EntriesAreAlive, AliasesLeadOn
    <2> QED
      BY <2>1, <2>2 DEF RegistryInv
  <1>33. CASE UNCHANGED vars
    BY <1>33
    DEF vars, maps, objects, process, watch, RegistryInv, TypeOK, BornIsPlaced,
        FiledAreBorn, WatchersAreBorn, RenamedHaveSeen, CancelledHaveEntered,
        CallsAreGrounded, FiledUnderOwnID, EntriesAreAlive, AliasesLeadOn
  <1> QED
    BY <1>1, <1>2, <1>3, <1>4, <1>5, <1>6, <1>7, <1>8, <1>9, <1>10, <1>11, <1>12,
       <1>13, <1>14, <1>15, <1>16, <1>17, <1>18, <1>19, <1>20, <1>21, <1>22, <1>23,
       <1>24, <1>25, <1>26, <1>27, <1>28, <1>29, <1>30, <1>31, <1>32, <1>33
    DEF Next, ClientStep, PromptStep, ClaudeStep, DaemonStep, WatcherStep

\* The initial states satisfy the invariant.
LEMMA InitInv == Init => RegistryInv
  <1> SUFFICES ASSUME Init PROVE RegistryInv
    OBVIOUS
  <1>1. Idle \in CallRecord
    BY DEF Idle, CallRecord, CallState, Mode
  <1>2. TypeOK
    BY <1>1, EmptyPartial DEF Init, TypeOK, WatcherState, Mode
  <1>3. BornIsPlaced /\ WatchersAreBorn /\ RenamedHaveSeen /\ CancelledHaveEntered
    BY
    DEF Init, BornIsPlaced, WatchersAreBorn, RenamedHaveSeen, CancelledHaveEntered
  <1>4. FiledAreBorn /\ FiledUnderOwnID /\ EntriesAreAlive /\ AliasesLeadOn
    BY
    DEF Init, EmptyFunction, FiledAreBorn, FiledUnderOwnID, EntriesAreAlive,
        AliasesLeadOn
  <1>5. CallsAreGrounded
    BY DEF Init, CallsAreGrounded, Idle
  <1> QED
    BY <1>2, <1>3, <1>4, <1>5 DEF RegistryInv

\* However the daemon's goroutines, its clients and Claude interleave, the
\* registry keeps the invariant.
THEOREM Invariance == Spec => []RegistryInv
  BY InitInv, NextInv, PTL DEF Spec

\* Every variable keeps its type.
THEOREM TypeCorrect == Spec => []TypeOK
  <1>1. RegistryInv => TypeOK
    BY DEF RegistryInv
  <1> QED
    BY <1>1, Invariance, PTL

\* A session is filed under the ID it carries and under no other.
THEOREM AlwaysFiledUnderOwnID == Spec => []FiledUnderOwnID
  <1>1. RegistryInv => FiledUnderOwnID
    BY DEF RegistryInv
  <1> QED
    BY <1>1, Invariance, PTL

\* An entry of sessionFileWatchers belongs to a watcher that is at work.
THEOREM EntriesAlwaysAlive == Spec => []EntriesAreAlive
  <1>1. RegistryInv => EntriesAreAlive
    BY DEF RegistryInv
  <1> QED
    BY <1>1, Invariance, PTL

\* No alias points at an ID that nobody answers to.
THEOREM AliasesAlwaysLeadOn == Spec => []AliasesLeadOn
  <1>1. RegistryInv => AliasesLeadOn
    BY DEF RegistryInv
  <1> QED
    BY <1>1, Invariance, PTL

-----------------------------------------------------------------------------
(* The names sessions had and have: a second invariant, on top of the first *)

Born(s) == status[s] # "unborn"

\* Without circles so far there are none now.
CirclesAreNoticed == ~tangled => Acyclic(aliases)

\* Who is an alias for himself is filed.
LoopsAreFiled == \A x \in DOMAIN aliases : aliases[x] = x => x \in DOMAIN sessions

\* The ID a session was made with is an alias or in use.
BornAreNamed == \A s \in Session : Born(s) => born[s] \in DOMAIN aliases \cup DOMAIN sessions

\* A watcher announces when it has renamed, and then goes.
ToldAreLeaving == \A s \in told : watcher[s] \in {"leaving", "gone"}

\* The old ID and the new one lead to the same session once updateSessionID
\* has seen them.
RenamedAreJoined ==
    ~tangled => \A s \in Session :
        watcher[s] = "renamed" \/ s \in told
            => Resolve(aliases, born[s]) = Resolve(aliases, saw[s])

\* No transcript is in two directories.
FilesAreApart == \A d, e \in Dir : d # e => files[d] \cap files[e] = {}

\* An ID a session was made with is a transcript of its directory, or the
\* one uuid.New() made for it, or for an earlier session.
BornAreAccountedFor ==
    \A s \in Session : Born(s) =>
        /\ born[s] \in Transcript => born[s] \in files[dir[s]]
        /\ born[s] \in Session => Born(born[s]) /\ born[born[s]] = born[s]

\* A session that has not been made has no directory.
UnbornAreNowhere == \A s \in Session : ~Born(s) => dir[s] = None

\* What a watcher has seen is another transcript of its session's directory.
SeenAreThere ==
    \A s \in Session : saw[s] # None =>
        Born(s) /\ saw[s] \in files[dir[s]] /\ saw[s] # born[s]

\* startSessionWithID is called for an ID a client was given.
StartsAreKnown == \A c \in Call : call[c].pc = "start" => call[c].id \in Known

\* The ID x was made for a session, or is a transcript some session could see.
HasPlace(x) ==
    /\ x \in Session => Born(x) /\ born[x] = x
    /\ x \in Transcript => \E s \in Session : Born(s) /\ x \in files[dir[s]]

NamesHavePlaces == \A x \in DOMAIN sessions \cup DOMAIN aliases : HasPlace(x)

\* The IDs that are the affair of session s alone.
Territory(s) == {born[s]} \cup files[dir[s]]

\* A session without a neighbour, as WorktreesAreSeparate has it.
Separate(s) == Born(s) /\ Alone(s) /\ born[s] \in {s} \cup Transcript

\* The places of a watcher that has not renamed its session.
Before == WatcherState \ {"renamed", "leaving", "gone"}

\* Within its territory only the session itself is filed, and the only alias
\* is the ID it was made with; nothing leads there from outside.
HoldsItsOwn(s) ==
    /\ DOMAIN sessions \cap Territory(s) = {ident[s]} /\ sessions[ident[s]] = s
    /\ DOMAIN aliases \cap Territory(s) = {born[s]} \ {ident[s]}
    /\ born[s] # ident[s] => aliases[born[s]] = ident[s]
    /\ \A x \in DOMAIN aliases \ Territory(s) : aliases[x] \notin Territory(s)
    /\ watcher[s] \in Before => ident[s] = born[s]
    /\ \A t \in Session \ {s} : Born(t) => born[t] # born[s]
    /\ \A c \in Call : call[c].pc = "start" /\ call[c].id = born[s] => born[s] \in Transcript

SeparateHoldTheirOwn == \A s \in Session : Separate(s) => HoldsItsOwn(s)

NamesInv ==
    /\ CirclesAreNoticed /\ LoopsAreFiled /\ BornAreNamed
    /\ ToldAreLeaving /\ RenamedAreJoined
    /\ FilesAreApart /\ BornAreAccountedFor /\ UnbornAreNowhere /\ SeenAreThere
    /\ StartsAreKnown /\ NamesHavePlaces /\ SeparateHoldTheirOwn

\* What updateSessionID does to the maps, whichever way it goes: nothing, when
\* the old ID leads to no session; or temp is an alias for real, with whatever
\* led to old, and the session that was filed as old may be filed as real.
Updates(temp, old, real) ==
    \/ /\ UNCHANGED <<sessions, aliases, ident>>
       /\ old \notin DOMAIN sessions /\ old # real
    \/ /\ temp \in DOMAIN (aliases') /\ aliases'[temp] = real
       /\ DOMAIN aliases \subseteq DOMAIN (aliases')
       /\ DOMAIN (aliases') \subseteq DOMAIN aliases \cup {temp, old}
       /\ \A x \in DOMAIN (aliases') :
             \/ /\ aliases'[x] = real
                /\ \/ x = temp
                   \/ x = old /\ old # real
                   \/ x \in DOMAIN aliases /\ aliases[x] = old
             \/ /\ x \in DOMAIN aliases /\ x # temp /\ (x # old \/ old = real)
                /\ aliases'[x] = aliases[x]
       /\ \/ /\ sessions' = sessions /\ ident' = ident
             /\ old = real \/ real \in DOMAIN sessions
          \/ /\ old # real /\ real \notin DOMAIN sessions /\ old \in DOMAIN sessions
             /\ old \in DOMAIN (aliases')
             /\ DOMAIN (sessions') = (DOMAIN sessions \ {temp, old}) \cup {real}
             /\ sessions'[real] = sessions[old]
             /\ \A x \in DOMAIN (sessions') \ {real} : sessions'[x] = sessions[x]
             /\ ident' = [ident EXCEPT ![sessions[old]] = real]

\* updateSessionID does that.
LEMMA UpdateShape ==
    ASSUME TypeOK, NEW w, NEW temp, NEW real, NEW old, old = Resolve(aliases, temp),
           UpdateSessionID(w, temp, real)
    PROVE  Updates(temp, old, real)
  <1>1. CASE old = real /\ aliases' = With(aliases, temp, real)
             /\ UNCHANGED <<sessions, active, ident>>
    <2>1. /\ DOMAIN (aliases') = DOMAIN aliases \cup {temp}
          /\ \A x \in DOMAIN (aliases') :
                aliases'[x] = IF x = temp THEN real ELSE aliases[x]
      BY <1>1 DEF With
    <2> QED
      BY <1>1, <2>1 DEF Updates
  <1>2. CASE old # real /\ real \in DOMAIN sessions
             /\ aliases' = Redirected(aliases, temp, old, real)
             /\ UNCHANGED <<sessions, active, ident>>
    <2>1. /\ DOMAIN Redirected(aliases, temp, old, real) = DOMAIN aliases \cup {temp, old}
          /\ \A x \in DOMAIN aliases \cup {temp, old} :
                Redirected(aliases, temp, old, real)[x]
                  = IF x \in {temp, old} THEN real ELSE aliases[x]
      BY DEF Redirected, With
    <2>2. /\ DOMAIN (aliases') = DOMAIN aliases \cup {temp, old}
          /\ \A x \in DOMAIN (aliases') :
                aliases'[x] = IF x \in {temp, old} THEN real ELSE aliases[x]
      BY <1>2, <2>1
    <2> QED
      BY <1>2, <2>2 DEF Updates
  <1>3. CASE old # real /\ real \notin DOMAIN sessions /\ old \in DOMAIN sessions
             /\ Rename(w, temp, old, real)
    <2> DEFINE b == Redirected(aliases, temp, old, real)
               c == Renamed(aliases, temp, old, real)
    <2>1. /\ DOMAIN b = DOMAIN aliases \cup {temp, old}
          /\ \A x \in DOMAIN b : b[x] = IF x \in {temp, old} THEN real ELSE aliases[x]
      BY DEF Redirected, With
    <2>2. DOMAIN c = DOMAIN b /\ \A x \in DOMAIN b : c[x] = IF b[x] = old THEN real ELSE b[x]
      BY DEF Renamed
    <2>3. aliases' = c
      BY <1>3 DEF Rename
    <2> HIDE DEF b, c
    <2>4. /\ DOMAIN (aliases') = DOMAIN aliases \cup {temp, old}
          /\ \A x \in DOMAIN (aliases') :
                aliases'[x] = IF x \in {temp, old} \/ aliases[x] = old THEN real ELSE aliases[x]
      BY <2>1, <2>2, <2>3
    <2>5. /\ DOMAIN (sessions') = (DOMAIN sessions \ {temp, old}) \cup {real}
          /\ sessions'[real] = sessions[old]
          /\ \A x \in DOMAIN (sessions') \ {real} : sessions'[x] = sessions[x]
      BY <1>3 DEF Rename, With, Without
    <2>6. ident' = [ident EXCEPT ![sessions[old]] = real]
      BY <1>3 DEF Rename
    <2> QED
      BY <1>3, <2>4, <2>5, <2>6 DEF Updates
  <1>4. CASE old # real /\ old \notin DOMAIN sessions /\ UNCHANGED <<maps, ident>>
    BY <1>4 DEF maps, Updates
  <1>5. \/ old = real /\ aliases' = With(aliases, temp, real)
           /\ UNCHANGED <<sessions, active, ident>>
        \/ old # real /\ real \in DOMAIN sessions
           /\ aliases' = Redirected(aliases, temp, old, real)
           /\ UNCHANGED <<sessions, active, ident>>
        \/ old # real /\ real \notin DOMAIN sessions /\ old \in DOMAIN sessions
           /\ Rename(w, temp, old, real)
        \/ old # real /\ old \notin DOMAIN sessions /\ UNCHANGED <<maps, ident>>
    BY DEF UpdateSessionID
  <1> QED
    BY <1>1, <1>2, <1>3, <1>4, <1>5

\* Without circles, before and after, an ID that is used leads on as before or
\* with the real ID.
LEMMA UpdateRewrites ==
    ASSUME RegistryInv, LoopsAreFiled, Acyclic(aliases),
           NEW w, NEW temp \in DOMAIN aliases \cup DOMAIN sessions, NEW real,
           UpdateSessionID(w, temp, real)
    PROVE  /\ Rewritten(aliases, aliases', Resolve(aliases, temp), real)
           /\ temp \in DOMAIN (aliases') /\ aliases'[temp] = real
  <1> DEFINE old == Resolve(aliases, temp)
  <1>1. old \in DOMAIN sessions
    BY EndsAreFiled DEF RegistryInv, AliasesLeadOn, LoopsAreFiled
  <1>2. temp \in DOMAIN (aliases') /\ aliases'[temp] = real
    BY <1>1, UpdateShape DEF RegistryInv, Updates
  <1>3. CASE old = real /\ aliases' = With(aliases, temp, real)
    BY <1>2, <1>3, WithRewrites
  <1>4. CASE aliases' = Redirected(aliases, temp, old, real)
    BY <1>2, <1>4, RedirectedRewrites
  <1>5. CASE aliases' = Renamed(aliases, temp, old, real)
    BY <1>2, <1>5, RenamedRewrites
  <1> QED
    BY <1>1, <1>3, <1>4, <1>5 DEF UpdateSessionID, Rename

\* A session that holds its own is found under both of its IDs.
LEMMA HoldsItsOwnIsFound ==
    ASSUME NEW s \in Session, HoldsItsOwn(s)
    PROVE  FindsIt(born[s], s) /\ FindsIt(ident[s], s)
  <1>1. ident[s] \in DOMAIN sessions /\ sessions[ident[s]] = s /\ ident[s] \notin DOMAIN aliases
    BY DEF HoldsItsOwn
  <1>2. Resolve(aliases, ident[s]) = ident[s]
    BY <1>1, ResolvesAtOnce
  <1>3. Resolve(aliases, born[s]) = ident[s]
    <2>1. CASE born[s] = ident[s]
      BY <1>2, <2>1
    <2>2. CASE born[s] # ident[s]
      <3>1. born[s] \in DOMAIN aliases /\ aliases[born[s]] = ident[s]
        BY <2>2 DEF HoldsItsOwn, Territory
      <3> QED
        BY <1>1, <3>1, ResolvesAtOnce
    <2> QED
      BY <2>1, <2>2
  <1> QED
    BY <1>1, <1>2, <1>3 DEF FindsIt

-----------------------------------------------------------------------------
(* Steps that name nothing anew *)

\* Names, transcripts and what watchers have seen stay; a call that comes to
\* start a session has not found the one its ID leads to.
NamesNothing ==
    /\ UNCHANGED <<sessions, aliases, ident, born, dir, saw, files, tangled>>
    /\ \A s \in Session : status'[s] # "unborn" <=> Born(s)
    /\ \A s \in Session :
          /\ watcher'[s] \in Before => watcher[s] \in Before
          /\ watcher'[s] = "renamed" => watcher[s] = "renamed"
          /\ s \in told' => /\ watcher'[s] \in {"leaving", "gone"}
                            /\ s \in told \/ watcher[s] = "renamed"
    /\ \A c \in Call : call'[c].pc = "start" =>
          \/ call[c].pc = "start" /\ call'[c].id = call[c].id
          \/ call'[c].id \in Known /\ Resolve(aliases, call'[c].id) \notin DOMAIN sessions

\* The IDs clients know stay known.
LEMMA KnownStay ==
    ASSUME TypeOK,
           \A s \in Session : Born(s) => status'[s] # "unborn" /\ born'[s] = born[s],
           \A d \in Dir : files[d] \subseteq files'[d]
    PROVE  Known \subseteq Known'
  <1>1. Existing \subseteq Existing'
    BY DEF Existing
  <1>2. {born[s] : s \in {t \in Session : status[t] # "unborn"}}
           \subseteq {born'[s] : s \in {t \in Session : status'[t] # "unborn"}}
    BY DEF Born
  <1> QED
    BY <1>1, <1>2 DEF Known

\* Such a step keeps the invariant.
LEMMA NamesNothingKeeps ==
    ASSUME RegistryInv, NamesInv, NamesNothing, told' \subseteq Session
    PROVE  NamesInv'
  <1>1. CirclesAreNoticed' /\ LoopsAreFiled' /\ FilesAreApart'
    BY DEF NamesInv, NamesNothing, CirclesAreNoticed, LoopsAreFiled, FilesAreApart, Acyclic
  <1>2. BornAreNamed' /\ BornAreAccountedFor' /\ UnbornAreNowhere'
    BY DEF NamesInv, NamesNothing, BornAreNamed, BornAreAccountedFor, UnbornAreNowhere, Born
  <1>3. ToldAreLeaving'
    BY DEF NamesNothing, ToldAreLeaving
  <1>4. RenamedAreJoined'
    <2>1. ASSUME ~tangled', NEW s \in Session, watcher'[s] = "renamed" \/ s \in told'
          PROVE  Resolve(aliases, born[s]) = Resolve(aliases, saw[s])
      BY <2>1 DEF NamesInv, NamesNothing, RenamedAreJoined
    <2> QED
      BY <2>1 DEF NamesNothing, RenamedAreJoined
  <1>5. SeenAreThere'
    BY DEF NamesInv, NamesNothing, SeenAreThere, Born
  <1>6. StartsAreKnown'
    <2>1. Known \subseteq Known'
      BY KnownStay DEF RegistryInv, NamesNothing
    <2> QED
      BY <2>1 DEF NamesInv, NamesNothing, StartsAreKnown
  <1>7. NamesHavePlaces'
    <2>1. \A x : HasPlace(x) => HasPlace(x)'
      BY DEF NamesNothing, HasPlace, Born
    <2> QED
      BY <2>1 DEF NamesInv, NamesNothing, NamesHavePlaces
  <1>8. SeparateHoldTheirOwn'
    <2>1. ASSUME NEW s \in Session, Separate(s)' PROVE HoldsItsOwn(s)'
      <3>1. Separate(s)
        BY <2>1 DEF NamesNothing, Separate, Alone, Born
      <3>2. HoldsItsOwn(s)
        BY <3>1 DEF NamesInv, SeparateHoldTheirOwn
      <3>3. Resolve(aliases, born[s]) \in DOMAIN sessions
        BY <3>2, HoldsItsOwnIsFound DEF FindsIt
      <3>4. \A c \in Call :
               call'[c].pc = "start" /\ call'[c].id = born[s] => born[s] \in Transcript
        BY <3>2, <3>3 DEF NamesNothing, HoldsItsOwn
      <3> QED
        BY <3>2, <3>4 DEF NamesNothing, HoldsItsOwn, Territory, Born
    <2> QED
      BY <2>1 DEF SeparateHoldTheirOwn
  <1> QED
    BY <1>1, <1>2, <1>3, <1>4, <1>5, <1>6, <1>7, <1>8 DEF NamesInv

-----------------------------------------------------------------------------
(* A session is made *)

\* A new session, named after a transcript of its directory or anew, or after
\* another session that once had the ID, keeps the invariant.
LEMMA InstallNames ==
    ASSUME RegistryInv, NamesInv,
           NEW s \in Session, NEW id \in ID, NEW w \in Workspace, NEW d \in Dir,
           Install(s, id, w, d), UNCHANGED <<aliases, saw, files, told, tangled>>,
           id \in Transcript => id \in files[d],
           id \in Session \ {s} =>
              id \in Known /\ \E c \in Call : call[c].pc = "start" /\ call[c].id = id,
           \A t \in Session \ {s} : watcher'[t] = watcher[t],
           watcher'[s] \in {watcher[s], "called"},
           \A c \in Call : call'[c].pc = "start" =>
              call[c].pc = "start" /\ call'[c].id = call[c].id
    PROVE  NamesInv'
  <1>0. /\ TypeOK /\ BornIsPlaced /\ FiledAreBorn /\ WatchersAreBorn
        /\ Partial(sessions, ID, Session) /\ Partial(aliases, ID, ID)
    BY DEF RegistryInv, TypeOK
  <1>1. /\ status[s] = "unborn" /\ watcher[s] = "none" /\ s \notin told /\ saw[s] = None
    <2>1. status[s] = "unborn"
      BY DEF Install
    <2>2. watcher[s] = "none"
      BY <1>0, <2>1 DEF WatchersAreBorn
    <2> QED
      BY <2>1, <2>2 DEF NamesInv, ToldAreLeaving, SeenAreThere, Born
  <1>2. /\ status'[s] # "unborn" /\ ident'[s] = id /\ born'[s] = id /\ dir'[s] = d
        /\ \A t \in Session \ {s} :
              /\ status'[t] = status[t] /\ ident'[t] = ident[t] /\ born'[t] = born[t]
              /\ dir'[t] = dir[t]
    BY <1>0, InstallType
  <1>3. /\ DOMAIN (sessions') = DOMAIN sessions \cup {id}
        /\ \A x \in DOMAIN (sessions') : sessions'[x] = IF x = id THEN s ELSE sessions[x]
    BY DEF Install, With
  <1>4. \A t \in Session : Born(t) => t # s
    BY <1>1 DEF Born
  <1>5. id \in Session \ {s} => Born(id) /\ born[id] = id
    <2>1. ASSUME id \in Session \ {s} PROVE Born(id) /\ born[id] = id
      <3>1. id \notin Existing
        BY <1>0, <2>1, DisjointIDs DEF Existing, TypeOK
      <3>2. PICK t \in Session : Born(t) /\ born[t] = id
        BY <2>1, <3>1 DEF Known, Born
      <3> QED
        BY <2>1, <3>2 DEF NamesInv, BornAreAccountedFor
    <2> QED
      BY <2>1
  <1>6. CirclesAreNoticed' /\ LoopsAreFiled' /\ FilesAreApart'
    BY <1>3 DEF NamesInv, CirclesAreNoticed, LoopsAreFiled, FilesAreApart, Acyclic
  <1>7. BornAreNamed'
    BY <1>2, <1>3 DEF NamesInv, BornAreNamed, Born
  <1>8. ToldAreLeaving' /\ RenamedAreJoined' /\ SeenAreThere'
    <2>1. ToldAreLeaving'
      BY <1>0, <1>1 DEF NamesInv, ToldAreLeaving, TypeOK
    <2>2. RenamedAreJoined'
      BY <1>1, <1>2 DEF NamesInv, RenamedAreJoined
    <2>3. SeenAreThere'
      BY <1>1, <1>2 DEF NamesInv, SeenAreThere, Born
    <2> QED
      BY <2>1, <2>2, <2>3
  <1>9. BornAreAccountedFor'
    <2>1. ASSUME NEW t \in Session, status'[t] # "unborn"
          PROVE  /\ born'[t] \in Transcript => born'[t] \in files[dir'[t]]
                 /\ born'[t] \in Session =>
                       status'[born'[t]] # "unborn" /\ born'[born'[t]] = born'[t]
      <3>1. CASE t = s
        BY <1>2, <1>4, <1>5, <3>1 DEF Born
      <3>2. CASE t # s
        <4>1. Born(t) /\ born'[t] = born[t] /\ dir'[t] = dir[t]
          BY <1>2, <2>1, <3>2 DEF Born
        <4>2. born[t] \in Session => Born(born[t]) /\ born[born[t]] = born[t]
          BY <4>1 DEF NamesInv, BornAreAccountedFor
        <4> QED
          BY <1>2, <1>4, <4>1, <4>2 DEF NamesInv, BornAreAccountedFor, Born
      <3> QED
        BY <3>1, <3>2
    <2> QED
      BY <2>1 DEF BornAreAccountedFor, Born
  <1>u. UnbornAreNowhere'
    BY <1>2 DEF NamesInv, UnbornAreNowhere, Born
  <1>10. StartsAreKnown'
    <2>1. Known \subseteq Known'
      <3>1. \A t \in Session : Born(t) => status'[t] # "unborn" /\ born'[t] = born[t]
        BY <1>2, <1>4 DEF Born
      <3>2. \A e \in Dir : files[e] \subseteq files'[e]
        OBVIOUS
      <3> QED
        BY <1>0, <3>1, <3>2, KnownStay
    <2> QED
      BY <2>1 DEF NamesInv, StartsAreKnown
  <1>11. NamesHavePlaces'
    <2>1. ASSUME NEW x, HasPlace(x) PROVE HasPlace(x)'
      <3>1. x \in Session => status'[x] # "unborn" /\ born'[x] = x
        BY <1>2, <1>4, <2>1 DEF HasPlace, Born
      <3>2. ASSUME x \in Transcript
            PROVE  \E t \in Session : status'[t] # "unborn" /\ x \in files[dir'[t]]
        <4>1. PICK t \in Session : Born(t) /\ x \in files[dir[t]]
          BY <2>1, <3>2 DEF HasPlace
        <4>2. status'[t] # "unborn" /\ dir'[t] = dir[t]
          BY <1>2, <1>4, <4>1 DEF Born
        <4> QED
          BY <4>1, <4>2
      <3> QED
        BY <3>1, <3>2 DEF HasPlace, Born
    <2>2. HasPlace(id)'
      <3>1. id \in Session => status'[id] # "unborn" /\ born'[id] = id
        BY <1>2, <1>5 DEF Born
      <3>2. id \in Transcript => \E t \in Session : status'[t] # "unborn" /\ id \in files[dir'[t]]
        BY <1>2
      <3> QED
        BY <3>1, <3>2 DEF HasPlace, Born
    <2> QED
      BY <1>3, <2>1, <2>2 DEF NamesInv, NamesHavePlaces
  <1>12. SeparateHoldTheirOwn'
    <2>1. ASSUME NEW t \in Session, Separate(t)' PROVE HoldsItsOwn(t)'
      <3>1. \A u \in Session \ {t} : dir'[u] # dir'[t]
        BY <2>1 DEF Separate, Alone
      <3>2. CASE t = s
        <4> DEFINE T == {id} \cup files[d]
        <4>1. id \in {s} \cup files[d]
          BY <1>2, <2>1, <3>2 DEF Separate
        <4>2. \A u \in Session : Born(u) => dir[u] # d /\ dir[u] \in Dir
          BY <1>0, <1>2, <1>4, <3>1, <3>2 DEF BornIsPlaced, Born
        <4>3. \A x \in T : x = s \/ x \in files[d]
          BY <4>1
        <4>4. \A x \in T : ~HasPlace(x)
          <5>1. ASSUME NEW x \in T, HasPlace(x) PROVE FALSE
            <6>1. x # s
              BY <1>4, <5>1 DEF HasPlace
            <6>2. x \in files[d] /\ x \in Transcript
              BY <1>0, <4>3, <6>1 DEF TypeOK
            <6>3. PICK u \in Session : Born(u) /\ x \in files[dir[u]]
              BY <5>1, <6>2 DEF HasPlace
            <6> QED
              BY <4>2, <6>2, <6>3 DEF NamesInv, FilesAreApart
          <5> QED
            BY <5>1
        <4>5. (DOMAIN sessions \cup DOMAIN aliases) \cap T = {}
          BY <4>4 DEF NamesInv, NamesHavePlaces
        <4>6. \A x \in DOMAIN aliases : aliases[x] \notin T
          BY <4>5 DEF RegistryInv, AliasesLeadOn
        <4>7. \A c \in Call : call'[c].pc = "start" /\ call'[c].id = id => id \in Transcript
          <5>1. ASSUME id = s, NEW c \in Call, call'[c].pc = "start", call'[c].id = s
                PROVE  FALSE
            <6>1. s \in Known
              BY <5>1 DEF NamesInv, StartsAreKnown
            <6>2. s \notin Existing
              BY <1>0, DisjointIDs DEF Existing, TypeOK
            <6>3. PICK u \in Session : Born(u) /\ born[u] = s
              BY <6>1, <6>2 DEF Known, Born
            <6> QED
              BY <1>4, <6>3 DEF NamesInv, BornAreAccountedFor
          <5> QED
            BY <1>0, <4>1, <5>1 DEF TypeOK
        <4>8. Territory(t)' = T
          BY <1>2, <3>2 DEF Territory
        <4>10. \A u \in Session \ {s} : status'[u] # "unborn" => born'[u] # id
          <5>1. ASSUME NEW u \in Session \ {s}, status'[u] # "unborn", born'[u] = id
                PROVE  FALSE
            <6>1. Born(u) /\ born[u] = id /\ dir[u] \in Dir /\ dir[u] # d
              BY <1>2, <4>2, <5>1 DEF Born
            <6>2. id # s
              BY <1>4, <6>1 DEF NamesInv, BornAreAccountedFor
            <6>3. id \in files[d] /\ id \in Transcript
              BY <1>0, <4>1, <6>2 DEF TypeOK
            <6> QED
              BY <6>1, <6>3 DEF NamesInv, BornAreAccountedFor, FilesAreApart
          <5> QED
            BY <5>1
        <4> HIDE DEF T
        <4>9. id \in T
          BY DEF T
        <4> QED
          BY <1>2, <1>3, <3>2, <4>5, <4>6, <4>7, <4>8, <4>9, <4>10 DEF HoldsItsOwn, Born
      <3>3. CASE t # s
        <4> DEFINE T == Territory(t)
        <4>1. /\ status[t] # "unborn" /\ born'[t] = born[t] /\ ident'[t] = ident[t]
              /\ dir'[t] = dir[t] /\ watcher'[t] = watcher[t] /\ Territory(t)' = T
          BY <1>2, <2>1, <3>3 DEF Separate, Born, Territory
        <4>2. Separate(t)
          <5>1. dir[t] \in Dir /\ dir[s] = None /\ None \notin Dir
            BY <1>0, <1>1, <4>1, NoneAssumption
            DEF NamesInv, UnbornAreNowhere, Born, BornIsPlaced
          <5>2. \A u \in Session \ {t} : dir[u] # dir[t]
            BY <1>2, <3>1, <4>1, <5>1
          <5> QED
            BY <2>1, <4>1, <5>2 DEF Separate, Alone, Born
        <4>3. HoldsItsOwn(t)
          BY <4>2 DEF NamesInv, SeparateHoldTheirOwn
        <4>4. id \notin T
          <5>1. id \in files[dir[t]] => FALSE
            <6>1. dir[t] \in Dir /\ dir[t] # d
              BY <1>0, <1>2, <3>1, <3>3, <4>1 DEF BornIsPlaced
            <6>2. id \in files[dir[t]] => id \in Transcript
              BY <1>0, <6>1 DEF TypeOK
            <6> QED
              BY <6>1, <6>2 DEF NamesInv, FilesAreApart
          <5>2. born[t] \in Transcript => born[t] \in files[dir[t]]
            BY <4>2 DEF NamesInv, BornAreAccountedFor, Separate
          <5>3. born[t] = t => id # t
            BY <3>3, <4>3, DisjointIDs DEF HoldsItsOwn
          <5> QED
            BY <4>2, <5>1, <5>2, <5>3 DEF Separate, Territory
        <4>6. \A u \in Session \ {t} : status'[u] # "unborn" => born'[u] # born[t]
          <5>1. born[t] \in T
            BY DEF Territory
          <5> QED
            BY <1>2, <4>3, <4>4, <5>1 DEF HoldsItsOwn, Born
        <4> HIDE DEF T
        <4>5. DOMAIN (sessions') \cap T = {ident[t]} /\ sessions'[ident[t]] = t
          BY <1>3, <4>3, <4>4 DEF HoldsItsOwn, T
        <4> QED
          BY <4>1, <4>3, <4>5, <4>6 DEF HoldsItsOwn, T, Born
      <3> QED
        BY <3>2, <3>3
    <2> QED
      BY <2>1 DEF SeparateHoldTheirOwn
  <1> QED
    BY <1>6, <1>7, <1>8, <1>9, <1>u, <1>10, <1>11, <1>12 DEF NamesInv

-----------------------------------------------------------------------------
(* A transcript appears *)

\* A new transcript is nobody's ID, so it may join the territory it lies in.
LEMMA AppearsNames ==
    ASSUME RegistryInv, NamesInv, NEW r \in Transcript, NEW d \in Dir,
           TranscriptAppears(r, d)
    PROVE  NamesInv'
  <1>0. /\ TypeOK /\ BornIsPlaced /\ WatchersAreBorn
        /\ files \in [Dir -> SUBSET Transcript] /\ saw \in [Session -> Transcript \cup {None}]
    BY DEF RegistryInv, TypeOK
  <1>1. /\ UNCHANGED <<sessions, aliases, ident, born, status, dir, watcher, told, tangled, call>>
        /\ r \notin Existing
    BY DEF TranscriptAppears, maps, objects
  <1>2. /\ files'[d] = files[d] \cup {r}
        /\ \A e \in Dir \ {d} : files'[e] = files[e]
    BY <1>0 DEF TranscriptAppears
  <1>3. \A s \in Session :
           \/ saw'[s] = saw[s]
           \/ watcher[s] = "listening" /\ dir[s] = d /\ saw'[s] = r
    BY <1>0 DEF TranscriptAppears
  <1>4. \A e \in Dir : r \notin files[e] /\ files[e] \subseteq files'[e]
    BY <1>1, <1>2 DEF Existing
  <1>5. ~HasPlace(r)
    BY <1>0, <1>4 DEF HasPlace, BornIsPlaced, Born
  <1>6. r \notin DOMAIN sessions \cup DOMAIN aliases
    BY <1>5 DEF NamesInv, NamesHavePlaces
  <1>7. \A s \in Session : Born(s) => born[s] # r
    BY <1>0, <1>4 DEF NamesInv, BornAreAccountedFor, BornIsPlaced, Born
  <1>8. CirclesAreNoticed' /\ LoopsAreFiled' /\ BornAreNamed' /\ ToldAreLeaving'
        /\ UnbornAreNowhere'
    BY <1>1
    DEF NamesInv, CirclesAreNoticed, LoopsAreFiled, BornAreNamed, ToldAreLeaving,
        UnbornAreNowhere, Acyclic, Born
  <1>9. RenamedAreJoined'
    <2>1. ASSUME NEW s \in Session, watcher[s] = "renamed" \/ s \in told
          PROVE  saw'[s] = saw[s]
      BY <1>3, <2>1 DEF NamesInv, ToldAreLeaving
    <2> QED
      BY <1>1, <2>1 DEF NamesInv, RenamedAreJoined
  <1>10. FilesAreApart'
    BY <1>2, <1>4 DEF NamesInv, FilesAreApart
  <1>11. BornAreAccountedFor'
    BY <1>0, <1>1, <1>4 DEF NamesInv, BornAreAccountedFor, BornIsPlaced, Born
  <1>12. SeenAreThere'
    <2>1. ASSUME NEW s \in Session, saw'[s] # None
          PROVE  Born(s) /\ saw'[s] \in files'[dir[s]] /\ saw'[s] # born[s]
      <3>1. CASE saw'[s] = saw[s]
        <4>1. Born(s) /\ saw[s] \in files[dir[s]] /\ saw[s] # born[s] /\ dir[s] \in Dir
          BY <1>0, <2>1, <3>1 DEF NamesInv, SeenAreThere, BornIsPlaced, Born
        <4> QED
          BY <1>4, <3>1, <4>1
      <3>2. CASE watcher[s] = "listening" /\ dir[s] = d /\ saw'[s] = r
        BY <1>0, <1>2, <1>7, <3>2 DEF WatchersAreBorn, Born
      <3> QED
        BY <1>3, <3>1, <3>2
    <2> QED
      BY <1>1, <2>1 DEF SeenAreThere, Born
  <1>13. StartsAreKnown'
    <2>1. Known \subseteq Known'
      BY <1>0, <1>1, <1>4, KnownStay DEF Born
    <2> QED
      BY <1>1, <2>1 DEF NamesInv, StartsAreKnown
  <1>14. NamesHavePlaces'
    <2>1. ASSUME NEW x, HasPlace(x) PROVE HasPlace(x)'
      BY <1>0, <1>1, <1>4, <2>1 DEF HasPlace, BornIsPlaced, Born
    <2> QED
      BY <1>1, <2>1 DEF NamesInv, NamesHavePlaces
  <1>15. SeparateHoldTheirOwn'
    <2>1. ASSUME NEW s \in Session, Separate(s)' PROVE HoldsItsOwn(s)'
      <3>1. Separate(s)
        BY <1>1, <2>1 DEF Separate, Alone, Born
      <3>2. HoldsItsOwn(s)
        BY <3>1 DEF NamesInv, SeparateHoldTheirOwn
      <3>3. Territory(s) \subseteq Territory(s)' /\ Territory(s)' \subseteq Territory(s) \cup {r}
        BY <1>0, <1>1, <1>2, <1>4, <3>1 DEF Territory, Separate, BornIsPlaced, Born
      <3>4. \A x \in DOMAIN aliases : aliases[x] # r
        BY <1>6 DEF RegistryInv, AliasesLeadOn
      <3>5. DOMAIN sessions \cap Territory(s)' = DOMAIN sessions \cap Territory(s)
        BY <1>6, <3>3
      <3>6. DOMAIN aliases \cap Territory(s)' = DOMAIN aliases \cap Territory(s)
        BY <1>6, <3>3
      <3>7. \A x \in DOMAIN aliases \ Territory(s)' : aliases[x] \notin Territory(s)'
        BY <3>2, <3>3, <3>4 DEF HoldsItsOwn
      <3> QED
        BY <1>1, <3>2, <3>5, <3>6, <3>7 DEF HoldsItsOwn, Born
    <2> QED
      BY <2>1 DEF SeparateHoldTheirOwn
  <1> QED
    BY <1>8, <1>9, <1>10, <1>11, <1>12, <1>13, <1>14, <1>15 DEF NamesInv

-----------------------------------------------------------------------------
(* A session is renamed *)

\* A watcher that renames its session after another transcript of the
\* session's directory keeps the invariant.
LEMMA UpdateNames ==
    ASSUME RegistryInv, NamesInv, NEW s \in Session, NEW r \in files[dir[s]],
           Born(s), r # born[s], watcher[s] \in Before,
           UpdateSessionID(origin[s], born[s], r),
           saw' = [saw EXCEPT ![s] = r], Moves(s, "renamed"),
           UNCHANGED <<status, born, dir, files, told, call>>
    PROVE  NamesInv'
  <1> DEFINE temp == born[s]
             old == Resolve(aliases, temp)
  <1>0. /\ TypeOK /\ BornIsPlaced /\ FiledUnderOwnID /\ AliasesLeadOn
        /\ Partial(sessions, ID, Session) /\ Partial(aliases, ID, ID)
    BY DEF RegistryInv, TypeOK
  <1>1. /\ temp \in ID /\ origin[s] \in Workspace /\ dir[s] \in Dir
        /\ r \in Transcript /\ r \in ID
    BY <1>0 DEF BornIsPlaced, Born, TypeOK, ID
  <1>2. old \in ID
    BY <1>0, <1>1, ResolveType
  <1>3. /\ saw'[s] = r /\ watcher'[s] = "renamed"
        /\ \A t \in Session \ {s} : saw'[t] = saw[t] /\ watcher'[t] = watcher[t]
    BY <1>0 DEF Moves, TypeOK
  <1>4. Updates(temp, old, r)
    BY <1>0, UpdateShape
  <1>5. /\ tangled' = (tangled \/ ~Acyclic(aliases'))
        /\ temp \in DOMAIN aliases \cup DOMAIN sessions
    BY DEF UpdateSessionID, NamesInv, BornAreNamed
  <1> HIDE DEF old
  <1>6. CirclesAreNoticed'
    BY <1>5 DEF CirclesAreNoticed
  <1>7. LoopsAreFiled'
    <2>1. ASSUME NEW x \in DOMAIN (aliases'), aliases'[x] = x
          PROVE  x \in DOMAIN (sessions')
      <3>1. CASE UNCHANGED <<sessions, aliases, ident>>
        BY <2>1, <3>1 DEF NamesInv, LoopsAreFiled
      <3>2. CASE x = r /\ ~UNCHANGED <<sessions, aliases, ident>>
        <4>1. CASE r \in DOMAIN (sessions')
          BY <3>2, <4>1
        <4>2. CASE sessions' = sessions /\ old = r
          <5>1. r \in DOMAIN aliases /\ aliases[r] = r
            BY <1>4, <2>1, <3>2, <4>2 DEF Updates
          <5> QED
            BY <3>2, <4>2, <5>1 DEF NamesInv, LoopsAreFiled
        <4> QED
          BY <1>4, <2>1, <3>2, <4>1, <4>2 DEF Updates
      <3>3. CASE x # r /\ ~UNCHANGED <<sessions, aliases, ident>>
        <4>1. x \in DOMAIN aliases /\ aliases[x] = x /\ x # temp /\ (x # old \/ old = r)
          BY <1>4, <2>1, <3>3 DEF Updates
        <4>2. x \in DOMAIN sessions
          BY <4>1 DEF NamesInv, LoopsAreFiled
        <4> QED
          BY <1>4, <3>3, <4>1, <4>2 DEF Updates
      <3> QED
        BY <3>1, <3>2, <3>3
    <2> QED
      BY <2>1 DEF LoopsAreFiled
  <1>8. BornAreNamed'
    BY <1>4 DEF NamesInv, BornAreNamed, Born, Updates
  <1>9. ToldAreLeaving'
    <2>1. s \notin told
      BY DEF NamesInv, ToldAreLeaving, Before
    <2> QED
      BY <1>0, <1>3, <2>1 DEF NamesInv, ToldAreLeaving, TypeOK
  <1>10. RenamedAreJoined'
    <2>1. SUFFICES ASSUME ~tangled', NEW t \in Session, watcher'[t] = "renamed" \/ t \in told
                   PROVE  Resolve(aliases', born[t]) = Resolve(aliases', saw'[t])
      BY DEF RenamedAreJoined
    <2>2. ~tangled /\ Acyclic(aliases) /\ Acyclic(aliases')
      BY <1>5, <2>1 DEF NamesInv, CirclesAreNoticed
    <2>3. /\ Rewritten(aliases, aliases', Resolve(aliases, temp), r)
          /\ temp \in DOMAIN (aliases') /\ aliases'[temp] = r
      BY <1>5, <2>2, UpdateRewrites DEF NamesInv
    <2>4. CASE t = s
      <3>1. r \in Visited(aliases', temp)
        BY <2>3, VisitedStarts, VisitedGoesOn
      <3> QED
        BY <1>3, <2>2, <2>4, <3>1, VisitedResolvesAlike
    <2>5. CASE t # s
      <3>1. Resolve(aliases, born[t]) = Resolve(aliases, saw[t])
        BY <1>3, <2>1, <2>2, <2>5 DEF NamesInv, RenamedAreJoined
      <3> QED
        BY <1>3, <2>2, <2>3, <2>5, <3>1, RewrittenKeepsJoins
    <2> QED
      BY <2>4, <2>5
  <1>11. FilesAreApart' /\ BornAreAccountedFor' /\ UnbornAreNowhere'
    BY DEF NamesInv, FilesAreApart, BornAreAccountedFor, UnbornAreNowhere, Born
  <1>12. SeenAreThere'
    BY <1>3 DEF NamesInv, SeenAreThere, Born
  <1>13. StartsAreKnown'
    BY DEF NamesInv, StartsAreKnown, Known, Existing
  <1>14. HasPlace(temp) /\ HasPlace(r) /\ HasPlace(old)
    <2>1. HasPlace(r)
      BY <1>1, DisjointIDs DEF HasPlace
    <2>2. HasPlace(temp)
      BY DEF NamesInv, BornAreAccountedFor, HasPlace
    <2>3. old \in DOMAIN aliases \cup DOMAIN sessions \cup {temp}
      BY <1>0, ResolveEnds DEF old, AliasIDs, AliasesLeadOn
    <2> QED
      BY <2>1, <2>2, <2>3 DEF NamesInv, NamesHavePlaces
  <1>15. NamesHavePlaces'
    <2>1. \A x : HasPlace(x) => HasPlace(x)'
      BY DEF HasPlace, Born
    <2>2. DOMAIN (sessions') \cup DOMAIN (aliases')
             \subseteq DOMAIN sessions \cup DOMAIN aliases \cup {temp, old, r}
      BY <1>4 DEF Updates
    <2> QED
      BY <1>14, <2>1, <2>2 DEF NamesInv, NamesHavePlaces
  <1>16. ASSUME NEW t \in Session \ {s}, Separate(t) PROVE HoldsItsOwn(t)'
    <2> DEFINE T == Territory(t)
    <2>1. /\ HoldsItsOwn(t) /\ dir[t] \in Dir /\ dir[t] # dir[s]
          /\ born[t] \in Transcript => born[t] \in files[dir[t]]
      BY <1>0, <1>16
      DEF NamesInv, SeparateHoldTheirOwn, BornAreAccountedFor, Separate, Alone, BornIsPlaced, Born
    <2>2. \A x : x \in files[dir[s]] => x \notin T
      <3>1. ASSUME NEW x, x \in files[dir[s]] PROVE x \notin T
        <4>1. x \notin files[dir[t]] /\ x \in Transcript
          BY <1>0, <1>1, <2>1, <3>1 DEF NamesInv, FilesAreApart, TypeOK
        <4> QED
          BY <1>16, <2>1, <4>1, DisjointIDs DEF Territory, Separate
      <3> QED
        BY <3>1
    <2>3. r \notin T
      BY <2>2
    <2>4. temp \notin T
      <3>1. CASE temp \in Transcript
        BY <2>2, <3>1 DEF NamesInv, BornAreAccountedFor
      <3>2. CASE temp \in Session
        <4>1. born[temp] = temp
          BY <3>2 DEF NamesInv, BornAreAccountedFor
        <4>2. temp \notin files[dir[t]]
          BY <1>0, <2>1, <3>2, DisjointIDs DEF TypeOK
        <4>3. temp # born[t]
          BY <2>1 DEF HoldsItsOwn
        <4> QED
          BY <4>2, <4>3 DEF Territory
      <3> QED
        BY <1>1, <3>1, <3>2 DEF ID
    <2>5. old \notin T
      BY <2>1, <2>4, ResolvesOutside DEF HoldsItsOwn, old
    <2>6. ident[t] \in T /\ ident[t] \in DOMAIN sessions /\ sessions[ident[t]] = t
      BY <2>1 DEF HoldsItsOwn
    <2>7. ident'[t] = ident[t]
      <3>1. old \in DOMAIN sessions => ident[sessions[old]] = old
        BY <1>0 DEF FiledUnderOwnID
      <3>2. old \in DOMAIN sessions => sessions[old] # t
        BY <2>5, <2>6, <3>1
      <3> QED
        BY <1>0, <1>4, <3>2 DEF TypeOK, Updates
    <2>8. born[t] \in T /\ T = Territory(t)'
      BY DEF Territory
    <2> HIDE DEF T
    <2>9. DOMAIN (sessions') \cap T = {ident[t]} /\ sessions'[ident[t]] = t
      <3>1. DOMAIN sessions \cap T = {ident[t]}
        BY <2>1 DEF HoldsItsOwn, T
      <3> QED
        BY <1>4, <2>3, <2>4, <2>5, <2>6, <3>1 DEF Updates
    <2>10. DOMAIN (aliases') \cap T = {born[t]} \ {ident[t]}
      <3>1. DOMAIN aliases \cap T = {born[t]} \ {ident[t]}
        BY <2>1 DEF HoldsItsOwn, T
      <3> QED
        BY <1>4, <2>4, <2>5, <3>1 DEF Updates
    <2>11. born[t] # ident[t] => aliases'[born[t]] = ident[t]
      <3>1. ASSUME born[t] # ident[t] PROVE aliases'[born[t]] = ident[t]
        <4>1. born[t] \in DOMAIN aliases /\ aliases[born[t]] = ident[t]
          BY <2>1, <2>8, <3>1 DEF HoldsItsOwn, T
        <4> QED
          BY <1>4, <2>4, <2>5, <2>6, <2>8, <4>1 DEF Updates
      <3> QED
        BY <3>1
    <2>12. \A x \in DOMAIN (aliases') \ T : aliases'[x] \notin T
      <3>1. \A x \in DOMAIN aliases \ T : aliases[x] \notin T
        BY <2>1 DEF HoldsItsOwn, T
      <3> QED
        BY <1>4, <2>3, <3>1 DEF Updates
    <2>13. watcher'[t] \in Before => ident[t] = born[t]
      BY <1>3, <2>1 DEF HoldsItsOwn
    <2> QED
      BY <2>1, <2>7, <2>8, <2>9, <2>10, <2>11, <2>12, <2>13 DEF HoldsItsOwn, Born
  <1>17. ASSUME Separate(s) PROVE HoldsItsOwn(s)'
    <2> DEFINE T == Territory(s)
    <2>1. HoldsItsOwn(s)
      BY <1>17 DEF NamesInv, SeparateHoldTheirOwn
    <2>2. ident[s] = temp
      BY <2>1 DEF HoldsItsOwn
    <2>3. /\ temp \in T /\ r \in T /\ T = Territory(s)'
      BY DEF Territory
    <2>4. /\ DOMAIN sessions \cap T = {temp} /\ sessions[temp] = s
          /\ DOMAIN aliases \cap T = {}
          /\ \A x \in DOMAIN aliases : aliases[x] \notin T
      BY <2>1, <2>2 DEF HoldsItsOwn
    <2>5. old = temp
      BY <2>3, <2>4, ResolvesAtOnce DEF old
    <2> HIDE DEF T
    <2>6. /\ DOMAIN (sessions') = (DOMAIN sessions \ {temp}) \cup {r}
          /\ sessions'[r] = s /\ ident'[s] = r
          /\ temp \in DOMAIN (aliases') /\ aliases'[temp] = r
          /\ DOMAIN (aliases') \subseteq DOMAIN aliases \cup {temp}
          /\ \A x \in DOMAIN (aliases') \ {temp} : aliases'[x] = aliases[x]
      <3>1. old \in DOMAIN sessions /\ old # r /\ r \notin DOMAIN sessions
        BY <2>3, <2>4, <2>5
      <3>2. \A x \in DOMAIN aliases : aliases[x] # old
        BY <2>3, <2>4, <2>5
      <3> QED
        BY <1>0, <1>4, <2>4, <2>5, <3>1, <3>2 DEF TypeOK, Updates
    <2>7. DOMAIN (sessions') \cap T = {r}
      BY <2>3, <2>4, <2>6
    <2>8. DOMAIN (aliases') \cap T = {temp} \ {r}
      BY <2>3, <2>4, <2>6
    <2>9. \A x \in DOMAIN (aliases') \ T : aliases'[x] \notin T
      BY <2>3, <2>4, <2>6
    <2>10. watcher'[s] \notin Before
      BY <1>3 DEF Before
    <2>11. \A c \in Call : call[c].pc = "start" /\ call[c].id = temp => temp \in Transcript
      BY <2>1 DEF HoldsItsOwn
    <2> QED
      BY <2>1, <2>3, <2>6, <2>7, <2>8, <2>9, <2>10, <2>11 DEF HoldsItsOwn, Born
  <1>18. SeparateHoldTheirOwn'
    <2>1. \A t \in Session : Separate(t)' => Separate(t)
      BY DEF Separate, Alone, Born
    <2> QED
      BY <1>16, <1>17, <2>1 DEF SeparateHoldTheirOwn
  <1> QED
    BY <1>6, <1>7, <1>8, <1>9, <1>10, <1>11, <1>12, <1>13, <1>15, <1>18 DEF NamesInv

-----------------------------------------------------------------------------
(* The second invariant is inductive, too *)

\* The names, and what they are tied to.
Named == <<sessions, aliases, ident, born, dir, saw, files, tangled>>

\* A step that moves neither watchers nor calls.
LEMMA NothingMoves ==
    ASSUME NamesInv, UNCHANGED Named, UNCHANGED <<watcher, told, call>>,
           \A s \in Session : status'[s] # "unborn" <=> Born(s)
    PROVE  NamesNothing
  BY DEF Named, NamesInv, NamesNothing, ToldAreLeaving

\* A step that moves one watcher.
LEMMA WatcherMoves ==
    ASSUME TypeOK, NamesInv, UNCHANGED Named, UNCHANGED <<status, call>>,
           NEW s \in Session, NEW to \in WatcherState, Moves(s, to), to # "renamed",
           to \in Before => watcher[s] \in Before,
           \/ told' = told /\ (s \in told => to \in {"leaving", "gone"})
           \/ told' = told \cup {s} /\ watcher[s] = "renamed" /\ to = "leaving"
    PROVE  NamesNothing
  <1>1. watcher'[s] = to /\ \A t \in Session \ {s} : watcher'[t] = watcher[t]
    BY DEF Moves, TypeOK
  <1> QED
    BY <1>1 DEF Named, NamesInv, NamesNothing, ToldAreLeaving, Born

\* A call that goes on, or ends, is at that place then, and the others stay.
LEMMA CallGoes ==
    ASSUME TypeOK, NEW c \in Call, NEW to, NEW s, GoesOn(c, to, s) \/ (Ends(c) /\ to = "idle")
    PROVE  call'[c].pc = to /\ \A b \in Call \ {c} : call'[b] = call[b]
  BY DEF TypeOK, GoesOn, Ends, Idle

\* A step that moves one call to another place than "start".
LEMMA CallMoves ==
    ASSUME NamesInv, UNCHANGED Named, UNCHANGED <<watcher, told>>,
           \A s \in Session : status'[s] # "unborn" <=> Born(s),
           NEW c \in Call, call'[c].pc # "start", \A b \in Call \ {c} : call'[b] = call[b]
    PROVE  NamesNothing
  BY DEF Named, NamesInv, NamesNothing, ToldAreLeaving

\* Stopping sessions names nothing.
LEMMA StopAllNames ==
    ASSUME RegistryInv, NamesInv, NEW S, S \subseteq Filed, StopAll(S)
    PROVE  NamesNothing
  <1>1. \A s \in S : status[s] # "unborn"
    BY DEF RegistryInv, FiledAreBorn, Filed
  <1>2. \A s \in Session : status'[s] # "unborn" <=> Born(s)
    BY <1>1 DEF StopAll, Born
  <1>3. UNCHANGED Named /\ UNCHANGED <<watcher, told, call>>
    BY DEF StopAll, Named
  <1> QED
    BY <1>2, <1>3, NothingMoves

\* A step that renames, makes no session and adds no transcript names nothing.
LEMMA OthersNameNothing ==
    ASSUME RegistryInv, NamesInv, [Next]_vars,
           ~ \E s \in Session, w \in Workspace : StartFromClient(s, w),
           ~ \E s \in Session, w \in Workspace, d \in Dir : StartForAgent(s, w, d),
           ~ \E c \in Call, s \in Session : PromptStartsSession(c, s),
           ~ \E s \in Session : WatchScans(s) \/ WatchSees(s),
           ~ \E r \in Transcript, d \in Dir : TranscriptAppears(r, d)
    PROVE  NamesNothing
  <1>0. TypeOK
    BY DEF RegistryInv
  <1>1. ASSUME NEW w \in Workspace, RegisterWorkspace(w) \/ UnregisterWorkspace(w)
        PROVE  NamesNothing
    <2>1. UNCHANGED Named /\ UNCHANGED <<watcher, told, call, status>>
      BY <1>1 DEF RegisterWorkspace, UnregisterWorkspace, Named, maps, objects, watch
    <2> QED
      BY <2>1, NothingMoves DEF Born
  <1>2. ASSUME NEW w \in Workspace, NEW id \in ID, ActivateSession(w, id) \/ ClientFollows(w, id)
        PROVE  NamesNothing
    <2>1. UNCHANGED Named /\ UNCHANGED <<watcher, told, call, status>>
      BY <1>2 DEF ActivateSession, ClientFollows, Named, objects, watch
    <2> QED
      BY <2>1, NothingMoves DEF Born
  <1>3. ASSUME NEW id \in ID, StopSession(id) PROVE NamesNothing
    BY <1>3, StopAllNames DEF StopSession, Filed
  <1>4. ASSUME NEW c \in Call, NEW id \in ID, StopLooksUp(c, id) PROVE NamesNothing
    <2>1. PICK w \in Workspace :
             call' = [call EXCEPT ![c] = [pc |-> "unwatch", id |-> Resolve(aliases, id),
                                          ws |-> w, who |-> None, mode |-> "print"]]
      BY <1>0, <1>4 DEF StopLooksUp, TypeOK, Partial
    <2>3. call'[c].pc # "start" /\ \A b \in Call \ {c} : call'[b] = call[b]
      BY <1>0, <2>1 DEF TypeOK
    <2>2. UNCHANGED Named /\ UNCHANGED <<watcher, told, status>>
      BY <1>4 DEF StopLooksUp, Named, maps, objects, watch
    <2> QED
      BY <2>2, <2>3, CallMoves DEF Born
  <1>5. ASSUME NEW c \in Call,
               StopUnwatches(c) \/ PromptGoesToTerminal(c) \/ PromptFollows(c) \/ PromptFails(c)
        PROVE  NamesNothing
    <2>1. call'[c].pc = "idle" /\ \A b \in Call \ {c} : call'[b] = call[b]
      BY <1>0, <1>5, CallGoes DEF StopUnwatches, PromptGoesToTerminal, PromptFollows, PromptFails
    <2>2. UNCHANGED Named /\ UNCHANGED <<watcher, told, status>>
      BY <1>5
      DEF StopUnwatches, PromptGoesToTerminal, PromptFollows, PromptFails, Named,
          maps, objects, watch
    <2> QED
      BY <2>1, <2>2, CallMoves DEF Born
  <1>6. ASSUME NEW c \in Call, NEW id \in ID, NEW m \in Mode, PromptLooksUp(c, id, m)
        PROVE  NamesNothing
    <2>1. UNCHANGED Named /\ UNCHANGED <<watcher, told, status>> /\ id \in Known
      BY <1>6 DEF PromptLooksUp, Named, maps, objects, watch
    <2>2. \/ call' = [call EXCEPT ![c] = [pc |-> "check", id |-> id, ws |-> None,
                                          who |-> sessions[Resolve(aliases, id)], mode |-> m]]
          \/ /\ Resolve(aliases, id) \notin DOMAIN sessions
             /\ \E w \in registered :
                   call' = [call EXCEPT ![c] = [pc |-> "start", id |-> id, ws |-> w,
                                                who |-> None, mode |-> m]]
      BY <1>6 DEF PromptLooksUp
    <2>3. CASE call' = [call EXCEPT ![c] = [pc |-> "check", id |-> id, ws |-> None,
                                            who |-> sessions[Resolve(aliases, id)], mode |-> m]]
      <3>1. call'[c].pc # "start" /\ \A b \in Call \ {c} : call'[b] = call[b]
        BY <1>0, <2>3 DEF TypeOK
      <3> QED
        BY <2>1, <3>1, CallMoves DEF Born
    <2>4. ASSUME Resolve(aliases, id) \notin DOMAIN sessions, NEW w,
                 call' = [call EXCEPT ![c] = [pc |-> "start", id |-> id, ws |-> w,
                                              who |-> None, mode |-> m]]
          PROVE  NamesNothing
      <3>1. call'[c].id = id /\ \A b \in Call \ {c} : call'[b] = call[b]
        BY <1>0, <2>4 DEF TypeOK
      <3> QED
        BY <2>1, <2>4, <3>1 DEF Named, NamesInv, NamesNothing, ToldAreLeaving, Born
    <2> QED
      BY <2>2, <2>3, <2>4
  <1>7. ASSUME NEW c \in Call, PromptFindsSession(c) PROVE NamesNothing
    <2>1. UNCHANGED Named /\ UNCHANGED <<watcher, told, status>>
      BY <1>7 DEF PromptFindsSession, Named, watch
    <2>2. call'[c].pc = "check" /\ \A b \in Call \ {c} : call'[b] = call[b]
      BY <1>0, <1>7, CallGoes DEF PromptFindsSession
    <2> QED
      BY <1>0, <2>1, <2>2, CallMoves DEF Born
  <1>8. ASSUME NEW c \in Call, PromptChecks(c) PROVE NamesNothing
    <2>1. UNCHANGED Named /\ UNCHANGED <<watcher, told>>
      BY <1>8 DEF PromptChecks, Named, maps, watch
    <2>2. \A s \in Session : status'[s] # "unborn" <=> Born(s)
      <3>1. status[call[c].who] # "unborn"
        BY <1>8 DEF PromptChecks, RegistryInv, CallsAreGrounded
      <3> QED
        BY <1>0, <1>8, <3>1 DEF PromptChecks, Born, TypeOK
    <2>3. call'[c].pc \in {"launch", "idle"} /\ \A b \in Call \ {c} : call'[b] = call[b]
      <3>1. GoesOn(c, "launch", call[c].who) \/ Ends(c)
        BY <1>8 DEF PromptChecks
      <3> QED
        BY <1>0, <3>1, CallGoes
    <2> QED
      BY <1>0, <2>1, <2>2, <2>3, CallMoves
  <1>9. ASSUME NEW c \in Call, PromptLaunches(c) PROVE NamesNothing
    <2>1. UNCHANGED Named /\ UNCHANGED <<watcher, told, status>>
      BY <1>9 DEF PromptLaunches, Named, maps, objects, watch
    <2>2. call'[c].pc \in {"follow", "idle"} /\ \A b \in Call \ {c} : call'[b] = call[b]
      <3>1. GoesOn(c, "follow", call[c].who) \/ Ends(c)
        BY <1>9 DEF PromptLaunches
      <3> QED
        BY <1>0, <3>1, CallGoes
    <2> QED
      BY <1>0, <2>1, <2>2, CallMoves DEF Born
  <1>10. ASSUME NEW s \in Session, LaunchClaude(s) \/ ClaudeExits(s) PROVE NamesNothing
    <2>1. UNCHANGED Named /\ UNCHANGED <<watcher, told, call, status>>
      BY <1>10 DEF LaunchClaude, ClaudeExits, Named, maps, objects, watch
    <2> QED
      BY <2>1, NothingMoves DEF Born
  <1>11. ASSUME NEW S \in SUBSET {s \in Filed : Running(s)}, StopIdle(S) PROVE NamesNothing
    BY <1>11, StopAllNames DEF StopIdle
  <1>12. ASSUME ShutdownBegins \/ ShutdownGivesUp PROVE NamesNothing
    <2>1. UNCHANGED Named /\ UNCHANGED <<watcher, told, call, status>>
      BY <1>12 DEF ShutdownBegins, ShutdownGivesUp, Named, maps, objects, watch
    <2> QED
      BY <2>1, NothingMoves DEF Born
  <1>13. ASSUME ShutdownStopsSessions PROVE NamesNothing
    BY <1>13, StopAllNames DEF ShutdownStopsSessions
  <1>14. ASSUME NEW s \in Session, WatchBegins(s) PROVE NamesNothing
    <2>1. UNCHANGED Named /\ UNCHANGED <<told, call, status>> /\ watcher[s] = "called"
      BY <1>14 DEF WatchBegins, Named, maps, objects
    <2>2. \E to \in {"gone", "entered"} : Moves(s, to)
      BY <1>14 DEF WatchBegins
    <2> QED
      BY <1>0, <2>1, <2>2, WatcherMoves DEF NamesInv, ToldAreLeaving, Before, WatcherState
  <1>15. ASSUME NEW s \in Session, WatchLooks(s) PROVE NamesNothing
    <2>1. UNCHANGED Named /\ UNCHANGED <<told, call, status>> /\ watcher[s] = "entered"
      BY <1>15 DEF WatchLooks, Named, maps, objects
    <2>2. \E to \in {"toParent", "toDir", "leaving"} : Moves(s, to)
      BY <1>15 DEF WatchLooks
    <2> QED
      BY <1>0, <2>1, <2>2, WatcherMoves DEF NamesInv, ToldAreLeaving, Before, WatcherState
  <1>16. ASSUME NEW s \in Session, WatchAttaches(s) PROVE NamesNothing
    <2>1. /\ UNCHANGED Named /\ UNCHANGED <<told, call, status>>
          /\ watcher[s] \in {"toParent", "toDir"}
      BY <1>16 DEF WatchAttaches, Named, maps, objects
    <2>2. \E to \in {"parent", "deaf", "listening", "leaving"} : Moves(s, to)
      BY <1>16 DEF WatchAttaches
    <2> QED
      BY <1>0, <2>1, <2>2, WatcherMoves DEF NamesInv, ToldAreLeaving, Before, WatcherState
  <1>17. ASSUME NEW s \in Session, WatchAnnounces(s) PROVE NamesNothing
    <2>1. /\ UNCHANGED Named /\ UNCHANGED <<call, status>> /\ watcher[s] = "renamed"
          /\ told' = told \cup {s} /\ Moves(s, "leaving")
      BY <1>17 DEF WatchAnnounces, Named, objects
    <2> QED
      BY <1>0, <2>1, WatcherMoves DEF Before, WatcherState
  <1>18. ASSUME NEW s \in Session, WatchIsCancelled(s) PROVE NamesNothing
    <2>1. /\ UNCHANGED Named /\ UNCHANGED <<told, call, status>> /\ Moves(s, "leaving")
      BY <1>18 DEF WatchIsCancelled, Named, maps, objects
    <2> QED
      BY <1>0, <2>1, WatcherMoves DEF Before, WatcherState
  <1>19. ASSUME NEW s \in Session, WatchLeaves(s) PROVE NamesNothing
    <2>1. /\ UNCHANGED Named /\ UNCHANGED <<told, call, status>> /\ Moves(s, "gone")
      BY <1>19 DEF WatchLeaves, Named, maps, objects
    <2> QED
      BY <1>0, <2>1, WatcherMoves DEF Before, WatcherState
  <1>20. CASE UNCHANGED vars
    <2>1. UNCHANGED Named /\ UNCHANGED <<watcher, told, call, status>>
      BY <1>20 DEF vars, Named, maps, objects, watch
    <2> QED
      BY <2>1, NothingMoves DEF Born
  <1> QED
    BY <1>1, <1>2, <1>3, <1>4, <1>5, <1>6, <1>7, <1>8, <1>9, <1>10, <1>11, <1>12,
       <1>13, <1>14, <1>15, <1>16, <1>17, <1>18, <1>19, <1>20
    DEF Next, ClientStep, PromptStep, ClaudeStep, DaemonStep, WatcherStep

\* Every step keeps the second invariant.
LEMMA NextNames == RegistryInv /\ NamesInv /\ [Next]_vars => NamesInv'
  <1> SUFFICES ASSUME RegistryInv, NamesInv, [Next]_vars PROVE NamesInv'
    OBVIOUS
  <1>0. /\ TypeOK /\ BornIsPlaced /\ WatchersAreBorn
        /\ files \in [Dir -> SUBSET Transcript]
    BY DEF RegistryInv, TypeOK
  <1>1. ASSUME NEW s \in Session, NEW w \in Workspace, StartFromClient(s, w) PROVE NamesInv'
    <2>1. Home[w] \in Dir
      BY PlaceAssumption
    <2>2. PICK id \in SessionIDs(s, w) : Install(s, id, w, Home[w])
      BY <1>1 DEF StartFromClient
    <2>3. /\ id \in ID /\ id \notin Session \ {s}
          /\ id \in Transcript => id \in files[Home[w]]
      BY <1>0, <2>1, <2>2, DisjointIDs DEF SessionIDs, ID
    <2>4. /\ UNCHANGED <<aliases, saw, files, told, tangled, call>>
          /\ watcher'[s] = "called" /\ \A t \in Session \ {s} : watcher'[t] = watcher[t]
      BY <1>0, <1>1 DEF StartFromClient, TypeOK
    <2> QED
      BY <2>1, <2>2, <2>3, <2>4, InstallNames
  <1>2. ASSUME NEW s \in Session, NEW w \in Workspace, NEW d \in Dir, StartForAgent(s, w, d)
        PROVE  NamesInv'
    <2>1. Install(s, s, w, d) /\ s \in ID /\ s \notin Transcript
      BY <1>2, DisjointIDs DEF StartForAgent, ID
    <2>2. /\ UNCHANGED <<aliases, saw, files, told, tangled, call>>
          /\ watcher'[s] = "called" /\ \A t \in Session \ {s} : watcher'[t] = watcher[t]
      BY <1>0, <1>2 DEF StartForAgent, process, TypeOK
    <2> QED
      BY <2>1, <2>2, InstallNames
  <1>3. ASSUME NEW c \in Call, NEW s \in Session, PromptStartsSession(c, s) PROVE NamesInv'
    <2> DEFINE id == call[c].id
               w == call[c].ws
               places == {d \in Dir : id \in files[d]}
    <2>1. id \in ID /\ w \in Workspace /\ id \in Known /\ call[c].pc = "start"
      BY <1>3
      DEF PromptStartsSession, RegistryInv, CallsAreGrounded, NamesInv, StartsAreKnown
    <2>2. PICK d \in IF places = {} THEN {Home[w]} ELSE places : Install(s, id, w, d)
      BY <1>3 DEF PromptStartsSession
    <2>3. d \in Dir
      BY <2>1, <2>2, PlaceAssumption
    <2>4. id \in Transcript => id \in files[d]
      <3>1. ASSUME id \in Transcript PROVE places # {}
        <4>1. CASE id \in Existing
          BY <4>1 DEF Existing
        <4>2. CASE id \notin Existing
          <5>1. PICK t \in Session : Born(t) /\ born[t] = id
            BY <2>1, <4>2 DEF Known, Born
          <5>2. id \in files[dir[t]] /\ dir[t] \in Dir
            BY <1>0, <3>1, <5>1 DEF NamesInv, BornAreAccountedFor, BornIsPlaced, Born
          <5> QED
            BY <5>2
        <4> QED
          BY <4>1, <4>2
      <3> QED
        BY <2>2, <3>1
    <2>5. UNCHANGED <<aliases, saw, files, told, tangled, watcher>>
      BY <1>3 DEF PromptStartsSession, watch
    <2>6. \A b \in Call : call'[b].pc = "start" => call[b].pc = "start" /\ call'[b].id = call[b].id
      <3>1. GoesOn(c, "check", s)
        BY <1>3 DEF PromptStartsSession
      <3>2. call'[c].pc = "check" /\ \A b \in Call \ {c} : call'[b] = call[b]
        BY <1>0, <3>1, CallGoes
      <3> QED
        BY <3>2
    <2> HIDE DEF places
    <2> QED
      BY <2>1, <2>2, <2>3, <2>4, <2>5, <2>6, InstallNames
  <1>4. ASSUME NEW s \in Session, WatchScans(s) PROVE NamesInv'
    <2>1. PICK r \in files[dir[s]] :
             r # born[s] /\ saw' = [saw EXCEPT ![s] = r] /\ UpdateSessionID(origin[s], born[s], r)
      BY <1>4 DEF WatchScans
    <2>2. Born(s) /\ watcher[s] \in Before
      BY <1>0, <1>4 DEF WatchScans, WatchersAreBorn, Born, Before, WatcherState
    <2>3. Moves(s, "renamed") /\ UNCHANGED <<status, born, dir, files, told, call>>
      BY <1>4 DEF WatchScans
    <2> QED
      BY <2>1, <2>2, <2>3, UpdateNames
  <1>5. ASSUME NEW s \in Session, WatchSees(s) PROVE NamesInv'
    <2> DEFINE r == saw[s]
    <2>1. r # None /\ UpdateSessionID(origin[s], born[s], r)
      BY <1>5 DEF WatchSees
    <2>2. Born(s) /\ watcher[s] \in Before /\ r \in files[dir[s]] /\ r # born[s]
      BY <1>5, <2>1 DEF WatchSees, NamesInv, SeenAreThere, Before, WatcherState
    <2>3. saw' = [saw EXCEPT ![s] = r]
      BY <1>0, <1>5 DEF WatchSees, TypeOK
    <2>4. Moves(s, "renamed") /\ UNCHANGED <<status, born, dir, files, told, call>>
      BY <1>5 DEF WatchSees
    <2> HIDE DEF r
    <2> QED
      BY <2>1, <2>2, <2>3, <2>4, UpdateNames
  <1>6. ASSUME NEW r \in Transcript, NEW d \in Dir, TranscriptAppears(r, d) PROVE NamesInv'
    BY <1>6, AppearsNames
  <1>7. ASSUME NamesNothing PROVE NamesInv'
    <2>1. told' \subseteq Session
      BY NextInv DEF RegistryInv, TypeOK
    <2> QED
      BY <1>7, <2>1, NamesNothingKeeps
  <1> QED
    BY <1>1, <1>2, <1>3, <1>4, <1>5, <1>6, <1>7, OthersNameNothing

\* The initial states satisfy the second invariant.
LEMMA InitNames == Init => NamesInv
  <1> SUFFICES ASSUME Init PROVE NamesInv
    OBVIOUS
  <1>1. DOMAIN aliases = {} /\ DOMAIN sessions = {}
    BY DEF Init, EmptyFunction
  <1>2. \A s \in Session : ~Born(s) /\ watcher[s] = "none" /\ dir[s] = None /\ saw[s] = None
    BY DEF Init, Born
  <1>3. CirclesAreNoticed /\ LoopsAreFiled /\ NamesHavePlaces
    BY <1>1 DEF CirclesAreNoticed, LoopsAreFiled, NamesHavePlaces, Acyclic
  <1>4. BornAreNamed /\ BornAreAccountedFor /\ UnbornAreNowhere /\ SeenAreThere
        /\ SeparateHoldTheirOwn
    BY <1>2
    DEF BornAreNamed, BornAreAccountedFor, UnbornAreNowhere, SeenAreThere,
        SeparateHoldTheirOwn, Separate
  <1>5. ToldAreLeaving /\ RenamedAreJoined
    BY <1>2 DEF Init, ToldAreLeaving, RenamedAreJoined
  <1>6. FilesAreApart /\ StartsAreKnown
    BY DEF Init, FilesAreApart, StartsAreKnown, Idle
  <1> QED
    BY <1>3, <1>4, <1>5, <1>6 DEF NamesInv

\* However the daemon's goroutines, its clients and Claude interleave, the
\* names sessions had lead where they led.
THEOREM NamesInvariance == Spec => [](RegistryInv /\ NamesInv)
  <1>1. Init => RegistryInv /\ NamesInv
    BY InitInv, InitNames
  <1>2. RegistryInv /\ NamesInv /\ [Next]_vars => RegistryInv' /\ NamesInv'
    BY NextInv, NextNames
  <1> QED
    BY <1>1, <1>2, PTL DEF Spec

\* The only session ever started in its directory is found under the ID it was
\* made with and under the one it has: nothing that happens elsewhere
\* reaches into its territory (Manager.updateSessionID, GetSession).  Once
\* session_id_resolved is published the old ID and the new one lead to one
\* session, as long as the aliases have not led in a circle.
THEOREM NamesAlwaysHold == Spec => []NamesHold
  <1>1. RegistryInv /\ NamesInv => WorktreesAreSeparate
    BY HoldsItsOwnIsFound
    DEF NamesInv, SeparateHoldTheirOwn, Separate, Born, WorktreesAreSeparate
  <1>2. RegistryInv /\ NamesInv => AnnouncedIDsAreFound
    <2> SUFFICES ASSUME RegistryInv, NamesInv, NEW s \in told, ~tangled
                 PROVE  \E t \in Session : FindsIt(born[s], t) /\ FindsIt(saw[s], t)
      BY DEF RegistryInv, TypeOK, AnnouncedIDsAreFound
    <2>1. s \in Session /\ Acyclic(aliases)
      BY DEF RegistryInv, TypeOK, NamesInv, CirclesAreNoticed
    <2>2. Born(s)
      BY <2>1 DEF RegistryInv, WatchersAreBorn, NamesInv, ToldAreLeaving, Born
    <2>3. Resolve(aliases, born[s]) = Resolve(aliases, saw[s])
      BY <2>1 DEF NamesInv, RenamedAreJoined
    <2>4. Resolve(aliases, born[s]) \in DOMAIN sessions
      BY <2>1, <2>2, EndsAreFiled
      DEF NamesInv, BornAreNamed, LoopsAreFiled, RegistryInv, AliasesLeadOn
    <2>5. sessions[Resolve(aliases, born[s])] \in Session
      BY <2>4, PartialApplication DEF RegistryInv, TypeOK
    <2> QED
      BY <2>3, <2>4, <2>5 DEF FindsIt
  <1>3. RegistryInv /\ NamesInv => NamesHold
    BY <1>1, <1>2 DEF NamesHold
  <1> QED
    BY <1>3, NamesInvariance, PTL

\* A prompt that goes on from "start" to "check" has found its session in the
\* map, or filed one under an ID that was free: nobody is displaced.
THEOREM PromptsNeverDisplace == Spec => PromptsDisplaceNobody
  <1>1. RegistryInv /\ NamesInv /\ [Next]_vars =>
           [(\E c \in Call : call[c].pc = "start" /\ call'[c].pc = "check")
              => Filed \subseteq Filed']_vars
    <2> SUFFICES ASSUME RegistryInv, NamesInv, [Next]_vars,
                        NEW c \in Call, call[c].pc = "start", call'[c].pc = "check"
                 PROVE  Filed \subseteq Filed'
      OBVIOUS
    <2>1. call' # call
      OBVIOUS
    <2>2. ASSUME NEW b \in Call, NEW s \in Session, PromptStartsSession(b, s)
          PROVE  Filed \subseteq Filed'
      <3>1. call[b].id \notin DOMAIN sessions /\ sessions' = With(sessions, call[b].id, s)
        BY <2>2 DEF PromptStartsSession, Install
      <3>2. ASSUME NEW x \in DOMAIN sessions
            PROVE  x \in DOMAIN (sessions') /\ sessions'[x] = sessions[x]
        BY <3>1 DEF With
      <3> QED
        BY <3>2 DEF Filed
    <2>3. ASSUME \/ \E s \in Session, w \in Workspace : StartFromClient(s, w)
                 \/ \E s \in Session, w \in Workspace, d \in Dir : StartForAgent(s, w, d)
                 \/ \E s \in Session : WatchScans(s) \/ WatchSees(s)
                 \/ \E r \in Transcript, d \in Dir : TranscriptAppears(r, d)
          PROVE  call' = call
      BY <2>3 DEF StartFromClient, StartForAgent, WatchScans, WatchSees, TranscriptAppears
    <2>4. ASSUME NamesNothing PROVE Filed \subseteq Filed'
      BY <2>4 DEF NamesNothing, Filed
    <2> QED
      BY <2>1, <2>2, <2>3, <2>4, OthersNameNothing
  <1> QED
    BY <1>1, NamesInvariance, PTL DEF Spec, PromptsDisplaceNobody
=============================================================================
