---------------------------- MODULE Server_proofs ----------------------------
(***************************************************************************)
(* What the server keeps for its devices, proved for any number of them,   *)
(* of workspaces, clients, sessions, directories and overlapping calls:    *)
(* the configured workspaces, the event hub, the pages of a transcript,    *)
(* the index of Codex's rollouts and the search for repositories.          *)
(*                                                                         *)
(* The pages: an index entry with the file's second was made of the whole  *)
(* file, unless the file was written again within that second.             *)
(*                                                                         *)
(* The rollouts: what a walk has behind it is in the index it will         *)
(* publish, as new as it was when the walk or the call it serves began.    *)
(*                                                                         *)
(* The search: the counter counts the directories in the channel, the      *)
(* workers that have one and once more the workers that are sending one,   *)
(* so that nothing counted is nothing left; until then a repository that   *)
(* is still missing lies below a directory that is counted.                *)
(***************************************************************************)
EXTENDS EventHub, Workspaces, SessionHistory, CodexHistory, Discovery, FiniteSetTheorems, TLAPS

-----------------------------------------------------------------------------
(* The workspaces *)

\* A call of the given kind is at work on workspace w.
Adding(c, w) == call[c].op = "add" /\ call[c].ws = w
Removing(c, w) == call[c].op = "remove" /\ call[c].ws = w
Cleaning(c, w) == call[c].op = "clean" /\ (call[c].ws = w \/ w \in call[c].todo)

\* A removal of w has taken it from the session manager but not, so far, from
\* the configuration.
HalfRemoved(c, w) ==
    call[c].op \in {"remove", "clean"} /\ call[c].at = "remove" /\ call[c].ws = w

\* What any table, call or history knows was drawn by an add.
KnownWereDrawn ==
    /\ config \cup saved \cup known \cup acked \subseteq used
    /\ \A w \in Workspaces : bound[w] # {} => w \in used
    /\ \A c \in Callers, w \in Workspaces :
          Adding(c, w) \/ Removing(c, w) \/ Cleaning(c, w) => w \in used

\* An add has its workspace to itself, but for removals: nobody else adds it,
\* no device is bound to it, so no clean-up looks for it, and the configuration
\* has it unless somebody removed it.
AddsAreAlone ==
    \A c \in Callers, w \in Workspaces :
        Adding(c, w) =>
            /\ w \notin acked /\ bound[w] = {}
            /\ \A b \in Callers \ {c} : ~Adding(b, w)
            /\ \A b \in Callers : ~Cleaning(b, w)
            /\ call[c].at \in {"register", "bind"} => w \in config \cup gone

\* And where no removal overlapped, the add finds what its last step left.
AddsAreInOrder ==
    \A c \in Callers, w \in Workspaces \ strays :
        Adding(c, w) =>
            /\ \A b \in Callers : ~Removing(b, w)
            /\ w \in config
            /\ call[c].at = "remove" => w \notin known

\* Outside strays the tables differ only while a call is half way.
TablesDifferInCallsOnly ==
    \A w \in Workspaces \ strays :
        /\ w \in known => w \in config
        /\ w \in config \ known =>
              \E c \in Callers : \/ Adding(c, w) /\ call[c].at \in {"register", "remove"}
                                 \/ HalfRemoved(c, w)
        /\ \A c \in Callers : HalfRemoved(c, w) => w \notin known

\* The file is the configuration, but for a write that was cut off.
FileIsConfig == torn \/ saved = config

WorkspacesInv ==
    /\ WorkspacesTypeOK
    /\ SessionsHaveWorkspaces
    /\ tracked \subseteq config
    /\ FileIsConfig
    /\ acked \ gone \subseteq config
    /\ KnownWereDrawn
    /\ AddsAreAlone
    /\ AddsAreInOrder
    /\ TablesDifferInCallsOnly

\* What a save does to the file, for any map it writes.
LEMMA SaveTypes ==
    ASSUME WorkspacesTypeOK, NEW ws \in SUBSET Workspaces, SaveWorks(ws) \/ SaveFails
    PROVE  saved' \subseteq Workspaces /\ fails' \in Nat /\ torn' \in BOOLEAN
<1>1. saved' \subseteq Workspaces /\ fails' \in Nat
  BY DEF WorkspacesTypeOK, SaveWorks, SaveFails
<1>2. torn' = FALSE \/ torn' = torn \/ torn' = TRUE
  BY DEF SaveWorks, SaveFails
<1> QED
  BY <1>1, <1>2 DEF WorkspacesTypeOK

\* A removal keeps the configuration's tables in their types; it takes w out of
\* the configuration, or leaves that alone.
LEMMA RemovalTypes ==
    ASSUME WorkspacesTypeOK, NEW w \in Workspaces, RemoveFromConfig(w)
    PROVE  /\ config' \in {config, config \ {w}}
           /\ saved' \subseteq Workspaces /\ tracked' \subseteq Workspaces
           /\ fails' \in Nat /\ torn' \in BOOLEAN
<1>1. SaveWorks(config \ {w}) \/ SaveFails
  BY DEF RemoveFromConfig
<1>2. config \ {w} \in SUBSET Workspaces
  BY DEF WorkspacesTypeOK
<1> QED
  BY <1>1, <1>2, SaveTypes DEF RemoveFromConfig, Registers, WorkspacesTypeOK

\* The steps of a call.
LEMMA CallSteps ==
    /\ Idle \in Call
    /\ \A w \in Workspaces, d \in Devices, at \in {"register", "bind", "unregister", "remove"} :
          [op |-> "add", at |-> at, ws |-> w, device |-> d] \in Call
    /\ \A w \in Workspaces, at \in {"unregister", "remove", "unbind"} :
          [op |-> "remove", at |-> at, ws |-> w] \in Call
    /\ \A w \in Workspaces, ws \in SUBSET Workspaces, at \in {"check", "unregister", "remove"} :
          [op |-> "clean", at |-> at, ws |-> w, todo |-> ws] \in Call
BY DEF Call

\* What a call that is at work holds.
LEMMA CallShapes ==
    ASSUME NEW k \in Call
    PROVE  /\ k.op = "add" => /\ k.ws \in Workspaces /\ k.device \in Devices
                              /\ \A at \in {"register", "bind", "unregister", "remove"} :
                                    /\ [k EXCEPT !.at = at] \in Call
                                    /\ [k EXCEPT !.at = at].at = at
           /\ k.op = "remove" => /\ k.ws \in Workspaces
                                 /\ \A at \in {"unregister", "remove", "unbind"} :
                                       /\ [k EXCEPT !.at = at] \in Call
                                       /\ [k EXCEPT !.at = at].at = at
           /\ k.op = "clean" => /\ k.ws \in Workspaces /\ k.todo \subseteq Workspaces
                                /\ \A at \in {"check", "unregister", "remove"} :
                                      /\ [k EXCEPT !.at = at] \in Call
                                      /\ [k EXCEPT !.at = at].at = at
           /\ \A at : /\ [k EXCEPT !.at = at].op = k.op
                      /\ k # Idle => [k EXCEPT !.at = at].ws = k.ws
                      /\ k.op = "clean" => [k EXCEPT !.at = at].todo = k.todo
           /\ k.op \in {"idle", "add", "remove", "clean"}
           /\ k.op = "idle" <=> k = Idle
<1>1. CASE k = Idle
  BY <1>1 DEF Idle
<1>2. CASE k \in [op : {"add"}, at : {"register", "bind", "unregister", "remove"},
                  ws : Workspaces, device : Devices]
  BY <1>2 DEF Call, Idle
<1>3. CASE k \in [op : {"remove"}, at : {"unregister", "remove", "unbind"}, ws : Workspaces]
  BY <1>3 DEF Call, Idle
<1>4. CASE k \in [op : {"clean"}, at : {"check", "unregister", "remove"},
                  ws : Workspaces, todo : SUBSET Workspaces]
  BY <1>4 DEF Call, Idle
<1> QED
  BY <1>1, <1>2, <1>3, <1>4 DEF Call

\* The workspaces that the calls other than c are at work on do not change.
OthersStay(c) == \A b \in Callers \ {c} : call'[b] = call[b]

\* A call that takes its next step stays with its workspace.
LEMMA CallGoesOn ==
    ASSUME WorkspacesTypeOK, NEW c \in Callers, NEW at, Goes(c, [call[c] EXCEPT !.at = at]),
           \/ call[c].op = "add" /\ at \in {"register", "bind", "unregister", "remove"}
           \/ call[c].op = "remove" /\ at \in {"unregister", "remove", "unbind"}
           \/ call[c].op = "clean" /\ at \in {"check", "unregister", "remove"}
    PROVE  /\ call' \in [Callers -> Call]
           /\ OthersStay(c)
           /\ call[c].ws \in Workspaces
           /\ call'[c].op = call[c].op /\ call'[c].ws = call[c].ws /\ call'[c].at = at
           /\ \A b \in Callers, w \in Workspaces :
                 /\ Adding(b, w)' <=> Adding(b, w)
                 /\ Removing(b, w)' <=> Removing(b, w)
                 /\ Cleaning(b, w)' <=> Cleaning(b, w)
<1>1. call[c] \in Call /\ call[c] # Idle
  BY DEF WorkspacesTypeOK, Idle
<1>2. call'[c] = [call[c] EXCEPT !.at = at] /\ OthersStay(c)
  BY DEF Goes, WorkspacesTypeOK, OthersStay
<1>3. [call[c] EXCEPT !.at = at] \in Call
  BY <1>1, CallShapes
<1>4. call' \in [Callers -> Call]
  BY <1>3 DEF Goes, WorkspacesTypeOK
<1>5. /\ call[c].ws \in Workspaces
      /\ call'[c].op = call[c].op /\ call'[c].ws = call[c].ws /\ call'[c].at = at
      /\ call[c].op = "clean" => call'[c].todo = call[c].todo
  <2> DEFINE k == call[c]
  <2>1. k \in Call /\ k # Idle /\ call'[c] = [k EXCEPT !.at = at]
    BY <1>1, <1>2
  <2>2. \/ k.op = "add" /\ at \in {"register", "bind", "unregister", "remove"}
        \/ k.op = "remove" /\ at \in {"unregister", "remove", "unbind"}
        \/ k.op = "clean" /\ at \in {"check", "unregister", "remove"}
    OBVIOUS
  <2> HIDE DEF k
  <2>3. k.ws \in Workspaces /\ [k EXCEPT !.at = at].at = at
    <3>1. k \in Call
      BY <2>1
    <3>2. CASE k.op = "add" /\ at \in {"register", "bind", "unregister", "remove"}
      BY <3>1, <3>2, CallShapes
    <3>3. CASE k.op = "remove" /\ at \in {"unregister", "remove", "unbind"}
      BY <3>1, <3>3, CallShapes
    <3>4. CASE k.op = "clean" /\ at \in {"check", "unregister", "remove"}
      BY <3>1, <3>4, CallShapes
    <3> QED
      BY <2>2, <3>2, <3>3, <3>4
  <2>4. /\ [k EXCEPT !.at = at].op = k.op /\ [k EXCEPT !.at = at].ws = k.ws
        /\ k.op = "clean" => [k EXCEPT !.at = at].todo = k.todo
    BY <2>1, CallShapes
  <2> QED
    BY <2>1, <2>3, <2>4 DEF k
<1> QED
  BY <1>2, <1>4, <1>5 DEF OthersStay, Adding, Removing, Cleaning

\* A call that ends is at work on nothing.
LEMMA CallEnds ==
    ASSUME WorkspacesTypeOK, NEW c \in Callers, Ends(c)
    PROVE  /\ call' \in [Callers -> Call]
           /\ OthersStay(c)
           /\ call'[c].op = "idle"
           /\ \A b \in Callers, w \in Workspaces :
                 /\ Adding(b, w)' <=> b # c /\ Adding(b, w)
                 /\ Removing(b, w)' <=> b # c /\ Removing(b, w)
                 /\ Cleaning(b, w)' <=> b # c /\ Cleaning(b, w)
<1>1. call' \in [Callers -> Call] /\ OthersStay(c) /\ call'[c].op = "idle"
  BY CallSteps DEF Ends, Goes, Idle, WorkspacesTypeOK, OthersStay
<1> QED
  BY <1>1 DEF OthersStay, Adding, Removing, Cleaning

\* A clean-up goes on to a workspace of its list, or ends.
LEMMA CleanGoesOn ==
    ASSUME WorkspacesTypeOK, NEW c \in Callers, NEW ws \in SUBSET Workspaces, CleanNext(c, ws)
    PROVE  /\ call' \in [Callers -> Call]
           /\ OthersStay(c)
           /\ call'[c].op \in {"idle", "clean"}
           /\ call'[c].op = "clean" => call'[c].at = "check"
           /\ \A b \in Callers, w \in Workspaces :
                 /\ Adding(b, w)' <=> b # c /\ Adding(b, w)
                 /\ Removing(b, w)' <=> b # c /\ Removing(b, w)
                 /\ b # c => (Cleaning(b, w)' <=> Cleaning(b, w))
                 /\ Cleaning(c, w)' => w \in ws
<1>1. CASE ws = {}
  BY <1>1, CallEnds DEF CleanNext
<1>2. CASE ws # {}
  <2>1. PICK v \in ws : Goes(c, [op |-> "clean", at |-> "check", ws |-> v, todo |-> ws \ {v}])
    BY <1>2 DEF CleanNext
  <2>2. [op |-> "clean", at |-> "check", ws |-> v, todo |-> ws \ {v}] \in Call
    BY CallSteps
  <2>3. call' \in [Callers -> Call] /\ OthersStay(c)
    BY <2>1, <2>2 DEF Goes, WorkspacesTypeOK, OthersStay
  <2>4. call'[c] = [op |-> "clean", at |-> "check", ws |-> v, todo |-> ws \ {v}]
    BY <2>1 DEF Goes, WorkspacesTypeOK
  <2> QED
    BY <2>3, <2>4 DEF OthersStay, Adding, Removing, Cleaning
<1> QED
  BY <1>1, <1>2

\* The second section of an add, which tells the session manager, keeps the invariant.
LEMMA RegisterWorkspaceKeeps ==
    ASSUME WorkspacesInv, NEW c \in Callers, RegisterWorkspace(c)
    PROVE  WorkspacesInv'
<1> DEFINE v == call[c].ws
<1> USE DEF WorkspacesInv
<1>1. /\ call[c].op = "add" /\ call[c].at = "register"
      /\ known' = known \cup {v}
      /\ Goes(c, [call[c] EXCEPT !.at = "bind"])
      /\ UNCHANGED <<config, saved, tracked, sessions, devices, bound, used, fails, restarts,
                     acked, gone, left, strays, torn>>
  BY DEF RegisterWorkspace, registry, bounds, workspaceHistory
<1>2. /\ call' \in [Callers -> Call] /\ OthersStay(c)
      /\ call'[c].op = "add" /\ call'[c].at = "bind" /\ call'[c].ws = v
      /\ \A b \in Callers, w \in Workspaces :
            /\ Adding(b, w)' <=> Adding(b, w)
            /\ Removing(b, w)' <=> Removing(b, w)
            /\ Cleaning(b, w)' <=> Cleaning(b, w)
  BY <1>1, CallGoesOn
<1>3. v \in Workspaces /\ Adding(c, v)
  BY <1>1, CallGoesOn DEF Adding
<1> HIDE DEF v
<1>4. WorkspacesTypeOK'
  BY <1>1, <1>2, <1>3 DEF WorkspacesTypeOK
<1>5. SessionsHaveWorkspaces' /\ (tracked \subseteq config)' /\ FileIsConfig' /\ (acked \ gone \subseteq config)'
  BY <1>1 DEF SessionsHaveWorkspaces, FileIsConfig
<1>6. KnownWereDrawn'
  BY <1>1, <1>2, <1>3 DEF KnownWereDrawn
<1>7. AddsAreAlone'
  BY <1>1, <1>2, <1>3 DEF AddsAreAlone, OthersStay
<1>8. AddsAreInOrder'
  BY <1>1, <1>2, <1>3 DEF AddsAreInOrder, AddsAreAlone, OthersStay
<1>9. TablesDifferInCallsOnly'
  BY <1>1, <1>2, <1>3 DEF TablesDifferInCallsOnly, AddsAreInOrder, AddsAreAlone, OthersStay, HalfRemoved, Adding, Removing, Cleaning
<1> QED
  BY <1>4, <1>5, <1>6, <1>7, <1>8, <1>9

\* A call that begins.
LEMMA CallBegins ==
    ASSUME WorkspacesTypeOK, NEW c \in Callers, call[c] = Idle, NEW k \in Call, Goes(c, k)
    PROVE  /\ call' \in [Callers -> Call]
           /\ OthersStay(c)
           /\ call'[c] = k
           /\ \A b \in Callers \ {c}, w \in Workspaces :
                 /\ Adding(b, w)' <=> Adding(b, w)
                 /\ Removing(b, w)' <=> Removing(b, w)
                 /\ Cleaning(b, w)' <=> Cleaning(b, w)
           /\ \A w \in Workspaces : ~Adding(c, w) /\ ~Removing(c, w) /\ ~Cleaning(c, w) /\ ~HalfRemoved(c, w)
<1>1. call' \in [Callers -> Call] /\ OthersStay(c) /\ call'[c] = k
  BY DEF Goes, WorkspacesTypeOK, OthersStay
<1> QED
  BY <1>1 DEF OthersStay, Adding, Removing, Cleaning, HalfRemoved, Idle

\* A removal under the configuration's lock keeps the file, the trackers and
\* the map together, whether its save fails or not.
LEMMA RemovalKeeps ==
    ASSUME WorkspacesInv, NEW w \in Workspaces, w \in config, RemoveFromConfig(w)
    PROVE  /\ config' \in {config, config \ {w}}
           /\ saved' \subseteq Workspaces /\ tracked' \subseteq config'
           /\ fails' \in Nat /\ torn' \in BOOLEAN
           /\ FileIsConfig' /\ saved' \subseteq used
<1>1. /\ config' \in {config, config \ {w}}
      /\ saved' \subseteq Workspaces /\ fails' \in Nat /\ torn' \in BOOLEAN
  BY RemovalTypes DEF WorkspacesInv
<1>2. tracked' \subseteq config'
  BY DEF RemoveFromConfig, Registers, WorkspacesInv
<1>3. FileIsConfig' /\ saved' \subseteq used
  BY DEF RemoveFromConfig, SaveWorks, SaveFails, FileIsConfig, WorkspacesInv, KnownWereDrawn
<1> QED
  BY <1>1, <1>2, <1>3

\* The first section of an add, which saves the configuration or fails, keeps the invariant.
LEMMA AddBegins ==
    ASSUME WorkspacesInv, NEW c \in Callers, NEW v \in Workspaces, NEW d \in Devices,
           AddWorkspaceWithOptions(c, v, d)
    PROVE  WorkspacesInv'
<1> USE DEF WorkspacesInv
<1>1. /\ call[c] = Idle /\ v \notin used /\ used' = used \cup {v}
      /\ UNCHANGED <<known, sessions, devices, bound, restarts, acked, gone, left, strays>>
  BY DEF AddWorkspaceWithOptions, registry
<1>2. \A b \in Callers : ~Adding(b, v) /\ ~Removing(b, v) /\ ~Cleaning(b, v) /\ ~HalfRemoved(b, v)
  BY <1>1, CallShapes DEF KnownWereDrawn, HalfRemoved, Removing, Cleaning
<1>3. v \notin config \cup saved \cup known \cup acked /\ bound[v] = {}
  BY <1>1 DEF KnownWereDrawn
<1>4. CASE /\ SaveWorks(config \cup {v})
           /\ config' = config \cup {v} /\ tracked' = tracked \cup {v}
           /\ Goes(c, [op |-> "add", at |-> "register", ws |-> v, device |-> d])
  <2> DEFINE k == [op |-> "add", at |-> "register", ws |-> v, device |-> d]
  <2>1. k \in Call
    BY CallSteps
  <2>2. /\ call' \in [Callers -> Call] /\ OthersStay(c) /\ call'[c] = k
        /\ \A b \in Callers \ {c}, w \in Workspaces :
              /\ Adding(b, w)' <=> Adding(b, w)
              /\ Removing(b, w)' <=> Removing(b, w)
              /\ Cleaning(b, w)' <=> Cleaning(b, w)
        /\ \A w \in Workspaces : ~Adding(c, w) /\ ~Removing(c, w) /\ ~Cleaning(c, w) /\ ~HalfRemoved(c, w)
    BY <2>1, <1>1, <1>4, CallBegins
  <2>3. /\ \A w \in Workspaces : /\ Adding(c, w)' <=> w = v
                                 /\ ~Removing(c, w)' /\ ~Cleaning(c, w)' /\ ~HalfRemoved(c, w)'
        /\ call'[c].at = "register"
    BY <2>2 DEF Adding, Removing, Cleaning, HalfRemoved
  <2>4. \A b \in Callers \ {c}, w \in Workspaces : HalfRemoved(b, w)' <=> HalfRemoved(b, w)
    BY <2>2 DEF OthersStay, HalfRemoved
  <2>5. saved' = config' /\ torn' = FALSE /\ fails' = fails
    BY <1>4 DEF SaveWorks
  <2> HIDE DEF k
  <2>6. WorkspacesTypeOK'
    BY <1>1, <1>4, <2>2, <2>5 DEF WorkspacesTypeOK
  <2>7. SessionsHaveWorkspaces' /\ (tracked \subseteq config)' /\ FileIsConfig' /\ (acked \ gone \subseteq config)'
    BY <1>1, <1>4, <2>5 DEF SessionsHaveWorkspaces, FileIsConfig
  <2>8. KnownWereDrawn'
    BY <1>1, <1>4, <2>2, <2>3, <2>5 DEF KnownWereDrawn
  <2>9. AddsAreAlone'
    BY <1>1, <1>2, <1>3, <1>4, <2>2, <2>3 DEF AddsAreAlone, OthersStay
  <2>10. AddsAreInOrder'
    BY <1>1, <1>2, <1>3, <1>4, <2>2, <2>3 DEF AddsAreInOrder, OthersStay
  <2>11. TablesDifferInCallsOnly'
    <3>1. \A w \in Workspaces \ strays, b \in Callers :
             \/ Adding(b, w) /\ call[b].at \in {"register", "remove"}
             \/ HalfRemoved(b, w)
             => \/ Adding(b, w)' /\ call'[b].at \in {"register", "remove"}
                \/ HalfRemoved(b, w)'
      BY <2>2, <2>3, <2>4 DEF OthersStay
    <3> QED
      BY <3>1, <1>1, <1>2, <1>3, <1>4, <2>3, <2>4 DEF TablesDifferInCallsOnly
  <2> QED
    BY <2>6, <2>7, <2>8, <2>9, <2>10, <2>11
<1>5. CASE SaveFails /\ UNCHANGED <<config, tracked, call>>
  <2>1. /\ fails' \in Nat
        /\ \/ saved' = saved /\ torn' = torn
           \/ saved' = {} /\ torn' = TRUE
    BY <1>5 DEF SaveFails, WorkspacesTypeOK
  <2>2. WorkspacesTypeOK'
    BY <1>1, <1>5, <2>1 DEF WorkspacesTypeOK
  <2>3. SessionsHaveWorkspaces' /\ (tracked \subseteq config)' /\ FileIsConfig' /\ (acked \ gone \subseteq config)'
    BY <1>1, <1>5, <2>1 DEF SessionsHaveWorkspaces, FileIsConfig
  <2>4. KnownWereDrawn'
    BY <1>1, <1>5, <2>1 DEF KnownWereDrawn, Adding, Removing, Cleaning
  <2>5. AddsAreAlone' /\ AddsAreInOrder' /\ TablesDifferInCallsOnly'
    BY <1>1, <1>5 DEF AddsAreAlone, AddsAreInOrder, TablesDifferInCallsOnly, Adding, Removing, Cleaning, HalfRemoved
  <2> QED
    BY <2>2, <2>3, <2>4, <2>5
<1> QED
  BY <1>4, <1>5 DEF AddWorkspaceWithOptions

\* The last section of an add, which binds the device, keeps the invariant.
LEMMA BindWorkspaceKeeps ==
    ASSUME WorkspacesInv, NEW c \in Callers, BindWorkspace(c)
    PROVE  WorkspacesInv'
<1> DEFINE v == call[c].ws
<1> USE DEF WorkspacesInv
<1>1. /\ call[c].op = "add" /\ call[c].at = "bind" /\ call[c] \in Call
      /\ UNCHANGED <<config, saved, tracked, known, sessions, devices, used, fails, restarts,
                     gone, left, strays, torn>>
  BY DEF BindWorkspace, tables, bounds, WorkspacesTypeOK
<1>2. v \in Workspaces /\ Adding(c, v)
  BY <1>1, CallShapes DEF Adding
<1> HIDE DEF v
<1>3. CASE /\ bound' = [bound EXCEPT ![v] = @ \cup {call[c].device}]
           /\ acked' = acked \cup {v} /\ Ends(c) /\ call[c].device \in devices
  <2>1. /\ call' \in [Callers -> Call] /\ OthersStay(c) /\ call'[c].op = "idle"
        /\ \A b \in Callers, w \in Workspaces :
              /\ Adding(b, w)' <=> b # c /\ Adding(b, w)
              /\ Removing(b, w)' <=> b # c /\ Removing(b, w)
              /\ Cleaning(b, w)' <=> b # c /\ Cleaning(b, w)
    BY <1>3, CallEnds
  <2>2. \A b \in Callers, w \in Workspaces : HalfRemoved(b, w)' <=> HalfRemoved(b, w)
    BY <1>1, <2>1 DEF OthersStay, HalfRemoved
  <2>3. /\ bound' \in [Workspaces -> SUBSET Devices]
        /\ \A w \in Workspaces \ {v} : bound'[w] = bound[w]
    BY <1>2, <1>3 DEF WorkspacesTypeOK
  <2>4. v \in used /\ v \in config \cup gone
    BY <1>1, <1>2 DEF KnownWereDrawn, AddsAreAlone
  <2>5. \A b \in Callers : b # c => ~Adding(b, v)
    BY <1>2 DEF AddsAreAlone
  <2>6. WorkspacesTypeOK'
    BY <1>1, <1>2, <1>3, <2>1, <2>3 DEF WorkspacesTypeOK
  <2>7. SessionsHaveWorkspaces' /\ (tracked \subseteq config)' /\ FileIsConfig' /\ (acked \ gone \subseteq config)'
    BY <1>1, <1>3, <2>4 DEF SessionsHaveWorkspaces, FileIsConfig
  <2>8. KnownWereDrawn'
    BY <1>1, <1>3, <2>1, <2>3, <2>4 DEF KnownWereDrawn
  <2>9. AddsAreAlone'
    BY <1>1, <1>2, <1>3, <2>1, <2>3, <2>5 DEF AddsAreAlone, OthersStay
  <2>10. AddsAreInOrder'
    BY <1>1, <2>1 DEF AddsAreInOrder, OthersStay
  <2>11. TablesDifferInCallsOnly'
    BY <1>1, <1>2, <2>1, <2>2 DEF TablesDifferInCallsOnly, OthersStay
  <2> QED
    BY <2>6, <2>7, <2>8, <2>9, <2>10, <2>11
<1>4. CASE Goes(c, [call[c] EXCEPT !.at = "unregister"]) /\ UNCHANGED <<bound, acked>>
  <2>1. /\ call' \in [Callers -> Call] /\ OthersStay(c)
        /\ call'[c].op = "add" /\ call'[c].at = "unregister"
        /\ \A b \in Callers, w \in Workspaces :
              /\ Adding(b, w)' <=> Adding(b, w)
              /\ Removing(b, w)' <=> Removing(b, w)
              /\ Cleaning(b, w)' <=> Cleaning(b, w)
    BY <1>1, <1>4, CallGoesOn
  <2>2. \A b \in Callers, w \in Workspaces : HalfRemoved(b, w)' <=> HalfRemoved(b, w)
    BY <1>1, <2>1 DEF OthersStay, HalfRemoved
  <2>3. WorkspacesTypeOK'
    BY <1>1, <1>4, <2>1 DEF WorkspacesTypeOK
  <2>4. SessionsHaveWorkspaces' /\ (tracked \subseteq config)' /\ FileIsConfig' /\ (acked \ gone \subseteq config)'
    BY <1>1, <1>4 DEF SessionsHaveWorkspaces, FileIsConfig
  <2>5. KnownWereDrawn'
    BY <1>1, <1>4, <2>1 DEF KnownWereDrawn
  <2>6. AddsAreAlone'
    BY <1>1, <1>4, <2>1 DEF AddsAreAlone, OthersStay
  <2>7. AddsAreInOrder'
    BY <1>1, <1>4, <2>1 DEF AddsAreInOrder, OthersStay
  <2>8. TablesDifferInCallsOnly'
    BY <1>1, <1>4, <2>1, <2>2 DEF TablesDifferInCallsOnly, OthersStay
  <2> QED
    BY <2>3, <2>4, <2>5, <2>6, <2>7, <2>8
<1> QED
  BY <1>1, <1>3, <1>4 DEF BindWorkspace, v

\* An add that could not bind is taken back from the session manager, and the invariant is
\* kept.
LEMMA UndoRegisterKeeps ==
    ASSUME WorkspacesInv, NEW c \in Callers, UndoRegister(c)
    PROVE  WorkspacesInv'
<1> DEFINE v == call[c].ws
<1> USE DEF WorkspacesInv
<1>1. /\ call[c].op = "add" /\ call[c].at = "unregister"
      /\ known' = (IF v \in sessions THEN known ELSE known \ {v})
      /\ strays' = (IF v \in sessions THEN strays \cup {v} ELSE strays)
      /\ Goes(c, [call[c] EXCEPT !.at = "remove"])
      /\ UNCHANGED <<config, saved, tracked, sessions, devices, bound, used, fails, restarts,
                     acked, gone, left, torn>>
  BY DEF UndoRegister, Unregister, registry, bounds
<1>2. /\ call' \in [Callers -> Call] /\ OthersStay(c)
      /\ call'[c].op = "add" /\ call'[c].at = "remove" /\ call'[c].ws = v
      /\ \A b \in Callers, w \in Workspaces :
            /\ Adding(b, w)' <=> Adding(b, w)
            /\ Removing(b, w)' <=> Removing(b, w)
            /\ Cleaning(b, w)' <=> Cleaning(b, w)
  BY <1>1, CallGoesOn
<1>3. v \in Workspaces /\ \A w \in Workspaces : Adding(c, w) <=> w = v
  BY <1>1, CallGoesOn DEF Adding
<1> HIDE DEF v
<1>4. \A b \in Callers, w \in Workspaces : HalfRemoved(b, w)' <=> HalfRemoved(b, w)
  BY <1>1, <1>2 DEF OthersStay, HalfRemoved
<1>5. WorkspacesTypeOK'
  BY <1>1, <1>2, <1>3 DEF WorkspacesTypeOK
<1>6. SessionsHaveWorkspaces' /\ (tracked \subseteq config)' /\ FileIsConfig' /\ (acked \ gone \subseteq config)'
  BY <1>1 DEF SessionsHaveWorkspaces, FileIsConfig
<1>7. KnownWereDrawn'
  BY <1>1, <1>2 DEF KnownWereDrawn
<1>8. AddsAreAlone'
  BY <1>1, <1>2 DEF AddsAreAlone, OthersStay
<1>9. AddsAreInOrder'
  BY <1>1, <1>2, <1>3 DEF AddsAreInOrder, AddsAreAlone, OthersStay
<1>10. TablesDifferInCallsOnly'
  BY <1>1, <1>2, <1>3, <1>4 DEF TablesDifferInCallsOnly, OthersStay
<1> QED
  BY <1>5, <1>6, <1>7, <1>8, <1>9, <1>10

\* An add that could not bind is taken out of the configuration, and the invariant is kept.
LEMMA UndoAddKeeps ==
    ASSUME WorkspacesInv, NEW c \in Callers, UndoAdd(c)
    PROVE  WorkspacesInv'
<1> DEFINE v == call[c].ws
<1> USE DEF WorkspacesInv
<1>1. /\ call[c].op = "add" /\ call[c].at = "remove" /\ call[c] \in Call
      /\ strays' = strays \cup ({v} \cap config') /\ Ends(c)
      /\ UNCHANGED <<known, sessions, devices, bound, used, restarts, acked, gone, left>>
  BY DEF UndoAdd, registry, WorkspacesTypeOK
<1>2. v \in Workspaces /\ \A w \in Workspaces : Adding(c, w) <=> w = v
  BY <1>1, CallShapes DEF Adding
<1>3. /\ call' \in [Callers -> Call] /\ OthersStay(c) /\ call'[c].op = "idle"
      /\ \A b \in Callers, w \in Workspaces :
            /\ Adding(b, w)' <=> b # c /\ Adding(b, w)
            /\ Removing(b, w)' <=> b # c /\ Removing(b, w)
            /\ Cleaning(b, w)' <=> b # c /\ Cleaning(b, w)
  BY <1>1, CallEnds
<1>4. \A b \in Callers, w \in Workspaces : HalfRemoved(b, w)' <=> HalfRemoved(b, w)
  BY <1>1, <1>3 DEF OthersStay, HalfRemoved
<1>5. /\ config' \in {config, config \ {v}}
      /\ saved' \subseteq Workspaces /\ tracked' \subseteq config'
      /\ fails' \in Nat /\ torn' \in BOOLEAN
      /\ FileIsConfig' /\ saved' \subseteq used
  <2>1. CASE v \in config /\ RemoveFromConfig(v)
    BY <1>2, <2>1, RemovalKeeps
  <2>2. CASE v \notin config /\ UNCHANGED <<config, saved, tracked, fails, torn>>
    BY <2>2 DEF WorkspacesTypeOK, FileIsConfig, KnownWereDrawn
  <2> QED
    BY <2>1, <2>2 DEF UndoAdd
<1> HIDE DEF v
<1>6. WorkspacesTypeOK'
  BY <1>1, <1>2, <1>3, <1>5 DEF WorkspacesTypeOK
<1>7. SessionsHaveWorkspaces' /\ (tracked \subseteq config)' /\ FileIsConfig' /\ (acked \ gone \subseteq config)'
  BY <1>1, <1>2, <1>5 DEF SessionsHaveWorkspaces, AddsAreAlone
<1>8. KnownWereDrawn'
  BY <1>1, <1>3, <1>5 DEF KnownWereDrawn
<1>9. AddsAreAlone'
  BY <1>1, <1>2, <1>3, <1>5 DEF AddsAreAlone, OthersStay
<1>10. AddsAreInOrder'
  BY <1>1, <1>2, <1>3, <1>5 DEF AddsAreInOrder, AddsAreAlone, OthersStay
<1>11. TablesDifferInCallsOnly'
  BY <1>1, <1>2, <1>3, <1>4, <1>5 DEF TablesDifferInCallsOnly, AddsAreInOrder, OthersStay
<1> QED
  BY <1>6, <1>7, <1>8, <1>9, <1>10, <1>11

\* A removal that finds the workspace and no session in it keeps the invariant.
LEMMA RemoveBeginsKeeps ==
    ASSUME WorkspacesInv, NEW c \in Callers, NEW v \in Workspaces, RemoveBegins(c, v)
    PROVE  WorkspacesInv'
<1> DEFINE k == [op |-> "remove", at |-> "unregister", ws |-> v]
<1> USE DEF WorkspacesInv
<1>1. /\ call[c] = Idle /\ v \in config /\ Goes(c, k) /\ k \in Call
      /\ strays' = IF \E b \in Callers : Adding(b, v) THEN strays \cup {v} ELSE strays
      /\ UNCHANGED <<config, saved, tracked, known, sessions, devices, bound, used, fails, restarts,
                     acked, gone, left, torn>>
  BY CallSteps DEF RemoveBegins, tables, registry, bounds, Adding
<1>2. /\ call' \in [Callers -> Call] /\ OthersStay(c) /\ call'[c] = k
      /\ \A b \in Callers \ {c}, w \in Workspaces :
            /\ Adding(b, w)' <=> Adding(b, w)
            /\ Removing(b, w)' <=> Removing(b, w)
            /\ Cleaning(b, w)' <=> Cleaning(b, w)
      /\ \A w \in Workspaces : ~Adding(c, w) /\ ~Removing(c, w) /\ ~Cleaning(c, w) /\ ~HalfRemoved(c, w)
  BY <1>1, CallBegins
<1>3. \A w \in Workspaces : /\ ~Adding(c, w)' /\ ~Cleaning(c, w)' /\ ~HalfRemoved(c, w)'
                            /\ Removing(c, w)' <=> w = v
  BY <1>2 DEF Adding, Removing, Cleaning, HalfRemoved
<1>4. \A b \in Callers \ {c}, w \in Workspaces : HalfRemoved(b, w)' <=> HalfRemoved(b, w)
  BY <1>2 DEF OthersStay, HalfRemoved
<1> HIDE DEF k
<1>5. WorkspacesTypeOK'
  BY <1>1, <1>2 DEF WorkspacesTypeOK
<1>6. SessionsHaveWorkspaces' /\ (tracked \subseteq config)' /\ FileIsConfig' /\ (acked \ gone \subseteq config)'
  BY <1>1 DEF SessionsHaveWorkspaces, FileIsConfig
<1>7. KnownWereDrawn'
  BY <1>1, <1>2, <1>3 DEF KnownWereDrawn
<1>8. AddsAreAlone'
  BY <1>1, <1>2, <1>3 DEF AddsAreAlone, OthersStay
<1>9. AddsAreInOrder'
  BY <1>1, <1>2, <1>3 DEF AddsAreInOrder, OthersStay
<1>10. TablesDifferInCallsOnly'
  BY <1>1, <1>2, <1>3, <1>4 DEF TablesDifferInCallsOnly, OthersStay
<1> QED
  BY <1>5, <1>6, <1>7, <1>8, <1>9, <1>10

\* A removal or clean-up that takes its workspace from the session manager.
LEMMA UnregisterKeeps ==
    ASSUME WorkspacesInv, NEW c \in Callers, call[c].op \in {"remove", "clean"}, call[c].at = "unregister",
           call[c].ws \notin sessions, Unregister(call[c].ws),
           Goes(c, [call[c] EXCEPT !.at = "remove"]),
           UNCHANGED <<config, saved, tracked, sessions, registry, bounds, workspaceHistory>>
    PROVE  WorkspacesInv'
<1> DEFINE v == call[c].ws
<1> USE DEF WorkspacesInv
<1>1. /\ known' = known \ {v} /\ v \notin sessions
      /\ UNCHANGED <<config, saved, tracked, sessions, devices, bound, used, fails, restarts,
                     acked, gone, left, strays, torn>>
  BY DEF Unregister, registry, bounds, workspaceHistory
<1>2. /\ call' \in [Callers -> Call] /\ OthersStay(c) /\ v \in Workspaces
      /\ call'[c].op = call[c].op /\ call'[c].at = "remove" /\ call'[c].ws = v
      /\ \A b \in Callers, w \in Workspaces :
            /\ Adding(b, w)' <=> Adding(b, w)
            /\ Removing(b, w)' <=> Removing(b, w)
            /\ Cleaning(b, w)' <=> Cleaning(b, w)
  BY CallGoesOn
<1>3. \/ Removing(c, v)
      \/ Cleaning(c, v)
  BY DEF Removing, Cleaning
<1>4. \A w \in Workspaces : ~Adding(c, w) /\ (HalfRemoved(c, w)' <=> w = v)
  BY <1>2 DEF Adding, HalfRemoved
<1>5. \A b \in Callers \ {c}, w \in Workspaces : HalfRemoved(b, w)' <=> HalfRemoved(b, w)
  BY <1>2 DEF OthersStay, HalfRemoved
<1> HIDE DEF v
<1>6. WorkspacesTypeOK'
  BY <1>1, <1>2 DEF WorkspacesTypeOK
<1>7. SessionsHaveWorkspaces' /\ (tracked \subseteq config)' /\ FileIsConfig' /\ (acked \ gone \subseteq config)'
  BY <1>1 DEF SessionsHaveWorkspaces, FileIsConfig
<1>8. KnownWereDrawn'
  BY <1>1, <1>2 DEF KnownWereDrawn
<1>9. AddsAreAlone'
  BY <1>1, <1>2, <1>4 DEF AddsAreAlone, OthersStay
<1>10. AddsAreInOrder'
  BY <1>1, <1>2, <1>4 DEF AddsAreInOrder, OthersStay
<1>11. TablesDifferInCallsOnly'
  <2>1. \A w \in Workspaces \ strays, b \in Callers :
           (\/ Adding(b, w) /\ call[b].at \in {"register", "remove"}
            \/ HalfRemoved(b, w))
           => \/ Adding(b, w)' /\ call'[b].at \in {"register", "remove"}
              \/ HalfRemoved(b, w)'
    <3>1. ~HalfRemoved(c, v)
      BY DEF HalfRemoved
    <3> QED
      BY <1>2, <1>4, <1>5 DEF OthersStay, HalfRemoved
  <2> QED
    BY <2>1, <1>1, <1>2, <1>4, <1>5 DEF TablesDifferInCallsOnly
<1> QED
  BY <1>6, <1>7, <1>8, <1>9, <1>10, <1>11

\* A removal or clean-up that is done with its workspace, and leaves behind
\* nothing that is half removed.
LEMMA CallStops ==
    ASSUME WorkspacesInv, NEW c \in Callers, call[c].op \in {"remove", "clean"},
           \A w \in Workspaces : HalfRemoved(c, w) => w \notin config \/ w \in strays,
           call' \in [Callers -> Call], OthersStay(c),
           call'[c].op \in {"idle", "clean"}, call'[c].op = "clean" => call'[c].at = "check",
           \A w \in Workspaces : Cleaning(c, w)' => Cleaning(c, w),
           bound' \in [Workspaces -> SUBSET Devices], \A w \in Workspaces : bound'[w] \subseteq bound[w],
           left' \subseteq Workspaces,
           UNCHANGED <<config, saved, tracked, known, sessions, devices, used, fails, restarts,
                       acked, gone, strays, torn>>
    PROVE  WorkspacesInv'
<1> USE DEF WorkspacesInv
<1>1. \A b \in Callers, w \in Workspaces :
         /\ Adding(b, w)' <=> Adding(b, w)
         /\ Removing(b, w)' => Removing(b, w)
         /\ Cleaning(b, w)' => Cleaning(b, w)
  BY DEF OthersStay, Adding, Removing, Cleaning
<1>2. \A b \in Callers, w \in Workspaces : HalfRemoved(b, w)' <=> b # c /\ HalfRemoved(b, w)
  BY DEF OthersStay, HalfRemoved
<1>3. \A w \in Workspaces : ~Adding(c, w)
  BY DEF Adding
<1>4. WorkspacesTypeOK'
  BY DEF WorkspacesTypeOK
<1>5. SessionsHaveWorkspaces' /\ (tracked \subseteq config)' /\ FileIsConfig' /\ (acked \ gone \subseteq config)'
  BY DEF SessionsHaveWorkspaces, FileIsConfig
<1>6. KnownWereDrawn'
  BY <1>1 DEF KnownWereDrawn
<1>7. AddsAreAlone'
  BY <1>1, <1>3 DEF AddsAreAlone, OthersStay
<1>8. AddsAreInOrder'
  BY <1>1, <1>3 DEF AddsAreInOrder, OthersStay
<1>9. TablesDifferInCallsOnly'
  BY <1>1, <1>2, <1>3 DEF TablesDifferInCallsOnly, OthersStay
<1> QED
  BY <1>4, <1>5, <1>6, <1>7, <1>8, <1>9

\* A call that ends, or takes the next workspace of its list, stops.
LEMMA CallMovesOn ==
    ASSUME WorkspacesTypeOK, NEW c \in Callers,
           Ends(c) \/ (call[c].op = "clean" /\ CleanNext(c, call[c].todo))
    PROVE  /\ call' \in [Callers -> Call] /\ OthersStay(c)
           /\ call'[c].op \in {"idle", "clean"}
           /\ call'[c].op = "clean" => call'[c].at = "check"
           /\ \A w \in Workspaces : Cleaning(c, w)' => Cleaning(c, w)
<1>1. CASE Ends(c)
  BY <1>1, CallEnds
<1>2. CASE call[c].op = "clean" /\ CleanNext(c, call[c].todo)
  <2>1. call[c] \in Call
    BY DEF WorkspacesTypeOK
  <2>2. call[c].todo \in SUBSET Workspaces
    BY <1>2, <2>1, CallShapes
  <2> QED
    BY <1>2, <2>2, CleanGoesOn DEF Cleaning
<1> QED
  BY <1>1, <1>2

\* A removal that takes the workspace from the session manager keeps the invariant.
LEMMA RemoveUnregistersKeeps ==
    ASSUME WorkspacesInv, NEW c \in Callers, RemoveUnregisters(c)
    PROVE  WorkspacesInv'
<1> USE DEF WorkspacesInv
<1>1. /\ call[c].op = "remove" /\ call[c].at = "unregister" /\ Unregister(call[c].ws)
      /\ UNCHANGED <<config, saved, tracked, sessions, registry, bounds, workspaceHistory>>
  BY DEF RemoveUnregisters
<1>2. CASE call[c].ws \in sessions
  <2>1. Ends(c) /\ known' = known
    BY <1>1, <1>2 DEF RemoveUnregisters, Unregister
  <2>2. \A w \in Workspaces : ~HalfRemoved(c, w)
    BY <1>1 DEF HalfRemoved
  <2>3. WorkspacesTypeOK
    OBVIOUS
  <2> QED
    BY <1>1, <2>1, <2>2, <2>3, CallMovesOn, CallStops
       DEF registry, bounds, workspaceHistory, WorkspacesTypeOK
<1>3. CASE call[c].ws \notin sessions
  BY <1>1, <1>3, UnregisterKeeps DEF RemoveUnregisters
<1> QED
  BY <1>2, <1>3

\* A removal or clean-up that takes its workspace out of the configuration, or
\* fails to and leaves it astray.
LEMMA RemoveKeeps ==
    ASSUME WorkspacesInv, NEW c \in Callers, call[c].op \in {"remove", "clean"}, call[c].at = "remove",
           call[c].ws \in config, RemoveFromConfig(call[c].ws),
           gone' = gone \cup ({call[c].ws} \ config'),
           strays' = strays \cup ({call[c].ws} \cap config'),
           left' \subseteq Workspaces,
           call' \in [Callers -> Call], OthersStay(c),
           ~(call'[c].op \in {"remove", "clean"} /\ call'[c].at = "remove"),
           call'[c].op # "add",
           \A w \in Workspaces : /\ Removing(c, w)' => Removing(c, w)
                                 /\ Cleaning(c, w)' => Cleaning(c, w),
           UNCHANGED <<known, sessions, registry, used, restarts, acked>>
    PROVE  WorkspacesInv'
<1> DEFINE v == call[c].ws
<1> USE DEF WorkspacesInv
<1>1. call[c] \in Call
  BY DEF WorkspacesTypeOK
<1>2. v \in Workspaces /\ UNCHANGED <<devices, bound>>
  BY <1>1, CallShapes DEF registry
<1>3. /\ config' \in {config, config \ {v}}
      /\ saved' \subseteq Workspaces /\ tracked' \subseteq config'
      /\ fails' \in Nat /\ torn' \in BOOLEAN
      /\ FileIsConfig' /\ saved' \subseteq used
  BY <1>2, RemovalKeeps
<1>4. \A b \in Callers, w \in Workspaces :
         /\ Adding(b, w)' <=> Adding(b, w)
         /\ Removing(b, w)' => Removing(b, w)
         /\ Cleaning(b, w)' => Cleaning(b, w)
         /\ HalfRemoved(b, w)' <=> b # c /\ HalfRemoved(b, w)
         /\ HalfRemoved(c, w) => w = v
  BY DEF OthersStay, Adding, Removing, Cleaning, HalfRemoved
<1>5. /\ \A w \in Workspaces : ~Adding(c, w)
      /\ Removing(c, v) \/ Cleaning(c, v)
      /\ HalfRemoved(c, v)
  BY DEF Adding, Removing, Cleaning, HalfRemoved
<1> HIDE DEF v
<1>6. WorkspacesTypeOK'
  <2>1. gone' \subseteq Workspaces /\ strays' \subseteq Workspaces
    BY <1>2 DEF WorkspacesTypeOK, v
  <2> QED
    BY <2>1, <1>2, <1>3 DEF WorkspacesTypeOK
<1>7. SessionsHaveWorkspaces' /\ (tracked \subseteq config)' /\ FileIsConfig' /\ (acked \ gone \subseteq config)'
  BY <1>2, <1>3 DEF SessionsHaveWorkspaces, v
<1>8. KnownWereDrawn'
  BY <1>2, <1>3, <1>4 DEF KnownWereDrawn
<1>9. AddsAreAlone'
  BY <1>2, <1>3, <1>4, <1>5 DEF AddsAreAlone, OthersStay, v
<1>10. AddsAreInOrder'
  <2>1. \A b \in Callers, w \in Workspaces \ strays : Adding(b, w) => w # v
    BY <1>2, <1>5 DEF AddsAreInOrder, AddsAreAlone
  <2>2. strays \subseteq strays'
    OBVIOUS
  <2> QED
    BY <1>2, <1>3, <1>4, <1>5, <2>1, <2>2 DEF AddsAreInOrder, OthersStay
<1>11. TablesDifferInCallsOnly'
  <2>1. \A w \in Workspaces \ strays' : /\ w \notin strays
                                       /\ w = v => w \notin config' /\ w \notin known
    BY <1>2, <1>5 DEF TablesDifferInCallsOnly, v
  <2> QED
    BY <1>2, <1>3, <1>4, <1>5, <2>1 DEF TablesDifferInCallsOnly, OthersStay
<1> QED
  BY <1>6, <1>7, <1>8, <1>9, <1>10, <1>11

\* A removal that saves the configuration, or fails and rolls back, keeps the invariant.
LEMMA RemoveRemovesKeeps ==
    ASSUME WorkspacesInv, NEW c \in Callers, RemoveRemoves(c)
    PROVE  WorkspacesInv'
<1> DEFINE v == call[c].ws
<1> USE DEF WorkspacesInv
<1>1. /\ call[c].op = "remove" /\ call[c].at = "remove" /\ WorkspacesTypeOK
      /\ UNCHANGED <<known, sessions, registry, used, restarts, acked, left>>
  BY DEF RemoveRemoves
<1>2. CASE /\ v \in config /\ RemoveFromConfig(v) /\ v \in config'
           /\ Ends(c) /\ strays' = strays \cup {v} /\ UNCHANGED gone
  BY <1>1, <1>2, CallEnds, RemoveKeeps DEF WorkspacesTypeOK, Cleaning, Removing
<1>3. CASE /\ v \in config /\ RemoveFromConfig(v) /\ v \notin config'
           /\ Goes(c, [call[c] EXCEPT !.at = "unbind"])
           /\ gone' = gone \cup {v} /\ UNCHANGED strays
  <2>1. /\ call' \in [Callers -> Call] /\ OthersStay(c)
        /\ call'[c].op = "remove" /\ call'[c].at = "unbind"
        /\ \A w \in Workspaces : Removing(c, w)' => Removing(c, w)
        /\ \A w \in Workspaces : Cleaning(c, w)' => Cleaning(c, w)
    BY <1>1, <1>3, CallGoesOn
  <2>2. gone' = gone \cup ({v} \ config') /\ strays' = strays \cup ({v} \cap config')
    BY <1>3
  <2> QED
    BY <1>1, <1>3, <2>1, <2>2, RemoveKeeps DEF WorkspacesTypeOK
<1>4. CASE /\ v \notin config /\ Ends(c)
           /\ UNCHANGED <<config, saved, tracked, fails, gone, strays, torn>>
  <2>1. \A w \in Workspaces : HalfRemoved(c, w) => w \notin config
    BY <1>4 DEF HalfRemoved
  <2> QED
    BY <1>1, <1>4, <2>1, CallMovesOn, CallStops DEF registry, WorkspacesTypeOK
<1> QED
  BY <1>2, <1>3, <1>4 DEF RemoveRemoves

\* A removal that unbinds the devices keeps the invariant.
LEMMA UnbindWorkspaceKeeps ==
    ASSUME WorkspacesInv, NEW c \in Callers, UnbindWorkspace(c)
    PROVE  WorkspacesInv'
<1> USE DEF WorkspacesInv
<1>1. /\ call[c].op = "remove" /\ call[c].at = "unbind" /\ Ends(c) /\ WorkspacesTypeOK
      /\ bound' = [bound EXCEPT ![call[c].ws] = {}]
      /\ UNCHANGED <<config, saved, tracked, known, sessions, devices, used, fails, restarts,
                     acked, gone, left, strays, torn>>
  BY DEF UnbindWorkspace, tables, bounds, workspaceHistory
<1>2. \A w \in Workspaces : ~HalfRemoved(c, w)
  BY <1>1 DEF HalfRemoved
<1>3. bound' \in [Workspaces -> SUBSET Devices] /\ \A w \in Workspaces : bound'[w] \subseteq bound[w]
  BY <1>1 DEF WorkspacesTypeOK
<1> QED
  BY <1>1, <1>2, <1>3, CallMovesOn, CallStops DEF WorkspacesTypeOK

\* Devices go, and a clean-up begins for the workspaces they leave alone.
LEMMA CleanBegins ==
    ASSUME WorkspacesInv, NEW c \in Callers, NEW ds \in SUBSET Devices,
           call[c] = Idle, Drop(ds), CleanNext(c, Orphaned(ds)),
           UNCHANGED <<tables, sessions, bounds, workspaceHistory>>
    PROVE  WorkspacesInv'
<1> USE DEF WorkspacesInv
<1>1. /\ UNCHANGED <<config, saved, tracked, known, sessions, used, fails, restarts,
                     acked, gone, left, strays, torn>>
      /\ devices' = devices \ ds
      /\ bound' = [w \in Workspaces |-> bound[w] \ ds]
  BY DEF Drop, tables, bounds, workspaceHistory
<1>2. Orphaned(ds) \in SUBSET Workspaces /\ \A w \in Orphaned(ds) : bound[w] # {}
  BY DEF Orphaned
<1>3. /\ call' \in [Callers -> Call] /\ OthersStay(c)
      /\ call'[c].op \in {"idle", "clean"}
      /\ call'[c].op = "clean" => call'[c].at = "check"
      /\ \A b \in Callers, w \in Workspaces :
            /\ Adding(b, w)' <=> b # c /\ Adding(b, w)
            /\ Removing(b, w)' <=> b # c /\ Removing(b, w)
            /\ b # c => (Cleaning(b, w)' <=> Cleaning(b, w))
            /\ Cleaning(c, w)' => w \in Orphaned(ds)
  BY <1>2, CleanGoesOn
<1>4. \A b \in Callers, w \in Workspaces :
         /\ HalfRemoved(b, w)' <=> HalfRemoved(b, w)
         /\ ~Adding(c, w)
  BY <1>3 DEF OthersStay, HalfRemoved, Adding, Idle
<1>5. \A w \in Orphaned(ds), b \in Callers : w \in used /\ ~Adding(b, w)
  BY <1>2 DEF KnownWereDrawn, AddsAreAlone
<1>6. WorkspacesTypeOK'
  BY <1>1, <1>3 DEF WorkspacesTypeOK
<1>7. SessionsHaveWorkspaces' /\ (tracked \subseteq config)' /\ FileIsConfig' /\ (acked \ gone \subseteq config)'
  BY <1>1 DEF SessionsHaveWorkspaces, FileIsConfig
<1>8. KnownWereDrawn'
  <2>1. \A w \in Workspaces : bound'[w] \subseteq bound[w]
    BY <1>1
  <2> QED
    BY <1>1, <1>3, <1>5, <2>1 DEF KnownWereDrawn
<1>9. AddsAreAlone'
  <2>1. \A w \in Workspaces : bound'[w] \subseteq bound[w]
    BY <1>1
  <2> QED
    BY <1>1, <1>3, <1>5, <2>1 DEF AddsAreAlone, OthersStay
<1>10. AddsAreInOrder'
  BY <1>1, <1>3 DEF AddsAreInOrder, OthersStay
<1>11. TablesDifferInCallsOnly'
  BY <1>1, <1>3, <1>4 DEF TablesDifferInCallsOnly, OthersStay
<1> QED
  BY <1>6, <1>7, <1>8, <1>9, <1>10, <1>11

\* The clean-up that looks whether a workspace may go keeps the invariant.
LEMMA CleanChecksKeeps ==
    ASSUME WorkspacesInv, NEW c \in Callers, CleanChecks(c)
    PROVE  WorkspacesInv'
<1> DEFINE v == call[c].ws
<1> USE DEF WorkspacesInv
<1>1. /\ call[c].op = "clean" /\ call[c].at = "check" /\ WorkspacesTypeOK
      /\ UNCHANGED <<config, saved, tracked, known, sessions, devices, bound, used, fails, restarts,
                     acked, gone, strays, torn>>
  BY DEF CleanChecks, tables, registry, bounds
<1>2. \A w \in Workspaces : ~HalfRemoved(c, w)
  BY <1>1 DEF HalfRemoved
<1>3. CASE Goes(c, [call[c] EXCEPT !.at = "unregister"]) /\ UNCHANGED left
  <2>1. /\ call' \in [Callers -> Call] /\ OthersStay(c)
        /\ call'[c].op = "clean" /\ call'[c].at = "unregister"
        /\ \A b \in Callers, w \in Workspaces :
              /\ Adding(b, w)' <=> Adding(b, w)
              /\ Removing(b, w)' <=> Removing(b, w)
              /\ Cleaning(b, w)' <=> Cleaning(b, w)
    BY <1>1, <1>3, CallGoesOn
  <2>2. \A b \in Callers, w \in Workspaces : /\ HalfRemoved(b, w)' <=> HalfRemoved(b, w)
                                             /\ ~Adding(c, w)
    BY <1>1, <2>1 DEF OthersStay, HalfRemoved, Adding
  <2>3. WorkspacesTypeOK'
    BY <1>1, <1>3, <2>1 DEF WorkspacesTypeOK
  <2>4. SessionsHaveWorkspaces' /\ (tracked \subseteq config)' /\ FileIsConfig' /\ (acked \ gone \subseteq config)'
    BY <1>1 DEF SessionsHaveWorkspaces, FileIsConfig
  <2>5. KnownWereDrawn' /\ AddsAreAlone' /\ AddsAreInOrder'
    BY <1>1, <2>1, <2>2 DEF KnownWereDrawn, AddsAreAlone, AddsAreInOrder, OthersStay
  <2>6. TablesDifferInCallsOnly'
    BY <1>1, <2>1, <2>2 DEF TablesDifferInCallsOnly, OthersStay
  <2> QED
    BY <2>3, <2>4, <2>5, <2>6
<1>4. CASE CleanNext(c, call[c].todo) /\ left' = left \cup ({v} \cap sessions)
  BY <1>1, <1>2, <1>4, CallMovesOn, CallStops DEF WorkspacesTypeOK
<1> QED
  BY <1>3, <1>4 DEF CleanChecks

\* The clean-up that takes a workspace from the session manager keeps the invariant.
LEMMA CleanUnregistersKeeps ==
    ASSUME WorkspacesInv, NEW c \in Callers, CleanUnregisters(c)
    PROVE  WorkspacesInv'
<1> DEFINE v == call[c].ws
<1> USE DEF WorkspacesInv
<1>1. /\ call[c].op = "clean" /\ call[c].at = "unregister" /\ Unregister(v) /\ WorkspacesTypeOK
      /\ UNCHANGED <<config, saved, tracked, sessions, registry, bounds, acked, gone, strays, torn>>
  BY DEF CleanUnregisters
<1>2. CASE v \in sessions /\ CleanNext(c, call[c].todo) /\ left' = left \cup {v}
  <2>1. (\A w \in Workspaces : ~HalfRemoved(c, w)) /\ known' = known
    BY <1>1, <1>2 DEF HalfRemoved, Unregister
  <2>2. left' \subseteq Workspaces
    BY <1>1, <1>2 DEF WorkspacesTypeOK
  <2> QED
    BY <1>1, <1>2, <2>1, <2>2, CallMovesOn, CallStops DEF WorkspacesTypeOK, registry, bounds
<1>3. CASE v \notin sessions /\ Goes(c, [call[c] EXCEPT !.at = "remove"]) /\ UNCHANGED left
  BY <1>1, <1>3, UnregisterKeeps DEF workspaceHistory
<1> QED
  BY <1>2, <1>3 DEF CleanUnregisters

\* The clean-up that takes a workspace out of the configuration keeps the invariant.
LEMMA CleanRemovesKeeps ==
    ASSUME WorkspacesInv, NEW c \in Callers, CleanRemoves(c)
    PROVE  WorkspacesInv'
<1> DEFINE v == call[c].ws
<1> USE DEF WorkspacesInv
<1>1. /\ call[c].op = "clean" /\ call[c].at = "remove" /\ WorkspacesTypeOK
      /\ CleanNext(c, call[c].todo)
      /\ UNCHANGED <<known, sessions, registry, used, restarts, acked>>
  BY DEF CleanRemoves
<1>2. /\ call' \in [Callers -> Call] /\ OthersStay(c)
      /\ call'[c].op \in {"idle", "clean"}
      /\ call'[c].op = "clean" => call'[c].at = "check"
      /\ \A w \in Workspaces : Cleaning(c, w)' => Cleaning(c, w)
  BY <1>1, CallMovesOn
<1>3. CASE /\ v \in config /\ RemoveFromConfig(v)
           /\ gone' = gone \cup ({v} \ config')
           /\ left' = left \cup ({v} \cap config') /\ strays' = strays \cup ({v} \cap config')
  <2>1. left' \subseteq Workspaces
    BY <1>1, <1>3 DEF WorkspacesTypeOK
  <2>2. \A w \in Workspaces : Removing(c, w)' => Removing(c, w)
    BY <1>2 DEF Removing
  <2> QED
    BY <1>1, <1>2, <1>3, <2>1, <2>2, RemoveKeeps
<1>4. CASE /\ v \notin config
           /\ UNCHANGED <<config, saved, tracked, fails, torn, gone, left, strays>>
  <2>1. \A w \in Workspaces : HalfRemoved(c, w) => w \notin config
    BY <1>4 DEF HalfRemoved
  <2> QED
    BY <1>1, <1>2, <1>4, <2>1, CallStops DEF WorkspacesTypeOK, registry
<1> QED
  BY <1>3, <1>4 DEF CleanRemoves

\* The steps that touch no call.
LEMMA UpdateWorkspaceKeeps ==
    ASSUME WorkspacesInv, NEW w \in Workspaces, UpdateWorkspace(w)
    PROVE  WorkspacesInv'
<1> USE DEF WorkspacesInv
<1>1. UNCHANGED <<config, tracked, known, sessions, devices, bound, call, used, restarts,
                  acked, gone, left, strays>>
  BY DEF UpdateWorkspace, registry
<1>2. /\ fails' \in Nat
      /\ \/ saved' = config /\ torn' = FALSE
         \/ saved' = saved /\ torn' = torn
         \/ saved' = {} /\ torn' = TRUE
  BY DEF UpdateWorkspace, SaveWorks, SaveFails, WorkspacesTypeOK
<1>3. WorkspacesTypeOK'
  BY <1>1, <1>2 DEF WorkspacesTypeOK
<1>4. SessionsHaveWorkspaces' /\ (tracked \subseteq config)' /\ FileIsConfig' /\ (acked \ gone \subseteq config)'
  BY <1>1, <1>2 DEF SessionsHaveWorkspaces, FileIsConfig
<1>5. KnownWereDrawn'
  BY <1>1, <1>2 DEF KnownWereDrawn, Adding, Removing, Cleaning
<1>6. AddsAreAlone' /\ AddsAreInOrder' /\ TablesDifferInCallsOnly'
  BY <1>1 DEF AddsAreAlone, AddsAreInOrder, TablesDifferInCallsOnly, Adding, Removing, Cleaning, HalfRemoved
<1> QED
  BY <1>3, <1>4, <1>5, <1>6

\* Sessions that start and end, and devices that pair, keep the invariant.
LEMMA OutsideKeeps ==
    ASSUME WorkspacesInv,
           \/ \E w \in Workspaces : StartSession(w) \/ EndSession(w)
           \/ \E d \in Devices : RegisterDevice(d)
           \/ UNCHANGED workspaceVars
    PROVE  WorkspacesInv'
<1> USE DEF WorkspacesInv
<1>1. /\ UNCHANGED <<config, saved, tracked, known, bound, call, used, fails, restarts,
                     acked, gone, left, strays, torn>>
      /\ sessions' \subseteq known /\ devices' \subseteq Devices
  BY DEF StartSession, EndSession, RegisterDevice, workspaceVars, tables, registry, bounds,
         workspaceHistory, WorkspacesTypeOK, SessionsHaveWorkspaces
<1>2. WorkspacesTypeOK'
  BY <1>1 DEF WorkspacesTypeOK
<1>3. SessionsHaveWorkspaces' /\ (tracked \subseteq config)' /\ FileIsConfig' /\ (acked \ gone \subseteq config)'
  BY <1>1 DEF SessionsHaveWorkspaces, FileIsConfig
<1>4. KnownWereDrawn' /\ AddsAreAlone' /\ AddsAreInOrder' /\ TablesDifferInCallsOnly'
  BY <1>1 DEF KnownWereDrawn, AddsAreAlone, AddsAreInOrder, TablesDifferInCallsOnly,
              Adding, Removing, Cleaning, HalfRemoved
<1> QED
  BY <1>2, <1>3, <1>4

\* A restart, which reads the files and forgets the calls, keeps the invariant.
LEMMA RestartKeeps ==
    ASSUME WorkspacesInv, Restart
    PROVE  WorkspacesInv'
<1> USE DEF WorkspacesInv
<1>1. /\ restarts' = restarts + 1 /\ saved' = config' /\ known' = config' /\ sessions' = {} /\ strays' = {}
      /\ tracked' \subseteq config'
      /\ call' = [c \in Callers |-> Idle]
      /\ \/ config' = saved /\ torn' = torn
         \/ config' = {} /\ torn' = TRUE
      /\ acked' = IF torn' THEN acked \cap config' ELSE acked
      /\ left' = left \cup {w \in config' : bound[w] = {}}
      /\ UNCHANGED <<devices, bound, used, fails, gone>>
  BY DEF Restart, LoadWorkspaces, registry
<1>2. \A c \in Callers, w \in Workspaces :
         ~Adding(c, w)' /\ ~Removing(c, w)' /\ ~Cleaning(c, w)' /\ ~HalfRemoved(c, w)'
  BY <1>1 DEF Adding, Removing, Cleaning, HalfRemoved, Idle
<1>3. WorkspacesTypeOK'
  <2>1. call' \in [Callers -> Call]
    BY <1>1, CallSteps
  <2>2. config' \subseteq Workspaces /\ torn' \in BOOLEAN
    BY <1>1 DEF WorkspacesTypeOK
  <2>3. acked' \subseteq Workspaces /\ left' \subseteq Workspaces
    BY <1>1, <2>2 DEF WorkspacesTypeOK
  <2> QED
    BY <1>1, <2>1, <2>2, <2>3 DEF WorkspacesTypeOK
<1>4. SessionsHaveWorkspaces' /\ (tracked \subseteq config)' /\ FileIsConfig'
  BY <1>1 DEF SessionsHaveWorkspaces, FileIsConfig
<1>5. (acked \ gone \subseteq config)'
  <2>1. CASE torn'
    BY <1>1, <2>1
  <2>2. CASE ~torn'
    BY <1>1, <2>2 DEF FileIsConfig
  <2> QED
    BY <2>1, <2>2
<1>6. KnownWereDrawn'
  BY <1>1, <1>2 DEF KnownWereDrawn
<1>7. AddsAreAlone' /\ AddsAreInOrder' /\ TablesDifferInCallsOnly'
  BY <1>1, <1>2 DEF AddsAreAlone, AddsAreInOrder, TablesDifferInCallsOnly
<1> QED
  BY <1>3, <1>4, <1>5, <1>6, <1>7

\* The four tables, their file and the calls stay as WorkspacesInv says, for
\* any number of workspaces, devices and overlapping calls.
THEOREM WorkspacesInvariance == WorkspacesSpec => []WorkspacesInv
<1>1. WorkspacesInit => WorkspacesInv
  <2> SUFFICES ASSUME WorkspacesInit
               PROVE  WorkspacesInv
    OBVIOUS
  <2> USE DEF WorkspacesInit
  <2>1. \A c \in Callers, w \in Workspaces :
           ~Adding(c, w) /\ ~Removing(c, w) /\ ~Cleaning(c, w) /\ ~HalfRemoved(c, w)
    BY DEF Adding, Removing, Cleaning, HalfRemoved, Idle
  <2>2. WorkspacesTypeOK
    BY CallSteps DEF WorkspacesTypeOK
  <2>3. KnownWereDrawn /\ AddsAreAlone /\ AddsAreInOrder /\ TablesDifferInCallsOnly
    BY <2>1 DEF KnownWereDrawn, AddsAreAlone, AddsAreInOrder, TablesDifferInCallsOnly
  <2> QED
    BY <2>2, <2>3 DEF WorkspacesInv, SessionsHaveWorkspaces, FileIsConfig
<1>2. WorkspacesInv /\ [WorkspacesNext]_workspaceVars => WorkspacesInv'
  <2> SUFFICES ASSUME WorkspacesInv, [WorkspacesNext]_workspaceVars
               PROVE  WorkspacesInv'
    OBVIOUS
  <2>1. ASSUME NEW c \in Callers, NEW w \in Workspaces, NEW d \in Devices, AddWorkspaceWithOptions(c, w, d)
        PROVE  WorkspacesInv'
    BY <2>1, AddBegins
  <2>2. ASSUME NEW c \in Callers, NEW w \in Workspaces, RemoveBegins(c, w)
        PROVE  WorkspacesInv'
    BY <2>2, RemoveBeginsKeeps
  <2>3. ASSUME NEW c \in Callers, NEW d \in Devices, RemoveDevice(c, d)
        PROVE  WorkspacesInv'
    BY <2>3, CleanBegins DEF RemoveDevice
  <2>4. ASSUME NEW c \in Callers, NEW ds \in SUBSET Devices, PruneExpired(c, ds)
        PROVE  WorkspacesInv'
    BY <2>4, CleanBegins DEF PruneExpired
  <2>5. ASSUME NEW c \in Callers, CallStep(c)
        PROVE  WorkspacesInv'
    BY <2>5, RegisterWorkspaceKeeps, BindWorkspaceKeeps, UndoRegisterKeeps, UndoAddKeeps,
       RemoveUnregistersKeeps, RemoveRemovesKeeps, UnbindWorkspaceKeeps,
       CleanChecksKeeps, CleanUnregistersKeeps, CleanRemovesKeeps DEF CallStep
  <2>6. ASSUME NEW w \in Workspaces, UpdateWorkspace(w)
        PROVE  WorkspacesInv'
    BY <2>6, UpdateWorkspaceKeeps
  <2>7. CASE Restart
    BY <2>7, RestartKeeps
  <2> QED
    BY <2>1, <2>2, <2>3, <2>4, <2>5, <2>6, <2>7, OutsideKeeps DEF WorkspacesNext
<1> QED
  BY <1>1, <1>2, PTL DEF WorkspacesSpec

\* The tables agree about a workspace nobody is at work on, one whose add was
\* answered stays until it is removed, and none is taken from the session manager
\* while a session runs in it.
THEOREM WorkspacesAlwaysLast == WorkspacesSpec => []WorkspacesLast
<1>1. WorkspacesInv => WorkspacesLast
  <2> SUFFICES ASSUME WorkspacesInv
               PROVE  WorkspacesLast
    OBVIOUS
  <2>1. ASSUME NEW w \in Workspaces \ strays, \A c \in Callers : call[c] = Idle \/ call[c].ws # w
        PROVE  w \in config <=> w \in known
    <3>1. \A c \in Callers : ~Adding(c, w) /\ ~HalfRemoved(c, w)
      BY <2>1 DEF Adding, HalfRemoved, Idle
    <3> QED
      BY <3>1 DEF WorkspacesInv, TablesDifferInCallsOnly
  <2>2. AnsweredAddsLast
    BY DEF WorkspacesInv, AnsweredAddsLast, FileIsConfig
  <2> QED
    BY <2>1, <2>2 DEF WorkspacesLast, WorkspacesAgree, WorkspacesInv
<1> QED
  BY <1>1, WorkspacesInvariance, PTL

-----------------------------------------------------------------------------
(* The event hub *)

\* The loop has somebody to deal with where it needs one, and sends an event
\* only to subscribers; Stop closes done after it has taken the lock.
LoopIsPlaced ==
    /\ loop.pc \in {"register", "unregister"} => loop.who \in Client
    /\ loop.pc # "sending" => todo = {}
    /\ todo \subseteq subscribers
    /\ loop.pc \in {"took", "sending"} => taken >= 1
    /\ done => stop \in {"closing", "stopped"}

\* A client was sent nothing newer than what the loop has taken last, and that
\* not before its turn.
SentInOrder ==
    \A c \in Client :
        sent[c] # <<>> =>
            /\ Last(sent[c]) <= taken
            /\ loop.pc = "took" \/ c \in todo => Last(sent[c]) < taken

HubInv ==
    /\ TypeOK
    /\ LoopIsPlaced
    /\ SentInOrder
    /\ ClientsAreServed

\* No client and no event: the invariant holds at the start.
LEMMA HubBegins == Init => HubInv
<1> SUFFICES ASSUME Init PROVE HubInv
  OBVIOUS
<1>1. TypeOK
  <2>1. log \in Seq(Topic) /\ Len(log) = 0
    BY DEF Init
  <2>2. sent \in [Client -> Seq(Nat)]
    BY DEF Init
  <2>3. taken \in 0 .. Len(log) /\ loop \in [pc : LoopState, who : Client \cup {None}, deaf : BOOLEAN]
    BY <2>1 DEF Init, LoopState
  <2>4. /\ conn \in [Client -> ConnState]
        /\ filter \in [Client -> SUBSET Workspace]
        /\ written \in [Client -> Nat]
        /\ since \in [Client -> Nat]
        /\ skipped \in [Client -> SUBSET Nat]
    BY DEF Init, ConnState
  <2>5. /\ todo \subseteq Client /\ failed \subseteq Client /\ subscribers \subseteq Client
        /\ stop \in {"no", "locked", "closing", "stopped"} /\ done \in BOOLEAN
        /\ toClose \subseteq Client /\ up \in BOOLEAN /\ closed \subseteq Client
    BY DEF Init
  <2> QED
    BY <2>1, <2>2, <2>3, <2>4, <2>5 DEF TypeOK
<1>2. LoopIsPlaced /\ SentInOrder
  BY DEF Init, LoopIsPlaced, SentInOrder
<1>3. ClientsAreServed
  BY DEF Init, ClientsAreServed, NobodyMissesAnEvent, OpenAreSubscribed
<1> QED BY <1>1, <1>2, <1>3 DEF HubInv

\* The elements of a longer sequence.
LEMMA RangeOfAppend ==
  ASSUME NEW S, NEW s \in Seq(S), NEW x \in S
  PROVE  Range(Append(s, x)) = Range(s) \cup {x}
<1>1. Len(Append(s, x)) = Len(s) + 1 /\ Append(s, x) \in Seq(S) /\ Len(s) \in Nat
  OBVIOUS
<1>2. \A i \in 1 .. Len(s) : Append(s, x)[i] = s[i]
  OBVIOUS
<1>3. Append(s, x)[Len(s) + 1] = x
  OBVIOUS
<1>4. DOMAIN s = 1 .. Len(s) /\ DOMAIN Append(s, x) = 1 .. Len(s) + 1
  BY <1>1
<1>5. Range(s) \cup {x} \subseteq Range(Append(s, x))
  <2>1. \A y \in Range(s) : y \in Range(Append(s, x))
    BY <1>1, <1>2, <1>4 DEF Range
  <2>2. Len(s) + 1 \in DOMAIN Append(s, x)
    BY <1>1, <1>4
  <2>3. x \in Range(Append(s, x))
    BY <1>3, <2>2 DEF Range
  <2> QED BY <2>1, <2>3
<1>6. Range(Append(s, x)) \subseteq Range(s) \cup {x}
  <2> SUFFICES ASSUME NEW i \in 1 .. Len(s) + 1 PROVE Append(s, x)[i] \in Range(s) \cup {x}
    BY <1>4 DEF Range
  <2>1. CASE i = Len(s) + 1
    BY <2>1, <1>3
  <2>2. CASE i # Len(s) + 1
    <3>1. i \in 1 .. Len(s)
      BY <2>2, <1>1
    <3> QED BY <3>1, <1>2, <1>4 DEF Range
  <2> QED BY <2>1, <2>2
<1> QED BY <1>5, <1>6

\* Every step of the loop, of a client and of Stop keeps the invariant.
LEMMA HubGoesOnInv ==
  ASSUME HubInv, [Next]_vars PROVE HubInv'
<1> USE DEF HubInv
<1>1. ASSUME NEW t \in Topic, Publish(t) PROVE HubInv'
  <2>1. TypeOK'
    BY <1>1 DEF TypeOK, LoopState, ConnState, Topic, Publish, queue, run, stopping, socket, history
  <2>2. LoopIsPlaced'
    BY <1>1 DEF TypeOK, LoopState, LoopIsPlaced, Publish, queue, run, stopping, socket, history
  <2>3. SentInOrder'
    BY <1>1 DEF TypeOK, LoopIsPlaced, SentInOrder, Last, Publish, queue, run, stopping, socket, history
  <2>4. NobodyMissesAnEvent'
    BY <1>1 DEF TypeOK, LoopIsPlaced, NobodyMissesAnEvent, ClientsAreServed, Publish, queue, run, stopping, socket, history
  <2>5. OpenAreSubscribed'
    BY <1>1 DEF TypeOK, ConnState, LoopIsPlaced, OpenAreSubscribed, ClientsAreServed, Publish, queue, run, stopping, socket, history
  <2> QED BY <2>1, <2>2, <2>3, <2>4, <2>5 DEF ClientsAreServed
<1>2. ASSUME NEW c \in Client, Accept(c) PROVE HubInv'
  <2>1. TypeOK'
    BY <1>2 DEF TypeOK, LoopState, ConnState, Topic, Accept, queue, run, stopping, socket, history, GoesTo
  <2>2. LoopIsPlaced'
    BY <1>2 DEF TypeOK, LoopState, LoopIsPlaced, Accept, queue, run, stopping, socket, history, GoesTo
  <2>3. SentInOrder'
    BY <1>2 DEF TypeOK, LoopIsPlaced, SentInOrder, Last, Accept, queue, run, stopping, socket, history, GoesTo
  <2>4. NobodyMissesAnEvent'
    BY <1>2 DEF TypeOK, LoopIsPlaced, NobodyMissesAnEvent, ClientsAreServed, Accept, queue, run, stopping, socket, history, GoesTo
  <2>5. OpenAreSubscribed'
    BY <1>2 DEF TypeOK, ConnState, LoopIsPlaced, OpenAreSubscribed, ClientsAreServed, Accept, queue, run, stopping, socket, history, GoesTo
  <2> QED BY <2>1, <2>2, <2>3, <2>4, <2>5 DEF ClientsAreServed
<1>3. ASSUME NEW c \in Client, JoinGivesUp(c) PROVE HubInv'
  <2>1. TypeOK'
    BY <1>3 DEF TypeOK, LoopState, ConnState, Topic, JoinGivesUp, queue, run, stopping, socket, history, GoesTo
  <2>2. LoopIsPlaced'
    BY <1>3 DEF TypeOK, LoopState, LoopIsPlaced, JoinGivesUp, queue, run, stopping, socket, history, GoesTo
  <2>3. SentInOrder'
    BY <1>3 DEF TypeOK, LoopIsPlaced, SentInOrder, Last, JoinGivesUp, queue, run, stopping, socket, history, GoesTo
  <2>4. NobodyMissesAnEvent'
    BY <1>3 DEF TypeOK, LoopIsPlaced, NobodyMissesAnEvent, ClientsAreServed, JoinGivesUp, queue, run, stopping, socket, history, GoesTo
  <2>5. OpenAreSubscribed'
    BY <1>3 DEF TypeOK, ConnState, LoopIsPlaced, OpenAreSubscribed, ClientsAreServed, JoinGivesUp, queue, run, stopping, socket, history, GoesTo
  <2> QED BY <2>1, <2>2, <2>3, <2>4, <2>5 DEF ClientsAreServed
<1>4. ASSUME NEW c \in Client, NEW w \in Workspace, ChangeFilter(c, w) PROVE HubInv'
  <2>1. TypeOK'
    BY <1>4 DEF TypeOK, LoopState, ConnState, Topic, ChangeFilter, queue, run, stopping, socket, history
  <2>2. LoopIsPlaced'
    BY <1>4 DEF TypeOK, LoopState, LoopIsPlaced, ChangeFilter, queue, run, stopping, socket, history
  <2>3. SentInOrder'
    BY <1>4 DEF TypeOK, LoopIsPlaced, SentInOrder, Last, ChangeFilter, queue, run, stopping, socket, history
  <2>4. NobodyMissesAnEvent'
    BY <1>4 DEF TypeOK, LoopIsPlaced, NobodyMissesAnEvent, ClientsAreServed, ChangeFilter, queue, run, stopping, socket, history
  <2>5. OpenAreSubscribed'
    BY <1>4 DEF TypeOK, ConnState, LoopIsPlaced, OpenAreSubscribed, ClientsAreServed, ChangeFilter, queue, run, stopping, socket, history
  <2> QED BY <2>1, <2>2, <2>3, <2>4, <2>5 DEF ClientsAreServed
<1>5. ASSUME NEW c \in Client, Disconnect(c) PROVE HubInv'
  <2>1. TypeOK'
    BY <1>5 DEF TypeOK, LoopState, ConnState, Topic, Disconnect, queue, run, stopping, socket, history, GoesTo
  <2>2. LoopIsPlaced'
    BY <1>5 DEF TypeOK, LoopState, LoopIsPlaced, Disconnect, queue, run, stopping, socket, history, GoesTo
  <2>3. SentInOrder'
    BY <1>5 DEF TypeOK, LoopIsPlaced, SentInOrder, Last, Disconnect, queue, run, stopping, socket, history, GoesTo
  <2>4. NobodyMissesAnEvent'
    BY <1>5 DEF TypeOK, LoopIsPlaced, NobodyMissesAnEvent, ClientsAreServed, Disconnect, queue, run, stopping, socket, history, GoesTo
  <2>5. OpenAreSubscribed'
    BY <1>5 DEF TypeOK, ConnState, LoopIsPlaced, OpenAreSubscribed, ClientsAreServed, Disconnect, queue, run, stopping, socket, history, GoesTo
  <2> QED BY <2>1, <2>2, <2>3, <2>4, <2>5 DEF ClientsAreServed
<1>6. ASSUME NEW c \in Client, PartGivesUp(c) PROVE HubInv'
  <2>1. TypeOK'
    BY <1>6 DEF TypeOK, LoopState, ConnState, Topic, PartGivesUp, queue, run, stopping, socket, history, GoesTo
  <2>2. LoopIsPlaced'
    BY <1>6 DEF TypeOK, LoopState, LoopIsPlaced, PartGivesUp, queue, run, stopping, socket, history, GoesTo
  <2>3. SentInOrder'
    BY <1>6 DEF TypeOK, LoopIsPlaced, SentInOrder, Last, PartGivesUp, queue, run, stopping, socket, history, GoesTo
  <2>4. NobodyMissesAnEvent'
    BY <1>6 DEF TypeOK, LoopIsPlaced, NobodyMissesAnEvent, ClientsAreServed, PartGivesUp, queue, run, stopping, socket, history, GoesTo
  <2>5. OpenAreSubscribed'
    BY <1>6 DEF TypeOK, ConnState, LoopIsPlaced, OpenAreSubscribed, ClientsAreServed, PartGivesUp, queue, run, stopping, socket, history, GoesTo
  <2> QED BY <2>1, <2>2, <2>3, <2>4, <2>5 DEF ClientsAreServed
<1>7. ASSUME NEW c \in Client, PumpWrites(c) PROVE HubInv'
  <2>1. TypeOK'
    BY <1>7, SMTT(40) DEF TypeOK, LoopState, ConnState, Topic, PumpWrites, queue, run, stopping, socket, history
  <2>2. LoopIsPlaced'
    BY <1>7 DEF TypeOK, LoopState, LoopIsPlaced, PumpWrites, queue, run, stopping, socket, history
  <2>3. SentInOrder'
    BY <1>7 DEF TypeOK, LoopIsPlaced, SentInOrder, Last, PumpWrites, queue, run, stopping, socket, history
  <2>4. NobodyMissesAnEvent'
    BY <1>7 DEF TypeOK, LoopIsPlaced, NobodyMissesAnEvent, ClientsAreServed, PumpWrites, queue, run, stopping, socket, history
  <2>5. OpenAreSubscribed'
    BY <1>7 DEF TypeOK, ConnState, LoopIsPlaced, OpenAreSubscribed, ClientsAreServed, PumpWrites, queue, run, stopping, socket, history
  <2> QED BY <2>1, <2>2, <2>3, <2>4, <2>5 DEF ClientsAreServed
<1>8. ASSUME LoopBegins PROVE HubInv'
  <2>1. TypeOK'
    BY <1>8 DEF TypeOK, LoopState, ConnState, Topic, LoopBegins, queue, run, stopping, socket, history
  <2>2. LoopIsPlaced'
    BY <1>8 DEF TypeOK, LoopState, LoopIsPlaced, LoopBegins, queue, run, stopping, socket, history
  <2>3. SentInOrder'
    BY <1>8 DEF TypeOK, LoopIsPlaced, SentInOrder, Last, LoopBegins, queue, run, stopping, socket, history
  <2>4. NobodyMissesAnEvent'
    BY <1>8 DEF TypeOK, LoopIsPlaced, NobodyMissesAnEvent, ClientsAreServed, LoopBegins, queue, run, stopping, socket, history
  <2>5. OpenAreSubscribed'
    BY <1>8 DEF TypeOK, ConnState, LoopIsPlaced, OpenAreSubscribed, ClientsAreServed, LoopBegins, queue, run, stopping, socket, history
  <2> QED BY <2>1, <2>2, <2>3, <2>4, <2>5 DEF ClientsAreServed
<1>9. ASSUME LoopEnds PROVE HubInv'
  <2>1. TypeOK'
    BY <1>9 DEF TypeOK, LoopState, ConnState, Topic, LoopEnds, queue, run, stopping, socket, history, At
  <2>2. LoopIsPlaced'
    BY <1>9 DEF TypeOK, LoopState, LoopIsPlaced, LoopEnds, queue, run, stopping, socket, history, At
  <2>3. SentInOrder'
    BY <1>9 DEF TypeOK, LoopIsPlaced, SentInOrder, Last, LoopEnds, queue, run, stopping, socket, history, At
  <2>4. NobodyMissesAnEvent'
    BY <1>9 DEF TypeOK, LoopIsPlaced, NobodyMissesAnEvent, ClientsAreServed, LoopEnds, queue, run, stopping, socket, history, At
  <2>5. OpenAreSubscribed'
    BY <1>9 DEF TypeOK, ConnState, LoopIsPlaced, OpenAreSubscribed, ClientsAreServed, LoopEnds, queue, run, stopping, socket, history, At
  <2> QED BY <2>1, <2>2, <2>3, <2>4, <2>5 DEF ClientsAreServed
<1>10. ASSUME NEW c \in Client, LoopReceives(c) PROVE HubInv'
  <2>1. TypeOK'
    BY <1>10 DEF TypeOK, LoopState, ConnState, Topic, LoopReceives, queue, run, stopping, socket, history, GoesTo, At
  <2>2. LoopIsPlaced'
    BY <1>10 DEF TypeOK, LoopState, LoopIsPlaced, LoopReceives, queue, run, stopping, socket, history, GoesTo, At
  <2>3. SentInOrder'
    BY <1>10 DEF TypeOK, LoopIsPlaced, SentInOrder, Last, LoopReceives, queue, run, stopping, socket, history, GoesTo, At
  <2>4. NobodyMissesAnEvent'
    BY <1>10 DEF TypeOK, LoopIsPlaced, NobodyMissesAnEvent, ClientsAreServed, LoopReceives, queue, run, stopping, socket, history, GoesTo, At
  <2>5. OpenAreSubscribed'
    BY <1>10 DEF TypeOK, ConnState, LoopIsPlaced, OpenAreSubscribed, ClientsAreServed, LoopReceives, queue, run, stopping, socket, history, GoesTo, At
  <2> QED BY <2>1, <2>2, <2>3, <2>4, <2>5 DEF ClientsAreServed
<1>11. ASSUME LoopRegisters PROVE HubInv'
  <2>0. taken \in Nat /\ since \in [Client -> Nat] /\ loop.who \in Client
    BY <1>11 DEF TypeOK, LoopIsPlaced, LoopRegisters
  <2>1. TypeOK'
    <3>1. subscribers' \subseteq Client /\ since' \in [Client -> Nat]
      BY <1>11, <2>0 DEF TypeOK, LoopRegisters
    <3>2. loop' \in [pc : LoopState, who : Client \cup {None}, deaf : BOOLEAN]
      BY <1>11 DEF TypeOK, LoopRegisters, At, LoopState
    <3> QED
      BY <3>1, <3>2, <1>11 DEF TypeOK, LoopRegisters, queue, run, stopping, socket, history
  <2>2. LoopIsPlaced'
    BY <1>11 DEF TypeOK, LoopState, LoopIsPlaced, LoopRegisters, queue, run, stopping, socket, history, At
  <2>3. SentInOrder'
    BY <1>11 DEF TypeOK, LoopIsPlaced, SentInOrder, Last, LoopRegisters, queue, run, stopping, socket, history, At
  <2>4. NobodyMissesAnEvent'
    BY <1>11 DEF TypeOK, LoopIsPlaced, NobodyMissesAnEvent, ClientsAreServed, LoopRegisters, queue, run, stopping, socket, history, At
  <2>5. OpenAreSubscribed'
    BY <1>11 DEF TypeOK, ConnState, LoopIsPlaced, OpenAreSubscribed, ClientsAreServed, LoopRegisters, queue, run, stopping, socket, history, At
  <2> QED BY <2>1, <2>2, <2>3, <2>4, <2>5 DEF ClientsAreServed
<1>12. ASSUME NEW c \in Client, LoopHears(c) PROVE HubInv'
  <2>1. TypeOK'
    BY <1>12 DEF TypeOK, LoopState, ConnState, Topic, LoopHears, queue, run, stopping, socket, history, GoesTo, At
  <2>2. LoopIsPlaced'
    BY <1>12 DEF TypeOK, LoopState, LoopIsPlaced, LoopHears, queue, run, stopping, socket, history, GoesTo, At
  <2>3. SentInOrder'
    BY <1>12 DEF TypeOK, LoopIsPlaced, SentInOrder, Last, LoopHears, queue, run, stopping, socket, history, GoesTo, At
  <2>4. NobodyMissesAnEvent'
    BY <1>12 DEF TypeOK, LoopIsPlaced, NobodyMissesAnEvent, ClientsAreServed, LoopHears, queue, run, stopping, socket, history, GoesTo, At
  <2>5. OpenAreSubscribed'
    BY <1>12 DEF TypeOK, ConnState, LoopIsPlaced, OpenAreSubscribed, ClientsAreServed, LoopHears, queue, run, stopping, socket, history, GoesTo, At
  <2> QED BY <2>1, <2>2, <2>3, <2>4, <2>5 DEF ClientsAreServed
<1>13. ASSUME LoopUnregisters PROVE HubInv'
  <2>1. TypeOK'
    BY <1>13 DEF TypeOK, LoopState, ConnState, Topic, LoopUnregisters, queue, run, stopping, socket, history, At
  <2>2. LoopIsPlaced'
    BY <1>13 DEF TypeOK, LoopState, LoopIsPlaced, LoopUnregisters, queue, run, stopping, socket, history, At
  <2>3. SentInOrder'
    BY <1>13 DEF TypeOK, LoopIsPlaced, SentInOrder, Last, LoopUnregisters, queue, run, stopping, socket, history, At
  <2>4. NobodyMissesAnEvent'
    BY <1>13 DEF TypeOK, LoopIsPlaced, NobodyMissesAnEvent, ClientsAreServed, LoopUnregisters, queue, run, stopping, socket, history, At
  <2>5. OpenAreSubscribed'
    BY <1>13 DEF TypeOK, ConnState, LoopIsPlaced, OpenAreSubscribed, ClientsAreServed, LoopUnregisters, queue, run, stopping, socket, history, At
  <2> QED BY <2>1, <2>2, <2>3, <2>4, <2>5 DEF ClientsAreServed
<1>14. ASSUME LoopTakes PROVE HubInv'
  <2>0. taken \in Nat /\ Len(log) \in Nat
    BY <1>14 DEF TypeOK, LoopTakes
  <2>1. TypeOK'
    <3>1. taken' \in 0..Len(log)'
      BY <1>14, <2>0 DEF LoopTakes
    <3>2. loop' \in [pc : LoopState, who : Client \cup {None}, deaf : BOOLEAN]
      BY <1>14 DEF TypeOK, LoopTakes, At, LoopState
    <3> QED
      BY <3>1, <3>2, <1>14 DEF TypeOK, LoopTakes, queue, run, stopping, socket, history
  <2>2. LoopIsPlaced'
    BY <1>14 DEF TypeOK, LoopState, LoopIsPlaced, LoopTakes, queue, run, stopping, socket, history, At
  <2>3. SentInOrder'
    BY <1>14 DEF TypeOK, LoopIsPlaced, SentInOrder, Last, LoopTakes, queue, run, stopping, socket, history, At
  <2>4. NobodyMissesAnEvent'
    <3> SUFFICES ASSUME NEW c \in subscribers \ closed, NEW e \in since[c] + 1 .. taken + 1
                 PROVE  e \in Range(sent[c]) \cup skipped[c] \/ e = taken + 1
      BY <1>14, <2>0 DEF NobodyMissesAnEvent, LoopTakes, At, stopping, socket, history, TypeOK
    <3>1. since[c] \in Nat /\ todo = {} /\ loop.pc = "select"
      BY <1>14 DEF TypeOK, LoopIsPlaced, LoopTakes
    <3>2. CASE e = taken + 1
      BY <3>2
    <3>3. CASE e # taken + 1
      <4>1. e \in since[c] + 1 .. taken
        BY <3>1, <3>3, <2>0
      <4> QED BY <4>1, <3>1 DEF ClientsAreServed, NobodyMissesAnEvent
    <3> QED BY <3>2, <3>3
  <2>5. OpenAreSubscribed'
    BY <1>14 DEF TypeOK, ConnState, LoopIsPlaced, OpenAreSubscribed, ClientsAreServed, LoopTakes, queue, run, stopping, socket, history, At
  <2> QED BY <2>1, <2>2, <2>3, <2>4, <2>5 DEF ClientsAreServed
<1>15. ASSUME LoopLocks PROVE HubInv'
  <2>1. TypeOK'
    BY <1>15 DEF TypeOK, LoopState, ConnState, Topic, LoopLocks, queue, run, stopping, socket, history, At
  <2>2. LoopIsPlaced'
    BY <1>15 DEF TypeOK, LoopState, LoopIsPlaced, LoopLocks, queue, run, stopping, socket, history, At
  <2>3. SentInOrder'
    BY <1>15 DEF TypeOK, LoopIsPlaced, SentInOrder, Last, LoopLocks, queue, run, stopping, socket, history, At
  <2>4. NobodyMissesAnEvent'
    BY <1>15 DEF TypeOK, LoopIsPlaced, NobodyMissesAnEvent, ClientsAreServed, LoopLocks, queue, run, stopping, socket, history, At
  <2>5. OpenAreSubscribed'
    BY <1>15 DEF TypeOK, ConnState, LoopIsPlaced, OpenAreSubscribed, ClientsAreServed, LoopLocks, queue, run, stopping, socket, history, At
  <2> QED BY <2>1, <2>2, <2>3, <2>4, <2>5 DEF ClientsAreServed
<1>16. ASSUME NEW c \in Client, LoopSends(c) PROVE HubInv'
  <2>0. taken \in Nat
    BY <1>16 DEF TypeOK, LoopSends
  <2>1. TypeOK'
    <3>0. Append(sent[c], taken) \in Seq(Nat)
      BY <2>0 DEF TypeOK
    <3>1. sent' \in [Client -> Seq(Nat)]
      <4>1. CASE UNCHANGED sent
        BY <4>1 DEF TypeOK
      <4>2. CASE sent' = [sent EXCEPT ![c] = Append(@, taken)]
        BY <4>2, <3>0 DEF TypeOK
      <4> QED BY <4>1, <4>2, <1>16 DEF LoopSends
    <3>2. skipped' \in [Client -> SUBSET Nat]
      <4>1. CASE UNCHANGED skipped
        BY <4>1 DEF TypeOK
      <4>2. CASE skipped' = [skipped EXCEPT ![c] = @ \cup {taken}]
        BY <4>2, <2>0 DEF TypeOK
      <4> QED BY <4>1, <4>2, <1>16 DEF LoopSends
    <3>3. failed' \subseteq Client /\ todo' \subseteq Client
      BY <1>16 DEF TypeOK, LoopSends
    <3> QED
      BY <3>1, <3>2, <3>3, <1>16 DEF TypeOK, LoopSends, queue, run, stopping, socket, history
  <2>2. LoopIsPlaced'
    BY <1>16 DEF TypeOK, LoopState, LoopIsPlaced, LoopSends, queue, run, stopping, socket, history, Forwards, Room
  <2>3. SentInOrder'
    BY <1>16, SMTT(40) DEF TypeOK, LoopIsPlaced, SentInOrder, Last, LoopSends, queue, run, stopping, socket, history, Forwards, Room
  <2>4. NobodyMissesAnEvent'
    <3> SUFFICES ASSUME NEW d \in subscribers \ closed, NEW e \in since[d] + 1 .. taken
                 PROVE  \/ e \in Range(sent'[d]) \cup skipped'[d]
                        \/ e = taken /\ d \in todo'
      BY <1>16 DEF NobodyMissesAnEvent, LoopSends, queue, stopping, socket, history
    <3>1. \/ e \in Range(sent[d]) \cup skipped[d]
          \/ e = taken /\ d \in todo
      BY <1>16 DEF ClientsAreServed, NobodyMissesAnEvent, LoopSends
    <3>2. d \in Client /\ sent[d] \in Seq(Nat)
      BY DEF TypeOK
    <3>3. Range(Append(sent[d], taken)) = Range(sent[d]) \cup {taken}
      BY <2>0, <3>2, RangeOfAppend
    <3>4. CASE d = c
      <4>0. \/ sent' = sent \/ sent'[d] = Append(sent[d], taken)
        BY <1>16, <3>4 DEF LoopSends, TypeOK
      <4>1. Range(sent[d]) \subseteq Range(sent'[d]) /\ skipped[d] \subseteq skipped'[d]
        <5>1. skipped[d] \subseteq skipped'[d]
          BY <1>16, <3>4 DEF LoopSends, TypeOK
        <5> QED BY <5>1, <4>0, <3>3
      <4>2. taken \in Range(sent'[d]) \cup skipped'[d]
        <5>0. d \notin closed' /\ closed' = closed
          BY <1>16 DEF LoopSends
        <5>1. \/ sent'[d] = Append(sent[d], taken)
              \/ taken \in skipped'[d]
          BY <1>16, <5>0, <3>4 DEF LoopSends, TypeOK
        <5> QED BY <5>1, <3>3
      <4> QED BY <3>1, <4>1, <4>2
    <3>5. CASE d # c
      <4>1. sent'[d] = sent[d] /\ skipped'[d] = skipped[d] /\ (d \in todo' <=> d \in todo)
        BY <1>16, <3>2, <3>5 DEF LoopSends, TypeOK
      <4> QED BY <3>1, <4>1
    <3> QED BY <3>4, <3>5
  <2>5. OpenAreSubscribed'
    BY <1>16 DEF TypeOK, ConnState, LoopIsPlaced, OpenAreSubscribed, ClientsAreServed, LoopSends, queue, run, stopping, socket, history, Forwards, Room
  <2> QED BY <2>1, <2>2, <2>3, <2>4, <2>5 DEF ClientsAreServed
<1>17. ASSUME LoopUnlocks PROVE HubInv'
  <2>1. TypeOK'
    BY <1>17 DEF TypeOK, LoopState, ConnState, Topic, LoopUnlocks, queue, run, stopping, socket, history, At
  <2>2. LoopIsPlaced'
    BY <1>17 DEF TypeOK, LoopState, LoopIsPlaced, LoopUnlocks, queue, run, stopping, socket, history, At
  <2>3. SentInOrder'
    BY <1>17 DEF TypeOK, LoopIsPlaced, SentInOrder, Last, LoopUnlocks, queue, run, stopping, socket, history, At
  <2>4. NobodyMissesAnEvent'
    BY <1>17 DEF TypeOK, LoopIsPlaced, NobodyMissesAnEvent, ClientsAreServed, LoopUnlocks, queue, run, stopping, socket, history, At
  <2>5. OpenAreSubscribed'
    BY <1>17 DEF TypeOK, ConnState, LoopIsPlaced, OpenAreSubscribed, ClientsAreServed, LoopUnlocks, queue, run, stopping, socket, history, At
  <2> QED BY <2>1, <2>2, <2>3, <2>4, <2>5 DEF ClientsAreServed
<1>18. ASSUME LoopRemoves PROVE HubInv'
  <2>1. TypeOK'
    BY <1>18 DEF TypeOK, LoopState, ConnState, Topic, LoopRemoves, queue, run, stopping, socket, history, At
  <2>2. LoopIsPlaced'
    BY <1>18 DEF TypeOK, LoopState, LoopIsPlaced, LoopRemoves, queue, run, stopping, socket, history, At
  <2>3. SentInOrder'
    BY <1>18 DEF TypeOK, LoopIsPlaced, SentInOrder, Last, LoopRemoves, queue, run, stopping, socket, history, At
  <2>4. NobodyMissesAnEvent'
    BY <1>18 DEF TypeOK, LoopIsPlaced, NobodyMissesAnEvent, ClientsAreServed, LoopRemoves, queue, run, stopping, socket, history, At
  <2>5. OpenAreSubscribed'
    BY <1>18 DEF TypeOK, ConnState, LoopIsPlaced, OpenAreSubscribed, ClientsAreServed, LoopRemoves, queue, run, stopping, socket, history, At
  <2> QED BY <2>1, <2>2, <2>3, <2>4, <2>5 DEF ClientsAreServed
<1>19. ASSUME ServerStops PROVE HubInv'
  <2>1. TypeOK'
    BY <1>19 DEF TypeOK, LoopState, ConnState, Topic, ServerStops, queue, run, stopping, socket, history
  <2>2. LoopIsPlaced'
    BY <1>19 DEF TypeOK, LoopState, LoopIsPlaced, ServerStops, queue, run, stopping, socket, history
  <2>3. SentInOrder'
    BY <1>19 DEF TypeOK, LoopIsPlaced, SentInOrder, Last, ServerStops, queue, run, stopping, socket, history
  <2>4. NobodyMissesAnEvent'
    BY <1>19 DEF TypeOK, LoopIsPlaced, NobodyMissesAnEvent, ClientsAreServed, ServerStops, queue, run, stopping, socket, history
  <2>5. OpenAreSubscribed'
    BY <1>19 DEF TypeOK, ConnState, LoopIsPlaced, OpenAreSubscribed, ClientsAreServed, ServerStops, queue, run, stopping, socket, history
  <2> QED BY <2>1, <2>2, <2>3, <2>4, <2>5 DEF ClientsAreServed
<1>20. ASSUME StopLocks PROVE HubInv'
  <2>1. TypeOK'
    BY <1>20 DEF TypeOK, LoopState, ConnState, Topic, StopLocks, queue, run, stopping, socket, history
  <2>2. LoopIsPlaced'
    BY <1>20 DEF TypeOK, LoopState, LoopIsPlaced, StopLocks, queue, run, stopping, socket, history
  <2>3. SentInOrder'
    BY <1>20 DEF TypeOK, LoopIsPlaced, SentInOrder, Last, StopLocks, queue, run, stopping, socket, history
  <2>4. NobodyMissesAnEvent'
    BY <1>20 DEF TypeOK, LoopIsPlaced, NobodyMissesAnEvent, ClientsAreServed, StopLocks, queue, run, stopping, socket, history
  <2>5. OpenAreSubscribed'
    BY <1>20 DEF TypeOK, ConnState, LoopIsPlaced, OpenAreSubscribed, ClientsAreServed, StopLocks, queue, run, stopping, socket, history
  <2> QED BY <2>1, <2>2, <2>3, <2>4, <2>5 DEF ClientsAreServed
<1>21. ASSUME StopCloses PROVE HubInv'
  <2>1. TypeOK'
    BY <1>21 DEF TypeOK, LoopState, ConnState, Topic, StopCloses, queue, run, stopping, socket, history
  <2>2. LoopIsPlaced'
    BY <1>21 DEF TypeOK, LoopState, LoopIsPlaced, StopCloses, queue, run, stopping, socket, history
  <2>3. SentInOrder'
    BY <1>21 DEF TypeOK, LoopIsPlaced, SentInOrder, Last, StopCloses, queue, run, stopping, socket, history
  <2>4. NobodyMissesAnEvent'
    BY <1>21 DEF TypeOK, LoopIsPlaced, NobodyMissesAnEvent, ClientsAreServed, StopCloses, queue, run, stopping, socket, history
  <2>5. OpenAreSubscribed'
    BY <1>21 DEF TypeOK, ConnState, LoopIsPlaced, OpenAreSubscribed, ClientsAreServed, StopCloses, queue, run, stopping, socket, history
  <2> QED BY <2>1, <2>2, <2>3, <2>4, <2>5 DEF ClientsAreServed
<1>22. ASSUME StopClosesSubscribers PROVE HubInv'
  <2>1. TypeOK'
    BY <1>22 DEF TypeOK, LoopState, ConnState, Topic, StopClosesSubscribers, queue, run, stopping, socket, history
  <2>2. LoopIsPlaced'
    BY <1>22 DEF TypeOK, LoopState, LoopIsPlaced, StopClosesSubscribers, queue, run, stopping, socket, history
  <2>3. SentInOrder'
    BY <1>22 DEF TypeOK, LoopIsPlaced, SentInOrder, Last, StopClosesSubscribers, queue, run, stopping, socket, history
  <2>4. NobodyMissesAnEvent'
    BY <1>22 DEF TypeOK, LoopIsPlaced, NobodyMissesAnEvent, ClientsAreServed, StopClosesSubscribers, queue, run, stopping, socket, history
  <2>5. OpenAreSubscribed'
    BY <1>22 DEF TypeOK, ConnState, LoopIsPlaced, OpenAreSubscribed, ClientsAreServed, StopClosesSubscribers, queue, run, stopping, socket, history
  <2> QED BY <2>1, <2>2, <2>3, <2>4, <2>5 DEF ClientsAreServed
<1>23. CASE UNCHANGED vars
  BY <1>23 DEF vars, queue, run, stopping, socket, history, TypeOK, LoopIsPlaced, SentInOrder, ClientsAreServed, NobodyMissesAnEvent, OpenAreSubscribed
<1> QED
  BY <1>1, <1>2, <1>3, <1>4, <1>5, <1>6, <1>7, <1>8, <1>9, <1>10, <1>11, <1>12, <1>13, <1>14, <1>15, <1>16, <1>17, <1>18, <1>19, <1>20, <1>21, <1>22, <1>23 DEF Next, LoopStep, StopStep

\* Whatever the clients, the publishers and Stop do and however their steps and
\* the loop's interleave.
THEOREM HubInvariance == Spec => []HubInv
<1>1. HubInv /\ [Next]_vars => HubInv'
  BY HubGoesOnInv
<1> QED
  BY <1>1, HubBegins, PTL DEF Spec

\* A client that is open stays subscribed while the hub runs and misses no event
\* on another client's account (Hub.run, Hub.Subscribe, Hub.Stop).
THEOREM ClientsAreAlwaysServed == Spec => []ClientsAreServed
<1>1. HubInv => ClientsAreServed
  BY DEF HubInv
<1> QED
  BY <1>1, HubInvariance, PTL

\* The hub is a feed that keeps to the order of publication and sends no event
\* twice (Hub.run, UnifiedClient.Send).
THEOREM HubKeepsOrder == Spec => KeepsOrder
<1>1. Init => Feed!Init
  BY DEF Init, Feed!Init
<1>2. HubInv /\ [Next]_vars => [Feed!Next]_(Feed!vars)
  <2> SUFFICES ASSUME HubInv, [Next]_vars PROVE [Feed!Next]_(Feed!vars)
    OBVIOUS
  <2>1. ASSUME NEW t \in Topic, Publish(t) PROVE Feed!Next
    BY <2>1 DEF Publish, Feed!Next, Feed!Publish
  <2>2. ASSUME NEW c \in Client, LoopSends(c) PROVE [Feed!Next]_(Feed!vars)
    <3>1. CASE UNCHANGED sent
      BY <3>1, <2>2 DEF LoopSends, Feed!vars, queue
    <3>2. CASE sent' = [sent EXCEPT ![c] = Append(@, taken)]
      <4>1. taken \in 1 .. Len(log)
        BY <2>2 DEF HubInv, TypeOK, LoopIsPlaced, LoopSends
      <4>2. sent[c] # <<>> => sent[c][Len(sent[c])] < taken
        BY <2>2 DEF HubInv, SentInOrder, LoopSends, Last
      <4>3. Feed!Deliver(c, taken)
        BY <4>1, <4>2, <3>2, <2>2 DEF Feed!Deliver, Feed!Last, LoopSends, queue
      <4> QED BY <4>1, <4>3 DEF Feed!Next
    <3> QED BY <3>1, <3>2, <2>2 DEF LoopSends
  <2>3. CASE UNCHANGED <<log, sent>>
    BY <2>3 DEF Feed!vars
  <2>4. ASSUME Next, \A t \in Topic : ~Publish(t), \A c \in Client : ~LoopSends(c)
        PROVE  UNCHANGED <<log, sent>>
    BY <2>4 DEF Next, LoopStep, StopStep, Accept, JoinGivesUp, ChangeFilter, Disconnect, PartGivesUp,
       PumpWrites, LoopBegins, LoopEnds, LoopReceives, LoopRegisters, LoopHears, LoopUnregisters,
       LoopTakes, LoopLocks, LoopUnlocks, LoopRemoves, ServerStops, StopLocks, StopCloses,
       StopClosesSubscribers, queue
  <2>5. CASE UNCHANGED vars
    BY <2>5 DEF vars, queue, Feed!vars
  <2> QED BY <2>1, <2>2, <2>3, <2>4, <2>5
<1> QED
  BY <1>1, <1>2, HubInvariance, PTL DEF Spec, KeepsOrder, Feed!Spec

-----------------------------------------------------------------------------
(* The pages of a transcript *)

PageShape == [at : {"idle", "lock", "stat", "check", "index", "count", "rows", "answer"},
              s : Sessions \cup {NoSession}, sec : Nat, offset : Nat, had : Nat, total : Nat,
              got : Nat, excused : BOOLEAN]

PagesTyped ==
    /\ transcript \in [Sessions -> [n : Nat, sec : Nat, text : BOOLEAN]]
    /\ second \in Nat \ {0}
    /\ looked \in [Sessions -> BOOLEAN] /\ again \in [Sessions -> BOOLEAN]
    /\ messages \in [Sessions -> [n : Nat, sec : Nat]]
    /\ reader \in [Readers -> PageShape]
    /\ \A r \in Readers : reader[r].at # "idle" => reader[r].s \in Sessions

\* Seconds never come back, and a file without one was never written.
SecondsPass ==
    \A s \in Sessions : transcript[s].sec <= second /\ (HasFile(s) => transcript[s].sec # 0)

\* What is indexed of a file that was not written in the second it was looked at
\* is the file, as far as it says the file's second.
IndexedAreRight ==
    \A s \in Sessions :
        /\ messages[s].sec <= transcript[s].sec
        /\ messages[s].sec = transcript[s].sec /\ transcript[s].sec # 0 => looked[s]
        /\ HasFile(s) /\ messages[s].sec = transcript[s].sec /\ ~again[s] =>
              messages[s].n >= transcript[s].n

\* The second a reader took of a file is one the file had, and was looked at for.
TakenWereLookedAt ==
    \A r \in Readers : reader[r].at \in {"check", "index"} =>
        LET t == transcript[reader[r].s] IN
        reader[r].sec # 0 /\ reader[r].sec <= t.sec /\ (reader[r].sec = t.sec => looked[reader[r].s])

\* What a reader that is not excused has before it.
SeesAll(p) ==
    ~p.excused =>
        /\ p.at # "idle" => transcript[p.s].n >= p.had
        /\ p.at = "check" /\ messages[p.s].sec = p.sec => messages[p.s].n >= p.had
        /\ p.at = "count" => messages[p.s].n >= p.had
        /\ p.at = "rows" => p.total = messages[p.s].n /\ p.total >= p.had
        /\ p.at = "answer" => p.total >= p.had /\ p.got = PageLength(p.total, p.offset)
ReadersSeeAll == \A r \in Readers : SeesAll(reader[r])

PagesInv ==
    PagesTyped /\ SecondsPass /\ IndexedAreRight /\ TakenWereLookedAt /\ ReadersSeeAll

\* The pages begin with nothing.
LEMMA PagesBegin == HistoryInit => PagesInv
BY DEF HistoryInit, PagesInv, PagesTyped, SecondsPass, IndexedAreRight, TakenWereLookedAt,
       ReadersSeeAll, SeesAll, NoFile, Unlisted, NoPage, PageShape, HasFile

\* A line is written.
LEMMA AppendLineKeeps ==
    ASSUME PagesInv, NEW s \in Sessions, NEW text \in BOOLEAN, AppendLine(s, text)
    PROVE  PagesInv'
<1> DEFINE t == [n |-> transcript[s].n + 1, sec |-> second, text |-> text]
           same == transcript[s].sec = second
<1>1. /\ transcript' = [transcript EXCEPT ![s] = t]
      /\ again' = [again EXCEPT ![s] = same /\ (again[s] \/ looked[s])]
      /\ looked' = [looked EXCEPT ![s] = same /\ looked[s]]
      /\ UNCHANGED <<second, messages, reader>>
    BY DEF AppendLine, pageVars, PagesInv, PagesTyped
<1>2. t \in [n : Nat, sec : Nat, text : BOOLEAN] /\ t.n = transcript[s].n + 1 /\ t.sec = second
      /\ t.n # 0 /\ second # 0 /\ second \in Nat
    BY DEF PagesInv, PagesTyped
<1> HIDE DEF t
<1>3. /\ transcript'[s] = t /\ looked'[s] = (same /\ looked[s])
      /\ again'[s] = (same /\ (again[s] \/ looked[s]))
      /\ \A x \in Sessions \ {s} : /\ transcript'[x] = transcript[x] /\ looked'[x] = looked[x]
                                   /\ again'[x] = again[x]
    BY <1>1 DEF PagesInv, PagesTyped
<1>4. PagesTyped'
    BY <1>1, <1>2 DEF PagesInv, PagesTyped
<1>5. SecondsPass'
    BY <1>1, <1>2, <1>3 DEF PagesInv, SecondsPass, HasFile
<1>6. IndexedAreRight'
    <2>1. ASSUME NEW x \in Sessions
          PROVE  /\ messages[x].sec <= transcript'[x].sec
                 /\ messages[x].sec = transcript'[x].sec /\ transcript'[x].sec # 0 => looked'[x]
                 /\ transcript'[x].n # 0 /\ messages[x].sec = transcript'[x].sec /\ ~again'[x] =>
                       messages[x].n >= transcript'[x].n
        <3>1. messages[x].sec \in Nat /\ transcript[x].sec \in Nat /\ transcript[x].sec <= second
            BY DEF PagesInv, PagesTyped, SecondsPass
        <3>2. CASE x = s
            <4>1. messages[s].sec <= transcript[s].sec
                  /\ (messages[s].sec = transcript[s].sec /\ transcript[s].sec # 0 => looked[s])
                BY DEF PagesInv, IndexedAreRight
            <4>2. messages[s].sec = second => same /\ looked[s]
                BY <1>2, <3>1, <3>2, <4>1
            <4>3. transcript'[s].sec = second /\ messages[s].sec <= second
                BY <1>2, <1>3, <3>1, <3>2, <4>1
            <4>4. messages[s].sec = second => looked'[s] /\ again'[s]
                BY <1>3, <4>2, Zenon
            <4> QED
                BY <3>2, <4>3, <4>4
        <3>3. CASE x # s
            BY <1>3, <3>3 DEF PagesInv, IndexedAreRight, HasFile
        <3> QED
            BY <3>2, <3>3
    <2> QED
        BY <1>1, <2>1 DEF IndexedAreRight, HasFile
<1>7. TakenWereLookedAt'
    <2>1. ASSUME NEW r \in Readers, reader[r].at \in {"check", "index"}
          PROVE  LET x == reader[r].s IN
                 /\ reader[r].sec # 0 /\ reader[r].sec <= transcript'[x].sec
                 /\ reader[r].sec = transcript'[x].sec => looked'[x]
        <3>1. PICK x \in Sessions : x = reader[r].s
            BY <2>1 DEF PagesInv, PagesTyped
        <3>2. /\ reader[r].sec # 0 /\ reader[r].sec <= transcript[x].sec
              /\ reader[r].sec = transcript[x].sec => looked[x]
            BY <2>1, <3>1 DEF PagesInv, TakenWereLookedAt
        <3>3. transcript[x].sec <= second /\ transcript[x].sec \in Nat /\ reader[r].sec \in Nat
            BY DEF PagesInv, PagesTyped, SecondsPass, PageShape
        <3>4. CASE x = s
            <4>1. transcript'[s].sec = second /\ reader[r].sec <= second
                BY <1>2, <1>3, <3>2, <3>3, <3>4
            <4>2. reader[r].sec = second => same /\ looked[s]
                BY <1>2, <3>2, <3>3, <3>4
            <4>3. reader[r].sec = second => looked'[s]
                BY <1>3, <4>2, Zenon
            <4> QED
                BY <3>1, <3>2, <3>4, <4>1, <4>3
        <3>5. CASE x # s
            BY <1>3, <3>1, <3>2, <3>5
        <3> QED
            BY <3>4, <3>5
    <2> QED
        BY <1>1, <2>1 DEF TakenWereLookedAt
<1>8. ReadersSeeAll'
    <2>1. \A x \in Sessions : transcript'[x].n >= transcript[x].n
        BY <1>2, <1>3 DEF PagesInv, PagesTyped
    <2>2. ASSUME NEW r \in Readers PROVE SeesAll(reader[r])'
        <3>1. SeesAll(reader[r]) /\ (reader[r].at # "idle" => reader[r].s \in Sessions)
              /\ reader[r].had \in Nat
            BY DEF PagesInv, PagesTyped, ReadersSeeAll, PageShape
        <3>2. \A x \in Sessions : transcript'[x].n \in Nat /\ transcript[x].n \in Nat
            BY <1>4 DEF PagesInv, PagesTyped
        <3> QED
            BY <1>1, <2>1, <3>1, <3>2 DEF SeesAll
    <2> QED
        BY <1>1, <2>2 DEF ReadersSeeAll
<1> QED
    BY <1>4, <1>5, <1>6, <1>7, <1>8 DEF PagesInv

\* A transcript is deleted.
LEMMA DeleteFileKeeps ==
    ASSUME PagesInv, NEW s \in Sessions, DeleteFile(s)
    PROVE  PagesInv'
<1>1. /\ transcript' = [transcript EXCEPT ![s] = [NoFile EXCEPT !.sec = transcript[s].sec]]
      /\ reader' = [r \in Readers |-> IF reader[r].s = s THEN [reader[r] EXCEPT !.excused = TRUE]
                                      ELSE reader[r]]
      /\ UNCHANGED <<second, looked, again, messages>>
    BY DEF DeleteFile, RemoveTranscript
<1>2. /\ transcript' \in [Sessions -> [n : Nat, sec : Nat, text : BOOLEAN]]
      /\ \A x \in Sessions : transcript'[x].sec = transcript[x].sec
    <2> DEFINE e == [NoFile EXCEPT !.sec = transcript[s].sec]
    <2>1. e \in [n : Nat, sec : Nat, text : BOOLEAN] /\ e.sec = transcript[s].sec
        BY DEF PagesInv, PagesTyped, NoFile
    <2>2. transcript' = [transcript EXCEPT ![s] = e]
        BY <1>1
    <2> HIDE DEF e
    <2> QED
        BY <2>1, <2>2 DEF PagesInv, PagesTyped
<1>3. transcript'[s].n = 0 /\ \A x \in Sessions \ {s} : transcript'[x] = transcript[x]
    BY <1>1 DEF PagesInv, PagesTyped, NoFile
<1>4. SecondsPass' /\ IndexedAreRight'
    <2>1. ASSUME NEW x \in Sessions
          PROVE  /\ transcript'[x].sec = transcript[x].sec
                 /\ transcript'[x].n # 0 => transcript'[x] = transcript[x]
        BY <1>2, <1>3
    <2>2. SecondsPass'
        BY <1>1, <2>1 DEF PagesInv, SecondsPass, HasFile
    <2>3. ASSUME NEW x \in Sessions
          PROVE  /\ messages'[x].sec <= transcript'[x].sec
                 /\ messages'[x].sec = transcript'[x].sec /\ transcript'[x].sec # 0 => looked'[x]
                 /\ transcript'[x].n # 0 /\ messages'[x].sec = transcript'[x].sec /\ ~again'[x] =>
                       messages'[x].n >= transcript'[x].n
        <3>1. messages' = messages /\ looked' = looked /\ again' = again
            BY <1>1
        <3> QED
            BY <2>1, <3>1 DEF PagesInv, IndexedAreRight, HasFile
    <2> QED
        BY <2>2, <2>3 DEF IndexedAreRight, HasFile
<1>5. ASSUME NEW r \in Readers
      PROVE  /\ reader'[r].at = reader[r].at /\ reader'[r].s = reader[r].s
             /\ reader'[r].sec = reader[r].sec
             /\ reader[r].s = s => reader'[r].excused
             /\ reader[r].s # s => reader'[r] = reader[r]
    BY <1>1 DEF PagesInv, PagesTyped, PageShape
<1>6. TakenWereLookedAt'
    <2>1. \A r \in Readers : reader[r].at # "idle" => reader[r].s \in Sessions
        BY DEF PagesInv, PagesTyped
    <2> QED
        BY <1>1, <1>2, <1>5, <2>1 DEF PagesInv, TakenWereLookedAt
<1>7. ReadersSeeAll'
    <2>1. ASSUME NEW r \in Readers PROVE SeesAll(reader[r])'
        <3>1. SeesAll(reader[r]) /\ (reader[r].at # "idle" => reader[r].s \in Sessions)
            BY DEF PagesInv, PagesTyped, ReadersSeeAll
        <3>2. CASE reader[r].s = s
            BY <1>5, <3>2 DEF SeesAll
        <3>3. CASE reader[r].s # s
            BY <1>1, <1>3, <1>5, <3>1, <3>3 DEF SeesAll
        <3> QED
            BY <3>2, <3>3
    <2> QED
        BY <2>1 DEF ReadersSeeAll
<1> QED
    <2>1. reader' \in [Readers -> PageShape]
        <3>1. \A r \in Readers : reader[r] \in PageShape
                                /\ [reader[r] EXCEPT !.excused = TRUE] \in PageShape
            BY DEF PagesInv, PagesTyped, PageShape
        <3> QED
            BY <1>1, <3>1
    <2>2. ASSUME NEW r \in Readers, reader'[r].at # "idle" PROVE reader'[r].s \in Sessions
        BY <1>5, <2>2 DEF PagesInv, PagesTyped
    <2>3. PagesTyped'
        BY <1>1, <1>2, <2>1, <2>2 DEF PagesInv, PagesTyped
    <2> QED
        BY <1>4, <1>6, <1>7, <2>3 DEF PagesInv

\* A step of one reader that changes neither file nor index.
LEMMA ReaderKeeps ==
    ASSUME PagesInv, NEW r \in Readers, NEW p \in PageShape,
           reader' = [reader EXCEPT ![r] = p], p.at # "idle" => p.s \in Sessions,
           UNCHANGED <<transcript, second, again, messages>>,
           looked' \in [Sessions -> BOOLEAN], \A s \in Sessions : looked[s] => looked'[s],
           p.at \in {"check", "index"} =>
               /\ p.sec # 0 /\ p.sec <= transcript[p.s].sec
               /\ p.sec = transcript[p.s].sec => looked'[p.s],
           SeesAll(p)
    PROVE  PagesInv'
<1>1. reader'[r] = p /\ \A q \in Readers \ {r} : reader'[q] = reader[q]
    BY DEF PagesInv, PagesTyped
<1>2. PagesTyped'
    BY <1>1 DEF PagesInv, PagesTyped
<1>3. SecondsPass' /\ IndexedAreRight'
    BY DEF PagesInv, SecondsPass, IndexedAreRight, HasFile
<1>4. TakenWereLookedAt'
    <2>1. \A q \in Readers : reader[q].at # "idle" => reader[q].s \in Sessions
        BY DEF PagesInv, PagesTyped
    <2> QED
        BY <1>1, <2>1 DEF PagesInv, TakenWereLookedAt
<1>5. ReadersSeeAll'
    <2>1. ASSUME NEW q \in Readers PROVE SeesAll(reader[q])'
        <3>1. CASE q = r
            BY <1>1, <3>1 DEF SeesAll
        <3>2. CASE q # r
            BY <1>1, <3>2 DEF PagesInv, ReadersSeeAll, SeesAll
        <3> QED
            BY <3>1, <3>2
    <2> QED
        BY <2>1 DEF ReadersSeeAll
<1> QED
    BY <1>2, <1>3, <1>4, <1>5 DEF PagesInv

\* A page is asked for.
LEMMA GetMessagesKeeps ==
    ASSUME PagesInv, PageSize \in Nat, NEW r \in Readers, NEW s \in Sessions,
           NEW offset \in {0, PageSize}, GetMessages(r, s, offset)
    PROVE  PagesInv'
<1> DEFINE p == [NoPage EXCEPT !.at = "lock", !.s = s, !.offset = offset, !.had = transcript[s].n]
<1>1. reader' = [reader EXCEPT ![r] = p] /\ UNCHANGED <<transcript, second, looked, again, messages>>
    BY DEF GetMessages, fileVars
<1>2. p \in PageShape /\ p.at = "lock" /\ p.s = s /\ p.had = transcript[s].n
      /\ transcript[s].n \in Nat
    <2>1. transcript[s].n \in Nat
        BY DEF PagesInv, PagesTyped
    <2>2. offset \in Nat
        OBVIOUS
    <2> QED
        BY <2>1, <2>2 DEF NoPage, PageShape
<1>3. SeesAll(p)
    BY <1>2 DEF SeesAll
<1> HIDE DEF p
<1> QED
    BY <1>1, <1>2, <1>3, ReaderKeeps DEF PagesInv, PagesTyped

\* A reader that goes back has nothing before it.
LEMMA LeavesKeep ==
    ASSUME PagesInv, NEW r \in Readers, reader' = [reader EXCEPT ![r] = NoPage],
           UNCHANGED <<transcript, second, looked, again, messages>>
    PROVE  PagesInv'
<1>1. NoPage \in PageShape /\ NoPage.at = "idle" /\ SeesAll(NoPage)
    BY DEF NoPage, PageShape, SeesAll
<1> QED
    BY <1>1, ReaderKeeps DEF PagesInv, PagesTyped

\* The mutex is taken.
LEMMA EnsureCachedKeeps ==
    ASSUME PagesInv, NEW r \in Readers, EnsureCached(r)
    PROVE  PagesInv'
<1> DEFINE p == [reader[r] EXCEPT !.at = "stat"]
<1>1. reader' = [reader EXCEPT ![r] = p] /\ UNCHANGED <<transcript, second, looked, again, messages>>
      /\ reader[r].at = "lock"
    BY DEF EnsureCached, fileVars
<1>2. p \in PageShape /\ p.at = "stat" /\ p.s = reader[r].s /\ p.had = reader[r].had
      /\ p.excused = reader[r].excused /\ p.s \in Sessions
    BY <1>1 DEF PageShape, PagesInv, PagesTyped
<1>3. SeesAll(p)
    BY <1>1, <1>2 DEF SeesAll, PagesInv, ReadersSeeAll
<1> HIDE DEF p
<1> QED
    BY <1>1, <1>2, <1>3, ReaderKeeps DEF PagesInv, PagesTyped

\* The second of the file is taken.
LEMMA StatTranscriptKeeps ==
    ASSUME PagesInv, NEW r \in Readers, StatTranscript(r)
    PROVE  PagesInv'
<1> DEFINE s == reader[r].s
           p == [reader[r] EXCEPT !.at = "check", !.sec = transcript[s].sec, !.excused = @ \/ again[s]]
<1>1. UNCHANGED <<transcript, second, again, messages>> /\ reader[r].at = "stat"
    BY DEF StatTranscript
<1>2. CASE HasFile(s)
    <2>1. reader' = [reader EXCEPT ![r] = p] /\ looked' = [looked EXCEPT ![s] = TRUE]
        BY <1>2 DEF StatTranscript, Noted, PagesInv, PagesTyped, PageShape
    <2>2. s \in Sessions /\ transcript[s].sec \in Nat /\ again[s] \in BOOLEAN
          /\ reader[r] \in PageShape
        BY <1>1 DEF PagesInv, PagesTyped
    <2>3. p \in PageShape /\ p.at = "check" /\ p.s = s /\ p.had = reader[r].had
          /\ p.sec = transcript[s].sec /\ p.excused = (reader[r].excused \/ again[s])
        BY <2>2 DEF PageShape
    <2>4. /\ looked' \in [Sessions -> BOOLEAN] /\ looked'[s]
          /\ \A x \in Sessions : looked[x] => looked'[x]
        BY <2>1, <2>2 DEF PagesInv, PagesTyped
    <2>5. p.sec # 0 /\ p.sec <= transcript[s].sec
        BY <1>2, <2>2, <2>3 DEF PagesInv, SecondsPass
    <2>6. SeesAll(p)
        <3>1. reader[r].excused \/ transcript[s].n >= reader[r].had
            BY <1>1 DEF PagesInv, ReadersSeeAll, SeesAll
        <3>2. transcript[s].n \in Nat /\ messages[s].n \in Nat /\ p.had \in Nat
            BY <2>2, <2>3 DEF PagesInv, PagesTyped, PageShape
        <3>3. ~again[s] /\ messages[s].sec = transcript[s].sec => messages[s].n >= transcript[s].n
            BY <1>2, <2>2 DEF PagesInv, IndexedAreRight
        <3>4. ASSUME ~p.excused
              PROVE  transcript[s].n >= p.had
                     /\ (messages[s].sec = p.sec => messages[s].n >= p.had)
            <4>1. ~reader[r].excused /\ ~again[s]
                BY <2>2, <2>3, <3>4 DEF PageShape
            <4> QED
                BY <2>3, <3>1, <3>2, <3>3, <4>1
        <3> QED
            BY <2>3, <3>4 DEF SeesAll
    <2> HIDE DEF p
    <2> QED
        BY <1>1, <2>1, <2>2, <2>3, <2>4, <2>5, <2>6, ReaderKeeps
<1>3. CASE ~HasFile(s)
    BY <1>1, <1>3, LeavesKeep DEF StatTranscript
<1> QED
    BY <1>2, <1>3

\* The second that is indexed is compared with it.
LEMMA CheckCachedKeeps ==
    ASSUME PagesInv, NEW r \in Readers, CheckCached(r)
    PROVE  PagesInv'
<1> DEFINE s == reader[r].s
           p == [reader[r] EXCEPT !.at = IF messages[s].sec = reader[r].sec THEN "count" ELSE "index"]
<1>1. reader' = [reader EXCEPT ![r] = p] /\ UNCHANGED <<transcript, second, looked, again, messages>>
      /\ reader[r].at = "check"
    BY DEF CheckCached, fileVars
<1>2. p \in PageShape /\ p.at = (IF messages[s].sec = reader[r].sec THEN "count" ELSE "index")
      /\ p.s = s /\ p.had = reader[r].had /\ p.sec = reader[r].sec
      /\ p.excused = reader[r].excused /\ s \in Sessions
    BY <1>1 DEF PageShape, PagesInv, PagesTyped
<1>3. SeesAll(p)
    BY <1>1, <1>2 DEF SeesAll, PagesInv, ReadersSeeAll
<1>4. /\ p.sec # 0 /\ p.sec <= transcript[s].sec
      /\ p.sec = transcript[s].sec => looked[s]
    BY <1>1, <1>2 DEF PagesInv, TakenWereLookedAt
<1> HIDE DEF p
<1> QED
    BY <1>1, <1>2, <1>3, <1>4, ReaderKeeps DEF PagesInv, PagesTyped

\* The lines are counted.
LEMMA CountMessagesKeeps ==
    ASSUME PagesInv, NEW r \in Readers, CountMessages(r)
    PROVE  PagesInv'
<1> DEFINE p == [reader[r] EXCEPT !.at = "rows", !.total = messages[reader[r].s].n]
<1>1. reader' = [reader EXCEPT ![r] = p] /\ UNCHANGED <<transcript, second, looked, again, messages>>
      /\ reader[r].at = "count"
    BY DEF CountMessages, fileVars
<1>2. p \in PageShape /\ p.at = "rows" /\ p.s = reader[r].s /\ p.had = reader[r].had
      /\ p.total = messages[p.s].n /\ p.excused = reader[r].excused /\ p.s \in Sessions
    BY <1>1 DEF PageShape, PagesInv, PagesTyped
<1>3. SeesAll(p)
    BY <1>1, <1>2 DEF SeesAll, PagesInv, ReadersSeeAll
<1> HIDE DEF p
<1> QED
    BY <1>1, <1>2, <1>3, ReaderKeeps DEF PagesInv, PagesTyped

\* A page is no longer than the limit.
LEMMA PageFits ==
    ASSUME PageSize \in Nat, NEW n \in Nat, NEW offset \in Nat
    PROVE  /\ PageLength(n, offset) \in Nat
           /\ PageLength(0, offset) = 0
           /\ offset + PageLength(n, offset) < n <=> offset + PageSize < n
BY DEF PageLength

\* The lines are read.
LEMMA SelectMessagesKeeps ==
    ASSUME PagesInv, PageSize \in Nat, NEW r \in Readers, SelectMessages(r)
    PROVE  PagesInv'
<1> DEFINE got == IF reader[r].total = 0 THEN 0
                  ELSE PageLength(messages[reader[r].s].n, reader[r].offset)
           p == [reader[r] EXCEPT !.at = "answer", !.got = got]
<1>1. reader' = [reader EXCEPT ![r] = p] /\ UNCHANGED <<transcript, second, looked, again, messages>>
      /\ reader[r].at = "rows"
    BY DEF SelectMessages, fileVars
<1>2. reader[r] \in PageShape /\ reader[r].s \in Sessions /\ messages[reader[r].s].n \in Nat
      /\ reader[r].offset \in Nat /\ got \in Nat
    BY <1>1, PageFits DEF PageShape, PagesInv, PagesTyped
<1>3. p \in PageShape /\ p.at = "answer" /\ p.s = reader[r].s /\ p.had = reader[r].had
      /\ p.total = reader[r].total /\ p.offset = reader[r].offset /\ p.got = got
      /\ p.excused = reader[r].excused
    BY <1>2 DEF PageShape
<1>4. SeesAll(p)
    <2>1. ~p.excused => p.total = messages[p.s].n /\ p.total >= p.had
                        /\ transcript[p.s].n >= p.had
        BY <1>1, <1>3 DEF SeesAll, PagesInv, ReadersSeeAll
    <2>2. ~p.excused => got = PageLength(p.total, p.offset)
        BY <1>2, <1>3, <2>1, PageFits
    <2> QED
        BY <1>3, <2>1, <2>2 DEF SeesAll
<1> HIDE DEF p, got
<1> QED
    BY <1>1, <1>2, <1>3, <1>4, ReaderKeeps DEF PagesInv, PagesTyped

\* The lines of the file take the place of those that were indexed.
LEMMA IndexSessionKeeps ==
    ASSUME PagesInv, NEW r \in Readers, IndexSession(r)
    PROVE  PagesInv'
<1> DEFINE s == reader[r].s
           m == [n |-> transcript[s].n, sec |-> reader[r].sec]
           p == [reader[r] EXCEPT !.at = "count"]
<1>1. UNCHANGED <<transcript, second, looked, again>> /\ reader[r].at = "index"
      /\ s \in Sessions /\ reader[r] \in PageShape
    BY DEF IndexSession, fileVars, PagesInv, PagesTyped
<1>2. CASE ~HasFile(s)
    BY <1>1, <1>2, LeavesKeep DEF IndexSession
<1>3. CASE HasFile(s)
    <2>1. /\ messages' = [messages EXCEPT ![s] = m]
          /\ reader' = [q \in Readers |->
                 IF q = r THEN p
                 ELSE IF reader[q].s = s /\ reader[q].at = "rows"
                      THEN [reader[q] EXCEPT !.excused = TRUE] ELSE reader[q]]
        BY <1>3 DEF IndexSession
    <2>2. m.n = transcript[s].n /\ m.sec = reader[r].sec /\ m \in [n : Nat, sec : Nat]
          /\ transcript[s].n \in Nat
        BY <1>1 DEF PagesInv, PagesTyped, PageShape
    <2>3. messages'[s] = m /\ \A x \in Sessions \ {s} : messages'[x] = messages[x]
        BY <1>1, <2>1 DEF PagesInv, PagesTyped
    <2>4. p \in PageShape /\ p.at = "count" /\ p.s = s /\ p.had = reader[r].had
          /\ p.excused = reader[r].excused
        BY <1>1 DEF PageShape
    <2>5. ASSUME NEW q \in Readers \ {r}
          PROVE  /\ reader'[q] \in PageShape /\ reader'[q].at = reader[q].at
                 /\ reader'[q].s = reader[q].s /\ reader'[q].sec = reader[q].sec
                 /\ \/ reader'[q] = reader[q] /\ ~(reader[q].s = s /\ reader[q].at = "rows")
                    \/ reader'[q].excused
        BY <2>1 DEF PagesInv, PagesTyped, PageShape
    <2>6. reader'[r] = p
        BY <2>1
    <2> HIDE DEF m, p
    <2>7. PagesTyped'
        <3>1. messages' \in [Sessions -> [n : Nat, sec : Nat]]
            BY <1>1, <2>1, <2>2 DEF PagesInv, PagesTyped
        <3>2. reader' \in [Readers -> PageShape]
            BY <2>1, <2>4, <2>5, <2>6
        <3>3. ASSUME NEW q \in Readers, reader'[q].at # "idle" PROVE reader'[q].s \in Sessions
            BY <1>1, <2>4, <2>5, <2>6, <3>3 DEF PagesInv, PagesTyped
        <3> QED
            BY <1>1, <3>1, <3>2, <3>3 DEF PagesInv, PagesTyped
    <2>8. SecondsPass'
        BY <1>1 DEF PagesInv, SecondsPass, HasFile
    <2>9. IndexedAreRight'
        <3>1. m.sec # 0 /\ m.sec <= transcript[s].sec /\ (m.sec = transcript[s].sec => looked[s])
            BY <1>1, <2>2 DEF PagesInv, TakenWereLookedAt
        <3>2. ASSUME NEW x \in Sessions
              PROVE  /\ messages'[x].sec <= transcript[x].sec
                     /\ messages'[x].sec = transcript[x].sec /\ transcript[x].sec # 0 => looked[x]
                     /\ HasFile(x) /\ messages'[x].sec = transcript[x].sec /\ ~again[x] =>
                           messages'[x].n >= transcript[x].n
            <4>1. CASE x = s
                BY <2>2, <2>3, <3>1, <4>1
            <4>2. CASE x # s
                BY <2>3, <4>2 DEF PagesInv, IndexedAreRight
            <4> QED
                BY <4>1, <4>2
        <3> QED
            BY <1>1, <3>2 DEF IndexedAreRight, HasFile
    <2>10. TakenWereLookedAt'
        <3>1. ASSUME NEW q \in Readers, reader'[q].at \in {"check", "index"}
              PROVE  LET t == transcript[reader'[q].s] IN
                     /\ reader'[q].sec # 0 /\ reader'[q].sec <= t.sec
                     /\ reader'[q].sec = t.sec => looked[reader'[q].s]
            <4>1. q # r
                BY <2>4, <2>6, <3>1
            <4> QED
                BY <2>5, <3>1, <4>1 DEF PagesInv, TakenWereLookedAt
        <3> QED
            BY <1>1, <3>1 DEF TakenWereLookedAt
    <2>11. ReadersSeeAll'
        <3>1. ASSUME NEW q \in Readers PROVE SeesAll(reader[q])'
            <4>1. CASE q = r
                <5>1. ~p.excused => transcript[s].n >= p.had
                    BY <1>1, <2>4 DEF PagesInv, ReadersSeeAll, SeesAll
                <5> QED
                    BY <1>1, <2>2, <2>3, <2>4, <2>6, <4>1, <5>1 DEF SeesAll
            <4>2. CASE q # r /\ reader'[q].excused
                BY <4>2 DEF SeesAll
            <4>3. CASE q # r /\ ~reader'[q].excused
                <5>1. reader'[q] = reader[q] /\ ~(reader[q].s = s /\ reader[q].at = "rows")
                    BY <2>5, <4>3
                <5>2. SeesAll(reader[q]) /\ (reader[q].at # "idle" => reader[q].s \in Sessions)
                    BY DEF PagesInv, PagesTyped, ReadersSeeAll
                <5>3. CASE reader[q].s = s
                    BY <1>1, <2>2, <2>3, <5>1, <5>2, <5>3 DEF SeesAll
                <5>4. CASE reader[q].s # s
                    BY <1>1, <2>3, <5>1, <5>2, <5>4 DEF SeesAll
                <5> QED
                    BY <5>3, <5>4
            <4> QED
                BY <4>1, <4>2, <4>3
        <3> QED
            BY <3>1 DEF ReadersSeeAll
    <2> QED
        BY <2>7, <2>8, <2>9, <2>10, <2>11 DEF PagesInv
<1> QED
    BY <1>2, <1>3

\* A second passes.
LEMMA SecondKeeps == PagesInv /\ Second => PagesInv'
<1> SUFFICES ASSUME PagesInv, Second PROVE PagesInv'
    OBVIOUS
<1>1. second' = second + 1 /\ UNCHANGED <<transcript, looked, again, messages, reader>>
    BY DEF Second, pageVars
<1>2. PagesTyped'
    BY <1>1 DEF PagesInv, PagesTyped
<1>3. SecondsPass'
    BY <1>1 DEF PagesInv, PagesTyped, SecondsPass, HasFile
<1>4. IndexedAreRight' /\ TakenWereLookedAt' /\ ReadersSeeAll'
    BY <1>1 DEF PagesInv, IndexedAreRight, TakenWereLookedAt, ReadersSeeAll, SeesAll, HasFile
<1> QED
    BY <1>2, <1>3, <1>4 DEF PagesInv

\* Nothing happens to the pages.
LEMMA PagesStutter == PagesInv /\ UNCHANGED historyVars => PagesInv'
BY DEF PagesInv, PagesTyped, SecondsPass, IndexedAreRight, TakenWereLookedAt, ReadersSeeAll,
       SeesAll, HasFile, historyVars, fileVars, listVars, pageVars

\* Every step keeps it.
LEMMA PageStepKeeps == PageSize \in Nat /\ PagesInv /\ [PageNext]_historyVars => PagesInv'
<1> SUFFICES ASSUME PageSize \in Nat, PagesInv, PageNext PROVE PagesInv'
    BY PagesStutter
<1>1. CASE Transcripts
    <2>1. CASE Second
        BY <2>1, SecondKeeps
    <2>2. CASE \E s \in Sessions : DeleteFile(s)
        BY <2>2, DeleteFileKeeps
    <2>3. CASE \E s \in Sessions, text \in BOOLEAN : AppendLine(s, text)
        BY <2>3, AppendLineKeeps
    <2> QED
        BY <1>1, <2>1, <2>2, <2>3
        DEF Transcripts, HandleDeleteSessions, HandleDeleteAgentSessions, DeleteHistorySession
<1>2. ASSUME NEW r \in Readers,
             \/ \E s \in Sessions, offset \in {0, PageSize} : GetMessages(r, s, offset)
             \/ EnsureCached(r) \/ StatTranscript(r) \/ CheckCached(r) \/ IndexSession(r)
             \/ CountMessages(r) \/ SelectMessages(r) \/ AnswerPage(r)
      PROVE  PagesInv'
    <2>1. CASE \E s \in Sessions, offset \in {0, PageSize} : GetMessages(r, s, offset)
        BY <2>1, GetMessagesKeeps
    <2>2. CASE EnsureCached(r)
        BY <2>2, EnsureCachedKeeps
    <2>3. CASE StatTranscript(r)
        BY <2>3, StatTranscriptKeeps
    <2>4. CASE CheckCached(r)
        BY <2>4, CheckCachedKeeps
    <2>5. CASE IndexSession(r)
        BY <2>5, IndexSessionKeeps
    <2>6. CASE CountMessages(r)
        BY <2>6, CountMessagesKeeps
    <2>7. CASE SelectMessages(r)
        BY <2>7, SelectMessagesKeeps
    <2>8. CASE AnswerPage(r)
        BY <2>8, LeavesKeep DEF AnswerPage, fileVars
    <2> QED
        BY <1>2, <2>1, <2>2, <2>3, <2>4, <2>5, <2>6, <2>7, <2>8
<1> QED
    BY <1>1, <1>2 DEF PageNext, HandleClaudeSessionMessages, GetWorkspaceSessionMessages

\* The index of transcripts and its readers stay as PagesInv says, for any number
\* of transcripts and readers and any size of a page.
THEOREM PagesInvariance == PageSpec => []PagesInv
<1>1. PagesInv /\ [PageNext]_historyVars => PagesInv'
    BY PageStepKeeps, PageSizeAssumption
<1> QED
    BY PagesBegin, <1>1, PTL DEF PageSpec

\* A page has every line that was in the transcript when it was asked for and says
\* rightly whether there are more, unless the reader is excused: the file was
\* written again in the second it was looked at, was deleted or was indexed between
\* the count and the lines (MessageCache.GetMessages).
THEOREM PageStaysWhole == PageSpec => []PageIsWhole
<1>1. PagesInv => PageIsWhole
    <2> SUFFICES ASSUME PagesInv, NEW r \in Readers, reader[r].at = "answer", ~reader[r].excused
                 PROVE  /\ reader[r].total >= reader[r].had
                        /\ reader[r].got = PageLength(reader[r].total, reader[r].offset)
                        /\ HasMore(r) <=> reader[r].offset + PageSize < reader[r].total
        BY DEF PageIsWhole
    <2>1. /\ reader[r].total >= reader[r].had
          /\ reader[r].got = PageLength(reader[r].total, reader[r].offset)
        BY DEF PagesInv, ReadersSeeAll, SeesAll
    <2>2. reader[r].total \in Nat /\ reader[r].offset \in Nat
        BY DEF PagesInv, PagesTyped, PageShape
    <2> QED
        BY <2>1, <2>2, PageFits, PageSizeAssumption DEF HasMore
<1> QED
    BY PagesInvariance, <1>1, PTL

-----------------------------------------------------------------------------
(* The index of Codex's rollouts *)

EntryShape == [mtime : Nat, read : Nat]
AskShape == [op : {"none", "list", "fresh", "relist", "delete"},
             at : {"idle", "lock", "walk", "open", "parse", "answer", "done", "remove", "invalidate"},
             r : Rollouts \cup {NoOne}, file : Rollouts \cup {NoOne}, todo : SUBSET Rollouts,
             seen : SUBSET Rollouts, mtime : Nat, found : [Rollouts -> EntryShape],
             had : [Rollouts -> Nat]]

IndexTyped ==
    /\ rollout \in [Rollouts -> Nat] /\ unlinked \subseteq Rollouts /\ withdrawn \subseteq Rollouts
    /\ fileEntryCache \in [Rollouts -> EntryShape] /\ projectIndex \in [Rollouts -> EntryShape]
    /\ asking \in [Askers -> AskShape]

\* A call walks the directory; has its list from a walk of its own or a later
\* one; has the rollout behind it on its walk.
Walks(p) == p.at \in {"walk", "open", "parse"}
Served(p) == p.op = "relist" \/ (p.op = "fresh" /\ p.at = "answer")
AtFile(p) == p.at \in {"open", "parse"}
Behind(p, r) == Walks(p) /\ r \notin p.todo /\ ~(AtFile(p) /\ p.file = r)

\* The mutex: who walks or answers has it.
MutexHeld == \A c \in Askers : (Walks(asking[c]) \/ asking[c].at = "answer") <=> holder = c

\* What was removed is gone, before the index is told.
RemovedAreGone ==
    /\ \A r \in unlinked : rollout[r] = 0
    /\ \A c \in Askers : /\ asking[c].op = "delete" => asking[c].r \in Rollouts
                         /\ asking[c].at \in {"remove", "invalidate"} => asking[c].op = "delete"
                         /\ asking[c].at = "invalidate" => asking[c].r \in unlinked

\* What a walk has found is in the cache, and of files it met.
FoundIsCached(p) ==
    /\ Walks(p) => /\ p.todo \subseteq p.seen /\ p.seen \cap withdrawn = {}
                   /\ AtFile(p) => p.file \in p.seen
                   /\ \A r \in Rollouts : p.found[r] # Unknown =>
                         r \in p.seen /\ fileEntryCache[r] = p.found[r]
    /\ p.at = "parse" => p.mtime # 0 /\ (p.file \in unlinked \/ p.mtime <= rollout[p.file])
    /\ p.at \in {"lock", "answer"} => p.found = Nothing
WalksFindCached == \A c \in Askers : FoundIsCached(asking[c])

\* What is listed is cached, was read at the time the entry has or later, and is
\* of no rollout that was taken off.
ListedAreCached ==
    /\ \A r \in Rollouts : projectIndex[r] # Unknown => fileEntryCache[r] # Unknown
    /\ \A r \in Rollouts : fileEntryCache[r].mtime <= fileEntryCache[r].read
    /\ \A r \in withdrawn : r \in unlinked /\ fileEntryCache[r] = Unknown /\ projectIndex[r] = Unknown

\* Files only grow, until they are removed.
FilesGrow == \A c \in Askers : \A r \in Rollouts \ unlinked : asking[c].had[r] <= rollout[r]

\* Whoever is served by the index is told of all there was when it called, and
\* every walk under way finds it again.
ServedSeeAll ==
    \A d \in Askers : \A r \in Rollouts \ unlinked : asking[d].had[r] > 1 =>
        /\ Served(asking[d]) => projectIndex[r].read >= asking[d].had[r]
        /\ asking[d].at = "done" => asking[d].found[r].read >= asking[d].had[r]
        /\ \A c \in Askers : Behind(asking[c], r) /\ (c = d \/ Served(asking[d])) =>
              asking[c].found[r].read >= asking[d].had[r]

RolloutIndexInv ==
    /\ IndexTyped /\ MutexHeld /\ RemovedAreGone /\ WalksFindCached /\ ListedAreCached
    /\ FilesGrow /\ ServedSeeAll

\* The list is as it should be.
LEMMA ListsAreRight == RolloutIndexInv => IndexKeepsUp
BY DEF RolloutIndexInv, ListedAreCached, ServedSeeAll, IndexKeepsUp, DeletedStaysOff, RefreshMissesNothing

\* A call that rests.
LEMMA RestingTyped ==
    /\ Resting \in AskShape /\ Resting.op = "none" /\ Resting.at = "idle" /\ Resting.had = [r \in Rollouts |-> 0]
    /\ Resting.found = Nothing /\ Nothing \in [Rollouts -> EntryShape] /\ Unknown \in EntryShape
    /\ Unknown.read = 0 /\ Unknown.mtime = 0 /\ \A r \in Rollouts : Nothing[r] = Unknown
BY DEF Resting, AskShape, Nothing, Unknown, EntryShape

\* The index begins with nothing.
LEMMA IndexBegins == CodexHistoryInit => RolloutIndexInv
<1> SUFFICES ASSUME CodexHistoryInit PROVE RolloutIndexInv
    OBVIOUS
<1>1. \A c \in Askers : asking[c] = Resting
    BY DEF CodexHistoryInit
<1>2. IndexTyped
    BY RestingTyped DEF CodexHistoryInit, IndexTyped
<1>3. MutexHeld /\ RemovedAreGone /\ WalksFindCached
    BY <1>1, RestingTyped, AskersAssumption
    DEF CodexHistoryInit, MutexHeld, RemovedAreGone, WalksFindCached, FoundIsCached, Walks
<1>4. ListedAreCached
    BY RestingTyped DEF CodexHistoryInit, ListedAreCached
<1>5. \A c \in Askers, r \in Rollouts : asking[c].had[r] = 0
    BY <1>1, RestingTyped
<1>6. FilesGrow /\ ServedSeeAll
    BY <1>2, <1>5 DEF IndexTyped, FilesGrow, ServedSeeAll
<1> QED
    BY <1>2, <1>3, <1>4, <1>6 DEF RolloutIndexInv

\* A rollout is written.
LEMMA WriteRolloutKeeps ==
    ASSUME RolloutIndexInv, NEW s \in Rollouts, WriteRollout(s)
    PROVE  RolloutIndexInv'
<1>1. /\ s \notin unlinked /\ rollout' = [rollout EXCEPT ![s] = rollout[s] + 1]
      /\ UNCHANGED <<unlinked, fileEntryCache, projectIndex, holder, asking, withdrawn>>
    BY DEF WriteRollout
<1>2. IndexTyped'
    BY <1>1 DEF RolloutIndexInv, IndexTyped
<1>3. /\ \A r \in Rollouts : rollout'[r] \in Nat /\ rollout[r] \in Nat /\ rollout'[r] >= rollout[r]
      /\ \A r \in Rollouts \ {s} : rollout'[r] = rollout[r]
    BY <1>1 DEF RolloutIndexInv, IndexTyped
<1>4. MutexHeld' /\ ListedAreCached' /\ ServedSeeAll'
    BY <1>1 DEF RolloutIndexInv, MutexHeld, ListedAreCached, ServedSeeAll, Walks, Served, Behind, AtFile
<1>5. RemovedAreGone'
    BY <1>1, <1>3 DEF RolloutIndexInv, IndexTyped, RemovedAreGone
<1>6. WalksFindCached'
    <2>1. ASSUME NEW c \in Askers, asking[c].at = "parse", asking[c].file \notin unlinked
          PROVE  asking[c].mtime <= rollout'[asking[c].file]
        <3>1. asking[c].mtime <= rollout[asking[c].file] /\ asking[c].file \in asking[c].seen
            BY <2>1 DEF RolloutIndexInv, WalksFindCached, FoundIsCached, Walks, AtFile
        <3>2. asking[c].file \in Rollouts /\ asking[c].mtime \in Nat
            BY <3>1 DEF RolloutIndexInv, IndexTyped, AskShape
        <3> QED
            BY <1>3, <3>1, <3>2
    <2> QED
        BY <1>1, <2>1 DEF RolloutIndexInv, WalksFindCached, FoundIsCached, Walks, AtFile
<1>7. FilesGrow'
    <2>1. ASSUME NEW c \in Askers, NEW r \in Rollouts \ unlinked
          PROVE  asking[c].had[r] <= rollout'[r]
        <3>1. asking[c].had[r] \in Nat /\ asking[c].had[r] <= rollout[r]
            BY DEF RolloutIndexInv, IndexTyped, AskShape, FilesGrow
        <3> QED
            BY <1>3, <3>1
    <2> QED
        BY <1>1, <2>1 DEF FilesGrow
<1> QED
    BY <1>2, <1>4, <1>5, <1>6, <1>7 DEF RolloutIndexInv

\* A rollout is removed; nobody looks at the index.
LEMMA FileGoes ==
    ASSUME RolloutIndexInv, NEW s \in Rollouts, rollout' = [rollout EXCEPT ![s] = 0], unlinked' = unlinked \cup {s},
           UNCHANGED <<fileEntryCache, projectIndex, holder, asking, withdrawn>>
    PROVE  RolloutIndexInv'
<1>1. IndexTyped'
    BY DEF RolloutIndexInv, IndexTyped
<1>2. rollout'[s] = 0 /\ \A r \in Rollouts \ {s} : rollout'[r] = rollout[r]
    BY DEF RolloutIndexInv, IndexTyped
<1>3. MutexHeld' /\ ListedAreCached'
    BY DEF RolloutIndexInv, MutexHeld, ListedAreCached, Walks
<1>4. RemovedAreGone'
    BY <1>2 DEF RolloutIndexInv, IndexTyped, RemovedAreGone
<1>5. WalksFindCached'
    <2>1. ASSUME NEW c \in Askers, asking[c].at = "parse"
          PROVE  asking[c].file \in unlinked' \/ asking[c].mtime <= rollout'[asking[c].file]
        <3>1. asking[c].file \in unlinked \/ asking[c].mtime <= rollout[asking[c].file]
            BY <2>1 DEF RolloutIndexInv, WalksFindCached, FoundIsCached
        <3>2. asking[c].file \in Rollouts
            BY <2>1 DEF RolloutIndexInv, IndexTyped, AskShape, WalksFindCached, FoundIsCached, Walks, AtFile
        <3> QED
            BY <1>2, <3>1, <3>2
    <2> QED
        BY <2>1 DEF RolloutIndexInv, WalksFindCached, FoundIsCached, Walks, AtFile
<1>6. FilesGrow'
    BY <1>2 DEF RolloutIndexInv, FilesGrow
<1>7. ServedSeeAll'
    BY DEF RolloutIndexInv, ServedSeeAll, Walks, Served, Behind, AtFile
<1> QED
    BY <1>1, <1>3, <1>4, <1>5, <1>6, <1>7 DEF RolloutIndexInv

\* What is to be said of a call that goes on, of its own and of the others.
GoesOn(c, p) ==
    /\ p \in AskShape
    /\ p.op = "delete" => p.r \in Rollouts
    /\ p.at \in {"remove", "invalidate"} => p.op = "delete"
    /\ p.at = "invalidate" => p.r \in unlinked
    /\ FoundIsCached(p)
    /\ \A r \in Rollouts \ unlinked : p.had[r] <= rollout[r]
    /\ Served(p) => Served(asking[c]) /\ p.had = asking[c].had
    /\ \A r \in Rollouts \ unlinked : p.had[r] > 1 /\ p.at = "done" => p.found[r].read >= p.had[r]
    /\ \A r \in Rollouts \ unlinked : Behind(p, r) =>
          /\ p.had[r] > 1 => p.found[r].read >= p.had[r]
          /\ \A d \in Askers \ {c} : Served(asking[d]) /\ asking[d].had[r] > 1 =>
                p.found[r].read >= asking[d].had[r]

\* A step of one call that changes neither file nor index.
LEMMA AskGoesOn ==
    ASSUME RolloutIndexInv, NEW c \in Askers, NEW p, asking' = [asking EXCEPT ![c] = p],
           UNCHANGED <<rollout, unlinked, fileEntryCache, projectIndex, withdrawn>>,
           GoesOn(c, p), MutexHeld'
    PROVE  RolloutIndexInv'
<1>1. asking'[c] = p /\ \A d \in Askers \ {c} : asking'[d] = asking[d]
    BY DEF RolloutIndexInv, IndexTyped
<1>2. IndexTyped'
    BY DEF RolloutIndexInv, IndexTyped, GoesOn
<1>3. RemovedAreGone'
    BY <1>1 DEF RolloutIndexInv, RemovedAreGone, GoesOn
<1>4. WalksFindCached'
    <2>1. ASSUME NEW d \in Askers PROVE FoundIsCached(asking[d])'
        <3>1. CASE d = c
            BY <1>1, <3>1 DEF GoesOn, FoundIsCached, Walks, AtFile
        <3>2. CASE d # c
            BY <1>1, <3>2 DEF RolloutIndexInv, WalksFindCached, FoundIsCached, Walks, AtFile
        <3> QED
            BY <3>1, <3>2
    <2> QED
        BY <2>1 DEF WalksFindCached
<1>5. ListedAreCached'
    BY DEF RolloutIndexInv, ListedAreCached
<1>6. FilesGrow'
    BY <1>1 DEF RolloutIndexInv, FilesGrow, GoesOn
<1>7. ServedSeeAll'
    <2>1. ASSUME NEW d \in Askers, NEW r \in Rollouts \ unlinked, asking'[d].had[r] > 1
          PROVE  /\ Served(asking'[d]) => projectIndex[r].read >= asking'[d].had[r]
                 /\ asking'[d].at = "done" => asking'[d].found[r].read >= asking'[d].had[r]
        <3>1. CASE d = c
            BY <1>1, <2>1, <3>1 DEF GoesOn, RolloutIndexInv, ServedSeeAll
        <3>2. CASE d # c
            BY <1>1, <2>1, <3>2 DEF RolloutIndexInv, ServedSeeAll
        <3> QED
            BY <3>1, <3>2
    <2>2. ASSUME NEW d \in Askers, NEW r \in Rollouts \ unlinked, asking'[d].had[r] > 1,
                 NEW q \in Askers, Behind(asking'[q], r), q = d \/ Served(asking'[d])
          PROVE  asking'[q].found[r].read >= asking'[d].had[r]
        <3>1. CASE q = c /\ d = c
            BY <1>1, <2>2, <3>1 DEF GoesOn
        <3>2. CASE q = c /\ d # c
            BY <1>1, <2>2, <3>2 DEF GoesOn
        <3>3. CASE q # c /\ d = c
            BY <1>1, <2>2, <3>3 DEF GoesOn, RolloutIndexInv, ServedSeeAll
        <3>4. CASE q # c /\ d # c
            BY <1>1, <2>2, <3>4 DEF RolloutIndexInv, ServedSeeAll
        <3> QED
            BY <3>1, <3>2, <3>3, <3>4
    <2>3. /\ \A d \in Askers, r \in Rollouts : Served(asking[d])' = Served(asking'[d])
                                              /\ Behind(asking[d], r)' = Behind(asking'[d], r)
        BY DEF Served, Behind, Walks, AtFile
    <2> QED
        BY <2>1, <2>2 DEF ServedSeeAll, Served, Behind, Walks, AtFile
<1> QED
    BY <1>2, <1>3, <1>4, <1>5, <1>6, <1>7 DEF RolloutIndexInv

\* A call begins.
LEMMA StartCallKeeps ==
    ASSUME RolloutIndexInv, NEW c \in Askers, NEW op \in {"list", "fresh", "delete"},
           NEW s \in Rollouts \cup {NoOne}, op = "delete" => s \in Rollouts, StartCall(c, op, s)
    PROVE  RolloutIndexInv'
<1> DEFINE h == IF op = "fresh" THEN rollout ELSE Resting.had
           p == [Resting EXCEPT !.op = op, !.at = "lock", !.r = s, !.had = h]
<1>1. asking' = [asking EXCEPT ![c] = p] /\ asking[c].at = "idle"
      /\ UNCHANGED <<rollout, unlinked, fileEntryCache, projectIndex, holder, withdrawn>>
    BY DEF StartCall
<1>2. h \in [Rollouts -> Nat] /\ \A r \in Rollouts : h[r] <= rollout[r]
    BY RestingTyped DEF RolloutIndexInv, IndexTyped
<1> HIDE DEF h
<1>3. p \in AskShape /\ p.op = op /\ p.at = "lock" /\ p.r = s /\ p.found = Nothing /\ p.had = h
    BY <1>2, RestingTyped DEF AskShape
<1> HIDE DEF p
<1>4. GoesOn(c, p)
    BY <1>2, <1>3 DEF GoesOn, FoundIsCached, Served, Behind, Walks
<1>5. MutexHeld'
    <2>1. asking'[c] = p /\ \A d \in Askers \ {c} : asking'[d] = asking[d]
        BY <1>1 DEF RolloutIndexInv, IndexTyped
    <2> QED
        BY <1>1, <1>3, <2>1 DEF RolloutIndexInv, MutexHeld, Walks
<1> QED
    BY <1>1, <1>4, <1>5, AskGoesOn

\* A call gets the mutex: it walks, or has its answer.
LEMMA EnterIndexKeeps ==
    ASSUME RolloutIndexInv, NEW c \in Askers, EnterIndex(c)
    PROVE  RolloutIndexInv'
<1> DEFINE a == asking[c]
           w == [a EXCEPT !.at = "walk", !.todo = Present, !.seen = Present]
           u == [a EXCEPT !.at = "answer"]
           p == IF lastScan = "stale" \/ a.op = "fresh" THEN w ELSE u
<1>1. asking' = [asking EXCEPT ![c] = p] /\ a.at = "lock" /\ holder = NoOne /\ holder' = c
      /\ UNCHANGED <<rollout, unlinked, fileEntryCache, projectIndex, withdrawn>>
    BY DEF EnterIndex
<1>2. a \in AskShape /\ Present \subseteq Rollouts /\ a.found = Nothing
      /\ (a.op = "delete" => a.r \in Rollouts)
    BY <1>1 DEF RolloutIndexInv, IndexTyped, Present, WalksFindCached, FoundIsCached, RemovedAreGone
<1>3. w \in AskShape /\ w.at = "walk" /\ w.todo = Present /\ w.seen = Present
      /\ w.op = a.op /\ w.found = a.found /\ w.had = a.had /\ w.r = a.r
    BY <1>2 DEF AskShape
<1>4. u \in AskShape /\ u.at = "answer" /\ u.op = a.op /\ u.found = a.found /\ u.had = a.had
      /\ u.r = a.r
    BY <1>2 DEF AskShape
<1>5. Present \cap withdrawn = {}
    BY DEF RolloutIndexInv, ListedAreCached, RemovedAreGone, Present
<1>6. \A d \in Askers, r \in Rollouts \ unlinked : asking[d].had[r] > 1 => r \in Present
    <2>1. ASSUME NEW d \in Askers, NEW r \in Rollouts \ unlinked, asking[d].had[r] > 1
          PROVE  rollout[r] # 0
        <3>1. asking[d].had[r] \in Nat /\ rollout[r] \in Nat /\ asking[d].had[r] <= rollout[r]
            BY DEF RolloutIndexInv, IndexTyped, AskShape, FilesGrow
        <3> QED
            BY <2>1, <3>1
    <2> QED
        BY <2>1 DEF Present
<1> HIDE DEF w, u
<1>7. FoundIsCached(w) /\ FoundIsCached(u)
    BY <1>2, <1>3, <1>4, <1>5, RestingTyped DEF FoundIsCached, Walks, AtFile
<1>8. \A r \in Rollouts \ unlinked : a.had[r] <= rollout[r]
    BY DEF RolloutIndexInv, FilesGrow
<1>9. GoesOn(c, w)
    BY <1>1, <1>2, <1>3, <1>6, <1>7, <1>8 DEF GoesOn, Served, Behind
<1>10. a.op # "fresh" => GoesOn(c, u)
    BY <1>1, <1>2, <1>4, <1>7, <1>8 DEF GoesOn, Served, Behind, Walks
<1>11. GoesOn(c, p)
    BY <1>9, <1>10
<1>12. MutexHeld'
    <2>1. asking'[c] = p /\ \A d \in Askers \ {c} : asking'[d] = asking[d]
        BY <1>1 DEF RolloutIndexInv, IndexTyped
    <2>2. p.at \in {"walk", "answer"}
        BY <1>3, <1>4
    <2> QED
        BY <1>1, <2>1, <2>2, AskersAssumption DEF RolloutIndexInv, MutexHeld, Walks
<1> HIDE DEF p
<1> QED
    BY <1>1, <1>11, <1>12, AskGoesOn

\* A call that walks, and goes on walking.
LEMMA MutexKept ==
    ASSUME RolloutIndexInv, NEW c \in Askers, NEW p, asking' = [asking EXCEPT ![c] = p], holder' = holder,
           Walks(asking[c]), Walks(p) \/ p.at = "answer"
    PROVE  MutexHeld'
<1>1. asking'[c] = p /\ \A d \in Askers \ {c} : asking'[d] = asking[d]
    BY DEF RolloutIndexInv, IndexTyped
<1> QED
    BY <1>1 DEF RolloutIndexInv, MutexHeld, Walks

\* A rollout is met on the walk.
LEMMA VisitRolloutKeeps ==
    ASSUME RolloutIndexInv, NEW c \in Askers, NEW s \in Rollouts, VisitRollout(c, s)
    PROVE  RolloutIndexInv'
<1> DEFINE a == asking[c]
           f == [a EXCEPT !.todo = a.todo \ {s}, !.found = [a.found EXCEPT ![s] = fileEntryCache[s]]]
           o == [a EXCEPT !.todo = a.todo \ {s}, !.at = "open", !.file = s]
           cachedAlready == rollout[s] # 0 /\ fileEntryCache[s].mtime = rollout[s]
           p == IF cachedAlready THEN f ELSE o
<1>1. asking' = [asking EXCEPT ![c] = p] /\ a.at = "walk" /\ s \in a.todo
      /\ UNCHANGED <<rollout, unlinked, fileEntryCache, projectIndex, holder, withdrawn>>
    BY DEF VisitRollout
<1>2. a \in AskShape /\ (a.op = "delete" => a.r \in Rollouts) /\ FoundIsCached(a)
      /\ fileEntryCache[s] \in EntryShape
    BY <1>1 DEF RolloutIndexInv, IndexTyped, WalksFindCached, RemovedAreGone
<1>3. f \in AskShape /\ f.at = "walk" /\ f.todo = a.todo \ {s} /\ f.seen = a.seen /\ f.op = a.op
      /\ f.had = a.had /\ f.r = a.r /\ f.found = [a.found EXCEPT ![s] = fileEntryCache[s]]
    BY <1>1, <1>2 DEF AskShape
<1>4. o \in AskShape /\ o.at = "open" /\ o.todo = a.todo \ {s} /\ o.seen = a.seen /\ o.op = a.op
      /\ o.had = a.had /\ o.r = a.r /\ o.found = a.found /\ o.file = s
    BY <1>1, <1>2 DEF AskShape
<1>5. f.found[s] = fileEntryCache[s] /\ \A r \in Rollouts \ {s} : f.found[r] = a.found[r]
    BY <1>2, <1>3 DEF AskShape
<1> HIDE DEF f, o
<1>6. FoundIsCached(f)
    BY <1>1, <1>2, <1>3, <1>5 DEF FoundIsCached, Walks, AtFile
<1>7. FoundIsCached(o)
    BY <1>1, <1>2, <1>4 DEF FoundIsCached, Walks, AtFile
<1>8. \A r \in Rollouts \ unlinked : a.had[r] <= rollout[r]
    BY DEF RolloutIndexInv, FilesGrow
<1>9. ASSUME NEW r \in Rollouts \ unlinked, r \notin a.todo \ {s}, r # s, NEW d \in Askers,
             d = c \/ Served(asking[d]), asking[d].had[r] > 1
      PROVE  a.found[r].read >= asking[d].had[r]
    <2>1. Behind(a, r)
        BY <1>1, <1>9 DEF Behind, Walks, AtFile
    <2> QED
        BY <1>9, <2>1 DEF RolloutIndexInv, ServedSeeAll
<1>10. ASSUME cachedAlready, s \notin unlinked, NEW d \in Askers
       PROVE  fileEntryCache[s].read >= asking[d].had[s]
    <2>1. asking[d].had[s] <= rollout[s] /\ fileEntryCache[s].mtime <= fileEntryCache[s].read
        BY <1>10 DEF RolloutIndexInv, FilesGrow, ListedAreCached
    <2>2. asking[d].had[s] \in Nat /\ rollout[s] \in Nat /\ fileEntryCache[s].read \in Nat
        BY <1>2 DEF RolloutIndexInv, IndexTyped, AskShape, EntryShape
    <2> QED
        BY <1>10, <2>1, <2>2
<1>11. cachedAlready => GoesOn(c, f)
    <2>1. ASSUME cachedAlready, NEW r \in Rollouts \ unlinked, Behind(f, r), NEW d \in Askers,
                 d = c \/ Served(asking[d]), asking[d].had[r] > 1
          PROVE  f.found[r].read >= asking[d].had[r]
        BY <1>3, <1>5, <1>9, <1>10, <2>1 DEF Behind
    <2>2. ~Served(f) \/ Served(a)
        BY <1>1, <1>3 DEF Served
    <2> QED
        BY <1>2, <1>3, <1>6, <1>8, <2>1, <2>2 DEF GoesOn
<1>12. GoesOn(c, o)
    <2>1. ASSUME NEW r \in Rollouts \ unlinked, Behind(o, r), NEW d \in Askers,
                 d = c \/ Served(asking[d]), asking[d].had[r] > 1
          PROVE  o.found[r].read >= asking[d].had[r]
        BY <1>4, <1>9, <2>1 DEF Behind, AtFile
    <2>2. ~Served(o) \/ Served(a)
        BY <1>1, <1>4 DEF Served
    <2> QED
        BY <1>2, <1>4, <1>7, <1>8, <2>1, <2>2 DEF GoesOn
<1>13. GoesOn(c, p) /\ Walks(p) /\ Walks(a)
    BY <1>1, <1>3, <1>4, <1>11, <1>12 DEF Walks
<1> HIDE DEF p
<1> QED
    BY <1>1, <1>13, MutexKept, AskGoesOn

\* The file is opened, or is gone.
LEMMA OpenRolloutKeeps ==
    ASSUME RolloutIndexInv, NEW c \in Askers, OpenRollout(c)
    PROVE  RolloutIndexInv'
<1> DEFINE a == asking[c]
           s == a.file
           w == [a EXCEPT !.at = "walk", !.file = NoOne]
           o == [a EXCEPT !.at = "parse", !.mtime = rollout[s]]
           p == IF rollout[s] = 0 THEN w ELSE o
<1>1. asking' = [asking EXCEPT ![c] = p] /\ a.at = "open"
      /\ UNCHANGED <<rollout, unlinked, fileEntryCache, projectIndex, holder, withdrawn>>
    BY DEF OpenRollout
<1>2. a \in AskShape /\ (a.op = "delete" => a.r \in Rollouts) /\ FoundIsCached(a)
      /\ s \in Rollouts /\ rollout[s] \in Nat
    BY <1>1 DEF RolloutIndexInv, IndexTyped, WalksFindCached, RemovedAreGone, FoundIsCached, AskShape,
                Walks, AtFile
<1>3. w \in AskShape /\ w.at = "walk" /\ w.todo = a.todo /\ w.seen = a.seen /\ w.op = a.op
      /\ w.had = a.had /\ w.r = a.r /\ w.found = a.found
    BY <1>1, <1>2 DEF AskShape
<1>4. o \in AskShape /\ o.at = "parse" /\ o.todo = a.todo /\ o.seen = a.seen /\ o.op = a.op
      /\ o.had = a.had /\ o.r = a.r /\ o.found = a.found /\ o.file = s /\ o.mtime = rollout[s]
    BY <1>1, <1>2 DEF AskShape
<1> HIDE DEF w, o
<1>5. FoundIsCached(w)
    BY <1>1, <1>2, <1>3 DEF FoundIsCached, Walks, AtFile
<1>6. rollout[s] # 0 => FoundIsCached(o)
    BY <1>1, <1>2, <1>4 DEF FoundIsCached, Walks, AtFile
<1>7. \A r \in Rollouts \ unlinked : a.had[r] <= rollout[r]
    BY DEF RolloutIndexInv, FilesGrow
<1>8. ASSUME NEW r \in Rollouts \ unlinked, r \notin a.todo, r # s, NEW d \in Askers,
             d = c \/ Served(asking[d]), asking[d].had[r] > 1
      PROVE  a.found[r].read >= asking[d].had[r]
    <2>1. Behind(a, r)
        BY <1>1, <1>8 DEF Behind, Walks, AtFile
    <2> QED
        BY <1>8, <2>1 DEF RolloutIndexInv, ServedSeeAll
<1>9. ASSUME rollout[s] = 0, s \notin unlinked, NEW d \in Askers PROVE ~(asking[d].had[s] > 1)
    <2>1. asking[d].had[s] <= rollout[s] /\ asking[d].had[s] \in Nat
        BY <1>2, <1>9 DEF RolloutIndexInv, IndexTyped, AskShape, FilesGrow
    <2> QED
        BY <1>9, <2>1
<1>10. rollout[s] = 0 => GoesOn(c, w)
    <2>1. ASSUME rollout[s] = 0, NEW r \in Rollouts \ unlinked, Behind(w, r), NEW d \in Askers,
                 d = c \/ Served(asking[d]), asking[d].had[r] > 1
          PROVE  w.found[r].read >= asking[d].had[r]
        BY <1>3, <1>8, <1>9, <2>1 DEF Behind
    <2>2. ~Served(w) \/ Served(a)
        BY <1>1, <1>3 DEF Served
    <2> QED
        BY <1>2, <1>3, <1>5, <1>7, <2>1, <2>2 DEF GoesOn
<1>11. rollout[s] # 0 => GoesOn(c, o)
    <2>1. ASSUME NEW r \in Rollouts \ unlinked, Behind(o, r), NEW d \in Askers,
                 d = c \/ Served(asking[d]), asking[d].had[r] > 1
          PROVE  o.found[r].read >= asking[d].had[r]
        BY <1>4, <1>8, <2>1 DEF Behind, AtFile
    <2>2. ~Served(o) \/ Served(a)
        BY <1>1, <1>4 DEF Served
    <2> QED
        BY <1>2, <1>4, <1>6, <1>7, <2>1, <2>2 DEF GoesOn
<1>12. GoesOn(c, p) /\ Walks(p) /\ Walks(a)
    BY <1>1, <1>3, <1>4, <1>10, <1>11 DEF Walks
<1> HIDE DEF p
<1> QED
    BY <1>1, <1>12, MutexKept, AskGoesOn

\* The file is read, and what was read of it cached.
LEMMA ParseRolloutKeeps ==
    ASSUME RolloutIndexInv, NEW c \in Askers, ParseRollout(c)
    PROVE  RolloutIndexInv'
<1> DEFINE a == asking[c]
           s == a.file
           read == IF rollout[s] = 0 THEN a.mtime ELSE rollout[s]
           e == IF read = 1 THEN Unknown ELSE [mtime |-> a.mtime, read |-> read]
           p == [a EXCEPT !.at = "walk", !.file = NoOne, !.mtime = 0,
                          !.found = [a.found EXCEPT ![s] = e]]
<1>1. asking' = [asking EXCEPT ![c] = p] /\ a.at = "parse"
      /\ fileEntryCache' = (IF read = 1 THEN fileEntryCache ELSE [fileEntryCache EXCEPT ![s] = e])
      /\ UNCHANGED <<rollout, unlinked, projectIndex, holder, withdrawn>>
    <2>1. asking' = [asking EXCEPT ![c].at = "walk", ![c].file = NoOne, ![c].mtime = 0,
                                   ![c].found = [a.found EXCEPT ![s] = e]]
        BY DEF ParseRollout
    <2>2. a.at = "parse"
          /\ fileEntryCache' = (IF read = 1 THEN fileEntryCache ELSE [fileEntryCache EXCEPT ![s] = e])
          /\ UNCHANGED <<rollout, unlinked, projectIndex, holder, withdrawn>>
        BY DEF ParseRollout
    <2> HIDE DEF e, read
    <2>3. asking' = [asking EXCEPT ![c] = p]
        BY <2>1 DEF RolloutIndexInv, IndexTyped, AskShape
    <2> QED
        BY <2>2, <2>3
<1>2. a \in AskShape /\ (a.op = "delete" => a.r \in Rollouts) /\ FoundIsCached(a)
      /\ s \in Rollouts /\ s \in a.seen /\ s \notin withdrawn /\ rollout[s] \in Nat /\ a.mtime \in Nat
      /\ fileEntryCache \in [Rollouts -> EntryShape]
      /\ \A r \in Rollouts : fileEntryCache[r].mtime <= fileEntryCache[r].read
    BY <1>1 DEF RolloutIndexInv, IndexTyped, WalksFindCached, RemovedAreGone, FoundIsCached, AskShape,
                Walks, AtFile, ListedAreCached
<1>3. /\ read = 1 => e = Unknown
      /\ read # 1 => e = [mtime |-> a.mtime, read |-> read]
      /\ read \in Nat /\ e \in EntryShape /\ e.read \in Nat
      /\ rollout[s] # 0 => read = rollout[s]
    BY <1>2, RestingTyped DEF EntryShape
<1>4. s \notin unlinked /\ rollout[s] # 0 => a.mtime <= rollout[s]
    BY <1>1, <1>2 DEF FoundIsCached
<1>5. rollout[s] # 0 => s \notin unlinked
    BY DEF RolloutIndexInv, RemovedAreGone
<1>6. e.mtime <= e.read
    BY <1>2, <1>3, <1>4, <1>5, RestingTyped
<1>7. p \in AskShape /\ p.at = "walk" /\ p.todo = a.todo /\ p.seen = a.seen /\ p.op = a.op
      /\ p.had = a.had /\ p.r = a.r /\ p.found = [a.found EXCEPT ![s] = e]
    BY <1>1, <1>2, <1>3 DEF AskShape
<1>8. p.found[s] = e /\ \A r \in Rollouts \ {s} : p.found[r] = a.found[r]
    BY <1>2, <1>7 DEF AskShape
<1>9. /\ fileEntryCache' \in [Rollouts -> EntryShape]
      /\ e = Unknown \/ fileEntryCache'[s] = e
      /\ fileEntryCache'[s] = e \/ fileEntryCache'[s] = fileEntryCache[s]
      /\ \A r \in Rollouts \ {s} : fileEntryCache'[r] = fileEntryCache[r]
    BY <1>1, <1>2, <1>3
<1>10. e # Unknown \/ fileEntryCache'[s] = fileEntryCache[s]
    <2>1. read # 1 => e # Unknown
        BY <1>1, <1>2, <1>3 DEF Unknown, FoundIsCached
    <2> QED
        BY <1>1, <2>1
<1> HIDE DEF e, read
<1>11. /\ asking'[c] = p
       /\ \A d \in Askers \ {c} : asking'[d] = asking[d] /\ ~Walks(asking[d])
    <2>1. \A d \in Askers \ {c} : ~Walks(asking[d])
        BY <1>1 DEF RolloutIndexInv, MutexHeld, Walks
    <2> HIDE DEF p
    <2> QED
        BY <1>1, <2>1 DEF RolloutIndexInv, IndexTyped
<1> HIDE DEF p
<1>12. IndexTyped'
    BY <1>1, <1>7, <1>9 DEF RolloutIndexInv, IndexTyped
<1>13. MutexHeld'
    BY <1>1, <1>7, MutexKept DEF Walks
<1>14. RemovedAreGone'
    BY <1>1, <1>2, <1>7, <1>11 DEF RolloutIndexInv, RemovedAreGone
<1>15. WalksFindCached'
    <2>1. ASSUME NEW r \in Rollouts, p.found[r] # Unknown
          PROVE  r \in p.seen /\ fileEntryCache'[r] = p.found[r]
        BY <1>1, <1>2, <1>7, <1>8, <1>9, <2>1 DEF FoundIsCached, Walks
    <2>3. FoundIsCached(asking[c])'
        BY <1>1, <1>2, <1>7, <1>11, <2>1, ZenonT(40) DEF FoundIsCached, Walks, AtFile
    <2>4. ASSUME NEW d \in Askers \ {c} PROVE FoundIsCached(asking[d])'
        BY <1>1, <1>11 DEF RolloutIndexInv, WalksFindCached, FoundIsCached, Walks, AtFile
    <2> QED
        BY <2>3, <2>4 DEF WalksFindCached
<1>16. ListedAreCached'
    <2>1. ASSUME NEW r \in Rollouts
          PROVE  /\ fileEntryCache'[r].mtime <= fileEntryCache'[r].read
                 /\ fileEntryCache[r] # Unknown => fileEntryCache'[r] # Unknown
        BY <1>2, <1>6, <1>9, <1>10
    <2>2. ASSUME NEW r \in withdrawn PROVE fileEntryCache'[r] = fileEntryCache[r]
        BY <1>2, <1>9 DEF RolloutIndexInv, IndexTyped
    <2> QED
        BY <1>1, <2>1, <2>2 DEF RolloutIndexInv, ListedAreCached
<1>17. FilesGrow'
    BY <1>1, <1>7, <1>11 DEF RolloutIndexInv, FilesGrow
<1>18. ServedSeeAll'
    <2>1. \A d \in Askers : /\ asking'[d].had = asking[d].had
                            /\ Served(asking'[d]) => Served(asking[d])
                            /\ asking'[d].at = "done" => asking'[d] = asking[d]
        BY <1>1, <1>7, <1>11 DEF Served
    <2>2. ASSUME NEW q \in Askers, NEW r \in Rollouts \ unlinked, Behind(asking'[q], r), NEW d \in Askers,
                 q = d \/ Served(asking'[d]), asking'[d].had[r] > 1
          PROVE  asking'[q].found[r].read >= asking'[d].had[r]
        <3>1. q = c /\ r \notin a.todo
            BY <1>7, <1>11, <2>2 DEF Behind
        <3>2. CASE r = s
            <4>1. asking[d].had[s] \in Nat /\ asking[d].had[s] > 1 /\ asking[d].had[s] <= rollout[s]
                BY <2>1, <2>2, <3>2 DEF RolloutIndexInv, IndexTyped, AskShape, FilesGrow
            <4>2. rollout[s] # 0 /\ read = rollout[s] /\ read # 1
                BY <1>2, <1>3, <4>1
            <4>3. e.read = rollout[s]
                BY <1>3, <4>2
            <4> QED
                BY <1>2, <1>8, <1>11, <2>1, <3>1, <3>2, <4>1, <4>3
        <3>3. CASE r # s
            <4>1. Behind(a, r)
                BY <1>1, <3>1, <3>3 DEF Behind, Walks, AtFile
            <4>2. a.found[r].read >= asking[d].had[r]
                BY <2>1, <2>2, <3>1, <4>1 DEF RolloutIndexInv, ServedSeeAll
            <4> QED
                BY <1>8, <1>11, <2>1, <3>1, <3>3, <4>2
        <3> QED
            BY <3>2, <3>3
    <2>3. ASSUME NEW d \in Askers, NEW r \in Rollouts \ unlinked, asking'[d].had[r] > 1
          PROVE  /\ Served(asking'[d]) => projectIndex[r].read >= asking'[d].had[r]
                 /\ asking'[d].at = "done" => asking'[d].found[r].read >= asking'[d].had[r]
        BY <2>1, <2>3 DEF RolloutIndexInv, ServedSeeAll
    <2> QED
        BY <1>1, <2>2, <2>3 DEF ServedSeeAll, Served, Behind, Walks, AtFile
<1> QED
    BY <1>12, <1>13, <1>14, <1>15, <1>16, <1>17, <1>18 DEF RolloutIndexInv

\* What the walk has found becomes the list.
LEMMA PublishIndexKeeps ==
    ASSUME RolloutIndexInv, NEW c \in Askers, PublishIndex(c)
    PROVE  RolloutIndexInv'
<1> DEFINE a == asking[c]
           p == [a EXCEPT !.at = "answer", !.seen = {}, !.found = Nothing]
<1>1. asking' = [asking EXCEPT ![c] = p] /\ a.at = "walk" /\ a.todo = {} /\ projectIndex' = a.found
      /\ fileEntryCache' = [r \in Rollouts |-> IF r \in a.seen THEN fileEntryCache[r] ELSE Unknown]
      /\ UNCHANGED <<rollout, unlinked, holder, withdrawn>>
    BY DEF PublishIndex, RolloutIndexInv, IndexTyped, AskShape
<1>2. a \in AskShape /\ (a.op = "delete" => a.r \in Rollouts) /\ FoundIsCached(a)
    BY DEF RolloutIndexInv, IndexTyped, WalksFindCached, RemovedAreGone
<1>3. p \in AskShape /\ p.at = "answer" /\ p.op = a.op /\ p.had = a.had /\ p.r = a.r
      /\ p.found = Nothing
    BY <1>1, <1>2, RestingTyped DEF AskShape
<1> HIDE DEF p
<1>4. /\ asking'[c] = p
      /\ \A d \in Askers \ {c} : asking'[d] = asking[d] /\ ~Walks(asking[d])
    <2>1. \A d \in Askers \ {c} : ~Walks(asking[d])
        BY <1>1 DEF RolloutIndexInv, MutexHeld, Walks
    <2> QED
        BY <1>1, <2>1 DEF RolloutIndexInv, IndexTyped
<1>5. \A d \in Askers : ~Walks(asking'[d])
    BY <1>3, <1>4 DEF Walks
<1>6. \A r \in Rollouts : a.found[r] # Unknown => fileEntryCache'[r] = a.found[r]
    BY <1>1, <1>2 DEF FoundIsCached, Walks
<1>7. IndexTyped'
    <2>1. \A r \in Rollouts : fileEntryCache[r] \in EntryShape
        BY DEF RolloutIndexInv, IndexTyped
    <2>2. fileEntryCache' \in [Rollouts -> EntryShape]
        BY <1>1, <2>1, RestingTyped
    <2> QED
        BY <1>1, <1>2, <1>3, <2>2 DEF RolloutIndexInv, IndexTyped, AskShape
<1>8. MutexHeld'
    BY <1>1, <1>3, MutexKept DEF Walks
<1>9. RemovedAreGone'
    BY <1>1, <1>2, <1>3, <1>4 DEF RolloutIndexInv, RemovedAreGone
<1>10. WalksFindCached'
    <2>1. FoundIsCached(asking[c])'
        BY <1>3, <1>4 DEF FoundIsCached, Walks
    <2>2. ASSUME NEW d \in Askers \ {c} PROVE FoundIsCached(asking[d])'
        BY <1>1, <1>4 DEF RolloutIndexInv, WalksFindCached, FoundIsCached, Walks, AtFile
    <2> QED
        BY <2>1, <2>2 DEF WalksFindCached
<1>11. ListedAreCached'
    <2>1. ASSUME NEW r \in withdrawn
          PROVE  r \in unlinked /\ fileEntryCache'[r] = Unknown /\ a.found[r] = Unknown
        BY <1>1, <1>2 DEF RolloutIndexInv, IndexTyped, ListedAreCached, FoundIsCached, Walks
    <2>2. ASSUME NEW r \in Rollouts
          PROVE  /\ a.found[r] # Unknown => fileEntryCache'[r] # Unknown
                 /\ fileEntryCache'[r].mtime <= fileEntryCache'[r].read
        BY <1>1, <1>6, RestingTyped DEF RolloutIndexInv, ListedAreCached
    <2> QED
        BY <1>1, <2>1, <2>2 DEF ListedAreCached
<1>12. FilesGrow'
    BY <1>1, <1>3, <1>4 DEF RolloutIndexInv, FilesGrow
<1>13. ServedSeeAll'
    <2>1. \A d \in Askers : /\ asking'[d].had = asking[d].had
                            /\ Served(asking'[d]) => Served(asking[d]) \/ d = c
                            /\ asking'[d].at = "done" => asking'[d] = asking[d]
        BY <1>1, <1>3, <1>4 DEF Served
    <2>2. \A r \in Rollouts : Behind(a, r)
        BY <1>1 DEF Behind, Walks, AtFile
    <2>3. ASSUME NEW d \in Askers, NEW r \in Rollouts \ unlinked, asking'[d].had[r] > 1
          PROVE  /\ Served(asking'[d]) => a.found[r].read >= asking'[d].had[r]
                 /\ asking'[d].at = "done" => asking'[d].found[r].read >= asking'[d].had[r]
        BY <2>1, <2>2, <2>3 DEF RolloutIndexInv, ServedSeeAll
    <2> QED
        BY <1>1, <1>5, <2>3 DEF ServedSeeAll, Served, Behind, Walks, AtFile
<1> QED
    BY <1>7, <1>8, <1>9, <1>10, <1>11, <1>12, <1>13 DEF RolloutIndexInv

\* A call that has its answer leaves the mutex.
LEMMA AnswerFromIndexKeeps ==
    ASSUME RolloutIndexInv, NEW c \in Askers, AnswerFromIndex(c)
    PROVE  RolloutIndexInv'
<1> DEFINE a == asking[c]
           l == [a EXCEPT !.op = "relist", !.at = "lock"]
           o == [a EXCEPT !.at = "done", !.found = projectIndex]
           m == [a EXCEPT !.at = "remove"]
<1>1. a.at = "answer" /\ holder' = NoOne
      /\ UNCHANGED <<rollout, unlinked, fileEntryCache, projectIndex, withdrawn>>
    BY DEF AnswerFromIndex
<1>2. a \in AskShape /\ (a.op = "delete" => a.r \in Rollouts) /\ FoundIsCached(a)
      /\ \A r \in Rollouts \ unlinked : a.had[r] <= rollout[r]
    BY DEF RolloutIndexInv, IndexTyped, WalksFindCached, RemovedAreGone, FilesGrow
<1>3. ASSUME NEW p, asking' = [asking EXCEPT ![c] = p], ~Walks(p), p.at # "answer", GoesOn(c, p)
      PROVE  RolloutIndexInv'
    <2>1. asking'[c] = p /\ \A d \in Askers \ {c} : asking'[d] = asking[d]
        BY <1>3 DEF RolloutIndexInv, IndexTyped
    <2>2. MutexHeld'
        BY <1>1, <1>3, <2>1, AskersAssumption DEF RolloutIndexInv, MutexHeld, Walks
    <2> QED
        BY <1>1, <1>3, <2>2, AskGoesOn
<1>4. CASE a.op = "fresh"
    <2>1. asking' = [asking EXCEPT ![c] = l]
        BY <1>4 DEF AnswerFromIndex
    <2>2. l \in AskShape /\ l.op = "relist" /\ l.at = "lock" /\ l.had = a.had /\ l.found = a.found
        BY <1>2 DEF AskShape
    <2> HIDE DEF l
    <2>3. GoesOn(c, l) /\ ~Walks(l)
        BY <1>1, <1>2, <1>4, <2>2 DEF GoesOn, FoundIsCached, Served, Behind, Walks
    <2> QED
        BY <1>3, <2>1, <2>2, <2>3
<1>5. CASE a.op = "relist"
    <2>1. asking' = [asking EXCEPT ![c] = o]
        BY <1>5 DEF AnswerFromIndex
    <2>2. o \in AskShape /\ o.op = "relist" /\ o.at = "done" /\ o.had = a.had
          /\ o.found = projectIndex
        BY <1>2, <1>5 DEF AskShape, RolloutIndexInv, IndexTyped
    <2> HIDE DEF o
    <2>3. \A r \in Rollouts \ unlinked : a.had[r] > 1 => projectIndex[r].read >= a.had[r]
        BY <1>5 DEF RolloutIndexInv, ServedSeeAll, Served
    <2>4. GoesOn(c, o) /\ ~Walks(o)
        BY <1>1, <1>2, <1>5, <2>2, <2>3 DEF GoesOn, FoundIsCached, Served, Behind, Walks
    <2> QED
        BY <1>3, <2>1, <2>2, <2>4
<1>6. CASE a.op = "delete" /\ projectIndex[a.r] # Unknown
    <2>1. asking' = [asking EXCEPT ![c] = m]
        BY <1>6 DEF AnswerFromIndex
    <2>2. m \in AskShape /\ m.op = "delete" /\ m.at = "remove" /\ m.had = a.had /\ m.r = a.r
        BY <1>2, <1>6 DEF AskShape
    <2> HIDE DEF m
    <2>3. GoesOn(c, m) /\ ~Walks(m)
        BY <1>1, <1>2, <1>6, <2>2 DEF GoesOn, FoundIsCached, Served, Behind, Walks
    <2> QED
        BY <1>3, <2>1, <2>2, <2>3
<1>7. CASE /\ a.op # "fresh" /\ a.op # "relist"
           /\ ~(a.op = "delete" /\ projectIndex[a.r] # Unknown)
    <2>1. asking' = [asking EXCEPT ![c] = Resting]
        BY <1>7 DEF AnswerFromIndex
    <2>2. GoesOn(c, Resting) /\ ~Walks(Resting)
        BY RestingTyped DEF GoesOn, FoundIsCached, Served, Behind, Walks, RolloutIndexInv, IndexTyped
    <2> QED
        BY <1>3, <2>1, <2>2, RestingTyped
<1> QED
    BY <1>4, <1>5, <1>6, <1>7

\* A call has its list.
LEMMA EndCallKeeps ==
    ASSUME RolloutIndexInv, NEW c \in Askers, EndCall(c)
    PROVE  RolloutIndexInv'
<1>1. asking' = [asking EXCEPT ![c] = Resting] /\ asking[c].at = "done"
      /\ UNCHANGED <<rollout, unlinked, fileEntryCache, projectIndex, holder, withdrawn>>
    BY DEF EndCall
<1>2. GoesOn(c, Resting)
    BY RestingTyped DEF GoesOn, FoundIsCached, Served, Behind, Walks, RolloutIndexInv, IndexTyped
<1>3. MutexHeld'
    <2>1. asking'[c] = Resting /\ \A d \in Askers \ {c} : asking'[d] = asking[d]
        BY <1>1 DEF RolloutIndexInv, IndexTyped
    <2> QED
        BY <1>1, <2>1, RestingTyped DEF RolloutIndexInv, MutexHeld, Walks
<1> QED
    BY <1>1, <1>2, <1>3, RestingTyped, AskGoesOn

\* Outside the mutex a call may go its way.
LEMMA MutexAside ==
    ASSUME RolloutIndexInv, NEW c \in Askers, NEW p, asking' = [asking EXCEPT ![c] = p], holder' = holder,
           ~Walks(asking[c]), asking[c].at # "answer", ~Walks(p), p.at # "answer"
    PROVE  MutexHeld'
<1>1. asking'[c] = p /\ \A d \in Askers \ {c} : asking'[d] = asking[d]
    BY DEF RolloutIndexInv, IndexTyped
<1> QED
    BY <1>1 DEF RolloutIndexInv, MutexHeld, Walks

\* The file of a session that is deleted over RPC is removed: as if it went first,
\* and the call went on then.
LEMMA DeleteRolloutKeeps ==
    ASSUME RolloutIndexInv, NEW c \in Askers, DeleteRollout(c)
    PROVE  RolloutIndexInv'
<1> DEFINE a == asking[c]
           s == a.r
           m == [a EXCEPT !.at = "invalidate"]
<1>1. a.at = "remove" /\ UNCHANGED <<fileEntryCache, projectIndex, holder, withdrawn>>
    BY DEF DeleteRollout
<1>2. a \in AskShape /\ a.op = "delete" /\ s \in Rollouts
    BY <1>1 DEF RolloutIndexInv, IndexTyped, RemovedAreGone
<1>3. CASE rollout[s] = 0
    <2>1. asking' = [asking EXCEPT ![c] = Resting] /\ UNCHANGED <<rollout, unlinked>>
        BY <1>3 DEF DeleteRollout
    <2>2. GoesOn(c, Resting)
        BY RestingTyped DEF GoesOn, FoundIsCached, Served, Behind, Walks, RolloutIndexInv, IndexTyped
    <2>3. MutexHeld'
        BY <1>1, <2>1, RestingTyped, MutexAside DEF Walks
    <2> QED
        BY <1>1, <2>1, <2>2, <2>3, RestingTyped, AskGoesOn
<1>4. CASE rollout[s] # 0
    <2>1. asking' = [asking EXCEPT ![c] = m] /\ rollout' = [rollout EXCEPT ![s] = 0]
          /\ unlinked' = unlinked \cup {s}
        BY <1>4 DEF DeleteRollout, RolloutIndexInv, IndexTyped, AskShape
    <2>2. m \in AskShape /\ m.at = "invalidate" /\ m.op = "delete" /\ m.r = s /\ m.had = a.had
          /\ m.found = a.found
        BY <1>2 DEF AskShape
    <2> HIDE DEF m
    <2>3. /\ asking'[c] = m
          /\ \A d \in Askers \ {c} : asking'[d] = asking[d]
        BY <2>1 DEF RolloutIndexInv, IndexTyped
    <2>4. MutexHeld'
        BY <1>1, <2>1, <2>2, MutexAside DEF Walks
    <2>5. IndexTyped'
        BY <1>1, <1>2, <2>1, <2>2 DEF RolloutIndexInv, IndexTyped
    <2>6. rollout'[s] = 0 /\ \A r \in Rollouts \ {s} : rollout'[r] = rollout[r]
        BY <1>2, <2>1 DEF RolloutIndexInv, IndexTyped
    <2>7. RemovedAreGone'
        <3>1. \A r \in unlinked' : rollout'[r] = 0
            BY <2>1, <2>6 DEF RolloutIndexInv, IndexTyped, RemovedAreGone
        <3>2. ASSUME NEW d \in Askers
              PROVE  /\ asking'[d].op = "delete" => asking'[d].r \in Rollouts
                     /\ asking'[d].at \in {"remove", "invalidate"} => asking'[d].op = "delete"
                     /\ asking'[d].at = "invalidate" => asking'[d].r \in unlinked'
            <4>1. CASE d = c
                BY <1>2, <2>1, <2>2, <2>3, <4>1
            <4>2. CASE d # c
                BY <2>1, <2>3, <4>2 DEF RolloutIndexInv, RemovedAreGone
            <4> QED
                BY <4>1, <4>2
        <3> QED
            BY <3>1, <3>2 DEF RemovedAreGone
    <2>8. WalksFindCached'
        <3>1. FoundIsCached(asking[c])'
            BY <2>2, <2>3 DEF FoundIsCached, Walks
        <3>2. ASSUME NEW d \in Askers \ {c} PROVE FoundIsCached(asking[d])'
            <4>1. FoundIsCached(asking[d]) /\ asking'[d] = asking[d] /\ asking[d] \in AskShape
                BY <2>3 DEF RolloutIndexInv, IndexTyped, WalksFindCached
            <4>2. ASSUME asking[d].at = "parse"
                  PROVE  /\ asking[d].mtime # 0
                         /\ asking[d].file \in unlinked' \/ asking[d].mtime <= rollout'[asking[d].file]
                <5>1. asking[d].file \in Rollouts
                    BY <4>1, <4>2 DEF FoundIsCached, Walks, AtFile, AskShape
                <5> QED
                    BY <2>1, <2>6, <4>1, <4>2, <5>1 DEF FoundIsCached
            <4> QED
                BY <1>1, <4>1, <4>2 DEF FoundIsCached, Walks, AtFile
        <3> QED
            BY <3>1, <3>2 DEF WalksFindCached
    <2>9. ListedAreCached'
        BY <1>1, <2>1 DEF RolloutIndexInv, ListedAreCached
    <2>10. FilesGrow'
        BY <2>1, <2>2, <2>3, <2>6 DEF RolloutIndexInv, FilesGrow
    <2>11. ServedSeeAll'
        <3>1. \A d \in Askers : /\ asking'[d].had = asking[d].had
                                /\ Served(asking'[d]) => Served(asking[d])
                                /\ asking'[d].at = "done" => asking'[d] = asking[d]
                                /\ \A r : Behind(asking'[d], r) => asking'[d] = asking[d]
            BY <2>2, <2>3 DEF Served, Behind, Walks
        <3>2. ASSUME NEW d \in Askers, NEW r \in Rollouts \ unlinked', asking'[d].had[r] > 1
              PROVE  /\ Served(asking'[d]) => projectIndex[r].read >= asking'[d].had[r]
                     /\ asking'[d].at = "done" => asking'[d].found[r].read >= asking'[d].had[r]
                     /\ \A q \in Askers : Behind(asking'[q], r) /\ (q = d \/ Served(asking'[d])) =>
                           asking'[q].found[r].read >= asking'[d].had[r]
            BY <2>1, <3>1, <3>2 DEF RolloutIndexInv, ServedSeeAll
        <3> QED
            BY <1>1, <3>2 DEF ServedSeeAll, Served, Behind, Walks, AtFile
    <2> QED
        BY <2>4, <2>5, <2>7, <2>8, <2>9, <2>10, <2>11 DEF RolloutIndexInv
<1> QED
    BY <1>3, <1>4

\* The index is told of a removal.
LEMMA InvalidateByPathKeeps ==
    ASSUME RolloutIndexInv, NEW c \in Askers, InvalidateByPath(c)
    PROVE  RolloutIndexInv'
<1> DEFINE a == asking[c]
           s == a.r
<1>1. a.at = "invalidate" /\ holder = NoOne /\ asking' = [asking EXCEPT ![c] = Resting]
      /\ fileEntryCache' = [fileEntryCache EXCEPT ![s] = Unknown]
      /\ projectIndex' = WithoutRollout(s) /\ withdrawn' = withdrawn \cup {s}
      /\ UNCHANGED <<rollout, unlinked, holder>>
    BY DEF InvalidateByPath
<1>2. s \in Rollouts /\ s \in unlinked
    BY <1>1 DEF RolloutIndexInv, IndexTyped, RemovedAreGone
<1>3. /\ asking'[c] = Resting
      /\ \A d \in Askers \ {c} : asking'[d] = asking[d]
    BY <1>1 DEF RolloutIndexInv, IndexTyped
<1>4. /\ fileEntryCache'[s] = Unknown /\ projectIndex'[s] = Unknown
      /\ \A r \in Rollouts \ {s} : /\ fileEntryCache'[r] = fileEntryCache[r]
                                   /\ projectIndex'[r] = projectIndex[r]
      /\ projectIndex' \in [Rollouts -> EntryShape]
    BY <1>1, <1>2, RestingTyped
    DEF WithoutRollout, RolloutIndexInv, IndexTyped, ListedAreCached
<1>5. \A d \in Askers : ~Walks(asking'[d])
    BY <1>1, <1>3, RestingTyped, AskersAssumption DEF RolloutIndexInv, MutexHeld, Walks
<1>6. MutexHeld'
    BY <1>1, RestingTyped, MutexAside DEF Walks
<1>7. IndexTyped'
    BY <1>1, <1>2, <1>4, RestingTyped DEF RolloutIndexInv, IndexTyped
<1>8. RemovedAreGone'
    BY <1>1, <1>3, RestingTyped DEF RolloutIndexInv, RemovedAreGone
<1>9. WalksFindCached'
    <2>1. FoundIsCached(asking[c])'
        BY <1>3, RestingTyped DEF FoundIsCached, Walks
    <2>2. ASSUME NEW d \in Askers \ {c} PROVE FoundIsCached(asking[d])'
        BY <1>1, <1>3, <1>5 DEF RolloutIndexInv, WalksFindCached, FoundIsCached, Walks
    <2> QED
        BY <2>1, <2>2 DEF WalksFindCached
<1>10. ListedAreCached'
    <2>1. ASSUME NEW r \in Rollouts
          PROVE  /\ projectIndex'[r] # Unknown => fileEntryCache'[r] # Unknown
                 /\ fileEntryCache'[r].mtime <= fileEntryCache'[r].read
        BY <1>4, RestingTyped DEF RolloutIndexInv, ListedAreCached
    <2>2. ASSUME NEW r \in withdrawn'
          PROVE  r \in unlinked /\ fileEntryCache'[r] = Unknown /\ projectIndex'[r] = Unknown
        BY <1>1, <1>2, <1>4, <2>2 DEF RolloutIndexInv, IndexTyped, ListedAreCached
    <2> QED
        BY <1>1, <2>1, <2>2 DEF ListedAreCached
<1>11. FilesGrow'
    BY <1>1, <1>3, RestingTyped DEF RolloutIndexInv, IndexTyped, FilesGrow
<1>12. ServedSeeAll'
    <2>1. ASSUME NEW d \in Askers, NEW r \in Rollouts \ unlinked, asking'[d].had[r] > 1
          PROVE  /\ Served(asking'[d]) => projectIndex'[r].read >= asking'[d].had[r]
                 /\ asking'[d].at = "done" => asking'[d].found[r].read >= asking'[d].had[r]
        <3>1. d # c
            BY <1>3, <2>1, RestingTyped
        <3> QED
            BY <1>2, <1>3, <1>4, <2>1, <3>1 DEF RolloutIndexInv, ServedSeeAll
    <2> QED
        BY <1>1, <1>5, <2>1 DEF ServedSeeAll, Served, Behind, Walks, AtFile
<1> QED
    BY <1>6, <1>7, <1>8, <1>9, <1>10, <1>11, <1>12 DEF RolloutIndexInv

\* Nothing happens to the index.
LEMMA IndexStutters ==
    ASSUME RolloutIndexInv, UNCHANGED <<rollout, unlinked, fileEntryCache, projectIndex, holder, asking, withdrawn>>
    PROVE  RolloutIndexInv'
<1>1. IndexTyped' /\ MutexHeld' /\ RemovedAreGone' /\ ListedAreCached' /\ FilesGrow'
    BY DEF RolloutIndexInv, IndexTyped, MutexHeld, RemovedAreGone, ListedAreCached, FilesGrow, Walks
<1>2. WalksFindCached' /\ ServedSeeAll'
    BY DEF RolloutIndexInv, WalksFindCached, FoundIsCached, ServedSeeAll, Walks, Served, Behind, AtFile
<1> QED
    BY <1>1, <1>2 DEF RolloutIndexInv

\* Every step keeps it.
LEMMA IndexStepKeeps == RolloutIndexInv /\ [CodexHistoryNext]_codexHistoryVars => RolloutIndexInv'
<1> SUFFICES ASSUME RolloutIndexInv, [CodexHistoryNext]_codexHistoryVars PROVE RolloutIndexInv'
    OBVIOUS
<1>1. CASE UNCHANGED codexHistoryVars \/ Lapse
    <2>1. UNCHANGED <<rollout, unlinked, fileEntryCache, projectIndex, holder, asking, withdrawn>>
        BY <1>1 DEF codexHistoryVars, Lapse
    <2> QED
        BY <2>1, IndexStutters
<1>2. CASE \E r \in Rollouts : RemoveRollout(r)
    BY <1>2, FileGoes DEF RemoveRollout
<1>3. CASE \E r \in Rollouts : WriteRollout(r)
    BY <1>3, WriteRolloutKeeps
<1>4. ASSUME NEW c \in Askers, IndexStep(c) PROVE RolloutIndexInv'
    BY <1>4, EnterIndexKeeps, OpenRolloutKeeps, ParseRolloutKeeps, PublishIndexKeeps,
       AnswerFromIndexKeeps, EndCallKeeps, DeleteRolloutKeeps, InvalidateByPathKeeps,
       VisitRolloutKeeps DEF IndexStep
<1>5. ASSUME NEW c \in Askers, NEW op \in {"list", "fresh"}, StartCall(c, op, NoOne) PROVE RolloutIndexInv'
    BY <1>5, StartCallKeeps
<1>6. ASSUME NEW c \in Askers, NEW r \in Rollouts, StartCall(c, "delete", r) PROVE RolloutIndexInv'
    BY <1>6, StartCallKeeps
<1> QED
    BY <1>1, <1>2, <1>3, <1>4, <1>5, <1>6
    DEF CodexHistoryNext, DeleteAllSessions, DeleteSession, ListCodexHistory, ResolveCodexSession,
        SnapshotCodexSessionIDs, DeleteCodexWorkspaceSession

\* The index of rollouts, the walks and the calls stay as RolloutIndexInv says, for any
\* number of rollouts and calls.
THEOREM RolloutIndexInvariance == CodexHistorySpec => []RolloutIndexInv
BY IndexBegins, IndexStepKeeps, PTL DEF CodexHistorySpec

\* A session that was deleted is never listed again, and a call that had the index
\* refreshed is told of what was in the files when it began
\* (IndexCache.doRefresh, InvalidateByPath).
THEOREM IndexAlwaysKeepsUp == CodexHistorySpec => []IndexKeepsUp
BY RolloutIndexInvariance, ListsAreRight, PTL

-----------------------------------------------------------------------------
(* The search for repositories *)

\* Entries lists what lies in a directory.
LEMMA EntriesAreInside ==
    ASSUME NEW d \in Directories
    PROVE  /\ Entries(d) \in Seq(Directories)
           /\ \A e \in Inside(d) : \E i \in 1..Len(Entries(d)) : Entries(d)[i] = e
           /\ \A i \in 1..Len(Entries(d)) : Entries(d)[i] \in Inside(d)
<1>1. d \in Nat \ {0} /\ 2 * d \in Nat \ {0} /\ MaxDirectory \in Nat
    BY DiscoveryAssumption DEF Directories
<1>2. CASE 2 * d > MaxDirectory
    BY <1>1, <1>2 DEF Entries, Inside, Directories
<1>3. CASE 2 * d = MaxDirectory
    <2>1. Entries(d) = <<2 * d>> /\ Inside(d) = {2 * d}
        BY <1>1, <1>3 DEF Entries, Inside, Directories
    <2>2. 2 * d \in Directories
        BY <1>1, <1>3 DEF Directories
    <2> HIDE DEF Directories
    <2> QED
        BY <2>1, <2>2
<1>4. CASE 2 * d < MaxDirectory
    <2>1. Entries(d) = <<2 * d, 2 * d + 1>> /\ Inside(d) = {2 * d, 2 * d + 1}
        BY <1>1, <1>4 DEF Entries, Inside, Directories
    <2>2. 2 * d \in Directories /\ 2 * d + 1 \in Directories
        BY <1>1, <1>4 DEF Directories
    <2> HIDE DEF Directories
    <2> QED
        BY <2>1, <2>2
<1> QED
    BY <1>1, <1>2, <1>3, <1>4

\* A directory leads to itself.
LEMMA WithinItself ==
    ASSUME NEW d \in Directories, NEW n \in 0..MaxDepth
    PROVE  d \in Within(d, n)
<1>1. n \in Nat /\ MaxDepth \in Nat
    BY DiscoveryAssumption
<1> DEFINE way == [i \in 0..0 |-> d]
<1>2. way \in [0..0 -> Directories] /\ way[0] = d /\ Leads(way, 0)
    BY DEF Leads
<1>3. 0 \in 0..n
    BY <1>1
<1> HIDE DEF way
<1> QED
    BY <1>2, <1>3 DEF Within

\* What lies in it leads nowhere else.
LEMMA WithinDeeper ==
    ASSUME NEW d \in Directories, NEW n \in 1..MaxDepth, NEW e \in Inside(d), NEW x \in Within(e, n - 1)
    PROVE  x \in Within(d, n)
<1>1. n \in Nat \ {0} /\ n - 1 \in 0..MaxDepth /\ n \in 0..MaxDepth /\ MaxDepth \in Nat
      /\ e \in Directories
    BY DiscoveryAssumption DEF Inside
<1>2. x \in Directories
      /\ \E m \in 0..(n - 1) : \E way \in [0..m -> Directories] : way[0] = e /\ way[m] = x /\ Leads(way, m)
    BY <1>1 DEF Within
<1>3. PICK m \in 0..(n - 1) : \E way \in [0..m -> Directories] : way[0] = e /\ way[m] = x /\ Leads(way, m)
    BY <1>2
<1>4. PICK way \in [0..m -> Directories] : way[0] = e /\ way[m] = x /\ Leads(way, m)
    BY <1>3
<1> DEFINE on == [i \in 0..(m + 1) |-> IF i = 0 THEN d ELSE way[i - 1]]
<1>5. m \in Nat /\ m + 1 \in 0..n
    BY <1>1
<1>6. on \in [0..(m + 1) -> Directories] /\ on[0] = d /\ on[m + 1] = x
    BY <1>4, <1>5
<1>7. Leads(on, m + 1)
    <2> SUFFICES ASSUME NEW i \in 1..(m + 1) PROVE on[i] \in Inside(on[i - 1])
        BY DEF Leads
    <2>1. CASE i = 1
        BY <1>4, <1>5, <2>1
    <2>2. CASE i # 1
        <3>1. i - 1 \in 1..m /\ i - 1 \in 0..(m + 1) /\ i \in 0..(m + 1) /\ i # 0 /\ i - 1 # 0
            BY <1>5, <2>2
        <3>2. on[i] = way[i - 1] /\ on[i - 1] = way[(i - 1) - 1]
            BY <3>1
        <3>3. way[i - 1] \in Inside(way[(i - 1) - 1])
            BY <1>4, <3>1 DEF Leads
        <3> QED
            BY <3>2, <3>3
    <2> QED
        BY <2>1, <2>2
<1> HIDE DEF on
<1> QED
    BY <1>1, <1>2, <1>5, <1>6, <1>7 DEF Within

\* And there is no other way on.
LEMMA WithinEither ==
    ASSUME NEW d \in Directories, NEW n \in 0..MaxDepth, NEW x \in Within(d, n), x # d
    PROVE  n # 0 /\ \E e \in Inside(d) : x \in Within(e, n - 1)
<1>1. n \in Nat /\ MaxDepth \in Nat
    BY DiscoveryAssumption
<1>2. x \in Directories
      /\ \E m \in 0..n : \E way \in [0..m -> Directories] : way[0] = d /\ way[m] = x /\ Leads(way, m)
    BY <1>1 DEF Within
<1>3. PICK m \in 0..n : \E way \in [0..m -> Directories] : way[0] = d /\ way[m] = x /\ Leads(way, m)
    BY <1>2
<1>4. PICK way \in [0..m -> Directories] : way[0] = d /\ way[m] = x /\ Leads(way, m)
    BY <1>3
<1>5. m \in Nat \ {0} /\ n # 0 /\ m - 1 \in 0..(n - 1) /\ n - 1 \in 0..MaxDepth
    BY <1>1, <1>4
<1> DEFINE on == [i \in 0..(m - 1) |-> way[i + 1]]
<1>6. on \in [0..(m - 1) -> Directories] /\ on[0] = way[1] /\ on[m - 1] = x
    BY <1>4, <1>5
<1>7. Leads(on, m - 1)
    <2> SUFFICES ASSUME NEW i \in 1..(m - 1) PROVE on[i] \in Inside(on[i - 1])
        BY DEF Leads
    <2>1. i \in 0..(m - 1) /\ i - 1 \in 0..(m - 1) /\ i + 1 \in 1..m /\ (i - 1) + 1 = i
          /\ (i + 1) - 1 = i
        BY <1>5
    <2>2. on[i] = way[i + 1] /\ on[i - 1] = way[i]
        BY <2>1
    <2>3. way[i + 1] \in Inside(way[(i + 1) - 1])
        BY <1>4, <2>1 DEF Leads
    <2> QED
        BY <2>1, <2>2, <2>3
<1>8. way[1] \in Inside(d) /\ way[1] \in Directories
    <2>1. 1 \in 1..m /\ 1 \in 0..m /\ 1 - 1 = 0
        BY <1>5
    <2> QED
        BY <1>4, <2>1 DEF Leads
<1> HIDE DEF on
<1>9. x \in Within(way[1], n - 1)
    BY <1>2, <1>5, <1>6, <1>7, <1>8 DEF Within
<1> QED
    BY <1>5, <1>8, <1>9

\* What lies at a search path or below it.
LEMMA UnderPaths ==
    ASSUME NEW paths \in SUBSET Directories, NEW e
    PROVE  e \in Under(paths) <=> \E p \in paths : e \in Within(p, MaxDepth)
BY DEF Under, Reach

\* What a directory in the channel, a worker, a search and a file are.
JobShape == [dir : Directories, depth : Nat]
WorkerShape == [at : {"free", "read", "next", "send", "exit"}, dir : Nat, depth : Nat,
                todo : Seq(Directories)]
SearchShape ==
    [at : {"idle", "load", "begin", "seed", "scan", "save", "write", "rename", "end", "answer"},
     op : {"none", "discover", "fresh", "refresh"}, paths : SUBSET Directories,
     queue : Seq(JobShape), closed : BOOLEAN, late : BOOLEAN, inFlight : Int,
     worker : [ScanWorkers -> WorkerShape], closer : {"look", "count", "done"},
     found : SUBSET Directories, had : SUBSET Directories, cut : BOOLEAN,
     fd : {"none", "tmp", "cache", "lost"}, cached : BOOLEAN, promise : BOOLEAN]
FileShape == [state : {"none", "torn", "written"}, repos : SUBSET Directories,
              paths : SUBSET Directories, fresh : BOOLEAN, had : SUBSET Directories, cut : BOOLEAN]

\* A file that was written is what one scan found.
FileRight(f) ==
    /\ f \in FileShape
    /\ f.state = "written" => (f.cut \/ f.had \subseteq f.repos) /\ f.repos \subseteq Under(f.paths)

\* The workers that are at one of some places, and those with a directory in hand.
Those(worker, places) == {w \in ScanWorkers : worker[w].at \in places}
Hands == {"read", "next", "send"}
Sends == {"send"}
Here(j, places) == IF j.at \in places THEN 1 ELSE 0
Busy(worker) == Those(worker, Hands)
Sending(worker) == Those(worker, Sends)

\* A repository is still to be met: below a directory in the channel, or in hand.
Queued(jobs, e) ==
    \E i \in 1..Len(jobs) : /\ jobs[i].depth <= MaxDepth
                            /\ e \in Within(jobs[i].dir, MaxDepth - jobs[i].depth)
InHand(j, e) ==
    \/ j.at = "read" /\ e \in Within(j.dir, MaxDepth - j.depth)
    \/ /\ j.at \in {"next", "send"} /\ j.depth < MaxDepth
       /\ \E i \in 1..Len(j.todo) : e \in Within(j.todo[i], MaxDepth - j.depth - 1)
ToBeMet(jobs, worker, e) == Queued(jobs, e) \/ \E w \in ScanWorkers : InHand(worker[w], e)

\* Nothing outside the search paths is in the channel, or in hand.
QueueInside(jobs, paths) ==
    \A i \in 1..Len(jobs) : jobs[i].depth <= MaxDepth =>
        Within(jobs[i].dir, MaxDepth - jobs[i].depth) \subseteq Under(paths)
HandRight(j, paths) ==
    /\ j.dir \in Directories /\ j.depth <= MaxDepth
    /\ Within(j.dir, MaxDepth - j.depth) \subseteq Under(paths)
    /\ \A i \in 1..Len(j.todo) : j.todo[i] \in Inside(j.dir)
    /\ j.at = "send" => Len(j.todo) # 0

\* What the counter counts, and what is true once the channel is closed.
Counted(s) == s.inFlight = Len(s.queue) + Cardinality(Busy(s.worker)) + Cardinality(Sending(s.worker))
ClosedIsOver(s) == s.closed /\ ~s.late => Len(s.queue) = 0 /\ Busy(s.worker) = {}

\* What is true of a scan while its workers and the closing goroutine are at it.
ScanRight(s) ==
    /\ s.late => s.cut
    /\ Counted(s) /\ ClosedIsOver(s)
    /\ QueueInside(s.queue, s.paths)
    /\ \A w \in Busy(s.worker) : HandRight(s.worker[w], s.paths)
    /\ s.found \subseteq Under(s.paths)
    /\ ~s.cut => \A e \in s.had \ s.found : ToBeMet(s.queue, s.worker, e)

\* What is true of a search wherever it is.
SearchRight(s) ==
    /\ s \in SearchShape
    /\ s.at \in {"load", "begin", "seed"} =>
          /\ s.worker = NoSearch.worker /\ s.queue = <<>> /\ s.found = {}
          /\ ~s.closed /\ ~s.late /\ ~s.cut
    /\ s.at = "scan" => ScanRight(s)
    /\ s.at \in {"save", "write", "rename", "end"} => s.found \subseteq Under(s.paths)
    /\ s.at \in {"save", "write", "rename", "end", "answer"} => s.cut \/ s.had \subseteq s.found
    /\ s.at = "answer" /\ s.cached /\ ~s.promise => s.found \subseteq Under(s.paths)

\* The inductive invariant of the searches.
SearchInv ==
    /\ repositories \subseteq Directories /\ refreshing \in BOOLEAN
    /\ FileRight(cacheFile) /\ FileRight(tmpFile)
    /\ search \in [Searchers -> SearchShape]
    /\ \A x \in Searchers : /\ SearchRight(search[x])
                            /\ search[x].at = "scan" => search[x].had \subseteq repositories
    /\ OnlyLateScansCrash

\* What the invariant says of the answers.
LEMMA SearchesAreRight == SearchInv => DiscoveryHolds
<1> SUFFICES ASSUME SearchInv PROVE DiscoveryHolds
    OBVIOUS
<1>1. \A x \in Searchers : SearchRight(search[x])
    BY DEF SearchInv
<1>2. ScansAreWhole
    BY <1>1 DEF ScansAreWhole, SearchRight
<1>3. CachedAnswersFit
    BY <1>1 DEF CachedAnswersFit, SearchRight, Searchers
<1> QED
    BY <1>2, <1>3 DEF SearchInv, DiscoveryHolds

\* A search that rests, and a worker that has nothing.
LEMMA NoSearchRight ==
    /\ NoSearch \in SearchShape /\ NoSearch.at = "idle" /\ NoJob \in WorkerShape /\ NoJob.at = "free"
    /\ SearchRight(NoSearch)
<1>1. NoJob \in WorkerShape /\ NoJob.at = "free"
    BY DEF NoJob, WorkerShape
<1>2. <<>> \in Seq(JobShape) /\ 0 \in Int
    OBVIOUS
<1>3. NoSearch \in SearchShape /\ NoSearch.at = "idle"
    BY <1>1, <1>2 DEF NoSearch, SearchShape
<1> QED
    BY <1>1, <1>3 DEF SearchRight

\* A file that is not there, or only opened, answers nobody.
LEMMA NoFileRight == FileRight(NoCache) /\ FileRight(Torn)
BY DEF FileRight, FileShape, NoCache, Torn

\* Nobody has asked yet.
LEMMA SearchBegins == DiscoveryInit => SearchInv
<1> SUFFICES ASSUME DiscoveryInit PROVE SearchInv
    OBVIOUS
<1>1. \A x \in Searchers : search[x] = NoSearch
    BY DEF DiscoveryInit
<1> QED
    BY <1>1, NoSearchRight, NoFileRight DEF DiscoveryInit, SearchInv, OnlyLateScansCrash

\* One worker goes from place to place.
LEMMA ThoseChange ==
    ASSUME NEW f \in [ScanWorkers -> WorkerShape], NEW w \in ScanWorkers, NEW j \in WorkerShape,
           NEW places
    PROVE  /\ Cardinality(Those(f, places)) \in Nat
           /\ Here(j, places) \in {0, 1} /\ Here(f[w], places) \in {0, 1}
           /\ Cardinality(Those([f EXCEPT ![w] = j], places)) =
                 Cardinality(Those(f, places)) + Here(j, places)
                                               - Here(f[w], places)
<1> DEFINE g == [f EXCEPT ![w] = j]
           A == Those(f, places)
           B == Those(g, places)
<1>1. IsFiniteSet(A) /\ Cardinality(A) \in Nat
    <2>1. A \subseteq ScanWorkers
        BY DEF Those
    <2> QED
        BY <2>1, DiscoveryAssumption, FS_Subset, FS_CardinalityType
<1>2. g[w] = j /\ \A v \in ScanWorkers \ {w} : g[v] = f[v]
    OBVIOUS
<1> HIDE DEF g
<1>3. /\ w \in A <=> f[w].at \in places
      /\ j.at \in places => B = A \cup {w}
      /\ j.at \notin places => B = A \ {w}
    BY <1>2 DEF Those
<1> HIDE DEF A, B
<1>4. /\ Cardinality(A \cup {w}) = IF w \in A THEN Cardinality(A) ELSE Cardinality(A) + 1
      /\ Cardinality(A \ {w}) = IF w \in A THEN Cardinality(A) - 1 ELSE Cardinality(A)
    BY <1>1, FS_AddElement, FS_RemoveElement
<1>5. Cardinality(B) = Cardinality(A) + Here(j, places)
                                     - Here(f[w], places)
    <2>1. CASE j.at \in places /\ f[w].at \in places
        <3>1. Cardinality(B) = Cardinality(A)
            BY <1>3, <1>4, <2>1
        <3> QED
            BY <1>1, <2>1, <3>1 DEF Here
    <2>2. CASE j.at \in places /\ f[w].at \notin places
        <3>1. Cardinality(B) = Cardinality(A) + 1
            BY <1>3, <1>4, <2>2
        <3> QED
            BY <1>1, <2>2, <3>1 DEF Here
    <2>3. CASE j.at \notin places /\ f[w].at \in places
        <3>1. Cardinality(B) = Cardinality(A) - 1
            BY <1>3, <1>4, <2>3
        <3> QED
            BY <1>1, <2>3, <3>1 DEF Here
    <2>4. CASE j.at \notin places /\ f[w].at \notin places
        <3>1. Cardinality(B) = Cardinality(A)
            BY <1>3, <1>4, <2>4
        <3> QED
            BY <1>1, <2>4, <3>1 DEF Here
    <2> QED
        BY <2>1, <2>2, <2>3, <2>4
<1> QED
    BY <1>1, <1>5 DEF A, B, g, Here

\* A worker's turn leaves the rest of the search as it is.
LEMMA SetOne ==
    ASSUME NEW s \in SearchShape, NEW w \in ScanWorkers, NEW j \in WorkerShape
    PROVE  LET t == Set(s, w, j) IN
           /\ t \in SearchShape /\ t.worker = [s.worker EXCEPT ![w] = j]
           /\ t.worker[w] = j /\ \A v \in ScanWorkers \ {w} : t.worker[v] = s.worker[v]
           /\ t.at = s.at /\ t.paths = s.paths /\ t.queue = s.queue /\ t.closed = s.closed
           /\ t.late = s.late /\ t.inFlight = s.inFlight /\ t.found = s.found /\ t.had = s.had
           /\ t.cut = s.cut
BY DEF Set, SearchShape

\* A search goes on by itself.
LEMMA SearchGoesOn ==
    ASSUME SearchInv, NEW x \in Searchers, NEW t, search' = [search EXCEPT ![x] = t], SearchRight(t),
           t.at = "scan" => t.had \subseteq repositories,
           UNCHANGED repositories, refreshing' \in BOOLEAN, FileRight(cacheFile'), FileRight(tmpFile'),
           crashed' => t.late
    PROVE  SearchInv'
<1>1. search'[x] = t /\ \A y \in Searchers \ {x} : search'[y] = search[y]
    BY DEF SearchInv
<1>2. search' \in [Searchers -> SearchShape]
    BY DEF SearchInv, SearchRight
<1>3. ASSUME NEW y \in Searchers
      PROVE  SearchRight(search'[y]) /\ (search'[y].at = "scan" => search'[y].had \subseteq repositories)
    <2>1. CASE y = x
        BY <1>1, <2>1
    <2>2. CASE y # x
        BY <1>1, <2>2 DEF SearchInv
    <2> QED
        BY <2>1, <2>2
<1>4. OnlyLateScansCrash'
    BY <1>1 DEF OnlyLateScansCrash
<1> QED
    BY <1>2, <1>3, <1>4 DEF SearchInv

\* A scan goes on.
LEMMA ScanGoesOn ==
    ASSUME SearchInv, NEW x \in Searchers, NEW t, Scan(x, t), t \in SearchShape, t.at = "scan",
           ScanRight(t), t.had = search[x].had, crashed' => t.late
    PROVE  SearchInv'
<1>1. SearchRight(t)
    BY DEF SearchRight
<1>2. search[x].at = "scan" /\ search[x].had \subseteq repositories
    BY DEF Scan, SearchInv
<1> QED
    BY <1>1, <1>2, SearchGoesOn DEF Scan, SearchInv

\* What is known of a search in its scan.
LEMMA AtScan ==
    ASSUME SearchInv, NEW x \in Searchers, search[x].at = "scan"
    PROVE  /\ search[x] \in SearchShape /\ ScanRight(search[x])
           /\ search[x].had \subseteq repositories /\ search[x].paths \subseteq Directories
BY DEF SearchInv, SearchRight, SearchShape

\* The time is up.
LEMMA ScanTimeoutKeeps ==
    ASSUME SearchInv, ~crashed, NEW x \in Searchers, ScanTimeout(x)
    PROVE  SearchInv'
<1> DEFINE s == search[x]
           t == [s EXCEPT !.late = TRUE, !.cut = TRUE]
<1>1. Scan(x, t) /\ s.at = "scan" /\ ~crashed'
    BY DEF ScanTimeout, Scan
<1>2. s \in SearchShape /\ ScanRight(s)
    BY <1>1, AtScan
<1>3. t \in SearchShape /\ t.at = "scan" /\ t.had = s.had /\ t.late /\ t.cut /\ t.found = s.found
      /\ t.queue = s.queue /\ t.worker = s.worker /\ t.paths = s.paths /\ t.inFlight = s.inFlight
    BY <1>1, <1>2 DEF SearchShape
<1> HIDE DEF t
<1>4. ScanRight(t)
    BY <1>2, <1>3 DEF ScanRight, Counted, ClosedIsOver
<1> QED
    BY <1>1, <1>3, <1>4, ScanGoesOn

\* The closing goroutine looks at the channel.
LEMMA CloserLooksKeeps ==
    ASSUME SearchInv, ~crashed, NEW x \in Searchers, CloserLooks(x)
    PROVE  SearchInv'
<1> DEFINE s == search[x]
           d == [s EXCEPT !.closer = "done", !.closed = TRUE]
           k == [s EXCEPT !.closer = "count"]
           t == IF s.late THEN d ELSE k
<1>1. Scan(x, t) /\ s.at = "scan" /\ ~crashed'
    BY DEF CloserLooks, Scan
<1>2. s \in SearchShape /\ ScanRight(s)
    BY <1>1, AtScan
<1>3. d \in SearchShape /\ d.at = "scan" /\ d.had = s.had /\ d.late = s.late /\ d.cut = s.cut
      /\ d.found = s.found /\ d.queue = s.queue /\ d.worker = s.worker /\ d.paths = s.paths
      /\ d.inFlight = s.inFlight
    BY <1>1, <1>2 DEF SearchShape
<1>4. k \in SearchShape /\ k.at = "scan" /\ k.had = s.had /\ k.late = s.late /\ k.cut = s.cut
      /\ k.found = s.found /\ k.queue = s.queue /\ k.worker = s.worker /\ k.paths = s.paths
      /\ k.inFlight = s.inFlight /\ k.closed = s.closed
    BY <1>1, <1>2 DEF SearchShape
<1> HIDE DEF d, k
<1>5. s.late => ScanRight(d)
    BY <1>2, <1>3 DEF ScanRight, Counted, ClosedIsOver
<1>6. ScanRight(k)
    BY <1>2, <1>4 DEF ScanRight, Counted, ClosedIsOver
<1>7. t \in SearchShape /\ t.at = "scan" /\ t.had = s.had /\ ScanRight(t)
    BY <1>3, <1>4, <1>5, <1>6
<1> HIDE DEF t
<1> QED
    BY <1>1, <1>7, ScanGoesOn

\* The counter is nothing only when nobody has anything.
LEMMA NothingCounted ==
    ASSUME NEW s \in SearchShape, Counted(s), s.inFlight = 0
    PROVE  Len(s.queue) = 0 /\ Busy(s.worker) = {}
<1>1. Busy(s.worker) \subseteq ScanWorkers /\ Sending(s.worker) \subseteq ScanWorkers
    BY DEF Busy, Sending, Those
<1>2. /\ IsFiniteSet(Busy(s.worker)) /\ Cardinality(Busy(s.worker)) \in Nat
      /\ Cardinality(Sending(s.worker)) \in Nat
    BY <1>1, DiscoveryAssumption, FS_Subset, FS_CardinalityType
<1>3. Len(s.queue) \in Nat
    BY DEF SearchShape
<1>4. Len(s.queue) = 0 /\ Cardinality(Busy(s.worker)) = 0
    BY <1>2, <1>3 DEF Counted
<1> QED
    BY <1>2, <1>4, FS_EmptySet

\* It closes the channel when the counter is nothing.
LEMMA CloserCountsKeeps ==
    ASSUME SearchInv, ~crashed, NEW x \in Searchers, CloserCounts(x)
    PROVE  SearchInv'
<1> DEFINE s == search[x]
           d == [s EXCEPT !.closer = "done", !.closed = TRUE]
           k == [s EXCEPT !.closer = "look"]
           t == IF s.inFlight = 0 THEN d ELSE k
<1>1. Scan(x, t) /\ s.at = "scan" /\ ~crashed'
    BY DEF CloserCounts, Scan
<1>2. s \in SearchShape /\ ScanRight(s)
    BY <1>1, AtScan
<1>3. d \in SearchShape /\ d.at = "scan" /\ d.had = s.had /\ d.late = s.late /\ d.cut = s.cut
      /\ d.found = s.found /\ d.queue = s.queue /\ d.worker = s.worker /\ d.paths = s.paths
      /\ d.inFlight = s.inFlight
    BY <1>1, <1>2 DEF SearchShape
<1>4. k \in SearchShape /\ k.at = "scan" /\ k.had = s.had /\ k.late = s.late /\ k.cut = s.cut
      /\ k.found = s.found /\ k.queue = s.queue /\ k.worker = s.worker /\ k.paths = s.paths
      /\ k.inFlight = s.inFlight /\ k.closed = s.closed
    BY <1>1, <1>2 DEF SearchShape
<1> HIDE DEF d, k
<1>5. s.inFlight = 0 => ScanRight(d)
    <2>1. s.inFlight = 0 => Len(s.queue) = 0 /\ Busy(s.worker) = {}
        BY <1>2, NothingCounted DEF ScanRight
    <2> QED
        BY <1>2, <1>3, <2>1 DEF ScanRight, Counted, ClosedIsOver
<1>6. ScanRight(k)
    BY <1>2, <1>4 DEF ScanRight, Counted, ClosedIsOver
<1>7. t \in SearchShape /\ t.at = "scan" /\ t.had = s.had /\ ScanRight(t)
    BY <1>3, <1>4, <1>5, <1>6
<1> HIDE DEF t
<1> QED
    BY <1>1, <1>7, ScanGoesOn

\* One worker's turn: what is to be shown of it.
LEMMA TurnKeeps ==
    ASSUME NEW s \in SearchShape, ScanRight(s), NEW t \in SearchShape, NEW w \in ScanWorkers,
           NEW j \in WorkerShape, t.worker = [s.worker EXCEPT ![w] = j],
           t.paths = s.paths, t.late = s.late, t.closed = s.closed, t.had = s.had,
           s.cut => t.cut,
           t.inFlight - s.inFlight =
              (Len(t.queue) - Len(s.queue))
              + (Here(j, Hands) - Here(s.worker[w], Hands))
              + (Here(j, Sends) - Here(s.worker[w], Sends)),
           s.closed /\ ~s.late => Len(t.queue) = 0 /\ j.at \notin Hands,
           QueueInside(t.queue, s.paths),
           j.at \in Hands => HandRight(j, s.paths),
           t.found \subseteq Under(s.paths),
           ~t.cut => \A e \in s.had \ t.found :
              /\ e \notin s.found
              /\ Queued(s.queue, e) \/ InHand(s.worker[w], e) => Queued(t.queue, e) \/ InHand(j, e)
    PROVE  ScanRight(t)
<1>1. t.worker[w] = j /\ \A v \in ScanWorkers \ {w} : t.worker[v] = s.worker[v]
    BY DEF SearchShape
<1>2. t.late => t.cut
    BY DEF ScanRight
<1>3. Counted(t)
    <2> DEFINE b == Cardinality(Busy(s.worker))
               c == Cardinality(Sending(s.worker))
               b2 == Cardinality(Busy(t.worker))
               c2 == Cardinality(Sending(t.worker))
               h == Here(s.worker[w], Hands)
               h2 == Here(j, Hands)
               k == Here(s.worker[w], Sends)
               k2 == Here(j, Sends)
               f == s.inFlight
               f2 == t.inFlight
               q == Len(s.queue)
               q2 == Len(t.queue)
    <2>1. s.worker \in [ScanWorkers -> WorkerShape]
        BY DEF SearchShape
    <2>2. b \in Nat /\ b2 = b + h2 - h
        BY <2>1, ThoseChange DEF Busy
    <2>3. c \in Nat /\ c2 = c + k2 - k
        BY <2>1, ThoseChange DEF Sending
    <2>4. f = q + b + c
        BY DEF ScanRight, Counted
    <2>5. f \in Int /\ f2 \in Int /\ q \in Nat /\ q2 \in Nat
        BY DEF SearchShape
    <2>6. h \in Int /\ h2 \in Int /\ k \in Int /\ k2 \in Int
        <3>1. \A i, places : Here(i, places) \in Int
            BY DEF Here
        <3> QED
            BY <3>1
    <2>7. f2 - f = (q2 - q) + (h2 - h) + (k2 - k)
        OBVIOUS
    <2>8. f2 = q2 + b2 + c2 => Counted(t)
        BY DEF Counted
    <2> HIDE DEF b, c, b2, c2, h, h2, k, k2, f, f2, q, q2
    <2>9. f2 = q2 + b2 + c2
        BY <2>2, <2>3, <2>4, <2>5, <2>6, <2>7
    <2> QED
        BY <2>8, <2>9
<1>4. ClosedIsOver(t)
    BY <1>1 DEF ScanRight, ClosedIsOver, Busy, Those
<1>5. ASSUME NEW v \in Busy(t.worker) PROVE HandRight(t.worker[v], t.paths)
    <2>1. CASE v = w
        BY <1>1, <1>5, <2>1 DEF Busy, Those
    <2>2. CASE v # w
        BY <1>1, <1>5, <2>2 DEF ScanRight, Busy, Those
    <2> QED
        BY <2>1, <2>2
<1>6. ASSUME ~t.cut, NEW e \in t.had \ t.found PROVE ToBeMet(t.queue, t.worker, e)
    <2>1. ToBeMet(s.queue, s.worker, e)
        BY <1>6 DEF ScanRight
    <2>2. CASE Queued(s.queue, e) \/ InHand(s.worker[w], e)
        BY <1>1, <1>6, <2>2 DEF ToBeMet
    <2>3. CASE \E v \in ScanWorkers \ {w} : InHand(s.worker[v], e)
        BY <1>1, <2>3 DEF ToBeMet
    <2> QED
        BY <2>1, <2>2, <2>3 DEF ToBeMet
<1> QED
    BY <1>2, <1>3, <1>4, <1>5, <1>6 DEF ScanRight

\* What a worker with something in hand knows of the scan.
LEMMA WithAJob ==
    ASSUME NEW s \in SearchShape, ScanRight(s), NEW w \in ScanWorkers
    PROVE  /\ s.worker[w] \in WorkerShape /\ MaxDepth \in Nat
           /\ s.worker[w].at \in Hands => HandRight(s.worker[w], s.paths) /\ (s.closed => s.late /\ s.cut)
<1>1. s.worker[w] \in WorkerShape
    BY DEF SearchShape
<1>2. s.worker[w].at \in Hands => w \in Busy(s.worker)
    BY DEF Busy, Those
<1>3. (s.closed /\ ~s.late => Busy(s.worker) = {}) /\ (s.late => s.cut)
      /\ \A v \in Busy(s.worker) : HandRight(s.worker[v], s.paths)
    BY DEF ScanRight, ClosedIsOver
<1>4. s.closed \in BOOLEAN /\ s.late \in BOOLEAN
    BY DEF SearchShape
<1> QED
    BY <1>1, <1>2, <1>3, <1>4, DiscoveryAssumption

\* The places a worker is counted at.
LEMMA Places ==
    ASSUME NEW j
    PROVE  /\ j.at \in {"free", "exit"} => Here(j, Hands) = 0 /\ Here(j, Sends) = 0 /\ j.at \notin Hands
           /\ j.at \in {"read", "next"} => Here(j, Hands) = 1 /\ Here(j, Sends) = 0 /\ j.at \in Hands
           /\ j.at = "send" => Here(j, Hands) = 1 /\ Here(j, Sends) = 1 /\ j.at \in Hands
BY DEF Here, Hands, Sends

\* A worker is done with a directory.
LEMMA FinishDirectoryKeeps ==
    ASSUME SearchInv, ~crashed, NEW x \in Searchers, NEW w \in ScanWorkers, FinishDirectory(x, w)
    PROVE  SearchInv'
<1> DEFINE s == search[x]
           u == [s EXCEPT !.inFlight = @ - 1]
           t == Set(u, w, NoJob)
<1>1. Scan(x, t) /\ s.at = "scan" /\ ~crashed' /\ s.worker[w].at = "next" /\ s.worker[w].todo = <<>>
    BY DEF FinishDirectory, Scan
<1>2. s \in SearchShape /\ ScanRight(s)
    BY <1>1, AtScan
<1>3. /\ u \in SearchShape /\ u.at = "scan" /\ u.had = s.had /\ u.late = s.late /\ u.cut = s.cut
      /\ u.found = s.found /\ u.queue = s.queue /\ u.worker = s.worker /\ u.paths = s.paths
      /\ u.inFlight = s.inFlight - 1 /\ u.closed = s.closed
    BY <1>1, <1>2 DEF SearchShape
<1>4. NoJob \in WorkerShape /\ NoJob.at = "free"
    BY NoSearchRight
<1> HIDE DEF u
<1>5. /\ t \in SearchShape /\ t.at = "scan" /\ t.had = s.had /\ t.late = s.late /\ t.cut = s.cut
      /\ t.found = s.found /\ t.queue = s.queue /\ t.paths = s.paths
      /\ t.inFlight = s.inFlight - 1 /\ t.closed = s.closed
      /\ t.worker = [s.worker EXCEPT ![w] = NoJob]
    BY <1>3, <1>4, SetOne
<1> HIDE DEF t, s
<1>6. s.inFlight \in Int /\ Len(s.queue) \in Nat
    BY <1>2 DEF SearchShape
<1>7. t.inFlight - s.inFlight =
              (Len(t.queue) - Len(s.queue))
              + (Here(NoJob, Hands) - Here(s.worker[w], Hands))
              + (Here(NoJob, Sends) - Here(s.worker[w], Sends))
    <2>1. Here(NoJob, Hands) = 0 /\ Here(NoJob, Sends) = 0
          /\ Here(s.worker[w], Hands) = 1 /\ Here(s.worker[w], Sends) = 0
        BY <1>1, <1>4, Places
    <2> QED
        BY <1>5, <1>6, <2>1
<1>8. NoJob.at \notin Hands /\ s.worker[w].at \in Hands
    BY <1>1, <1>4, Places
<1>9. s.closed => s.late
    BY <1>2, <1>8, WithAJob
<1>10. \A e : ~InHand(s.worker[w], e)
    BY <1>1 DEF InHand
<1>11. QueueInside(s.queue, s.paths) /\ s.found \subseteq Under(s.paths)
    BY <1>2 DEF ScanRight
<1>12. ScanRight(t)
    BY <1>2, <1>4, <1>5, <1>7, <1>8, <1>9, <1>10, <1>11, TurnKeeps
<1> QED
    BY <1>1, <1>5, <1>12, ScanGoesOn DEF s

\* A worker ends with the channel.
LEMMA WorkerEndsKeeps ==
    ASSUME SearchInv, ~crashed, NEW x \in Searchers, NEW w \in ScanWorkers, WorkerEnds(x, w)
    PROVE  SearchInv'
<1> DEFINE s == search[x]
           j == [NoJob EXCEPT !.at = "exit"]
           t == Set(s, w, j)
<1>1. Scan(x, t) /\ s.at = "scan" /\ ~crashed' /\ s.worker[w].at = "free" /\ s.queue = <<>>
    BY DEF WorkerEnds, Scan
<1>2. s \in SearchShape /\ ScanRight(s)
    BY <1>1, AtScan
<1>4. j \in WorkerShape /\ j.at = "exit"
    BY NoSearchRight DEF WorkerShape
<1> HIDE DEF j
<1>5. /\ t \in SearchShape /\ t.at = "scan" /\ t.had = s.had /\ t.late = s.late /\ t.cut = s.cut
      /\ t.found = s.found /\ t.queue = s.queue /\ t.paths = s.paths
      /\ t.inFlight = s.inFlight /\ t.closed = s.closed
      /\ t.worker = [s.worker EXCEPT ![w] = j]
    BY <1>1, <1>2, <1>4, SetOne
<1> HIDE DEF t, s
<1>6. s.inFlight \in Int /\ Len(s.queue) = 0
    BY <1>1, <1>2 DEF SearchShape
<1>7. t.inFlight - s.inFlight =
              (Len(t.queue) - Len(s.queue))
              + (Here(j, Hands) - Here(s.worker[w], Hands))
              + (Here(j, Sends) - Here(s.worker[w], Sends))
    <2>1. Here(j, Hands) = 0 /\ Here(j, Sends) = 0
          /\ Here(s.worker[w], Hands) = 0 /\ Here(s.worker[w], Sends) = 0
        BY <1>1, <1>4, Places
    <2> QED
        BY <1>5, <1>6, <2>1
<1>8. j.at \notin Hands
    BY <1>4, Places
<1>10. \A e : ~InHand(s.worker[w], e)
    BY <1>1 DEF InHand
<1>11. QueueInside(s.queue, s.paths) /\ s.found \subseteq Under(s.paths)
    BY <1>2 DEF ScanRight
<1>12. ScanRight(t)
    BY <1>2, <1>4, <1>5, <1>6, <1>7, <1>8, <1>10, <1>11, TurnKeeps
<1> QED
    BY <1>1, <1>5, <1>12, ScanGoesOn DEF s

\* What was in hand is in the channel, or passed over for the closed channel.
LEMMA CheckClosedKeeps ==
    ASSUME SearchInv, ~crashed, NEW x \in Searchers, NEW w \in ScanWorkers, CheckClosed(x, w)
    PROVE  SearchInv'
<1> DEFINE s == search[x]
           job == s.worker[w]
           j1 == [job EXCEPT !.todo = Tail(@)]
           t1 == Set(s, w, j1)
           u == [s EXCEPT !.inFlight = @ + 1]
           j2 == [job EXCEPT !.at = "send"]
           t2 == Set(u, w, j2)
<1>1. /\ Scan(x, IF s.closed THEN t1 ELSE t2) /\ s.at = "scan" /\ ~crashed'
      /\ job.at = "next" /\ job.todo # <<>>
    BY DEF CheckClosed, Scan
<1>2. s \in SearchShape /\ ScanRight(s)
    BY <1>1, AtScan
<1>3. /\ u \in SearchShape /\ u.at = "scan" /\ u.had = s.had /\ u.late = s.late /\ u.cut = s.cut
      /\ u.found = s.found /\ u.queue = s.queue /\ u.worker = s.worker /\ u.paths = s.paths
      /\ u.inFlight = s.inFlight + 1 /\ u.closed = s.closed
    BY <1>1, <1>2 DEF SearchShape
<1>4. job \in WorkerShape /\ HandRight(job, s.paths) /\ (s.closed => s.late /\ s.cut)
    BY <1>1, <1>2, WithAJob, Places
<1>5. /\ j1 \in WorkerShape /\ j1.at = "next" /\ j1.todo = Tail(job.todo) /\ j1.dir = job.dir
      /\ j1.depth = job.depth
      /\ j2 \in WorkerShape /\ j2.at = "send" /\ j2.todo = job.todo /\ j2.dir = job.dir
      /\ j2.depth = job.depth /\ job.todo \in Seq(Directories)
    <2>1. job \in WorkerShape /\ job.at = "next" /\ job.todo # <<>>
        BY <1>1, <1>4
    <2> HIDE DEF job
    <2>2. job.todo \in Seq(Directories) /\ Tail(job.todo) \in Seq(Directories)
        <3>1. job.todo \in Seq(Directories)
            BY <2>1 DEF WorkerShape
        <3> HIDE DEF Directories
        <3> QED
            BY <2>1, <3>1
    <2> QED
        BY <2>1, <2>2 DEF WorkerShape
<1> HIDE DEF u, j1, j2
<1>6. /\ t1 \in SearchShape /\ t1.at = "scan" /\ t1.had = s.had /\ t1.late = s.late /\ t1.cut = s.cut
      /\ t1.found = s.found /\ t1.queue = s.queue /\ t1.paths = s.paths
      /\ t1.inFlight = s.inFlight /\ t1.closed = s.closed /\ t1.worker = [s.worker EXCEPT ![w] = j1]
    BY <1>1, <1>2, <1>5, SetOne
<1>7. /\ t2 \in SearchShape /\ t2.at = "scan" /\ t2.had = s.had /\ t2.late = s.late /\ t2.cut = s.cut
      /\ t2.found = s.found /\ t2.queue = s.queue /\ t2.paths = s.paths
      /\ t2.inFlight = s.inFlight + 1 /\ t2.closed = s.closed /\ t2.worker = [s.worker EXCEPT ![w] = j2]
    BY <1>3, <1>5, SetOne
<1> HIDE DEF t1, t2
<1>8. s.inFlight \in Int /\ Len(s.queue) \in Nat /\ job = s.worker[w]
    BY <1>2 DEF SearchShape
<1>9. QueueInside(s.queue, s.paths) /\ s.found \subseteq Under(s.paths)
    BY <1>2 DEF ScanRight
<1> HIDE DEF s, job
<1>10. /\ Here(job, Hands) = 1 /\ Here(job, Sends) = 0 /\ Here(j1, Hands) = 1 /\ Here(j1, Sends) = 0
       /\ Here(j2, Hands) = 1 /\ Here(j2, Sends) = 1 /\ job.at \in Hands
    BY <1>1, <1>5, Places
<1>11. CASE s.closed
    <2>1. HandRight(j1, s.paths)
        <3>1. \A i \in 1..Len(j1.todo) : i + 1 \in 1..Len(job.todo) /\ j1.todo[i] = job.todo[i + 1]
            BY <1>1, <1>5
        <3> QED
            BY <1>4, <1>5, <3>1 DEF HandRight
    <2>2. t1.inFlight - s.inFlight =
              (Len(t1.queue) - Len(s.queue))
              + (Here(j1, Hands) - Here(s.worker[w], Hands))
              + (Here(j1, Sends) - Here(s.worker[w], Sends))
        BY <1>6, <1>8, <1>10
    <2>3. ScanRight(t1)
        BY <1>2, <1>4, <1>5, <1>6, <1>9, <1>11, <2>1, <2>2, TurnKeeps
    <2> QED
        BY <1>1, <1>6, <1>11, <2>3, ScanGoesOn DEF s
<1>12. CASE ~s.closed
    <2>1. HandRight(j2, s.paths)
        <3>1. Len(j2.todo) # 0
            BY <1>1, <1>5
        <3> QED
            BY <1>4, <1>5, <3>1 DEF HandRight
    <2>2. t2.inFlight - s.inFlight =
              (Len(t2.queue) - Len(s.queue))
              + (Here(j2, Hands) - Here(s.worker[w], Hands))
              + (Here(j2, Sends) - Here(s.worker[w], Sends))
        BY <1>7, <1>8, <1>10
    <2>3. \A e : InHand(s.worker[w], e) => InHand(j2, e)
        BY <1>1, <1>5, <1>8 DEF InHand
    <2>4. ScanRight(t2)
        BY <1>2, <1>4, <1>5, <1>7, <1>9, <1>12, <2>1, <2>2, <2>3, TurnKeeps
    <2> QED
        BY <1>1, <1>7, <1>12, <2>4, ScanGoesOn DEF s
<1> QED
    BY <1>11, <1>12

\* What is in a directory is now to be met in it.
LEMMA ReadDirectoryKeeps ==
    ASSUME SearchInv, ~crashed, NEW x \in Searchers, NEW w \in ScanWorkers, ReadDirectory(x, w)
    PROVE  SearchInv'
<1> DEFINE s == search[x]
           job == s.worker[w]
           u == [s EXCEPT !.found = IF job.dir \in repositories THEN @ \cup {job.dir} ELSE @]
           j == [job EXCEPT !.at = "next", !.todo = Entries(job.dir)]
           t == Set(u, w, j)
<1>1. Scan(x, t) /\ s.at = "scan" /\ ~crashed' /\ job.at = "read"
    BY DEF ReadDirectory, Scan
<1>2. s \in SearchShape /\ ScanRight(s) /\ s.had \subseteq repositories
    BY <1>1, AtScan
<1>4. job \in WorkerShape /\ HandRight(job, s.paths) /\ (s.closed => s.late /\ s.cut) /\ MaxDepth \in Nat
      /\ job.dir \in Directories /\ job.depth <= MaxDepth
    BY <1>1, <1>2, WithAJob, Places DEF HandRight
<1>3. /\ u \in SearchShape /\ u.at = "scan" /\ u.had = s.had /\ u.late = s.late /\ u.cut = s.cut
      /\ u.found = IF job.dir \in repositories THEN s.found \cup {job.dir} ELSE s.found
      /\ u.queue = s.queue /\ u.worker = s.worker /\ u.paths = s.paths
      /\ u.inFlight = s.inFlight /\ u.closed = s.closed
    BY <1>1, <1>2, <1>4 DEF SearchShape
<1>5. /\ j \in WorkerShape /\ j.at = "next" /\ j.todo = Entries(job.dir) /\ j.dir = job.dir
      /\ j.depth = job.depth /\ j.depth \in Nat
    BY <1>1, <1>4, EntriesAreInside DEF WorkerShape
<1> HIDE DEF u, j
<1>6. /\ t \in SearchShape /\ t.at = "scan" /\ t.had = s.had /\ t.late = s.late /\ t.cut = s.cut
      /\ t.found = u.found /\ t.queue = s.queue /\ t.paths = s.paths
      /\ t.inFlight = s.inFlight /\ t.closed = s.closed /\ t.worker = [s.worker EXCEPT ![w] = j]
    BY <1>3, <1>5, SetOne
<1> HIDE DEF t
<1>8. s.inFlight \in Int /\ Len(s.queue) \in Nat /\ job = s.worker[w]
    BY <1>2 DEF SearchShape
<1>9. QueueInside(s.queue, s.paths) /\ s.found \subseteq Under(s.paths)
    BY <1>2 DEF ScanRight
<1> HIDE DEF s, job
<1>10. /\ Here(job, Hands) = 1 /\ Here(job, Sends) = 0 /\ Here(j, Hands) = 1 /\ Here(j, Sends) = 0
       /\ job.at \in Hands
    BY <1>1, <1>5, Places
<1>11. MaxDepth - job.depth \in 0..MaxDepth
    BY <1>4, <1>5
<1>12. t.found \subseteq Under(s.paths)
    <2>1. job.dir \in Within(job.dir, MaxDepth - job.depth)
        BY <1>4, <1>11, WithinItself
    <2>2. job.dir \in Under(s.paths)
        BY <1>4, <2>1 DEF HandRight
    <2> QED
        BY <1>3, <1>6, <1>9, <2>2
<1>13. HandRight(j, s.paths)
    BY <1>4, <1>5, EntriesAreInside DEF HandRight
<1>14. t.inFlight - s.inFlight =
              (Len(t.queue) - Len(s.queue))
              + (Here(j, Hands) - Here(s.worker[w], Hands))
              + (Here(j, Sends) - Here(s.worker[w], Sends))
    BY <1>6, <1>8, <1>10
<1>15. ASSUME NEW e \in s.had \ t.found, InHand(job, e)
       PROVE  InHand(j, e)
    <2>1. e \in Within(job.dir, MaxDepth - job.depth) /\ e # job.dir
        <3>1. e \in repositories
            BY <1>2, <1>15
        <3> QED
            BY <1>1, <1>3, <1>6, <1>15, <3>1 DEF InHand
    <2>2. MaxDepth - job.depth # 0
          /\ \E c \in Inside(job.dir) : e \in Within(c, (MaxDepth - job.depth) - 1)
        BY <1>4, <1>11, <2>1, WithinEither
    <2>3. PICK c \in Inside(job.dir) : e \in Within(c, (MaxDepth - job.depth) - 1)
        BY <2>2
    <2>4. PICK i \in 1..Len(j.todo) : j.todo[i] = c
        <3>1. \E i \in 1..Len(Entries(job.dir)) : Entries(job.dir)[i] = c
            BY <1>4, EntriesAreInside
        <3> QED
            BY <1>5, <3>1
    <2>5. job.depth < MaxDepth /\ MaxDepth - job.depth - 1 = (MaxDepth - job.depth) - 1
        BY <1>4, <1>5, <2>2
    <2> QED
        BY <1>5, <2>3, <2>4, <2>5 DEF InHand
<1>16. ASSUME NEW e \in s.had \ t.found
       PROVE  /\ e \notin s.found
              /\ Queued(s.queue, e) \/ InHand(s.worker[w], e) => Queued(t.queue, e) \/ InHand(j, e)
    BY <1>3, <1>6, <1>8, <1>15
<1>17. s.closed => s.late
    BY <1>4
<1>18. ScanRight(t)
    BY <1>2, <1>5, <1>6, <1>9, <1>12, <1>13, <1>14, <1>16, <1>17, TurnKeeps
<1> QED
    BY <1>1, <1>6, <1>18, ScanGoesOn DEF s

\* The first of a channel and what is behind it.
LEMMA FirstOfQueue ==
    ASSUME NEW S, NEW q \in Seq(S), q # <<>>
    PROVE  /\ Len(q) \in Nat \ {0} /\ Head(q) \in S /\ Head(q) = q[1] /\ 1 \in 1..Len(q)
           /\ Tail(q) \in Seq(S) /\ Len(Tail(q)) = Len(q) - 1
           /\ \A i \in 1..Len(Tail(q)) : i + 1 \in 1..Len(q) /\ Tail(q)[i] = q[i + 1]
           /\ \A i \in 1..Len(q) : i # 1 => i - 1 \in 1..Len(Tail(q)) /\ Tail(q)[i - 1] = q[i]
<1>1. Len(q) \in Nat \ {0} /\ Tail(q) \in Seq(S) /\ Len(Tail(q)) = Len(q) - 1 /\ Head(q) = q[1]
    OBVIOUS
<1>2. \A i \in 1..Len(q) : q[i] \in S
    OBVIOUS
<1>3. \A i \in 1..Len(Tail(q)) : i + 1 \in 1..Len(q) /\ Tail(q)[i] = q[i + 1]
    BY <1>1
<1>4. \A i \in 1..Len(q) : i # 1 => i - 1 \in 1..Len(Tail(q)) /\ (i - 1) + 1 = i
    BY <1>1
<1>5. 1 \in 1..Len(q)
    BY <1>1
<1> QED
    BY <1>1, <1>2, <1>3, <1>4, <1>5

\* A worker takes a directory from the channel.
LEMMA TakeJobKeeps ==
    ASSUME SearchInv, ~crashed, NEW x \in Searchers, NEW w \in ScanWorkers, TakeJob(x, w)
    PROVE  SearchInv'
<1> DEFINE s == search[x]
           job == Head(s.queue)
           rest == [s EXCEPT !.queue = Tail(@)]
           less == [rest EXCEPT !.inFlight = @ - 1]
           out == [NoJob EXCEPT !.at = "exit"]
           in == [NoJob EXCEPT !.at = "read", !.dir = job.dir, !.depth = job.depth]
           ended == Set(less, w, out)
           handed == Set(rest, w, in)
<1>1. /\ Scan(x, IF s.late THEN ended ELSE IF job.depth > MaxDepth THEN less ELSE handed)
      /\ s.at = "scan" /\ ~crashed' /\ s.worker[w].at = "free" /\ s.queue # <<>>
    BY DEF TakeJob, Scan
<1>2. s \in SearchShape /\ ScanRight(s)
    BY <1>1, AtScan
<1> DEFINE q == s.queue
<1>3. /\ q \in Seq(JobShape) /\ s.inFlight \in Int /\ s.worker \in [ScanWorkers -> WorkerShape]
      /\ s.late \in BOOLEAN /\ s.closed \in BOOLEAN /\ s.worker[w] \in WorkerShape
    BY <1>2 DEF SearchShape
<1>4. /\ Len(q) \in Nat \ {0} /\ job \in JobShape /\ job = q[1] /\ 1 \in 1..Len(q)
      /\ Tail(q) \in Seq(JobShape) /\ Len(Tail(q)) = Len(q) - 1
      /\ \A i \in 1..Len(Tail(q)) : i + 1 \in 1..Len(q) /\ Tail(q)[i] = q[i + 1]
      /\ \A i \in 1..Len(q) : i # 1 => i - 1 \in 1..Len(Tail(q)) /\ Tail(q)[i - 1] = q[i]
    BY <1>1, <1>3, FirstOfQueue
<1>5. /\ rest \in SearchShape /\ rest.at = "scan" /\ rest.had = s.had /\ rest.late = s.late
      /\ rest.cut = s.cut /\ rest.found = s.found /\ rest.queue = Tail(q) /\ rest.worker = s.worker
      /\ rest.paths = s.paths /\ rest.inFlight = s.inFlight /\ rest.closed = s.closed
    BY <1>1, <1>2, <1>4 DEF SearchShape
<1>6. /\ less \in SearchShape /\ less.at = "scan" /\ less.had = s.had /\ less.late = s.late
      /\ less.cut = s.cut /\ less.found = s.found /\ less.queue = Tail(q) /\ less.worker = s.worker
      /\ less.paths = s.paths /\ less.inFlight = s.inFlight - 1 /\ less.closed = s.closed
    <2> HIDE DEF rest
    <2> QED
        BY <1>3, <1>5 DEF SearchShape
<1>7. job.dir \in Directories /\ job.dir \in Nat /\ job.depth \in Nat /\ MaxDepth \in Nat
    BY <1>4, DiscoveryAssumption DEF JobShape, Directories
<1> HIDE DEF job
<1>8. /\ in \in WorkerShape /\ in.at = "read" /\ in.dir = job.dir /\ in.depth = job.depth /\ in.todo = <<>>
      /\ out \in WorkerShape /\ out.at = "exit"
    BY <1>7, NoSearchRight DEF NoJob, WorkerShape
<1> HIDE DEF rest, less, in, out
<1>9. /\ ended \in SearchShape /\ ended.at = "scan" /\ ended.had = s.had /\ ended.late = s.late
      /\ ended.cut = s.cut /\ ended.found = s.found /\ ended.queue = Tail(q)
      /\ ended.worker = [s.worker EXCEPT ![w] = out]
      /\ ended.paths = s.paths /\ ended.inFlight = s.inFlight - 1 /\ ended.closed = s.closed
    BY <1>6, <1>8, SetOne
<1>10. /\ handed \in SearchShape /\ handed.at = "scan" /\ handed.had = s.had /\ handed.late = s.late
       /\ handed.cut = s.cut /\ handed.found = s.found /\ handed.queue = Tail(q)
       /\ handed.worker = [s.worker EXCEPT ![w] = in]
       /\ handed.paths = s.paths /\ handed.inFlight = s.inFlight /\ handed.closed = s.closed
    BY <1>5, <1>8, SetOne
<1> HIDE DEF ended, handed, s
<1>11. /\ QueueInside(q, s.paths) /\ s.found \subseteq Under(s.paths) /\ (s.late => s.cut)
       /\ (s.closed => s.late)
    BY <1>2, <1>3, <1>4 DEF ScanRight, ClosedIsOver
<1> HIDE DEF q
<1>12. q = s.queue
    BY DEF q
<1>13. QueueInside(Tail(q), s.paths)
    BY <1>4, <1>11 DEF QueueInside
<1>14. /\ Here(s.worker[w], Hands) = 0 /\ Here(s.worker[w], Sends) = 0 /\ s.worker[w].at \notin Hands
       /\ Here(out, Hands) = 0 /\ Here(out, Sends) = 0 /\ out.at \notin Hands
       /\ Here(in, Hands) = 1 /\ Here(in, Sends) = 0
    BY <1>1, <1>8, Places
<1>15. \A e : Queued(q, e) =>
               \/ Queued(Tail(q), e)
               \/ job.depth <= MaxDepth /\ e \in Within(job.dir, MaxDepth - job.depth)
    BY <1>4 DEF Queued
<1>16. \A e : ~InHand(s.worker[w], e)
    BY <1>1 DEF InHand
<1>17. CASE s.late
    <2>1. ended.inFlight - s.inFlight =
              (Len(ended.queue) - Len(s.queue))
              + (Here(out, Hands) - Here(s.worker[w], Hands))
              + (Here(out, Sends) - Here(s.worker[w], Sends))
        BY <1>3, <1>4, <1>9, <1>12, <1>14
    <2>2. ScanRight(ended)
        BY <1>2, <1>8, <1>9, <1>11, <1>13, <1>14, <1>17, <2>1, TurnKeeps
    <2> QED
        BY <1>1, <1>9, <1>17, <2>2, ScanGoesOn DEF s
<1>18. CASE ~s.late /\ job.depth > MaxDepth
    <2>1. less.inFlight - s.inFlight =
              (Len(less.queue) - Len(s.queue))
              + (Here(s.worker[w], Hands) - Here(s.worker[w], Hands))
              + (Here(s.worker[w], Sends) - Here(s.worker[w], Sends))
        BY <1>3, <1>4, <1>6, <1>12, <1>14
    <2>2. less.worker = [s.worker EXCEPT ![w] = s.worker[w]]
        BY <1>3, <1>6
    <2>3. ~(job.depth <= MaxDepth)
        BY <1>7, <1>18
    <2>4. \A e : Queued(s.queue, e) => Queued(less.queue, e)
        BY <1>6, <1>12, <1>15, <2>3
    <2> DEFINE k == s.worker[w]
    <2>5. /\ k \in WorkerShape /\ k.at \notin Hands /\ less.worker = [s.worker EXCEPT ![w] = k]
          /\ less.inFlight - s.inFlight =
                (Len(less.queue) - Len(s.queue)) + (Here(k, Hands) - Here(s.worker[w], Hands))
                + (Here(k, Sends) - Here(s.worker[w], Sends))
        BY <1>3, <1>14, <2>1, <2>2
    <2> HIDE DEF k
    <2>6. ScanRight(less)
        BY <1>2, <1>6, <1>11, <1>13, <1>16, <1>18, <2>4, <2>5, TurnKeeps
    <2> QED
        BY <1>1, <1>6, <1>18, <2>6, ScanGoesOn DEF s
<1>19. CASE ~s.late /\ ~(job.depth > MaxDepth)
    <2>1. handed.inFlight - s.inFlight =
              (Len(handed.queue) - Len(s.queue))
              + (Here(in, Hands) - Here(s.worker[w], Hands))
              + (Here(in, Sends) - Here(s.worker[w], Sends))
        BY <1>3, <1>4, <1>10, <1>12, <1>14
    <2>2. job.depth <= MaxDepth
        BY <1>7, <1>19
    <2>3. HandRight(in, s.paths)
        <3>1. Within(job.dir, MaxDepth - job.depth) \subseteq Under(s.paths)
            BY <1>4, <1>11, <2>2 DEF QueueInside
        <3>2. Len(in.todo) = 0
            BY <1>8
        <3> QED
            BY <1>7, <1>8, <2>2, <3>1, <3>2 DEF HandRight
    <2>4. \A e : Queued(s.queue, e) => Queued(handed.queue, e) \/ InHand(in, e)
        BY <1>8, <1>10, <1>12, <1>15 DEF InHand
    <2>5. ScanRight(handed)
        BY <1>2, <1>8, <1>10, <1>11, <1>13, <1>16, <1>19, <2>1, <2>3, <2>4, TurnKeeps
    <2> QED
        BY <1>1, <1>10, <1>19, <2>5, ScanGoesOn DEF s
<1> QED
    BY <1>17, <1>18, <1>19

\* A worker puts one into the channel, which the timeout may have closed.
LEMMA SendJobKeeps ==
    ASSUME SearchInv, ~crashed, NEW x \in Searchers, NEW w \in ScanWorkers, SendJob(x, w)
    PROVE  SearchInv'
<1> DEFINE s == search[x]
           job == s.worker[w]
           j == [job EXCEPT !.at = "next", !.todo = Tail(@)]
           passed == Set(s, w, j)
           next == [dir |-> Head(job.todo), depth |-> job.depth + 1]
           full == [passed EXCEPT !.inFlight = @ - 1, !.cut = TRUE]
           more == [passed EXCEPT !.queue = Append(@, next)]
<1>1. /\ Scan(x, IF s.closed THEN s ELSE IF Len(s.queue) = QueueCap THEN full ELSE more)
      /\ s.at = "scan" /\ crashed' = s.closed /\ job.at = "send"
    BY DEF SendJob, Scan
<1>2. s \in SearchShape /\ ScanRight(s)
    BY <1>1, AtScan
<1>3. /\ job \in WorkerShape /\ HandRight(job, s.paths) /\ (s.closed => s.late /\ s.cut) /\ MaxDepth \in Nat
    BY <1>1, <1>2, WithAJob, Places
<1>4. /\ s.queue \in Seq(JobShape) /\ Len(s.queue) \in Nat /\ s.inFlight \in Int
      /\ s.closed \in BOOLEAN /\ job = s.worker[w]
    BY <1>2 DEF SearchShape
<1> HIDE DEF job
<1>5. job.todo \in Seq(Directories) /\ job.todo # <<>> /\ job.depth \in Nat /\ job.dir \in Directories
    BY <1>1, <1>3 DEF WorkerShape, HandRight
<1> DEFINE ahead == job.todo
<1>6. /\ Head(ahead) \in Directories /\ Head(ahead) = ahead[1] /\ 1 \in 1..Len(ahead)
      /\ Tail(ahead) \in Seq(Directories)
      /\ \A i \in 1..Len(Tail(ahead)) : i + 1 \in 1..Len(ahead) /\ Tail(ahead)[i] = ahead[i + 1]
      /\ \A i \in 1..Len(ahead) : i # 1 => i - 1 \in 1..Len(Tail(ahead)) /\ Tail(ahead)[i - 1] = ahead[i]
    <2> HIDE DEF Directories
    <2> QED
        BY <1>5, FirstOfQueue
<1>7. /\ j \in WorkerShape /\ j.at = "next" /\ j.todo = Tail(ahead) /\ j.dir = job.dir /\ j.depth = job.depth
    BY <1>3, <1>6 DEF WorkerShape
<1>8. next \in JobShape /\ next.dir = ahead[1] /\ next.depth = job.depth + 1
    BY <1>5, <1>6 DEF JobShape
<1> HIDE DEF j, next
<1>9. /\ passed \in SearchShape /\ passed.at = "scan" /\ passed.had = s.had /\ passed.late = s.late
      /\ passed.cut = s.cut /\ passed.found = s.found /\ passed.queue = s.queue
      /\ passed.worker = [s.worker EXCEPT ![w] = j]
      /\ passed.paths = s.paths /\ passed.inFlight = s.inFlight /\ passed.closed = s.closed
    BY <1>1, <1>2, <1>7, SetOne
<1> HIDE DEF passed
<1>10. /\ full \in SearchShape /\ full.at = "scan" /\ full.had = s.had /\ full.late = s.late
       /\ full.cut /\ full.found = s.found /\ full.queue = s.queue
       /\ full.worker = [s.worker EXCEPT ![w] = j]
       /\ full.paths = s.paths /\ full.inFlight = s.inFlight - 1 /\ full.closed = s.closed
    <2> HIDE DEF s
    <2>1. passed.inFlight - 1 \in Int
        BY <1>4, <1>9
    <2> QED
        BY <1>9, <2>1 DEF SearchShape
<1>11. /\ Append(s.queue, next) \in Seq(JobShape) /\ Len(Append(s.queue, next)) = Len(s.queue) + 1
       /\ \A i \in 1..Len(s.queue) : Append(s.queue, next)[i] = s.queue[i]
       /\ Append(s.queue, next)[Len(s.queue) + 1] = next
    BY <1>4, <1>8
<1>12. /\ more \in SearchShape /\ more.at = "scan" /\ more.had = s.had /\ more.late = s.late
       /\ more.cut = s.cut /\ more.found = s.found /\ more.queue = Append(s.queue, next)
       /\ more.worker = [s.worker EXCEPT ![w] = j]
       /\ more.paths = s.paths /\ more.inFlight = s.inFlight /\ more.closed = s.closed
    BY <1>9, <1>11 DEF SearchShape
<1> HIDE DEF full, more, s
<1>13. QueueInside(s.queue, s.paths) /\ s.found \subseteq Under(s.paths)
    BY <1>2 DEF ScanRight
<1>14. /\ Here(job, Hands) = 1 /\ Here(job, Sends) = 1 /\ Here(j, Hands) = 1 /\ Here(j, Sends) = 0
    BY <1>1, <1>7, Places
<1>15. HandRight(j, s.paths)
    BY <1>3, <1>6, <1>7 DEF HandRight
<1>16. CASE s.closed
    BY <1>1, <1>2, <1>3, <1>16, ScanGoesOn DEF s
<1>17. CASE ~s.closed /\ Len(s.queue) = QueueCap
    <2>1. full.inFlight - s.inFlight =
              (Len(full.queue) - Len(s.queue))
              + (Here(j, Hands) - Here(s.worker[w], Hands))
              + (Here(j, Sends) - Here(s.worker[w], Sends))
        BY <1>4, <1>10, <1>14
    <2>2. ScanRight(full)
        BY <1>2, <1>7, <1>10, <1>13, <1>15, <1>17, <2>1, TurnKeeps
    <2> QED
        BY <1>1, <1>10, <1>17, <2>2, ScanGoesOn DEF s
<1>18. CASE ~s.closed /\ Len(s.queue) # QueueCap
    <2>1. more.inFlight - s.inFlight =
              (Len(more.queue) - Len(s.queue))
              + (Here(j, Hands) - Here(s.worker[w], Hands))
              + (Here(j, Sends) - Here(s.worker[w], Sends))
        BY <1>4, <1>11, <1>12, <1>14
    <2>2. next.depth <= MaxDepth =>
             /\ job.depth < MaxDepth /\ MaxDepth - job.depth \in 1..MaxDepth
             /\ MaxDepth - next.depth = (MaxDepth - job.depth) - 1
             /\ MaxDepth - job.depth - 1 = (MaxDepth - job.depth) - 1
        BY <1>3, <1>5, <1>8
    <2>3. next.depth <= MaxDepth => Within(next.dir, MaxDepth - next.depth) \subseteq Under(s.paths)
        <3>1. ahead[1] \in Inside(job.dir)
            BY <1>3, <1>6 DEF HandRight
        <3>2. Within(job.dir, MaxDepth - job.depth) \subseteq Under(s.paths)
            BY <1>3 DEF HandRight
        <3>3. SUFFICES ASSUME next.depth <= MaxDepth, NEW y \in Within(ahead[1], (MaxDepth - job.depth) - 1)
                       PROVE  y \in Within(job.dir, MaxDepth - job.depth)
            BY <1>8, <2>2, <3>2
        <3> QED
            BY <1>5, <2>2, <3>1, <3>3, WithinDeeper
    <2>4. QueueInside(more.queue, s.paths)
        <3> SUFFICES ASSUME NEW i \in 1..Len(more.queue), more.queue[i].depth <= MaxDepth
                     PROVE  Within(more.queue[i].dir, MaxDepth - more.queue[i].depth) \subseteq Under(s.paths)
            BY DEF QueueInside
        <3>1. CASE i \in 1..Len(s.queue)
            BY <1>11, <1>12, <1>13, <3>1 DEF QueueInside
        <3>2. CASE i = Len(s.queue) + 1
            BY <1>11, <1>12, <2>3, <3>2
        <3> QED
            BY <1>4, <1>11, <1>12, <3>1, <3>2
    <2>5. \A e : Queued(s.queue, e) => Queued(more.queue, e)
        <3>1. \A i \in 1..Len(s.queue) : i \in 1..Len(more.queue) /\ more.queue[i] = s.queue[i]
            BY <1>4, <1>11, <1>12
        <3> QED
            BY <3>1 DEF Queued
    <2>6. ASSUME NEW e, InHand(job, e) PROVE Queued(more.queue, e) \/ InHand(j, e)
        <3>1. PICK i \in 1..Len(ahead) : e \in Within(ahead[i], MaxDepth - job.depth - 1)
            BY <1>1, <2>6 DEF InHand
        <3>2. job.depth < MaxDepth
            BY <1>1, <2>6 DEF InHand
        <3>3. CASE i = 1
            <4>1. next.depth <= MaxDepth /\ MaxDepth - next.depth = MaxDepth - job.depth - 1
                BY <1>3, <1>5, <1>8, <3>2
            <4>2. Len(s.queue) + 1 \in 1..Len(more.queue) /\ more.queue[Len(s.queue) + 1] = next
                BY <1>4, <1>11, <1>12
            <4> QED
                BY <1>8, <3>1, <3>3, <4>1, <4>2 DEF Queued
        <3>4. CASE i # 1
            BY <1>6, <1>7, <3>1, <3>2, <3>4 DEF InHand
        <3> QED
            BY <3>3, <3>4
    <2>7. ScanRight(more)
        BY <1>2, <1>4, <1>7, <1>12, <1>13, <1>15, <1>18, <2>1, <2>4, <2>5, <2>6, TurnKeeps
    <2> QED
        BY <1>1, <1>12, <1>18, <2>7, ScanGoesOn DEF s
<1> QED
    BY <1>16, <1>17, <1>18

\* A scan that was not cut short ends with nothing more to be met.
LEMMA EndScanKeeps ==
    ASSUME SearchInv, ~crashed, NEW x \in Searchers, EndScan(x)
    PROVE  SearchInv'
<1> DEFINE s == search[x]
           t == [s EXCEPT !.at = "save"]
<1>1. Scan(x, t) /\ s.at = "scan" /\ ~crashed' /\ s.closed
    BY DEF EndScan, Scan
<1>2. s \in SearchShape /\ ScanRight(s)
    BY <1>1, AtScan
<1>3. t \in SearchShape /\ t.at = "save" /\ t.cut = s.cut /\ t.had = s.had /\ t.found = s.found
      /\ t.paths = s.paths
    BY <1>2 DEF SearchShape
<1>4. s.found \subseteq Under(s.paths)
    BY <1>2 DEF ScanRight
<1>5. s.cut \/ s.had \subseteq s.found
    <2> SUFFICES ASSUME ~s.cut, NEW e \in s.had \ s.found PROVE FALSE
        OBVIOUS
    <2>1. Len(s.queue) = 0 /\ Busy(s.worker) = {}
        BY <1>1, <1>2 DEF ScanRight, ClosedIsOver
    <2>2. ~Queued(s.queue, e)
        BY <2>1 DEF Queued
    <2>3. \A v \in ScanWorkers : ~InHand(s.worker[v], e)
        <3>1. \A v \in ScanWorkers : s.worker[v].at \notin Hands
            BY <2>1 DEF Busy, Those
        <3> QED
            BY <3>1 DEF InHand, Hands
    <2>4. ToBeMet(s.queue, s.worker, e)
        BY <1>2 DEF ScanRight
    <2> QED
        BY <2>2, <2>3, <2>4 DEF ToBeMet
<1> HIDE DEF t
<1>6. SearchRight(t)
    BY <1>3, <1>4, <1>5 DEF SearchRight
<1> QED
    BY <1>1, <1>3, <1>6, SearchGoesOn DEF Scan, SearchInv

\* A scan begins with its search paths to be met.
LEMMA SeedQueueKeeps ==
    ASSUME SearchInv, ~crashed, NEW x \in Searchers, SeedQueue(x)
    PROVE  SearchInv'
<1> DEFINE s == search[x]
           n == Cardinality(s.paths)
<1>1. PICK order \in [1..n -> s.paths] :
         /\ \A p \in s.paths : \E i \in 1..n : order[i] = p
         /\ search' = [search EXCEPT ![x].at = "scan", ![x].inFlight = n,
                                     ![x].queue = [i \in 1..n |-> [dir |-> order[i], depth |-> 0]],
                                     ![x].had = repositories \cap Under(s.paths)]
    BY DEF SeedQueue
<1> DEFINE q == [i \in 1..n |-> [dir |-> order[i], depth |-> 0]]
           t == [s EXCEPT !.at = "scan", !.inFlight = n, !.queue = q,
                          !.had = repositories \cap Under(s.paths)]
<1>2. s \in SearchShape /\ SearchRight(s) /\ s.at = "seed" /\ ~crashed' /\ repositories \subseteq Directories
      /\ UNCHANGED <<repositories, cacheFile, tmpFile, refreshing>>
    BY DEF SeedQueue, SearchInv
<1>3. search' = [search EXCEPT ![x] = t]
    BY <1>1 DEF SearchInv
<1>4. s.paths \subseteq Directories /\ n \in Nat /\ MaxDepth \in Nat
    <2>1. IsFiniteSet(Directories)
        <3>1. 1 \in Int /\ MaxDirectory \in Int
            BY DiscoveryAssumption
        <3> QED
            BY <3>1, FS_Interval DEF Directories
    <2>2. s.paths \subseteq Directories
        BY <1>2 DEF SearchShape
    <2> QED
        BY <2>1, <2>2, FS_Subset, FS_CardinalityType, DiscoveryAssumption
<1> HIDE DEF n
<1>5. /\ q \in Seq(JobShape) /\ Len(q) = n
      /\ \A i \in 1..n : q[i].dir = order[i] /\ q[i].depth = 0 /\ order[i] \in s.paths
    <2>1. \A i \in 1..n : [dir |-> order[i], depth |-> 0] \in JobShape
        BY <1>4 DEF JobShape
    <2>2. q \in [1..n -> JobShape]
        BY <2>1
    <2> QED
        BY <1>4, <2>2
<1> HIDE DEF q
<1>6. /\ t \in SearchShape /\ t.at = "scan" /\ t.inFlight = n /\ t.queue = q /\ t.paths = s.paths
      /\ t.had = repositories \cap Under(s.paths) /\ t.found = s.found /\ t.worker = s.worker
      /\ t.late = s.late /\ t.closed = s.closed
    <2> DEFINE h == repositories \cap Under(s.paths)
    <2>1. h \in SUBSET Directories /\ n \in Int
        BY <1>2, <1>4
    <2> HIDE DEF h, s
    <2>2. /\ [s EXCEPT !.at = "scan", !.inFlight = n, !.queue = q, !.had = h] \in SearchShape
          /\ s.at = "seed"
        BY <1>2, <1>5, <2>1 DEF SearchShape
    <2>3. t = [s EXCEPT !.at = "scan", !.inFlight = n, !.queue = q, !.had = h]
        BY DEF h
    <2>4. /\ t.at = "scan" /\ t.inFlight = n /\ t.queue = q /\ t.paths = s.paths
          /\ t.had = h /\ t.found = s.found /\ t.worker = s.worker
          /\ t.late = s.late /\ t.closed = s.closed
        BY <1>2, <2>3 DEF SearchShape
    <2> HIDE DEF t
    <2> QED
        BY <2>2, <2>3, <2>4 DEF h
<1> HIDE DEF t
<1>7. s.worker = NoSearch.worker /\ s.found = {} /\ ~s.late /\ ~s.closed
    BY <1>2 DEF SearchRight
<1>8. \A w \in ScanWorkers : s.worker[w].at = "free"
    BY <1>7 DEF NoSearch, NoJob
<1>9. Busy(t.worker) = {} /\ Sending(t.worker) = {}
    BY <1>6, <1>8 DEF Busy, Sending, Those, Hands, Sends
<1> HIDE DEF s
<1>10. Counted(t)
    <2>1. Cardinality({}) = 0
        BY FS_EmptySet
    <2> QED
        BY <1>4, <1>5, <1>6, <1>9, <2>1 DEF Counted
<1>11. \A e : e \in Under(s.paths) <=> \E p \in s.paths : e \in Within(p, MaxDepth)
    BY <1>4, UnderPaths
<1>12. MaxDepth - 0 = MaxDepth /\ 0 <= MaxDepth
    BY <1>4
<1>13. QueueInside(t.queue, t.paths)
    BY <1>5, <1>6, <1>11, <1>12 DEF QueueInside
<1>14. \A e \in t.had : Queued(t.queue, e)
    <2> SUFFICES ASSUME NEW e \in t.had PROVE Queued(t.queue, e)
        OBVIOUS
    <2>1. PICK p \in s.paths : e \in Within(p, MaxDepth)
        BY <1>6, <1>11
    <2>2. PICK i \in 1..n : order[i] = p
        BY <1>1
    <2>3. i \in 1..Len(q) /\ q[i].dir = p /\ q[i].depth = 0
        BY <1>5, <2>2
    <2> QED
        BY <1>6, <1>12, <2>1, <2>3 DEF Queued
<1>15. ScanRight(t)
    BY <1>6, <1>7, <1>9, <1>10, <1>13, <1>14 DEF ScanRight, ClosedIsOver, ToBeMet
<1>16. SearchRight(t) /\ t.had \subseteq repositories
    BY <1>6, <1>15 DEF SearchRight
<1> QED
    BY <1>2, <1>3, <1>16, SearchGoesOn DEF SearchInv

\* A request begins with nothing found.
LEMMA AskKeeps ==
    ASSUME SearchInv, ~crashed, NEW x \in Searchers, NEW op \in {"discover", "fresh"},
           NEW paths \in PathSets, Ask(x, op, paths)
    PROVE  SearchInv'
<1> DEFINE a == IF op = "fresh" THEN "seed" ELSE "load"
           t == [NoSearch EXCEPT !.at = a, !.op = op, !.paths = paths]
<1>1. search' = [search EXCEPT ![x] = t] /\ UNCHANGED <<repositories, cacheFile, tmpFile, refreshing, crashed>>
    BY DEF Ask
<1>2. a \in {"seed", "load"} /\ paths \in SUBSET Directories
    BY DiscoveryAssumption DEF Directories
<1> HIDE DEF a
<1>3. /\ t \in SearchShape /\ t.at = a /\ t.worker = NoSearch.worker /\ t.queue = <<>> /\ t.found = {}
      /\ ~t.closed /\ ~t.late /\ ~t.cut
    <2>1. /\ NoSearch \in SearchShape /\ NoSearch.queue = <<>> /\ NoSearch.found = {}
          /\ ~NoSearch.closed /\ ~NoSearch.late /\ ~NoSearch.cut
        BY NoSearchRight DEF NoSearch
    <2> QED
        BY <1>2, <2>1 DEF SearchShape
<1> HIDE DEF t
<1>4. SearchRight(t) /\ t.at # "scan"
    BY <1>2, <1>3 DEF SearchRight
<1> QED
    BY <1>1, <1>4, SearchGoesOn DEF SearchInv

\* Where a file is written to is nothing to the search.
LEMMA RightElsewhere ==
    ASSUME NEW s, SearchRight(s), NEW v \in {"none", "tmp", "cache", "lost"}
    PROVE  LET t == [s EXCEPT !.fd = v] IN SearchRight(t) /\ t.at = s.at /\ t.had = s.had /\ t.late = s.late
<1> DEFINE t == [s EXCEPT !.fd = v]
<1>1. s \in SearchShape
    BY DEF SearchRight
<1>2. /\ t \in SearchShape /\ t.at = s.at /\ t.worker = s.worker /\ t.queue = s.queue /\ t.found = s.found
      /\ t.closed = s.closed /\ t.late = s.late /\ t.cut = s.cut /\ t.had = s.had /\ t.paths = s.paths
      /\ t.cached = s.cached /\ t.promise = s.promise /\ t.inFlight = s.inFlight
    BY <1>1 DEF SearchShape
<1> HIDE DEF t
<1>3. ScanRight(s) => ScanRight(t)
    BY <1>2 DEF ScanRight, Counted, ClosedIsOver
<1>4. SearchRight(t)
    BY <1>2, <1>3 DEF SearchRight
<1> QED
    BY <1>2, <1>4 DEF t

\* The cache is forgotten, and its writer goes on writing to nothing.
LEMMA InvalidateCacheKeeps == ASSUME SearchInv, ~crashed, InvalidateCache PROVE SearchInv'
<1>1. /\ search' = Unnamed(search, "cache") /\ cacheFile' = NoCache
      /\ UNCHANGED <<repositories, tmpFile, refreshing, crashed>>
    BY DEF InvalidateCache
<1>2. ASSUME NEW y \in Searchers
      PROVE  /\ SearchRight(search'[y]) /\ search'[y] \in SearchShape
             /\ search'[y].at = "scan" => search'[y].had \subseteq repositories
    <2>1. SearchRight(search[y]) /\ (search[y].at = "scan" => search[y].had \subseteq repositories)
        BY DEF SearchInv
    <2>2. search'[y] = search[y] \/ search'[y] = [search[y] EXCEPT !.fd = "lost"]
        BY <1>1 DEF Unnamed
    <2>3. CASE search'[y] = search[y]
        BY <2>1, <2>3 DEF SearchRight
    <2>4. CASE search'[y] = [search[y] EXCEPT !.fd = "lost"]
        <3>1. SearchRight(search'[y]) /\ search'[y].at = search[y].at /\ search'[y].had = search[y].had
            BY <2>1, <2>4, RightElsewhere
        <3> QED
            BY <2>1, <3>1 DEF SearchRight
    <2> QED
        BY <2>2, <2>3, <2>4
<1>3. search' \in [Searchers -> SearchShape]
    BY <1>1, <1>2 DEF Unnamed
<1> QED
    BY <1>1, <1>2, <1>3, NoFileRight DEF SearchInv, OnlyLateScansCrash

\* The saving of what was found, and the answer after it.
LEMMA SavesOn ==
    ASSUME NEW s, SearchRight(s), s.at \in {"save", "write", "rename", "end"},
           NEW t \in SearchShape, t.at \in {"write", "rename", "end", "answer"},
           t.found = s.found, t.cut = s.cut, t.had = s.had, t.paths = s.paths
    PROVE  SearchRight(t) /\ t.at # "scan"
<1>1. s.found \subseteq Under(s.paths) /\ (s.cut \/ s.had \subseteq s.found)
    BY DEF SearchRight
<1> QED
    BY <1>1 DEF SearchRight

\* A scan that begins has nothing yet.
LEMMA SeedsOn ==
    ASSUME NEW s, SearchRight(s), s.at \in {"load", "begin"}
    PROVE  SearchRight([s EXCEPT !.at = "seed"]) /\ [s EXCEPT !.at = "seed"].at = "seed"
<1> DEFINE t == [s EXCEPT !.at = "seed"]
<1>1. s \in SearchShape
    BY DEF SearchRight
<1>2. /\ t \in SearchShape /\ t.at = "seed" /\ t.worker = s.worker /\ t.queue = s.queue
      /\ t.found = s.found /\ t.closed = s.closed /\ t.late = s.late /\ t.cut = s.cut
    BY <1>1 DEF SearchShape
<1> HIDE DEF t
<1>3. SearchRight(t)
    BY <1>2 DEF SearchRight
<1> QED
    BY <1>2, <1>3 DEF t

\* An answer from a file is what one scan found.
LEMMA AnswerRight ==
    ASSUME NEW s \in SearchShape, NEW f, FileRight(f), f.state = "written", NEW p \in BOOLEAN,
           p \/ f.paths = s.paths
    PROVE  LET t == [s EXCEPT !.at = "answer", !.found = f.repos, !.had = f.had, !.cut = f.cut,
                              !.cached = TRUE, !.promise = p]
           IN  SearchRight(t) /\ t.at = "answer"
<1> DEFINE t == [s EXCEPT !.at = "answer", !.found = f.repos, !.had = f.had, !.cut = f.cut,
                          !.cached = TRUE, !.promise = p]
<1>1. /\ f.repos \in SUBSET Directories /\ f.had \in SUBSET Directories /\ f.cut \in BOOLEAN
      /\ f.cut \/ f.had \subseteq f.repos
      /\ f.repos \subseteq Under(f.paths)
    BY DEF FileRight, FileShape
<1>2. /\ t \in SearchShape /\ t.at = "answer" /\ t.found = f.repos /\ t.had = f.had /\ t.cut = f.cut
      /\ t.promise = p /\ t.paths = s.paths
    BY <1>1 DEF SearchShape
<1> HIDE DEF t
<1>3. SearchRight(t)
    BY <1>1, <1>2 DEF SearchRight
<1> QED
    BY <1>2, <1>3 DEF t

\* A request is answered from the cache, or begins to scan.
LEMMA DiscoverKeeps ==
    ASSUME SearchInv, ~crashed, NEW x \in Searchers, Discover(x)
    PROVE  SearchInv'
<1> DEFINE s == search[x]
           f == cacheFile
           answered == [s EXCEPT !.at = "answer", !.found = f.repos, !.had = f.had, !.cut = f.cut, !.cached = TRUE]
           Answer(p) == [s EXCEPT !.at = "answer", !.found = f.repos, !.had = f.had, !.cut = f.cut,
                                  !.cached = TRUE, !.promise = p]
           begun == [NoSearch EXCEPT !.at = "begin", !.op = "refresh", !.paths = s.paths]
<1>1. /\ UNCHANGED <<repositories, cacheFile, tmpFile, refreshing, crashed>> /\ s.at = "load"
      /\ refreshing \in BOOLEAN /\ FileRight(f) /\ FileRight(tmpFile) /\ s \in SearchShape
      /\ SearchRight(s)
    BY DEF Discover, SearchInv
<1>2. \A p : [answered EXCEPT !.promise = p] = Answer(p)
    BY <1>1 DEF SearchShape
<1>3. CASE /\ f.state = "written" /\ f.fresh /\ f.paths = s.paths
           /\ search' = [search EXCEPT ![x] = [answered EXCEPT !.promise = refreshing]]
    <2>1. search' = [search EXCEPT ![x] = Answer(refreshing)]
        BY <1>2, <1>3
    <2>2. SearchRight(Answer(refreshing)) /\ Answer(refreshing).at = "answer"
        BY <1>1, <1>3, AnswerRight
    <2> HIDE DEF Answer
    <2> QED
        BY <1>1, <2>1, <2>2, SearchGoesOn
<1>4. CASE /\ f.state = "written"
           /\ \E r \in Refreshers :
                 /\ search[r].at = "idle"
                 /\ search' = [search EXCEPT ![x] = [answered EXCEPT !.promise = TRUE],
                                             ![r] = IF refreshing THEN @ ELSE begun]
    <2>1. PICK r \in Refreshers :
                 /\ search[r].at = "idle"
                 /\ search' = [search EXCEPT ![x] = [answered EXCEPT !.promise = TRUE],
                                             ![r] = IF refreshing THEN @ ELSE begun]
        BY <1>4
    <2>2. r \in Searchers /\ r # x
        BY <1>1, <2>1 DEF Searchers
    <2>3. SearchRight(Answer(TRUE)) /\ Answer(TRUE).at = "answer"
        BY <1>1, <1>4, AnswerRight
    <2>4. SearchRight(begun) /\ begun.at = "begin"
        <3>1. s.paths \in SUBSET Directories
            BY <1>1 DEF SearchShape
        <3> HIDE DEF s
        <3>2. /\ NoSearch \in SearchShape /\ NoSearch.queue = <<>> /\ NoSearch.found = {}
              /\ ~NoSearch.closed /\ ~NoSearch.late /\ ~NoSearch.cut
            BY NoSearchRight DEF NoSearch
        <3>3. /\ begun \in SearchShape /\ begun.at = "begin" /\ begun.worker = NoSearch.worker
              /\ begun.queue = <<>> /\ begun.found = {} /\ ~begun.closed /\ ~begun.late /\ ~begun.cut
            BY <3>1, <3>2 DEF SearchShape
        <3> HIDE DEF begun
        <3> QED
            BY <3>3 DEF SearchRight
    <2>5. /\ search'[x] = Answer(TRUE)
          /\ search'[r] = search[r] \/ search'[r] = begun
          /\ \A y \in Searchers : y # x /\ y # r => search'[y] = search[y]
          /\ search' \in [Searchers -> {search'[y] : y \in Searchers}]
        <3>1. search \in [Searchers -> SearchShape]
            BY DEF SearchInv
        <3> HIDE DEF s, Answer, answered, begun
        <3> QED
            BY <1>2, <2>1, <2>2, <3>1
    <2> HIDE DEF Answer, begun
    <2>6. \A y \in Searchers : /\ SearchRight(search'[y])
                               /\ search'[y].at = "scan" => search'[y].had \subseteq repositories
        BY <2>2, <2>3, <2>4, <2>5 DEF SearchInv
    <2>7. search' \in [Searchers -> SearchShape]
        BY <2>5, <2>6 DEF SearchRight
    <2> QED
        BY <1>1, <2>6, <2>7 DEF SearchInv, OnlyLateScansCrash
<1>5. CASE search' = [search EXCEPT ![x].at = "seed"]
    <2>1. search' = [search EXCEPT ![x] = [s EXCEPT !.at = "seed"]]
        BY <1>5
    <2> QED
        BY <1>1, <2>1, SeedsOn, SearchGoesOn
<1> QED
    BY <1>3, <1>4, <1>5 DEF Discover

\* A refresh begins, or goes away.
LEMMA BackgroundRefreshKeeps ==
    ASSUME SearchInv, ~crashed, NEW x \in Searchers, BackgroundRefresh(x)
    PROVE  SearchInv'
<1> DEFINE s == search[x]
           t == [s EXCEPT !.at = "seed"]
<1>1. /\ UNCHANGED <<repositories, cacheFile, tmpFile, crashed>> /\ s.at = "begin" /\ refreshing' \in BOOLEAN
      /\ FileRight(cacheFile) /\ FileRight(tmpFile) /\ SearchRight(s)
    BY DEF BackgroundRefresh, SearchInv
<1>2. SearchRight(t) /\ t.at = "seed"
    BY <1>1, SeedsOn
<1>3. search' = [search EXCEPT ![x] = NoSearch] \/ search' = [search EXCEPT ![x] = t]
    BY DEF BackgroundRefresh
<1> HIDE DEF t
<1>4. CASE search' = [search EXCEPT ![x] = NoSearch]
    BY <1>1, <1>4, NoSearchRight, SearchGoesOn
<1>5. CASE search' = [search EXCEPT ![x] = t]
    BY <1>1, <1>2, <1>5, SearchGoesOn
<1> QED
    BY <1>3, <1>4, <1>5

\* The temporary file is opened.
LEMMA OpenTmpKeeps ==
    ASSUME SearchInv, ~crashed, NEW x \in Searchers, OpenTmp(x)
    PROVE  SearchInv'
<1> DEFINE s == search[x]
           t == [s EXCEPT !.at = "write", !.fd = "tmp"]
<1>1. /\ UNCHANGED <<repositories, cacheFile, refreshing, crashed>> /\ s.at = "save" /\ refreshing \in BOOLEAN
      /\ FileRight(cacheFile) /\ tmpFile' = Torn /\ SearchRight(s) /\ s \in SearchShape
      /\ search' = [search EXCEPT ![x].at = "write", ![x].fd = "tmp"]
    BY DEF OpenTmp, SearchInv
<1>2. SearchRight(t) /\ t.at = "write"
    <2>1. /\ t \in SearchShape /\ t.at = "write" /\ t.found = s.found /\ t.cut = s.cut /\ t.had = s.had
          /\ t.paths = s.paths
        BY <1>1 DEF SearchShape
    <2> HIDE DEF t, s
    <2> QED
        BY <1>1, <2>1, SavesOn
<1>3. search' = [search EXCEPT ![x] = t]
    BY <1>1 DEF SearchInv
<1> HIDE DEF t
<1> QED
    BY <1>1, <1>2, <1>3, NoFileRight, SearchGoesOn

\* What is written is what the scan found.
LEMMA WriteTmpKeeps ==
    ASSUME SearchInv, ~crashed, NEW x \in Searchers, WriteTmp(x)
    PROVE  SearchInv'
<1> DEFINE s == search[x]
           t == [s EXCEPT !.at = "rename", !.fd = "none"]
<1>1. /\ UNCHANGED <<repositories, refreshing, crashed>> /\ s.at = "write" /\ refreshing \in BOOLEAN
      /\ FileRight(cacheFile) /\ FileRight(tmpFile) /\ SearchRight(s) /\ s \in SearchShape
      /\ search' = [search EXCEPT ![x].at = "rename", ![x].fd = "none"]
    BY DEF WriteTmp, SearchInv
<1>2. SearchRight(t) /\ t.at = "rename"
    <2>1. /\ t \in SearchShape /\ t.at = "rename" /\ t.found = s.found /\ t.cut = s.cut /\ t.had = s.had
          /\ t.paths = s.paths
        BY <1>1 DEF SearchShape
    <2> HIDE DEF t, s
    <2> QED
        BY <1>1, <2>1, SavesOn
<1>3. search' = [search EXCEPT ![x] = t]
    BY <1>1 DEF SearchInv
<1>4. FileRight(Result(x))
    <2>1. s.found \subseteq Under(s.paths) /\ (s.cut \/ s.had \subseteq s.found)
        BY <1>1 DEF SearchRight
    <2>2. Result(x) \in FileShape
        BY <1>1 DEF Result, FileShape, SearchShape
    <2> QED
        BY <2>1, <2>2 DEF FileRight, Result
<1>5. FileRight(cacheFile') /\ FileRight(tmpFile')
    <2>1. cacheFile' \in {cacheFile, Result(x), Torn} /\ tmpFile' \in {tmpFile, Result(x), Torn}
        BY DEF WriteTmp
    <2> QED
        BY <1>1, <1>4, <2>1, NoFileRight
<1> HIDE DEF t
<1> QED
    BY <1>1, <1>2, <1>3, <1>5, SearchGoesOn

\* The temporary file becomes the cache, whoever is writing to it.
LEMMA RenameTmpKeeps ==
    ASSUME SearchInv, ~crashed, NEW x \in Searchers, RenameTmp(x)
    PROVE  SearchInv'
<1> DEFINE s == search[x]
           t == [s EXCEPT !.at = "end"]
<1>1. /\ UNCHANGED <<repositories, refreshing, crashed>> /\ s.at = "rename" /\ refreshing \in BOOLEAN
      /\ FileRight(cacheFile) /\ FileRight(tmpFile) /\ SearchRight(s) /\ s \in SearchShape
    BY DEF RenameTmp, SearchInv
<1>2. SearchRight(t) /\ t.at = "end" /\ t \in SearchShape
    <2>1. /\ t \in SearchShape /\ t.at = "end" /\ t.found = s.found /\ t.cut = s.cut /\ t.had = s.had
          /\ t.paths = s.paths
        BY <1>1 DEF SearchShape
    <2> HIDE DEF t, s
    <2> QED
        BY <1>1, <2>1, SavesOn
<1>3. CASE tmpFile.state = "none"
    <2>1. search' = [search EXCEPT ![x] = t] /\ UNCHANGED <<cacheFile, tmpFile>>
        BY <1>3 DEF RenameTmp, SearchInv
    <2> HIDE DEF t
    <2> QED
        BY <1>1, <1>2, <2>1, SearchGoesOn
<1>4. CASE tmpFile.state # "none"
    <2>1. /\ cacheFile' = tmpFile /\ tmpFile' = NoCache
          /\ search' = [y \in Searchers |->
                   IF y = x THEN t
                   ELSE IF search[y].fd = "tmp" THEN [search[y] EXCEPT !.fd = "cache"]
                   ELSE Unnamed(search, "cache")[y]]
        BY <1>4 DEF RenameTmp
    <2> HIDE DEF t
    <2>2. ASSUME NEW y \in Searchers
          PROVE  /\ SearchRight(search'[y]) /\ search'[y] \in SearchShape
                 /\ search'[y].at = "scan" => search'[y].had \subseteq repositories
        <3>1. SearchRight(search[y]) /\ (search[y].at = "scan" => search[y].had \subseteq repositories)
            BY DEF SearchInv
        <3>2. /\ y = x => search'[y] = t
              /\ y # x => \/ search'[y] = search[y]
                          \/ search'[y] = [search[y] EXCEPT !.fd = "cache"]
                          \/ search'[y] = [search[y] EXCEPT !.fd = "lost"]
            BY <2>1 DEF Unnamed
        <3>3. CASE y = x
            BY <1>2, <3>2, <3>3
        <3>4. CASE search'[y] = search[y]
            BY <3>1, <3>4 DEF SearchRight
        <3>5. CASE search'[y] = [search[y] EXCEPT !.fd = "cache"] \/ search'[y] = [search[y] EXCEPT !.fd = "lost"]
            <4>1. SearchRight(search'[y]) /\ search'[y].at = search[y].at /\ search'[y].had = search[y].had
                BY <3>1, <3>5, RightElsewhere
            <4> QED
                BY <3>1, <4>1 DEF SearchRight
        <3> QED
            BY <3>2, <3>3, <3>4, <3>5
    <2>3. search' \in [Searchers -> SearchShape]
        BY <2>1, <2>2
    <2> QED
        BY <1>1, <2>1, <2>2, <2>3, NoFileRight DEF SearchInv, OnlyLateScansCrash
<1> QED
    BY <1>3, <1>4

\* A search ends, and is answered.
LEMMA EndSearchKeeps ==
    ASSUME SearchInv, ~crashed, NEW x \in Searchers, EndSearch(x)
    PROVE  SearchInv'
<1> DEFINE s == search[x]
           t == [s EXCEPT !.at = "answer"]
<1>1. /\ UNCHANGED <<repositories, cacheFile, tmpFile, crashed>> /\ s.at = "end" /\ refreshing' \in BOOLEAN
      /\ FileRight(cacheFile) /\ FileRight(tmpFile) /\ SearchRight(s) /\ s \in SearchShape
    BY DEF EndSearch, SearchInv
<1>2. SearchRight(t) /\ t.at = "answer"
    <2>1. /\ t \in SearchShape /\ t.at = "answer" /\ t.found = s.found /\ t.cut = s.cut /\ t.had = s.had
          /\ t.paths = s.paths
        BY <1>1 DEF SearchShape
    <2> HIDE DEF t, s
    <2> QED
        BY <1>1, <2>1, SavesOn
<1>3. search' = [search EXCEPT ![x] = NoSearch] \/ search' = [search EXCEPT ![x] = t]
    BY DEF EndSearch
<1> HIDE DEF t
<1>4. CASE search' = [search EXCEPT ![x] = NoSearch]
    BY <1>1, <1>4, NoSearchRight, SearchGoesOn
<1>5. CASE search' = [search EXCEPT ![x] = t]
    BY <1>1, <1>2, <1>5, SearchGoesOn
<1> QED
    BY <1>3, <1>4, <1>5

\* The answer is sent.
LEMMA ReplyKeeps ==
    ASSUME SearchInv, ~crashed, NEW x \in Searchers, Reply(x)
    PROVE  SearchInv'
<1>1. /\ UNCHANGED <<repositories, cacheFile, tmpFile, refreshing, crashed>>
      /\ search' = [search EXCEPT ![x] = NoSearch]
    BY DEF Reply
<1> QED
    BY <1>1, NoSearchRight, SearchGoesOn DEF SearchInv

\* A repository appears.
LEMMA CloneKeeps == ASSUME SearchInv, NEW d \in Directories, Clone(d) PROVE SearchInv'
<1>1. /\ repositories' = repositories \cup {d}
      /\ UNCHANGED <<cacheFile, tmpFile, search, refreshing, crashed>>
    BY DEF Clone
<1> QED
    BY <1>1 DEF SearchInv, OnlyLateScansCrash

\* The cache grows old.
LEMMA CacheExpiresKeeps == ASSUME SearchInv, CacheExpires PROVE SearchInv'
<1>1. /\ cacheFile' = [cacheFile EXCEPT !.fresh = FALSE]
      /\ UNCHANGED <<repositories, tmpFile, search, refreshing, crashed>>
    BY DEF CacheExpires
<1>2. FileRight(cacheFile')
    BY <1>1 DEF SearchInv, FileRight, FileShape
<1> QED
    BY <1>1, <1>2 DEF SearchInv, OnlyLateScansCrash

\* A step of one search.
LEMMA SearchStepKeeps ==
    ASSUME SearchInv, ~crashed, NEW x \in Searchers, SearchStep(x)
    PROVE  SearchInv'
<1>1. CASE \E w \in ScanWorkers :
              \/ TakeJob(x, w) \/ ReadDirectory(x, w) \/ CheckClosed(x, w) \/ SendJob(x, w)
              \/ FinishDirectory(x, w) \/ WorkerEnds(x, w)
    BY <1>1, TakeJobKeeps, ReadDirectoryKeeps, CheckClosedKeeps, SendJobKeeps, FinishDirectoryKeeps,
       WorkerEndsKeeps
<1>2. CASE Discover(x)
    BY <1>2, DiscoverKeeps
<1>3. CASE BackgroundRefresh(x)
    BY <1>3, BackgroundRefreshKeeps
<1>4. CASE SeedQueue(x)
    BY <1>4, SeedQueueKeeps
<1>5. CASE CloserLooks(x)
    BY <1>5, CloserLooksKeeps
<1>6. CASE CloserCounts(x)
    BY <1>6, CloserCountsKeeps
<1>7. CASE EndScan(x)
    BY <1>7, EndScanKeeps
<1>8. CASE OpenTmp(x)
    BY <1>8, OpenTmpKeeps
<1>9. CASE WriteTmp(x)
    BY <1>9, WriteTmpKeeps
<1>10. CASE RenameTmp(x)
    BY <1>10, RenameTmpKeeps
<1>11. CASE EndSearch(x)
    BY <1>11, EndSearchKeeps
<1>12. CASE Reply(x)
    BY <1>12, ReplyKeeps
<1> QED
    BY <1>1, <1>2, <1>3, <1>4, <1>5, <1>6, <1>7, <1>8, <1>9, <1>10, <1>11, <1>12 DEF SearchStep

\* Every step keeps the invariant.
LEMMA SearchStaysRight == SearchInv /\ [DiscoveryNext]_discoveryVars => SearchInv'
<1> SUFFICES ASSUME SearchInv, [DiscoveryNext]_discoveryVars PROVE SearchInv'
    OBVIOUS
<1>1. CASE UNCHANGED discoveryVars
    BY <1>1 DEF discoveryVars, SearchInv, OnlyLateScansCrash
<1>2. CASE ~crashed /\ \E d \in Directories : Clone(d)
    BY <1>2, CloneKeeps
<1>3. CASE ~crashed /\ CacheExpires
    BY <1>3, CacheExpiresKeeps
<1>4. CASE ~crashed /\ InvalidateCache
    BY <1>4, InvalidateCacheKeeps
<1>5. CASE ~crashed /\ \E x \in Seekers, paths \in PathSets :
                          WorkspaceDiscover(x, paths) \/ HandleDiscoverWorkspaces(x, paths)
    <2>1. PICK x \in Seekers : \E paths \in PathSets :
                          WorkspaceDiscover(x, paths) \/ HandleDiscoverWorkspaces(x, paths)
        BY <1>5
    <2>2. PICK paths \in PathSets : WorkspaceDiscover(x, paths) \/ HandleDiscoverWorkspaces(x, paths)
        BY <2>1
    <2>3. Ask(x, "discover", paths) \/ Ask(x, "fresh", paths)
        BY <2>2 DEF WorkspaceDiscover, HandleDiscoverWorkspaces, DiscoverRepositories, DiscoverRepositoriesFresh,
           DiscoverRepositoriesWithResult
    <2>4. x \in Searchers
        BY DEF Searchers
    <2> QED
        BY <1>5, <2>3, <2>4, AskKeeps
<1>6. CASE ~crashed /\ \E x \in Searchers : SearchStep(x) \/ ScanTimeout(x)
    BY <1>6, SearchStepKeeps, ScanTimeoutKeeps
<1> QED
    BY <1>1, <1>2, <1>3, <1>4, <1>5, <1>6 DEF DiscoveryNext

\* The searches, the cache and the temporary file stay as SearchInv says, for any
\* tree of directories and any number of requests, refreshes and workers.
THEOREM SearchInvariance == DiscoverySpec => []SearchInv
<1>1. DiscoveryInit => SearchInv
    BY SearchBegins
<1>2. SearchInv /\ [DiscoveryNext]_discoveryVars => SearchInv'
    BY SearchStaysRight
<1> QED
    BY <1>1, <1>2, PTL DEF DiscoverySpec

\* A scan that was not cut short has found every repository that was there when it
\* began, only a late scan sends on the closed channel, and an answer from the
\* cache is for the paths that were asked for (RepoDiscovery.parallelScan,
\* DiscoverRepositoriesWithResult).
THEOREM DiscoveryAlwaysHolds == DiscoverySpec => []DiscoveryHolds
<1>1. SearchInv => DiscoveryHolds
    BY SearchesAreRight
<1> QED
    BY <1>1, SearchInvariance, PTL
=============================================================================
