------------------------------ MODULE MCServer ------------------------------
(***************************************************************************)
(* What the server keeps for its clients: their subscriptions to events    *)
(* and their workspaces.  The two share no state: each behaviour is of one *)
(* of them, and the other stays as it is.                                  *)
(*                                                                         *)
(* The hub has two clients, of which one may fail while the other is       *)
(* served.  One of them may ask for a workspace that the events are not    *)
(* about; the other is not filtered.  A write of workspaces.yaml fails, or *)
(* the program restarts, once.  The workspaces are alike, and so are their *)
(* callers: w1 is drawn first, and c1 calls while nobody else does.  One   *)
(* workspace at a time has a session.                                      *)
(***************************************************************************)
EXTENDS EventHub, Workspaces

CONSTANTS c1, c2, w1, w2

VARIABLE part

HubNext ==
    \/ Publish(w2)
    \/ ChangeFilter(c1, w1)
    \/ \E c \in Client :
          \/ Accept(c) \/ JoinGivesUp(c) \/ Disconnect(c) \/ PartGivesUp(c)
          \/ PumpWrites(c)
    \/ LoopStep
    \/ ServerStops \/ StopStep

MCInit == Init /\ WorkspacesInit /\ part \in {"hub", "workspaces"}

MCNext ==
    /\ UNCHANGED part
    /\ \/ part = "hub" /\ HubNext /\ UNCHANGED workspaceVars
       \/ part = "workspaces" /\ WorkspacesNext /\ UNCHANGED vars
    /\ w2 \in used' => w1 \in used'
    /\ ~(Workspaces \subseteq sessions')
    /\ call'[c2] # Idle => call[c2] # Idle \/ call[c1] # Idle
    /\ fails' + restarts' <= 1

\* As in the modules; the part that a behaviour is not of owes it nothing.
Hub(A) == part = "hub" /\ A
Registry(A) == part = "workspaces" /\ A

MCFairness ==
    /\ WF_vars(Hub(LoopStep))
    /\ \A c \in Client : WF_vars(Hub(JoinGivesUp(c) \/ PartGivesUp(c)))
    /\ \A c \in Client : WF_vars(Hub(c \in closed /\ Disconnect(c)))
    /\ WF_vars(Hub(StopStep))
    /\ \A c \in Callers : WF_workspaceVars(Registry(CallStep(c)))

MCSpec == MCInit /\ [][MCNext]_<<vars, workspaceVars, part>> /\ MCFairness
=============================================================================
