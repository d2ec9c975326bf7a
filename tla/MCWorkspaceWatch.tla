--------------------------- MODULE MCWorkspaceWatch ---------------------------
(***************************************************************************)
(* WorkspaceWatch with two clients, a workspace and two IDs: s1 may be     *)
(* replaced by s2.  Both clients do whatever they like with the workspace  *)
(* and the streamers; one of them also stops sessions.                     *)
(***************************************************************************)
EXTENDS WorkspaceWatch

CONSTANTS c1, c2, w1, s1, s2

MCCalling(c) ==
    \/ Connect(c)
    \/ Subscribe(c, w1) \/ Unsubscribe(c, w1) \/ SubscribeAll(c)
    \/ \E s \in Session : WatchSession(c, w1, s) \/ UnwatchSession(c, s)
    \/ UnwatchAny(c)
    \/ Disconnect(c)

MCNext ==
    \/ \E c \in Client : MCCalling(c) \/ Working(c)
    \/ FindActive(c1, s1)
    \/ Unregister(w1) \/ Register(w1)
    \/ FollowTerminal(w1, s1) \/ Activate(w1, s2)
    \/ Rename(w1, s1, s2)

MCSpec == Init /\ [][MCNext]_vars /\ Fairness
=============================================================================
