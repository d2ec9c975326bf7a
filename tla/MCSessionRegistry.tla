--------------------------- MODULE MCSessionRegistry ---------------------------
(***************************************************************************)
(* Small instances of SessionRegistry.                                     *)
(***************************************************************************)
EXTENDS SessionRegistry, TLC

\* The directory of the workspaces.
CONSTANT d1

\* Every workspace lies in d1; d2 is a worktree of it.
MCHome == [w \in Workspace |-> d1]
MCPaths == [w \in Workspace |-> Dir]

-----------------------------------------------------------------------------
\* The life of sessions: everything but prompts and what a client says of
\* workspaces.
LifeNext ==
    \/ \E s \in Session, w \in Workspace : StartFromClient(s, w)
    \/ \E s \in Session, w \in Workspace, d \in Dir : StartForAgent(s, w, d)
    \/ \E id \in ID : StopSession(id)
    \/ \E s \in Session : WatcherStep(s)
    \/ ClaudeStep
    \/ DaemonStep

LifeSpec == Init /\ [][LifeNext]_vars

\* Clients that start sessions, and follow, prompt and stop what is on disk.
PromptNext ==
    \/ \E w \in Workspace : RegisterWorkspace(w) \/ UnregisterWorkspace(w)
    \/ \E w \in Workspace, id \in ID : ActivateSession(w, id) \/ ClientFollows(w, id)
    \/ \E s \in Session, w \in Workspace : StartFromClient(s, w)
    \/ \E c \in Call, id \in ID : StopLooksUp(c, id)
    \/ \E c \in Call : StopUnwatches(c) \/ PromptStep(c)
    \/ \E s \in Session : WatcherStep(s)
    \/ \E r \in Transcript, d \in Dir : TranscriptAppears(r, d)

PromptSpec == Init /\ [][PromptNext]_vars /\ Fairness

MCSymmetry == Permutations(Session) \cup Permutations(Transcript)
=============================================================================
