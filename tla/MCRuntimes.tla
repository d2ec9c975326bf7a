----------------------------- MODULE MCRuntimes -----------------------------
(***************************************************************************)
(* The two runtimes that a session may have: Claude's manager, and the map *)
(* of Codex processes.  They share no state: each behaviour is of one of   *)
(* them, and the other stays as it is.                                     *)
(*                                                                         *)
(* Claude: two runs that ask for trust in a folder or print, twice, or     *)
(* once when a run is on pipes, is stopped or times out; one input besides *)
(* the initial prompts, or one denial.  Codex: three calls of two clients, *)
(* two processes: a launch, a launch or a resume of the same session       *)
(* beside it, and a stop or a deletion.                                    *)
(***************************************************************************)
EXTENDS CodexRuntime, ClaudeManager

VARIABLE part

\* The clients are alike, and so are the processes: this client calls while no other does,
\* and this process is the first that is launched.
FirstClient == CHOOSE c \in Clients : TRUE
FirstProc == CHOOSE p \in Procs : TRUE

MCInit == Init /\ ClaudeInit /\ part \in {"claude", "codex"}

MCNext ==
    /\ UNCHANGED part
    /\ \/ part = "claude" /\ ClaudeNext /\ UNCHANGED vars
       \/ part = "codex" /\ Next /\ UNCHANGED claudeVars
    /\ denies' + inputs' <= 1
    /\ (\E r \in Runs : kind'[r] = "pipe" \/ ended'[r] # "no") => prints' <= 1
    /\ \A c \in Clients \ {FirstClient} :
          call'[c].at # "idle" => call[c].at # "idle" \/ call[FirstClient].at # "idle"
    /\ \A p \in Procs : pstate'[p] # "none" => pstate'[FirstProc] # "none"
    /\ <<vars, claudeVars>>' # <<vars, claudeVars>>

\* As in the modules; the part that a behaviour is not of owes it nothing.
Claude(A) == part = "claude" /\ A
Codex(A) == part = "codex" /\ A

MCFairness ==
    /\ \A r \in Runs : WF_claudeVars(Claude(Goroutines(r) \/ (ClaudeExits(r) /\ ended[r] # "no")))
    /\ \A p \in Procs : WF_vars(Codex(Watch(p)))

MCSpec == MCInit /\ [][MCNext]_<<vars, claudeVars, part>> /\ MCFairness
\* Nothing outlives its process: the runs of Claude that are stopped or time out
\* are reported ended, and the ID watchers of Codex end.
NothingLingers == EndsAreReported /\ WatchersEnd
=============================================================================
