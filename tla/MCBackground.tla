----------------------------- MODULE MCBackground -----------------------------
(***************************************************************************)
(* What goes on in the background and must get somewhere: the agents of    *)
(* the tasks and the index of a repository.  They share no state: each     *)
(* behaviour is of one of them, and the other stays as it is.              *)
(*                                                                         *)
(* How an agent ends matters while its run waits for it: the others end    *)
(* idle.  A person who sets a status says that the task waits, is worked   *)
(* on, has failed or is done.  A rebuild is asked for once something has   *)
(* changed.                                                                *)
(***************************************************************************)
EXTENDS AgentTasks, RepositoryIndex

CONSTANTS t1, c1, f

VARIABLE part

MCInit ==
    /\ TasksInit
    /\ IndexInit /\ OnDisk(f) /\ indexed = disk
    /\ part \in {"tasks", "index"}

MCNext ==
    /\ UNCHANGED part
    /\ \/ part = "tasks" /\ TasksNext /\ UNCHANGED indexVars
       \/ part = "index" /\ IndexNext /\ UNCHANGED taskVars
    /\ \A n \in Run :
          agent'[t1][n] # agent[t1][n] /\ exec[t1].pc \notin {"saveSession", "wait", "timedOut"}
          => agent'[t1][n] \in {"running", "idle"}
    /\ req'[c1].to \in {"pending", "running", "failed", "completed"}
    /\ rebuilds' > 0 => changes > 1

\* As in the modules; the part that a behaviour is not of owes it nothing.
Tasks(A) == part = "tasks" /\ A
Index(A) == part = "index" /\ A

MCFairness ==
    /\ \A t \in Task : WF_taskVars(Tasks(Executes(t)))
    /\ WF_indexVars(Index(WatchStep)) /\ WF_indexVars(Index(JobStep))
    /\ WF_indexVars(Index(ScanStep(ReconciliationLoop)))
    /\ \A x \in Scanners : WF_indexVars(Index(scan[x].at # "idle" /\ ScanStep(x)))

MCSpec == MCInit /\ [][MCNext]_<<taskVars, indexVars, part>> /\ MCFairness
=============================================================================
