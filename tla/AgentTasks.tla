----------------------------- MODULE AgentTasks -----------------------------
(***************************************************************************)
(* The autonomous tasks: rows of agent_tasks, the HTTP handlers that read  *)
(* one, change their copy and write it back whole, and the spawner, whose  *)
(* goroutine works on a copy of its own from the spawn to the end of the   *)
(* run and writes that.  The goroutine adds a git worktree whose path is   *)
(* fixed per task, starts an agent session in it, waits for the session or *)
(* for the timeout and decides the task.  cdev may crash at any point; the *)
(* agents it started go on, and the store is repaired when it starts again.*)
(*                                                                         *)
(* A row is its status, the session it names, whether it records the       *)
(* worktree, and who wrote it last.  Run n of a task has a session with a  *)
(* temporary ID, <<"temp", n>>, until its transcript appears under the     *)
(* real one, <<"real", n>>.                                                *)
(***************************************************************************)
EXTENDS Naturals

CONSTANTS Task,      \* the IDs of tasks
          Client,    \* those who send requests, one at a time each
          MaxRuns    \* bound: runs of a task that reach a session

ASSUME MaxRunsAssumption == MaxRuns \in Nat \ {0}
ASSUME TaskAssumption == Task # {}

VARIABLES row,         \* the table of tasks
          plan,        \* the tasks that are plan cases
          active,      \* Spawner.activeTasks
          exec,        \* the goroutine of each task's run
          req,         \* the request each client has under way
          tree,        \* the tasks whose worktree (and branch) exist
          runs,        \* the number of agents started for each task
          agent,       \* the agent processes of each task, by run
          written,     \* the runs whose transcript exists
          resolved,    \* the runs whose real ID the session manager knows
          reported,        \* callbacks sent for the task's current run
          interrupted  \* the tasks whose run a crash cut short

taskVars == <<row, plan, active, exec, req, tree, runs, agent, written, resolved, reported,
          interrupted>>
sessions == <<runs, agent, written, resolved>>

Run == 1..MaxRuns
Statuses == {"pending", "planning", "running", "validating",
             "awaiting_approval", "completed", "failed", "stuck"}
ValidTransitions ==
  [s \in Statuses |->
     CASE s = "pending"           -> {"planning", "running", "failed"}
       [] s = "planning"          -> {"running", "failed"}
       [] s = "running"           -> {"validating", "failed", "stuck"}
       [] s = "validating"        -> {"awaiting_approval", "completed",
                                      "failed", "running"}
       [] s = "awaiting_approval" -> {"completed", "running", "failed"}
       [] s = "completed"         -> {}
       [] s = "failed"            -> {"pending", "running"}
       [] s = "stuck"             -> {"pending", "running", "failed"}]

SessionIDs == {<<"none", 0>>} \cup ({"temp", "real"} \X Run)
NoID == <<"none", 0>>
Rows == [status: Statuses \cup {"absent"}, sid: SessionIDs, tree: BOOLEAN,
         by: {"user", "executor"}]
NoRow == [status |-> "absent", sid |-> NoID, tree |-> FALSE, by |-> "user"]

Ended == {"idle", "error", "stopped"}
Finals == Ended \cup {""}
Steps == {"none", "begin", "add", "saveTree", "context", "launch",
          "saveSession", "wait", "resolve", "timedOut", "finish", "judge",
          "decide", "report", "reportKept", "fail", "clean", "leave"}
NoExecutor == [pc |-> "none", then |-> "none", after |-> "none", final |-> "",
               copy |-> NoRow]
NoRequest == [kind |-> "none", task |-> CHOOSE t \in Task : TRUE,
              to |-> "failed", copy |-> NoRow]
Kinds == {"none", "update", "spawn"}

CanTransition(r, s) == r.status # "absent" /\ s \in ValidTransitions[r.status]

TasksInit ==
  /\ row = [t \in Task |-> NoRow] /\ plan = {} /\ active = {}
  /\ exec = [t \in Task |-> NoExecutor]
  /\ req = [c \in Client |-> NoRequest]
  /\ tree = {} /\ runs = [t \in Task |-> 0]
  /\ agent = [t \in Task |-> [n \in Run |-> "none"]]
  /\ written = {} /\ resolved = {}
  /\ reported = [t \in Task |-> 0] /\ interrupted = {}

-----------------------------------------------------------------------------
\* The HTTP handlers.  Each reads a copy of the row, moves the copy to
\* another status if the table of transitions allows it, and writes the copy
\* back; nothing keeps another writer out in between.

\* A webhook creates the row and, unless its policy is manual, goes on to
\* spawn the task.
Webhook(c, t) ==
  /\ req[c] = NoRequest /\ row[t] = NoRow
  /\ row' = [row EXCEPT ![t] = [NoRow EXCEPT !.status = "pending"]]
  /\ \E p \in BOOLEAN : plan' = IF p THEN plan \cup {t} ELSE plan
  /\ \E auto \in BOOLEAN :
        req' = IF auto THEN [req EXCEPT ![c] = [NoRequest EXCEPT
                                !.kind = "spawn", !.task = t]]
               ELSE req
  /\ UNCHANGED <<active, exec, tree, runs, agent, written, resolved, reported,
                 interrupted>>

\* Approve, reject, cancel and a status update differ in the status they ask
\* for: completed, running, failed, or any.
ReadsForUpdate(c, t, s) ==
  /\ req[c] = NoRequest /\ CanTransition(row[t], s)
  /\ req' = [req EXCEPT ![c] =
               [kind |-> "update", task |-> t, to |-> s, copy |-> row[t]]]
  /\ UNCHANGED <<row, plan, active, exec, tree, runs, agent, written, resolved,
                 reported, interrupted>>

HandleTaskApprove(c, t) == ReadsForUpdate(c, t, "completed")
HandleTaskReject(c, t) == ReadsForUpdate(c, t, "running")
HandleTaskCancel(c, t) == ReadsForUpdate(c, t, "failed")
HandleTaskStatusUpdate(c, t) == \E s \in Statuses : ReadsForUpdate(c, t, s)

WritesUpdate(c) ==
  /\ req[c].kind = "update"
  /\ row' = [row EXCEPT ![req[c].task] =
               [req[c].copy EXCEPT !.status = req[c].to, !.by = "user"]]
  /\ req' = [req EXCEPT ![c] = NoRequest]
  /\ UNCHANGED <<plan, active, exec, tree, runs, agent, written, resolved, reported,
                 interrupted>>

\* The spawn request looks at the status before it calls the spawner.
HandleTaskSpawn(c, t) ==
  /\ req[c] = NoRequest /\ row[t].status \in {"pending", "failed", "stuck"}
  /\ req' = [req EXCEPT ![c] = [NoRequest EXCEPT !.kind = "spawn",
                                                 !.task = t]]
  /\ UNCHANGED <<row, plan, active, exec, tree, runs, agent, written, resolved,
                 reported, interrupted>>

\* SpawnTask claims the task in activeTasks and reads the copy its goroutine
\* starts from; a task that is being executed is refused.
SpawnTask(c) ==
  LET t == req[c].task
      free == t \notin active
  IN /\ req[c].kind = "spawn"
     /\ runs[t] < MaxRuns
     /\ req' = [req EXCEPT ![c] = NoRequest]
     /\ active' = active \cup {t}
     /\ exec' = IF free THEN [exec EXCEPT ![t] =
                          [NoExecutor EXCEPT !.pc = "begin", !.copy = row[t]]]
                ELSE exec
     /\ reported' = IF free THEN [reported EXCEPT ![t] = 0] ELSE reported
     /\ interrupted' = IF free THEN interrupted \ {t} ELSE interrupted
     /\ UNCHANGED <<row, plan, tree, runs, agent, written, resolved>>

-----------------------------------------------------------------------------
\* The goroutine of a run.  Each step ends where the code writes the row,
\* waits, or touches git or the session.

Goes(t, e) == exec' = [exec EXCEPT ![t] = e]
At(t, pc) == exec[t].pc = pc
To(t, pc) == [exec[t] EXCEPT !.pc = pc]
Copy(t, e, r) == [e EXCEPT !.copy = [r EXCEPT !.by = "executor"]]
\* The goroutine writes its copy over whatever the row has become.
Saves(t, e) == Goes(t, e) /\ row' = [row EXCEPT ![t] = e.copy]

\* failTask resolves the session's ID, then writes the failure; its callers
\* go on to "next".
Fails(t, next) ==
  [exec[t] EXCEPT !.pc = "resolve", !.then = "fail", !.after = next]

Begin(t) ==
  /\ At(t, "begin")
  /\ IF CanTransition(exec[t].copy, "running")
       THEN Saves(t, Copy(t, To(t, "add"),
                          [exec[t].copy EXCEPT !.status = "running"]))
       ELSE Goes(t, To(t, "leave")) /\ UNCHANGED row
  /\ UNCHANGED <<plan, active, req, tree, sessions, reported, interrupted>>

\* Mutant of CreateWorktree: a retry works in the worktree that was kept.
CreateWorktreeReuses(t) ==
  /\ At(t, "add")
  /\ \/ /\ tree' = tree \cup {t}
        /\ Goes(t, Copy(t, To(t, "saveTree"),
                        [exec[t].copy EXCEPT !.tree = TRUE]))
     \/ Goes(t, Fails(t, "leave")) /\ UNCHANGED tree
  /\ UNCHANGED <<row, plan, active, req, sessions, reported, interrupted>>

\* git refuses to add a worktree at a path that has one.
CreateWorktree(t) ==
  /\ At(t, "add")
  /\ \/ /\ t \notin tree
        /\ tree' = tree \cup {t}
        /\ Goes(t, Copy(t, To(t, "saveTree"),
                        [exec[t].copy EXCEPT !.tree = TRUE]))
     \/ Goes(t, Fails(t, "leave")) /\ UNCHANGED tree
  /\ UNCHANGED <<row, plan, active, req, sessions, reported, interrupted>>

SaveTree(t) ==
  /\ At(t, "saveTree")
  /\ Saves(t, To(t, IF t \in plan THEN "context" ELSE "launch"))
  /\ UNCHANGED <<plan, active, req, tree, sessions, reported, interrupted>>

WriteCaseContext(t) ==
  /\ At(t, "context")
  /\ \/ Goes(t, To(t, "launch"))
     \/ Goes(t, Fails(t, "clean"))
  /\ UNCHANGED <<row, plan, active, req, tree, sessions, reported, interrupted>>

\* An agent starts in the worktree, or the run fails and gives it up.
StartSession(t) ==
  /\ At(t, "launch")
  /\ \/ LET n == runs[t] + 1
        IN /\ runs' = [runs EXCEPT ![t] = n]
           /\ agent' = [agent EXCEPT ![t][n] = "running"]
           /\ Goes(t, Copy(t, To(t, "saveSession"),
                           [exec[t].copy EXCEPT !.sid = <<"temp", n>>]))
     \/ Goes(t, Fails(t, "clean")) /\ UNCHANGED <<runs, agent>>
  /\ UNCHANGED <<row, plan, active, req, tree, written, resolved, reported,
                 interrupted>>

SaveSession(t) ==
  /\ At(t, "saveSession") /\ Saves(t, To(t, "wait"))
  /\ UNCHANGED <<plan, active, req, tree, sessions, reported, interrupted>>

\* The wait polls the session.  One that was stopped, or that cdev no longer
\* knows, counts as idle, unless the poll sees the process stopped before
\* the session's status says so.
WaitEnds(t) ==
  LET s == agent[t][runs[t]]
  IN /\ At(t, "wait") /\ s \in Ended
     /\ \E f \in IF s = "stopped" THEN {"idle", "stopped"} ELSE {s} :
           Goes(t, [exec[t] EXCEPT !.pc = "resolve", !.then = "finish",
                                   !.final = f])
     /\ UNCHANGED <<row, plan, active, req, tree, sessions, reported, interrupted>>

WaitTimesOut(t) ==
  /\ At(t, "wait")
  /\ Goes(t, IF t \in plan THEN [exec[t] EXCEPT !.pc = "resolve",
                                               !.then = "timedOut"]
             ELSE Fails(t, "leave"))
  /\ UNCHANGED <<row, plan, active, req, tree, sessions, reported, interrupted>>

\* persistResolvedSessionID, then on to what called it.
PersistResolved(t) ==
  LET sid == exec[t].copy.sid
      next == To(t, exec[t].then)
  IN /\ At(t, "resolve")
     /\ IF sid[1] = "temp" /\ <<t, sid[2]>> \in resolved
          THEN Saves(t, Copy(t, next, [exec[t].copy EXCEPT
                                         !.sid = <<"real", sid[2]>>]))
          ELSE Goes(t, next) /\ UNCHANGED row
     /\ UNCHANGED <<plan, active, req, tree, sessions, reported, interrupted>>

\* Mutant of StopTimedOut: the timeout is written down and not called back.
StopTimedOutSilently(t) ==
  /\ At(t, "timedOut")
  /\ agent' = [agent EXCEPT ![t][runs[t]] = IF @ = "running" THEN "stopped"
                                            ELSE @]
  /\ Saves(t, Fails(t, "leave"))
  /\ UNCHANGED <<plan, active, req, tree, runs, written, resolved, reported,
                 interrupted>>

\* A plan case that timed out stops its session and keeps its worktree.
StopTimedOut(t) ==
  LET n == runs[t]
  IN /\ At(t, "timedOut")
     /\ agent' = [agent EXCEPT ![t][n] = IF @ = "running" THEN "stopped"
                                         ELSE @]
     /\ Saves(t, Fails(t, "reportKept"))
     /\ UNCHANGED <<plan, active, req, tree, runs, written, resolved, reported,
                    interrupted>>

\* An ordinary run records that its session ended; a plan case writes
\* nothing until it is decided.
Finish(t) ==
  /\ At(t, "finish")
  /\ IF t \in plan THEN Goes(t, To(t, "judge")) /\ UNCHANGED row
     ELSE Saves(t, To(t, "judge"))
  /\ UNCHANGED <<plan, active, req, tree, sessions, reported, interrupted>>

\* A session that ended in an error or was stopped fails the task; a plan
\* case passes through validating to completed in one write, an ordinary one
\* stops at validating.
Judge(t) ==
  /\ At(t, "judge")
  /\ IF exec[t].final \in {"error", "stopped"}
       THEN Goes(t, Fails(t, IF t \in plan THEN "report" ELSE "leave"))
            /\ UNCHANGED row
     ELSE IF t \in plan
       THEN Saves(t, Copy(t, To(t, "report"),
                          [exec[t].copy EXCEPT !.status = "completed"]))
     ELSE Saves(t, Copy(t, To(t, "decide"),
                        [exec[t].copy EXCEPT !.status = "validating"]))
  /\ UNCHANGED <<plan, active, req, tree, sessions, reported, interrupted>>

\* Whatever tests and build gave, a person has to approve.
AwaitApproval(t) ==
  /\ At(t, "decide")
  /\ Saves(t, Copy(t, To(t, "leave"),
                   [exec[t].copy EXCEPT !.status = "awaiting_approval"]))
  /\ UNCHANGED <<plan, active, req, tree, sessions, reported, interrupted>>

FailTask(t) ==
  /\ At(t, "fail")
  /\ Saves(t, Copy(t, To(t, exec[t].after),
                   [exec[t].copy EXCEPT !.status = "failed"]))
  /\ UNCHANGED <<plan, active, req, tree, sessions, reported, interrupted>>

\* A plan case calls its origin back, then gives up its worktree unless it
\* timed out.
FireCallback(t) ==
  /\ \/ At(t, "report") /\ Goes(t, To(t, "clean"))
     \/ At(t, "reportKept") /\ Goes(t, To(t, "leave"))
  /\ reported' = [reported EXCEPT ![t] = @ + 1]
  /\ UNCHANGED <<row, plan, active, req, tree, sessions, interrupted>>

\* git may not give the worktree up: it then refuses the path to the next run
\* even when the directory itself could be removed.
CleanupWorktree(t) ==
  /\ At(t, "clean")
  /\ tree' \in {tree, tree \ {t}}
  /\ Goes(t, To(t, "leave"))
  /\ UNCHANGED <<row, plan, active, req, sessions, reported, interrupted>>

Leave(t) ==
  /\ At(t, "leave")
  /\ Goes(t, NoExecutor)
  /\ active' = active \ {t}
  /\ UNCHANGED <<row, plan, req, tree, sessions, reported, interrupted>>

-----------------------------------------------------------------------------
\* The agents, the session manager, and cdev going down.

AgentEnds(t, n) ==
  /\ agent[t][n] = "running"
  /\ \E s \in Ended : agent' = [agent EXCEPT ![t][n] = s]
  /\ UNCHANGED <<row, plan, active, exec, req, tree, runs, written, resolved, reported,
                 interrupted>>

WritesTranscript(t, n) ==
  /\ agent[t][n] = "running" /\ <<t, n>> \notin written
  /\ written' = written \cup {<<t, n>>}
  /\ UNCHANGED <<row, plan, active, exec, req, tree, runs, agent, resolved, reported,
                 interrupted>>

\* The manager looks for the transcript for as long as the run's context
\* lives: to the end of the goroutine.
ResolveSessionID(t) ==
  LET run == <<t, runs[t]>>
  IN /\ ~At(t, "none") /\ exec[t].copy.sid = <<"temp", runs[t]>>
     /\ run \in written \ resolved
     /\ resolved' = resolved \cup {run}
     /\ UNCHANGED <<row, plan, active, exec, req, tree, runs, agent, written, reported,
                    interrupted>>

\* RepairSessionIDs: a temporary ID gives way to the newest transcript under
\* the task's worktree path, run n's, whichever run wrote it.
Repaired(t, n) ==
  IF row[t].sid[1] = "temp" /\ row[t].tree /\ <<t, n>> \in written
    THEN [row[t] EXCEPT !.sid = <<"real", n>>]
  ELSE row[t]

\* cdev goes down and comes up: goroutines, requests and what the manager
\* knew are gone, the store is repaired, and an agent may outlive it all.
Restart ==
  /\ \E newest \in [Task -> Run] :
       /\ \A t \in Task : \/ <<t, newest[t]>> \in written
                          \/ \A n \in Run : <<t, n>> \notin written
       /\ row' = [t \in Task |-> Repaired(t, newest[t])]
  /\ active' = {} /\ exec' = [t \in Task |-> NoExecutor]
  /\ req' = [c \in Client |-> NoRequest] /\ resolved' = {}
  /\ interrupted' = interrupted \cup {t \in Task : ~At(t, "none")}
  /\ UNCHANGED <<plan, tree, runs, agent, written, reported>>

Executes(t) ==
  \/ Begin(t) \/ CreateWorktree(t) \/ SaveTree(t) \/ WriteCaseContext(t)
  \/ StartSession(t) \/ SaveSession(t) \/ WaitEnds(t) \/ WaitTimesOut(t)
  \/ PersistResolved(t) \/ StopTimedOut(t) \/ Finish(t) \/ Judge(t)
  \/ AwaitApproval(t) \/ FailTask(t) \/ FireCallback(t)
  \/ CleanupWorktree(t) \/ Leave(t)

TasksNext ==
  \/ \E c \in Client : \/ WritesUpdate(c)
                       \/ SpawnTask(c)
  \/ \E c \in Client, t \in Task :
       \/ Webhook(c, t) \/ HandleTaskApprove(c, t) \/ HandleTaskReject(c, t)
       \/ HandleTaskCancel(c, t) \/ HandleTaskStatusUpdate(c, t)
       \/ HandleTaskSpawn(c, t)
  \/ \E t \in Task : \/ Executes(t)
                     \/ ResolveSessionID(t)
                     \/ \E n \in Run : AgentEnds(t, n) \/ WritesTranscript(t, n)
  \/ Restart

\* The goroutine is scheduled, and the run's timer fires if its agent does
\* not end before: every step of Executes happens in the end.
TasksSpec == TasksInit /\ [][TasksNext]_taskVars /\ \A t \in Task : WF_taskVars(Executes(t))

-----------------------------------------------------------------------------
TasksTypeOK ==
  /\ row \in [Task -> Rows]
  /\ plan \subseteq Task /\ active \subseteq Task /\ tree \subseteq Task
  /\ exec \in [Task -> [pc: Steps, then: Steps, after: Steps, final: Finals,
                        copy: Rows]]
  /\ req \in [Client -> [kind: Kinds, task: Task, to: Statuses, copy: Rows]]
  /\ agent \in [Task -> [Run -> Ended \cup {"none", "running"}]]
  /\ written \subseteq Task \X Run /\ resolved \subseteq written
  /\ runs \in [Task -> 0..MaxRuns] /\ reported \in [Task -> Nat] /\ interrupted \subseteq Task

\* Two agents never work in one worktree, however runs, retries, timeouts,
\* cancellations and crashes follow each other: activeTasks keeps a second
\* run away while the first goes on, and after that it is only git that
\* refuses the path of a worktree that was kept with its agent alive.
OneAgentPerWorktree ==
  \A t \in Task : \A m, n \in Run :
     agent[t][m] = "running" /\ agent[t][n] = "running" => m = n

\* No run ends and leaves its task in a status that says it is worked on:
\* whatever goes wrong with worktree, context, session or agent is written
\* to the row by a goroutine that no crash cut short.
RowsAreDecided ==
  \A t \in Task :
     At(t, "none") /\ row[t].by = "executor" /\ t \notin interrupted
        => row[t].status \notin {"planning", "running", "validating"}

\* The origin of a plan case hears of it exactly once if an agent was
\* started: completed, failed or timed out, unless cdev goes down.
PlansAreReported ==
  \A t \in Task :
     (t \in plan /\ At(t, "wait"))
        ~> (At(t, "none") /\ (reported[t] = 1 \/ t \in interrupted))

\* The runs of a task follow each other: one agent at a time, and a decision
\* after each.
RunsAreOrderly == OneAgentPerWorktree /\ RowsAreDecided
=============================================================================
