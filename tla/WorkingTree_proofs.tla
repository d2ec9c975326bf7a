--------------------------- MODULE WorkingTree_proofs ---------------------------
(***************************************************************************)
(* What works on a workspace's files, proved for any tasks, clients,       *)
(* files, images and runs: the tasks' agents, git's commands, the          *)
(* repository index and the uploaded images.                               *)
(*                                                                         *)
(* The tasks: what keeps two agents apart is spread over the run's whole   *)
(* goroutine.  A running agent has its worktree, git refuses the worktree  *)
(* to the next run, and the goroutine gives a worktree up only where its   *)
(* agent has ended or was never started.  ExecShaped says where the        *)
(* goroutine may be, AgentsAreHoused what that says of the agents, and     *)
(* DecidedAtLast where the row has been decided.                           *)
(*                                                                         *)
(* git's files: what a call's commands have found stays true while the     *)
(* call is alone, and the feed is owed a refresh wherever it shows old     *)
(* files.                                                                  *)
(*                                                                         *)
(* The index: the last notice of a path tells what has become of it, a job *)
(* knows the file it works on, and an entry that shows an old file has its *)
(* removal on the way.                                                     *)
(*                                                                         *)
(* The images: the entries, the index by content, the cached total and the *)
(* folder are one another's picture through every partial failure.         *)
(***************************************************************************)
EXTENDS AgentTasks, GitFiles, RepositoryIndex, ImageStorage, FiniteSetTheorems, TLAPS

\* The steps before an agent of this run is started.
Early == {"begin", "add", "saveTree", "context", "launch"}
\* The steps at which the run has an agent of its own.
Agented == {"saveSession", "wait", "timedOut"}
\* What is left to do once the task has been decided.
Rest == {"leave", "clean", "report", "reportKept"}

\* The run of a goroutine that is about to fail gives its worktree up.
WillClean(e) ==
  /\ e.pc = "fail" \/ (e.pc = "resolve" /\ e.then = "fail")
  /\ e.after \in {"clean", "report"}

\* The goroutine is where no agent of its task works.
NoAgentWorks(e) ==
  \/ e.pc \in {"saveTree", "context", "launch", "finish", "judge", "decide",
               "report", "clean"}
  \/ e.pc = "resolve" /\ e.then = "finish"
  \/ WillClean(e)

ShapedAt(t) ==
  /\ At(t, "resolve") => exec[t].then \in {"fail", "finish", "timedOut"}
  /\ At(t, "fail") \/ (At(t, "resolve") /\ exec[t].then = "fail")
        => exec[t].after \in Rest
  /\ exec[t].pc \in Early => runs[t] < MaxRuns
  /\ exec[t].pc \in Agented \/ (At(t, "resolve") /\ exec[t].then = "timedOut")
        => runs[t] # 0
  /\ exec[t].pc \in {"saveTree", "context", "launch"} => t \in tree
ExecShaped == \A t \in Task : ShapedAt(t)

\* activeTasks holds the tasks that have a goroutine.
ActiveAt(t) == t \in active <=> ~At(t, "none")
ActiveIsExecuting == \A t \in Task : ActiveAt(t)

\* The latest run's agent is the one that works, in a worktree, and not where
\* the goroutine gives the worktree up.
HousedAt(t) ==
  \A n \in Run : agent[t][n] = "running" => /\ n = runs[t]
                                           /\ t \in tree
                                           /\ ~NoAgentWorks(exec[t])
AgentsAreHoused == \A t \in Task : HousedAt(t)

\* The goroutine that wrote the row last has decided the task.
Undecided(r) ==
  r.by = "executor" /\ r.status \in {"planning", "running", "validating"}
Spawning(t) == \E c \in Client : req[c].kind = "spawn" /\ req[c].task = t
DecidedAt(t) ==
  /\ exec[t].pc \in Rest \cup {"begin"} => ~Undecided(row[t])
  /\ At(t, "none") /\ (t \notin interrupted \/ Spawning(t)) => ~Undecided(row[t])
DecidedAtLast == \A t \in Task : DecidedAt(t)

TasksInv == TasksTypeOK /\ ExecShaped /\ ActiveIsExecuting /\ AgentsAreHoused /\ DecidedAtLast

-----------------------------------------------------------------------------
\* What a step of a goroutine does to its record and to its row.

Execs == [pc: Steps, then: Steps, after: Steps, final: Finals, copy: Rows]

\* Only t's record and row change, and both stay records and rows.
OnlyOf(t) ==
  /\ exec' \in [Task -> Execs] /\ \A u \in Task \ {t} : exec'[u] = exec[u]
  /\ row' \in [Task -> Rows] /\ \A u \in Task \ {t} : row'[u] = row[u]
HeadsToFail(t, next) ==
  exec'[t].pc = "resolve" /\ exec'[t].then = "fail" /\ exec'[t].after = next

\* To changes the step of a record and nothing else.
LEMMA ToGoes ==
  ASSUME NEW t \in Task, exec \in [Task -> Execs], NEW pc \in Steps
  PROVE  /\ To(t, pc) \in Execs
         /\ To(t, pc).pc = pc /\ To(t, pc).after = exec[t].after
         /\ To(t, pc).copy = exec[t].copy
BY DEF To, Execs

\* Fails sends the record through resolve to fail, then to next.
LEMMA FailsHeads ==
  ASSUME NEW t \in Task, exec \in [Task -> Execs], NEW next \in Steps
  PROVE  /\ Fails(t, next) \in Execs
         /\ Fails(t, next).pc = "resolve" /\ Fails(t, next).then = "fail"
         /\ Fails(t, next).after = next /\ Fails(t, next).copy = exec[t].copy
<1>1. "resolve" \in Steps /\ "fail" \in Steps
  BY DEF Steps
<1>2. QED
  BY <1>1 DEF Fails, Execs

\* Copy changes the copy of a record and nothing else.
LEMMA CopyChanges ==
  ASSUME NEW t \in Task, NEW e \in Execs, NEW r \in Rows
  PROVE  /\ Copy(t, e, r) \in Execs
         /\ Copy(t, e, r).pc = e.pc /\ Copy(t, e, r).then = e.then
         /\ Copy(t, e, r).after = e.after
         /\ Copy(t, e, r).copy.status = r.status
<1>1. [r EXCEPT !.by = "executor"] \in Rows
  BY DEF Rows
<1>2. [r EXCEPT !.by = "executor"].status = r.status
  BY DEF Rows
<1>3. QED
  BY <1>1, <1>2 DEF Copy, Execs

\* A record in another's place.
LEMMA GoesChanges ==
  ASSUME NEW t \in Task, exec \in [Task -> Execs], NEW e \in Execs, Goes(t, e),
         row \in [Task -> Rows]
  PROVE  /\ exec'[t] = e
         /\ UNCHANGED row => OnlyOf(t)
         /\ row' = [row EXCEPT ![t] = e.copy] => OnlyOf(t) /\ row'[t] = e.copy
<1>1. e.copy \in Rows
  BY DEF Execs
<1>2. QED
  BY <1>1 DEF Goes, OnlyOf

\* A copy whose status, session or worktree is changed is still a row.
LEMMA RowsOfCopies ==
  ASSUME NEW r \in Rows
  PROVE  /\ \A s \in Statuses : /\ [r EXCEPT !.status = s] \in Rows
                                /\ [r EXCEPT !.status = s].status = s
         /\ \A i \in SessionIDs : [r EXCEPT !.sid = i] \in Rows
         /\ [r EXCEPT !.tree = TRUE] \in Rows
BY DEF Rows

\* A step of t's goroutine that leaves the requests and the other tasks alone.
Alone(t) ==
  /\ OnlyOf(t) /\ UNCHANGED <<plan, req, written, resolved, interrupted>>
  /\ runs' \in [Task -> 0..MaxRuns] /\ reported' \in [Task -> Nat]
  /\ agent' \in [Task -> [Run -> Ended \cup {"none", "running"}]]
  /\ tree' \subseteq Task /\ active' \subseteq Task
  /\ \A u \in Task \ {t} : /\ runs'[u] = runs[u] /\ agent'[u] = agent[u]
                           /\ u \in tree' <=> u \in tree
                           /\ u \in active' <=> u \in active

\* Such a step keeps the invariant if it keeps what the invariant says of t.
LEMMA AloneKeeps ==
  ASSUME TasksInv, NEW t \in Task, Alone(t),
         ShapedAt(t)', ActiveAt(t)', HousedAt(t)', DecidedAt(t)'
  PROVE  TasksInv'
<1>1. TasksTypeOK'
  BY DEF TasksInv, TasksTypeOK, Alone, OnlyOf, Execs
<1>2. \A u \in Task \ {t} : exec'[u] = exec[u] /\ row'[u] = row[u]
  BY DEF Alone, OnlyOf
<1>3. ExecShaped'
  BY <1>2 DEF TasksInv, ExecShaped, ShapedAt, At, Alone
<1>4. ActiveIsExecuting'
  BY <1>2 DEF TasksInv, ActiveIsExecuting, ActiveAt, At, Alone
<1>5. AgentsAreHoused'
  BY <1>2 DEF TasksInv, AgentsAreHoused, HousedAt, NoAgentWorks, WillClean, Alone
<1>6. DecidedAtLast'
  BY <1>2 DEF TasksInv, DecidedAtLast, DecidedAt, Spawning, At, Alone
<1>7. QED
  BY <1>1, <1>3, <1>4, <1>5, <1>6 DEF TasksInv

\* What the invariant says of t, at hand for the steps of its goroutine.
LEMMA AtHand ==
  ASSUME TasksInv, NEW t \in Task
  PROVE  /\ exec \in [Task -> Execs] /\ row \in [Task -> Rows]
         /\ exec[t].copy \in Rows
         /\ ShapedAt(t) /\ ActiveAt(t) /\ HousedAt(t) /\ DecidedAt(t)
BY DEF TasksInv, TasksTypeOK, Execs, ExecShaped, ActiveIsExecuting, AgentsAreHoused,
       DecidedAtLast

\* A run begins, or leaves a task that may not run to itself.
LEMMA BeginKeeps ==
  ASSUME TasksInv, NEW t \in Task, Begin(t)
  PROVE  TasksInv'
<1>1. /\ exec \in [Task -> Execs] /\ row \in [Task -> Rows]
      /\ exec[t].copy \in Rows
      /\ ShapedAt(t) /\ ActiveAt(t) /\ HousedAt(t) /\ DecidedAt(t)
  BY AtHand
<1>2. /\ OnlyOf(t) /\ exec[t].pc = "begin"
      /\ exec'[t].pc = "add" \/ (exec'[t].pc = "leave" /\ row'[t] = row[t])
  <2>1. exec[t].pc = "begin" /\ {"add", "leave"} \subseteq Steps /\ "running" \in Statuses
    BY DEF Begin, At, Steps, Statuses
  <2>2. CASE CanTransition(exec[t].copy, "running")
    <3> DEFINE r == [exec[t].copy EXCEPT !.status = "running"]
               e == Copy(t, To(t, "add"), r)
    <3>1. r \in Rows /\ To(t, "add") \in Execs /\ To(t, "add").pc = "add"
      BY <1>1, <2>1, ToGoes, RowsOfCopies
    <3>2. e \in Execs /\ e.pc = "add"
      BY <3>1, CopyChanges
    <3>3. Goes(t, e) /\ row' = [row EXCEPT ![t] = e.copy]
      BY <2>2 DEF Begin, Saves
    <3> HIDE DEF e
    <3>4. QED
      BY <1>1, <2>1, <3>2, <3>3, GoesChanges
  <2>3. CASE ~CanTransition(exec[t].copy, "running")
    <3>1. Goes(t, To(t, "leave")) /\ UNCHANGED row
      BY <2>3 DEF Begin
    <3>2. To(t, "leave") \in Execs /\ To(t, "leave").pc = "leave"
      BY <1>1, <2>1, ToGoes
    <3>3. QED
      BY <1>1, <2>1, <3>1, <3>2, GoesChanges
  <2>4. QED
    BY <2>2, <2>3
<1>3. Alone(t)
  BY <1>2 DEF Alone, TasksInv, TasksTypeOK, Begin, sessions
<1>4. ShapedAt(t)' /\ ActiveAt(t)'
  BY <1>1, <1>2 DEF ShapedAt, ActiveAt, At, HeadsToFail, Early, Agented, Rest, Begin, sessions
<1>5. HousedAt(t)'
  BY <1>1, <1>2 DEF HousedAt, NoAgentWorks, WillClean, At, HeadsToFail, Begin, sessions
<1>6. DecidedAt(t)'
  BY <1>1, <1>2 DEF DecidedAt, Undecided, At, HeadsToFail, Rest, Begin, sessions
<1>7. QED
  BY <1>3, <1>4, <1>5, <1>6, AloneKeeps

\* git gives the run a worktree that no agent works in, or the run fails.
LEMMA CreateWorktreeKeeps ==
  ASSUME TasksInv, NEW t \in Task, CreateWorktree(t)
  PROVE  TasksInv'
<1>1. /\ exec \in [Task -> Execs] /\ row \in [Task -> Rows]
      /\ exec[t].copy \in Rows
      /\ ShapedAt(t) /\ ActiveAt(t) /\ HousedAt(t) /\ DecidedAt(t)
  BY AtHand
<1>2. /\ OnlyOf(t) /\ exec[t].pc = "add" /\ UNCHANGED row
      /\ \/ /\ exec'[t].pc = "saveTree" /\ t \notin tree
            /\ tree' = tree \cup {t}
         \/ HeadsToFail(t, "leave") /\ UNCHANGED tree
  <2>1. exec[t].pc = "add" /\ UNCHANGED row /\ {"saveTree", "leave"} \subseteq Steps
    BY DEF CreateWorktree, At, Steps
  <2> DEFINE r == [exec[t].copy EXCEPT !.tree = TRUE]
             e == Copy(t, To(t, "saveTree"), r)
  <2>2. r \in Rows /\ To(t, "saveTree") \in Execs /\ To(t, "saveTree").pc = "saveTree"
    BY <1>1, <2>1, ToGoes, RowsOfCopies
  <2>3. e \in Execs /\ e.pc = "saveTree"
    BY <2>2, CopyChanges
  <2>4. \/ t \notin tree /\ tree' = tree \cup {t} /\ Goes(t, e)
        \/ Goes(t, Fails(t, "leave")) /\ UNCHANGED tree
    BY DEF CreateWorktree
  <2>5. CASE t \notin tree /\ tree' = tree \cup {t} /\ Goes(t, e)
    <3> HIDE DEF e
    <3>1. QED
      BY <1>1, <2>1, <2>3, <2>5, GoesChanges
  <2>6. CASE Goes(t, Fails(t, "leave")) /\ UNCHANGED tree
    BY <1>1, <2>1, <2>6, FailsHeads, GoesChanges DEF HeadsToFail
  <2>7. QED
    BY <2>4, <2>5, <2>6
<1>3. Alone(t)
  BY <1>2 DEF Alone, TasksInv, TasksTypeOK, CreateWorktree, sessions
<1>4. ShapedAt(t)' /\ ActiveAt(t)'
  BY <1>1, <1>2 DEF ShapedAt, ActiveAt, At, HeadsToFail, Early, Agented, Rest, CreateWorktree, sessions
<1>5. HousedAt(t)'
  BY <1>1, <1>2 DEF HousedAt, NoAgentWorks, WillClean, At, HeadsToFail, CreateWorktree, sessions
<1>6. DecidedAt(t)'
  BY <1>1, <1>2 DEF DecidedAt, Undecided, At, HeadsToFail, Rest, CreateWorktree, sessions
<1>7. QED
  BY <1>3, <1>4, <1>5, <1>6, AloneKeeps

\* The worktree goes into the row.
LEMMA SaveTreeKeeps ==
  ASSUME TasksInv, NEW t \in Task, SaveTree(t)
  PROVE  TasksInv'
<1>1. /\ exec \in [Task -> Execs] /\ row \in [Task -> Rows]
      /\ exec[t].copy \in Rows
      /\ ShapedAt(t) /\ ActiveAt(t) /\ HousedAt(t) /\ DecidedAt(t)
  BY AtHand
<1>2. /\ OnlyOf(t) /\ exec[t].pc = "saveTree"
      /\ exec'[t].pc \in {"context", "launch"}
  <2> DEFINE pc == IF t \in plan THEN "context" ELSE "launch"
             e == To(t, pc)
  <2>1. exec[t].pc = "saveTree" /\ pc \in Steps /\ pc \in {"context", "launch"}
    BY DEF SaveTree, At, Steps
  <2>2. Goes(t, e) /\ row' = [row EXCEPT ![t] = e.copy]
    BY DEF SaveTree, Saves
  <2> HIDE DEF pc
  <2>3. e \in Execs /\ e.pc = pc
    BY <1>1, <2>1, ToGoes
  <2> HIDE DEF e
  <2>4. QED
    BY <1>1, <2>1, <2>2, <2>3, GoesChanges
<1>3. Alone(t)
  BY <1>2 DEF Alone, TasksInv, TasksTypeOK, SaveTree, sessions
<1>4. ShapedAt(t)' /\ ActiveAt(t)'
  BY <1>1, <1>2 DEF ShapedAt, ActiveAt, At, HeadsToFail, Early, Agented, Rest, SaveTree, sessions
<1>5. HousedAt(t)'
  BY <1>1, <1>2 DEF HousedAt, NoAgentWorks, WillClean, At, HeadsToFail, SaveTree, sessions
<1>6. DecidedAt(t)'
  BY <1>1, <1>2 DEF DecidedAt, Undecided, At, HeadsToFail, Rest, SaveTree, sessions
<1>7. QED
  BY <1>3, <1>4, <1>5, <1>6, AloneKeeps

\* The context of a plan case is written before any agent is there.
LEMMA WriteCaseContextKeeps ==
  ASSUME TasksInv, NEW t \in Task, WriteCaseContext(t)
  PROVE  TasksInv'
<1>1. /\ exec \in [Task -> Execs] /\ row \in [Task -> Rows]
      /\ exec[t].copy \in Rows
      /\ ShapedAt(t) /\ ActiveAt(t) /\ HousedAt(t) /\ DecidedAt(t)
  BY AtHand
<1>2. /\ OnlyOf(t) /\ exec[t].pc = "context" /\ UNCHANGED row
      /\ exec'[t].pc = "launch" \/ HeadsToFail(t, "clean")
  <2>1. exec[t].pc = "context" /\ UNCHANGED row /\ {"launch", "clean"} \subseteq Steps
    BY DEF WriteCaseContext, At, Steps
  <2>2. CASE Goes(t, To(t, "launch"))
    BY <1>1, <2>1, <2>2, ToGoes, GoesChanges
  <2>3. CASE Goes(t, Fails(t, "clean"))
    BY <1>1, <2>1, <2>3, FailsHeads, GoesChanges DEF HeadsToFail
  <2>4. QED
    BY <2>2, <2>3 DEF WriteCaseContext
<1>3. Alone(t)
  BY <1>2 DEF Alone, TasksInv, TasksTypeOK, WriteCaseContext, sessions
<1>4. ShapedAt(t)' /\ ActiveAt(t)'
  BY <1>1, <1>2 DEF ShapedAt, ActiveAt, At, HeadsToFail, Early, Agented, Rest, WriteCaseContext, sessions
<1>5. HousedAt(t)'
  BY <1>1, <1>2 DEF HousedAt, NoAgentWorks, WillClean, At, HeadsToFail, WriteCaseContext, sessions
<1>6. DecidedAt(t)'
  BY <1>1, <1>2 DEF DecidedAt, Undecided, At, HeadsToFail, Rest, WriteCaseContext, sessions
<1>7. QED
  BY <1>3, <1>4, <1>5, <1>6, AloneKeeps

\* The session goes into the row.
LEMMA SaveSessionKeeps ==
  ASSUME TasksInv, NEW t \in Task, SaveSession(t)
  PROVE  TasksInv'
<1>1. /\ exec \in [Task -> Execs] /\ row \in [Task -> Rows]
      /\ exec[t].copy \in Rows
      /\ ShapedAt(t) /\ ActiveAt(t) /\ HousedAt(t) /\ DecidedAt(t)
  BY AtHand
<1>2. /\ OnlyOf(t) /\ exec[t].pc = "saveSession" /\ exec'[t].pc = "wait"
  <2>1. exec[t].pc = "saveSession" /\ "wait" \in Steps
    BY DEF SaveSession, At, Steps
  <2> DEFINE e == To(t, "wait")
  <2>2. Goes(t, e) /\ row' = [row EXCEPT ![t] = e.copy]
    BY DEF SaveSession, Saves
  <2>3. e \in Execs /\ e.pc = "wait"
    BY <1>1, <2>1, ToGoes
  <2> HIDE DEF e
  <2>4. QED
    BY <1>1, <2>1, <2>2, <2>3, GoesChanges
<1>3. Alone(t)
  BY <1>2 DEF Alone, TasksInv, TasksTypeOK, SaveSession, sessions
<1>4. ShapedAt(t)' /\ ActiveAt(t)'
  BY <1>1, <1>2 DEF ShapedAt, ActiveAt, At, HeadsToFail, Early, Agented, Rest, SaveSession, sessions
<1>5. HousedAt(t)'
  BY <1>1, <1>2 DEF HousedAt, NoAgentWorks, WillClean, At, HeadsToFail, SaveSession, sessions
<1>6. DecidedAt(t)'
  BY <1>1, <1>2 DEF DecidedAt, Undecided, At, HeadsToFail, Rest, SaveSession, sessions
<1>7. QED
  BY <1>3, <1>4, <1>5, <1>6, AloneKeeps

\* A run that timed out leaves its agent in the worktree, or goes on to stop it.
LEMMA WaitTimesOutKeeps ==
  ASSUME TasksInv, NEW t \in Task, WaitTimesOut(t)
  PROVE  TasksInv'
<1>1. /\ exec \in [Task -> Execs] /\ row \in [Task -> Rows]
      /\ exec[t].copy \in Rows
      /\ ShapedAt(t) /\ ActiveAt(t) /\ HousedAt(t) /\ DecidedAt(t)
  BY AtHand
<1>2. /\ OnlyOf(t) /\ exec[t].pc = "wait" /\ UNCHANGED row
      /\ \/ exec'[t].pc = "resolve" /\ exec'[t].then = "timedOut"
         \/ HeadsToFail(t, "leave")
  <2>1. exec[t].pc = "wait" /\ UNCHANGED row /\ {"resolve", "timedOut", "leave"} \subseteq Steps
    BY DEF WaitTimesOut, At, Steps
  <2> DEFINE e == [exec[t] EXCEPT !.pc = "resolve", !.then = "timedOut"]
  <2>2. e \in Execs /\ e.pc = "resolve" /\ e.then = "timedOut"
    BY <1>1, <2>1 DEF Execs
  <2>3. CASE t \in plan
    <3>1. Goes(t, e)
      BY <2>3 DEF WaitTimesOut
    <3> HIDE DEF e
    <3>2. QED
      BY <1>1, <2>1, <2>2, <3>1, GoesChanges
  <2>4. CASE t \notin plan
    <3>1. Goes(t, Fails(t, "leave"))
      BY <2>4 DEF WaitTimesOut
    <3>2. QED
      BY <1>1, <2>1, <3>1, FailsHeads, GoesChanges DEF HeadsToFail
  <2>5. QED
    BY <2>3, <2>4
<1>3. Alone(t)
  BY <1>2 DEF Alone, TasksInv, TasksTypeOK, WaitTimesOut, sessions
<1>4. ShapedAt(t)' /\ ActiveAt(t)'
  BY <1>1, <1>2 DEF ShapedAt, ActiveAt, At, HeadsToFail, Early, Agented, Rest, WaitTimesOut, sessions
<1>5. HousedAt(t)'
  BY <1>1, <1>2 DEF HousedAt, NoAgentWorks, WillClean, At, HeadsToFail, WaitTimesOut, sessions
<1>6. DecidedAt(t)'
  BY <1>1, <1>2 DEF DecidedAt, Undecided, At, HeadsToFail, Rest, WaitTimesOut, sessions
<1>7. QED
  BY <1>3, <1>4, <1>5, <1>6, AloneKeeps

\* The end of the session goes into the row, except for a plan case.
LEMMA FinishKeeps ==
  ASSUME TasksInv, NEW t \in Task, Finish(t)
  PROVE  TasksInv'
<1>1. /\ exec \in [Task -> Execs] /\ row \in [Task -> Rows]
      /\ exec[t].copy \in Rows
      /\ ShapedAt(t) /\ ActiveAt(t) /\ HousedAt(t) /\ DecidedAt(t)
  BY AtHand
<1>2. /\ OnlyOf(t) /\ exec[t].pc = "finish" /\ exec'[t].pc = "judge"
  <2>1. exec[t].pc = "finish" /\ "judge" \in Steps
    BY DEF Finish, At, Steps
  <2>2. Goes(t, To(t, "judge"))
    BY DEF Finish, Saves
  <2>3. UNCHANGED row \/ row' = [row EXCEPT ![t] = To(t, "judge").copy]
    BY DEF Finish, Saves
  <2>4. QED
    BY <1>1, <2>1, <2>2, <2>3, ToGoes, GoesChanges
<1>3. Alone(t)
  BY <1>2 DEF Alone, TasksInv, TasksTypeOK, Finish, sessions
<1>4. ShapedAt(t)' /\ ActiveAt(t)'
  BY <1>1, <1>2 DEF ShapedAt, ActiveAt, At, HeadsToFail, Early, Agented, Rest, Finish, sessions
<1>5. HousedAt(t)'
  BY <1>1, <1>2 DEF HousedAt, NoAgentWorks, WillClean, At, HeadsToFail, Finish, sessions
<1>6. DecidedAt(t)'
  BY <1>1, <1>2 DEF DecidedAt, Undecided, At, HeadsToFail, Rest, Finish, sessions
<1>7. QED
  BY <1>3, <1>4, <1>5, <1>6, AloneKeeps

\* A plan case is called back once it is decided.
LEMMA FireCallbackKeeps ==
  ASSUME TasksInv, NEW t \in Task, FireCallback(t)
  PROVE  TasksInv'
<1>1. /\ exec \in [Task -> Execs] /\ row \in [Task -> Rows]
      /\ exec[t].copy \in Rows
      /\ ShapedAt(t) /\ ActiveAt(t) /\ HousedAt(t) /\ DecidedAt(t)
  BY AtHand
<1>2. /\ OnlyOf(t) /\ UNCHANGED row
      /\ \/ exec[t].pc = "report" /\ exec'[t].pc = "clean"
         \/ exec[t].pc = "reportKept" /\ exec'[t].pc = "leave"
  <2>1. UNCHANGED row /\ {"clean", "leave"} \subseteq Steps
    BY DEF FireCallback, Steps
  <2>2. CASE At(t, "report") /\ Goes(t, To(t, "clean"))
    BY <1>1, <2>1, <2>2, ToGoes, GoesChanges DEF At
  <2>3. CASE At(t, "reportKept") /\ Goes(t, To(t, "leave"))
    BY <1>1, <2>1, <2>3, ToGoes, GoesChanges DEF At
  <2>4. QED
    BY <2>2, <2>3 DEF FireCallback
<1>3. Alone(t)
  BY <1>2 DEF Alone, TasksInv, TasksTypeOK, FireCallback, sessions
<1>4. ShapedAt(t)' /\ ActiveAt(t)'
  BY <1>1, <1>2 DEF ShapedAt, ActiveAt, At, HeadsToFail, Early, Agented, Rest, FireCallback, sessions
<1>5. HousedAt(t)'
  BY <1>1, <1>2 DEF HousedAt, NoAgentWorks, WillClean, At, HeadsToFail, FireCallback, sessions
<1>6. DecidedAt(t)'
  BY <1>1, <1>2 DEF DecidedAt, Undecided, At, HeadsToFail, Rest, FireCallback, sessions
<1>7. QED
  BY <1>3, <1>4, <1>5, <1>6, AloneKeeps

\* The worktree is given up where no agent works in it.
LEMMA CleanupWorktreeKeeps ==
  ASSUME TasksInv, NEW t \in Task, CleanupWorktree(t)
  PROVE  TasksInv'
<1>1. /\ exec \in [Task -> Execs] /\ row \in [Task -> Rows]
      /\ exec[t].copy \in Rows
      /\ ShapedAt(t) /\ ActiveAt(t) /\ HousedAt(t) /\ DecidedAt(t)
  BY AtHand
<1>2. /\ OnlyOf(t) /\ exec[t].pc = "clean" /\ UNCHANGED row /\ exec'[t].pc = "leave"
  <2>1. exec[t].pc = "clean" /\ UNCHANGED row /\ "leave" \in Steps
    BY DEF CleanupWorktree, At, Steps
  <2>2. Goes(t, To(t, "leave"))
    BY DEF CleanupWorktree
  <2>3. QED
    BY <1>1, <2>1, <2>2, ToGoes, GoesChanges
<1>3. Alone(t)
  BY <1>2 DEF Alone, TasksInv, TasksTypeOK, CleanupWorktree, sessions
<1>4. ShapedAt(t)' /\ ActiveAt(t)'
  BY <1>1, <1>2 DEF ShapedAt, ActiveAt, At, HeadsToFail, Early, Agented, Rest, CleanupWorktree, sessions
<1>5. HousedAt(t)'
  BY <1>1, <1>2 DEF HousedAt, NoAgentWorks, WillClean, At, HeadsToFail, CleanupWorktree, sessions
<1>6. DecidedAt(t)'
  BY <1>1, <1>2 DEF DecidedAt, Undecided, At, HeadsToFail, Rest, CleanupWorktree, sessions
<1>7. QED
  BY <1>3, <1>4, <1>5, <1>6, AloneKeeps

\* The claim goes with the goroutine, which has decided the task.
LEMMA LeaveKeeps ==
  ASSUME TasksInv, NEW t \in Task, Leave(t)
  PROVE  TasksInv'
<1>1. /\ exec \in [Task -> Execs] /\ row \in [Task -> Rows]
      /\ exec[t].copy \in Rows
      /\ ShapedAt(t) /\ ActiveAt(t) /\ HousedAt(t) /\ DecidedAt(t)
  BY AtHand
<1>2. /\ OnlyOf(t) /\ exec[t].pc = "leave" /\ UNCHANGED row /\ exec'[t].pc = "none"
  <2>1. exec[t].pc = "leave" /\ UNCHANGED row /\ NoExecutor \in Execs /\ NoExecutor.pc = "none"
    BY DEF Leave, At, NoExecutor, Execs, Steps, Finals, NoRow, Rows, SessionIDs, NoID
  <2>2. Goes(t, NoExecutor)
    BY DEF Leave
  <2>3. QED
    BY <1>1, <2>1, <2>2, GoesChanges
<1>3. Alone(t)
  BY <1>2 DEF Alone, TasksInv, TasksTypeOK, Leave, sessions
<1>4. ShapedAt(t)' /\ ActiveAt(t)'
  BY <1>1, <1>2 DEF ShapedAt, ActiveAt, At, HeadsToFail, Early, Agented, Rest, Leave, sessions
<1>5. HousedAt(t)'
  BY <1>1, <1>2 DEF HousedAt, NoAgentWorks, WillClean, At, HeadsToFail, Leave, sessions
<1>6. DecidedAt(t)'
  BY <1>1, <1>2 DEF DecidedAt, Undecided, At, HeadsToFail, Rest, Leave, sessions
<1>7. QED
  BY <1>3, <1>4, <1>5, <1>6, AloneKeeps

\* The task waits for a person.
LEMMA AwaitApprovalKeeps ==
  ASSUME TasksInv, NEW t \in Task, AwaitApproval(t)
  PROVE  TasksInv'
<1>1. /\ exec \in [Task -> Execs] /\ row \in [Task -> Rows]
      /\ exec[t].copy \in Rows
      /\ ShapedAt(t) /\ ActiveAt(t) /\ HousedAt(t) /\ DecidedAt(t)
  BY AtHand
<1>2. /\ OnlyOf(t) /\ exec[t].pc = "decide" /\ exec'[t].pc = "leave"
      /\ row'[t].status = "awaiting_approval"
  <2> DEFINE r == [exec[t].copy EXCEPT !.status = "awaiting_approval"]
             e == Copy(t, To(t, "leave"), r)
  <2>1. exec[t].pc = "decide" /\ "leave" \in Steps /\ "awaiting_approval" \in Statuses
    BY DEF AwaitApproval, At, Steps, Statuses
  <2>2. r \in Rows /\ r.status = "awaiting_approval" /\ To(t, "leave") \in Execs
        /\ To(t, "leave").pc = "leave"
    BY <1>1, <2>1, ToGoes, RowsOfCopies
  <2>3. e \in Execs /\ e.pc = "leave" /\ e.copy.status = "awaiting_approval"
    BY <2>2, CopyChanges
  <2>4. Goes(t, e) /\ row' = [row EXCEPT ![t] = e.copy]
    BY DEF AwaitApproval, Saves
  <2> HIDE DEF e
  <2>5. QED
    BY <1>1, <2>1, <2>3, <2>4, GoesChanges
<1>3. Alone(t)
  BY <1>2 DEF Alone, TasksInv, TasksTypeOK, AwaitApproval, sessions
<1>4. ShapedAt(t)' /\ ActiveAt(t)'
  BY <1>1, <1>2 DEF ShapedAt, ActiveAt, At, HeadsToFail, Early, Agented, Rest, AwaitApproval, sessions
<1>5. HousedAt(t)'
  BY <1>1, <1>2 DEF HousedAt, NoAgentWorks, WillClean, At, HeadsToFail, AwaitApproval, sessions
<1>6. DecidedAt(t)'
  BY <1>1, <1>2 DEF DecidedAt, Undecided, At, HeadsToFail, Rest, AwaitApproval, sessions
<1>7. QED
  BY <1>3, <1>4, <1>5, <1>6, AloneKeeps

\* An agent is started where no other works.
LEMMA StartSessionKeeps ==
  ASSUME TasksInv, NEW t \in Task, StartSession(t)
  PROVE  TasksInv'
<1>1. /\ exec \in [Task -> Execs] /\ row \in [Task -> Rows]
      /\ exec[t].copy \in Rows
      /\ ShapedAt(t) /\ ActiveAt(t) /\ HousedAt(t) /\ DecidedAt(t)
  BY AtHand
<1>2. /\ OnlyOf(t) /\ exec[t].pc = "launch" /\ UNCHANGED row
      /\ \/ /\ exec'[t].pc = "saveSession" /\ runs' = [runs EXCEPT ![t] = runs[t] + 1]
            /\ agent' = [agent EXCEPT ![t][runs[t] + 1] = "running"]
         \/ HeadsToFail(t, "clean") /\ UNCHANGED <<runs, agent>>
  <2>1. /\ exec[t].pc = "launch" /\ UNCHANGED row /\ runs[t] + 1 \in Run
        /\ {"saveSession", "clean"} \subseteq Steps
    BY <1>1, MaxRunsAssumption
    DEF StartSession, At, Steps, ShapedAt, Early, Run, TasksInv, TasksTypeOK
  <2> DEFINE r == [exec[t].copy EXCEPT !.sid = <<"temp", runs[t] + 1>>]
             e == Copy(t, To(t, "saveSession"), r)
  <2>2. <<"temp", runs[t] + 1>> \in SessionIDs
    BY <2>1 DEF SessionIDs
  <2>3. r \in Rows /\ To(t, "saveSession") \in Execs /\ To(t, "saveSession").pc = "saveSession"
    BY <1>1, <2>1, <2>2, ToGoes, RowsOfCopies
  <2>4. e \in Execs /\ e.pc = "saveSession"
    BY <2>3, CopyChanges
  <2>5. \/ /\ runs' = [runs EXCEPT ![t] = runs[t] + 1]
           /\ agent' = [agent EXCEPT ![t][runs[t] + 1] = "running"]
           /\ Goes(t, e)
        \/ Goes(t, Fails(t, "clean")) /\ UNCHANGED <<runs, agent>>
    BY DEF StartSession
  <2>6. CASE Goes(t, e)
    <3> HIDE DEF e
    <3>1. OnlyOf(t) /\ exec'[t].pc = "saveSession"
      BY <1>1, <2>1, <2>4, <2>6, GoesChanges
    <3>2. CASE UNCHANGED <<runs, agent>> /\ Goes(t, Fails(t, "clean"))
      BY <1>1, <2>1, <3>1, <3>2, FailsHeads, GoesChanges DEF HeadsToFail
    <3>3. QED
      BY <2>1, <2>5, <3>1, <3>2
  <2>7. CASE Goes(t, Fails(t, "clean")) /\ UNCHANGED <<runs, agent>>
    BY <1>1, <2>1, <2>7, FailsHeads, GoesChanges DEF HeadsToFail
  <2>8. QED
    BY <2>5, <2>6, <2>7
<1>3. /\ runs[t] \in Nat /\ runs[t] + 1 \in Run /\ runs[t] + 1 \in 0..MaxRuns
      /\ runs \in [Task -> 0..MaxRuns]
      /\ agent \in [Task -> [Run -> Ended \cup {"none", "running"}]]
  BY <1>1, <1>2, MaxRunsAssumption
  DEF ShapedAt, Early, Run, TasksInv, TasksTypeOK
<1>4. /\ runs' \in [Task -> 0..MaxRuns]
      /\ agent' \in [Task -> [Run -> Ended \cup {"none", "running"}]]
      /\ \A u \in Task \ {t} : runs'[u] = runs[u] /\ agent'[u] = agent[u]
  BY <1>2, <1>3
<1>5. Alone(t)
  BY <1>2, <1>4 DEF Alone, TasksInv, TasksTypeOK, StartSession
<1>6. ShapedAt(t)' /\ ActiveAt(t)'
  <2>1. active' = active
    BY DEF StartSession
  <2>2. runs'[t] # 0 \/ HeadsToFail(t, "clean")
    BY <1>2, <1>3
  <2>3. exec'[t].pc = "saveSession" \/ HeadsToFail(t, "clean")
    BY <1>2
  <2>4. t \in tree' <=> t \in tree
    BY DEF StartSession
  <2>5. QED
    BY <1>1, <1>2, <2>1, <2>2, <2>3, <2>4
    DEF ShapedAt, ActiveAt, At, HeadsToFail, Early, Agented, Rest
<1>7. HousedAt(t)'
  <2>1. \A n \in Run : agent[t][n] # "running"
    BY <1>1, <1>2 DEF HousedAt, NoAgentWorks
  <2>2. t \in tree' <=> t \in tree
    BY DEF StartSession
  <2>3. CASE agent' = [agent EXCEPT ![t][runs[t] + 1] = "running"]
             /\ runs' = [runs EXCEPT ![t] = runs[t] + 1] /\ exec'[t].pc = "saveSession"
    <3>1. runs'[t] = runs[t] + 1
      BY <1>3, <2>3
    <3>2. \A n \in Run : agent'[t][n] = "running" => n = runs[t] + 1
      BY <1>3, <2>1, <2>3
    <3>3. t \in tree
      BY <1>1, <1>2 DEF ShapedAt
    <3>4. QED
      BY <2>2, <2>3, <3>1, <3>2, <3>3 DEF HousedAt, NoAgentWorks, WillClean
  <2>4. CASE UNCHANGED agent
    BY <2>1, <2>4 DEF HousedAt
  <2>5. QED
    BY <1>2, <2>3, <2>4
<1>8. DecidedAt(t)'
  BY <1>1, <1>2 DEF DecidedAt, Undecided, At, HeadsToFail, Rest, StartSession
<1>9. QED
  BY <1>5, <1>6, <1>7, <1>8, AloneKeeps

\* The wait is over when the latest run's agent has ended.
LEMMA WaitEndsKeeps ==
  ASSUME TasksInv, NEW t \in Task, WaitEnds(t)
  PROVE  TasksInv'
<1>1. /\ exec \in [Task -> Execs] /\ row \in [Task -> Rows]
      /\ exec[t].copy \in Rows
      /\ ShapedAt(t) /\ ActiveAt(t) /\ HousedAt(t) /\ DecidedAt(t)
  BY AtHand
<1>2. /\ OnlyOf(t) /\ exec[t].pc = "wait" /\ UNCHANGED row
      /\ exec'[t].pc = "resolve" /\ exec'[t].then = "finish"
      /\ agent[t][runs[t]] # "running"
  <2>1. /\ exec[t].pc = "wait" /\ UNCHANGED row
        /\ {"resolve", "finish"} \subseteq Steps /\ agent[t][runs[t]] \in Ended
    BY DEF WaitEnds, At, Steps
  <2>2. PICK f \in Finals : Goes(t, [exec[t] EXCEPT !.pc = "resolve", !.then = "finish",
                                                    !.final = f])
    BY <2>1 DEF WaitEnds, Finals, Ended
  <2> DEFINE e == [exec[t] EXCEPT !.pc = "resolve", !.then = "finish", !.final = f]
  <2>3. e \in Execs /\ e.pc = "resolve" /\ e.then = "finish"
    BY <1>1, <2>1 DEF Execs
  <2>4. Goes(t, e)
    BY <2>2
  <2> HIDE DEF e
  <2>5. QED
    BY <1>1, <2>1, <2>3, <2>4, GoesChanges DEF Ended
<1>3. Alone(t)
  BY <1>2 DEF Alone, TasksInv, TasksTypeOK, WaitEnds, sessions
<1>4. ShapedAt(t)' /\ ActiveAt(t)'
  BY <1>1, <1>2 DEF ShapedAt, ActiveAt, At, HeadsToFail, Early, Agented, Rest, WaitEnds, sessions
<1>5. HousedAt(t)'
  BY <1>1, <1>2 DEF HousedAt, NoAgentWorks, WillClean, At, HeadsToFail, WaitEnds, sessions
<1>6. DecidedAt(t)'
  BY <1>1, <1>2 DEF DecidedAt, Undecided, At, HeadsToFail, Rest, WaitEnds, sessions
<1>7. QED
  BY <1>3, <1>4, <1>5, <1>6, AloneKeeps

\* The session's own ID may go into the row; the run goes on to what called for it.
LEMMA PersistResolvedKeeps ==
  ASSUME TasksInv, NEW t \in Task, PersistResolved(t)
  PROVE  TasksInv'
<1>1. /\ exec \in [Task -> Execs] /\ row \in [Task -> Rows]
      /\ exec[t].copy \in Rows
      /\ ShapedAt(t) /\ ActiveAt(t) /\ HousedAt(t) /\ DecidedAt(t)
  BY AtHand
<1>2. /\ OnlyOf(t) /\ exec[t].pc = "resolve" /\ exec'[t].pc = exec[t].then
      /\ exec'[t].then = exec[t].then /\ exec'[t].after = exec[t].after
  <2> DEFINE sid == exec[t].copy.sid
             next == To(t, exec[t].then)
             r == [exec[t].copy EXCEPT !.sid = <<"real", sid[2]>>]
             e == Copy(t, next, r)
  <2>1. exec[t].pc = "resolve" /\ exec[t].then \in Steps /\ sid \in SessionIDs
    BY <1>1 DEF PersistResolved, At, Execs, Rows
  <2>2. /\ next \in Execs /\ next.pc = exec[t].then
        /\ next.then = exec[t].then /\ next.after = exec[t].after
    BY <1>1, <2>1 DEF To, Execs
  <2>3. CASE sid[1] = "temp" /\ <<t, sid[2]>> \in resolved
    <3>1. <<"real", sid[2]>> \in SessionIDs
      BY <2>1, <2>3 DEF SessionIDs
    <3>2. r \in Rows
      BY <1>1, <3>1, RowsOfCopies
    <3> HIDE DEF next, r
    <3>3. /\ e \in Execs /\ e.pc = exec[t].then
          /\ e.then = exec[t].then /\ e.after = exec[t].after
      BY <2>2, <3>2, CopyChanges
    <3>4. Goes(t, e) /\ row' = [row EXCEPT ![t] = e.copy]
      BY <2>3 DEF PersistResolved, Saves, next, r
    <3> HIDE DEF e
    <3>5. QED
      BY <1>1, <2>1, <3>3, <3>4, GoesChanges
  <2>4. CASE ~(sid[1] = "temp" /\ <<t, sid[2]>> \in resolved)
    <3>1. Goes(t, next) /\ UNCHANGED row
      BY <2>4 DEF PersistResolved
    <3> HIDE DEF next
    <3>2. QED
      BY <1>1, <2>1, <2>2, <3>1, GoesChanges
  <2>5. QED
    BY <2>3, <2>4
<1>3. Alone(t)
  BY <1>2 DEF Alone, TasksInv, TasksTypeOK, PersistResolved, sessions
<1>4. ShapedAt(t)' /\ ActiveAt(t)'
  BY <1>1, <1>2 DEF ShapedAt, ActiveAt, At, HeadsToFail, Early, Agented, Rest, PersistResolved, sessions
<1>5. HousedAt(t)'
  BY <1>1, <1>2 DEF ShapedAt, HousedAt, NoAgentWorks, WillClean, At, HeadsToFail, PersistResolved, sessions
<1>6. DecidedAt(t)'
  BY <1>1, <1>2 DEF ShapedAt, DecidedAt, Undecided, At, HeadsToFail, Rest, PersistResolved, sessions
<1>7. QED
  BY <1>3, <1>4, <1>5, <1>6, AloneKeeps

\* A plan case that timed out stops its agent before it is reported.
LEMMA StopTimedOutKeeps ==
  ASSUME TasksInv, NEW t \in Task, StopTimedOut(t)
  PROVE  TasksInv'
<1>1. /\ exec \in [Task -> Execs] /\ row \in [Task -> Rows]
      /\ exec[t].copy \in Rows
      /\ ShapedAt(t) /\ ActiveAt(t) /\ HousedAt(t) /\ DecidedAt(t)
  BY AtHand
<1>2. /\ OnlyOf(t) /\ exec[t].pc = "timedOut" /\ HeadsToFail(t, "reportKept")
  <2> DEFINE e == Fails(t, "reportKept")
  <2>1. exec[t].pc = "timedOut" /\ "reportKept" \in Steps
    BY DEF StopTimedOut, At, Steps
  <2>2. e \in Execs /\ e.pc = "resolve" /\ e.then = "fail" /\ e.after = "reportKept"
    BY <1>1, <2>1, FailsHeads
  <2>3. Goes(t, e) /\ row' = [row EXCEPT ![t] = e.copy]
    BY DEF StopTimedOut, Saves
  <2> HIDE DEF e
  <2>4. QED
    BY <1>1, <2>1, <2>2, <2>3, GoesChanges DEF HeadsToFail
<1>3. Alone(t)
  BY <1>2 DEF Alone, TasksInv, TasksTypeOK, StopTimedOut, Ended, Run
<1>4. ShapedAt(t)' /\ ActiveAt(t)'
  BY <1>1, <1>2 DEF ShapedAt, ActiveAt, At, HeadsToFail, Early, Agented, Rest, StopTimedOut, Ended, Run
<1>5. HousedAt(t)'
  BY <1>1, <1>2 DEF HousedAt, NoAgentWorks, WillClean, At, HeadsToFail, StopTimedOut, Ended, Run
<1>6. DecidedAt(t)'
  BY <1>1, <1>2 DEF DecidedAt, Undecided, At, HeadsToFail, Rest, StopTimedOut, Ended, Run
<1>7. QED
  BY <1>3, <1>4, <1>5, <1>6, AloneKeeps

\* A run that failed says so in the row.
LEMMA FailTaskKeeps ==
  ASSUME TasksInv, NEW t \in Task, FailTask(t)
  PROVE  TasksInv'
<1>1. /\ exec \in [Task -> Execs] /\ row \in [Task -> Rows]
      /\ exec[t].copy \in Rows
      /\ ShapedAt(t) /\ ActiveAt(t) /\ HousedAt(t) /\ DecidedAt(t)
  BY AtHand
<1>2. /\ OnlyOf(t) /\ exec[t].pc = "fail" /\ exec'[t].pc = exec[t].after
      /\ row'[t].status = "failed"
  <2> DEFINE next == exec[t].after
             r == [exec[t].copy EXCEPT !.status = "failed"]
             e == Copy(t, To(t, next), r)
  <2>1. exec[t].pc = "fail" /\ next \in Steps /\ "failed" \in Statuses
    BY <1>1 DEF FailTask, At, Execs, Statuses
  <2>2. /\ r \in Rows /\ r.status = "failed" /\ To(t, next) \in Execs
        /\ To(t, next).pc = next
    BY <1>1, <2>1, ToGoes, RowsOfCopies
  <2>3. e \in Execs /\ e.pc = next /\ e.copy.status = "failed"
    BY <2>2, CopyChanges
  <2>4. Goes(t, e) /\ row' = [row EXCEPT ![t] = e.copy]
    BY DEF FailTask, Saves
  <2> HIDE DEF e
  <2>5. QED
    BY <1>1, <2>1, <2>3, <2>4, GoesChanges
<1>3. Alone(t)
  BY <1>2 DEF Alone, TasksInv, TasksTypeOK, FailTask, sessions
<1>4. ShapedAt(t)' /\ ActiveAt(t)'
  BY <1>1, <1>2 DEF ShapedAt, ActiveAt, At, HeadsToFail, Early, Agented, Rest, FailTask, sessions
<1>5. HousedAt(t)'
  BY <1>1, <1>2 DEF ShapedAt, HousedAt, NoAgentWorks, WillClean, At, HeadsToFail, Rest, FailTask, sessions
<1>6. DecidedAt(t)'
  BY <1>1, <1>2 DEF DecidedAt, Undecided, At, HeadsToFail, Rest, FailTask, sessions
<1>7. QED
  BY <1>3, <1>4, <1>5, <1>6, AloneKeeps

\* What the session ended in decides what is next.
LEMMA JudgeKeeps ==
  ASSUME TasksInv, NEW t \in Task, Judge(t)
  PROVE  TasksInv'
<1>1. /\ exec \in [Task -> Execs] /\ row \in [Task -> Rows]
      /\ exec[t].copy \in Rows
      /\ ShapedAt(t) /\ ActiveAt(t) /\ HousedAt(t) /\ DecidedAt(t)
  BY AtHand
<1>2. /\ OnlyOf(t) /\ exec[t].pc = "judge"
      /\ \/ HeadsToFail(t, "report") \/ HeadsToFail(t, "leave")
         \/ exec'[t].pc = "report" /\ row'[t].status = "completed"
         \/ exec'[t].pc = "decide"
  <2> DEFINE ill == exec[t].final \in {"error", "stopped"}
  <2>1. /\ exec[t].pc = "judge" /\ {"report", "leave", "decide"} \subseteq Steps
        /\ {"completed", "validating"} \subseteq Statuses
    BY DEF Judge, At, Steps, Statuses
  <2>2. CASE ill
    <3> DEFINE e == Fails(t, IF t \in plan THEN "report" ELSE "leave")
    <3>1. /\ e \in Execs /\ e.pc = "resolve" /\ e.then = "fail"
          /\ e.after = "report" \/ e.after = "leave"
      BY <1>1, <2>1, FailsHeads
    <3>2. Goes(t, e) /\ UNCHANGED row
      BY <2>2 DEF Judge
    <3> HIDE DEF e
    <3>3. QED
      BY <1>1, <2>1, <3>1, <3>2, GoesChanges DEF HeadsToFail
  <2>3. CASE ~ill /\ t \in plan
    <3> DEFINE r == [exec[t].copy EXCEPT !.status = "completed"]
               e == Copy(t, To(t, "report"), r)
    <3>1. r \in Rows /\ r.status = "completed" /\ To(t, "report") \in Execs
          /\ To(t, "report").pc = "report"
      BY <1>1, <2>1, ToGoes, RowsOfCopies
    <3>2. e \in Execs /\ e.pc = "report" /\ e.copy.status = "completed"
      BY <3>1, CopyChanges
    <3>3. Goes(t, e) /\ row' = [row EXCEPT ![t] = e.copy]
      BY <2>3 DEF Judge, Saves
    <3> HIDE DEF e
    <3>4. QED
      BY <1>1, <2>1, <3>2, <3>3, GoesChanges
  <2>4. CASE ~ill /\ t \notin plan
    <3> DEFINE r == [exec[t].copy EXCEPT !.status = "validating"]
               e == Copy(t, To(t, "decide"), r)
    <3>1. r \in Rows /\ r.status = "validating" /\ To(t, "decide") \in Execs
          /\ To(t, "decide").pc = "decide"
      BY <1>1, <2>1, ToGoes, RowsOfCopies
    <3>2. e \in Execs /\ e.pc = "decide" /\ e.copy.status = "validating"
      BY <3>1, CopyChanges
    <3>3. Goes(t, e) /\ row' = [row EXCEPT ![t] = e.copy]
      BY <2>4 DEF Judge, Saves
    <3> HIDE DEF e
    <3>4. QED
      BY <1>1, <2>1, <3>2, <3>3, GoesChanges
  <2>5. QED
    BY <2>2, <2>3, <2>4
<1>3. Alone(t)
  BY <1>2 DEF Alone, TasksInv, TasksTypeOK, Judge, sessions
<1>4. ShapedAt(t)' /\ ActiveAt(t)'
  BY <1>1, <1>2 DEF ShapedAt, ActiveAt, At, HeadsToFail, Early, Agented, Rest, Judge, sessions
<1>5. HousedAt(t)'
  BY <1>1, <1>2 DEF HousedAt, NoAgentWorks, WillClean, At, HeadsToFail, Judge, sessions
<1>6. DecidedAt(t)'
  BY <1>1, <1>2 DEF DecidedAt, Undecided, At, HeadsToFail, Rest, Judge, sessions
<1>7. QED
  BY <1>3, <1>4, <1>5, <1>6, AloneKeeps

-----------------------------------------------------------------------------
\* The requests, the agents, and cdev going down.

\* A request is a record of its kind, and NoRequest is one.
Requests == [kind: Kinds, task: Task, to: Statuses, copy: Rows]

\* The idle request and the idle goroutine are of their types.
LEMMA NoneTyped ==
  /\ NoRow \in Rows /\ NoRow.status = "absent" /\ NoRow.by = "user"
  /\ NoRequest \in Requests /\ NoRequest.kind = "none"
  /\ NoExecutor \in Execs /\ NoExecutor.pc = "none"
<1>1. NoRow \in Rows /\ NoRow.status = "absent" /\ NoRow.by = "user"
  BY DEF NoRow, Rows, Statuses, SessionIDs, NoID
<1>2. (CHOOSE t \in Task : TRUE) \in Task
  BY TaskAssumption
<1>3. "none" \in Kinds /\ "failed" \in Statuses
  BY DEF Kinds, Statuses
<1>4. NoRequest \in Requests /\ NoRequest.kind = "none"
  BY <1>1, <1>2, <1>3 DEF NoRequest, Requests
<1>5. "none" \in Steps /\ "" \in Finals
  BY DEF Steps, Finals
<1>6. NoExecutor \in Execs /\ NoExecutor.pc = "none"
  BY <1>1, <1>5 DEF NoExecutor, Execs
<1>7. QED
  BY <1>1, <1>4, <1>6

\* What leaves the goroutines, their agents and their worktrees alone keeps
\* the invariant if it keeps the types and the decisions.
LEMMA OutsideKeeps ==
  ASSUME TasksInv, UNCHANGED <<active, exec, tree, runs, agent, interrupted>>,
         TasksTypeOK', DecidedAtLast'
  PROVE  TasksInv'
<1>1. ExecShaped' /\ ActiveIsExecuting'
  BY DEF TasksInv, ExecShaped, ShapedAt, ActiveIsExecuting, ActiveAt, At
<1>2. AgentsAreHoused'
  BY DEF TasksInv, AgentsAreHoused, HousedAt, NoAgentWorks, WillClean
<1>3. QED
  BY <1>1, <1>2 DEF TasksInv

\* No decision is lost with a row that is written by a user or not at all,
\* as long as only tasks whose row is decided get a new spawn request.
LEMMA DecisionsStand ==
  ASSUME TasksInv, UNCHANGED <<exec, interrupted>>,
         \A t \in Task : row'[t] = row[t] \/ ~Undecided(row'[t]),
         \A t \in Task : Spawning(t)' => Spawning(t) \/ ~Undecided(row'[t])
  PROVE  DecidedAtLast'
BY DEF TasksInv, DecidedAtLast, DecidedAt, At

\* A webhook creates a row that no run has written.
LEMMA WebhookKeeps ==
  ASSUME TasksInv, NEW c \in Client, NEW t \in Task, Webhook(c, t)
  PROVE  TasksInv'
<1> DEFINE r == [NoRow EXCEPT !.status = "pending"]
           q == [NoRequest EXCEPT !.kind = "spawn", !.task = t]
<1>1. r \in Rows /\ r.by = "user"
  BY NoneTyped DEF Rows, Statuses
<1>2. q \in Requests /\ q.task = t
  BY NoneTyped DEF Requests, Kinds
<1>3. /\ row' = [row EXCEPT ![t] = r]
      /\ \E p \in BOOLEAN : plan' = IF p THEN plan \cup {t} ELSE plan
      /\ \E auto \in BOOLEAN : req' = IF auto THEN [req EXCEPT ![c] = q] ELSE req
      /\ UNCHANGED <<active, exec, tree, runs, agent, written, resolved, reported,
                     interrupted>>
  BY DEF Webhook
<1> HIDE DEF r, q
<1>4. row \in [Task -> Rows] /\ req \in [Client -> Requests]
  BY DEF TasksInv, TasksTypeOK, Requests
<1>5. TasksTypeOK'
  BY <1>1, <1>2, <1>3, <1>4 DEF TasksInv, TasksTypeOK, Requests
<1>6. \A u \in Task : row'[u] = row[u] \/ ~Undecided(row'[u])
  BY <1>1, <1>3, <1>4 DEF Undecided
<1>7. \A u \in Task : Spawning(u)' => Spawning(u) \/ ~Undecided(row'[u])
  <2>1. row'[t] = r
    BY <1>3, <1>4
  <2>2. \A d \in Client : req'[d] = req[d] \/ req'[d].task = t
    BY <1>2, <1>3, <1>4
  <2>3. QED
    BY <1>1, <2>1, <2>2 DEF Spawning, Undecided
<1>8. QED
  BY <1>3, <1>5, <1>6, <1>7, DecisionsStand, OutsideKeeps

\* A request that reads a row for an update writes nothing yet.
LEMMA ReadsKeep ==
  ASSUME TasksInv, NEW c \in Client, NEW t \in Task, NEW s \in Statuses,
         ReadsForUpdate(c, t, s)
  PROVE  TasksInv'
<1> DEFINE q == [kind |-> "update", task |-> t, to |-> s, copy |-> row[t]]
<1>1. row \in [Task -> Rows] /\ req \in [Client -> Requests]
  BY DEF TasksInv, TasksTypeOK, Requests
<1>2. q \in Requests /\ q.kind = "update"
  BY <1>1 DEF Requests, Kinds
<1>3. /\ req' = [req EXCEPT ![c] = q]
      /\ UNCHANGED <<row, plan, active, exec, tree, runs, agent, written, resolved,
                     reported, interrupted>>
  BY DEF ReadsForUpdate
<1> HIDE DEF q
<1>4. TasksTypeOK'
  BY <1>1, <1>2, <1>3 DEF TasksInv, TasksTypeOK, Requests
<1>5. \A u \in Task : Spawning(u)' => Spawning(u)
  BY <1>1, <1>2, <1>3 DEF Spawning
<1>6. QED
  BY <1>3, <1>4, <1>5, DecisionsStand, OutsideKeeps

\* An update that is written back is the user's.
LEMMA WritesKeep ==
  ASSUME TasksInv, NEW c \in Client, WritesUpdate(c)
  PROVE  TasksInv'
<1> DEFINE t == req[c].task
           r == [req[c].copy EXCEPT !.status = req[c].to, !.by = "user"]
<1>1. row \in [Task -> Rows] /\ req \in [Client -> Requests]
  BY DEF TasksInv, TasksTypeOK, Requests
<1>2. t \in Task /\ r \in Rows /\ r.by = "user"
  <2>1. req[c].copy \in Rows /\ req[c].to \in Statuses /\ t \in Task
    BY <1>1 DEF Requests
  <2>2. QED
    BY <2>1 DEF Rows
<1>3. /\ row' = [row EXCEPT ![t] = r] /\ req' = [req EXCEPT ![c] = NoRequest]
      /\ UNCHANGED <<plan, active, exec, tree, runs, agent, written, resolved, reported,
                     interrupted>>
  BY DEF WritesUpdate
<1> HIDE DEF t, r
<1>4. TasksTypeOK'
  BY <1>1, <1>2, <1>3, NoneTyped DEF TasksInv, TasksTypeOK, Requests
<1>5. \A u \in Task : row'[u] = row[u] \/ ~Undecided(row'[u])
  BY <1>1, <1>2, <1>3 DEF Undecided
<1>6. \A u \in Task : Spawning(u)' => Spawning(u)
  BY <1>1, <1>3, NoneTyped DEF Spawning
<1>7. QED
  BY <1>3, <1>4, <1>5, <1>6, DecisionsStand, OutsideKeeps

\* Only a task whose row is decided gets a spawn request.
LEMMA SpawnRequestKeeps ==
  ASSUME TasksInv, NEW c \in Client, NEW t \in Task, HandleTaskSpawn(c, t)
  PROVE  TasksInv'
<1> DEFINE q == [NoRequest EXCEPT !.kind = "spawn", !.task = t]
<1>1. row \in [Task -> Rows] /\ req \in [Client -> Requests]
  BY DEF TasksInv, TasksTypeOK, Requests
<1>2. q \in Requests /\ q.task = t
  BY NoneTyped DEF Requests, Kinds
<1>3. /\ req' = [req EXCEPT ![c] = q] /\ row[t].status \in {"pending", "failed", "stuck"}
      /\ UNCHANGED <<row, plan, active, exec, tree, runs, agent, written, resolved,
                     reported, interrupted>>
  BY DEF HandleTaskSpawn
<1> HIDE DEF q
<1>4. TasksTypeOK'
  BY <1>1, <1>2, <1>3 DEF TasksInv, TasksTypeOK, Requests
<1>5. \A u \in Task : Spawning(u)' => Spawning(u) \/ ~Undecided(row'[u])
  <2>1. \A d \in Client : req'[d] = req[d] \/ req'[d].task = t
    BY <1>1, <1>2, <1>3
  <2>2. QED
    BY <1>3, <2>1 DEF Spawning, Undecided
<1>6. QED
  BY <1>3, <1>4, <1>5, DecisionsStand, OutsideKeeps

\* A spawn claims a task that has no goroutine, whose row is decided.
LEMMA SpawnTaskKeeps ==
  ASSUME TasksInv, NEW c \in Client, SpawnTask(c)
  PROVE  TasksInv'
<1> DEFINE t == req[c].task
           e == [NoExecutor EXCEPT !.pc = "begin", !.copy = row[t]]
<1>1. /\ row \in [Task -> Rows] /\ req \in [Client -> Requests]
      /\ exec \in [Task -> Execs]
  BY DEF TasksInv, TasksTypeOK, Requests, Execs
<1>2. t \in Task /\ Spawning(t) /\ runs[t] < MaxRuns
  BY <1>1 DEF SpawnTask, Requests, Spawning
<1>3. e \in Execs /\ e.pc = "begin"
  BY <1>1, <1>2, NoneTyped DEF Execs, Steps
<1>4. /\ req' = [req EXCEPT ![c] = NoRequest] /\ active' = active \cup {t}
      /\ UNCHANGED <<row, plan, tree, runs, agent, written, resolved>>
      /\ t \notin active => /\ exec' = [exec EXCEPT ![t] = e]
                           /\ reported' = [reported EXCEPT ![t] = 0]
                           /\ interrupted' = interrupted \ {t}
      /\ t \in active => UNCHANGED <<exec, reported, interrupted>>
  BY DEF SpawnTask
<1> HIDE DEF t, e
<1>5. \A u \in Task : Spawning(u)' => Spawning(u)
  BY <1>1, <1>4, NoneTyped DEF Spawning
<1>6. TasksTypeOK'
  <2>1. req' \in [Client -> Requests] /\ exec' \in [Task -> Execs]
    BY <1>1, <1>3, <1>4, NoneTyped
  <2>2. reported' \in [Task -> Nat] /\ interrupted' \subseteq Task
    BY <1>2, <1>4 DEF TasksInv, TasksTypeOK
  <2>3. active' \subseteq Task
    BY <1>2, <1>4 DEF TasksInv, TasksTypeOK
  <2>4. QED
    BY <1>4, <2>1, <2>2, <2>3 DEF TasksInv, TasksTypeOK, Requests, Execs
<1>7. CASE t \in active
  <2>1. active' = active
    BY <1>4, <1>7
  <2>2. DecidedAtLast'
    BY <1>4, <1>5, <1>7, DecisionsStand
  <2>3. QED
    BY <1>4, <1>6, <1>7, <2>1, <2>2, OutsideKeeps
<1>8. CASE t \notin active
  <2>1. exec'[t].pc = "begin" /\ \A u \in Task \ {t} : exec'[u] = exec[u]
    BY <1>1, <1>2, <1>3, <1>4, <1>8
  <2>2. exec[t].pc = "none" /\ ~Undecided(row[t])
    BY <1>2, <1>8
    DEF TasksInv, ActiveIsExecuting, ActiveAt, DecidedAtLast, DecidedAt, At
  <2>3. ExecShaped'
    BY <1>2, <1>4, <2>1 DEF TasksInv, ExecShaped, ShapedAt, At, Early, Agented
  <2>4. ActiveIsExecuting'
    BY <1>2, <1>4, <2>1 DEF TasksInv, ActiveIsExecuting, ActiveAt, At
  <2>5. AgentsAreHoused'
    BY <1>4, <2>1 DEF TasksInv, AgentsAreHoused, HousedAt, NoAgentWorks, WillClean
  <2>6. DecidedAtLast'
    BY <1>4, <1>5, <1>8, <2>1, <2>2 DEF TasksInv, DecidedAtLast, DecidedAt, At
  <2>7. QED
    BY <1>6, <2>3, <2>4, <2>5, <2>6 DEF TasksInv
<1>9. QED
  BY <1>7, <1>8

\* A transcript, and what the manager learns from it, disturb no run.
LEMMA TranscriptsKeep ==
  ASSUME TasksInv, NEW t \in Task,
         ResolveSessionID(t) \/ \E n \in Run : WritesTranscript(t, n)
  PROVE  TasksInv'
<1>1. /\ UNCHANGED <<row, plan, active, exec, req, tree, runs, agent, reported, interrupted>>
      /\ written' \subseteq Task \X Run /\ resolved' \subseteq written'
  <2>1. written \subseteq Task \X Run /\ resolved \subseteq written
    BY DEF TasksInv, TasksTypeOK
  <2>2. CASE ResolveSessionID(t)
    BY <2>1, <2>2 DEF ResolveSessionID
  <2>3. CASE \E n \in Run : WritesTranscript(t, n)
    BY <2>1, <2>3 DEF WritesTranscript
  <2>4. QED
    BY <2>2, <2>3
<1>2. TasksTypeOK'
  BY <1>1 DEF TasksInv, TasksTypeOK
<1>3. \A u \in Task : Spawning(u)' => Spawning(u)
  BY <1>1 DEF Spawning
<1>4. QED
  BY <1>1, <1>2, <1>3, DecisionsStand, OutsideKeeps

\* An agent that ends is one less to keep apart.
LEMMA AgentEndsKeeps ==
  ASSUME TasksInv, NEW t \in Task, NEW n \in Run, AgentEnds(t, n)
  PROVE  TasksInv'
<1>1. PICK s \in Ended : agent' = [agent EXCEPT ![t][n] = s]
  BY DEF AgentEnds
<1>2. UNCHANGED <<row, plan, active, exec, req, tree, runs, written, resolved, reported,
                  interrupted>>
  BY DEF AgentEnds
<1>3. agent \in [Task -> [Run -> Ended \cup {"none", "running"}]]
  BY DEF TasksInv, TasksTypeOK
<1>4. TasksTypeOK'
  BY <1>1, <1>2, <1>3 DEF TasksInv, TasksTypeOK
<1>5. \A u \in Task : \A m \in Run : agent'[u][m] = "running" => agent[u][m] = "running"
  BY <1>1, <1>3 DEF Ended
<1>6. AgentsAreHoused'
  BY <1>2, <1>5 DEF TasksInv, AgentsAreHoused, HousedAt, NoAgentWorks, WillClean
<1>7. ExecShaped' /\ ActiveIsExecuting'
  BY <1>2 DEF TasksInv, ExecShaped, ShapedAt, ActiveIsExecuting, ActiveAt, At
<1>8. DecidedAtLast'
  BY <1>2 DEF TasksInv, DecidedAtLast, DecidedAt, Spawning, At
<1>9. QED
  BY <1>4, <1>6, <1>7, <1>8 DEF TasksInv

\* A crash ends every goroutine, and no agent; what it cuts short is marked.
LEMMA RestartKeeps ==
  ASSUME TasksInv, Restart
  PROVE  TasksInv'
<1>1. PICK newest \in [Task -> Run] : row' = [t \in Task |-> Repaired(t, newest[t])]
  BY DEF Restart
<1>2. /\ active' = {} /\ exec' = [t \in Task |-> NoExecutor]
      /\ req' = [c \in Client |-> NoRequest] /\ resolved' = {}
      /\ interrupted' = interrupted \cup {t \in Task : ~At(t, "none")}
      /\ UNCHANGED <<plan, tree, runs, agent, written, reported>>
  BY DEF Restart
<1>3. \A t \in Task : /\ row'[t] \in Rows /\ row'[t].status = row[t].status
                     /\ row'[t].by = row[t].by
  <2> TAKE t \in Task
  <2>1. newest[t] \in Run /\ <<"real", newest[t]>> \in SessionIDs /\ row[t] \in Rows
    BY DEF SessionIDs, TasksInv, TasksTypeOK
  <2>2. row'[t] = row[t] \/ row'[t] = [row[t] EXCEPT !.sid = <<"real", newest[t]>>]
    BY <1>1 DEF Repaired
  <2>3. QED
    BY <2>1, <2>2 DEF Rows
<1>4. row' \in [Task -> Rows]
  BY <1>1, <1>3
<1>5. TasksTypeOK'
  <2>1. req' \in [Client -> Requests] /\ exec' \in [Task -> Execs]
    BY <1>2, NoneTyped
  <2>2. QED
    BY <1>2, <1>4, <2>1 DEF TasksInv, TasksTypeOK, Requests, Execs
<1>6. \A t \in Task : exec'[t].pc = "none"
  BY <1>2, NoneTyped
<1>7. ExecShaped' /\ ActiveIsExecuting'
  BY <1>2, <1>6 DEF ExecShaped, ShapedAt, ActiveIsExecuting, ActiveAt, At, Early, Agented
<1>8. AgentsAreHoused'
  BY <1>2, <1>6 DEF TasksInv, AgentsAreHoused, HousedAt, NoAgentWorks, WillClean
<1>9. \A t \in Task : ~Spawning(t)'
  BY <1>2, NoneTyped DEF Spawning
<1>10. DecidedAtLast'
  BY <1>2, <1>3, <1>6, <1>9
  DEF TasksInv, DecidedAtLast, DecidedAt, Undecided, At, Rest
<1>11. QED
  BY <1>5, <1>7, <1>8, <1>10 DEF TasksInv

\* Each step keeps the invariant.
LEMMA NextTasks ==
  ASSUME TasksInv, [TasksNext]_taskVars
  PROVE  TasksInv'
<1>1. ASSUME NEW t \in Task, Executes(t) PROVE TasksInv'
  BY <1>1, BeginKeeps, CreateWorktreeKeeps, SaveTreeKeeps, WriteCaseContextKeeps,
     StartSessionKeeps, SaveSessionKeeps, WaitEndsKeeps, WaitTimesOutKeeps,
     PersistResolvedKeeps, StopTimedOutKeeps, FinishKeeps, JudgeKeeps,
     AwaitApprovalKeeps, FailTaskKeeps, FireCallbackKeeps, CleanupWorktreeKeeps,
     LeaveKeeps DEF Executes
<1>2. ASSUME NEW c \in Client, NEW t \in Task,
             \/ HandleTaskApprove(c, t) \/ HandleTaskReject(c, t)
             \/ HandleTaskCancel(c, t) \/ HandleTaskStatusUpdate(c, t)
      PROVE  TasksInv'
  <2>1. {"completed", "running", "failed"} \subseteq Statuses
    BY DEF Statuses
  <2>2. QED
    BY <1>2, <2>1, ReadsKeep
    DEF HandleTaskApprove, HandleTaskReject, HandleTaskCancel, HandleTaskStatusUpdate
<1>3. CASE UNCHANGED taskVars
  <2>1. TasksTypeOK'
    BY <1>3 DEF taskVars, TasksInv, TasksTypeOK
  <2>2. \A t \in Task : Spawning(t)' => Spawning(t)
    BY <1>3 DEF taskVars, Spawning
  <2>3. QED
    BY <1>3, <2>1, <2>2, DecisionsStand, OutsideKeeps DEF taskVars
<1>4. QED
  BY <1>1, <1>2, <1>3, WritesKeep, SpawnTaskKeeps, WebhookKeeps, SpawnRequestKeeps,
     TranscriptsKeep, AgentEndsKeeps, RestartKeeps DEF TasksNext

\* Nothing has been asked for and nothing runs.
LEMMA InitTasks == TasksInit => TasksInv
<1> SUFFICES ASSUME TasksInit PROVE TasksInv
  OBVIOUS
<1>1. req \in [Client -> Requests] /\ exec \in [Task -> Execs] /\ row \in [Task -> Rows]
  BY NoneTyped DEF TasksInit
<1>2. TasksTypeOK
  BY <1>1, MaxRunsAssumption DEF TasksInit, TasksTypeOK, Requests, Execs
<1>3. \A t \in Task : exec[t].pc = "none" /\ ~Undecided(row[t])
  BY NoneTyped DEF TasksInit, Undecided
<1>4. ExecShaped /\ ActiveIsExecuting /\ DecidedAtLast
  BY <1>3 DEF TasksInit, ExecShaped, ShapedAt, ActiveIsExecuting, ActiveAt, At, Early,
              Agented, DecidedAtLast, DecidedAt
<1>5. AgentsAreHoused
  BY DEF TasksInit, AgentsAreHoused, HousedAt
<1>6. QED
  BY <1>2, <1>4, <1>5 DEF TasksInv

\* The invariant holds in every behaviour, whatever the tasks, clients and runs.
THEOREM TasksInvariance == TasksSpec => []TasksInv
BY InitTasks, NextTasks, PTL DEF TasksSpec

\* The runs of a task follow each other: two agents never work in one
\* worktree, and every goroutine that is not cut short leaves a decision in
\* the row, however spawns, updates, timeouts and crashes fall
\* (internal/agent/spawner.go).
THEOREM RunsStayOrderly == TasksSpec => []RunsAreOrderly
<1>1. TasksInv => RunsAreOrderly
  BY DEF TasksInv, RunsAreOrderly, OneAgentPerWorktree, RowsAreDecided,
         AgentsAreHoused, HousedAt, DecidedAtLast, DecidedAt, Undecided
<1>2. QED
  BY <1>1, TasksInvariance, PTL

-----------------------------------------------------------------------------
\* git's files: the calls.

CallSteps == {"idle", "stage", "revParse", "resetHead", "rmCached", "anyStaged", "commit",
              "status", "discardReset", "discardCheckout", "discardRemove",
              "diff", "diffStaged", "diffNewFile", "answered"}
Ops == {"none", "stage", "unstage", "discard", "commit", "diff"}
Answers == {"none", "ok", "error", "unstaged", "staged", "new"}
Calls == [at: CallSteps, op: Ops, paths: SUBSET Files, reset: SUBSET Files,
          checkout: SUBSET Files, remove: SUBSET Files, failed: BOOLEAN,
          http: BOOLEAN, gone: BOOLEAN, answer: Answers]

\* The commands of each operation.
StepsOf(op) ==
  CASE op = "stage"   -> {"stage", "answered"}
    [] op = "unstage" -> {"revParse", "resetHead", "rmCached", "answered"}
    [] op = "commit"  -> {"anyStaged", "commit", "answered"}
    [] op = "discard" -> {"status", "discardReset", "discardCheckout", "discardRemove",
                          "answered"}
    [] op = "diff"    -> {"diff", "diffStaged", "diffNewFile", "answered"}
    [] op = "none"    -> {"idle"}

\* A file of a discard: as the last commit has it, in the index and on disk.
Restored(f) == index[f] = head[f] /\ work[f] = head[f]

\* What the commands that a discard has run have done to file f, whose call
\* is k: index and disk are what they were sorted by, then the index is as
\* committed, then the disk is too.
Sorted(k, f) ==
  /\ f \in k.remove => index[f] = Absent /\ f \notin k.reset /\ f \notin k.checkout
  /\ f \notin k.remove /\ f \notin k.reset => index[f] = head[f]
  /\ f \notin k.remove /\ f \notin k.checkout => Restored(f)
ResetDone(k, f) ==
  /\ f \in k.remove => index[f] = Absent /\ f \notin k.checkout
  /\ f \notin k.remove => index[f] = head[f]
  /\ f \notin k.remove /\ f \notin k.checkout => Restored(f)
CheckoutDone(k, f) ==
  /\ f \in k.remove => index[f] = Absent
  /\ f \notin k.remove => Restored(f)

\* What call k has found out or done, and is so as long as nobody else changes
\* the repository.
Stands(k) ==
  /\ k.at = "discardReset" => \A f \in k.paths : Sorted(k, f)
  /\ k.at = "discardCheckout" /\ ~k.failed => \A f \in k.paths : ResetDone(k, f)
  /\ k.at = "discardRemove" /\ ~k.failed => \A f \in k.paths : CheckoutDone(k, f)
  /\ k.at = "rmCached" => ~born
  /\ k.at \in {"diffStaged", "diffNewFile"} => k.paths \cap Unstaged = {}
  /\ k.at = "diffNewFile" => k.paths \cap Staged = {}

\* What the properties say of an answer.
Honest(k) ==
  k.at = "answered" =>
    /\ k.op = "discard" /\ k.answer = "ok"
          => \A f \in k.paths : Restored(f) \/ (f \in k.remove /\ head[f] # Absent)
    /\ k.op = "unstage" /\ k.answer = "ok" => k.paths \cap Staged = {}
    /\ k.op = "diff" =>
          \A f \in k.paths \cap Listed :
             k.answer = (IF f \in Unstaged THEN "unstaged"
                         ELSE IF f \in Staged THEN "staged" ELSE "new")

CallInv(c) ==
  /\ call[c].at \in StepsOf(call[c].op)
  /\ call[c].remove \subseteq call[c].paths
  /\ call[c].op = "diff" => \E f \in Files : call[c].paths = {f}
  /\ alone[c] => Stands(call[c]) /\ Honest(call[c])

\* Before the first commit there is nothing in it.
NothingCommitted == ~born => \A f \in Files : head[f] = Absent

\* The feed: what is staged has been told, or will be: by a report that is
\* owed, that has read it, or that a change or the timer will bring.  Of two
\* reports that have read, both know that they may come out in either order.
Awaited == dirty \/ timer \/ \E r \in Reporters : report[r].at = "owed"
FeedIsFresh ==
  /\ \/ Awaited
     \/ /\ \A r \in Reporters : report[r].at = "read" /\ ~report[r].late
                                 => report[r].staged = Staged
        /\ (\A r \in Reporters : report[r].at # "read") => told = Staged \/ excused
  /\ \A q, r \in Reporters :
        q # r /\ report[q].at = "read" /\ report[r].at = "read" => report[q].late

GitInv ==
  /\ TypeOK /\ call \in [Clients -> Calls]
  /\ \A c \in Clients : CallInv(c)
  /\ NothingCommitted /\ FeedIsFresh

\* Only c's call changes, and it stays a call.
OneCall(c) ==
  call' \in [Clients -> Calls] /\ \A d \in Clients \ {c} : call'[d] = call[d]
\* c's call keeps what it was asked for and what it has sorted.
SameAsked(c) ==
  /\ call'[c].op = call[c].op /\ call'[c].paths = call[c].paths
  /\ call'[c].remove = call[c].remove /\ call'[c].http = call[c].http
SameSorted(c) ==
  /\ call'[c].reset = call[c].reset /\ call'[c].checkout = call[c].checkout
  /\ call'[c].failed = call[c].failed /\ call'[c].answer = call[c].answer

\* A call that goes on to another command is the same call.
LEMMA GotoMoves ==
  ASSUME NEW c \in Clients, call \in [Clients -> Calls], NEW a \in CallSteps, Goto(c, a)
  PROVE  OneCall(c) /\ SameAsked(c) /\ SameSorted(c) /\ call'[c].at = a
<1>1. /\ [call[c] EXCEPT !.at = a] \in Calls
      /\ call' = [call EXCEPT ![c] = [call[c] EXCEPT !.at = a]]
  BY DEF Goto, Calls
<1>2. QED
  BY <1>1 DEF OneCall, SameAsked, SameSorted, Calls

\* A call that is answered is the same call.
LEMMA AnswerMoves ==
  ASSUME NEW c \in Clients, call \in [Clients -> Calls], NEW a \in Answers, Answer(c, a)
  PROVE  OneCall(c) /\ SameAsked(c) /\ call'[c].at = "answered" /\ call'[c].answer = a
<1>1. "answered" \in CallSteps
  BY DEF CallSteps
<1>2. /\ [call[c] EXCEPT !.at = "answered", !.answer = a] \in Calls
      /\ call' = [call EXCEPT ![c] = [call[c] EXCEPT !.at = "answered", !.answer = a]]
  BY <1>1 DEF Answer, Calls
<1>3. QED
  BY <1>2 DEF OneCall, SameAsked, Calls

\* Which operation a command belongs to.
LEMMA CommandsTell ==
  ASSUME NEW k \in Calls, k.at \in StepsOf(k.op)
  PROVE  /\ k.at = "stage" => k.op = "stage"
         /\ k.at \in {"revParse", "resetHead", "rmCached"} => k.op = "unstage"
         /\ k.at \in {"anyStaged", "commit"} => k.op = "commit"
         /\ k.at \in {"status", "discardReset", "discardCheckout", "discardRemove"}
               => k.op = "discard"
         /\ k.at \in {"diff", "diffStaged", "diffNewFile"} => k.op = "diff"
<1>1. k.op \in Ops
  BY DEF Calls
<1>2. QED
  BY <1>1 DEF Ops, StepsOf

\* What is staged depends on the commit and the index alone.
LEMMA StagedStays == UNCHANGED <<head, index>> => Staged' = Staged
BY DEF Staged, IndexStatus

\* A step of a call changes nothing the feed does not hear of.
LEMMA ByKeepsFeed ==
  ASSUME TypeOK, FeedIsFresh, NEW c \in Clients, By(c)
  PROVE  FeedIsFresh' /\ dirty' \in BOOLEAN
<1>1. UNCHANGED <<timer, report, told, excused>>
  BY DEF By, feed
<1>2. dirty' \in BOOLEAN /\ (dirty => dirty')
  BY DEF By, TypeOK
<1>3. CASE UNCHANGED <<head, index>>
  BY <1>1, <1>2, <1>3, StagedStays DEF FeedIsFresh, Awaited
<1>4. CASE ~UNCHANGED <<head, index>>
  <2>1. dirty'
    BY <1>4 DEF By
  <2>2. QED
    BY <1>1, <2>1 DEF FeedIsFresh, Awaited
<1>5. QED
  BY <1>2, <1>3, <1>4

\* What another client has found out stands as long as it is left alone.
LEMMA OthersStand ==
  ASSUME GitInv, NEW c \in Clients, By(c), OneCall(c), NEW d \in Clients \ {c}
  PROVE  CallInv(d)'
<1>1. CallInv(d) /\ call'[d] = call[d]
  BY DEF GitInv, OneCall
<1>2. alone'[d] => call[d].at = "idle" \/ (alone[d] /\ repo' = repo)
  BY DEF By
<1>3. CASE call[d].at = "idle"
  BY <1>1, <1>3 DEF CallInv, Stands, Honest
<1>4. CASE ~alone'[d]
  BY <1>1, <1>4 DEF CallInv
<1>5. CASE alone[d] /\ repo' = repo
  <2>1. UNCHANGED <<head, index, work, born>>
    BY <1>5 DEF repo
  <2>2. Staged' = Staged /\ Unstaged' = Unstaged /\ Listed' = Listed
    BY <2>1 DEF Staged, IndexStatus, Unstaged, WorktreeStatus, Listed, Untracked
  <2>3. Stands(call[d])'
    BY <1>1, <1>5, <2>1, <2>2
    DEF CallInv, Stands, Sorted, ResetDone, CheckoutDone, Restored
  <2>4. Honest(call[d])'
    BY <1>1, <1>5, <2>1, <2>2 DEF CallInv, Honest, Restored
  <2>5. QED
    BY <1>1, <2>3, <2>4 DEF CallInv
<1>6. QED
  BY <1>2, <1>3, <1>4, <1>5

\* A step of a call keeps the invariant if it keeps its own part of it.
LEMMA StepKeeps ==
  ASSUME GitInv, NEW c \in Clients, By(c), OneCall(c), UNCHANGED lock,
         alone[c] => Stands(call[c])' /\ Honest(call[c])',
         call'[c].at \in StepsOf(call'[c].op), call[c].at # "idle",
         call'[c].op = call[c].op, call'[c].paths = call[c].paths,
         call'[c].remove \subseteq call[c].paths,
         head' \in [Files -> Copies], index' \in [Files -> Copies],
         work' \in [Files -> Copies], born' \in BOOLEAN, NothingCommitted'
  PROVE  GitInv'
<1>1. FeedIsFresh' /\ dirty' \in BOOLEAN
  BY ByKeepsFeed DEF GitInv
<1>2. alone' \in [Clients -> BOOLEAN] /\ (alone'[c] => alone[c])
  BY DEF By, GitInv, TypeOK
<1>3. CallInv(c)'
  BY <1>2 DEF CallInv, GitInv
<1>4. \A d \in Clients : CallInv(d)'
  BY <1>3, OthersStand
<1>5. UNCHANGED <<settling, timer, recent, report, told, excused>>
  BY DEF By, feed
<1>6. TypeOK'
  <2>1. \A d \in Clients : call'[d].paths \cup call'[d].reset \cup call'[d].checkout
                             \cup call'[d].remove \subseteq Files
    BY DEF OneCall, Calls
  <2>2. DOMAIN call' = Clients
    BY DEF OneCall
  <2>3. QED
    BY <1>1, <1>2, <1>5, <2>1, <2>2 DEF TypeOK, GitInv
<1>7. QED
  BY <1>1, <1>4, <1>6 DEF GitInv, OneCall

\* The part of the type invariant that speaks of the repository only.
RepoTyped ==
  /\ head \in [Files -> Copies] /\ index \in [Files -> Copies] /\ work \in [Files -> Copies]
  /\ born \in BOOLEAN /\ NothingCommitted
\* The repository's types hold, and go on holding where it is left alone.
LEMMA RepoKept ==
  ASSUME GitInv
  PROVE  RepoTyped /\ (UNCHANGED repo => RepoTyped')
BY DEF GitInv, TypeOK, RepoTyped, repo, NothingCommitted

\* An answer keeps the invariant if it is honest.
LEMMA AnswersKeep ==
  ASSUME GitInv, NEW c \in Clients, By(c), NEW a \in Answers, Answer(c, a), UNCHANGED lock,
         call[c].at # "idle", alone[c] => Honest(call[c])', RepoTyped'
  PROVE  GitInv'
<1>1. OneCall(c) /\ SameAsked(c) /\ call'[c].at = "answered" /\ call'[c].answer = a
  BY AnswerMoves DEF GitInv
<1>2. call[c] \in Calls /\ CallInv(c)
  BY DEF GitInv
<1>3. "answered" \in StepsOf(call[c].op)
  BY <1>2 DEF CallInv, StepsOf, Calls, Ops
<1>4. Stands(call[c])'
  BY <1>1 DEF Stands
<1>5. /\ call'[c].at \in StepsOf(call'[c].op) /\ call'[c].op = call[c].op
      /\ call'[c].paths = call[c].paths /\ call'[c].remove \subseteq call[c].paths
  BY <1>1, <1>2, <1>3 DEF SameAsked, CallInv
<1>6. QED
  BY <1>1, <1>4, <1>5, StepKeeps DEF RepoTyped

\* A look at the repository keeps the invariant if what it found out stands.
LEMMA LooksKeep ==
  ASSUME GitInv, NEW c \in Clients, By(c), NEW a \in CallSteps, Goto(c, a),
         UNCHANGED <<repo, lock>>, call[c].at # "idle", a # "answered",
         a \in StepsOf(call[c].op), alone[c] => Stands(call[c])'
  PROVE  GitInv'
<1>1. OneCall(c) /\ SameAsked(c) /\ SameSorted(c) /\ call'[c].at = a
  BY GotoMoves DEF GitInv
<1>2. CallInv(c)
  BY DEF GitInv
<1>3. Honest(call[c])'
  BY <1>1 DEF Honest
<1>4. /\ call'[c].at \in StepsOf(call'[c].op) /\ call'[c].op = call[c].op
      /\ call'[c].paths = call[c].paths /\ call'[c].remove \subseteq call[c].paths
  BY <1>1, <1>2 DEF SameAsked, CallInv
<1>5. QED
  BY <1>1, <1>3, <1>4, RepoKept, StepKeeps DEF RepoTyped

\* What is known of the call c makes.
LEMMA CallAtHand ==
  ASSUME GitInv, NEW c \in Clients
  PROVE  /\ call \in [Clients -> Calls] /\ call[c] \in Calls
         /\ CallInv(c) /\ RepoTyped
BY RepoKept DEF GitInv

\* git add.
LEMMA StageKeeps ==
  ASSUME GitInv, NEW c \in Clients, Stage(c)
  PROVE  GitInv'
<1>1. /\ By(c) /\ UNCHANGED <<head, work, born, lock>> /\ call[c].at = "stage"
      /\ Answer(c, "ok") \/ Answer(c, "error")
  BY DEF Stage
<1>2. call[c] \in Calls /\ CallInv(c) /\ RepoTyped
  BY CallAtHand
<1>3. call[c].op = "stage"
  BY <1>1, <1>2, CommandsTell DEF CallInv
<1>4. index' \in [Files -> Copies]
  BY <1>2 DEF Stage, RepoTyped
<1>5. RepoTyped'
  BY <1>1, <1>2, <1>4 DEF RepoTyped, NothingCommitted
<1>6. Honest(call[c])'
  BY <1>1, <1>3, AnswerMoves, CallAtHand DEF Honest, SameAsked, Answers
<1>7. QED
  BY <1>1, <1>5, <1>6, AnswersKeep DEF Answers

\* Unstage looks for a first commit.
LEMMA UnstageLookKeeps ==
  ASSUME GitInv, NEW c \in Clients, UnstageLook(c)
  PROVE  GitInv'
<1> DEFINE a == IF born THEN "resetHead" ELSE "rmCached"
<1>1. /\ By(c) /\ UNCHANGED <<repo, lock>> /\ call[c].at = "revParse" /\ Goto(c, a)
  BY DEF UnstageLook
<1>2. call[c] \in Calls /\ CallInv(c)
  BY CallAtHand
<1>3. call[c].op = "unstage"
  BY <1>1, <1>2, CommandsTell DEF CallInv
<1>4. a \in CallSteps /\ a \in {"resetHead", "rmCached"} /\ a \in StepsOf(call[c].op)
  BY <1>3 DEF CallSteps, StepsOf
<1>5. a = "rmCached" => ~born'
  BY <1>1 DEF repo
<1> HIDE DEF a
<1>6. call'[c].at = a
  BY <1>1, <1>4, GotoMoves, CallAtHand
<1>7. Stands(call[c])'
  BY <1>4, <1>5, <1>6 DEF Stands
<1>8. QED
  BY <1>1, <1>4, <1>7, LooksKeep

\* git reset: what is reset to the commit is not staged.
LEMMA UnstageResetKeeps ==
  ASSUME GitInv, NEW c \in Clients, UnstageReset(c)
  PROVE  GitInv'
<1>1. /\ By(c) /\ UNCHANGED <<head, work, born, lock>> /\ call[c].at = "resetHead"
      /\ \/ Reset(call[c].paths) /\ Answer(c, "ok")
         \/ Answer(c, "error") /\ UNCHANGED index
  BY DEF UnstageReset
<1>2. call[c] \in Calls /\ CallInv(c) /\ RepoTyped
  BY CallAtHand
<1>3. call[c].op = "unstage"
  BY <1>1, <1>2, CommandsTell DEF CallInv
<1>4. index' \in [Files -> Copies]
  BY <1>1, <1>2 DEF Reset, RepoTyped
<1>5. RepoTyped'
  BY <1>1, <1>2, <1>4 DEF RepoTyped, NothingCommitted
<1>6. CASE Reset(call[c].paths) /\ Answer(c, "ok")
  <2>1. call'[c].op = "unstage" /\ call'[c].paths = call[c].paths /\ call'[c].at = "answered"
    BY <1>3, <1>6, AnswerMoves, CallAtHand DEF SameAsked, Answers
  <2>2. call[c].paths \cap Staged' = {}
    BY <1>1, <1>6 DEF Reset, Staged, IndexStatus
  <2>3. Honest(call[c])'
    BY <2>1, <2>2 DEF Honest
  <2>4. QED
    BY <1>1, <1>5, <1>6, <2>3, AnswersKeep DEF Answers
<1>7. CASE Answer(c, "error")
  <2>1. Honest(call[c])'
    BY <1>3, <1>7, AnswerMoves, CallAtHand DEF Honest, SameAsked, Answers
  <2>2. QED
    BY <1>1, <1>5, <1>7, <2>1, AnswersKeep DEF Answers
<1>8. QED
  BY <1>1, <1>6, <1>7

\* git rm --cached: before the first commit, what the index does not hold is
\* not staged.
LEMMA UnstageRemoveKeeps ==
  ASSUME GitInv, NEW c \in Clients, UnstageRemove(c)
  PROVE  GitInv'
<1>1. /\ By(c) /\ UNCHANGED <<head, work, born, lock>> /\ call[c].at = "rmCached"
      /\ \/ /\ index' = [f \in Files |-> IF f \in call[c].paths THEN Absent ELSE index[f]]
            /\ Answer(c, "ok")
         \/ Answer(c, "error") /\ UNCHANGED index
  BY DEF UnstageRemove
<1>2. call[c] \in Calls /\ CallInv(c) /\ RepoTyped
  BY CallAtHand
<1>3. call[c].op = "unstage"
  BY <1>1, <1>2, CommandsTell DEF CallInv
<1>4. index' \in [Files -> Copies]
  BY <1>1, <1>2 DEF RepoTyped, Copies
<1>5. RepoTyped'
  BY <1>1, <1>2, <1>4 DEF RepoTyped, NothingCommitted
<1>6. CASE /\ index' = [f \in Files |-> IF f \in call[c].paths THEN Absent ELSE index[f]]
           /\ Answer(c, "ok")
  <2>1. call'[c].op = "unstage" /\ call'[c].paths = call[c].paths /\ call'[c].at = "answered"
    BY <1>3, <1>6, AnswerMoves, CallAtHand DEF SameAsked, Answers
  <2>2. ASSUME alone[c] PROVE call[c].paths \cap Staged' = {}
    <3>1. ~born
      BY <1>1, <1>2, <2>2 DEF CallInv, Stands
    <3>2. \A f \in call[c].paths \cap Files : index'[f] = head'[f]
      BY <1>1, <1>2, <1>6, <3>1 DEF RepoTyped, NothingCommitted
    <3>3. QED
      BY <3>2 DEF Staged, IndexStatus
  <2>3. alone[c] => Honest(call[c])'
    BY <2>1, <2>2 DEF Honest
  <2>4. QED
    BY <1>1, <1>5, <1>6, <2>3, AnswersKeep DEF Answers
<1>7. CASE Answer(c, "error")
  <2>1. Honest(call[c])'
    BY <1>3, <1>7, AnswerMoves, CallAtHand DEF Honest, SameAsked, Answers
  <2>2. QED
    BY <1>1, <1>5, <1>7, <2>1, AnswersKeep DEF Answers
<1>8. QED
  BY <1>1, <1>6, <1>7

\* Commit looks for staged files.
LEMMA CommitLookKeeps ==
  ASSUME GitInv, NEW c \in Clients, CommitLook(c)
  PROVE  GitInv'
<1>1. /\ By(c) /\ UNCHANGED <<repo, lock>> /\ call[c].at = "anyStaged"
      /\ Answer(c, "error") \/ Goto(c, "commit")
  BY DEF CommitLook
<1>2. call[c] \in Calls /\ CallInv(c)
  BY CallAtHand
<1>3. call[c].op = "commit"
  BY <1>1, <1>2, CommandsTell DEF CallInv
<1>4. CASE Answer(c, "error")
  <2>1. Honest(call[c])'
    BY <1>3, <1>4, AnswerMoves, CallAtHand DEF Honest, SameAsked, Answers
  <2>2. QED
    BY <1>1, <1>4, <2>1, RepoKept, AnswersKeep DEF Answers
<1>5. CASE Goto(c, "commit")
  <2>1. "commit" \in CallSteps /\ "commit" \in StepsOf(call[c].op)
    BY <1>3 DEF CallSteps, StepsOf
  <2>2. Stands(call[c])'
    BY <1>5, <2>1, GotoMoves, CallAtHand DEF Stands
  <2>3. QED
    BY <1>1, <1>5, <2>1, <2>2, LooksKeep
<1>6. QED
  BY <1>1, <1>4, <1>5

\* git commit.
LEMMA CommitKeeps ==
  ASSUME GitInv, NEW c \in Clients, Commit(c)
  PROVE  GitInv'
<1>1. /\ By(c) /\ UNCHANGED <<index, work, lock>> /\ call[c].at = "commit"
      /\ \/ head' = index /\ born' = TRUE /\ Answer(c, "ok")
         \/ Answer(c, "error") /\ UNCHANGED <<head, born>>
  BY DEF Commit
<1>2. call[c] \in Calls /\ CallInv(c) /\ RepoTyped
  BY CallAtHand
<1>3. call[c].op = "commit"
  BY <1>1, <1>2, CommandsTell DEF CallInv
<1>4. RepoTyped'
  BY <1>1, <1>2 DEF RepoTyped, NothingCommitted
<1>5. Honest(call[c])'
  BY <1>1, <1>3, AnswerMoves, CallAtHand DEF Honest, SameAsked, Answers
<1>6. QED
  BY <1>1, <1>4, <1>5, AnswersKeep DEF Answers

\* A file that git does not list is as the last commit has it.
LEMMA UnlistedIsRestored ==
  ASSUME NEW f \in Files, f \notin Listed
  PROVE  Restored(f)
BY DEF Listed, Staged, Unstaged, IndexStatus, WorktreeStatus, Untracked, Restored

\* The letters of a file say whether the index holds it and whether it is staged.
LEMMA LettersTell ==
  ASSUME NEW f \in Files
  PROVE  /\ FileStatus(f) = <<"?", "?">> => index[f] = Absent
         /\ FileStatus(f)[1] = " " => index[f] = head[f]
BY DEF FileStatus, Untracked, IndexStatus, WorktreeStatus

\* Discard sorts its files by what git says of them.
LEMMA DiscardLookKeeps ==
  ASSUME GitInv, NEW c \in Clients, DiscardLook(c)
  PROVE  GitInv'
<1> DEFINE ps == {f \in call[c].paths : f \in Listed}
           untracked == {f \in ps : FileStatus(f) = <<"?", "?">>}
           staged == {f \in ps \ untracked : FileStatus(f)[1] # " "}
           k == [call[c] EXCEPT !.at = "discardReset", !.reset = staged,
                                !.checkout = ps \ untracked, !.remove = untracked]
<1>1. /\ By(c) /\ UNCHANGED <<repo, lock>> /\ call[c].at = "status"
      /\ call' = [call EXCEPT ![c] = k]
  BY DEF DiscardLook
<1>2. call[c] \in Calls /\ CallInv(c) /\ RepoTyped /\ call \in [Clients -> Calls]
  BY CallAtHand
<1>3. call[c].op = "discard" /\ call[c].paths \subseteq Files
  BY <1>1, <1>2, CommandsTell DEF CallInv, Calls
<1>4. "discardReset" \in CallSteps /\ "discardReset" \in StepsOf("discard")
  BY DEF CallSteps, StepsOf
<1>5. /\ k \in Calls /\ k.at = "discardReset" /\ k.op = "discard" /\ k.paths = call[c].paths
      /\ k.reset = staged /\ k.checkout = ps \ untracked /\ k.remove = untracked
  BY <1>2, <1>3, <1>4 DEF Calls
<1>6. \A f \in k.paths : Sorted(k, f)
  BY <1>3, <1>5, UnlistedIsRestored, LettersTell DEF Sorted, Restored
<1>7. k.remove \subseteq k.paths
  BY <1>5
<1> HIDE DEF k
<1>8. OneCall(c) /\ call'[c] = k
  BY <1>1, <1>2, <1>5 DEF OneCall
<1>9. Stands(call[c])'
  BY <1>1, <1>5, <1>6, <1>8 DEF Stands, Sorted, Restored, repo
<1>10. Honest(call[c])'
  BY <1>5, <1>8 DEF Honest
<1>11. RepoTyped'
  BY <1>1, RepoKept
<1>12. QED
  BY <1>1, <1>3, <1>4, <1>5, <1>7, <1>8, <1>9, <1>10, <1>11, StepKeeps DEF RepoTyped

\* git reset: the index of what was staged is as committed.
LEMMA DiscardResetKeeps ==
  ASSUME GitInv, NEW c \in Clients, DiscardReset(c)
  PROVE  GitInv'
<1>1. PICK failed \in BOOLEAN :
         /\ call' = [call EXCEPT ![c] = [call[c] EXCEPT !.at = "discardCheckout",
                                                       !.failed = failed]]
         /\ \/ call[c].reset = {} /\ UNCHANGED index
            \/ Reset(call[c].reset)
            \/ failed /\ UNCHANGED index
  BY DEF DiscardReset
<1>2. By(c) /\ UNCHANGED <<head, work, born, lock>> /\ call[c].at = "discardReset"
  BY DEF DiscardReset
<1>3. call[c] \in Calls /\ CallInv(c) /\ RepoTyped /\ call \in [Clients -> Calls]
  BY CallAtHand
<1>4. call[c].op = "discard" /\ call[c].paths \subseteq Files
  BY <1>2, <1>3, CommandsTell DEF CallInv, Calls
<1>5. "discardCheckout" \in CallSteps /\ "discardCheckout" \in StepsOf("discard")
  BY DEF CallSteps, StepsOf
<1> DEFINE k == [call[c] EXCEPT !.at = "discardCheckout", !.failed = failed]
<1>6. /\ k \in Calls /\ k.at = "discardCheckout" /\ k.op = "discard" /\ k.failed = failed
      /\ k.paths = call[c].paths /\ k.reset = call[c].reset
      /\ k.checkout = call[c].checkout /\ k.remove = call[c].remove
  BY <1>3, <1>4, <1>5 DEF Calls
<1>7. OneCall(c) /\ call'[c] = k
  <2>1. call' = [call EXCEPT ![c] = k]
    BY <1>1
  <2> HIDE DEF k
  <2>2. QED
    BY <2>1, <1>3, <1>6 DEF OneCall
<1> HIDE DEF k
<1>8. index' \in [Files -> Copies]
  BY <1>1, <1>3 DEF Reset, RepoTyped
<1>9. RepoTyped'
  BY <1>2, <1>3, <1>8 DEF RepoTyped, NothingCommitted
<1>10. ASSUME alone[c], ~failed, NEW f \in k.paths PROVE ResetDone(call[c], f)'
  <2>1. Sorted(call[c], f) /\ f \in Files
    BY <1>2, <1>3, <1>4, <1>6, <1>10 DEF CallInv, Stands
  <2>2. index'[f] = IF f \in call[c].reset THEN head[f] ELSE index[f]
    BY <1>1, <1>10, <2>1 DEF Reset
  <2>3. QED
    BY <1>2, <1>6, <1>7, <2>1, <2>2 DEF Sorted, ResetDone, Restored
<1>11. alone[c] => Stands(call[c])'
  BY <1>6, <1>7, <1>10 DEF Stands
<1>12. Honest(call[c])'
  BY <1>6, <1>7 DEF Honest
<1>13. call[c].remove \subseteq call[c].paths
  BY <1>3 DEF CallInv
<1>14. QED
  BY <1>2, <1>4, <1>5, <1>6, <1>7, <1>9, <1>11, <1>12, <1>13, StepKeeps DEF RepoTyped

\* git checkout: the files on disk are as the index has them.
LEMMA DiscardCheckoutKeeps ==
  ASSUME GitInv, NEW c \in Clients, DiscardCheckout(c)
  PROVE  GitInv'
<1>1. PICK failed \in BOOLEAN :
         /\ call' = [call EXCEPT ![c] = [call[c] EXCEPT !.at = "discardRemove",
                                                       !.failed = @ \/ failed]]
         /\ \/ call[c].checkout = {} /\ UNCHANGED work
            \/ work' = [f \in Files |-> IF f \in call[c].checkout THEN index[f] ELSE work[f]]
            \/ failed /\ UNCHANGED work
  BY DEF DiscardCheckout
<1>2. By(c) /\ UNCHANGED <<head, index, born, lock>> /\ call[c].at = "discardCheckout"
  BY DEF DiscardCheckout
<1>3. call[c] \in Calls /\ CallInv(c) /\ RepoTyped /\ call \in [Clients -> Calls]
  BY CallAtHand
<1>4. call[c].op = "discard" /\ call[c].paths \subseteq Files
  BY <1>2, <1>3, CommandsTell DEF CallInv, Calls
<1>5. "discardRemove" \in CallSteps /\ "discardRemove" \in StepsOf("discard")
  BY DEF CallSteps, StepsOf
<1> DEFINE k == [call[c] EXCEPT !.at = "discardRemove", !.failed = @ \/ failed]
<1>6. /\ k \in Calls /\ k.at = "discardRemove" /\ k.op = "discard"
      /\ k.failed <=> (call[c].failed \/ failed)
      /\ k.paths = call[c].paths /\ k.remove = call[c].remove
  BY <1>3, <1>4, <1>5 DEF Calls
<1>7. OneCall(c) /\ call'[c] = k
  <2>1. call' = [call EXCEPT ![c] = k]
    BY <1>1
  <2> HIDE DEF k
  <2>2. QED
    BY <2>1, <1>3, <1>6 DEF OneCall
<1> HIDE DEF k
<1>8. work' \in [Files -> Copies]
  BY <1>1, <1>3 DEF RepoTyped
<1>9. RepoTyped'
  BY <1>2, <1>3, <1>8 DEF RepoTyped, NothingCommitted
<1>10. ASSUME alone[c], ~k.failed, NEW f \in k.paths PROVE CheckoutDone(call[c], f)'
  <2>1. ResetDone(call[c], f) /\ f \in Files
    BY <1>2, <1>3, <1>4, <1>6, <1>10 DEF CallInv, Stands
  <2>2. work'[f] = IF f \in call[c].checkout THEN index[f] ELSE work[f]
    BY <1>1, <1>6, <1>10, <2>1
  <2>3. QED
    BY <1>2, <1>6, <1>7, <2>1, <2>2 DEF ResetDone, CheckoutDone, Restored
<1>11. alone[c] => Stands(call[c])'
  BY <1>6, <1>7, <1>10 DEF Stands
<1>12. Honest(call[c])'
  BY <1>6, <1>7 DEF Honest
<1>13. call[c].remove \subseteq call[c].paths
  BY <1>3 DEF CallInv
<1>14. QED
  BY <1>2, <1>4, <1>5, <1>6, <1>7, <1>9, <1>11, <1>12, <1>13, StepKeeps DEF RepoTyped

\* What git does not track is removed, and the answer tells whether all went well.
LEMMA DiscardRemoveKeeps ==
  ASSUME GitInv, NEW c \in Clients, DiscardRemove(c)
  PROVE  GitInv'
<1>1. /\ By(c) /\ UNCHANGED <<head, index, born, lock>> /\ call[c].at = "discardRemove"
      /\ work' = [f \in Files |-> IF f \in call[c].remove THEN Absent ELSE work[f]]
      /\ (Answer(c, "ok") /\ ~call[c].failed) \/ Answer(c, "error")
  BY DEF DiscardRemove
<1>2. call[c] \in Calls /\ CallInv(c) /\ RepoTyped
  BY CallAtHand
<1>3. call[c].op = "discard" /\ call[c].paths \subseteq Files
  BY <1>1, <1>2, CommandsTell DEF CallInv, Calls
<1>4. work' \in [Files -> Copies]
  BY <1>1, <1>2 DEF RepoTyped, Copies
<1>5. RepoTyped'
  BY <1>1, <1>2, <1>4 DEF RepoTyped, NothingCommitted
<1>6. CASE Answer(c, "ok") /\ ~call[c].failed
  <2>1. /\ call'[c].op = "discard" /\ call'[c].paths = call[c].paths
        /\ call'[c].remove = call[c].remove /\ call'[c].at = "answered"
    BY <1>3, <1>6, AnswerMoves, CallAtHand DEF SameAsked, Answers
  <2>2. ASSUME alone[c], NEW f \in call[c].paths
        PROVE  Restored(f)' \/ (f \in call[c].remove /\ head'[f] # Absent)
    <3>1. CheckoutDone(call[c], f) /\ f \in Files
      BY <1>1, <1>2, <1>3, <1>6, <2>2 DEF CallInv, Stands
    <3>2. work'[f] = IF f \in call[c].remove THEN Absent ELSE work[f]
      BY <1>1, <3>1
    <3>3. QED
      BY <1>1, <3>1, <3>2 DEF CheckoutDone, Restored
  <2>3. alone[c] => Honest(call[c])'
    BY <2>1, <2>2 DEF Honest
  <2>4. QED
    BY <1>1, <1>5, <1>6, <2>3, AnswersKeep DEF Answers
<1>7. CASE Answer(c, "error")
  <2>1. Honest(call[c])'
    BY <1>3, <1>7, AnswerMoves, CallAtHand DEF Honest, SameAsked, Answers
  <2>2. QED
    BY <1>1, <1>5, <1>7, <2>1, AnswersKeep DEF Answers
<1>8. QED
  BY <1>1, <1>6, <1>7

\* The three looks of a diff: each finds what the one before did not.
LEMMA DiffKeeps ==
  ASSUME GitInv, NEW c \in Clients, Diff(c) \/ DiffStaged(c) \/ DiffNewFile(c)
  PROVE  GitInv'
<1>1. /\ By(c) /\ UNCHANGED <<repo, lock>>
      /\ call[c].at \in {"diff", "diffStaged", "diffNewFile"}
  BY DEF Diff, DiffStaged, DiffNewFile
<1>2. call[c] \in Calls /\ CallInv(c)
  BY CallAtHand
<1>3. call[c].op = "diff"
  BY <1>1, <1>2, CommandsTell DEF CallInv
<1>4. PICK f \in Files : call[c].paths = {f}
  BY <1>2, <1>3 DEF CallInv
<1>5. Staged' = Staged /\ Unstaged' = Unstaged /\ Listed' = Listed /\ RepoTyped'
  BY <1>1, RepoKept
  DEF repo, Staged, IndexStatus, Unstaged, WorktreeStatus, Listed, Untracked
<1>6. ASSUME NEW a \in {"unstaged", "staged", "new", "error"}, Answer(c, a),
             alone[c] /\ f \in Listed => a = (IF f \in Unstaged THEN "unstaged"
                                            ELSE IF f \in Staged THEN "staged" ELSE "new")
      PROVE  GitInv'
  <2>1. a \in Answers
    BY DEF Answers
  <2>2. /\ call'[c].op = "diff" /\ call'[c].paths = {f}
        /\ call'[c].at = "answered" /\ call'[c].answer = a
    BY <1>3, <1>4, <1>6, <2>1, AnswerMoves, CallAtHand DEF SameAsked
  <2>3. alone[c] => Honest(call[c])'
    BY <1>5, <1>6, <2>2 DEF Honest
  <2>4. QED
    BY <1>1, <1>5, <1>6, <2>1, <2>3, AnswersKeep
<1>7. ASSUME NEW a \in {"diffStaged", "diffNewFile"}, Goto(c, a),
             alone[c] => f \notin Unstaged /\ (a = "diffNewFile" => f \notin Staged)
      PROVE  GitInv'
  <2>1. a \in CallSteps /\ a \in StepsOf(call[c].op)
    BY <1>3 DEF CallSteps, StepsOf
  <2>2. call'[c].at = a /\ call'[c].paths = {f}
    BY <1>4, <1>7, <2>1, GotoMoves, CallAtHand DEF SameAsked
  <2>3. alone[c] => Stands(call[c])'
    BY <1>5, <1>7, <2>2 DEF Stands
  <2>4. QED
    BY <1>1, <1>7, <2>1, <2>3, LooksKeep
<1>8. CASE Diff(c)
  BY <1>4, <1>6, <1>7, <1>8 DEF Diff
<1>9. CASE DiffStaged(c)
  <2>1. alone[c] => f \notin Unstaged
    BY <1>2, <1>4, <1>9 DEF DiffStaged, CallInv, Stands
  <2>2. QED
    BY <1>4, <1>6, <1>7, <1>9, <2>1 DEF DiffStaged
<1>10. CASE DiffNewFile(c)
  <2>1. alone[c] => f \notin Unstaged /\ f \notin Staged
    BY <1>2, <1>4, <1>10 DEF DiffNewFile, CallInv, Stands
  <2>2. f \in Listed /\ f \notin Unstaged /\ f \notin Staged => work[f] # Absent
    BY DEF Listed, Untracked
  <2>3. QED
    BY <1>4, <1>6, <1>10, <2>1, <2>2 DEF DiffNewFile
<1>11. QED
  BY <1>8, <1>9, <1>10

\* The commands the routes begin with.
FirstSteps == {<<"stage", "stage">>, <<"unstage", "revParse">>, <<"discard", "status">>,
               <<"commit", "anyStaged">>, <<"diff", "diff">>}
\* A route's call begins: it is alone until another step of git or of the tree.
LEMMA BeginCallKeeps ==
  ASSUME GitInv, NEW c \in Clients, NEW op, NEW at, <<op, at>> \in FirstSteps,
         NEW ps \in SUBSET Files, NEW http \in BOOLEAN, op = "diff" => \E f \in Files : ps = {f},
         BeginCall(c, op, at, ps, http)
  PROVE  GitInv'
<1> DEFINE k == [Idle EXCEPT !.op = op, !.at = at, !.paths = ps, !.http = http]
<1>1. /\ call' = [call EXCEPT ![c] = k] /\ alone' = [alone EXCEPT ![c] = TRUE]
      /\ UNCHANGED <<repo, lock, dirty, feed>>
  BY DEF BeginCall
<1>2. at \in CallSteps /\ op \in Ops /\ at \in StepsOf(op)
  BY DEF FirstSteps, CallSteps, Ops, StepsOf
<1>3. /\ k \in Calls /\ k.op = op /\ k.at = at /\ k.paths = ps /\ k.remove = {}
  BY <1>2 DEF Idle, Calls, Answers
<1>4. call \in [Clients -> Calls] /\ alone \in [Clients -> BOOLEAN]
  BY DEF GitInv, TypeOK
<1> HIDE DEF k
<1>5. /\ call' \in [Clients -> Calls] /\ alone' \in [Clients -> BOOLEAN] /\ call'[c] = k
      /\ \A d \in Clients \ {c} : call'[d] = call[d] /\ alone'[d] = alone[d]
  BY <1>1, <1>3, <1>4
<1>6. UNCHANGED <<head, index, work, born>>
  BY <1>1 DEF repo
<1>7. CallInv(c)'
  BY <1>2, <1>3, <1>5 DEF CallInv, Stands, Honest, FirstSteps
<1>8. ASSUME NEW d \in Clients \ {c} PROVE CallInv(d)'
  <2>1. CallInv(d)
    BY DEF GitInv
  <2>2. Staged' = Staged /\ Unstaged' = Unstaged /\ Listed' = Listed
    BY <1>6 DEF Staged, IndexStatus, Unstaged, WorktreeStatus, Listed, Untracked
  <2>3. QED
    BY <1>5, <1>6, <2>1, <2>2
    DEF CallInv, Stands, Honest, Sorted, ResetDone, CheckoutDone, Restored
<1>9. FeedIsFresh'
  BY <1>1, <1>6, StagedStays DEF GitInv, FeedIsFresh, Awaited, feed
<1>10. TypeOK'
  <2>1. \A d \in Clients : call'[d].paths \cup call'[d].reset \cup call'[d].checkout
                             \cup call'[d].remove \subseteq Files
    BY <1>5 DEF Calls
  <2>2. DOMAIN call' = Clients
    BY <1>5
  <2>3. QED
    BY <1>1, <1>5, <1>6, <2>1, <2>2 DEF GitInv, TypeOK, feed
<1>11. QED
  BY <1>5, <1>6, <1>7, <1>8, <1>9, <1>10 DEF GitInv, NothingCommitted

\* Every door leads to one of the operations.
LEMMA RequestKeeps ==
  ASSUME GitInv, NEW c \in Clients, Request(c)
  PROVE  GitInv'
<1>1. {<<"stage", "stage">>, <<"unstage", "revParse">>, <<"discard", "status">>,
       <<"commit", "anyStaged">>, <<"diff", "diff">>} \subseteq FirstSteps
  BY DEF FirstSteps
<1>2. ASSUME NEW ps \in SUBSET Files, NEW http \in BOOLEAN,
             \/ BeginCall(c, "stage", "stage", ps, http)
             \/ BeginCall(c, "unstage", "revParse", ps, http)
             \/ BeginCall(c, "discard", "status", ps, http)
             \/ BeginCall(c, "commit", "anyStaged", ps, http)
      PROVE  GitInv'
  BY <1>1, <1>2, BeginCallKeeps
<1>3. ASSUME NEW f \in Files, NEW http \in BOOLEAN, BeginCall(c, "diff", "diff", {f}, http)
      PROVE  GitInv'
  BY <1>1, <1>3, BeginCallKeeps
<1>4. QED
  BY <1>2, <1>3
  DEF Request, WorkspaceGitStage, WorkspaceGitUnstage, WorkspaceGitDiscard, WorkspaceGitCommit,
      WorkspaceGitDiff, ManagerGit, GitServiceStage, GitServiceUnstage, GitServiceDiscard,
      GitServiceCommit, GitServiceDiff, GitProvider, HandleGitStage, HandleGitUnstage,
      HandleGitDiscard, HandleGitCommit, HandleGitDiff

\* What leaves the repository alone keeps what the calls have found out, except
\* for those it ends.
LEMMA CallsStand ==
  ASSUME GitInv, UNCHANGED repo, NEW c \in Clients,
         alone'[c] => alone[c], call'[c] = call[c]
  PROVE  CallInv(c)'
<1>1. CallInv(c) /\ UNCHANGED <<head, index, work, born>>
  BY DEF GitInv, repo
<1>2. Staged' = Staged /\ Unstaged' = Unstaged /\ Listed' = Listed
  BY <1>1 DEF Staged, IndexStatus, Unstaged, WorktreeStatus, Listed, Untracked
<1>3. QED
  BY <1>1, <1>2 DEF CallInv, Stands, Honest, Sorted, ResetDone, CheckoutDone, Restored

\* The client of a call hangs up.
LEMMA HangUpKeeps ==
  ASSUME GitInv, NEW c \in Clients, HangUp(c)
  PROVE  GitInv'
<1> DEFINE k == [call[c] EXCEPT !.gone = TRUE]
<1>1. /\ call' = [call EXCEPT ![c] = k] /\ lock' \in {lock, TRUE}
      /\ UNCHANGED <<repo, alone, dirty, feed>>
  BY DEF HangUp
<1>2. call \in [Clients -> Calls] /\ CallInv(c)
  BY CallAtHand
<1>3. /\ k \in Calls /\ k.op = call[c].op /\ k.at = call[c].at /\ k.paths = call[c].paths
      /\ k.reset = call[c].reset /\ k.checkout = call[c].checkout
      /\ k.remove = call[c].remove /\ k.failed = call[c].failed /\ k.answer = call[c].answer
  BY <1>2 DEF Calls
<1> HIDE DEF k
<1>4. /\ call' \in [Clients -> Calls] /\ call'[c] = k
      /\ \A d \in Clients \ {c} : call'[d] = call[d]
  BY <1>1, <1>2, <1>3
<1>5. UNCHANGED <<head, index, work, born>>
  BY <1>1 DEF repo
<1>6. CallInv(c)'
  <2>1. Staged' = Staged /\ Unstaged' = Unstaged /\ Listed' = Listed
    BY <1>5 DEF Staged, IndexStatus, Unstaged, WorktreeStatus, Listed, Untracked
  <2>2. QED
    BY <1>1, <1>2, <1>3, <1>4, <1>5, <2>1
    DEF CallInv, Stands, Honest, Sorted, ResetDone, CheckoutDone, Restored
<1>7. \A d \in Clients \ {c} : CallInv(d)'
  BY <1>1, <1>4, CallsStand
<1>8. FeedIsFresh'
  BY <1>1, <1>5, StagedStays DEF GitInv, FeedIsFresh, Awaited, feed
<1>9. TypeOK'
  <2>1. \A d \in Clients : call'[d].paths \cup call'[d].reset \cup call'[d].checkout
                             \cup call'[d].remove \subseteq Files
    BY <1>4 DEF Calls
  <2>2. DOMAIN call' = Clients
    BY <1>4
  <2>3. QED
    BY <1>1, <1>5, <2>1, <2>2 DEF GitInv, TypeOK, feed
<1>10. QED
  BY <1>4, <1>5, <1>6, <1>7, <1>8, <1>9 DEF GitInv, NothingCommitted

\* An answer goes out, and with it perhaps a report that is owed.
LEMMA RespondKeeps ==
  ASSUME GitInv, NEW c \in Clients, Respond(c)
  PROVE  GitInv'
<1>1. /\ call' = [call EXCEPT ![c] = Idle] /\ alone' = [alone EXCEPT ![c] = TRUE]
      /\ UNCHANGED <<repo, lock, dirty, settling, timer, recent, told, excused>>
      /\ \/ report[c] = NoReport /\ report' = [report EXCEPT ![c].at = "owed"]
         \/ UNCHANGED report
  BY DEF Respond
<1>2. Idle \in Calls /\ Idle.at = "idle" /\ Idle.op = "none" /\ Idle.remove = {}
  BY DEF Idle, Calls, CallSteps, Ops, Answers
<1>3. call \in [Clients -> Calls] /\ alone \in [Clients -> BOOLEAN]
  BY DEF GitInv, TypeOK
<1>4. /\ call' \in [Clients -> Calls] /\ alone' \in [Clients -> BOOLEAN] /\ call'[c] = Idle
      /\ \A d \in Clients \ {c} : call'[d] = call[d] /\ alone'[d] = alone[d]
  BY <1>1, <1>2, <1>3
<1>5. CallInv(c)'
  BY <1>2, <1>4 DEF CallInv, Stands, Honest, StepsOf
<1>6. \A d \in Clients \ {c} : CallInv(d)'
  BY <1>1, <1>4, CallsStand
<1>7. UNCHANGED <<head, index, work, born>>
  BY <1>1 DEF repo
<1>8. c \in Reporters /\ report \in [Reporters -> [at : {"none", "owed", "read"},
                                               staged : SUBSET Files, late : BOOLEAN]]
  BY DEF Reporters, GitInv, TypeOK
<1>9. FeedIsFresh' /\ report' \in [Reporters -> [at : {"none", "owed", "read"},
                                              staged : SUBSET Files, late : BOOLEAN]]
  <2>1. CASE UNCHANGED report
    BY <1>1, <1>7, <1>8, <2>1, StagedStays DEF GitInv, FeedIsFresh, Awaited
  <2>2. CASE report' = [report EXCEPT ![c].at = "owed"]
    <3>1. report'[c].at = "owed" /\ \A r \in Reporters \ {c} : report'[r] = report[r]
      BY <1>8, <2>2
    <3>2. report' \in [Reporters -> [at : {"none", "owed", "read"},
                                     staged : SUBSET Files, late : BOOLEAN]]
      BY <1>8, <2>2
    <3>3. QED
      BY <1>8, <3>1, <3>2 DEF GitInv, FeedIsFresh, Awaited
  <2>3. QED
    BY <1>1, <2>1, <2>2
<1>10. TypeOK'
  <2>1. \A d \in Clients : call'[d].paths \cup call'[d].reset \cup call'[d].checkout
                             \cup call'[d].remove \subseteq Files
    BY <1>4 DEF Calls
  <2>2. DOMAIN call' = Clients
    BY <1>4
  <2>3. QED
    BY <1>1, <1>4, <1>7, <1>9, <2>1, <2>2 DEF GitInv, TypeOK
<1>11. QED
  BY <1>4, <1>5, <1>6, <1>7, <1>9, <1>10 DEF GitInv, NothingCommitted

\* An edit ends what the calls knew of the working tree, and stages nothing.
LEMMA EditKeeps ==
  ASSUME GitInv, NEW f \in Files, NEW v \in Copies, Edit(f, v)
  PROVE  GitInv'
<1>1. /\ work' = [work EXCEPT ![f] = v]
      /\ alone' = [d \in Clients |-> call[d].at = "idle"]
      /\ UNCHANGED <<head, index, born, lock, call, dirty, feed>>
  BY DEF Edit
<1>2. \A c \in Clients : CallInv(c)'
  BY <1>1 DEF GitInv, CallInv, Stands, Honest
<1>3. FeedIsFresh'
  BY <1>1, StagedStays DEF GitInv, FeedIsFresh, Awaited, feed
<1>4. TypeOK'
  BY <1>1 DEF GitInv, TypeOK, feed
<1>5. QED
  BY <1>1, <1>2, <1>3, <1>4 DEF GitInv, NothingCommitted

Reports == [at : {"none", "owed", "read"}, staged : SUBSET Files, late : BOOLEAN]

\* A step of the feed alone keeps the invariant if it keeps the feed fresh.
LEMMA FeedKeeps ==
  ASSUME GitInv, UNCHANGED <<repo, lock, call, alone>>, FeedIsFresh',
         dirty' \in BOOLEAN, settling' \in BOOLEAN, timer' \in BOOLEAN, recent' \in BOOLEAN,
         report' \in [Reporters -> Reports], told' \subseteq Files, excused' \in BOOLEAN
  PROVE  GitInv'
<1>1. \A c \in Clients : CallInv(c)'
  BY CallsStand
<1>2. TypeOK'
  BY DEF GitInv, TypeOK, repo, Reports
<1>3. QED
  BY <1>1, <1>2 DEF GitInv, repo, NothingCommitted

\* A change that is dropped excuses what was told, and the reports under way.
LEMMA DroppedIsExcused ==
  ASSUME report \in [Reporters -> Reports], FeedIsFresh, Dropped
  PROVE  FeedIsFresh' /\ report' \in [Reporters -> Reports] /\ excused'
<1>1. /\ excused' = TRUE
      /\ report' = [r \in Reporters |-> [report[r] EXCEPT !.late = @ \/ report[r].at = "read"]]
  BY DEF Dropped
<1>2. \A r \in Reporters :
         /\ report'[r] \in Reports /\ report'[r].at = report[r].at
         /\ report[r].at = "read" => report'[r].late
  BY <1>1 DEF Reports
<1>3. QED
  BY <1>1, <1>2 DEF FeedIsFresh

\* The watcher, its timer and its start.
LEMMA WatcherKeeps ==
  ASSUME GitInv, Settle \/ WatchGitIndex \/ Throttle \/ SecondPasses
  PROVE  GitInv'
<1>1. /\ report \in [Reporters -> Reports] /\ FeedIsFresh /\ TypeOK
      /\ UNCHANGED repo => UNCHANGED <<head, index>>
  BY DEF GitInv, TypeOK, Reports, repo
<1>2. CASE Settle
  <2>1. /\ settling' = FALSE /\ dirty' \in {dirty, FALSE}
        /\ UNCHANGED <<repo, lock, call, alone, timer, recent, told>>
        /\ \/ Dropped
           \/ dirty' = dirty /\ UNCHANGED <<report, excused>>
    BY <1>1, <1>2 DEF Settle, TypeOK
  <2>2. CASE Dropped
    BY <1>1, <2>1, <2>2, DroppedIsExcused, FeedKeeps DEF TypeOK
  <2>3. CASE dirty' = dirty /\ UNCHANGED <<report, excused>>
    <3>1. FeedIsFresh'
      BY <1>1, <2>1, <2>3, StagedStays DEF FeedIsFresh, Awaited
    <3>2. QED
      BY <1>1, <2>1, <2>3, <3>1, FeedKeeps DEF TypeOK
  <2>4. QED
    BY <2>1, <2>2, <2>3
<1>3. CASE WatchGitIndex
  <2>1. FeedIsFresh'
    BY <1>1, <1>3 DEF WatchGitIndex, FeedIsFresh, Awaited
  <2>2. QED
    BY <1>1, <1>3, <2>1, FeedKeeps DEF WatchGitIndex, TypeOK
<1>4. CASE Throttle
  BY <1>1, <1>4, DroppedIsExcused, FeedKeeps DEF Throttle, TypeOK
<1>5. CASE SecondPasses
  <2>1. FeedIsFresh'
    BY <1>1, <1>5, StagedStays DEF SecondPasses, FeedIsFresh, Awaited
  <2>2. QED
    BY <1>1, <1>5, <2>1, FeedKeeps DEF SecondPasses, TypeOK
<1>6. QED
  BY <1>2, <1>3, <1>4, <1>5

\* The timer owes a report.
LEMMA FireKeeps ==
  ASSUME GitInv, NEW w \in Watchers, Fire(w)
  PROVE  GitInv'
<1>1. report \in [Reporters -> Reports] /\ FeedIsFresh /\ TypeOK /\ w \in Reporters
  BY DEF GitInv, TypeOK, Reports, Reporters
<1>2. /\ report'[w].at = "owed" /\ report' \in [Reporters -> Reports]
      /\ \A r \in Reporters \ {w} : report'[r] = report[r]
  BY <1>1 DEF Fire, Reports
<1>3. FeedIsFresh'
  BY <1>1, <1>2 DEF FeedIsFresh, Awaited
<1>4. QED
  BY <1>1, <1>2, <1>3, FeedKeeps DEF Fire, TypeOK

\* A report reads what is staged; it and those that have read before overlap.
LEMMA EmitKeeps ==
  ASSUME GitInv, NEW r \in Reporters, EmitGitStatusChanged(r)
  PROVE  GitInv'
<1> DEFINE others == {q \in Reporters : report[q].at = "read"}
<1>1. /\ report \in [Reporters -> Reports] /\ FeedIsFresh /\ TypeOK /\ Staged \subseteq Files
  BY DEF GitInv, TypeOK, Reports, Staged
<1>2. /\ report[r].at = "owed"
      /\ report' = [q \in Reporters |->
             IF q = r THEN [at |-> "read", staged |-> Staged, late |-> others # {}]
             ELSE [report[q] EXCEPT !.late = @ \/ q \in others]]
      /\ UNCHANGED <<repo, lock, call, alone, dirty, settling, timer, recent, told, excused>>
  BY DEF EmitGitStatusChanged
<1>3. report'[r] = [at |-> "read", staged |-> Staged, late |-> others # {}]
  BY <1>2
<1>4. \A q \in Reporters \ {r} :
         /\ report'[q] \in Reports /\ report'[q].at = report[q].at
         /\ report[q].at = "read" => report'[q].late
  BY <1>1, <1>2 DEF Reports
<1>5. report' \in [Reporters -> Reports]
  <2>1. report'[r] \in Reports
    BY <1>1, <1>3 DEF Reports
  <2>2. \A q \in Reporters : report'[q] \in Reports
    BY <1>4, <2>1
  <2>3. report' = [q \in Reporters |-> report'[q]]
    BY <1>2
  <2>4. QED
    BY <2>2, <2>3
<1>6. /\ report'[r].at = "read" /\ report'[r].staged = Staged
      /\ \A q \in Reporters \ {r} : report[q].at = "read" => report'[r].late
  <2>1. report'[r].at = "read" /\ report'[r].staged = Staged
    BY <1>3
  <2>2. report'[r].late = (others # {})
    BY <1>3
  <2>3. ASSUME NEW q \in Reporters, report[q].at = "read" PROVE others # {}
    BY <2>3
  <2>4. QED
    BY <2>1, <2>2, <2>3
<1>7. Staged' = Staged
  BY <1>2, StagedStays DEF repo
<1>8. FeedIsFresh'
  BY <1>4, <1>6, <1>7 DEF FeedIsFresh
<1>9. QED
  BY <1>1, <1>2, <1>5, <1>8, FeedKeeps DEF TypeOK

\* A report is published; one that overlapped excuses what it tells.
LEMMA PublishKeeps ==
  ASSUME GitInv, NEW r \in Reporters, PublishGitStatusChanged(r)
  PROVE  GitInv'
<1>1. report \in [Reporters -> Reports] /\ FeedIsFresh /\ TypeOK
  BY DEF GitInv, TypeOK, Reports
<1>2. /\ report[r].at = "read" /\ told' = report[r].staged /\ excused' = report[r].late
      /\ report' = [report EXCEPT ![r] = NoReport]
      /\ UNCHANGED <<repo, lock, call, alone, dirty, settling, timer, recent>>
  BY DEF PublishGitStatusChanged
<1>3. NoReport \in Reports /\ NoReport.at = "none"
  BY DEF NoReport, Reports
<1>4. /\ report' \in [Reporters -> Reports] /\ report'[r].at = "none"
      /\ \A q \in Reporters \ {r} : report'[q] = report[q]
  BY <1>1, <1>2, <1>3
<1>5. told' \subseteq Files /\ excused' \in BOOLEAN
  BY <1>1, <1>2 DEF Reports
<1>6. Staged' = Staged
  BY <1>2, StagedStays DEF repo
<1>7. FeedIsFresh'
  BY <1>1, <1>2, <1>4, <1>6 DEF FeedIsFresh, Awaited
<1>8. QED
  BY <1>1, <1>2, <1>4, <1>5, <1>7, FeedKeeps DEF TypeOK

\* Each step keeps the invariant.
LEMMA NextGit ==
  ASSUME GitInv, [Next]_vars
  PROVE  GitInv'
<1>1. CASE UNCHANGED vars
  <2>1. UNCHANGED <<repo, lock, call, alone, dirty, settling, timer, recent, report, told, excused>>
    BY <1>1 DEF vars, feed
  <2>2. FeedIsFresh' /\ report \in [Reporters -> Reports]
    BY <2>1, StagedStays DEF GitInv, FeedIsFresh, Awaited, repo, TypeOK, Reports
  <2>3. QED
    BY <2>1, <2>2, FeedKeeps DEF GitInv, TypeOK
<1>2. ASSUME NEW c \in Clients, Step(c) PROVE GitInv'
  BY <1>2, StageKeeps, UnstageLookKeeps, UnstageResetKeeps, UnstageRemoveKeeps,
     CommitLookKeeps, CommitKeeps, DiscardLookKeeps, DiscardResetKeeps, DiscardCheckoutKeeps,
     DiscardRemoveKeeps, DiffKeeps, RespondKeeps DEF Step
<1>3. QED
  BY <1>1, <1>2, RequestKeeps, HangUpKeeps, EditKeeps, WatcherKeeps, FireKeeps, EmitKeeps,
     PublishKeeps DEF Next

\* Nothing has been asked, and the clients know what is staged.
LEMMA InitGit == Init => GitInv
<1> SUFFICES ASSUME Init PROVE GitInv
  OBVIOUS
<1>1. Idle \in Calls /\ Idle.at = "idle" /\ Idle.op = "none" /\ Idle.remove = {}
  BY DEF Idle, Calls, CallSteps, Ops, Answers
<1>2. call \in [Clients -> Calls] /\ \A c \in Clients : call[c] = Idle
  BY <1>1 DEF Init
<1>3. \A c \in Clients : CallInv(c)
  BY <1>1, <1>2 DEF CallInv, Stands, Honest, StepsOf
<1>4. NoReport \in Reports /\ NoReport.at = "none"
  BY DEF NoReport, Reports
<1>5. report \in [Reporters -> Reports] /\ \A r \in Reporters : report[r].at = "none"
  BY <1>4 DEF Init
<1>6. FeedIsFresh /\ NothingCommitted
  BY <1>5 DEF Init, FeedIsFresh, NothingCommitted
<1>7. TypeOK
  <2>1. \A c \in Clients : call[c].paths \cup call[c].reset \cup call[c].checkout
                             \cup call[c].remove \subseteq Files
    BY <1>2 DEF Calls
  <2>2. Staged \subseteq Files
    BY DEF Staged
  <2>3. QED
    BY <1>5, <2>1, <2>2 DEF Init, TypeOK, Reports
<1>8. QED
  BY <1>2, <1>3, <1>6, <1>7 DEF GitInv

\* The invariant holds in every behaviour, whatever files, clients and reports.
THEOREM GitInvariance == Spec => []GitInv
BY InitGit, NextGit, PTL DEF Spec

\* A command whose client had the repository to itself did what its answer
\* says, for any set of paths and whatever state the files were in
\* (Tracker's Discard, Unstage and Diff, internal/adapters/git/tracker.go).
THEOREM AnswersAreHonest == Spec => []AnswersHold
<1>1. GitInv => AnswersHold
  BY DEF GitInv, CallInv, Honest, AnswersHold, DiscardRestores, UnstageClears,
         DiffShowsTheChange, Answered, Restored
<1>2. QED
  BY <1>1, GitInvariance, PTL

\* When nothing is under way the clients have been told what is staged, in
\* whatever order changes, timer and any number of reports came, unless a
\* change was dropped or two reports overlapped (watchGitIndex,
\* internal/session/manager.go).
THEOREM FeedStaysFresh == Spec => []FeedCatchesUp
<1>1. GitInv => FeedCatchesUp
  <2>1. NoReport.at = "none"
    BY DEF NoReport
  <2>2. QED
    BY <2>1 DEF GitInv, FeedIsFresh, Awaited, FeedCatchesUp
<1>2. QED
  BY <1>1, GitInvariance, PTL

-----------------------------------------------------------------------------
\* The index of a repository's files.

\* An entry of one of the files there have been after n changes, or none.
Entries == [inode : Nat, v : Nat]
Fits(e, n) == e \in Entries /\ (e = NoEntry \/ e.inode \in 1 .. n)
Notices == [op : {"created", "modified", "deleted", "renamed"}, path : Paths]
JobShaped(j, n) ==
  /\ j = [n |-> j.n, at |-> j.at, path |-> j.path, old |-> j.old, got |-> j.got]
  /\ j.at \in {"remove", "stat", "find", "drop", "insert"}
  /\ j.path \in Paths /\ Fits(j.got, n)
  /\ j.at \in {"remove", "drop"} => j.old \in Paths
  /\ j.at \in {"stat", "find", "insert"} => j.old = NoPath
  /\ j.at \in {"find", "drop", "insert"} <=> j.got # NoEntry

IndexTyped ==
  /\ changes \in Nat
  /\ disk \in [Paths -> Entries] /\ indexed \in [Paths -> Entries]
  /\ \A p \in Paths : Fits(disk[p], changes) /\ Fits(indexed[p], changes)
  /\ notices \in Seq(Notices)
  /\ debounced \in [Paths -> {"none", "created", "modified", "deleted"}]
  /\ pendingRename \in Paths \cup {NoPath}
  /\ scan \in [Walkers -> [at : {"idle", "walk"}, todo : SUBSET Paths,
                           found : [Paths -> Entries]]]
  /\ \A j \in jobs : JobShaped(j, changes)

\* No two files on the disk are one.
InodesDiffer ==
  \A p, q \in Paths : OnDisk(p) /\ p # q => disk[p].inode # disk[q].inode

Plain(p) == p \in Paths /\ p \notin muddled
Noticed(p) == \E i \in DOMAIN notices : notices[i].path = p
Due(p) == Noticed(p) \/ debounced[p] # "none" \/ pendingRename = p
\* The notice is the last one of its path.
LastOfPath(i) ==
  \A k \in DOMAIN notices : k > i => notices[k].path # notices[i].path
Removing(p) == \E j \in jobs : j.at = "remove" /\ j.old = p
\* Neither the disk nor a job knows the inode any more.
Vanished(inode) ==
  /\ \A p \in Paths : disk[p].inode # inode
  /\ \A j \in jobs : j.got.inode # inode

\* The last notice of a path says what has become of it.
NoticeTells(i) ==
  Plain(notices[i].path) =>
    /\ LastOfPath(i) =>
         (notices[i].op \in {"created", "modified"} <=> OnDisk(notices[i].path))
    /\ notices[i].op = "renamed" => LastOfPath(i)
NoticesTell ==
  /\ \A i \in DOMAIN notices : NoticeTells(i)
  /\ Plain(pendingRename) => ~OnDisk(pendingRename) /\ ~Noticed(pendingRename)

\* So does the debouncer's entry, when no notice is behind it.
SettledAt(p) ==
  Plain(p) /\ ~Noticed(p) /\ pendingRename # p =>
    /\ debounced[p] = "deleted" => ~OnDisk(p)
    /\ debounced[p] \in {"created", "modified"}
         => OnDisk(p) \/ indexed[p] = NoEntry \/ Removing(p)
DebouncedTells == \A p \in Paths : SettledAt(p)

\* A job removes what is gone, adds what is there, has read what is there, and
\* holds no file that another path has.
JobKnows(j) ==
  /\ j.at = "remove" /\ Plain(j.old) /\ ~Due(j.old) => ~OnDisk(j.old)
  /\ j.at \in {"remove", "stat"} /\ j.path # j.old /\ Plain(j.path) /\ ~Due(j.path)
       => OnDisk(j.path) \/ indexed[j.path] = NoEntry
  /\ j.got # NoEntry /\ Plain(j.path) => j.got = disk[j.path]
  /\ j.at = "drop" /\ Plain(j.old) => ~OnDisk(j.old)
  /\ j.got # NoEntry
       => \A q \in Paths : Plain(q) /\ q # j.path => j.got.inode # disk[q].inode
JobsKnow == \A j \in jobs : JobKnows(j)

\* An entry whose file is not there any more is of no file, or the path is gone
\* and its removal is on the way.
OldNameAt(q) ==
  Plain(q) /\ indexed[q] # NoEntry /\ indexed[q].inode # disk[q].inode =>
    \/ Vanished(indexed[q].inode)
    \/ ~OnDisk(q) /\ (Renaming(q) \/ Removing(q))
OldNamesGo == \A q \in Paths : OldNameAt(q)

ScanKnows(x) ==
  scan[x].at = "walk" =>
    /\ \A p \in Paths : Fits(scan[x].found[p], changes)
    /\ \A p \in Paths : Plain(p) /\ p \notin scan[x].todo => scan[x].found[p] = disk[p]
ScansKnow == \A x \in Walkers : ScanKnows(x)

\* A path of which nothing is due is shown as it is, or a job is at it.
ShownAt(p) == Plain(p) /\ ~Due(p) => indexed[p] = disk[p] \/ InJob(p)
ChangesShow == \A p \in Paths : ShownAt(p)

IndexInv ==
  /\ IndexTyped
  /\ InodesDiffer
  /\ NoticesTell
  /\ DebouncedTells
  /\ JobsKnow
  /\ OldNamesGo
  /\ ScansKnow
  /\ ChangesShow

\* It holds at first: there is one file, and nothing is under way.
LEMMA IndexStarts == IndexInit => IndexInv
<1> SUFFICES ASSUME IndexInit PROVE IndexInv
  OBVIOUS
<1> USE DEF IndexInit
<1>1. IsFiniteSet({p \in Paths : OnDisk(p)})
  BY FS_Subset, IndexAssumption, {p \in Paths : OnDisk(p)} \subseteq Paths
<1>2. PICK f : {p \in Paths : OnDisk(p)} = {f}
  BY <1>1, FS_Singleton
<1>3. /\ \A p \in Paths : disk[p] \in {NoEntry, [inode |-> 1, v |-> 1]}
      /\ \A p \in Paths : indexed[p] \in {NoEntry, [inode |-> 1, v |-> 1]}
  OBVIOUS
<1>4. Fits(NoEntry, 1) /\ Fits([inode |-> 1, v |-> 1], 1)
  BY DEF Fits, NoEntry, Entries
<1>5. IndexTyped
  <2>1. disk \in [Paths -> Entries] /\ indexed \in [Paths -> Entries]
    BY <1>3, <1>4 DEF Fits
  <2>2. scan \in [Walkers -> [at : {"idle", "walk"}, todo : SUBSET Paths,
                              found : [Paths -> Entries]]]
    BY <1>4 DEF Fits, Asleep
  <2>3. QED
    BY <1>3, <1>4, <2>1, <2>2 DEF IndexTyped
<1>6. InodesDiffer
  <2> SUFFICES ASSUME NEW p \in Paths, NEW q \in Paths, OnDisk(p), p # q
               PROVE disk[p].inode # disk[q].inode
    BY DEF InodesDiffer
  <2>1. ~OnDisk(q) /\ disk[p] = [inode |-> 1, v |-> 1]
    BY <1>2, <1>3 DEF OnDisk
  <2>2. disk[q].inode = 0
    BY <2>1 DEF OnDisk, NoEntry
  <2>3. QED
    BY <2>1, <2>2
<1>7. \A p : ~Noticed(p) /\ ~Plain(NoPath)
  BY IndexAssumption DEF Noticed, Plain
<1>8. NoticesTell /\ DebouncedTells /\ JobsKnow
  BY <1>7 DEF NoticesTell, DebouncedTells, SettledAt, JobsKnow
<1>9. ScansKnow
  BY DEF ScansKnow, ScanKnows, Asleep
<1>10. \A p \in Paths : Plain(p) => indexed[p] = disk[p]
  BY DEF Plain
<1>11. OldNamesGo /\ ChangesShow
  BY <1>10 DEF OldNamesGo, OldNameAt, ChangesShow, ShownAt
<1>12. QED
  BY <1>5, <1>6, <1>8, <1>9, <1>11 DEF IndexInv

-----------------------------------------------------------------------------
\* The tree changes.

\* What the changes of the tree have in common: one notice at most of each
\* path says what has become of it, a path is given a file that is new or that
\* another of them had, and a file that is on a path no more is gone, or its
\* path was renamed.
Describes(t, ns, ps) ==
  /\ t \in [Paths -> Entries] /\ ns \in Seq(Notices) /\ ps \in SUBSET Paths
  /\ \A p \in Paths \ ps : t[p] = disk[p]
  /\ \A p, q \in Paths : t[p] # NoEntry /\ p # q => t[p].inode # t[q].inode
  /\ \A i \in DOMAIN ns : ns[i].path \in ps
  /\ \A i \in DOMAIN ns :
        ns[i].op \in {"created", "modified"} <=> t[ns[i].path] # NoEntry
  /\ \A p \in ps : \E i \in DOMAIN ns : ns[i].path = p
  /\ \A i, k \in DOMAIN ns : i # k => ns[i].path # ns[k].path
  /\ \A p \in ps : \/ t[p] = NoEntry
                   \/ t[p].inode = changes + 1
                   \/ \E q \in ps : OnDisk(q) /\ t[p].inode = disk[q].inode
  /\ \A p \in ps : OnDisk(p) =>
        \/ t[p].inode = disk[p].inode
        \/ \A q \in Paths : t[q].inode # disk[p].inode
        \/ t[p] = NoEntry /\ \E i \in DOMAIN ns : ns[i] = [op |-> "renamed", path |-> p]

\* What a longer channel holds.
LEMMA NoticesGrow ==
  ASSUME notices \in Seq(Notices), NEW ns \in Seq(Notices), notices' = notices \o ns
  PROVE  /\ notices' \in Seq(Notices)
         /\ \A i \in DOMAIN notices : i \in DOMAIN notices' /\ notices'[i] = notices[i]
         /\ \A i \in DOMAIN ns : /\ Len(notices) + i \in DOMAIN notices'
                                 /\ notices'[Len(notices) + i] = ns[i]
                                 /\ \A k \in DOMAIN notices : k < Len(notices) + i
         /\ \A k \in DOMAIN notices' :
               \/ k \in DOMAIN notices
               \/ \E i \in DOMAIN ns : k = Len(notices) + i
<1>1. /\ Len(notices) \in Nat /\ DOMAIN notices = 1 .. Len(notices)
      /\ Len(ns) \in Nat /\ DOMAIN ns = 1 .. Len(ns)
      /\ notices' \in Seq(Notices) /\ Len(notices') = Len(notices) + Len(ns)
      /\ DOMAIN notices' = 1 .. (Len(notices) + Len(ns))
  OBVIOUS
<1>2. \A i \in DOMAIN notices : i \in DOMAIN notices' /\ notices'[i] = notices[i]
  BY <1>1
<1>3. \A i \in DOMAIN ns : /\ Len(notices) + i \in DOMAIN notices'
                           /\ notices'[Len(notices) + i] = ns[i]
                           /\ \A k \in DOMAIN notices : k < Len(notices) + i
  BY <1>1
<1>4. ASSUME NEW k \in DOMAIN notices', k \notin DOMAIN notices
      PROVE  \E i \in DOMAIN ns : k = Len(notices) + i
  <2>1. k - Len(notices) \in DOMAIN ns /\ k = Len(notices) + (k - Len(notices))
    BY <1>1, <1>4
  <2>2. QED
    BY <2>1
<1>5. QED
  BY <1>1, <1>2, <1>3, <1>4

\* The tree may change in any of these ways: who asks that its paths be left
\* out if they were under way finds the others as they were.
LEMMA ChangeKeeps ==
  ASSUME IndexInv, NEW t, NEW ns, NEW ps, Describes(t, ns, ps), Change(t, ns, ps)
  PROVE  IndexInv'
<1> USE DEF Describes
<1>1. /\ changes \in Nat /\ changes' = changes + 1 /\ disk' = t
      /\ UNCHANGED <<debounced, pendingRename, jobs, indexed, scan>>
      /\ notices' = notices \o ns
  BY DEF IndexInv, IndexTyped, Change
<1>2. /\ \A p : Plain(p)' => Plain(p)
      /\ \A p, q : p \in ps /\ q \in ps /\ Plain(p)' =>
           ~Scanning /\ ~Renaming(q) /\ ~InJob(q) /\ ~Held(q)
  BY DEF Change, Plain
<1>3. notices \in Seq(Notices)
  BY DEF IndexInv, IndexTyped
<1>4. /\ notices' \in Seq(Notices)
      /\ \A i \in DOMAIN notices : i \in DOMAIN notices' /\ notices'[i] = notices[i]
      /\ \A i \in DOMAIN ns : /\ Len(notices) + i \in DOMAIN notices'
                              /\ notices'[Len(notices) + i] = ns[i]
                              /\ \A k \in DOMAIN notices : k < Len(notices) + i
      /\ \A k \in DOMAIN notices' :
            \/ k \in DOMAIN notices
            \/ \E i \in DOMAIN ns : k = Len(notices) + i
  BY <1>1, <1>3, NoticesGrow
<1>5. \A p \in Paths : p \in ps => Noticed(p)'
  BY <1>4 DEF Noticed
<1>6. \A p \in Paths \ ps : /\ disk'[p] = disk[p] /\ (OnDisk(p)' <=> OnDisk(p))
                            /\ (Noticed(p)' <=> Noticed(p)) /\ (Due(p)' <=> Due(p))
  BY <1>1, <1>4 DEF OnDisk, Noticed, Due
<1>7. \A e : Fits(e, changes) => Fits(e, changes')
  BY <1>1 DEF Fits
<1>8. \A p \in Paths : Fits(disk[p], changes) /\ Fits(indexed[p], changes) /\ Fits(disk'[p], changes')
  <2>1. \A p \in Paths : Fits(disk[p], changes) /\ Fits(indexed[p], changes)
    BY DEF IndexInv, IndexTyped
  <2>2. ASSUME NEW p \in Paths PROVE Fits(disk'[p], changes')
    <3>1. disk'[p] \in Entries
      BY <1>1
    <3>2. CASE p \notin ps
      BY <2>1, <3>2, <1>6, <1>7
    <3>3. CASE p \in ps
      <4>1. CASE t[p] = NoEntry \/ t[p].inode = changes + 1
        BY <3>1, <4>1, <1>1 DEF Fits
      <4>2. CASE \E q \in ps : OnDisk(q) /\ t[p].inode = disk[q].inode
        <5>1. PICK q \in ps : OnDisk(q) /\ t[p].inode = disk[q].inode
          BY <4>2
        <5>2. disk[q].inode \in 1 .. changes
          BY <5>1, <2>1 DEF Fits, OnDisk
        <5>3. QED
          BY <5>1, <5>2, <3>1, <1>1 DEF Fits
      <4>3. QED
        BY <4>1, <4>2, <3>3
    <3>4. QED
      BY <3>2, <3>3
  <2>3. QED
    BY <2>1, <2>2
<1>9. IndexTyped'
  <2>1. \A j \in jobs : JobShaped(j, changes) => JobShaped(j, changes')
    BY <1>7 DEF JobShaped
  <2>2. \A j \in jobs : JobShaped(j, changes')
    BY <2>1 DEF IndexInv, IndexTyped
  <2>3. \A p \in Paths : Fits(disk'[p], changes') /\ Fits(indexed'[p], changes')
    BY <1>1, <1>7, <1>8
  <2>4. QED
    BY <1>1, <1>4, <2>2, <2>3 DEF IndexInv, IndexTyped
<1>10. InodesDiffer'
  BY <1>1 DEF InodesDiffer, OnDisk
<1>11. NoticesTell'
  <2>1. ASSUME NEW i \in DOMAIN notices', Plain(notices[i].path)'
        PROVE  NoticeTells(i)'
    <3> PICK p \in Paths : p = notices'[i].path /\ Plain(p)'
      BY <2>1 DEF Plain
    <3>1. CASE i \in DOMAIN notices
      <4>1. notices[i].path = p /\ Plain(p) /\ NoticeTells(i)
        BY <3>1, <1>2, <1>4 DEF IndexInv, NoticesTell
      <4>2. CASE p \in ps
        <5>1. ~LastOfPath(i)'
          <6>1. PICK m \in DOMAIN ns : ns[m].path = p
            BY <4>2
          <6>2. /\ Len(notices) + m \in DOMAIN notices'
                /\ notices'[Len(notices) + m].path = p
                /\ Len(notices) + m > i
            BY <6>1, <1>4, <3>1
          <6>3. QED
            BY <6>2 DEF LastOfPath
        <5>2. ~Renaming(p)
          BY <1>2, <4>2
        <5>3. notices[i] = [op |-> notices[i].op, path |-> p]
          <6>1. notices[i] \in Notices
            BY <1>3, <3>1
          <6>2. QED
            BY <6>1, <4>1 DEF Notices
        <5>4. notices'[i].op # "renamed"
          BY <5>2, <5>3, <3>1, <1>4 DEF Renaming
        <5>5. QED
          BY <5>1, <5>4, <4>1 DEF NoticeTells
      <4>3. CASE p \notin ps
        <5>1. LastOfPath(i)' <=> LastOfPath(i)
          <6>1. \A m \in DOMAIN ns : ns[m].path # p
            BY <4>3
          <6>2. QED
            BY <6>1, <1>4, <3>1, <4>1, SMTT(30) DEF LastOfPath
        <5>2. OnDisk(p)' <=> OnDisk(p)
          BY <1>6, <4>1, <4>3
        <5>3. QED
          BY <5>1, <5>2, <4>1, <1>4, <3>1 DEF NoticeTells
      <4>4. QED
        BY <4>2, <4>3
    <3>2. CASE i \notin DOMAIN notices
      <4>1. PICK m \in DOMAIN ns : i = Len(notices) + m
        BY <1>4, <3>2
      <4>2. notices'[i] = ns[m]
        BY <1>4, <4>1
      <4>3. LastOfPath(i)'
        <5> SUFFICES ASSUME NEW k \in DOMAIN notices', k > i
                     PROVE notices'[k].path # ns[m].path
          BY <4>2 DEF LastOfPath
        <5>1. k \notin DOMAIN notices
          BY <1>4, <4>1
        <5>2. PICK l \in DOMAIN ns : k = Len(notices) + l
          BY <1>4, <5>1
        <5>3. l # m /\ notices'[k] = ns[l]
          BY <5>2, <4>1, <1>4
        <5>4. QED
          BY <5>3
      <4>4. OnDisk(ns[m].path)' <=> t[ns[m].path] # NoEntry
        BY <1>1 DEF OnDisk
      <4>5. QED
        BY <4>2, <4>3, <4>4 DEF NoticeTells
    <3>3. QED
      BY <3>1, <3>2
  <2>2. Plain(pendingRename)' => ~OnDisk(pendingRename)' /\ ~Noticed(pendingRename)'
    <3> SUFFICES ASSUME Plain(pendingRename)'
                 PROVE ~OnDisk(pendingRename)' /\ ~Noticed(pendingRename)'
      OBVIOUS
    <3>1. Plain(pendingRename) /\ pendingRename' = pendingRename
      BY <1>1, <1>2 DEF Plain
    <3>2. Renaming(pendingRename)
      BY DEF Renaming
    <3>3. pendingRename \in Paths \ ps
      BY <1>2, <3>1, <3>2 DEF Plain
    <3>4. QED
      BY <3>1, <3>3, <1>6 DEF IndexInv, NoticesTell, OnDisk, Noticed
  <2>3. QED
    BY <2>1, <2>2 DEF NoticesTell, NoticeTells
<1>12. DebouncedTells'
  BY <1>1, <1>2, <1>5, <1>6 DEF IndexInv, DebouncedTells, SettledAt, Removing, OnDisk
<1>13. JobsKnow'
  <2> SUFFICES ASSUME NEW j \in jobs PROVE JobKnows(j)'
    BY <1>1 DEF JobsKnow
  <2>1. JobKnows(j) /\ JobShaped(j, changes) /\ j.path \in Paths
    BY DEF IndexInv, IndexTyped, JobsKnow, JobShaped
  <2>2. \A p \in Paths : ~Due(p)' => p \in Paths \ ps /\ ~Due(p)
    BY <1>5, <1>6 DEF Due
  <2>3. j.at = "remove" /\ Plain(j.old)' /\ ~Due(j.old)' => ~OnDisk(j.old)'
    BY <2>1, <2>2, <1>2, <1>6 DEF JobKnows, Plain
  <2>4. j.at \in {"remove", "stat"} /\ j.path # j.old /\ Plain(j.path)' /\ ~Due(j.path)'
          => OnDisk(j.path)' \/ indexed'[j.path] = NoEntry
    BY <2>1, <2>2, <1>1, <1>2, <1>6 DEF JobKnows
  <2>5. InJob(j.path) /\ InJob(j.old)
    BY DEF InJob
  <2>6. j.got # NoEntry /\ Plain(j.path)' => j.got = disk'[j.path]
    BY <2>1, <2>5, <1>2, <1>6 DEF JobKnows
  <2>7. j.at = "drop" /\ Plain(j.old)' => ~OnDisk(j.old)'
    BY <2>1, <2>5, <1>2, <1>6 DEF JobKnows, Plain
  <2>8. ASSUME j.got # NoEntry, NEW q \in Paths, Plain(q)', q # j.path
        PROVE j.got.inode # disk'[q].inode
    <3>1. Plain(q) /\ j.got.inode # disk[q].inode /\ j.got.inode \in 1 .. changes
      BY <2>8, <2>1, <1>2 DEF JobKnows, JobShaped, Fits
    <3>2. CASE q \notin ps
      BY <3>1, <3>2, <1>6
    <3>3. CASE q \in ps
      <4>1. \A r \in ps : OnDisk(r) => j.got.inode # disk[r].inode
        BY <1>2, <2>8, <3>3 DEF Held
      <4>2. QED
        BY <4>1, <3>1, <3>3, <1>1 DEF NoEntry
    <3>4. QED
      BY <3>2, <3>3
  <2>9. QED
    BY <2>3, <2>4, <2>6, <2>7, <2>8 DEF JobKnows
<1>14. OldNamesGo'
  <2> SUFFICES ASSUME NEW q \in Paths, Plain(q)', indexed[q] # NoEntry,
                      indexed[q].inode # disk'[q].inode
               PROVE \/ Vanished(indexed[q].inode)'
                     \/ ~OnDisk(q)' /\ (Renaming(q)' \/ Removing(q)')
    BY <1>1 DEF OldNamesGo, OldNameAt
  <2>1. Plain(q) /\ OldNameAt(q) /\ indexed[q].inode \in 1 .. changes
    BY <1>2, <1>8 DEF IndexInv, OldNamesGo, Fits
  <2>2. CASE indexed[q].inode = disk[q].inode
    <3>1. q \in ps /\ OnDisk(q)
      BY <2>1, <2>2, <1>6 DEF OnDisk, NoEntry
    <3>2. \A j \in jobs : j.got.inode # indexed[q].inode
      <4>1. ~Held(q)
        BY <1>2, <3>1
      <4>2. QED
        BY <4>1, <3>1, <2>2 DEF Held
    <3>3. \/ \A r \in Paths : t[r].inode # disk[q].inode
          \/ t[q] = NoEntry /\ \E i \in DOMAIN ns : ns[i] = [op |-> "renamed", path |-> q]
      BY <3>1, <2>2, <1>1
    <3>4. CASE \A r \in Paths : t[r].inode # disk[q].inode
      BY <3>2, <3>4, <2>2, <1>1 DEF Vanished
    <3>5. CASE t[q] = NoEntry /\ \E i \in DOMAIN ns : ns[i] = [op |-> "renamed", path |-> q]
      <4>1. ~OnDisk(q)'
        BY <3>5, <1>1 DEF OnDisk
      <4>2. PICK i \in DOMAIN ns : ns[i] = [op |-> "renamed", path |-> q]
        BY <3>5
      <4>3. Renaming(q)'
        BY <4>2, <1>4 DEF Renaming
      <4>4. QED
        BY <4>1, <4>3
    <3>6. QED
      BY <3>3, <3>4, <3>5
  <2>3. CASE indexed[q].inode # disk[q].inode
    <3>1. CASE Vanished(indexed[q].inode)
      <4>1. ASSUME NEW p \in Paths PROVE disk'[p].inode # indexed[q].inode
        BY <3>1, <2>1, <1>1, <1>6 DEF Vanished, NoEntry
      <4>2. QED
        BY <3>1, <4>1, <1>1 DEF Vanished
    <3>2. CASE ~OnDisk(q) /\ (Renaming(q) \/ Removing(q))
      <4>1. q \notin ps
        BY <3>2, <1>2 DEF Removing, InJob
      <4>2. ~OnDisk(q)'
        BY <3>2, <4>1, <1>6
      <4>3. Removing(q)' <=> Removing(q)
        BY <1>1 DEF Removing
      <4>4. Renaming(q) => Renaming(q)'
        BY <1>1, <1>4 DEF Renaming
      <4>5. QED
        BY <3>2, <4>2, <4>3, <4>4
    <3>3. QED
      BY <2>1, <2>3, <3>1, <3>2 DEF OldNameAt
  <2>4. QED
    BY <2>2, <2>3
<1>15. ScansKnow'
  <2> SUFFICES ASSUME NEW x \in Walkers, scan[x].at = "walk"
               PROVE  /\ \A p \in Paths : Fits(scan[x].found[p], changes')
                      /\ \A p \in Paths : Plain(p)' /\ p \notin scan[x].todo
                                            => scan[x].found[p] = disk'[p]
    BY <1>1 DEF ScansKnow, ScanKnows
  <2>1. ScanKnows(x)
    BY DEF IndexInv, ScansKnow
  <2>2. \A p \in ps : ~Plain(p)'
    BY <1>2 DEF Scanning
  <2>3. QED
    BY <2>1, <2>2, <1>2, <1>6, <1>7 DEF ScanKnows
<1>16. ChangesShow'
  BY <1>1, <1>2, <1>5, <1>6 DEF IndexInv, ChangesShow, ShownAt, Due, InJob
<1>17. QED
  BY <1>9, <1>10, <1>11, <1>12, <1>13, <1>14, <1>15, <1>16 DEF IndexInv

\* The facts about the files that the changes start from.
LEMMA DiskFacts ==
  ASSUME IndexInv
  PROVE  /\ changes \in Nat /\ disk \in [Paths -> Entries]
         /\ \A p \in Paths : OnDisk(p) => disk[p].inode \in 1 .. changes
         /\ \A p \in Paths : ~OnDisk(p) => disk[p].inode = 0
         /\ \A p, q \in Paths : OnDisk(p) /\ p # q => disk[p].inode # disk[q].inode
BY DEF IndexInv, IndexTyped, InodesDiffer, OnDisk, Fits, NoEntry

\* One path is written, removed or moved away: e is what it has then.
LEMMA OnePathKeeps ==
  ASSUME IndexInv, NEW p \in Paths, NEW e \in Entries, NEW op,
         op \in {"created", "modified", "deleted", "renamed"},
         op \in {"created", "modified"} <=> e # NoEntry,
         e = NoEntry \/ e.inode = changes + 1 \/ (OnDisk(p) /\ e.inode = disk[p].inode),
         Change([disk EXCEPT ![p] = e], Notice(op, p), {p})
  PROVE  IndexInv'
<1> DEFINE t == [disk EXCEPT ![p] = e]
           ns == Notice(op, p)
           ps == {p}
<1>1. /\ changes \in Nat /\ disk \in [Paths -> Entries]
      /\ \A q \in Paths : OnDisk(q) => disk[q].inode \in 1 .. changes
      /\ \A q \in Paths : ~OnDisk(q) => disk[q].inode = 0
      /\ \A q, r \in Paths : OnDisk(q) /\ q # r => disk[q].inode # disk[r].inode
  BY DiskFacts
<1>2. t \in [Paths -> Entries] /\ t[p] = e /\ \A q \in Paths \ ps : t[q] = disk[q]
  BY <1>1
<1>3. /\ ns \in Seq(Notices) /\ DOMAIN ns = {1} /\ ns[1] = [op |-> op, path |-> p]
  BY DEF Notice, Notices
<1>4. Change(t, ns, ps)
  OBVIOUS
<1> HIDE DEF t, ns
<1>5. \A q, r \in Paths : t[q] # NoEntry /\ q # r => t[q].inode # t[r].inode
  <2> SUFFICES ASSUME NEW q \in Paths, NEW r \in Paths, t[q] # NoEntry, q # r
               PROVE  t[q].inode # t[r].inode
    OBVIOUS
  <2>1. CASE q # p /\ r # p
    BY <2>1, <1>1, <1>2 DEF OnDisk
  <2>2. CASE q = p
    <3>1. t[r] = disk[r] /\ t[q] = e /\ e # NoEntry
      BY <2>2, <1>2
    <3>2. disk[r].inode \in 0 .. changes
      BY <1>1
    <3>3. CASE e.inode = changes + 1
      BY <3>1, <3>2, <3>3, <1>1
    <3>4. CASE OnDisk(p) /\ e.inode = disk[p].inode
      BY <3>1, <3>4, <2>2, <1>1
    <3>5. QED
      BY <3>1, <3>3, <3>4
  <2>3. CASE r = p
    <3>1. t[q] = disk[q] /\ t[r] = e /\ OnDisk(q)
      BY <2>3, <1>2 DEF OnDisk
    <3>2. disk[q].inode \in 1 .. changes
      BY <3>1, <1>1
    <3>3. QED
      BY <3>1, <3>2, <2>3, <1>1 DEF NoEntry
  <2>4. QED
    BY <2>1, <2>2, <2>3
<1>6. OnDisk(p) =>
        \/ t[p].inode = disk[p].inode
        \/ \A q \in Paths : t[q].inode # disk[p].inode
  <2> SUFFICES ASSUME OnDisk(p), t[p].inode # disk[p].inode, NEW q \in Paths
               PROVE  t[q].inode # disk[p].inode
    OBVIOUS
  <2>1. CASE q # p
    BY <2>1, <1>1, <1>2
  <2>2. QED
    BY <2>1
<1>7. Describes(t, ns, ps)
  BY <1>1, <1>2, <1>3, <1>5, <1>6 DEF Describes, OnDisk
<1>8. QED
  BY <1>4, <1>7, ChangeKeeps

\* A rename is such a change of two paths.
LEMMA RenameKeeps ==
  ASSUME IndexInv, NEW p \in Paths, NEW q \in Paths, RenameFile(p, q)
  PROVE  IndexInv'
<1> DEFINE t == [disk EXCEPT ![p] = NoEntry, ![q] = disk[p]]
           ns == Notice("renamed", p) \o Notice("created", q)
           ps == {p, q}
<1>1. /\ changes \in Nat /\ disk \in [Paths -> Entries]
      /\ \A r \in Paths : OnDisk(r) => disk[r].inode \in 1 .. changes
      /\ \A r \in Paths : ~OnDisk(r) => disk[r].inode = 0
      /\ \A r, s \in Paths : OnDisk(r) /\ r # s => disk[r].inode # disk[s].inode
  BY DiskFacts
<1>2. p # q /\ OnDisk(p) /\ Change(t, ns, ps)
  BY DEF RenameFile
<1>3. /\ t \in [Paths -> Entries] /\ t[p] = NoEntry /\ t[q] = disk[p]
      /\ \A r \in Paths \ ps : t[r] = disk[r]
  BY <1>1, <1>2 DEF NoEntry, Entries
<1>4. /\ ns \in Seq(Notices) /\ DOMAIN ns = {1, 2}
      /\ ns[1] = [op |-> "renamed", path |-> p] /\ ns[2] = [op |-> "created", path |-> q]
  BY DEF Notice, Notices
<1> HIDE DEF t, ns
<1>5. NoEntry.inode = 0
  BY DEF NoEntry
<1>6. \A r, s \in Paths : t[r] # NoEntry /\ r # s => t[r].inode # t[s].inode
  BY <1>1, <1>2, <1>3, <1>5 DEF OnDisk
<1>7. \A r \in Paths : q # p /\ OnDisk(q) => t[r].inode # disk[q].inode
  BY <1>1, <1>2, <1>3, <1>5
<1>8. /\ \A i \in DOMAIN ns : ns[i].path \in ps
      /\ \A i \in DOMAIN ns :
            ns[i].op \in {"created", "modified"} <=> t[ns[i].path] # NoEntry
      /\ \A r \in ps : \E i \in DOMAIN ns : ns[i].path = r
      /\ \A i, k \in DOMAIN ns : i # k => ns[i].path # ns[k].path
  BY <1>2, <1>3, <1>4 DEF OnDisk
<1>9. /\ \A r \in ps : \/ t[r] = NoEntry
                       \/ \E s \in ps : OnDisk(s) /\ t[r].inode = disk[s].inode
      /\ \A r \in ps : OnDisk(r) =>
            \/ \A s \in Paths : t[s].inode # disk[r].inode
            \/ t[r] = NoEntry /\ \E i \in DOMAIN ns : ns[i] = [op |-> "renamed", path |-> r]
  BY <1>2, <1>3, <1>4, <1>7
<1>10. Describes(t, ns, ps)
  BY <1>1, <1>3, <1>4, <1>6, <1>8, <1>9 DEF Describes
<1>11. QED
  BY <1>2, <1>10, ChangeKeeps

\* So may whoever works in the tree.
LEMMA TreeKeeps == IndexInv /\ TreeStep => IndexInv'
<1> SUFFICES ASSUME IndexInv, TreeStep PROVE IndexInv'
  OBVIOUS
<1>1. ASSUME NEW p \in Paths, WriteFile(p) PROVE IndexInv'
  <2> DEFINE e == IF OnDisk(p) THEN [disk[p] EXCEPT !.v = changes + 1]
                  ELSE [inode |-> changes + 1, v |-> changes + 1]
             op == IF OnDisk(p) THEN "modified" ELSE "created"
  <2>1. /\ changes \in Nat /\ disk[p] \in Entries
        /\ OnDisk(p) => disk[p].inode \in 1 .. changes
    BY DiskFacts
  <2>2. e \in Entries
    BY <2>1 DEF Entries
  <2>3. \/ e.inode = changes + 1
        \/ OnDisk(p) /\ e.inode = disk[p].inode
    BY <2>1 DEF Entries
  <2>4. e # NoEntry
    BY <2>1, <2>3 DEF NoEntry
  <2>5. op \in {"created", "modified"}
    OBVIOUS
  <2>6. Change([disk EXCEPT ![p] = e], Notice(op, p), {p})
    BY <1>1 DEF WriteFile
  <2> HIDE DEF e, op
  <2>7. QED
    BY <2>2, <2>3, <2>4, <2>5, <2>6, OnePathKeeps
<1>2. ASSUME NEW p \in Paths, RemoveFromTree(p) \/ MoveAway(p) PROVE IndexInv'
  <2>1. NoEntry \in Entries
    BY DEF NoEntry, Entries
  <2>2. PICK op \in {"deleted", "renamed"} :
          Change([disk EXCEPT ![p] = NoEntry], Notice(op, p), {p})
    BY <1>2 DEF RemoveFromTree, MoveAway
  <2>3. QED
    BY <2>1, <2>2, OnePathKeeps
<1>3. QED
  BY <1>1, <1>2, RenameKeeps DEF TreeStep

-----------------------------------------------------------------------------
\* The watcher.

\* What the channel holds without its first notice.
LEMMA NoticesShrink ==
  ASSUME notices \in Seq(Notices), notices # << >>, notices' = Tail(notices)
  PROVE  /\ 1 \in DOMAIN notices /\ Head(notices) = notices[1] /\ notices[1] \in Notices
         /\ notices' \in Seq(Notices)
         /\ \A i \in DOMAIN notices' : /\ i + 1 \in DOMAIN notices /\ i + 1 > 1
                                       /\ notices'[i] = notices[i + 1]
         /\ \A k \in DOMAIN notices :
               \/ k = 1
               \/ \E i \in DOMAIN notices' : k = i + 1
         /\ \A i, k \in DOMAIN notices' : k > i <=> k + 1 > i + 1
<1>1. /\ Len(notices) \in Nat /\ Len(notices) > 0 /\ DOMAIN notices = 1 .. Len(notices)
      /\ notices' \in Seq(Notices) /\ DOMAIN notices' = 1 .. (Len(notices) - 1)
  OBVIOUS
<1>2. \A i \in DOMAIN notices' : notices'[i] = notices[i + 1]
  BY <1>1
<1>3. ASSUME NEW k \in DOMAIN notices, k # 1
      PROVE  \E i \in DOMAIN notices' : k = i + 1
  <2>1. k - 1 \in DOMAIN notices' /\ k = (k - 1) + 1
    BY <1>1, <1>3
  <2>2. QED
    BY <2>1
<1>4. QED
  BY <1>1, <1>2, <1>3

\* The watcher takes a notice (handleEvent).
LEMMA HandleEventKeeps ==
  ASSUME IndexInv, HandleEvent
  PROVE  IndexInv'
<1> PICK n : n = Head(notices)
  OBVIOUS
<1>1. /\ n = notices[1] /\ n \in Notices /\ 1 \in DOMAIN notices
      /\ notices' \in Seq(Notices)
      /\ \A i \in DOMAIN notices' : /\ i + 1 \in DOMAIN notices /\ i + 1 > 1
                                    /\ notices'[i] = notices[i + 1]
      /\ \A k \in DOMAIN notices :
            \/ k = 1
            \/ \E i \in DOMAIN notices' : k = i + 1
      /\ \A i, k \in DOMAIN notices' : k > i <=> k + 1 > i + 1
  BY NoticesShrink DEF IndexInv, IndexTyped, HandleEvent
<1>2. /\ UNCHANGED <<disk, changes, jobs, indexed, scan>>
      /\ \/ /\ n.op = "renamed" /\ pendingRename' = n.path /\ debounced' = debounced
            /\ muddled' = muddled \cup ({pendingRename} \ {NoPath})
         \/ /\ n.op # "renamed" /\ UNCHANGED <<pendingRename, muddled>>
            /\ debounced' = [debounced EXCEPT ![n.path] = Merge(@, n.op)]
  BY DEF HandleEvent
<1>3. /\ debounced \in [Paths -> {"none", "created", "modified", "deleted"}]
      /\ pendingRename \in Paths \cup {NoPath}
  BY DEF IndexInv, IndexTyped
<1>4. n.path \in Paths /\ n.op \in {"created", "modified", "deleted", "renamed"}
  BY <1>1 DEF Notices
<1>5. /\ \A p : Plain(p)' => Plain(p)
      /\ \A p : Plain(p)' /\ pendingRename = p => pendingRename' = p \/ n.op # "renamed"
  BY <1>2, IndexAssumption DEF Plain
<1>6. /\ \A p : OnDisk(p)' <=> OnDisk(p)
      /\ \A p : InJob(p)' <=> InJob(p)
      /\ \A p : Removing(p)' <=> Removing(p)
      /\ \A i : Vanished(i)' <=> Vanished(i)
  BY <1>2 DEF OnDisk, InJob, Removing, Vanished
<1>7. /\ \A p : Noticed(p)' => Noticed(p)
      /\ \A p : Noticed(p) => Noticed(p)' \/ p = n.path
  BY <1>1 DEF Noticed
<1>8. n.op # "renamed" =>
        /\ n.op = "deleted" => debounced'[n.path] = "deleted"
        /\ n.op # "deleted" => debounced'[n.path] \in {"created", "modified"}
        /\ \A p \in Paths \ {n.path} : debounced'[p] = debounced[p]
  BY <1>2, <1>3, <1>4 DEF Merge
<1>9. \A p \in Paths : Plain(p)' /\ Due(p) => Due(p)'
  BY <1>2, <1>5, <1>7, <1>8 DEF Due
<1>10. IndexTyped'
  <2>1. debounced' \in [Paths -> {"none", "created", "modified", "deleted"}]
    BY <1>2, <1>3, <1>4 DEF Merge
  <2>2. pendingRename' \in Paths \cup {NoPath}
    BY <1>2, <1>3, <1>4
  <2>3. QED
    BY <1>1, <1>2, <2>1, <2>2 DEF IndexInv, IndexTyped
<1>11. InodesDiffer'
  BY <1>2 DEF IndexInv, InodesDiffer, OnDisk
<1>12. NoticeTells(1) /\ (~Noticed(n.path)' => LastOfPath(1))
  <2>1. NoticeTells(1)
    BY <1>1 DEF IndexInv, NoticesTell
  <2>2. ASSUME ~Noticed(n.path)' PROVE LastOfPath(1)
    <3> SUFFICES ASSUME NEW k \in DOMAIN notices, k > 1
                 PROVE notices[k].path # notices[1].path
      BY DEF LastOfPath
    <3>1. PICK i \in DOMAIN notices' : k = i + 1
      BY <1>1
    <3>2. notices'[i].path # n.path
      BY <2>2 DEF Noticed
    <3>3. QED
      BY <3>1, <3>2, <1>1
  <2>3. QED
    BY <2>1, <2>2
<1>13. LastOfPath(1) => ~Noticed(n.path)'
  BY <1>1 DEF LastOfPath, Noticed
<1>14. NoticesTell'
  <2>1. ASSUME NEW i \in DOMAIN notices' PROVE NoticeTells(i)'
    <3>1. NoticeTells(i + 1) /\ notices'[i] = notices[i + 1] /\ i + 1 \in DOMAIN notices
      BY <1>1 DEF IndexInv, NoticesTell
    <3>2. LastOfPath(i)' <=> LastOfPath(i + 1)
      <4>1. ASSUME LastOfPath(i + 1) PROVE LastOfPath(i)'
        BY <4>1, <1>1 DEF LastOfPath
      <4>2. ASSUME LastOfPath(i)', NEW k \in DOMAIN notices, k > i + 1
            PROVE  notices[k].path # notices[i + 1].path
        <5>1. k # 1
          BY <4>2, <1>1
        <5>2. PICK l \in DOMAIN notices' : k = l + 1
          BY <1>1, <5>1
        <5>3. l > i
          BY <5>2, <4>2, <1>1
        <5>4. QED
          BY <5>2, <5>3, <4>2, <1>1 DEF LastOfPath
      <4>3. QED
        BY <4>1, <4>2 DEF LastOfPath
    <3>3. QED
      BY <3>1, <3>2, <1>5, <1>6 DEF NoticeTells
  <2>2. ASSUME Plain(pendingRename)'
        PROVE ~OnDisk(pendingRename)' /\ ~Noticed(pendingRename)'
    <3> PICK p \in Paths : p = pendingRename' /\ Plain(p)'
      BY <2>2 DEF Plain
    <3>1. Plain(p)
      BY <1>5
    <3>2. CASE n.op = "renamed"
      <4>1. p = n.path /\ LastOfPath(1)
        BY <3>1, <3>2, <1>1, <1>2, <1>12 DEF NoticeTells
      <4>2. ~OnDisk(p)
        BY <4>1, <3>1, <3>2, <1>1, <1>12 DEF NoticeTells
      <4>3. ~Noticed(p)'
        BY <4>1, <1>13
      <4>4. QED
        BY <4>2, <4>3, <1>2 DEF OnDisk, Noticed
    <3>3. CASE n.op # "renamed"
      <4>1. p = pendingRename
        BY <3>3, <1>2
      <4>2. ~OnDisk(p) /\ ~Noticed(p)
        BY <4>1, <3>1 DEF IndexInv, NoticesTell
      <4>3. ~OnDisk(p)' /\ ~Noticed(p)'
        BY <4>2, <1>6, <1>7
      <4>4. QED
        BY <4>3 DEF OnDisk, Noticed
    <3>4. QED
      BY <3>2, <3>3
  <2>3. QED
    BY <2>1, <2>2 DEF NoticesTell
<1>15. DebouncedTells'
  <2> SUFFICES ASSUME NEW p \in Paths, Plain(p)', ~Noticed(p)', pendingRename' # p
               PROVE  /\ debounced'[p] = "deleted" => ~OnDisk(p)
                      /\ debounced'[p] \in {"created", "modified"}
                           => OnDisk(p) \/ indexed[p] = NoEntry \/ Removing(p)
    BY <1>2, <1>6 DEF DebouncedTells, SettledAt
  <2>1. Plain(p) /\ SettledAt(p)
    BY <1>5 DEF IndexInv, DebouncedTells
  <2>2. CASE p = n.path
    <3>1. n.op # "renamed" /\ LastOfPath(1)
      BY <2>2, <1>2, <1>12
    <3>2. n.op \in {"created", "modified"} <=> OnDisk(p)
      BY <3>1, <2>1, <2>2, <1>1, <1>12 DEF NoticeTells
    <3>3. QED
      BY <3>1, <3>2, <2>2, <1>4, <1>8
  <2>3. CASE p # n.path
    <3>1. ~Noticed(p) /\ debounced'[p] = debounced[p]
      BY <2>3, <1>2, <1>7, <1>8
    <3>2. pendingRename # p
      BY <1>2, <1>5
    <3>3. QED
      BY <3>1, <3>2, <2>1 DEF SettledAt
  <2>4. QED
    BY <2>2, <2>3
<1>16. JobsKnow'
  <2> SUFFICES ASSUME NEW j \in jobs PROVE JobKnows(j)'
    BY <1>2 DEF JobsKnow
  <2>1. JobKnows(j)
    BY DEF IndexInv, JobsKnow
  <2>2. QED
    BY <2>1, <1>2, <1>5, <1>6, <1>9 DEF JobKnows, Plain
<1>17. OldNamesGo'
  <2> SUFFICES ASSUME NEW q \in Paths, Plain(q)', Renaming(q) PROVE Renaming(q)'
    BY <1>2, <1>5, <1>6 DEF IndexInv, OldNamesGo, OldNameAt
  <2>1. CASE pendingRename = q
    BY <2>1, <1>2, <1>5 DEF Renaming
  <2>2. CASE pendingRename # q
    <3>1. PICK k \in DOMAIN notices : notices[k] = [op |-> "renamed", path |-> q]
      BY <2>2 DEF Renaming
    <3>2. CASE k = 1
      BY <3>1, <3>2, <1>1, <1>2 DEF Renaming
    <3>3. CASE k # 1
      BY <3>1, <3>3, <1>1 DEF Renaming
    <3>4. QED
      BY <3>2, <3>3
  <2>3. QED
    BY <2>1, <2>2
<1>18. ScansKnow'
  BY <1>2, <1>5 DEF IndexInv, ScansKnow, ScanKnows
<1>19. ChangesShow'
  BY <1>2, <1>5, <1>6, <1>9 DEF IndexInv, ChangesShow, ShownAt
<1>20. QED
  BY <1>10, <1>11, <1>14, <1>15, <1>16, <1>17, <1>18, <1>19 DEF IndexInv

\* A job k is started for a change that is due no more: it is of each path of
\* which that was the last that was due, and no other job was.
LEMMA StartJobKeeps ==
  ASSUME IndexInv, NEW k,
         UNCHANGED <<disk, changes, notices, indexed, scan>>,
         jobs' = jobs \cup {k},
         JobShaped(k, changes), k.at \in {"remove", "stat"},
         debounced' \in [Paths -> {"none", "created", "modified", "deleted"}],
         \A p \in Paths : debounced'[p] \in {debounced[p], "none"},
         pendingRename' \in {pendingRename, NoPath},
         \A p : Plain(p)' => Plain(p),
         \A p : Plain(p)' /\ Due(p) /\ ~Due(p)' => ~InJob(p) /\ p \in {k.path, k.old},
         \A p : Plain(p)' /\ pendingRename = p /\ pendingRename' # p
                  => k.at = "remove" /\ k.old = p,
         \A p : k.at = "remove" /\ k.old = p /\ Plain(p)' /\ ~Due(p)' => ~OnDisk(p),
         \A p : k.path = p /\ p # k.old /\ Plain(p)' /\ ~Due(p)'
                  => OnDisk(p) \/ indexed[p] = NoEntry
  PROVE  IndexInv'
<1>1. /\ \A p : OnDisk(p)' <=> OnDisk(p)
      /\ \A p : Noticed(p)' <=> Noticed(p)
      /\ \A p : InJob(p)' <=> InJob(p) \/ p \in {k.path, k.old}
      /\ \A p : Removing(p)' <=> Removing(p) \/ (k.at = "remove" /\ k.old = p)
  BY DEF OnDisk, Noticed, InJob, Removing
<1>2. k.got = NoEntry /\ k.got.inode = 0
  BY DEF JobShaped, NoEntry
<1>3. pendingRename \in Paths \cup {NoPath} /\ ~Plain(NoPath)'
  BY IndexAssumption DEF IndexInv, IndexTyped, Plain
<1>4. IndexTyped'
  BY <1>3 DEF IndexInv, IndexTyped
<1>5. InodesDiffer'
  BY DEF IndexInv, InodesDiffer, OnDisk
<1>6. NoticesTell'
  <2>1. \A i \in DOMAIN notices : NoticeTells(i)'
    BY <1>1 DEF IndexInv, NoticesTell, NoticeTells, LastOfPath
  <2>2. ASSUME Plain(pendingRename)'
        PROVE ~OnDisk(pendingRename)' /\ ~Noticed(pendingRename)'
    <3>1. pendingRename' = pendingRename
      BY <2>2, <1>3 DEF Plain
    <3>2. Plain(pendingRename)
      BY <2>2, <3>1 DEF Plain
    <3>3. QED
      BY <3>1, <3>2, <1>1 DEF IndexInv, NoticesTell, OnDisk, Noticed
  <2>3. QED
    BY <2>1, <2>2 DEF NoticesTell
<1>7. DebouncedTells'
  <2> SUFFICES ASSUME NEW p \in Paths, Plain(p)', ~Noticed(p), pendingRename' # p
               PROVE  /\ debounced'[p] = "deleted" => ~OnDisk(p)
                      /\ debounced'[p] \in {"created", "modified"}
                           => OnDisk(p) \/ indexed[p] = NoEntry \/ Removing(p)'
    BY <1>1 DEF DebouncedTells, SettledAt
  <2>1. CASE pendingRename = p
    <3>1. ~OnDisk(p)
      BY <2>1 DEF IndexInv, NoticesTell
    <3>2. QED
      BY <2>1, <3>1, <1>1
  <2>2. CASE pendingRename # p
    <3>1. SettledAt(p) /\ Plain(p)
      BY DEF IndexInv, DebouncedTells
    <3>2. QED
      BY <2>2, <3>1, <1>1 DEF SettledAt
  <2>3. QED
    BY <2>1, <2>2
<1>8. JobsKnow'
  <2>1. ASSUME NEW j \in jobs PROVE JobKnows(j)'
    <3>1. JobKnows(j) /\ InJob(j.path) /\ InJob(j.old)
      BY DEF IndexInv, JobsKnow, InJob
    <3>2. \A p \in {j.path, j.old} : Plain(p)' /\ ~Due(p)' => Plain(p) /\ ~Due(p)
      BY <3>1
    <3>3. QED
      BY <3>1, <3>2, <1>1 DEF JobKnows
  <2>2. JobKnows(k)'
    BY <1>1, <1>2 DEF JobKnows
  <2>3. QED
    BY <2>1, <2>2 DEF JobsKnow
<1>9. OldNamesGo'
  <2> SUFFICES ASSUME NEW q \in Paths, Plain(q)', indexed[q] # NoEntry,
                      indexed[q].inode # disk[q].inode
               PROVE \/ Vanished(indexed[q].inode)'
                     \/ ~OnDisk(q) /\ (Renaming(q)' \/ Removing(q)')
    BY <1>1 DEF OldNamesGo, OldNameAt
  <2>1. OldNameAt(q) /\ Plain(q) /\ indexed[q].inode # 0
    BY DEF IndexInv, IndexTyped, OldNamesGo, Fits
  <2>2. Vanished(indexed[q].inode) => Vanished(indexed[q].inode)'
    BY <2>1, <1>2 DEF Vanished
  <2>3. Renaming(q) => Renaming(q)' \/ Removing(q)'
    BY <1>1 DEF Renaming
  <2>4. QED
    BY <2>1, <2>2, <2>3, <1>1 DEF OldNameAt
<1>10. ScansKnow'
  BY DEF IndexInv, ScansKnow, ScanKnows
<1>11. ChangesShow'
  BY <1>1 DEF IndexInv, ChangesShow, ShownAt
<1>12. QED
  BY <1>4, <1>5, <1>6, <1>7, <1>8, <1>9, <1>10, <1>11 DEF IndexInv

\* What a published change gives its goroutine.
LEMMA Published ==
  ASSUME IndexInv, NEW change, NEW p \in Paths, NEW old, Publish(change, p, old),
         change # "created" => old \in Paths, change = "created" => old = NoPath
  PROVE  \E k : /\ jobs' = jobs \cup {k} /\ JobShaped(k, changes)
                /\ k.path = p /\ k.old = old
                /\ k.at = IF change = "created" THEN "stat" ELSE "remove"
<1> DEFINE k == [n |-> FreeJob, at |-> IF change = "created" THEN "stat" ELSE "remove",
                 path |-> p, old |-> old, got |-> NoEntry]
<1>1. jobs' = jobs \cup {k}
  BY DEF Publish
<1>2. Fits(NoEntry, changes)
  BY DEF Fits, NoEntry, Entries
<1>3. JobShaped(k, changes)
  BY <1>2 DEF JobShaped
<1>4. QED
  BY <1>1, <1>3

\* A path has settled (handleDebouncedEvent).
LEMMA HandleDebouncedKeeps ==
  ASSUME IndexInv, NEW p \in Paths, HandleDebouncedEvent(p)
  PROVE  IndexInv'
<1>1. /\ debounced \in [Paths -> {"none", "created", "modified", "deleted"}]
      /\ pendingRename \in Paths \cup {NoPath}
      /\ SettledAt(p)
  BY DEF IndexInv, IndexTyped, DebouncedTells
<1>2. /\ debounced[p] # "none" /\ debounced' = [debounced EXCEPT ![p] = "none"]
      /\ UNCHANGED <<disk, changes, notices, indexed, scan, rebuilds>>
  BY DEF HandleDebouncedEvent
<1>3. /\ debounced' \in [Paths -> {"none", "created", "modified", "deleted"}]
      /\ debounced'[p] = "none" /\ \A q \in Paths \ {p} : debounced'[q] = debounced[q]
  BY <1>1, <1>2
<1>4. /\ \A q : InJob(q) => Overtaken({q}) = {q}
      /\ \A q, r : InJob(q) \/ InJob(r) => Overtaken({q, r}) = {q, r}
  BY DEF Overtaken
<1>5. \A q : Noticed(q)' <=> Noticed(q)
  BY <1>2 DEF Noticed
<1>6. CASE pendingRename' = pendingRename
  <2> DEFINE change == IF debounced[p] = "deleted" THEN "deleted" ELSE "created"
             old == IF debounced[p] = "deleted" THEN p ELSE NoPath
  <2>1. Publish(change, p, old) /\ muddled' = muddled \cup Overtaken({p})
    BY <1>6, <1>1 DEF HandleDebouncedEvent
  <2>2. /\ change # "created" => old \in Paths
        /\ change = "created" => old = NoPath
    OBVIOUS
  <2>3. change = "created" <=> debounced[p] # "deleted"
    OBVIOUS
  <2>4. old = IF debounced[p] = "deleted" THEN p ELSE NoPath
    OBVIOUS
  <2> HIDE DEF change, old
  <2>5. PICK k : /\ jobs' = jobs \cup {k} /\ JobShaped(k, changes)
                 /\ k.path = p /\ k.old = old
                 /\ k.at = IF change = "created" THEN "stat" ELSE "remove"
    BY <2>1, <2>2, Published
  <2>6. \A q : Plain(q)' => Plain(q) /\ (q = p => ~InJob(p))
    BY <2>1, <1>4 DEF Plain
  <2>7. \A q : Plain(q)' /\ Due(q) /\ ~Due(q)' => q = p
    BY <1>1, <1>3, <1>5, <1>6 DEF Due, Plain
  <2>8. ~Due(p)' => ~Noticed(p) /\ pendingRename # p
    BY <1>5, <1>6 DEF Due
  <2>9. k.old = p /\ Plain(p)' /\ ~Due(p)' => ~OnDisk(p)
    BY <1>1, <2>3, <2>4, <2>5, <2>6, <2>8, IndexAssumption DEF SettledAt
  <2>10. k.old # p /\ Plain(p)' /\ ~Due(p)' => OnDisk(p) \/ indexed[p] = NoEntry
    <3>1. SUFFICES ASSUME k.old # p, Plain(p)', ~Due(p)'
                   PROVE  OnDisk(p) \/ indexed[p] = NoEntry
      OBVIOUS
    <3>2. debounced[p] \in {"created", "modified"}
      BY <3>1, <2>4, <2>5, <1>1, <1>2
    <3>3. ~Removing(p)
      BY <3>1, <2>6 DEF Removing, InJob
    <3>4. QED
      BY <3>1, <3>2, <3>3, <2>6, <2>8, <1>1 DEF SettledAt
  <2>11. k.old = p \/ ~Plain(k.old)'
    BY <2>4, <2>5, IndexAssumption DEF Plain
  <2>12. k.at \in {"remove", "stat"}
    BY <2>5
  <2>13. \A q \in Paths : debounced'[q] \in {debounced[q], "none"}
    BY <1>3
  <2>14. \A q : Plain(q)' /\ Due(q) /\ ~Due(q)' => ~InJob(q) /\ q \in {k.path, k.old}
    BY <2>5, <2>6, <2>7
  <2>15. \A q : k.at = "remove" /\ k.old = q /\ Plain(q)' /\ ~Due(q)' => ~OnDisk(q)
    BY <2>9, <2>11
  <2>16. \A q : k.path = q /\ q # k.old /\ Plain(q)' /\ ~Due(q)'
                  => OnDisk(q) \/ indexed[q] = NoEntry
    BY <2>5, <2>10
  <2>17. QED
    BY <1>2, <1>3, <1>6, <2>5, <2>6, <2>12, <2>13, <2>14, <2>15, <2>16, StartJobKeeps
<1>7. CASE pendingRename' # pendingRename
  <2> PICK r : r = pendingRename
    OBVIOUS
  <2>1. /\ pendingRename' = NoPath /\ r \in Paths /\ r # NoPath /\ debounced[p] = "created"
        /\ \/ Publish("renamed", p, r) /\ muddled' = muddled \cup Overtaken({p, r})
           \/ Publish("created", p, NoPath) /\ muddled' = muddled \cup Overtaken({p}) \cup {r}
    BY <1>7, <1>1, IndexAssumption DEF HandleDebouncedEvent
  <2>2. PICK k : /\ jobs' = jobs \cup {k} /\ JobShaped(k, changes) /\ k.path = p
                 /\ \/ k.at = "remove" /\ k.old = r /\ muddled' = muddled \cup Overtaken({p, r})
                    \/ /\ k.at = "stat" /\ k.old = NoPath
                       /\ muddled' = muddled \cup Overtaken({p}) \cup {r}
    <3>1. CASE Publish("renamed", p, r) /\ muddled' = muddled \cup Overtaken({p, r})
      BY <3>1, <2>1, Published
    <3>2. CASE Publish("created", p, NoPath) /\ muddled' = muddled \cup Overtaken({p}) \cup {r}
      BY <3>2, <2>1, Published
    <3>3. QED
      BY <3>1, <3>2, <2>1
  <2>3. \A q : Plain(q)' => Plain(q)
    BY <2>2 DEF Plain
  <2>4. /\ Plain(p)' => ~InJob(p)
        /\ Plain(r)' => ~InJob(r) /\ k.at = "remove" /\ k.old = r
    <3>1. CASE k.at = "remove" /\ k.old = r /\ muddled' = muddled \cup Overtaken({p, r})
      BY <3>1, <1>4 DEF Plain
    <3>2. CASE muddled' = muddled \cup Overtaken({p}) \cup {r}
      BY <3>2, <1>4 DEF Plain
    <3>3. QED
      BY <2>2, <3>1, <3>2
  <2>5. \A q : Plain(q)' /\ Due(q) /\ ~Due(q)' => q \in {p, r}
    BY <1>3, <1>5, <2>1 DEF Due, Plain
  <2>6. \A q : Plain(q)' /\ Due(q) /\ ~Due(q)' => ~InJob(q) /\ q \in {k.path, k.old}
    BY <2>2, <2>4, <2>5
  <2>7. Plain(r)' => ~OnDisk(r)
    BY <2>3 DEF IndexInv, NoticesTell
  <2>8. p # r /\ Plain(p)' /\ ~Due(p)' => OnDisk(p) \/ indexed[p] = NoEntry
    <3>1. SUFFICES ASSUME p # r, Plain(p)', ~Due(p)'
                   PROVE  OnDisk(p) \/ indexed[p] = NoEntry
      OBVIOUS
    <3>2. ~Removing(p)
      BY <3>1, <2>4 DEF Removing, InJob
    <3>3. ~Noticed(p)
      BY <3>1, <1>5 DEF Due
    <3>4. QED
      BY <3>1, <3>2, <3>3, <2>1, <2>3, <1>1 DEF SettledAt
  <2>9. p = r /\ Plain(p)' => k.old = p
    BY <2>4
  <2>10. k.at \in {"remove", "stat"}
    BY <2>2
  <2>11. \A q \in Paths : debounced'[q] \in {debounced[q], "none"}
    BY <1>3
  <2>12. \A q : Plain(q)' /\ pendingRename = q /\ pendingRename' # q
                  => k.at = "remove" /\ k.old = q
    BY <2>4
  <2>13. \A q : k.at = "remove" /\ k.old = q /\ Plain(q)' /\ ~Due(q)' => ~OnDisk(q)
    BY <2>2, <2>7
  <2>14. \A q : k.path = q /\ q # k.old /\ Plain(q)' /\ ~Due(q)'
                  => OnDisk(q) \/ indexed[q] = NoEntry
    BY <2>2, <2>8, <2>9
  <2>15. QED
    BY <1>2, <1>3, <2>1, <2>2, <2>3, <2>6, <2>10, <2>11, <2>12, <2>13, <2>14, StartJobKeeps
<1>8. QED
  BY <1>6, <1>7

\* A rename has found no new name (processStalePendingRenames).
LEMMA StaleRenameKeeps ==
  ASSUME IndexInv, StaleRename
  PROVE  IndexInv'
<1>1. PICK r : r = pendingRename
  OBVIOUS
<1>2. /\ r \in Paths /\ pendingRename' = NoPath /\ Publish("deleted", r, r)
      /\ muddled' = muddled \cup Overtaken({r})
      /\ UNCHANGED <<disk, changes, notices, debounced, indexed, scan, rebuilds>>
  BY <1>1 DEF StaleRename, IndexInv, IndexTyped
<1>3. PICK k : /\ jobs' = jobs \cup {k} /\ JobShaped(k, changes)
               /\ k.path = r /\ k.old = r /\ k.at = "remove"
  BY <1>2, Published
<1>4. \A q : Plain(q)' => Plain(q) /\ (q = r => ~InJob(r))
  BY <1>2 DEF Plain, Overtaken
<1>5. \A q : Plain(q)' /\ Due(q) /\ ~Due(q)' => q = r
  BY <1>1, <1>2 DEF Due, Noticed
<1>6. Plain(r)' => ~OnDisk(r)
  BY <1>1, <1>4 DEF IndexInv, NoticesTell
<1>7. /\ debounced' \in [Paths -> {"none", "created", "modified", "deleted"}]
      /\ \A q \in Paths : debounced'[q] \in {debounced[q], "none"}
  BY <1>2 DEF IndexInv, IndexTyped
<1>8. /\ \A q : Plain(q)' /\ Due(q) /\ ~Due(q)' => ~InJob(q) /\ q \in {k.path, k.old}
      /\ \A q : Plain(q)' /\ pendingRename = q /\ pendingRename' # q
                  => k.at = "remove" /\ k.old = q
      /\ \A q : k.at = "remove" /\ k.old = q /\ Plain(q)' /\ ~Due(q)' => ~OnDisk(q)
      /\ \A q : k.path = q /\ q # k.old /\ Plain(q)' /\ ~Due(q)'
                  => OnDisk(q) \/ indexed[q] = NoEntry
  BY <1>1, <1>3, <1>4, <1>5, <1>6
<1>9. QED
  BY <1>2, <1>3, <1>4, <1>7, <1>8, StartJobKeeps

-----------------------------------------------------------------------------
\* The jobs.

\* A job j takes a step, to those of K, and the entries of the index become
\* nothing, what the disk has, or remain.
LEMMA JobStepKeeps ==
  ASSUME IndexInv, NEW j \in jobs, NEW K, jobs' = (jobs \ {j}) \cup K, JobsOnly,
         indexed' \in [Paths -> Entries],
         \A p \in Paths : Fits(indexed'[p], changes),
         \A k \in K : JobShaped(k, changes) /\ JobKnows(k)',
         \A i : i # 0 /\ Vanished(i) => Vanished(i)',
         \A p : Removing(p) => Removing(p)' \/ indexed'[p] = NoEntry,
         \A p \in Paths : \/ indexed'[p] = indexed[p]
                          \/ indexed'[p] = NoEntry
                          \/ Plain(p) => indexed'[p] = disk[p],
         \A p \in Paths : Plain(p) /\ ~Due(p) /\ (InJob(p) \/ indexed'[p] # indexed[p])
                            => InJob(p)' \/ indexed'[p] = disk[p]
  PROVE  IndexInv'
<1>1. UNCHANGED <<disk, changes, notices, debounced, pendingRename, scan, rebuilds, muddled>>
  BY DEF JobsOnly
<1>2. /\ \A p : OnDisk(p)' <=> OnDisk(p)
      /\ \A p : Noticed(p)' <=> Noticed(p)
      /\ \A p : Due(p)' <=> Due(p)
      /\ \A p : Plain(p)' <=> Plain(p)
      /\ \A p : Renaming(p)' <=> Renaming(p)
  BY <1>1 DEF OnDisk, Noticed, Due, Plain, Renaming
<1>3. IndexTyped' /\ InodesDiffer'
  BY <1>1 DEF IndexInv, IndexTyped, InodesDiffer, OnDisk
<1>4. NoticesTell'
  <2>1. \A i \in DOMAIN notices : NoticeTells(i)'
    BY <1>1, <1>2 DEF IndexInv, NoticesTell, NoticeTells, LastOfPath
  <2>2. Plain(pendingRename)' => ~OnDisk(pendingRename)' /\ ~Noticed(pendingRename)'
    BY <1>1 DEF IndexInv, NoticesTell, Plain, OnDisk, Noticed
  <2>3. QED
    BY <2>1, <2>2, <1>1 DEF NoticesTell
<1>5. DebouncedTells'
  <2> SUFFICES ASSUME NEW p \in Paths, Plain(p), ~Noticed(p), pendingRename # p
               PROVE  /\ debounced[p] = "deleted" => ~OnDisk(p)
                      /\ debounced[p] \in {"created", "modified"}
                           => OnDisk(p) \/ indexed'[p] = NoEntry \/ Removing(p)'
    BY <1>1, <1>2 DEF DebouncedTells, SettledAt
  <2>1. SettledAt(p)
    BY DEF IndexInv, DebouncedTells
  <2>2. QED
    BY <2>1 DEF SettledAt, OnDisk
<1>6. JobsKnow'
  <2>1. ASSUME NEW i \in jobs PROVE JobKnows(i)'
    <3>1. JobKnows(i) /\ i.path \in Paths
      BY DEF IndexInv, IndexTyped, JobsKnow, JobShaped
    <3>2. Plain(i.path) /\ indexed[i.path] = NoEntry
            => OnDisk(i.path) \/ indexed'[i.path] = NoEntry
      BY <3>1 DEF OnDisk
    <3>3. QED
      BY <3>1, <3>2, <1>1, <1>2 DEF JobKnows
  <2>2. QED
    BY <2>1 DEF JobsKnow
<1>7. OldNamesGo'
  <2> SUFFICES ASSUME NEW q \in Paths, Plain(q), indexed'[q] # NoEntry,
                      indexed'[q].inode # disk[q].inode
               PROVE \/ Vanished(indexed[q].inode)' /\ indexed'[q] = indexed[q]
                     \/ ~OnDisk(q) /\ (Renaming(q) \/ Removing(q)')
    BY <1>1, <1>2 DEF OldNamesGo, OldNameAt, Vanished
  <2>1. indexed'[q] = indexed[q]
    OBVIOUS
  <2>2. OldNameAt(q) /\ indexed[q].inode # 0
    BY <2>1 DEF IndexInv, IndexTyped, OldNamesGo, Fits
  <2>3. QED
    BY <2>1, <2>2 DEF OldNameAt
<1>8. ScansKnow'
  BY <1>1, <1>2 DEF IndexInv, ScansKnow, ScanKnows
<1>9. ChangesShow'
  BY <1>1, <1>2 DEF IndexInv, ChangesShow, ShownAt
<1>10. QED
  BY <1>3, <1>4, <1>5, <1>6, <1>7, <1>8, <1>9 DEF IndexInv

\* The facts about a job and the files it steps with.
LEMMA JobFacts ==
  ASSUME IndexInv, NEW j \in jobs
  PROVE  /\ JobShaped(j, changes) /\ JobKnows(j)
         /\ indexed \in [Paths -> Entries] /\ disk \in [Paths -> Entries]
         /\ \A p \in Paths : Fits(indexed[p], changes) /\ Fits(disk[p], changes)
         /\ Fits(NoEntry, changes)
         /\ \A p : p \in {j.path, j.old} => InJob(p)
BY DEF IndexInv, IndexTyped, JobsKnow, InJob, Fits, Entries, NoEntry

\* The jobs of a path that the one that steps is not of go on, and a job that
\* goes on for the same path keeps it.
LEMMA OtherJobsStay ==
  ASSUME NEW j \in jobs, NEW K, jobs' = (jobs \ {j}) \cup K
  PROVE  /\ \A p : InJob(p) => \/ InJob(p)'
                               \/ p \in {j.path, j.old} /\ \A k \in K : p \notin {k.path, k.old}
         /\ \A p : Removing(p) => Removing(p)' \/ (j.at = "remove" /\ j.old = p)
         /\ \A i : Vanished(i) /\ disk' = disk /\ (\A k \in K : k.got.inode # i) => Vanished(i)'
BY DEF InJob, Removing, Vanished

\* A job removes an entry (RemoveFile).
LEMMA RemoveFileKeeps ==
  ASSUME IndexInv, NEW j \in jobs, RemoveFile(j)
  PROVE  IndexInv'
<1> DEFINE K == IF j.path = j.old THEN {} ELSE {[j EXCEPT !.at = "stat", !.old = NoPath]}
<1>1. /\ j.at = "remove" /\ JobsOnly /\ indexed' = [indexed EXCEPT ![j.old] = NoEntry]
      /\ jobs' = (jobs \ {j}) \cup K
  BY DEF RemoveFile, GoOn, EndJob
<1>2. /\ JobShaped(j, changes) /\ JobKnows(j)
      /\ indexed \in [Paths -> Entries] /\ disk \in [Paths -> Entries]
      /\ \A p \in Paths : Fits(indexed[p], changes) /\ Fits(disk[p], changes)
      /\ Fits(NoEntry, changes)
  BY JobFacts
<1>3. /\ j.old \in Paths /\ j.path \in Paths /\ j.got = NoEntry
      /\ \A p : Plain(p)' <=> Plain(p)
      /\ \A p : Due(p)' <=> Due(p)
      /\ disk' = disk /\ changes' = changes
  BY <1>1, <1>2 DEF JobShaped, JobsOnly, Plain, Due, Noticed
<1>4. \A k \in K : /\ k.at = "stat" /\ k.path = j.path /\ k.old = NoPath /\ k.got = NoEntry
                   /\ k = [n |-> k.n, at |-> k.at, path |-> k.path, old |-> k.old, got |-> k.got]
                   /\ j.path # j.old
  <2> TAKE k \in K
  <2>1. k = [j EXCEPT !.at = "stat", !.old = NoPath] /\ j.path # j.old
    OBVIOUS
  <2>2. QED
    BY <2>1, <1>2, <1>3 DEF JobShaped
<1>5. /\ indexed' \in [Paths -> Entries] /\ indexed'[j.old] = NoEntry
      /\ \A p \in Paths \ {j.old} : indexed'[p] = indexed[p]
      /\ \A p \in Paths : Fits(indexed'[p], changes)
  BY <1>1, <1>2, <1>3 DEF Fits
<1>6. \A k \in K : JobShaped(k, changes) /\ JobKnows(k)'
  <2> TAKE k \in K
  <2>1. JobShaped(k, changes)
    BY <1>2, <1>3, <1>4 DEF JobShaped
  <2>2. Plain(j.path) /\ ~Due(j.path) => OnDisk(j.path) \/ indexed'[j.path] = NoEntry
    BY <1>1, <1>2, <1>3, <1>4, <1>5 DEF JobKnows
  <2>3. QED
    BY <2>1, <2>2, <1>3, <1>4 DEF JobKnows, OnDisk
<1>7. K = {} => j.path = j.old
  OBVIOUS
<1> HIDE DEF K
<1>8. \A i : i # 0 /\ Vanished(i) => Vanished(i)'
  BY <1>1, <1>3, <1>4, OtherJobsStay DEF NoEntry
<1>9. \A p : Removing(p) => Removing(p)' \/ indexed'[p] = NoEntry
  BY <1>1, <1>5, OtherJobsStay
<1>10. ASSUME NEW p \in Paths, Plain(p), ~Due(p), InJob(p) \/ indexed'[p] # indexed[p]
       PROVE  InJob(p)' \/ indexed'[p] = disk[p]
  <2>1. CASE p = j.old
    BY <2>1, <1>10, <1>1, <1>2, <1>5 DEF JobKnows, OnDisk
  <2>2. CASE p # j.old
    <3>1. InJob(p)
      BY <2>2, <1>10, <1>5
    <3>2. \/ InJob(p)'
          \/ p \in {j.path, j.old} /\ \A k \in K : p \notin {k.path, k.old}
      BY <3>1, <1>1, OtherJobsStay
    <3>3. p = j.path => \E k \in K : p = k.path
      BY <2>2, <1>4, <1>7
    <3>4. QED
      BY <2>2, <3>2, <3>3
  <2>3. QED
    BY <2>1, <2>2
<1>11. \A p \in Paths : indexed'[p] = indexed[p] \/ indexed'[p] = NoEntry
  BY <1>5
<1>12. QED
  BY <1>1, <1>5, <1>6, <1>8, <1>9, <1>10, <1>11, JobStepKeeps

\* A job reads its file (ScanFile).
LEMMA ScanFileKeeps ==
  ASSUME IndexInv, NEW j \in jobs, ScanFile(j)
  PROVE  IndexInv'
<1> DEFINE K == IF OnDisk(j.path) THEN {[j EXCEPT !.at = "find", !.got = disk[j.path]]} ELSE {}
<1>1. /\ j.at = "stat" /\ JobsOnly /\ indexed' = indexed
      /\ jobs' = (jobs \ {j}) \cup K
  BY DEF ScanFile, GoOn, EndJob
<1>2. /\ JobShaped(j, changes) /\ JobKnows(j)
      /\ indexed \in [Paths -> Entries] /\ disk \in [Paths -> Entries]
      /\ \A p \in Paths : Fits(indexed[p], changes) /\ Fits(disk[p], changes)
  BY JobFacts
<1>3. /\ j.old = NoPath /\ j.path \in Paths /\ j.got = NoEntry
      /\ \A p : Plain(p)' <=> Plain(p)
      /\ \A p : Due(p)' <=> Due(p)
      /\ disk' = disk /\ changes' = changes
  BY <1>1, <1>2 DEF JobShaped, JobsOnly, Plain, Due, Noticed
<1>4. \A k \in K : /\ k.at = "find" /\ k.path = j.path /\ k.old = NoPath
                   /\ k.got = disk[j.path] /\ OnDisk(j.path)
                   /\ k = [n |-> k.n, at |-> k.at, path |-> k.path, old |-> k.old, got |-> k.got]
  <2> TAKE k \in K
  <2>1. k = [j EXCEPT !.at = "find", !.got = disk[j.path]] /\ OnDisk(j.path)
    OBVIOUS
  <2>2. QED
    BY <2>1, <1>2, <1>3 DEF JobShaped
<1>5. \A k \in K : JobShaped(k, changes) /\ JobKnows(k)'
  <2> TAKE k \in K
  <2>1. JobShaped(k, changes)
    BY <1>2, <1>3, <1>4 DEF JobShaped, OnDisk
  <2>2. \A q \in Paths : q # j.path => disk[j.path].inode # disk[q].inode
    BY <1>3, <1>4 DEF IndexInv, InodesDiffer
  <2>3. QED
    BY <2>1, <2>2, <1>3, <1>4 DEF JobKnows, OnDisk
<1>6. K = {} => ~OnDisk(j.path)
  OBVIOUS
<1> HIDE DEF K
<1>7. \A i : i # 0 /\ Vanished(i) => Vanished(i)'
  <2> SUFFICES ASSUME NEW i, Vanished(i) PROVE Vanished(i)'
    OBVIOUS
  <2>1. disk[j.path].inode # i
    BY <1>3 DEF Vanished
  <2>2. QED
    BY <2>1, <1>1, <1>3, <1>4, OtherJobsStay
<1>8. \A p : Removing(p) => Removing(p)' \/ indexed'[p] = NoEntry
  BY <1>1, OtherJobsStay
<1>9. ASSUME NEW p \in Paths, Plain(p), ~Due(p), InJob(p) \/ indexed'[p] # indexed[p]
      PROVE  InJob(p)' \/ indexed'[p] = disk[p]
  <2>1. CASE p = j.path
    <3>1. CASE K = {}
      BY <2>1, <3>1, <1>9, <1>1, <1>2, <1>3, <1>6, IndexAssumption DEF JobKnows, OnDisk
    <3>2. CASE K # {}
      BY <2>1, <3>2, <1>9, <1>1, <1>4, OtherJobsStay
    <3>3. QED
      BY <3>1, <3>2
  <2>2. CASE p # j.path
    BY <2>2, <1>9, <1>1, <1>3, IndexAssumption, OtherJobsStay
  <2>3. QED
    BY <2>1, <2>2
<1>10. QED
  BY <1>1, <1>2, <1>5, <1>7, <1>8, <1>9, JobStepKeeps

\* A job looks for its file under another name (IndexFile).
LEMMA FindRenameKeeps ==
  ASSUME IndexInv, NEW j \in jobs, FindRename(j)
  PROVE  IndexInv'
<1>1. PICK k : /\ j.at = "find" /\ JobsOnly /\ indexed' = indexed
               /\ jobs' = (jobs \ {j}) \cup {k}
               /\ \/ k = [j EXCEPT !.at = "insert"]
                  \/ \E q \in Paths \ {j.path} : /\ indexed[q].inode = j.got.inode
                                                 /\ k = [j EXCEPT !.at = "drop", !.old = q]
  BY DEF FindRename, GoOn
<1>2. /\ JobShaped(j, changes) /\ JobKnows(j)
      /\ indexed \in [Paths -> Entries] /\ disk \in [Paths -> Entries]
      /\ \A p \in Paths : Fits(indexed[p], changes) /\ Fits(disk[p], changes)
  BY JobFacts
<1>3. /\ j.old = NoPath /\ j.path \in Paths /\ j.got # NoEntry
      /\ \A p : Plain(p)' <=> Plain(p)
      /\ \A p : Due(p)' <=> Due(p)
      /\ disk' = disk /\ changes' = changes
  BY <1>1, <1>2 DEF JobShaped, JobsOnly, Plain, Due, Noticed
<1>4. /\ k.path = j.path /\ k.got = j.got
      /\ k = [n |-> k.n, at |-> k.at, path |-> k.path, old |-> k.old, got |-> k.got]
      /\ \/ k.at = "insert" /\ k.old = NoPath
         \/ /\ k.at = "drop" /\ k.old \in Paths \ {j.path}
            /\ indexed[k.old].inode = j.got.inode
  BY <1>1, <1>2, <1>3 DEF JobShaped
<1>5. JobShaped(k, changes)
  BY <1>2, <1>3, <1>4 DEF JobShaped
<1>6. k.at = "drop" /\ Plain(k.old) => ~OnDisk(k.old)
  <2> SUFFICES ASSUME k.at = "drop", Plain(k.old), OnDisk(k.old) PROVE FALSE
    OBVIOUS
  <2>1. j.got.inode # disk[k.old].inode /\ j.got.inode # 0
    BY <1>2, <1>3, <1>4 DEF JobKnows, JobShaped, Fits
  <2>2. OldNameAt(k.old) /\ indexed[k.old] # NoEntry
    BY <2>1, <1>4 DEF IndexInv, OldNamesGo, NoEntry
  <2>3. Vanished(j.got.inode)
    BY <2>1, <2>2, <1>4 DEF OldNameAt
  <2>4. QED
    BY <2>3 DEF Vanished
<1>7. JobKnows(k)'
  BY <1>2, <1>3, <1>4, <1>6 DEF JobKnows, OnDisk
<1>8. \A i : i # 0 /\ Vanished(i) => Vanished(i)'
  BY <1>1, <1>3, <1>4 DEF Vanished
<1>9. \A p : Removing(p) => Removing(p)' \/ indexed'[p] = NoEntry
  BY <1>1, OtherJobsStay
<1>10. \A p \in Paths : InJob(p) => InJob(p)'
  <2> TAKE p \in Paths
  <2>1. p # NoPath
    BY IndexAssumption
  <2>2. k \in jobs' /\ \A i \in jobs : i = j \/ i \in jobs'
    BY <1>1
  <2>3. p \in {j.path, j.old} => p = k.path
    BY <2>1, <1>3, <1>4
  <2>4. QED
    BY <2>2, <2>3 DEF InJob
<1>11. QED
  BY <1>1, <1>2, <1>5, <1>7, <1>8, <1>9, <1>10, JobStepKeeps, ZenonT(40)

\* A job removes the entry under that name (IndexFile).
LEMMA DropRenamedKeeps ==
  ASSUME IndexInv, NEW j \in jobs, DropRenamed(j)
  PROVE  IndexInv'
<1>1. PICK k : /\ j.at = "drop" /\ JobsOnly /\ indexed' = [indexed EXCEPT ![j.old] = NoEntry]
               /\ jobs' = (jobs \ {j}) \cup {k}
               /\ k = [j EXCEPT !.at = "insert", !.old = NoPath]
  BY DEF DropRenamed, GoOn
<1>2. /\ JobShaped(j, changes) /\ JobKnows(j)
      /\ indexed \in [Paths -> Entries] /\ disk \in [Paths -> Entries]
      /\ \A p \in Paths : Fits(indexed[p], changes) /\ Fits(disk[p], changes)
      /\ Fits(NoEntry, changes)
  BY JobFacts
<1>3. /\ j.old \in Paths /\ j.path \in Paths /\ j.got # NoEntry
      /\ \A p : Plain(p)' <=> Plain(p)
      /\ \A p : Due(p)' <=> Due(p)
      /\ disk' = disk /\ changes' = changes
  BY <1>1, <1>2 DEF JobShaped, JobsOnly, Plain, Due, Noticed
<1>4. /\ k.path = j.path /\ k.got = j.got /\ k.at = "insert" /\ k.old = NoPath
      /\ k = [n |-> k.n, at |-> k.at, path |-> k.path, old |-> k.old, got |-> k.got]
  BY <1>1, <1>2 DEF JobShaped
<1>5. /\ indexed' \in [Paths -> Entries] /\ indexed'[j.old] = NoEntry
      /\ \A p \in Paths \ {j.old} : indexed'[p] = indexed[p]
      /\ \A p \in Paths : Fits(indexed'[p], changes)
  BY <1>1, <1>2, <1>3 DEF Fits
<1>6. JobShaped(k, changes)
  BY <1>2, <1>3, <1>4 DEF JobShaped
<1>7. JobKnows(k)'
  BY <1>2, <1>3, <1>4 DEF JobKnows, OnDisk
<1>8. \A i : i # 0 /\ Vanished(i) => Vanished(i)'
  BY <1>1, <1>3, <1>4 DEF Vanished
<1>9. \A p : Removing(p) => Removing(p)' \/ indexed'[p] = NoEntry
  BY <1>1, OtherJobsStay
<1>10. ASSUME NEW p \in Paths, Plain(p), ~Due(p), InJob(p) \/ indexed'[p] # indexed[p]
       PROVE  InJob(p)' \/ indexed'[p] = disk[p]
  <2>1. CASE p = j.old
    BY <2>1, <1>10, <1>1, <1>2, <1>5 DEF JobKnows, OnDisk
  <2>2. CASE p # j.old
    BY <2>2, <1>10, <1>1, <1>4, <1>5 DEF InJob
  <2>3. QED
    BY <2>1, <2>2
<1>11. \A p \in Paths : indexed'[p] = indexed[p] \/ indexed'[p] = NoEntry
  BY <1>5
<1>12. PICK K : K = {k}
  OBVIOUS
<1>13. \A i \in K : JobShaped(i, changes) /\ JobKnows(i)'
  BY <1>6, <1>7, <1>12
<1>14. QED
  BY <1>1, <1>5, <1>8, <1>9, <1>10, <1>11, <1>12, <1>13, JobStepKeeps

\* A job enters its file (IndexFile).
LEMMA InsertFileKeeps ==
  ASSUME IndexInv, NEW j \in jobs, InsertFile(j)
  PROVE  IndexInv'
<1>1. /\ j.at = "insert" /\ JobsOnly /\ indexed' = [indexed EXCEPT ![j.path] = j.got]
      /\ jobs' = (jobs \ {j}) \cup {}
  BY DEF InsertFile, EndJob
<1>2. /\ JobShaped(j, changes) /\ JobKnows(j)
      /\ indexed \in [Paths -> Entries] /\ disk \in [Paths -> Entries]
      /\ \A p \in Paths : Fits(indexed[p], changes) /\ Fits(disk[p], changes)
  BY JobFacts
<1>3. /\ j.old = NoPath /\ j.path \in Paths /\ j.got # NoEntry /\ Fits(j.got, changes)
      /\ disk' = disk
      /\ Plain(j.path) => j.got = disk[j.path]
  BY <1>1, <1>2 DEF JobShaped, JobsOnly, JobKnows
<1>4. /\ indexed' \in [Paths -> Entries] /\ indexed'[j.path] = j.got
      /\ \A p \in Paths \ {j.path} : indexed'[p] = indexed[p]
      /\ \A p \in Paths : Fits(indexed'[p], changes)
  BY <1>1, <1>2, <1>3 DEF Fits
<1>5. \A i : i # 0 /\ Vanished(i) => Vanished(i)'
  BY <1>1, <1>3 DEF Vanished
<1>6. \A p : Removing(p) => Removing(p)' \/ indexed'[p] = NoEntry
  BY <1>1, OtherJobsStay
<1>7. \A p \in Paths : InJob(p) => InJob(p)' \/ p = j.path
  BY <1>1, <1>3, IndexAssumption, OtherJobsStay
<1>8. \A p \in Paths : indexed'[p] = indexed[p] \/ (Plain(p) => indexed'[p] = disk[p])
  BY <1>3, <1>4
<1>9. \A p \in Paths : Plain(p) /\ (InJob(p) \/ indexed'[p] # indexed[p])
                          => InJob(p)' \/ indexed'[p] = disk[p]
  BY <1>3, <1>4, <1>7
<1>10. PICK K : K = {}
  OBVIOUS
<1>11. \A k \in K : JobShaped(k, changes) /\ JobKnows(k)'
  BY <1>10
<1>12. QED
  BY <1>1, <1>4, <1>5, <1>6, <1>8, <1>9, <1>10, <1>11, JobStepKeeps

-----------------------------------------------------------------------------
\* The scans.

\* A scan takes a step: the entries become what the disk has, or remain.
LEMMA ScanStepKeeps ==
  ASSUME IndexInv, ScanOnly, \A p : Plain(p)' => Plain(p),
         scan' \in [Walkers -> [at : {"idle", "walk"}, todo : SUBSET Paths,
                                found : [Paths -> Entries]]],
         \A x \in Walkers : ScanKnows(x)',
         indexed' \in [Paths -> Entries],
         \A p \in Paths : Fits(indexed'[p], changes),
         \A p \in Paths : Plain(p)' => indexed'[p] \in {indexed[p], disk[p]}
  PROVE  IndexInv'
<1>1. UNCHANGED <<disk, changes, notices, debounced, pendingRename, jobs>>
  BY DEF ScanOnly
<1>2. /\ \A p : OnDisk(p)' <=> OnDisk(p)
      /\ \A p : Noticed(p)' <=> Noticed(p)
      /\ \A p : Due(p)' <=> Due(p)
      /\ \A p : InJob(p)' <=> InJob(p)
      /\ \A p : Removing(p)' <=> Removing(p)
      /\ \A p : Renaming(p)' <=> Renaming(p)
      /\ \A i : Vanished(i)' <=> Vanished(i)
  BY <1>1 DEF OnDisk, Noticed, Due, InJob, Removing, Renaming, Vanished
<1>3. IndexTyped' /\ InodesDiffer'
  BY <1>1 DEF IndexInv, IndexTyped, InodesDiffer, OnDisk
<1>4. NoticesTell'
  <2>1. \A i \in DOMAIN notices : NoticeTells(i)'
    BY <1>1, <1>2 DEF IndexInv, NoticesTell, NoticeTells, LastOfPath
  <2>2. Plain(pendingRename)' => Plain(pendingRename)
    BY <1>1 DEF Plain
  <2>3. Plain(pendingRename)' => ~OnDisk(pendingRename)' /\ ~Noticed(pendingRename)'
    BY <2>2, <1>1 DEF IndexInv, NoticesTell, OnDisk, Noticed
  <2>4. QED
    BY <2>1, <2>3, <1>1 DEF NoticesTell
<1>5. DebouncedTells'
  BY <1>1, <1>2 DEF IndexInv, DebouncedTells, SettledAt, OnDisk
<1>6. JobsKnow'
  <2> SUFFICES ASSUME NEW j \in jobs PROVE JobKnows(j)'
    BY <1>1 DEF JobsKnow
  <2>1. JobKnows(j) /\ j.path \in Paths
    BY DEF IndexInv, IndexTyped, JobsKnow, JobShaped
  <2>2. Plain(j.path)' /\ indexed[j.path] = NoEntry
            => OnDisk(j.path) \/ indexed'[j.path] = NoEntry
    BY <2>1 DEF OnDisk
  <2>3. QED
    BY <2>1, <2>2, <1>1, <1>2 DEF JobKnows
<1>7. OldNamesGo'
  BY <1>1, <1>2 DEF IndexInv, OldNamesGo, OldNameAt
<1>8. ScansKnow'
  BY DEF ScansKnow
<1>9. ChangesShow'
  BY <1>1, <1>2 DEF IndexInv, ChangesShow, ShownAt
<1>10. QED
  BY <1>3, <1>4, <1>5, <1>6, <1>7, <1>8, <1>9 DEF IndexInv

\* A scan begins, visits a file, is cut short or replaces the index (FullScan).
LEMMA ScanKeeps ==
  ASSUME IndexInv, NEW x \in Walkers, ScanStep(x)
  PROVE  IndexInv'
<1>1. /\ scan \in [Walkers -> [at : {"idle", "walk"}, todo : SUBSET Paths,
                               found : [Paths -> Entries]]]
      /\ \A y \in Walkers : ScanKnows(y)
      /\ disk \in [Paths -> Entries] /\ indexed \in [Paths -> Entries]
      /\ \A p \in Paths : Fits(indexed[p], changes) /\ Fits(disk[p], changes)
      /\ Fits(NoEntry, changes) /\ NoEntry \in Entries
  BY DEF IndexInv, IndexTyped, ScansKnow, Fits, NoEntry, Entries
<1>2. ScanOnly
  BY DEF ScanStep, FullScan, VisitFile, CutShort, CommitScan
<1>3. disk' = disk /\ changes' = changes /\ muddled \subseteq muddled'
  BY <1>2 DEF ScanOnly, ScanStep, FullScan, VisitFile, CutShort, CommitScan
<1>4. \A p : Plain(p)' => Plain(p)
  BY <1>3 DEF Plain
<1>0. scan[x].at = "walk" =>
        /\ \A p \in Paths : Fits(scan[x].found[p], changes)
        /\ \A p \in Paths : Plain(p) /\ p \notin scan[x].todo => scan[x].found[p] = disk[p]
  <2>1. ScanKnows(x)
    BY <1>1
  <2>2. QED
    BY <2>1 DEF ScanKnows
<1>5. ASSUME NEW e, scan' = [scan EXCEPT ![x] = e],
             e \in [at : {"idle", "walk"}, todo : SUBSET Paths, found : [Paths -> Entries]],
             e.at = "walk" =>
               /\ \A p \in Paths : Fits(e.found[p], changes)
               /\ \A p \in Paths : Plain(p)' /\ p \notin e.todo => e.found[p] = disk[p]
      PROVE  /\ scan' \in [Walkers -> [at : {"idle", "walk"}, todo : SUBSET Paths,
                                       found : [Paths -> Entries]]]
             /\ \A y \in Walkers : ScanKnows(y)'
  BY <1>1, <1>3, <1>4, <1>5 DEF ScanKnows
<1>6. CASE FullScan(x)
  <2>1. PICK e : /\ e = [Asleep EXCEPT !.at = "walk", !.todo = Paths]
                 /\ scan' = [scan EXCEPT ![x] = e]
    BY <1>6 DEF FullScan
  <2>2. e = [at |-> "walk", todo |-> Paths, found |-> [p \in Paths |-> NoEntry]]
    BY <2>1 DEF Asleep
  <2>3. indexed' = indexed
    BY <1>6 DEF FullScan
  <2>4. /\ scan' \in [Walkers -> [at : {"idle", "walk"}, todo : SUBSET Paths,
                                  found : [Paths -> Entries]]]
        /\ \A y \in Walkers : ScanKnows(y)'
    BY <2>1, <2>2, <1>1, <1>5
  <2>5. QED
    BY <2>3, <2>4, <1>1, <1>2, <1>4, ScanStepKeeps
<1>7. ASSUME NEW p \in Paths, VisitFile(x, p) PROVE IndexInv'
  <2>1. PICK e : /\ e = [scan[x] EXCEPT !.todo = @ \ {p}, !.found[p] = disk[p]]
                 /\ scan' = [scan EXCEPT ![x] = e]
    BY <1>7, <1>1 DEF VisitFile
  <2>2. /\ e.at = scan[x].at /\ e.todo = scan[x].todo \ {p}
        /\ e.found = [scan[x].found EXCEPT ![p] = disk[p]]
        /\ e \in [at : {"idle", "walk"}, todo : SUBSET Paths, found : [Paths -> Entries]]
    BY <2>1, <1>1
  <2>3. e.found[p] = disk[p] /\ \A q \in Paths \ {p} : e.found[q] = scan[x].found[q]
    BY <2>2, <1>1
  <2>4. indexed' = indexed
    BY <1>7 DEF VisitFile
  <2>5. e.at = "walk" =>
               /\ \A q \in Paths : Fits(e.found[q], changes)
               /\ \A q \in Paths : Plain(q)' /\ q \notin e.todo => e.found[q] = disk[q]
    <3> SUFFICES ASSUME e.at = "walk", NEW q \in Paths
                 PROVE  /\ Fits(e.found[q], changes)
                        /\ Plain(q)' /\ q \notin e.todo => e.found[q] = disk[q]
      OBVIOUS
    <3>1. Fits(disk[q], changes)
      BY <1>1
    <3>2. CASE q = p
      BY <3>1, <3>2, <2>3
    <3>3. CASE q # p
      <4>1. e.found[q] = scan[x].found[q] /\ (q \notin e.todo => q \notin scan[x].todo)
        BY <3>3, <2>2, <2>3
      <4>2. Plain(q)' => Plain(q)
        BY <1>4
      <4>3. /\ Fits(scan[x].found[q], changes)
            /\ Plain(q) /\ q \notin scan[x].todo => scan[x].found[q] = disk[q]
        BY <1>0, <2>2
      <4>4. QED
        BY <4>1, <4>2, <4>3
    <3>4. QED
      BY <3>2, <3>3
  <2>6. /\ scan' \in [Walkers -> [at : {"idle", "walk"}, todo : SUBSET Paths,
                                  found : [Paths -> Entries]]]
        /\ \A y \in Walkers : ScanKnows(y)'
    BY <2>1, <2>2, <2>5, <1>5
  <2>7. QED
    BY <2>4, <2>6, <1>1, <1>2, <1>4, ScanStepKeeps
<1>8. CASE CutShort(x)
  <2>1. PICK e : e = [scan[x] EXCEPT !.todo = {}] /\ scan' = [scan EXCEPT ![x] = e]
    BY <1>8, <1>1 DEF CutShort
  <2>2. /\ e.at = scan[x].at /\ e.todo = {} /\ e.found = scan[x].found
        /\ e \in [at : {"idle", "walk"}, todo : SUBSET Paths, found : [Paths -> Entries]]
    BY <2>1, <1>1
  <2>3. indexed' = indexed /\ \A p : Plain(p)' => p \notin scan[x].todo
    BY <1>8 DEF CutShort, Plain
  <2>4. e.at = "walk" =>
               /\ \A p \in Paths : Fits(e.found[p], changes)
               /\ \A p \in Paths : Plain(p)' /\ p \notin e.todo => e.found[p] = disk[p]
    <3> SUFFICES ASSUME e.at = "walk", NEW p \in Paths
                 PROVE  Fits(e.found[p], changes) /\ (Plain(p)' => e.found[p] = disk[p])
      OBVIOUS
    <3>1. e.found[p] = scan[x].found[p] /\ scan[x].at = "walk"
      BY <2>2
    <3>2. Plain(p)' => Plain(p) /\ p \notin scan[x].todo
      BY <2>3, <1>4
    <3>3. QED
      BY <3>1, <3>2, <1>0
  <2>5. /\ scan' \in [Walkers -> [at : {"idle", "walk"}, todo : SUBSET Paths,
                                  found : [Paths -> Entries]]]
        /\ \A y \in Walkers : ScanKnows(y)'
    BY <2>1, <2>2, <2>4, <1>5
  <2>6. QED
    BY <2>3, <2>5, <1>1, <1>2, <1>4, ScanStepKeeps
<1>9. CASE CommitScan(x)
  <2>1. /\ scan[x].at = "walk" /\ scan[x].todo = {} /\ indexed' = scan[x].found
        /\ scan' = [scan EXCEPT ![x] = Asleep]
    BY <1>9 DEF CommitScan
  <2>2. /\ Asleep.at = "idle"
        /\ Asleep \in [at : {"idle", "walk"}, todo : SUBSET Paths, found : [Paths -> Entries]]
    BY <1>1 DEF Asleep
  <2>3. /\ indexed' \in [Paths -> Entries]
        /\ \A p \in Paths : Fits(indexed'[p], changes)
        /\ \A p \in Paths : Plain(p)' => indexed'[p] \in {indexed[p], disk[p]}
    <3>1. /\ scan[x].found \in [Paths -> Entries]
          /\ \A p \in Paths : Fits(scan[x].found[p], changes)
          /\ \A p \in Paths : Plain(p) => scan[x].found[p] = disk[p]
      BY <2>1, <1>0, <1>1
    <3>2. QED
      BY <2>1, <3>1, <1>4
  <2>4. /\ scan' \in [Walkers -> [at : {"idle", "walk"}, todo : SUBSET Paths,
                                  found : [Paths -> Entries]]]
        /\ \A y \in Walkers : ScanKnows(y)'
    BY <2>1, <2>2, <1>5
  <2>5. QED
    BY <2>3, <2>4, <1>2, <1>4, ScanStepKeeps
<1>10. QED
  BY <1>6, <1>7, <1>8, <1>9 DEF ScanStep

\* So every step keeps the invariant.
LEMMA IndexStepKeeps == IndexInv /\ [IndexNext]_indexVars => IndexInv'
<1> SUFFICES ASSUME IndexInv, [IndexNext]_indexVars PROVE IndexInv'
  OBVIOUS
<1>1. CASE TreeStep
  BY <1>1, TreeKeeps
<1>2. CASE WatchStep
  BY <1>2, HandleEventKeeps, HandleDebouncedKeeps, StaleRenameKeeps DEF WatchStep
<1>3. CASE JobStep
  BY <1>3, RemoveFileKeeps, ScanFileKeeps, FindRenameKeeps, DropRenamedKeeps, InsertFileKeeps
     DEF JobStep
<1>4. CASE \E x \in Walkers : ScanStep(x)
  BY <1>4, ScanKeeps
<1>5. CASE UNCHANGED indexVars
  <2>1. ScanOnly /\ indexed' = indexed /\ scan' = scan /\ muddled' = muddled
    BY <1>5 DEF indexVars, ScanOnly
  <2>2. /\ \A p : Plain(p)' => Plain(p)
        /\ \A x \in Walkers : ScanKnows(x)'
    BY <2>1 DEF Plain, ScanOnly, ScanKnows, IndexInv, ScansKnow
  <2>3. QED
    BY <2>1, <2>2, ScanStepKeeps DEF IndexInv, IndexTyped
<1>6. QED
  BY <1>1, <1>2, <1>3, <1>4, <1>5 DEF IndexNext

\* The invariant holds in every behaviour, whatever paths there are and however
\* many changes, jobs and scans.
THEOREM IndexInvariance == IndexSpec => []IndexInv
BY IndexStarts, IndexStepKeeps, PTL DEF IndexSpec

\* With nothing under way the index shows each path as it is on the disk,
\* however its change was noticed and the others' ran beside it
\* (Watcher.handleDebouncedEvent, internal/adapters/watcher/watcher.go, and
\* SQLiteIndexer.IndexFile, internal/adapters/repository/indexer.go).
THEOREM IndexAlwaysFollows == IndexSpec => []IndexFollows
<1>1. IndexInv => IndexFollows
  <2> SUFFICES ASSUME IndexInv, notices = << >>, jobs = {}, pendingRename = NoPath,
                      \A p \in Paths : debounced[p] = "none", NEW p \in Paths \ muddled
               PROVE  indexed[p] = disk[p]
    BY DEF IndexFollows
  <2>1. ~Due(p) /\ ~InJob(p) /\ Plain(p)
    BY IndexAssumption DEF Due, Noticed, InJob, Plain
  <2>2. QED
    BY <2>1 DEF IndexInv, ChangesShow, ShownAt
<1>2. QED
  BY <1>1, IndexInvariance, PTL

-----------------------------------------------------------------------------
\* The images: the invariant.

Image == [hash : Pictures \cup {0}, size : Pictures, created : Nat, expires : Nat]
File == [content : Pictures, mtime : Nat]

\* The bytes of the images in S, of a map of images.
SpaceOf(im, S) == Cardinality(BytesOf([i \in DOMAIN im |-> im[i].size], S))

ImageTyped ==
    /\ uploads \in 0 .. MaxUploads /\ clock \in Nat /\ mishaps \in Nat /\ kept \in BOOLEAN
    /\ Partial(images, 1 .. uploads, Image)
    /\ Partial(files, 1 .. uploads, File)
    /\ Partial(hashIndex, Pictures, IDs)
    /\ promised \in [IDs -> Nat]
    /\ \A i \in IDs : promised[i] # 0 => i <= uploads

\* The cached total is the sum, and the index leads to the images and back.
Counted(im, hx, total) ==
    /\ total = SpaceOf(im, DOMAIN im)
    /\ \A i \in DOMAIN im : im[i].hash # 0 => im[i].hash \in DOMAIN hx /\ hx[im[i].hash] = i
    /\ \A c \in DOMAIN hx : hx[c] \in DOMAIN im /\ im[hx[c]].hash = c

\* An entry has its file, unless it was released, and is as large.
Stored(im, fl, rel) ==
    /\ \A i \in DOMAIN im : i \notin rel => i \in DOMAIN fl
    /\ \A i \in DOMAIN im \cap DOMAIN fl : fl[i].content = im[i].size

\* An entry lives as long as was promised last, and is there until then.
Owed(im, due, rel, now) ==
    /\ \A i \in DOMAIN im : due[i] # 0 /\ i \notin rel => im[i].expires = due[i]
    /\ \A i \in IDs : due[i] # 0 /\ now <= due[i] /\ i \notin rel => i \in DOMAIN im

\* No file is without an entry, and the entries keep the limits.
WithinLimits(im, fl, total) ==
    /\ DOMAIN fl \subseteq DOMAIN im
    /\ Cardinality(DOMAIN im) <= MaxImages
    /\ total <= MaxSize

ImageInv ==
    /\ ImageTyped
    /\ Counted(images, hashIndex, totalSize)
    /\ Stored(images, files, released)
    /\ Owed(images, promised, released, clock)
    /\ ~kept => WithinLimits(images, files, totalSize)

-----------------------------------------------------------------------------
\* The images: sizes.

\* Finitely many images have finitely many bytes.
LEMMA BytesAreFinite ==
    ASSUME NEW S, IsFiniteSet(S), NEW size, \A i \in S : size[i] \in Nat
    PROVE  IsFiniteSet(BytesOf(size, S))
<1> DEFINE T == {{i} \X (1 .. size[i]) : i \in S}
           f == [i \in S |-> {i} \X (1 .. size[i])]
<1>1. f \in Surjection(S, T)
    BY DEF Surjection
<1>2. IsFiniteSet(T)
    BY <1>1, FS_Surjection
<1>3. \A t \in T : IsFiniteSet(t)
    <2> SUFFICES ASSUME NEW i \in S PROVE IsFiniteSet({i} \X (1 .. size[i]))
        OBVIOUS
    <2>1. PICK n \in Nat : n = size[i]
        OBVIOUS
    <2>2. IsFiniteSet({i})
        BY FS_Singleton
    <2>3. 1 \in Int /\ n \in Int
        OBVIOUS
    <2>4. IsFiniteSet(1 .. n)
        BY <2>3, FS_Interval
    <2> QED
        BY <2>1, <2>2, <2>4, FS_Product
<1> HIDE DEF T
<1>4. IsFiniteSet(UNION T)
    BY <1>2, <1>3, FS_UNION
<1> QED
    BY <1>4 DEF BytesOf, T

\* A part of the images and the rest have the bytes of all.
LEMMA BytesSplit ==
    ASSUME NEW S, IsFiniteSet(S), NEW size, \A i \in S : size[i] \in Nat, NEW T \in SUBSET S
    PROVE  /\ Cardinality(BytesOf(size, S)) \in Nat
           /\ Cardinality(BytesOf(size, T)) \in Nat
           /\ Cardinality(BytesOf(size, S \ T)) =
                 Cardinality(BytesOf(size, S)) - Cardinality(BytesOf(size, T))
<1>1. IsFiniteSet(T) /\ IsFiniteSet(S \ T)
    BY FS_Subset, FS_Difference
<1>2. /\ IsFiniteSet(BytesOf(size, S)) /\ IsFiniteSet(BytesOf(size, T))
      /\ IsFiniteSet(BytesOf(size, S \ T))
    BY <1>1, BytesAreFinite
<1>3. BytesOf(size, S) = BytesOf(size, T) \cup BytesOf(size, S \ T)
    BY DEF BytesOf
<1>4. BytesOf(size, T) \cap BytesOf(size, S \ T) = {}
    BY DEF BytesOf
<1>5. Cardinality({}) = 0
    BY FS_EmptySet
<1>6. /\ Cardinality(BytesOf(size, S)) \in Nat /\ Cardinality(BytesOf(size, T)) \in Nat
      /\ Cardinality(BytesOf(size, S \ T)) \in Nat
    BY <1>2, FS_CardinalityType
<1>7. Cardinality(BytesOf(size, S)) = Cardinality(BytesOf(size, T)) + Cardinality(BytesOf(size, S \ T))
    <2> DEFINE A == BytesOf(size, T)
               B == BytesOf(size, S \ T)
    <2>1. IsFiniteSet(A) /\ IsFiniteSet(B) /\ A \cap B = {}
        BY <1>2, <1>4
    <2>2. Cardinality(A) \in Nat /\ Cardinality(B) \in Nat /\ BytesOf(size, S) = A \cup B
        BY <1>3, <1>6
    <2> HIDE DEF A, B
    <2>3. Cardinality(A \cup B) = Cardinality(A) + Cardinality(B) - Cardinality(A \cap B)
        BY <2>1, FS_Union
    <2>4. Cardinality(A \cap B) = 0
        BY <2>1, <1>5
    <2>5. Cardinality(A \cup B) = Cardinality(A) + Cardinality(B)
        BY <2>2, <2>3, <2>4
    <2> QED
        BY <2>2, <2>5 DEF A, B
<1> QED
    BY <1>6, <1>7

\* One image has the bytes of its size.
LEMMA BytesOfOne ==
    ASSUME NEW i, NEW size, size[i] \in Nat
    PROVE  Cardinality(BytesOf(size, {i})) = size[i]
<1>1. BytesOf(size, {i}) = {i} \X (1 .. size[i])
    BY DEF BytesOf
<1>2. PICK n \in Nat : n = size[i]
    OBVIOUS
<1>3. IsFiniteSet({i}) /\ Cardinality({i}) = 1
    BY FS_Singleton
<1>4. 1 \in Int /\ n \in Int
    OBVIOUS
<1>5. IsFiniteSet(1 .. n) /\ Cardinality(1 .. n) = n
    BY <1>4, FS_Interval
<1>6. Cardinality({i} \X (1 .. n)) = Cardinality({i}) * Cardinality(1 .. n)
    BY <1>3, <1>5, FS_Product
<1>7. 1 * n = n
    OBVIOUS
<1>8. Cardinality({i} \X (1 .. n)) = n
    BY <1>3, <1>5, <1>6, <1>7, Zenon
<1> QED
    BY <1>1, <1>2, <1>8, Zenon

\* The bytes depend on the sizes of the images counted.
LEMMA BytesAgree ==
    ASSUME NEW S, NEW size, NEW tell, \A i \in S : size[i] = tell[i]
    PROVE  BytesOf(size, S) = BytesOf(tell, S)
BY DEF BytesOf

\* What the bytes of a map of images are when some leave.
LEMMA SpaceLeaves ==
    ASSUME NEW im, IsFiniteSet(DOMAIN im), \A i \in DOMAIN im : im[i].size \in Nat,
           NEW gone \in SUBSET DOMAIN im
    PROVE  /\ SpaceOf(im, DOMAIN im) \in Nat /\ SpaceOf(im, gone) \in Nat
           /\ SpaceOf(im, DOMAIN im \ gone) = SpaceOf(im, DOMAIN im) - SpaceOf(im, gone)
           /\ SpaceOf(im, DOMAIN im \ gone) \in Nat
           /\ LET less == Only(im, DOMAIN im \ gone)
              IN  SpaceOf(less, DOMAIN less) = SpaceOf(im, DOMAIN im \ gone)
<1> DEFINE size == [i \in DOMAIN im |-> im[i].size]
           less == Only(im, DOMAIN im \ gone)
           tell == [i \in DOMAIN less |-> less[i].size]
<1>1. \A i \in DOMAIN im : size[i] \in Nat
    OBVIOUS
<1>2. DOMAIN less = DOMAIN im \ gone /\ \A i \in DOMAIN less : size[i] = tell[i]
    BY DEF Only
<1> HIDE DEF size, less, tell
<1>3. /\ Cardinality(BytesOf(size, DOMAIN im)) \in Nat
      /\ Cardinality(BytesOf(size, gone)) \in Nat
      /\ Cardinality(BytesOf(size, DOMAIN im \ gone)) =
            Cardinality(BytesOf(size, DOMAIN im)) - Cardinality(BytesOf(size, gone))
    BY <1>1, BytesSplit
<1>4. Cardinality(BytesOf(size, DOMAIN im \ gone)) \in Nat
    BY <1>1, BytesSplit
<1>5. BytesOf(size, DOMAIN less) = BytesOf(tell, DOMAIN less)
    BY <1>2, BytesAgree
<1> QED
    BY <1>2, <1>3, <1>4, <1>5 DEF SpaceOf, size, less, tell

\* What they are when one comes.
LEMMA SpaceAdds ==
    ASSUME NEW im, IsFiniteSet(DOMAIN im), \A i \in DOMAIN im : im[i].size \in Nat,
           NEW id, id \notin DOMAIN im, NEW e, e.size \in Nat
    PROVE  LET more == With(im, id, e)
           IN  SpaceOf(more, DOMAIN more) = SpaceOf(im, DOMAIN im) + e.size
<1> DEFINE more == With(im, id, e)
           size == [i \in DOMAIN more |-> more[i].size]
           tell == [i \in DOMAIN im |-> im[i].size]
<1>1. /\ DOMAIN more = DOMAIN im \cup {id} /\ \A i \in DOMAIN more : size[i] \in Nat
      /\ size[id] = e.size /\ \A i \in DOMAIN im : size[i] = tell[i]
    BY DEF With
<1> HIDE DEF more, size, tell
<1>2. IsFiniteSet(DOMAIN more)
    BY <1>1, FS_AddElement
<1>3. /\ Cardinality(BytesOf(size, DOMAIN more)) \in Nat
      /\ Cardinality(BytesOf(size, {id})) \in Nat
      /\ Cardinality(BytesOf(size, DOMAIN more \ {id})) =
            Cardinality(BytesOf(size, DOMAIN more)) - Cardinality(BytesOf(size, {id}))
    <2>1. PICK S, T : S = DOMAIN more /\ T = {id}
        OBVIOUS
    <2>2. IsFiniteSet(S) /\ T \in SUBSET S /\ \A i \in S : size[i] \in Nat
        BY <1>1, <1>2, <2>1
    <2>3. /\ Cardinality(BytesOf(size, S)) \in Nat
          /\ Cardinality(BytesOf(size, T)) \in Nat
          /\ Cardinality(BytesOf(size, S \ T)) = Cardinality(BytesOf(size, S)) - Cardinality(BytesOf(size, T))
        BY <2>2, BytesSplit, SMTT(30)
    <2> QED
        BY <2>1, <2>3
<1>4. DOMAIN more \ {id} = DOMAIN im
    BY <1>1
<1>5. BytesOf(size, DOMAIN im) = BytesOf(tell, DOMAIN im)
    BY <1>1, BytesAgree
<1>6. Cardinality(BytesOf(size, {id})) = e.size
    BY <1>1, BytesOfOne
<1> QED
    BY <1>3, <1>4, <1>5, <1>6 DEF SpaceOf, more, size, tell

-----------------------------------------------------------------------------
\* The images: what leaving, coming and loading keep.

\* Images leave, and with them their total and their places in the index.
LEMMA LeavingCounts ==
    ASSUME NEW im, IsFiniteSet(DOMAIN im), \A i \in DOMAIN im : im[i].size \in Nat,
           \A i \in DOMAIN im : im[i].hash \in Pictures \cup {0}, ImageAssumption,
           NEW hx, DOMAIN hx \subseteq Pictures, NEW total, Counted(im, hx, total),
           NEW gone \in SUBSET DOMAIN im
    PROVE  /\ Counted(Only(im, DOMAIN im \ gone), Only(hx, DOMAIN hx \ {im[i].hash : i \in gone}),
                      total - SpaceOf(im, gone))
           /\ total - SpaceOf(im, gone) \in Nat /\ total - SpaceOf(im, gone) <= total
<1> DEFINE less == Only(im, DOMAIN im \ gone)
           hash == {im[i].hash : i \in gone}
           hy == Only(hx, DOMAIN hx \ hash)
<1>1. DOMAIN less = DOMAIN im \ gone /\ \A i \in DOMAIN less : less[i] = im[i]
    BY DEF Only
<1>2. DOMAIN hy = DOMAIN hx \ hash /\ \A c \in DOMAIN hy : hy[c] = hx[c]
    BY DEF Only
<1>3. /\ SpaceOf(im, DOMAIN im) \in Nat /\ SpaceOf(im, gone) \in Nat
      /\ SpaceOf(im, DOMAIN im \ gone) = SpaceOf(im, DOMAIN im) - SpaceOf(im, gone)
      /\ SpaceOf(im, DOMAIN im \ gone) \in Nat
      /\ SpaceOf(less, DOMAIN less) = SpaceOf(im, DOMAIN im \ gone)
    BY SpaceLeaves
<1>4. total = SpaceOf(im, DOMAIN im)
    BY DEF Counted
<1>5. \A i \in DOMAIN less : less[i].hash # 0 => less[i].hash \in DOMAIN hy /\ hy[less[i].hash] = i
    <2> SUFFICES ASSUME NEW i \in DOMAIN im, i \notin gone, im[i].hash # 0
                 PROVE  im[i].hash \in DOMAIN hy /\ hy[im[i].hash] = i
        BY <1>1
    <2>1. im[i].hash \in DOMAIN hx /\ hx[im[i].hash] = i
        BY DEF Counted
    <2>2. im[i].hash \notin hash
        BY <2>1 DEF Counted
    <2> QED
        BY <2>1, <2>2, <1>2
<1>6. \A c \in DOMAIN hy : hy[c] \in DOMAIN less /\ less[hy[c]].hash = c
    <2> SUFFICES ASSUME NEW c \in DOMAIN hx, c \notin hash
                 PROVE  hx[c] \in DOMAIN im \ gone /\ im[hx[c]].hash = c
        BY <1>1, <1>2, ZenonT(40)
    <2> QED
        BY DEF Counted
<1> HIDE DEF less, hy
<1>7. Counted(less, hy, total - SpaceOf(im, gone))
    BY <1>3, <1>4, <1>5, <1>6 DEF Counted
<1> QED
    BY <1>3, <1>4, <1>7 DEF less, hy

\* A new image comes.
LEMMA ComingCounts ==
    ASSUME NEW im, IsFiniteSet(DOMAIN im), \A i \in DOMAIN im : im[i].size \in Nat,
           NEW hx, NEW total, Counted(im, hx, total),
           NEW id, id \notin DOMAIN im, NEW c, c \notin DOMAIN hx, c # 0,
           NEW e, e.size \in Nat, e.hash = c
    PROVE  Counted(With(im, id, e), With(hx, c, id), total + e.size)
<1> DEFINE more == With(im, id, e)
           hy == With(hx, c, id)
<1>1. /\ DOMAIN more = DOMAIN im \cup {id} /\ more[id] = e
      /\ \A i \in DOMAIN im : more[i] = im[i]
    BY DEF With
<1>2. /\ DOMAIN hy = DOMAIN hx \cup {c} /\ hy[c] = id
      /\ \A d \in DOMAIN hx : hy[d] = hx[d]
    BY DEF With
<1>3. SpaceOf(more, DOMAIN more) = SpaceOf(im, DOMAIN im) + e.size
    BY SpaceAdds
<1> HIDE DEF more, hy
<1>4. \A i \in DOMAIN more : more[i].hash # 0 => more[i].hash \in DOMAIN hy /\ hy[more[i].hash] = i
    BY <1>1, <1>2 DEF Counted
<1>5. \A d \in DOMAIN hy : hy[d] \in DOMAIN more /\ more[hy[d]].hash = d
    BY <1>1, <1>2 DEF Counted
<1> QED
    BY <1>3, <1>4, <1>5 DEF Counted, more, hy

\* What a start loads from a folder.
LEMMA LoadingCounts ==
    ASSUME NEW left
    PROVE  /\ DOMAIN Loaded(left) = DOMAIN left
           /\ \A i \in DOMAIN left :
                 /\ Loaded(left)[i] = [hash |-> 0, size |-> left[i].content, created |-> left[i].mtime,
                                       expires |-> left[i].mtime + TTL]
           /\ Sizes(left) = SpaceOf(Loaded(left), DOMAIN left)
           /\ Counted(Loaded(left), EmptyFunction, Sizes(left))
<1>1. /\ DOMAIN Loaded(left) = DOMAIN left
      /\ \A i \in DOMAIN left :
            Loaded(left)[i] = [hash |-> 0, size |-> left[i].content, created |-> left[i].mtime,
                               expires |-> left[i].mtime + TTL]
    BY DEF Loaded, Entry
<1>2. [i \in DOMAIN Loaded(left) |-> Loaded(left)[i].size] = [i \in DOMAIN left |-> left[i].content]
    BY <1>1
<1>3. Sizes(left) = SpaceOf(Loaded(left), DOMAIN left)
    BY <1>2 DEF Sizes, SpaceOf
<1> QED
    BY <1>1, <1>3 DEF Counted, EmptyFunction

\* Files go with their images, some stay behind.
LEMMA LeavingStores ==
    ASSUME NEW im, NEW fl, NEW rel, Stored(im, fl, rel), NEW gone, NEW stay, NEW rel2, rel \subseteq rel2
    PROVE  Stored(Only(im, DOMAIN im \ gone), Only(fl, DOMAIN fl \ (gone \ stay)), rel2)
BY DEF Stored, Only

\* What leaves is released or expired.
LEMMA LeavingOwes ==
    ASSUME NEW im, NEW due \in [IDs -> Nat], NEW rel, NEW now \in Nat, Owed(im, due, rel, now),
           DOMAIN im \subseteq IDs, NEW gone, NEW rel2, rel \subseteq rel2,
           \A i \in gone \cap DOMAIN im : i \in rel2 \/ (im[i].expires \in Nat /\ now > im[i].expires)
    PROVE  Owed(Only(im, DOMAIN im \ gone), due, rel2, now)
<1>1. DOMAIN Only(im, DOMAIN im \ gone) = DOMAIN im \ gone
      /\ \A i \in DOMAIN im \ gone : Only(im, DOMAIN im \ gone)[i] = im[i]
    BY DEF Only
<1>2. ASSUME NEW i \in IDs, due[i] # 0, now <= due[i], i \notin rel2
      PROVE  i \in DOMAIN im \ gone
    <2>1. i \in DOMAIN im /\ im[i].expires = due[i]
        BY <1>2 DEF Owed
    <2>2. due[i] \in Nat
        OBVIOUS
    <2> QED
        BY <1>2, <2>1, <2>2
<1> QED
    BY <1>1, <1>2 DEF Owed

\* Fewer images fit too.
LEMMA LeavingFits ==
    ASSUME NEW im, NEW fl, NEW total \in Nat, WithinLimits(im, fl, total), IsFiniteSet(DOMAIN im),
           NEW gone, NEW rest \in Nat, rest <= total, ImageAssumption
    PROVE  WithinLimits(Only(im, DOMAIN im \ gone), Only(fl, DOMAIN fl \ gone), rest)
<1>1. /\ DOMAIN Only(im, DOMAIN im \ gone) = DOMAIN im \ gone
      /\ DOMAIN Only(fl, DOMAIN fl \ gone) = DOMAIN fl \ gone
    BY DEF Only
<1>2. /\ Cardinality(DOMAIN im \ gone) <= Cardinality(DOMAIN im)
      /\ Cardinality(DOMAIN im \ gone) \in Nat /\ Cardinality(DOMAIN im) \in Nat
    <2>1. DOMAIN im \ gone \in SUBSET DOMAIN im
        OBVIOUS
    <2> QED
        BY <2>1, FS_Subset, FS_CardinalityType
<1>3. MaxImages \in Nat /\ MaxSize \in Nat
    BY DEF ImageAssumption
<1> QED
    BY <1>1, <1>2, <1>3 DEF WithinLimits

\* An image comes with its file.
LEMMA ComingStores ==
    ASSUME NEW im, NEW fl, NEW rel, Stored(im, fl, rel), NEW id, id \notin DOMAIN im, id \notin DOMAIN fl,
           NEW e, NEW f, f.content = e.size
    PROVE  Stored(With(im, id, e), With(fl, id, f), rel)
BY DEF Stored, With

\* It is promised what its entry says.
LEMMA ComingOwes ==
    ASSUME NEW im, NEW due \in [IDs -> Nat], NEW rel, NEW now, Owed(im, due, rel, now),
           DOMAIN im \subseteq IDs,
           NEW id \in IDs, NEW e
    PROVE  Owed(With(im, id, e), [due EXCEPT ![id] = e.expires], rel, now)
<1> DEFINE more == With(im, id, e)
           next == [due EXCEPT ![id] = e.expires]
<1>1. /\ DOMAIN more = DOMAIN im \cup {id} /\ more[id] = e
      /\ \A i \in DOMAIN im : i # id => more[i] = im[i]
    BY DEF With
<1>2. next[id] = e.expires /\ \A i \in IDs : i # id => next[i] = due[i]
    OBVIOUS
<1> HIDE DEF more, next
<1> QED
    BY <1>1, <1>2 DEF Owed, more, next

\* It fits when it was accepted.
LEMMA ComingFits ==
    ASSUME NEW im, NEW fl, NEW total \in Nat, WithinLimits(im, fl, total), IsFiniteSet(DOMAIN im),
           NEW id, NEW e, NEW f, NEW more, id \notin DOMAIN im, ImageAssumption,
           Cardinality(DOMAIN im) < MaxImages, more <= MaxSize
    PROVE  WithinLimits(With(im, id, e), With(fl, id, f), more)
<1>1. DOMAIN With(im, id, e) = DOMAIN im \cup {id} /\ DOMAIN With(fl, id, f) = DOMAIN fl \cup {id}
    BY DEF With
<1>2. Cardinality(DOMAIN im \cup {id}) = Cardinality(DOMAIN im) + 1 /\ Cardinality(DOMAIN im) \in Nat
    BY FS_AddElement, FS_CardinalityType
<1>3. MaxImages \in Nat
    BY DEF ImageAssumption
<1> QED
    BY <1>1, <1>2, <1>3 DEF WithinLimits

\* A start owes what it finds, when the files tell what was promised.
LEMMA LoadingOwes ==
    ASSUME NEW im, NEW fl, NEW rel, Stored(im, fl, rel),
           NEW due, NEW now, Owed(im, due, rel, now),
           NEW left, DOMAIN fl \subseteq DOMAIN left, NEW rel2, rel \subseteq rel2,
           \A i \in DOMAIN left : due[i] # 0 /\ i \notin rel2 => due[i] = left[i].mtime + TTL
    PROVE  Owed(Loaded(left), due, rel2, now) /\ Stored(Loaded(left), left, rel2)
<1>1. DOMAIN Loaded(left) = DOMAIN left
    BY LoadingCounts
<1>2. \A i \in DOMAIN left : /\ Loaded(left)[i].expires = left[i].mtime + TTL
                             /\ Loaded(left)[i].size = left[i].content
    <2> TAKE i \in DOMAIN left
    <2>1. Loaded(left)[i] = [hash |-> 0, size |-> left[i].content, created |-> left[i].mtime,
                             expires |-> left[i].mtime + TTL]
        BY LoadingCounts
    <2> QED
        BY <2>1
<1> QED
    BY <1>1, <1>2 DEF Owed, Stored

\* What it finds fits, when no file was left behind.
LEMMA LoadingFits ==
    ASSUME NEW im, IsFiniteSet(DOMAIN im), \A i \in DOMAIN im : im[i].size \in Nat,
           NEW hx, NEW total, Counted(im, hx, total),
           NEW fl, NEW rel, Stored(im, fl, rel), WithinLimits(im, fl, total), ImageAssumption
    PROVE  WithinLimits(Loaded(fl), fl, Sizes(fl)) /\ Sizes(fl) \in Nat /\ Sizes(fl) <= total
<1> DEFINE gone == DOMAIN im \ DOMAIN fl
           size == [i \in DOMAIN im |-> im[i].size]
           tell == [i \in DOMAIN fl |-> fl[i].content]
<1>1. DOMAIN fl = DOMAIN im \ gone
    BY DEF WithinLimits
<1>2. BytesOf(tell, DOMAIN fl) = BytesOf(size, DOMAIN fl)
    <2>1. \A i \in DOMAIN fl : tell[i] = size[i]
        BY DEF WithinLimits, Stored
    <2> HIDE DEF tell, size
    <2> QED
        BY <2>1, BytesAgree
<1>3. Sizes(fl) = SpaceOf(im, DOMAIN im \ gone)
    BY <1>1, <1>2 DEF Sizes, SpaceOf
<1> HIDE DEF gone
<1>4. /\ SpaceOf(im, DOMAIN im) \in Nat /\ SpaceOf(im, gone) \in Nat
      /\ SpaceOf(im, DOMAIN im \ gone) = SpaceOf(im, DOMAIN im) - SpaceOf(im, gone)
      /\ SpaceOf(im, DOMAIN im \ gone) \in Nat
    BY SpaceLeaves DEF gone
<1>5. Sizes(fl) \in Nat /\ Sizes(fl) <= total /\ total \in Nat
    BY <1>3, <1>4 DEF Counted
<1>6. /\ Cardinality(DOMAIN fl) <= Cardinality(DOMAIN im)
      /\ Cardinality(DOMAIN fl) \in Nat /\ Cardinality(DOMAIN im) \in Nat
    <2>1. DOMAIN fl \in SUBSET DOMAIN im
        BY DEF WithinLimits
    <2> QED
        BY <2>1, FS_Subset, FS_CardinalityType
<1>7. DOMAIN Loaded(fl) = DOMAIN fl
    BY LoadingCounts
<1>8. MaxImages \in Nat /\ MaxSize \in Nat
    BY DEF ImageAssumption
<1> QED
    BY <1>5, <1>6, <1>7, <1>8 DEF WithinLimits

-----------------------------------------------------------------------------
\* The images: the steps.

\* What the types say of the maps.
LEMMA ImageFacts ==
    ASSUME ImageInv, ImageAssumption
    PROVE  /\ IsFiniteSet(DOMAIN images) /\ DOMAIN images \subseteq IDs /\ DOMAIN files \subseteq IDs
           /\ \A i \in DOMAIN images : /\ images[i] \in Image /\ images[i].size \in Nat
                                       /\ images[i].hash \in Pictures \cup {0} /\ images[i].expires \in Nat
           /\ DOMAIN hashIndex \subseteq Pictures
           /\ totalSize \in Nat
           /\ \A S : Bytes(S) = SpaceOf(images, S)
           /\ uploads + 1 \notin DOMAIN images /\ uploads + 1 \notin DOMAIN files
           /\ MaxUploads \in Nat /\ uploads \in Nat /\ uploads <= MaxUploads
<1>1. MaxUploads \in Nat /\ uploads \in Nat /\ uploads <= MaxUploads /\ Pictures \subseteq Nat
    BY DEF ImageAssumption, ImageInv, ImageTyped
<1>2. /\ DOMAIN images \subseteq 1 .. uploads /\ DOMAIN files \subseteq 1 .. uploads
      /\ \A i \in DOMAIN images : images[i] \in Image /\ DOMAIN hashIndex \subseteq Pictures
      /\ DOMAIN hashIndex \subseteq Pictures
    BY DEF ImageInv, ImageTyped, Partial
<1>3. 1 .. uploads \subseteq IDs /\ uploads + 1 \notin 1 .. uploads
    BY <1>1 DEF IDs
<1>4. IsFiniteSet(DOMAIN images)
    <2>1. 1 \in Int /\ uploads \in Int
        BY <1>1
    <2>3. IsFiniteSet(1 .. uploads)
        BY <2>1, FS_Interval
    <2> QED
        BY <2>3, <1>2, FS_Subset
<1>5. \A i \in DOMAIN images : /\ images[i].size \in Nat /\ images[i].hash \in Pictures \cup {0}
                                /\ images[i].expires \in Nat
    BY <1>1, <1>2 DEF Image
<1>6. totalSize \in Nat
    <2>1. SpaceOf(images, DOMAIN images) \in Nat
        <3>1. {} \in SUBSET DOMAIN images
            OBVIOUS
        <3> QED
            BY <3>1, <1>4, <1>5, SpaceLeaves
    <2> QED
        BY <2>1 DEF ImageInv, Counted
<1>7. \A S : Bytes(S) = SpaceOf(images, S)
    BY DEF Bytes, SpaceOf
<1> QED
    BY <1>1, <1>2, <1>3, <1>4, <1>5, <1>6, <1>7

\* The images in gone leave, released or expired, and the files in stay do not.
Departs(gone, stay, rel2, im, hx, total, fl) ==
    /\ gone \subseteq DOMAIN images /\ stay \subseteq gone
    /\ released \subseteq rel2 /\ \A i \in gone : i \in rel2 \/ i \in Expired
    /\ im = Only(images, DOMAIN images \ gone) /\ hx = Unindex(gone)
    /\ total = totalSize - Bytes(gone) /\ fl = Others(gone, stay)

\* What they leave behind is in order.
LEMMA DepartingKeeps ==
    ASSUME ImageInv, ImageAssumption, NEW gone, NEW stay, NEW rel2, NEW im, NEW hx, NEW total, NEW fl,
           Departs(gone, stay, rel2, im, hx, total, fl)
    PROVE  /\ Counted(im, hx, total) /\ Stored(im, fl, rel2) /\ Owed(im, promised, rel2, clock)
           /\ ~kept /\ stay = {} => WithinLimits(im, fl, total)
           /\ Partial(im, 1 .. uploads, Image) /\ Partial(fl, 1 .. uploads, File)
           /\ Partial(hx, Pictures, IDs)
           /\ total \in Nat
           /\ IsFiniteSet(DOMAIN im) /\ DOMAIN im = DOMAIN images \ gone
           /\ \A i \in DOMAIN im : im[i].size \in Nat
           /\ DOMAIN fl \subseteq DOMAIN files /\ \A i \in DOMAIN fl : fl[i] = files[i]
           /\ DOMAIN hx \subseteq DOMAIN hashIndex
<1> USE DEF Departs
<1>1. /\ IsFiniteSet(DOMAIN images) /\ DOMAIN images \subseteq IDs
      /\ \A i \in DOMAIN images : /\ images[i] \in Image /\ images[i].size \in Nat
                                  /\ images[i].hash \in Pictures \cup {0} /\ images[i].expires \in Nat
      /\ DOMAIN hashIndex \subseteq Pictures
      /\ totalSize \in Nat
      /\ Bytes(gone) = SpaceOf(images, gone)
    BY ImageFacts
<1>2. /\ Counted(images, hashIndex, totalSize) /\ Stored(images, files, released)
      /\ Owed(images, promised, released, clock)
      /\ promised \in [IDs -> Nat] /\ clock \in Nat
    BY DEF ImageInv, ImageTyped
<1>3. Counted(im, hx, total) /\ total \in Nat /\ total <= totalSize
    BY <1>1, <1>2, LeavingCounts DEF Unindex
<1>4. Stored(im, fl, rel2)
    BY <1>2, LeavingStores DEF Others
<1>5. Owed(im, promised, rel2, clock)
    <2>1. \A i \in gone \cap DOMAIN images : i \in rel2 \/ (images[i].expires \in Nat /\ clock > images[i].expires)
        BY <1>1 DEF Expired
    <2> QED
        BY <1>1, <1>2, <2>1, LeavingOwes
<1>6. ASSUME ~kept, stay = {} PROVE WithinLimits(im, fl, total)
    <2>1. gone \ stay = gone
        BY <1>6
    <2>2. WithinLimits(images, files, totalSize) /\ fl = Only(files, DOMAIN files \ gone)
        BY <1>6, <2>1 DEF ImageInv, Others
    <2>3. WithinLimits(Only(images, DOMAIN images \ gone), Only(files, DOMAIN files \ gone), total)
        BY <1>1, <1>3, <2>2, LeavingFits
    <2> QED
        BY <2>2, <2>3
<1>7. /\ DOMAIN im = DOMAIN images \ gone /\ \A i \in DOMAIN im : im[i] = images[i]
      /\ DOMAIN fl \subseteq DOMAIN files /\ \A i \in DOMAIN fl : fl[i] = files[i]
      /\ DOMAIN hx \subseteq DOMAIN hashIndex
    BY DEF Only, Others, Unindex
<1>8. IsFiniteSet(DOMAIN im)
    <2>1. IsFiniteSet(DOMAIN images \ gone)
        BY <1>1, FS_Difference
    <2> QED
        BY <1>7, <2>1
<1>9. Partial(im, 1 .. uploads, Image) /\ Partial(fl, 1 .. uploads, File) /\ Partial(hx, Pictures, IDs)
    BY DEF ImageInv, ImageTyped, Partial, Only, Others, Unindex
<1> QED
    BY <1>1, <1>3, <1>4, <1>5, <1>6, <1>7, <1>8, <1>9

\* Nothing is stored at first.
LEMMA ImagesStart == ImageAssumption /\ ImageInit => ImageInv
<1> SUFFICES ASSUME ImageAssumption, ImageInit PROVE ImageInv
    OBVIOUS
<1> USE DEF ImageInit
<1>1. DOMAIN EmptyFunction = {}
    BY DEF EmptyFunction
<1>2. MaxUploads \in Nat /\ MaxImages \in Nat /\ MaxSize \in Nat
    BY DEF ImageAssumption
<1>3. ImageTyped
    <2>1. /\ Partial(images, 1 .. uploads, Image) /\ Partial(files, 1 .. uploads, File)
          /\ Partial(hashIndex, Pictures, IDs)
        BY DEF EmptyFunction, Partial
    <2>2. promised \in [IDs -> Nat] /\ \A i \in IDs : promised[i] = 0
        OBVIOUS
    <2>3. uploads \in 0 .. MaxUploads /\ clock \in Nat /\ mishaps \in Nat
        BY <1>2
    <2>4. kept \in BOOLEAN
        OBVIOUS
    <2> HIDE DEF ImageInit
    <2> QED
        BY <2>1, <2>2, <2>3, <2>4 DEF ImageTyped
<1>4. Cardinality(DOMAIN images) = 0
    BY <1>1, FS_EmptySet
<1>5. SpaceOf(images, DOMAIN images) = 0
    <2>1. \A size : BytesOf(size, DOMAIN images) = {}
        BY <1>1 DEF BytesOf
    <2>2. Cardinality({}) = 0
        BY FS_EmptySet
    <2> QED
        BY <2>1, <2>2 DEF SpaceOf
<1>6. WithinLimits(images, files, totalSize)
    BY <1>1, <1>2, <1>4 DEF WithinLimits
<1>7. Counted(images, hashIndex, totalSize)
    BY <1>1, <1>5 DEF Counted
<1> QED
    BY <1>1, <1>3, <1>6, <1>7 DEF ImageInv, Stored, Owed

\* The same image again.
LEMMA StoreDuplicateKeeps ==
    ASSUME ImageInv, ImageAssumption, NEW c \in Pictures, StoreDuplicate(c)
    PROVE  ImageInv'
<1> USE DEF StoreDuplicate
<1>1. PICK i \in DOMAIN images : /\ images' = [images EXCEPT ![i].expires = clock + TTL]
                                /\ promised' = [promised EXCEPT ![i] = clock + TTL]
    OBVIOUS
<1>2. /\ DOMAIN images \subseteq IDs /\ \A j \in DOMAIN images : images[j] \in Image
      /\ DOMAIN images \subseteq 1 .. uploads /\ uploads \in Nat
    BY ImageFacts DEF ImageInv, ImageTyped, Partial
<1>3. clock + TTL \in Nat /\ promised \in [IDs -> Nat] /\ clock \in Nat
    BY DEF ImageInv, ImageTyped, ImageAssumption
<1>4. PICK e \in Image : e = [images[i] EXCEPT !.expires = clock + TTL]
    BY <1>2, <1>3 DEF Image
<1>5. /\ e.hash = images[i].hash /\ e.size = images[i].size /\ e.expires = clock + TTL
      /\ images' = [images EXCEPT ![i] = e]
    BY <1>1, <1>2, <1>4 DEF Image
<1>6. images \in [DOMAIN images -> Image]
    BY DEF ImageInv, ImageTyped, Partial
<1>7. /\ DOMAIN images' = DOMAIN images /\ images' \in [DOMAIN images -> Image] /\ images'[i] = e
      /\ \A j \in DOMAIN images : j # i => images'[j] = images[j]
      /\ \A j \in DOMAIN images : images'[j].size = images[j].size /\ images'[j].hash = images[j].hash
    BY <1>5, <1>6
<1>8. /\ promised' \in [IDs -> Nat] /\ promised'[i] = clock + TTL
      /\ \A j \in IDs : j # i => promised'[j] = promised[j]
    BY <1>1, <1>2, <1>3
<1>9. ImageTyped'
    <2>1. \A j \in IDs : promised'[j] # 0 => j <= uploads
        BY <1>2, <1>8 DEF ImageInv, ImageTyped
    <2>2. Partial(images', 1 .. uploads, Image)
        BY <1>2, <1>7 DEF Partial
    <2> QED
        BY <2>1, <2>2, <1>8 DEF ImageInv, ImageTyped
<1>10. Counted(images, hashIndex, totalSize)'
    <2>1. [j \in DOMAIN images' |-> images'[j].size] = [j \in DOMAIN images |-> images[j].size]
        BY <1>7
    <2>2. SpaceOf(images', DOMAIN images') = SpaceOf(images, DOMAIN images)
        BY <1>7, <2>1 DEF SpaceOf
    <2> QED
        BY <1>7, <2>2 DEF ImageInv, Counted
<1>11. Stored(images, files, released)'
    BY <1>7 DEF ImageInv, Stored
<1>12. Owed(images, promised, released, clock)'
    BY <1>5, <1>7, <1>8, <1>2 DEF ImageInv, Owed
<1>13. ~kept' => WithinLimits(images, files, totalSize)'
    BY <1>7 DEF ImageInv, WithinLimits
<1> QED
    BY <1>9, <1>10, <1>11, <1>12, <1>13 DEF ImageInv

\* An image is deleted.
LEMMA DeleteKeeps ==
    ASSUME ImageInv, ImageAssumption, NEW i \in IDs, Delete(i)
    PROVE  ImageInv'
<1>1. /\ {i} \in SUBSET DOMAIN images /\ {} \in SUBSET {i} /\ released \subseteq released \cup {i}
      /\ \A j \in {i} : j \in released \cup {i}
    BY DEF Delete
<1>2. /\ images' = Only(images, DOMAIN images \ {i}) /\ hashIndex' = Unindex({i})
      /\ totalSize' = totalSize - Bytes({i}) /\ files' = Others({i}, {})
      /\ released' = released \cup {i}
      /\ UNCHANGED <<clock, uploads, mishaps, promised, kept>>
    BY DEF Delete, Drop
<1>3. PICK gone, stay, rel : gone = {i} /\ stay = {} /\ rel = released \cup {i}
    OBVIOUS
<1>4. /\ Counted(images', hashIndex', totalSize') /\ Stored(images', files', rel)
      /\ Owed(images', promised, rel, clock)
      /\ ~kept /\ stay = {} => WithinLimits(images', files', totalSize')
      /\ Partial(images', 1 .. uploads, Image) /\ Partial(files', 1 .. uploads, File)
      /\ Partial(hashIndex', Pictures, IDs)
    <2>1. /\ gone \in SUBSET DOMAIN images /\ stay \in SUBSET gone /\ released \subseteq rel
          /\ \A j \in gone : j \in rel \/ j \in Expired
        BY <1>1, <1>3
    <2>2. PICK im, hx, total, fl : im = images' /\ hx = hashIndex' /\ total = totalSize' /\ fl = files'
        OBVIOUS
    <2>3. /\ im = Only(images, DOMAIN images \ gone) /\ hx = Unindex(gone)
          /\ total = totalSize - Bytes(gone) /\ fl = Others(gone, stay)
        BY <1>2, <1>3, <2>2
    <2>4. Departs(gone, stay, rel, im, hx, total, fl)
        BY <2>1, <2>3 DEF Departs
    <2>5. /\ Counted(im, hx, total) /\ Stored(im, fl, rel) /\ Owed(im, promised, rel, clock)
          /\ ~kept /\ stay = {} => WithinLimits(im, fl, total)
          /\ Partial(im, 1 .. uploads, Image) /\ Partial(fl, 1 .. uploads, File)
          /\ Partial(hx, Pictures, IDs)
        BY <2>4, DepartingKeeps
    <2> QED
        BY <2>2, <2>5
<1>5. ImageTyped'
    BY <1>2, <1>4 DEF ImageInv, ImageTyped
<1> QED
    BY <1>2, <1>3, <1>4, <1>5 DEF ImageInv

\* The cleanup of what has expired.
LEMMA CleanupImagesKeeps ==
    ASSUME ImageInv, ImageAssumption, CleanupImages
    PROVE  ImageInv'
<1>1. PICK stay \in SUBSET Expired : RemoveFiles(Expired, stay) /\ Drop(Expired, stay)
    BY DEF CleanupImages
<1>2. PICK gone, rel : gone = Expired /\ rel = released
    OBVIOUS
<1>3. /\ images' = Only(images, DOMAIN images \ gone) /\ hashIndex' = Unindex(gone)
      /\ totalSize' = totalSize - Bytes(gone) /\ files' = Others(gone, stay)
      /\ UNCHANGED <<clock, uploads, promised, released>>
    BY <1>1, <1>2 DEF CleanupImages, Drop
<1>4. mishaps' \in Nat
    <2>1. stay \subseteq gone \cap DOMAIN files /\ mishaps' = mishaps + Cardinality(stay)
        BY <1>1, <1>2 DEF RemoveFiles, Mishap
    <2>2. IsFiniteSet(stay)
        <3>1. stay \in SUBSET DOMAIN images
            BY <1>1 DEF Expired
        <3> QED
            BY <3>1, ImageFacts, FS_Subset
    <2> QED
        BY <2>1, <2>2, FS_CardinalityType DEF ImageInv, ImageTyped
<1>5. kept' \in BOOLEAN /\ (~kept' => ~kept /\ stay = {})
    BY <1>1 DEF RemoveFiles
<1>6. /\ Counted(images', hashIndex', totalSize') /\ Stored(images', files', rel)
      /\ Owed(images', promised, rel, clock)
      /\ ~kept /\ stay = {} => WithinLimits(images', files', totalSize')
      /\ Partial(images', 1 .. uploads, Image) /\ Partial(files', 1 .. uploads, File)
      /\ Partial(hashIndex', Pictures, IDs)
    <2>1. /\ gone \in SUBSET DOMAIN images /\ stay \in SUBSET gone /\ released \subseteq rel
          /\ \A j \in gone : j \in rel \/ j \in Expired
        BY <1>2 DEF Expired
    <2>2. PICK im, hx, total, fl : im = images' /\ hx = hashIndex' /\ total = totalSize' /\ fl = files'
        OBVIOUS
    <2>3. /\ im = Only(images, DOMAIN images \ gone) /\ hx = Unindex(gone)
          /\ total = totalSize - Bytes(gone) /\ fl = Others(gone, stay)
        BY <1>2, <1>3, <2>2
    <2>4. Departs(gone, stay, rel, im, hx, total, fl)
        BY <2>1, <2>3 DEF Departs
    <2>5. /\ Counted(im, hx, total) /\ Stored(im, fl, rel) /\ Owed(im, promised, rel, clock)
          /\ ~kept /\ stay = {} => WithinLimits(im, fl, total)
          /\ Partial(im, 1 .. uploads, Image) /\ Partial(fl, 1 .. uploads, File)
          /\ Partial(hx, Pictures, IDs)
        BY <2>4, DepartingKeeps
    <2> QED
        BY <2>2, <2>5
<1>7. ImageTyped'
    BY <1>3, <1>4, <1>5, <1>6 DEF ImageInv, ImageTyped
<1> QED
    BY <1>2, <1>3, <1>5, <1>6, <1>7 DEF ImageInv

\* All images go.
LEMMA ClearKeeps ==
    ASSUME ImageInv, ImageAssumption, Clear
    PROVE  ImageInv'
<1>1. PICK stay \in SUBSET DOMAIN images : /\ RemoveFiles(DOMAIN images, stay)
                                          /\ files' = Others(DOMAIN images, stay)
    BY DEF Clear
<1>2. /\ images' = EmptyFunction /\ hashIndex' = EmptyFunction /\ totalSize' = 0
      /\ released' = released \cup DOMAIN images
      /\ UNCHANGED <<clock, uploads, promised>>
    BY DEF Clear
<1>3. DOMAIN images' = {} /\ DOMAIN hashIndex' = {}
    BY <1>2 DEF EmptyFunction
<1>4. mishaps' \in Nat
    <2>1. mishaps' = mishaps + Cardinality(stay)
        BY <1>1 DEF RemoveFiles, Mishap
    <2>2. IsFiniteSet(stay)
        BY ImageFacts, FS_Subset
    <2> QED
        BY <2>1, <2>2, FS_CardinalityType DEF ImageInv, ImageTyped
<1>5. kept' \in BOOLEAN /\ (~kept' => ~kept /\ stay = {})
    BY <1>1 DEF RemoveFiles
<1>6. ImageTyped'
    <2>1. /\ Partial(images', 1 .. uploads, Image) /\ Partial(hashIndex', Pictures, IDs)
        BY <1>2 DEF EmptyFunction, Partial
    <2>2. Partial(files', 1 .. uploads, File)
        BY <1>1 DEF ImageInv, ImageTyped, Partial, Others, Only
    <2> QED
        BY <2>1, <2>2, <1>2, <1>4, <1>5 DEF ImageInv, ImageTyped
<1>7. Counted(images, hashIndex, totalSize)'
    <2>1. \A size : BytesOf(size, DOMAIN images') = {}
        BY <1>3 DEF BytesOf
    <2>2. Cardinality({}) = 0
        BY FS_EmptySet
    <2> QED
        BY <2>1, <2>2, <1>2, <1>3 DEF SpaceOf, Counted
<1>8. Stored(images, files, released)'
    BY <1>3 DEF Stored
<1>9. Owed(images, promised, released, clock)'
    BY <1>2, <1>3 DEF ImageInv, Owed
<1>10. ASSUME ~kept' PROVE WithinLimits(images, files, totalSize)'
    <2>1. DOMAIN files \subseteq DOMAIN images /\ stay = {}
        BY <1>5, <1>10 DEF ImageInv, WithinLimits
    <2>2. DOMAIN files' = {}
        BY <2>1, <1>1 DEF Others, Only
    <2>3. Cardinality(DOMAIN images') = 0
        BY <1>3, FS_EmptySet
    <2> QED
        BY <2>2, <2>3, <1>2 DEF WithinLimits, ImageAssumption
<1> QED
    BY <1>6, <1>7, <1>8, <1>9, <1>10 DEF ImageInv

\* Time goes on.
LEMMA ClockTickKeeps ==
    ASSUME ImageInv, ImageAssumption, ClockTick
    PROVE  ImageInv'
<1>1. clock' = clock + 1 /\ clock \in Nat /\ promised \in [IDs -> Nat]
      /\ UNCHANGED <<images, hashIndex, totalSize, files, uploads, mishaps, promised, released, kept>>
    BY DEF ClockTick, ImageInv, ImageTyped
<1>2. Owed(images, promised, released, clock)'
    <2>1. \A i \in IDs : clock + 1 <= promised[i] => clock <= promised[i]
        <3> TAKE i \in IDs
        <3>1. promised[i] \in Nat
            BY <1>1
        <3> QED
            BY <1>1, <3>1
    <2> QED
        BY <1>1, <2>1 DEF ImageInv, Owed
<1>3. ImageTyped'
    BY <1>1 DEF ImageInv, ImageTyped
<1> QED
    BY <1>1, <1>2, <1>3 DEF ImageInv

\* A file is removed behind the storage's back.
LEMMA RemovedByOthersKeeps ==
    ASSUME ImageInv, ImageAssumption, NEW i \in IDs, RemovedByOthers(i)
    PROVE  ImageInv'
<1>1. /\ files' = Without(files, i) /\ released' = released \cup {i} /\ mishaps' = mishaps + 1
      /\ UNCHANGED <<images, hashIndex, totalSize, clock, uploads, promised, kept>>
    BY DEF RemovedByOthers, Mishap
<1>2. DOMAIN files' = DOMAIN files \ {i} /\ \A j \in DOMAIN files' : files'[j] = files[j]
    BY <1>1 DEF Without
<1>3. Partial(files', 1 .. uploads, File)
    BY <1>1 DEF ImageInv, ImageTyped, Partial, Without
<1>4. ImageTyped'
    BY <1>1, <1>3 DEF ImageInv, ImageTyped
<1>5. Stored(images, files, released)' /\ Owed(images, promised, released, clock)'
    BY <1>1, <1>2 DEF ImageInv, Stored, Owed
<1>6. ~kept' => WithinLimits(images, files, totalSize)'
    BY <1>1, <1>2 DEF ImageInv, WithinLimits
<1> QED
    BY <1>1, <1>4, <1>5, <1>6 DEF ImageInv

\* What a start loads is typed.
LEMMA LoadedTyped ==
    ASSUME NEW n \in Nat, NEW left, Partial(left, 1 .. n, File), ImageAssumption
    PROVE  Partial(Loaded(left), 1 .. n, Image) /\ Partial(EmptyFunction, Pictures, IDs)
<1>1. \A i \in DOMAIN left : /\ left[i].content \in Pictures /\ left[i].mtime \in Nat
                              /\ left[i].mtime + TTL \in Nat
    BY DEF Partial, File, ImageAssumption
<1>2. DOMAIN Loaded(left) = DOMAIN left
    BY LoadingCounts
<1>3. \A i \in DOMAIN left : Loaded(left)[i] \in Image
    <2> TAKE i \in DOMAIN left
    <2>1. Loaded(left)[i] = [hash |-> 0, size |-> left[i].content, created |-> left[i].mtime,
                             expires |-> left[i].mtime + TTL]
        BY LoadingCounts
    <2> QED
        BY <1>1, <2>1 DEF Image
<1>4. Loaded(left) = [i \in DOMAIN left |-> Loaded(left)[i]]
    BY DEF Loaded
<1>5. Loaded(left) \in [DOMAIN left -> Image]
    BY <1>3, <1>4
<1> QED
    BY <1>2, <1>5 DEF Partial, EmptyFunction

\* The program starts again.
LEMMA RestartStorageKeeps ==
    ASSUME ImageInv, ImageAssumption, RestartStorage
    PROVE  ImageInv'
<1>1. /\ images' = Loaded(files) /\ hashIndex' = EmptyFunction /\ totalSize' = Sizes(files)
      /\ files' = files
      /\ released' = released \cup {i \in DOMAIN files : promised[i] # files[i].mtime + TTL}
      /\ mishaps' = mishaps + 1
      /\ UNCHANGED <<clock, uploads, promised, kept>>
    BY DEF RestartStorage, Load, Mishap
<1>2. /\ Counted(images, hashIndex, totalSize) /\ Stored(images, files, released)
      /\ Owed(images, promised, released, clock)
    BY DEF ImageInv
<1>3. Counted(Loaded(files), EmptyFunction, Sizes(files))
    BY LoadingCounts
<1>4. Owed(Loaded(files), promised, released', clock) /\ Stored(Loaded(files), files, released')
    <2>1. PICK rel : rel = released'
        OBVIOUS
    <2>2. /\ released \subseteq rel
          /\ \A i \in DOMAIN files : promised[i] # 0 /\ i \notin rel => promised[i] = files[i].mtime + TTL
        BY <1>1, <2>1
    <2>3. Owed(Loaded(files), promised, rel, clock) /\ Stored(Loaded(files), files, rel)
        BY <1>2, <2>2, LoadingOwes
    <2> QED
        BY <2>1, <2>3
<1>5. ~kept => WithinLimits(Loaded(files), files, Sizes(files))
    BY <1>2, ImageFacts, LoadingFits DEF ImageInv
<1>6. ImageTyped'
    <2>1. uploads \in Nat /\ Partial(files, 1 .. uploads, File)
        BY ImageFacts DEF ImageInv, ImageTyped
    <2>2. Partial(Loaded(files), 1 .. uploads, Image) /\ Partial(EmptyFunction, Pictures, IDs)
        BY <2>1, LoadedTyped
    <2> QED
        BY <2>1, <2>2, <1>1 DEF ImageInv, ImageTyped
<1> QED
    BY <1>1, <1>3, <1>4, <1>5, <1>6 DEF ImageInv

\* Only images make room.
LEMMA RoomIsMade ==
    ASSUME NEW c, NEW gone \in MakeRoom(c)
    PROVE  gone \subseteq DOMAIN images
BY DEF MakeRoom, Expired, Oldest

\* A new image, or none after what was to make room for it has gone.
LEMMA StoreNewKeeps ==
    ASSUME ImageInv, ImageAssumption, NEW c \in Pictures, StoreNew(c)
    PROVE  ImageInv'
<1> DEFINE id == uploads + 1
<1>1. PICK gone \in MakeRoom(c) : \E stay \in SUBSET gone :
          LET left == Others(gone, stay)
              added == With(left, id, [content |-> c, mtime |-> clock])
          IN
          \/ /\ RemoveFiles(gone, stay)
             /\ released' = released \cup (gone \ Expired)
             /\ IF CanAcceptUpload(c, gone)
                THEN /\ images' = With(Only(images, DOMAIN images \ gone), id, Entry(c, clock))
                     /\ hashIndex' = With(Unindex(gone), c, id)
                     /\ totalSize' = totalSize - Bytes(gone) + c
                     /\ files' = added
                     /\ promised' = [promised EXCEPT ![id] = clock + TTL]
                     /\ uploads' = id
                ELSE /\ images' = Only(images, DOMAIN images \ gone)
                     /\ hashIndex' = Unindex(gone)
                     /\ totalSize' = totalSize - Bytes(gone)
                     /\ files' = left
                     /\ UNCHANGED <<promised, uploads>>
          \/ /\ CanAcceptUpload(c, gone) /\ stay = {} /\ Mishap(1)
             /\ released' = released \cup (gone \ Expired)
             /\ images' = Only(images, DOMAIN images \ gone)
             /\ hashIndex' = Unindex(gone)
             /\ totalSize' = totalSize - Bytes(gone)
             /\ files' = left
             /\ UNCHANGED <<promised, uploads, kept>>
          \/ /\ CanAcceptUpload(c, gone) /\ stay = {} /\ Mishap(1)
             /\ images' = Loaded(added) /\ hashIndex' = EmptyFunction
             /\ totalSize' = Sizes(added) /\ files' = added
             /\ released' = released \cup (gone \ Expired)
                              \cup {i \in DOMAIN left : promised[i] # left[i].mtime + TTL}
             /\ uploads' = id
             /\ UNCHANGED <<promised, kept>>
    BY DEF StoreNew
<1>2. PICK stay \in SUBSET gone :
          LET left == Others(gone, stay)
              added == With(left, id, [content |-> c, mtime |-> clock])
          IN
          \/ /\ RemoveFiles(gone, stay)
             /\ released' = released \cup (gone \ Expired)
             /\ IF CanAcceptUpload(c, gone)
                THEN /\ images' = With(Only(images, DOMAIN images \ gone), id, Entry(c, clock))
                     /\ hashIndex' = With(Unindex(gone), c, id)
                     /\ totalSize' = totalSize - Bytes(gone) + c
                     /\ files' = added
                     /\ promised' = [promised EXCEPT ![id] = clock + TTL]
                     /\ uploads' = id
                ELSE /\ images' = Only(images, DOMAIN images \ gone)
                     /\ hashIndex' = Unindex(gone)
                     /\ totalSize' = totalSize - Bytes(gone)
                     /\ files' = left
                     /\ UNCHANGED <<promised, uploads>>
          \/ /\ CanAcceptUpload(c, gone) /\ stay = {} /\ Mishap(1)
             /\ released' = released \cup (gone \ Expired)
             /\ images' = Only(images, DOMAIN images \ gone)
             /\ hashIndex' = Unindex(gone)
             /\ totalSize' = totalSize - Bytes(gone)
             /\ files' = left
             /\ UNCHANGED <<promised, uploads, kept>>
          \/ /\ CanAcceptUpload(c, gone) /\ stay = {} /\ Mishap(1)
             /\ images' = Loaded(added) /\ hashIndex' = EmptyFunction
             /\ totalSize' = Sizes(added) /\ files' = added
             /\ released' = released \cup (gone \ Expired)
                              \cup {i \in DOMAIN left : promised[i] # left[i].mtime + TTL}
             /\ uploads' = id
             /\ UNCHANGED <<promised, kept>>
    BY <1>1
<1>3. PICK im, hx, total, left, rel :
          /\ im = Only(images, DOMAIN images \ gone) /\ hx = Unindex(gone)
          /\ total = totalSize - Bytes(gone) /\ left = Others(gone, stay)
          /\ rel = released \cup (gone \ Expired)
    OBVIOUS
<1>4. gone \subseteq DOMAIN images
    BY RoomIsMade
<1>5. /\ Counted(im, hx, total) /\ Stored(im, left, rel) /\ Owed(im, promised, rel, clock)
      /\ ~kept /\ stay = {} => WithinLimits(im, left, total)
      /\ Partial(im, 1 .. uploads, Image) /\ Partial(left, 1 .. uploads, File)
      /\ Partial(hx, Pictures, IDs)
      /\ total \in Nat
      /\ IsFiniteSet(DOMAIN im) /\ DOMAIN im = DOMAIN images \ gone
      /\ \A i \in DOMAIN im : im[i].size \in Nat
      /\ DOMAIN left \subseteq DOMAIN files
      /\ DOMAIN hx \subseteq DOMAIN hashIndex
    <2>1. Departs(gone, stay, rel, im, hx, total, left)
        BY <1>3, <1>4 DEF Departs
    <2> QED
        BY <2>1, DepartingKeeps
<1>6. /\ uploads < MaxUploads /\ clock' = clock
      /\ ~(c \in DOMAIN hashIndex /\ hashIndex[c] \in DOMAIN images)
    BY DEF StoreNew
<1>7. /\ id \in IDs /\ id \in Nat /\ id \in 0 .. MaxUploads /\ uploads \in Nat /\ uploads <= id
      /\ id \notin DOMAIN images /\ id \notin DOMAIN files /\ DOMAIN images \subseteq IDs
    BY <1>6, ImageFacts DEF IDs
<1>8. c \notin DOMAIN hx /\ c # 0 /\ c \in Nat /\ clock \in Nat /\ clock + TTL \in Nat
    BY <1>5, <1>6 DEF ImageInv, Counted, ImageTyped, ImageAssumption
<1>9. id \notin DOMAIN im /\ id \notin DOMAIN left
    BY <1>5, <1>7
<1>10. promised \in [IDs -> Nat] /\ promised[id] = 0 /\ DOMAIN im \subseteq IDs
    <2>1. promised[id] # 0 => id <= uploads
        BY <1>7 DEF ImageInv, ImageTyped
    <2> QED
        BY <2>1, <1>5, <1>7 DEF ImageInv, ImageTyped
<1>11. PICK e \in Image : e = Entry(c, clock)
    BY <1>8 DEF Entry, Image
<1>12. e.hash = c /\ e.size = c /\ e.expires = clock + TTL
    BY <1>11 DEF Entry
<1>13. PICK f \in File : f = [content |-> c, mtime |-> clock] /\ f.content = c /\ f.mtime = clock
    <2>1. [content |-> c, mtime |-> clock] \in File
        BY <1>8 DEF File
    <2> QED
        BY <2>1
<1>14. PICK added : added = With(left, id, f)
    OBVIOUS
<1>15. /\ Partial(added, 1 .. id, File) /\ Partial(left, 1 .. id, File) /\ Partial(im, 1 .. id, Image)
       /\ DOMAIN added = DOMAIN left \cup {id} /\ added[id] = f
       /\ \A i \in DOMAIN left : added[i] = left[i]
    <2>1. 1 .. uploads \subseteq 1 .. id /\ id \in 1 .. id
        BY <1>7
    <2>2. Partial(left, 1 .. id, File) /\ Partial(im, 1 .. id, Image)
        BY <1>5, <2>1 DEF Partial
    <2>3. /\ DOMAIN added = DOMAIN left \cup {id} /\ added[id] = f
          /\ \A i \in DOMAIN left : added[i] = left[i]
        BY <1>9, <1>14 DEF With
    <2>4. added \in [DOMAIN added -> File]
        BY <1>14, <2>2, <2>3 DEF With, Partial
    <2> QED
        BY <2>1, <2>2, <2>3, <2>4 DEF Partial
<1>16. CanAcceptUpload(c, gone) => Cardinality(DOMAIN im) < MaxImages /\ total + c <= MaxSize
    BY <1>3, <1>5 DEF CanAcceptUpload
<1>17. IsFiniteSet(stay) /\ Cardinality(stay) \in Nat /\ mishaps \in Nat
    <2>1. stay \in SUBSET DOMAIN images
        BY <1>4
    <2> QED
        BY <2>1, ImageFacts, FS_Subset, FS_CardinalityType DEF ImageInv, ImageTyped
<1>18. RemoveFiles(gone, stay) =>
           mishaps' \in Nat /\ kept' \in BOOLEAN /\ (~kept' => ~kept /\ stay = {})
    <2>1. RemoveFiles(gone, stay) => mishaps' = mishaps + Cardinality(stay)
        BY DEF RemoveFiles, Mishap
    <2>2. RemoveFiles(gone, stay) => mishaps' \in Nat
        BY <2>1, <1>17
    <2>3. RemoveFiles(gone, stay) => kept' \in BOOLEAN /\ (~kept' => ~kept /\ stay = {})
        BY DEF RemoveFiles
    <2> QED
        BY <2>2, <2>3
<1> HIDE DEF id
<1>19. CASE /\ RemoveFiles(gone, stay) /\ released' = rel
            /\ CanAcceptUpload(c, gone)
            /\ images' = With(im, id, e) /\ hashIndex' = With(hx, c, id)
            /\ totalSize' = total + c /\ files' = added
            /\ promised' = [promised EXCEPT ![id] = clock + TTL] /\ uploads' = id
    <2>1. Counted(With(im, id, e), With(hx, c, id), total + c)
        <3>1. Counted(With(im, id, e), With(hx, c, id), total + e.size)
            BY <1>5, <1>8, <1>9, <1>12, ComingCounts
        <3> QED
            BY <3>1, <1>12
    <2>2. Stored(With(im, id, e), added, rel)
        BY <1>5, <1>9, <1>12, <1>13, <1>14, ComingStores
    <2>3. Owed(With(im, id, e), promised', rel, clock)
        <3>1. Owed(With(im, id, e), [promised EXCEPT ![id] = e.expires], rel, clock)
            BY <1>5, <1>7, <1>10, ComingOwes
        <3> QED
            BY <3>1, <1>12, <1>19
    <2>4. mishaps' \in Nat /\ kept' \in BOOLEAN /\ (~kept' => ~kept /\ stay = {})
        BY <1>18, <1>19
    <2>5. ~kept' => WithinLimits(With(im, id, e), added, total + c)
        <3> SUFFICES ASSUME ~kept' PROVE WithinLimits(With(im, id, e), added, total + c)
            OBVIOUS
        <3>1. WithinLimits(im, left, total) /\ Cardinality(DOMAIN im) < MaxImages /\ total + c <= MaxSize
            BY <2>4, <1>5, <1>16, <1>19
        <3> QED
            BY <3>1, <1>5, <1>9, <1>14, ComingFits
    <2>6. /\ Partial(With(im, id, e), 1 .. id, Image) /\ Partial(With(hx, c, id), Pictures, IDs)
          /\ Partial(added, 1 .. id, File)
        <3>1. id \in 1 .. id
            BY <1>7 DEF id
        <3> QED
            BY <3>1, <1>5, <1>7, <1>15 DEF Partial, With
    <2>7. /\ promised' \in [IDs -> Nat] /\ \A i \in IDs : promised'[i] # 0 => i <= id
        <3>1. /\ promised' \in [IDs -> Nat] /\ \A i \in IDs : i # id => promised'[i] = promised[i]
            BY <1>8, <1>10, <1>19
        <3>2. \A i \in IDs : i \in Nat /\ (promised[i] # 0 => i <= uploads)
            BY DEF ImageInv, ImageTyped, IDs
        <3> QED
            BY <3>1, <3>2, <1>7
    <2>8. ImageTyped'
        BY <1>6, <1>7, <1>8, <1>19, <2>4, <2>6, <2>7 DEF ImageTyped
    <2> QED
        BY <1>6, <1>19, <2>1, <2>2, <2>3, <2>5, <2>8 DEF ImageInv
<1>20. ASSUME /\ released' = rel /\ mishaps' \in Nat /\ kept' \in BOOLEAN
              /\ ~kept' => ~kept /\ stay = {}
              /\ images' = im /\ hashIndex' = hx /\ totalSize' = total /\ files' = left
              /\ UNCHANGED <<promised, uploads>>
       PROVE  ImageInv'
    <2>1. ImageTyped'
        BY <1>5, <1>6, <1>20 DEF ImageInv, ImageTyped
    <2> QED
        BY <1>5, <1>6, <1>20, <2>1 DEF ImageInv
<1>21. CASE /\ CanAcceptUpload(c, gone) /\ stay = {} /\ Mishap(1)
            /\ images' = Loaded(added) /\ hashIndex' = EmptyFunction
            /\ totalSize' = Sizes(added) /\ files' = added
            /\ released' = rel \cup {i \in DOMAIN left : promised[i] # left[i].mtime + TTL}
            /\ uploads' = id
            /\ UNCHANGED <<promised, kept>>
    <2>1. Counted(Loaded(added), EmptyFunction, Sizes(added))
        BY LoadingCounts
    <2>2. Owed(Loaded(added), promised, released', clock) /\ Stored(Loaded(added), added, released')
        <3>1. PICK rel2 : rel2 = released'
            OBVIOUS
        <3>2. rel \subseteq rel2 /\ DOMAIN left \subseteq DOMAIN added
            BY <3>1, <1>15, <1>21
        <3>3. \A i \in DOMAIN added : promised[i] # 0 /\ i \notin rel2 => promised[i] = added[i].mtime + TTL
            BY <3>1, <1>10, <1>15, <1>21
        <3>4. Owed(Loaded(added), promised, rel2, clock) /\ Stored(Loaded(added), added, rel2)
            BY <3>2, <3>3, <1>5, LoadingOwes
        <3> QED
            BY <3>1, <3>4
    <2>3. ASSUME ~kept' PROVE WithinLimits(Loaded(added), added, Sizes(added))
        <3>1. WithinLimits(im, left, total)
            BY <1>5, <1>21, <2>3
        <3>2. /\ WithinLimits(Loaded(left), left, Sizes(left)) /\ Sizes(left) \in Nat /\ Sizes(left) <= total
            BY <3>1, <1>5, LoadingFits
        <3>3. /\ DOMAIN Loaded(left) = DOMAIN left /\ Sizes(left) = SpaceOf(Loaded(left), DOMAIN left)
              /\ Sizes(added) = SpaceOf(Loaded(added), DOMAIN added)
            BY LoadingCounts
        <3>4. IsFiniteSet(DOMAIN left) /\ DOMAIN left \in SUBSET DOMAIN im
            BY <3>1, <1>5, FS_Subset DEF WithinLimits
        <3>5. Cardinality(DOMAIN left) <= Cardinality(DOMAIN im) /\ Cardinality(DOMAIN left) \in Nat
              /\ Cardinality(DOMAIN im) \in Nat
            BY <3>4, <1>5, FS_Subset, FS_CardinalityType
        <3>6. PICK g : g = Loaded(added)[id]
            OBVIOUS
        <3>7. g.size = c /\ c \in Nat
            <4>1. g = [hash |-> 0, size |-> added[id].content, created |-> added[id].mtime,
                       expires |-> added[id].mtime + TTL]
                BY <3>6, <1>15, LoadingCounts
            <4> QED
                BY <4>1, <1>8, <1>13, <1>15
        <3>8. Loaded(added) = With(Loaded(left), id, g)
            <4>1. DOMAIN Loaded(added) = DOMAIN added /\ DOMAIN Loaded(left) = DOMAIN left
                BY LoadingCounts
            <4>2. ASSUME NEW i \in DOMAIN left PROVE Loaded(added)[i] = Loaded(left)[i]
                BY <1>15, LoadingCounts, ZenonT(40)
            <4>3. Loaded(added) = [i \in DOMAIN added |-> Loaded(added)[i]]
                BY DEF Loaded
            <4> QED
                BY <4>1, <4>2, <4>3, <3>6, <1>9, <1>15 DEF With
        <3>9. \A i \in DOMAIN Loaded(left) : Loaded(left)[i].size \in Nat
            <4>1. Partial(Loaded(left), 1 .. id, Image)
                BY <1>7, <1>15, LoadedTyped
            <4> QED
                BY <4>1 DEF Partial, Image, ImageAssumption
        <3>10. Sizes(added) = Sizes(left) + c
            <4>1. PICK ld : ld = Loaded(left)
                OBVIOUS
            <4>2. SpaceOf(With(ld, id, g), DOMAIN With(ld, id, g)) = SpaceOf(ld, DOMAIN ld) + g.size
                BY <4>1, <3>3, <3>4, <3>7, <3>9, <1>9, SpaceAdds
            <4>3. DOMAIN With(ld, id, g) = DOMAIN added
                BY <4>1, <3>3, <1>15 DEF With
            <4> QED
                BY <4>1, <4>2, <4>3, <3>3, <3>7, <3>8
        <3>11. Cardinality(DOMAIN left) < MaxImages /\ Sizes(left) + c <= MaxSize
            <4>1. Cardinality(DOMAIN im) < MaxImages /\ total + c <= MaxSize
                BY <1>16, <1>21
            <4>2. MaxImages \in Nat /\ MaxSize \in Nat
                BY DEF ImageAssumption
            <4> QED
                BY <4>1, <4>2, <3>2, <3>5, <1>5, <1>8
        <3>12. PICK ld : ld = Loaded(left)
            OBVIOUS
        <3>13. PICK more \in Nat : more = Sizes(left) + c
            BY <3>2, <1>8
        <3>14. WithinLimits(With(ld, id, g), With(left, id, f), more)
            <4>1. /\ WithinLimits(ld, left, Sizes(left)) /\ IsFiniteSet(DOMAIN ld) /\ id \notin DOMAIN ld
                  /\ Cardinality(DOMAIN ld) < MaxImages /\ more <= MaxSize
                BY <3>2, <3>3, <3>4, <3>11, <3>12, <3>13, <1>9
            <4> QED
                BY <4>1, <3>2, ComingFits
        <3> QED
            BY <3>8, <3>10, <3>12, <3>13, <3>14, <1>14
    <2>4. ImageTyped'
        <3>1. Partial(Loaded(added), 1 .. id, Image) /\ Partial(EmptyFunction, Pictures, IDs)
            BY <1>7, <1>15, LoadedTyped
        <3>2. mishaps' \in Nat
            BY <1>17, <1>21 DEF Mishap
        <3>3. \A i \in IDs : promised[i] # 0 => i <= id
            <4>1. \A i \in IDs : i \in Nat /\ (promised[i] # 0 => i <= uploads)
                BY DEF ImageInv, ImageTyped, IDs
            <4> QED
                BY <4>1, <1>7
        <3> QED
            BY <3>1, <3>2, <3>3, <1>6, <1>7, <1>8, <1>10, <1>15, <1>21 DEF ImageInv, ImageTyped
    <2> QED
        BY <1>6, <1>21, <2>1, <2>2, <2>3, <2>4 DEF ImageInv
<1>22. CASE /\ RemoveFiles(gone, stay) /\ released' = rel
            /\ images' = im /\ hashIndex' = hx /\ totalSize' = total /\ files' = left
            /\ UNCHANGED <<promised, uploads>>
    <2>1. mishaps' \in Nat /\ kept' \in BOOLEAN /\ (~kept' => ~kept /\ stay = {})
        BY <1>18, <1>22
    <2> QED
        BY <1>20, <1>22, <2>1
<1>23. CASE /\ stay = {} /\ Mishap(1) /\ released' = rel
            /\ images' = im /\ hashIndex' = hx /\ totalSize' = total /\ files' = left
            /\ UNCHANGED <<promised, uploads, kept>>
    <2>1. mishaps' \in Nat /\ kept' \in BOOLEAN /\ (~kept' => ~kept /\ stay = {})
        BY <1>17, <1>23 DEF Mishap, ImageInv, ImageTyped
    <2> QED
        BY <1>20, <1>23, <2>1
<1>24. \/ /\ RemoveFiles(gone, stay) /\ released' = rel /\ CanAcceptUpload(c, gone)
          /\ images' = With(im, id, e) /\ hashIndex' = With(hx, c, id)
          /\ totalSize' = total + c /\ files' = added
          /\ promised' = [promised EXCEPT ![id] = clock + TTL] /\ uploads' = id
       \/ /\ RemoveFiles(gone, stay) /\ released' = rel
          /\ images' = im /\ hashIndex' = hx /\ totalSize' = total /\ files' = left
          /\ UNCHANGED <<promised, uploads>>
       \/ /\ stay = {} /\ Mishap(1) /\ released' = rel
          /\ images' = im /\ hashIndex' = hx /\ totalSize' = total /\ files' = left
          /\ UNCHANGED <<promised, uploads, kept>>
       \/ /\ CanAcceptUpload(c, gone) /\ stay = {} /\ Mishap(1)
          /\ images' = Loaded(added) /\ hashIndex' = EmptyFunction
          /\ totalSize' = Sizes(added) /\ files' = added
          /\ released' = rel \cup {i \in DOMAIN left : promised[i] # left[i].mtime + TTL}
          /\ uploads' = id
          /\ UNCHANGED <<promised, kept>>
    BY <1>2, <1>3, <1>11, <1>13, <1>14, Zenon DEF id
<1> QED
    BY <1>19, <1>21, <1>22, <1>23, <1>24

-----------------------------------------------------------------------------
\* The images: the theorems.

\* Every step keeps the invariant.
LEMMA ImageStep == ImageAssumption /\ ImageInv /\ [ImageNext]_imageVars => ImageInv'
<1> SUFFICES ASSUME ImageAssumption, ImageInv, [ImageNext]_imageVars PROVE ImageInv'
    OBVIOUS
<1>1. CASE UNCHANGED imageVars
    BY <1>1 DEF imageVars, ImageInv, ImageTyped
<1>2. ASSUME NEW c \in Pictures, HandleUpload(c) PROVE ImageInv'
    BY <1>2, StoreDuplicateKeeps, StoreNewKeeps DEF HandleUpload
<1>3. ASSUME NEW i \in IDs, HandleDelete(i) \/ RemovedByOthers(i) PROVE ImageInv'
    BY <1>3, DeleteKeeps, RemovedByOthersKeeps DEF HandleDelete
<1>4. CASE HandleClearImages \/ CleanupImages \/ ClockTick \/ RestartStorage
    BY <1>4, ClearKeeps, CleanupImagesKeeps, ClockTickKeeps, RestartStorageKeeps DEF HandleClearImages
<1> QED
    BY <1>1, <1>2, <1>3, <1>4 DEF ImageNext

\* For any pictures, limits and number of uploads: the cached total is the sum, the
\* index leads to the images and back, an entry that was not released has its file
\* and lives as long as was promised.
THEOREM ImageInvariance == ImageSpec => []ImageInv
<1> USE ImageAssumption
<1>1. ImageInit => ImageInv
    BY ImagesStart
<1>2. ImageInv /\ [ImageNext]_imageVars => ImageInv'
    BY ImageStep
<1> QED
    BY <1>1, <1>2, PTL DEF ImageSpec

\* An uploaded image is there until the time its phone was told, and the entries,
\* the index, the total and the folder's limits agree with the files, through
\* uploads of the same content, failing writes, removals and restarts.
THEOREM UploadsStayKept == ImageSpec => []UploadsAreKept
<1> USE ImageAssumption
<1>1. ImageInv => UploadsAreKept
    <2> SUFFICES ASSUME ImageInv PROVE KeptAsPromised /\ StorageAddsUp
        BY DEF UploadsAreKept
    <2>1. KeptAsPromised
        BY DEF ImageInv, Owed, Stored, KeptAsPromised
    <2>2. totalSize = Bytes(DOMAIN images)
        BY ImageFacts DEF ImageInv, Counted
    <2>3. ASSUME ~kept PROVE Cardinality(DOMAIN files) <= MaxImages /\ Sizes(files) <= MaxSize
        <3>1. WithinLimits(images, files, totalSize)
            BY <2>3 DEF ImageInv
        <3>2. WithinLimits(Loaded(files), files, Sizes(files))
            BY <3>1, ImageFacts, LoadingFits DEF ImageInv
        <3>3. DOMAIN Loaded(files) = DOMAIN files
            BY LoadingCounts
        <3> QED
            BY <3>2, <3>3 DEF WithinLimits
    <2> QED
        BY <2>1, <2>2, <2>3 DEF ImageInv, Counted, StorageAddsUp
<1> QED
    BY <1>1, ImageInvariance, PTL
=============================================================================
