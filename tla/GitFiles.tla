------------------------------- MODULE GitFiles -------------------------------
(***************************************************************************)
(* The files of one git repository as cdev's clients change them, and the  *)
(* feed that tells the clients about it.                                   *)
(*                                                                         *)
(* A repository keeps three copies of each file: the one of the last       *)
(* commit (head), the staged one (index) and the one in the working tree   *)
(* (work).  Tracker runs one git command after another for a call, takes   *)
(* no lock and keeps no state between commands, so the calls of several    *)
(* clients interleave between commands, with each other and with whoever   *)
(* edits the working tree.  Every call enters through one of three doors:  *)
(* workspace/git/* (SessionManagerService over session.Manager), git/*     *)
(* (GitService over GitProviderAdapter) and the HTTP API.  The last runs   *)
(* its commands under the context of the request, which ends when the      *)
(* client hangs up or after ten seconds, and publishes the status itself.  *)
(*                                                                         *)
(* The feed: watchGitIndex watches .git, waits half a second after the     *)
(* last change, and reads and publishes the status at most once a second.  *)
(***************************************************************************)
EXTENDS FiniteSets, Naturals

CONSTANTS
    Files,      \* the paths the calls name
    Contents,   \* what a file may contain
    Absent,     \* no such file
    Clients,    \* who calls
    Watchers,   \* the reports of watchGitIndex that may be under way at once
    MaxCalls    \* bound: calls and edits of the working tree

VARIABLES
    head, index, work,   \* each file: in the last commit, staged, on disk
    born,                \* there is a first commit
    lock,                \* .git/index.lock was left behind
    call,                \* each client's call: the command it runs next
    alone,               \* nobody else changed the repository since the call began
    settling,            \* the watcher still waits for the start to settle
    dirty,               \* a change of .git the watcher has not received
    timer,               \* the debounce timer runs
    recent,              \* the last report of the watcher is less than a second old
    report,              \* the reports under way
    told,                \* the staged files as the clients were last told
    excused,             \* history: a change was dropped, or two reports overlapped
    calls                \* how many calls and edits there were

repo == <<head, index, work, born>>
feed == <<settling, timer, recent, report, told, excused>>
vars == <<repo, lock, call, alone, dirty, feed, calls>>

Copies == Contents \cup {Absent}
Reporters == Clients \cup Watchers

\* A call: its command, the paths, what Discard set aside for each of its three
\* commands, whether one failed, whether it came over HTTP and its client hung up.
Idle == [at |-> "idle", op |-> "none", paths |-> {}, reset |-> {}, checkout |-> {}, remove |-> {},
         failed |-> FALSE, http |-> FALSE, gone |-> FALSE, answer |-> "none"]

\* The commands that take .git/index.lock.
Writing == {"stage", "resetHead", "rmCached", "discardReset", "discardCheckout", "commit"}

NoReport == [at |-> "none", staged |-> {}, late |-> FALSE]

\* --- What git status says ------------------------------------------------

\* The two letters of `git status --porcelain`: index against head, work against index.
IndexStatus(f) ==
    IF index[f] = head[f] THEN " " ELSE IF index[f] = Absent THEN "D" ELSE IF head[f] = Absent THEN "A" ELSE "M"
WorktreeStatus(f) ==
    IF index[f] = Absent \/ work[f] = index[f] THEN " " ELSE IF work[f] = Absent THEN "D" ELSE "M"

\* A file on disk that the index does not hold has a line of its own, "??", after
\* the tracked ones: a file removed from the index only has two lines.
Untracked(f) == index[f] = Absent /\ work[f] # Absent

\* The categories of GetEnhancedStatus.
Staged == {f \in Files : IndexStatus(f) # " "}
Unstaged == {f \in Files : WorktreeStatus(f) # " "}
Listed == Staged \cup Unstaged \cup {f \in Files : Untracked(f)}

\* Discard's map from path to letters keeps the last line of a path.
FileStatus(f) == IF Untracked(f) THEN <<"?", "?">> ELSE <<IndexStatus(f), WorktreeStatus(f)>>

\* --- Steps and what they disturb ------------------------------------------

\* A step of client c's call: the watcher sees a change of .git, and the calls of
\* the others are no longer alone with the repository.
By(c) ==
    /\ dirty' = (dirty \/ <<head, index, born>>' # <<head, index, born>>)
    /\ alone' = [d \in Clients |-> call[d].at = "idle" \/ (alone[d] /\ (d = c \/ repo' = repo))]
    /\ UNCHANGED <<feed, calls>>

\* A command finds index.lock: one left behind, or another command's.
Refused(c) == \/ lock
              \/ call[c].gone
              \/ \E d \in Clients \ {c} : call[d].at \in Writing
Runs(c) == ~lock /\ ~call[c].gone

Goto(c, at) == call' = [call EXCEPT ![c].at = at]
Answer(c, a) == call' = [call EXCEPT ![c].at = "answered", ![c].answer = a]

\* --- The doors --------------------------------------------------------------

BeginCall(c, op, at, ps, http) ==
    /\ calls < MaxCalls /\ calls' = calls + 1
    /\ call[c].at = "idle"
    /\ call' = [call EXCEPT ![c] = [Idle EXCEPT !.op = op, !.at = at, !.paths = ps, !.http = http]]
    /\ alone' = [alone EXCEPT ![c] = TRUE]
    /\ UNCHANGED <<repo, lock, dirty, feed>>

\* workspace/git/*: the session manager finds the workspace's tracker and calls it
\* under its own context.
ManagerGit(c, op, at, ps) == BeginCall(c, op, at, ps, FALSE)
WorkspaceGitStage(c, ps) == ps # {} /\ ManagerGit(c, "stage", "stage", ps)
WorkspaceGitUnstage(c, ps) == ps # {} /\ ManagerGit(c, "unstage", "revParse", ps)
WorkspaceGitDiscard(c, ps) == ps # {} /\ ManagerGit(c, "discard", "status", ps)
WorkspaceGitCommit(c) == ManagerGit(c, "commit", "anyStaged", {})
WorkspaceGitDiff(c, f) == ManagerGit(c, "diff", "diff", {f})

\* git/*: the same commands through GitProviderAdapter.
GitProvider(c, op, at, ps) == BeginCall(c, op, at, ps, FALSE)
GitServiceStage(c, ps) == ps # {} /\ GitProvider(c, "stage", "stage", ps)
GitServiceUnstage(c, ps) == ps # {} /\ GitProvider(c, "unstage", "revParse", ps)
GitServiceDiscard(c, ps) == ps # {} /\ GitProvider(c, "discard", "status", ps)
GitServiceCommit(c) == GitProvider(c, "commit", "anyStaged", {})
GitServiceDiff(c, f) == GitProvider(c, "diff", "diff", {f})

\* The HTTP API.
HandleGitStage(c, ps) == ps # {} /\ BeginCall(c, "stage", "stage", ps, TRUE)
HandleGitUnstage(c, ps) == ps # {} /\ BeginCall(c, "unstage", "revParse", ps, TRUE)
HandleGitDiscard(c, ps) == ps # {} /\ BeginCall(c, "discard", "status", ps, TRUE)
HandleGitCommit(c) == BeginCall(c, "commit", "anyStaged", {}, TRUE)
HandleGitDiff(c, f) == BeginCall(c, "diff", "diff", {f}, TRUE)

Request(c) ==
    \/ \E ps \in SUBSET Files :
          \/ WorkspaceGitStage(c, ps) \/ GitServiceStage(c, ps) \/ HandleGitStage(c, ps)
          \/ WorkspaceGitUnstage(c, ps) \/ GitServiceUnstage(c, ps) \/ HandleGitUnstage(c, ps)
          \/ WorkspaceGitDiscard(c, ps) \/ GitServiceDiscard(c, ps) \/ HandleGitDiscard(c, ps)
    \/ WorkspaceGitCommit(c) \/ GitServiceCommit(c) \/ HandleGitCommit(c)
    \/ \E f \in Files : WorkspaceGitDiff(c, f) \/ GitServiceDiff(c, f) \/ HandleGitDiff(c, f)

\* The client of an HTTP call hangs up, or its ten seconds are over: the running
\* command is killed, with or without index.lock in place, and the later ones do
\* not run.
HangUp(c) ==
    /\ call[c].http /\ ~call[c].gone /\ call[c].at \in Writing
    /\ call' = [call EXCEPT ![c].gone = TRUE]
    /\ lock' \in {lock, TRUE}
    /\ UNCHANGED <<repo, alone, dirty, feed, calls>>

\* --- git add, git reset, git rm --cached, git commit -------------------------

Stage(c) ==
    /\ call[c].at = "stage"
    /\ LET ps == call[c].paths
           unknown == {f \in ps : index[f] = Absent /\ work[f] = Absent}
       IN  \/ /\ Runs(c) /\ unknown = {}
              /\ index' = [f \in Files |-> IF f \in ps THEN work[f] ELSE index[f]]
              /\ Answer(c, "ok")
           \/ /\ Refused(c) \/ unknown # {}
              /\ Answer(c, "error")
              /\ UNCHANGED index
    /\ UNCHANGED <<head, work, born, lock>> /\ By(c)

\* Unstage looks for a first commit, then resets or removes from the index.
UnstageLook(c) ==
    /\ call[c].at = "revParse"
    /\ Goto(c, IF born THEN "resetHead" ELSE "rmCached")
    /\ UNCHANGED <<repo, lock>> /\ By(c)

Reset(ps) == index' = [f \in Files |-> IF f \in ps THEN head[f] ELSE index[f]]

UnstageReset(c) ==
    /\ call[c].at = "resetHead"
    /\ \/ Runs(c) /\ Reset(call[c].paths) /\ Answer(c, "ok")
       \/ Refused(c) /\ Answer(c, "error") /\ UNCHANGED index
    /\ UNCHANGED <<head, work, born, lock>> /\ By(c)

\* git rm --cached refuses as a whole a path the index does not hold, and a path
\* staged with something that is neither in the commit nor on disk.
UnstageRemove(c) ==
    /\ call[c].at = "rmCached"
    /\ LET ps == call[c].paths
           bad == {f \in ps : \/ index[f] = Absent
                              \/ index[f] # head[f] /\ work[f] \notin {index[f], Absent}}
       IN  \/ /\ Runs(c) /\ bad = {}
              /\ index' = [f \in Files |-> IF f \in ps THEN Absent ELSE index[f]]
              /\ Answer(c, "ok")
           \/ /\ Refused(c) \/ bad # {}
              /\ Answer(c, "error")
              /\ UNCHANGED index
    /\ UNCHANGED <<head, work, born, lock>> /\ By(c)

\* Commit looks for staged files, then commits whatever is staged by then.
CommitLook(c) ==
    /\ call[c].at = "anyStaged"
    /\ IF Staged = {} THEN Answer(c, "error") ELSE Goto(c, "commit")
    /\ UNCHANGED <<repo, lock>> /\ By(c)

Commit(c) ==
    /\ call[c].at = "commit"
    /\ \/ Runs(c) /\ Staged # {} /\ head' = index /\ born' = TRUE /\ Answer(c, "ok")
       \/ (Refused(c) \/ Staged = {}) /\ Answer(c, "error") /\ UNCHANGED <<head, born>>
    /\ UNCHANGED <<index, work, lock>> /\ By(c)

\* --- Discard: status, reset, checkout, remove --------------------------------

\* Mutant of DiscardLook: only paths that differ from the index are checked out.
DiscardLookUnstaged(c) ==
    /\ call[c].at = "status"
    /\ LET ps == {f \in call[c].paths : f \in Listed}
           untracked == {f \in ps : FileStatus(f) = <<"?", "?">>}
           staged == {f \in ps \ untracked : FileStatus(f)[1] # " "}
       IN  call' = [call EXCEPT ![c].at = "discardReset", ![c].reset = staged,
                                ![c].checkout = (ps \ untracked) \cap Unstaged, ![c].remove = untracked]
    /\ UNCHANGED <<repo, lock>> /\ By(c)

\* Discard sorts the paths by the letters it read.
DiscardLook(c) ==
    /\ call[c].at = "status"
    /\ LET ps == {f \in call[c].paths : f \in Listed}
           st(f) == FileStatus(f)
           untracked == {f \in ps : st(f) = <<"?", "?">>}
           staged == {f \in ps \ untracked : st(f)[1] # " "}
       IN  call' = [call EXCEPT ![c].at = "discardReset", ![c].reset = staged,
                                ![c].checkout = ps \ untracked, ![c].remove = untracked]
    /\ UNCHANGED <<repo, lock>> /\ By(c)

\* An error of a command does not keep the next one from running.
DiscardReset(c) ==
    /\ call[c].at = "discardReset"
    /\ LET ps == call[c].reset
           next(failed) == call' = [call EXCEPT ![c].at = "discardCheckout", ![c].failed = failed]
       IN  \/ ps = {} /\ next(FALSE) /\ UNCHANGED index
           \/ ps # {} /\ Runs(c) /\ born /\ Reset(ps) /\ next(FALSE)
           \/ ps # {} /\ (Refused(c) \/ ~born) /\ next(TRUE) /\ UNCHANGED index
    /\ UNCHANGED <<head, work, born, lock>> /\ By(c)

\* git checkout -- <paths> restores from the index, all of them or, when the index
\* does not hold one, none.
DiscardCheckout(c) ==
    /\ call[c].at = "discardCheckout"
    /\ LET ps == call[c].checkout
           unknown == {f \in ps : index[f] = Absent}
           next(failed) == call' = [call EXCEPT ![c].at = "discardRemove", ![c].failed = @ \/ failed]
       IN  \/ ps = {} /\ next(FALSE) /\ UNCHANGED work
           \/ /\ ps # {} /\ Runs(c) /\ unknown = {} /\ next(FALSE)
              /\ work' = [f \in Files |-> IF f \in ps THEN index[f] ELSE work[f]]
           \/ ps # {} /\ (Refused(c) \/ unknown # {}) /\ next(TRUE) /\ UNCHANGED work
    /\ UNCHANGED <<head, index, born, lock>> /\ By(c)

\* os.Remove takes no lock and knows of no context.
DiscardRemove(c) ==
    /\ call[c].at = "discardRemove"
    /\ LET gone == {f \in call[c].remove : work[f] = Absent} IN
          /\ work' = [f \in Files |-> IF f \in call[c].remove THEN Absent ELSE work[f]]
          /\ Answer(c, IF call[c].failed \/ gone # {} THEN "error" ELSE "ok")
    /\ UNCHANGED <<head, index, born, lock>> /\ By(c)

\* --- Diff: unstaged, else staged, else the whole file as new ------------------

Diff(c) ==
    /\ call[c].at = "diff"
    /\ IF call[c].paths \subseteq Unstaged THEN Answer(c, "unstaged") ELSE Goto(c, "diffStaged")
    /\ UNCHANGED <<repo, lock>> /\ By(c)
DiffStaged(c) ==
    /\ call[c].at = "diffStaged"
    /\ IF call[c].paths \subseteq Staged THEN Answer(c, "staged") ELSE Goto(c, "diffNewFile")
    /\ UNCHANGED <<repo, lock>> /\ By(c)
DiffNewFile(c) ==
    /\ call[c].at = "diffNewFile"
    /\ Answer(c, IF \E f \in call[c].paths : work[f] # Absent THEN "new" ELSE "error")
    /\ UNCHANGED <<repo, lock>> /\ By(c)

\* The answer goes out; over HTTP a successful change is reported by a goroutine
\* of its own.
Respond(c) ==
    /\ call[c].at = "answered"
    /\ call' = [call EXCEPT ![c] = Idle]
    /\ alone' = [alone EXCEPT ![c] = TRUE]
    /\ IF call[c].http /\ call[c].answer = "ok"
       THEN report[c] = NoReport /\ report' = [report EXCEPT ![c].at = "owed"]
       ELSE UNCHANGED report
    /\ UNCHANGED <<repo, lock, dirty, settling, timer, recent, told, excused, calls>>

\* --- The feed ---------------------------------------------------------------

\* A change is dropped: a status read before says nothing of it.
Dropped ==
    /\ excused' = TRUE
    /\ report' = [r \in Reporters |-> [report[r] EXCEPT !.late = @ \/ report[r].at = "read"]]

\* After two seconds the watcher throws away what it finds in its channel.
Settle ==
    /\ settling /\ settling' = FALSE
    /\ dirty' \in {dirty, FALSE}
    /\ IF dirty /\ ~dirty' THEN Dropped ELSE UNCHANGED <<report, excused>>
    /\ UNCHANGED <<repo, lock, call, alone, timer, recent, told, calls>>

\* Mutant of WatchGitIndex: a change stops the timer and starts it only when none ran.
WatchStopsTimer ==
    /\ ~settling /\ dirty
    /\ dirty' = FALSE /\ timer' = ~timer
    /\ UNCHANGED <<repo, lock, call, alone, settling, recent, report, told, excused, calls>>

WatchGitIndex ==
    /\ ~settling /\ dirty
    /\ dirty' = FALSE /\ timer' = TRUE
    /\ UNCHANGED <<repo, lock, call, alone, settling, recent, report, told, excused, calls>>

\* The timer fires: within a second of the last report the change is dropped.
Throttle ==
    /\ timer /\ recent
    /\ timer' = FALSE /\ Dropped
    /\ UNCHANGED <<repo, lock, call, alone, dirty, settling, recent, told, calls>>
Fire(w) ==
    /\ timer /\ ~recent /\ report[w] = NoReport
    /\ timer' = FALSE /\ recent' = TRUE
    /\ report' = [report EXCEPT ![w].at = "owed"]
    /\ UNCHANGED <<repo, lock, call, alone, dirty, settling, told, excused, calls>>
SecondPasses ==
    /\ recent /\ recent' = FALSE
    /\ UNCHANGED <<repo, lock, call, alone, dirty, settling, timer, report, told, excused, calls>>

\* A report reads the status, then publishes it.
EmitGitStatusChanged(r) ==
    /\ report[r].at = "owed"
    /\ LET others == {q \in Reporters : report[q].at = "read"} IN
          report' = [q \in Reporters |->
                        IF q = r THEN [at |-> "read", staged |-> Staged, late |-> others # {}]
                        ELSE [report[q] EXCEPT !.late = @ \/ q \in others]]
    /\ UNCHANGED <<repo, lock, call, alone, dirty, settling, timer, recent, told, excused, calls>>
PublishGitStatusChanged(r) ==
    /\ report[r].at = "read"
    /\ told' = report[r].staged
    /\ excused' = report[r].late
    /\ report' = [report EXCEPT ![r] = NoReport]
    /\ UNCHANGED <<repo, lock, call, alone, dirty, settling, timer, recent, calls>>

\* --- The system ---------------------------------------------------------------

\* Someone edits a file: Claude, or the user.
Edit(f, v) ==
    /\ calls < MaxCalls /\ calls' = calls + 1
    /\ work[f] # v /\ work' = [work EXCEPT ![f] = v]
    /\ alone' = [d \in Clients |-> call[d].at = "idle"]
    /\ UNCHANGED <<head, index, born, lock, call, dirty, feed>>

\* cdev may be started on a repository in any state.
Init ==
    /\ head \in [Files -> Copies] /\ index \in [Files -> Copies] /\ work \in [Files -> Copies]
    /\ born \in BOOLEAN /\ (~born => head = [f \in Files |-> Absent])
    /\ lock = FALSE
    /\ call = [c \in Clients |-> Idle] /\ alone = [c \in Clients |-> TRUE]
    /\ settling = TRUE /\ dirty = FALSE /\ timer = FALSE /\ recent = FALSE
    /\ report = [r \in Reporters |-> NoReport]
    /\ told = Staged /\ excused = FALSE
    /\ calls = 0

Step(c) ==
    \/ Stage(c)
    \/ UnstageLook(c) \/ UnstageReset(c) \/ UnstageRemove(c)
    \/ CommitLook(c) \/ Commit(c)
    \/ DiscardLook(c) \/ DiscardReset(c) \/ DiscardCheckout(c) \/ DiscardRemove(c)
    \/ Diff(c) \/ DiffStaged(c) \/ DiffNewFile(c)
    \/ Respond(c)

Next ==
    \/ \E c \in Clients : Request(c) \/ Step(c) \/ HangUp(c)
    \/ Settle \/ WatchGitIndex \/ Throttle \/ SecondPasses
    \/ \E w \in Watchers : Fire(w)
    \/ \E r \in Reporters : EmitGitStatusChanged(r) \/ PublishGitStatusChanged(r)
    \/ \E f \in Files, v \in Copies : Edit(f, v)

Spec == Init /\ [][Next]_vars

\* --- Properties -----------------------------------------------------------------

TypeOK ==
    /\ head \in [Files -> Copies] /\ index \in [Files -> Copies] /\ work \in [Files -> Copies]
    /\ born \in BOOLEAN /\ lock \in BOOLEAN
    /\ DOMAIN call = Clients /\ alone \in [Clients -> BOOLEAN]
    /\ \A c \in Clients : call[c].paths \cup call[c].reset \cup call[c].checkout \cup call[c].remove \subseteq Files
    /\ dirty \in BOOLEAN /\ settling \in BOOLEAN /\ timer \in BOOLEAN /\ recent \in BOOLEAN
    /\ report \in [Reporters -> [at : {"none", "owed", "read"}, staged : SUBSET Files, late : BOOLEAN]]
    /\ told \subseteq Files /\ excused \in BOOLEAN

Answered(c, op, a) == call[c].at = "answered" /\ call[c].op = op /\ call[c].answer = a /\ alone[c]

\* A Discard that answers success and had the repository to itself has put every
\* path it was given back to the last commit, whichever of the copies differed.
\* The exception is a path removed from the index that is on disk again: git lists
\* it twice, Discard's map keeps the second line, and the file is deleted.
DiscardRestores ==
    \A c \in Clients : Answered(c, "discard", "ok") =>
        \A f \in call[c].paths :
            \/ index[f] = head[f] /\ work[f] = head[f]
            \/ f \in call[c].remove /\ head[f] # Absent

\* An Unstage that answers success and had the repository to itself leaves nothing
\* of its paths staged, with or without a first commit.
UnstageClears ==
    \A c \in Clients : Answered(c, "unstage", "ok") => call[c].paths \cap Staged = {}

\* A Diff that had the repository to itself shows, for a file the status lists,
\* the change the status lists it for.
DiffShowsTheChange ==
    \A c \in Clients, a \in {"unstaged", "staged", "new", "error"} :
        Answered(c, "diff", a) =>
            \A f \in call[c].paths \cap Listed :
                a = (IF f \in Unstaged THEN "unstaged" ELSE IF f \in Staged THEN "staged" ELSE "new")

\* When nothing is under way any more, what the clients were last told is what is
\* staged: whatever order the changes, the timer and the reports came in.  It is
\* excused when the throttle or the start dropped a change since, and when two
\* reports overlapped, which may be published in either order.
FeedCatchesUp ==
    (/\ ~settling /\ ~dirty /\ ~timer /\ ~excused
     /\ \A r \in Reporters : report[r] = NoReport) => told = Staged
\* A command of a client that had the repository to itself did what its answer
\* says: discarded files are as committed, unstaged ones unstaged, and the diff
\* shows the change the status lists.
AnswersHold == DiscardRestores /\ UnstageClears /\ DiffShowsTheChange
=============================================================================
