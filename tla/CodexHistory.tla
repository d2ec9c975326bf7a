---------------------------- MODULE CodexHistory ----------------------------
(***************************************************************************)
(* The list of past Codex sessions.  Codex appends to one rollout file per *)
(* session; IndexCache walks the directory at most every 30 seconds, or    *)
(* when it is told to, parses the files whose modification time differs    *)
(* from the one it knows and answers every list and every look-up by ID    *)
(* from what it found.  Its mutex is held through the whole walk, but      *)
(* Codex writes, and deletions remove files, without asking for it.        *)
(*                                                                         *)
(* A rollout is its version: 0 is no file, 1 a file that does not say yet  *)
(* which directory it belongs to; each write gives it another millisecond. *)
(***************************************************************************)
EXTENDS Naturals

CONSTANTS
    Rollouts,
    Askers,          \* calls that use the index
    NoOne,
    MaxRolloutWrites, \* bound: writes to rollouts
    MaxUses,         \* bound: calls of the index
    MaxLapses        \* bound: times the 30 seconds pass

ASSUME AskersAssumption == NoOne \notin Askers

VARIABLES
    rollout,         \* the file's version
    rolloutWrites,
    unlinked,        \* rollouts that were removed: their names do not come back
    fileEntryCache,  \* what is known of the file: the version it was opened at, the one read
    projectIndex,    \* the same, as listed
    lastScan,        \* "now" | "stale"
    lapses,
    holder,          \* who holds IndexCache.mu
    asking,
    uses,
    withdrawn        \* history: rollouts a deletion has taken off the index

codexHistoryVars == <<rollout, rolloutWrites, unlinked, fileEntryCache, projectIndex, lastScan, lapses, holder,
                      asking, uses, withdrawn>>

Unknown == [mtime |-> 0, read |-> 0]
Nothing == [r \in Rollouts |-> Unknown]
Present == {r \in Rollouts : rollout[r] # 0}
Resting == [op |-> "none", at |-> "idle", r |-> NoOne, file |-> NoOne, todo |-> {}, seen |-> {}, mtime |-> 0, found |-> Nothing,
            had |-> [r \in Rollouts |-> 0]]

\* --- The files ---------------------------------------------------------------

\* Codex appends to a rollout, or starts one.
WriteRollout(r) ==
    /\ r \notin unlinked /\ rolloutWrites < MaxRolloutWrites /\ rolloutWrites' = rolloutWrites + 1
    /\ rollout' = [rollout EXCEPT ![r] = @ + 1]
    /\ UNCHANGED <<unlinked, fileEntryCache, projectIndex, lastScan, lapses, holder, asking, uses, withdrawn>>

\* The HTTP routes remove the file and leave the index to find out.
RemoveRollout(r) ==
    /\ rollout[r] # 0
    /\ rollout' = [rollout EXCEPT ![r] = 0] /\ unlinked' = unlinked \cup {r}
    /\ UNCHANGED <<rolloutWrites, fileEntryCache, projectIndex, lastScan, lapses, holder, asking, uses, withdrawn>>

DeleteSession(r) == RemoveRollout(r)
DeleteAllSessions == \E r \in Rollouts : RemoveRollout(r)

\* scanInterval
Lapse ==
    /\ lastScan = "now" /\ lapses < MaxLapses
    /\ lastScan' = "stale" /\ lapses' = lapses + 1
    /\ UNCHANGED <<rollout, rolloutWrites, unlinked, fileEntryCache, projectIndex, holder, asking, uses, withdrawn>>

\* --- The calls: "list" (GetSessionsForProject, GetAllSessions, FindSessionByID),
\* --- "fresh" (Refresh, then the list), "delete" (a look-up, then the removal) ----

StartCall(c, op, r) ==
    /\ asking[c].at = "idle" /\ uses < MaxUses /\ uses' = uses + 1
    /\ asking' = [asking EXCEPT ![c] = [Resting EXCEPT !.op = op, !.at = "lock", !.r = r,
                              !.had = IF op = "fresh" THEN rollout ELSE Resting.had]]
    /\ UNCHANGED <<rollout, rolloutWrites, unlinked, fileEntryCache, projectIndex, lastScan, lapses, holder, withdrawn>>

ListCodexHistory(c) == StartCall(c, "list", NoOne)
ResolveCodexSession(c) == StartCall(c, "list", NoOne)
SnapshotCodexSessionIDs(c) == StartCall(c, "fresh", NoOne)
DeleteCodexWorkspaceSession(c, r) == StartCall(c, "delete", r)

\* refreshIfNeeded; and doRefresh from WalkDir's reading of the directory on.
EnterIndex(c) ==
    /\ asking[c].at = "lock" /\ holder = NoOne /\ holder' = c
    /\ asking' = [asking EXCEPT ![c] = IF lastScan = "stale" \/ @.op = "fresh"
                                   THEN [@ EXCEPT !.at = "walk", !.todo = Present, !.seen = Present]
                                   ELSE [@ EXCEPT !.at = "answer"]]
    /\ UNCHANGED <<rollout, rolloutWrites, unlinked, fileEntryCache, projectIndex, lastScan, lapses, uses, withdrawn>>

\* d.Info(): the entry is used again when the modification time is the same.
VisitRollout(c, r) ==
    /\ asking[c].at = "walk" /\ r \in asking[c].todo
    /\ LET known == rollout[r] # 0 /\ fileEntryCache[r].mtime = rollout[r]
           todo == asking[c].todo \ {r}
           found == [asking[c].found EXCEPT ![r] = fileEntryCache[r]] IN
          asking' = [asking EXCEPT ![c] = IF known THEN [@ EXCEPT !.todo = todo, !.found = found]
                                      ELSE [@ EXCEPT !.todo = todo, !.at = "open", !.file = r]]
    /\ UNCHANGED <<rollout, rolloutWrites, unlinked, fileEntryCache, projectIndex, lastScan, lapses, holder, uses, withdrawn>>

\* parseSessionFileForIndex opens the file and takes its modification time ...
OpenRollout(c) ==
    /\ asking[c].at = "open"
    /\ asking' = [asking EXCEPT ![c] = IF rollout[@.file] = 0 THEN [@ EXCEPT !.at = "walk", !.file = NoOne]
                                   ELSE [@ EXCEPT !.at = "parse", !.mtime = rollout[asking[c].file]]]
    /\ UNCHANGED <<rollout, rolloutWrites, unlinked, fileEntryCache, projectIndex, lastScan, lapses, holder, uses, withdrawn>>

\* ... and reads what is in it by now (an open file outlives its name).
ParseRollout(c) ==
    /\ asking[c].at = "parse"
    /\ LET r == asking[c].file
           read == IF rollout[r] = 0 THEN asking[c].mtime ELSE rollout[r]
           e == IF read = 1 THEN Unknown ELSE [mtime |-> asking[c].mtime, read |-> read] IN
          /\ asking' = [asking EXCEPT ![c].at = "walk", ![c].file = NoOne, ![c].mtime = 0,
                                  ![c].found = [@ EXCEPT ![r] = e]]
          /\ fileEntryCache' = IF read = 1 THEN fileEntryCache ELSE [fileEntryCache EXCEPT ![r] = e]
    /\ UNCHANGED <<rollout, rolloutWrites, unlinked, projectIndex, lastScan, lapses, holder, uses, withdrawn>>

\* The files the walk met are the list.  An entry of a file it did not meet is evicted.
PublishIndex(c) ==
    /\ asking[c].at = "walk" /\ asking[c].todo = {}
    /\ projectIndex' = asking[c].found
    /\ fileEntryCache' = [r \in Rollouts |-> IF r \in asking[c].seen THEN fileEntryCache[r] ELSE Unknown]
    /\ lastScan' = "now"
    /\ asking' = [asking EXCEPT ![c].at = "answer", ![c].seen = {}, ![c].found = Nothing]
    /\ UNCHANGED <<rollout, rolloutWrites, unlinked, lapses, holder, uses, withdrawn>>

\* What the call came for is read and the mutex given back.  Refresh is
\* followed by a list of its own.
AnswerFromIndex(c) ==
    /\ asking[c].at = "answer" /\ holder' = NoOne
    /\ asking' = [asking EXCEPT ![c] =
           CASE @.op = "fresh" -> [@ EXCEPT !.op = "relist", !.at = "lock"]
             [] @.op = "relist" -> [@ EXCEPT !.at = "done", !.found = projectIndex]
             [] @.op = "delete" /\ projectIndex[@.r] # Unknown -> [@ EXCEPT !.at = "remove"]
             [] OTHER -> Resting]
    /\ UNCHANGED <<rollout, rolloutWrites, unlinked, fileEntryCache, projectIndex, lastScan, lapses, uses, withdrawn>>

EndCall(c) ==
    /\ asking[c].at = "done" /\ asking' = [asking EXCEPT ![c] = Resting]
    /\ UNCHANGED <<rollout, rolloutWrites, unlinked, fileEntryCache, projectIndex, lastScan, lapses, holder, uses, withdrawn>>

\* deleteCodexWorkspaceSession: the file goes first; when it has gone already the
\* call fails and the index is left as it is.
DeleteRollout(c) ==
    /\ asking[c].at = "remove"
    /\ IF rollout[asking[c].r] = 0 THEN asking' = [asking EXCEPT ![c] = Resting] /\ UNCHANGED <<rollout, unlinked>>
       ELSE /\ rollout' = [rollout EXCEPT ![asking[c].r] = 0] /\ unlinked' = unlinked \cup {asking[c].r}
            /\ asking' = [asking EXCEPT ![c].at = "invalidate"]
    /\ UNCHANGED <<rolloutWrites, fileEntryCache, projectIndex, lastScan, lapses, holder, uses, withdrawn>>

\* The list without a rollout: only when there is an entry for its path.
WithoutRollout(r) == IF fileEntryCache[r] = Unknown THEN projectIndex ELSE [projectIndex EXCEPT ![r] = Unknown]

\* Mutant of InvalidateByPath: the entry has gone when the list is looked through for it.
InvalidateTooLate(c) ==
    /\ asking[c].at = "invalidate" /\ holder = NoOne
    /\ fileEntryCache' = [fileEntryCache EXCEPT ![asking[c].r] = Unknown]
    /\ withdrawn' = withdrawn \cup {asking[c].r}
    /\ asking' = [asking EXCEPT ![c] = Resting]
    /\ UNCHANGED <<rollout, rolloutWrites, unlinked, projectIndex, lastScan, lapses, holder, uses>>

InvalidateByPath(c) ==
    /\ asking[c].at = "invalidate" /\ holder = NoOne
    /\ fileEntryCache' = [fileEntryCache EXCEPT ![asking[c].r] = Unknown]
    /\ projectIndex' = WithoutRollout(asking[c].r)
    /\ withdrawn' = withdrawn \cup {asking[c].r}
    /\ asking' = [asking EXCEPT ![c] = Resting]
    /\ UNCHANGED <<rollout, rolloutWrites, unlinked, lastScan, lapses, holder, uses>>

\* --- The system ----------------------------------------------------------------

CodexHistoryInit ==
    /\ rollout = [r \in Rollouts |-> 0] /\ rolloutWrites = 0 /\ unlinked = {} /\ withdrawn = {}
    /\ fileEntryCache = Nothing /\ projectIndex = Nothing
    /\ lastScan = "stale" /\ lapses = 0 /\ holder = NoOne
    /\ asking = [c \in Askers |-> Resting] /\ uses = 0

IndexStep(c) ==
    \/ EnterIndex(c) \/ OpenRollout(c) \/ ParseRollout(c) \/ PublishIndex(c) \/ AnswerFromIndex(c)
    \/ EndCall(c) \/ DeleteRollout(c) \/ InvalidateByPath(c)
    \/ \E r \in Rollouts : VisitRollout(c, r)

CodexHistoryNext ==
    \/ Lapse \/ DeleteAllSessions
    \/ \E r \in Rollouts : WriteRollout(r) \/ DeleteSession(r)
    \/ \E c \in Askers :
          \/ IndexStep(c) \/ ListCodexHistory(c) \/ ResolveCodexSession(c) \/ SnapshotCodexSessionIDs(c)
          \/ \E r \in Rollouts : DeleteCodexWorkspaceSession(c, r)

CodexHistorySpec == CodexHistoryInit /\ [][CodexHistoryNext]_codexHistoryVars

\* --- Properties ------------------------------------------------------------------

\* Once a deletion over RPC has been answered, its session is never listed
\* again, although a walk of the directory may have been under way when the file
\* was removed, with the file already behind it.
DeletedStaysOff == \A r \in withdrawn : projectIndex[r] = Unknown

\* A call that had the index refreshed before it listed is told of every session
\* whose file named its directory when the call began, and of what was in the
\* file by then, however much of it came from the cache or was being written
\* during the walk; unless the file has been removed.
RefreshMissesNothing ==
    \A c \in Askers : \A r \in Rollouts \ unlinked :
        (asking[c].at = "done" /\ asking[c].op = "relist" /\ asking[c].had[r] > 1) => asking[c].found[r].read >= asking[c].had[r]
\* The list holds what a caller may rely on: nothing that was deleted for it, and
\* all that a refresh was asked for.
IndexKeepsUp == DeletedStaysOff /\ RefreshMissesNothing
=============================================================================
