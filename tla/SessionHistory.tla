--------------------------- MODULE SessionHistory ---------------------------
(***************************************************************************)
(* What the phones see of past Claude sessions.  Claude appends lines to a *)
(* transcript per session; Cache keeps a row per transcript for the list   *)
(* of sessions, and MessageCache the lines for the pages of one session.   *)
(* Both are SQLite files beside the transcripts and are brought up to date *)
(* by comparing modification times, which count seconds.                   *)
(*                                                                         *)
(* The rows are written by the reconciliation loop and, on the same file,  *)
(* by every call that lists a workspace's history with a Cache of its own  *)
(* (a full sync each), by the debounce loop that follows fsnotify, and by  *)
(* deletions.  Lines are indexed when a page is asked for, by the app's    *)
(* MessageCache, one caller at a time, or by one made for the call.        *)
(*                                                                         *)
(* A transcript is its number of lines; a write to SQLite waits for the    *)
(* transaction under way.                                                  *)
(***************************************************************************)
EXTENDS Naturals, FiniteSets

CONSTANTS
    Sessions,
    Calls,           \* calls that sync with a Cache of their own
    AppReaders,      \* calls served by the app's MessageCache ...
    OwnReaders,      \* ... and by one of their own
    Reconciler,      \* the reconciliation loop
    NoSession,
    PageSize,
    MaxLines,        \* bound: lines ever written
    MaxSeconds,      \* bound: ticks of the clock
    MaxRemovals,     \* bound: transcripts deleted
    MaxSyncs,        \* bound: full syncs by calls
    MaxPages         \* bound: pages asked for

ASSUME PageSizeAssumption == PageSize \in Nat

VARIABLES
    transcript,      \* lines (0: no file), second of the last write ever, whether any line is a record
    second, lines, removals,
    looked,          \* history: somebody took the modification time since the file got it
    again,           \* history: it was written in that very second afterwards
    rows,            \* table sessions: lines and file_mtime, as committed
    writer,          \* who has a transaction open on it
    sync,            \* each full sync
    syncs,
    fileEvents, pendingSync,
    debounce,
    deleter,
    messages,        \* tables session_files and messages, as committed
    reader,          \* each GetMessages
    pages

fileVars == <<transcript, second, lines, removals, looked, again>>
listVars == <<rows, writer, sync, syncs, fileEvents, pendingSync, debounce, deleter>>
pageVars == <<messages, reader, pages>>
historyVars == <<fileVars, listVars, pageVars>>

Syncers == Calls \cup {Reconciler}
Readers == AppReaders \cup OwnReaders
Unlisted == [n |-> 0, sec |-> 0]
NoFile == [n |-> 0, sec |-> 0, text |-> FALSE]
HasFile(s) == transcript[s].n # 0
Noted(s) == looked' = [looked EXCEPT ![s] = TRUE]

\* --- The transcripts ------------------------------------------------------------

\* Claude, or AppendBashToSession, appends a line; the first ones may say nothing.
AppendLine(s, text) ==
    /\ lines < MaxLines /\ lines' = lines + 1
    /\ transcript[s].text => text
    /\ transcript' = [transcript EXCEPT ![s] = [n |-> @.n + 1, sec |-> second, text |-> text]]
    /\ LET same == transcript[s].sec = second IN
          /\ again' = [again EXCEPT ![s] = same /\ (@ \/ looked[s])]
          /\ looked' = [looked EXCEPT ![s] = same /\ @]
    /\ fileEvents' = fileEvents \cup {s}
    /\ UNCHANGED <<second, removals, rows, writer, sync, syncs, pendingSync, debounce, deleter, pageVars>>

RemoveTranscript(s) ==
    /\ transcript' = [transcript EXCEPT ![s] = [NoFile EXCEPT !.sec = transcript[s].sec]]
    /\ fileEvents' = fileEvents \cup {s}
    /\ reader' = [r \in Readers |-> IF reader[r].s = s THEN [reader[r] EXCEPT !.excused = TRUE] ELSE reader[r]]

\* claude.DeleteSession, and DeleteAllSessions file by file: the row stays.
DeleteFile(s) ==
    /\ HasFile(s) /\ removals < MaxRemovals /\ removals' = removals + 1
    /\ RemoveTranscript(s)
    /\ UNCHANGED <<second, lines, looked, again, rows, writer, sync, syncs, pendingSync, debounce, deleter, messages, pages>>

\* The routes to it: DELETE of claude/sessions and of agent/sessions, and
\* session/delete of a workspace.
HandleDeleteSessions == \E s \in Sessions : DeleteFile(s)
HandleDeleteAgentSessions == \E s \in Sessions : DeleteFile(s)
DeleteHistorySession(s) == DeleteFile(s)

Second == second < MaxSeconds /\ second' = second + 1
          /\ UNCHANGED <<transcript, lines, removals, looked, again, listVars, pageVars>>

\* --- fullSync ------------------------------------------------------------------------

NoSync == [at |-> "idle", todo |-> {}, s |-> NoSession, sec |-> 0, batch |-> {}, existing |-> {}, doomed |-> {}]

\* The rows the list of sessions shows.
ListSessions == {s \in Sessions : rows[s].n # 0}

\* os.ReadDir
FullSync(x) ==
    /\ sync[x].at = "idle"
    /\ x = Reconciler \/ syncs < MaxSyncs
    /\ syncs' = IF x = Reconciler THEN syncs ELSE syncs + 1
    /\ sync' = [sync EXCEPT ![x] = [NoSync EXCEPT !.at = "scan", !.todo = {s \in Sessions : HasFile(s)}]]
    /\ UNCHANGED <<fileVars, rows, writer, fileEvents, pendingSync, debounce, deleter, pageVars>>

\* Mutant of CompareMtime: a file that did not change is not noted as existing.
CompareAndForget(x, s) ==
    /\ sync[x].at = "scan" /\ s \in sync[x].todo
    /\ IF ~HasFile(s) THEN sync' = [sync EXCEPT ![x].todo = @ \ {s}] /\ UNCHANGED looked
       ELSE /\ Noted(s)
            /\ sync' = IF rows[s].sec = transcript[s].sec
                       THEN [sync EXCEPT ![x].todo = @ \ {s}]
                       ELSE [sync EXCEPT ![x].at = "parse", ![x].todo = @ \ {s}, ![x].s = s, ![x].sec = transcript[s].sec]
    /\ UNCHANGED <<transcript, second, lines, removals, again, rows, writer, syncs, fileEvents, pendingSync, debounce, deleter, pageVars>>

\* The modification time, against the row's.
CompareMtime(x, s) ==
    /\ sync[x].at = "scan" /\ s \in sync[x].todo
    /\ IF ~HasFile(s) THEN sync' = [sync EXCEPT ![x].todo = @ \ {s}] /\ UNCHANGED looked
       ELSE /\ Noted(s)
            /\ sync' = IF rows[s].sec = transcript[s].sec
                       THEN [sync EXCEPT ![x].todo = @ \ {s}, ![x].existing = @ \cup {s}]
                       ELSE [sync EXCEPT ![x].at = "parse", ![x].todo = @ \ {s}, ![x].s = s, ![x].sec = transcript[s].sec]
    /\ UNCHANGED <<transcript, second, lines, removals, again, rows, writer, syncs, fileEvents, pendingSync, debounce, deleter, pageVars>>

\* A file that changed is parsed and its row written into the transaction.
ParseSession(x) ==
    /\ sync[x].at = "parse"
    /\ LET s == sync[x].s  back == [sync[x] EXCEPT !.at = "scan", !.s = NoSession, !.sec = 0] IN
          IF ~HasFile(s) \/ ~transcript[s].text THEN sync' = [sync EXCEPT ![x] = back] /\ UNCHANGED writer
          ELSE /\ writer \in {NoSession, x} /\ writer' = x
               /\ sync' = [sync EXCEPT ![x] =
                     [back EXCEPT !.existing = @ \cup {s},
                                  !.batch = @ \cup {[s |-> s, n |-> transcript[s].n, sec |-> sync[x].sec]}]]
    /\ UNCHANGED <<fileVars, rows, syncs, fileEvents, pendingSync, debounce, deleter, pageVars>>

CommitSync(x) ==
    /\ sync[x].at = "scan" /\ sync[x].todo = {}
    /\ rows' = [s \in Sessions |->
                   IF \E b \in sync[x].batch : b.s = s
                   THEN LET b == CHOOSE b \in sync[x].batch : b.s = s IN [n |-> b.n, sec |-> b.sec]
                   ELSE rows[s]]
    /\ writer' = IF writer = x THEN NoSession ELSE writer
    /\ sync' = [sync EXCEPT ![x].at = "select", ![x].batch = {}]
    /\ UNCHANGED <<fileVars, syncs, fileEvents, pendingSync, debounce, deleter, pageVars>>

\* "Clean up deleted sessions": the rows no file was seen for.
SelectDeleted(x) ==
    /\ sync[x].at = "select"
    /\ sync' = [sync EXCEPT ![x].at = "delete", ![x].existing = {},
                            ![x].doomed = ListSessions \ sync[x].existing]
    /\ UNCHANGED <<fileVars, rows, writer, syncs, fileEvents, pendingSync, debounce, deleter, pageVars>>

DeleteRows(x) ==
    /\ sync[x].at = "delete" /\ (sync[x].doomed # {} => writer = NoSession)
    /\ rows' = [s \in Sessions |-> IF s \in sync[x].doomed THEN Unlisted ELSE rows[s]]
    /\ sync' = [sync EXCEPT ![x] = NoSync]
    /\ UNCHANGED <<fileVars, writer, syncs, fileEvents, pendingSync, debounce, deleter, pageVars>>

\* --- The watcher and the debounce loop ------------------------------------------------

WatchLoop(s) ==
    /\ s \in fileEvents /\ fileEvents' = fileEvents \ {s}
    /\ pendingSync' = pendingSync \cup {s}
    /\ UNCHANGED <<fileVars, rows, writer, sync, syncs, debounce, deleter, pageVars>>

NoDebounce == [at |-> "idle", s |-> NoSession, n |-> 0, sec |-> 0]

DebounceLoop(s) ==
    /\ debounce.at = "idle" /\ s \in pendingSync /\ pendingSync' = pendingSync \ {s}
    /\ debounce' = [NoDebounce EXCEPT !.at = "stat", !.s = s]
    /\ UNCHANGED <<fileVars, rows, writer, sync, syncs, fileEvents, deleter, pageVars>>

\* syncFile
StatFile ==
    /\ debounce.at = "stat"
    /\ IF HasFile(debounce.s)
       THEN /\ Noted(debounce.s)
            /\ debounce' = [debounce EXCEPT !.at = "parse", !.sec = transcript[debounce.s].sec]
       ELSE debounce' = [debounce EXCEPT !.at = "exec"] /\ UNCHANGED looked
    /\ UNCHANGED <<transcript, second, lines, removals, again, rows, writer, sync, syncs, fileEvents, pendingSync, deleter, pageVars>>

ParseFile ==
    /\ debounce.at = "parse"
    /\ LET t == transcript[debounce.s] IN
          debounce' = IF t.n = 0 \/ ~t.text THEN NoDebounce ELSE [debounce EXCEPT !.at = "exec", !.n = t.n]
    /\ UNCHANGED <<fileVars, rows, writer, sync, syncs, fileEvents, pendingSync, deleter, pageVars>>

WriteRow ==
    /\ debounce.at = "exec" /\ writer = NoSession
    /\ rows' = [rows EXCEPT ![debounce.s] = [n |-> debounce.n, sec |-> debounce.sec]]
    /\ debounce' = NoDebounce
    /\ UNCHANGED <<fileVars, writer, sync, syncs, fileEvents, pendingSync, deleter, pageVars>>

\* --- Cache.DeleteSession, DeleteAllSessions: the row, then the file, or not -----------------

DeleteSessionRow(s) ==
    /\ deleter = NoSession /\ s \in ListSessions /\ writer = NoSession /\ removals < MaxRemovals
    /\ removals' = removals + 1
    /\ rows' = [rows EXCEPT ![s] = Unlisted] /\ deleter' = s
    /\ UNCHANGED <<transcript, second, lines, looked, again, writer, sync, syncs, fileEvents, pendingSync, debounce, pageVars>>

DeleteSessionFile ==
    /\ deleter # NoSession /\ deleter' = NoSession
    /\ \/ HasFile(deleter) /\ RemoveTranscript(deleter)
       \/ UNCHANGED <<transcript, fileEvents, reader>>
    /\ UNCHANGED <<second, lines, removals, looked, again, rows, writer, sync, syncs, pendingSync, debounce, messages, pages>>

\* --- MessageCache.GetMessages ------------------------------------------------------------------

NoPage == [at |-> "idle", s |-> NoSession, sec |-> 0, offset |-> 0, had |-> 0, total |-> 0, got |-> 0,
           excused |-> FALSE]
Instance(r) == IF r \in AppReaders THEN AppReaders ELSE {r}
InEnsure == {"stat", "check", "index"}

GetMessages(r, s, offset) ==
    /\ reader[r].at = "idle" /\ pages < MaxPages /\ pages' = pages + 1
    /\ reader' = [reader EXCEPT ![r] = [NoPage EXCEPT !.at = "lock", !.s = s, !.offset = offset,
                                                     !.had = transcript[s].n]]
    /\ UNCHANGED <<fileVars, listVars, messages>>

\* The app's routes, and workspace/session/messages with a MessageCache of its own.
HandleClaudeSessionMessages(r, s, offset) == r \in AppReaders /\ GetMessages(r, s, offset)
GetWorkspaceSessionMessages(r, s, offset) == r \in OwnReaders /\ GetMessages(r, s, offset)

\* ensureSessionCached: its mutex is the instance's.
EnsureCached(r) ==
    /\ reader[r].at = "lock" /\ \A q \in Instance(r) : reader[q].at \notin InEnsure
    /\ reader' = [reader EXCEPT ![r].at = "stat"]
    /\ UNCHANGED <<fileVars, listVars, messages, pages>>

StatTranscript(r) ==
    /\ reader[r].at = "stat"
    /\ IF HasFile(reader[r].s)
       THEN /\ Noted(reader[r].s)
            /\ reader' = [reader EXCEPT ![r].at = "check", ![r].sec = transcript[reader[r].s].sec,
                                          ![r].excused = @ \/ again[reader[r].s]]
       ELSE reader' = [reader EXCEPT ![r] = NoPage] /\ UNCHANGED looked
    /\ UNCHANGED <<transcript, second, lines, removals, again, listVars, messages, pages>>

\* Mutant of CheckCached: lines that were indexed once are taken for those of the file.
CheckIndexedOnce(r) ==
    /\ reader[r].at = "check"
    /\ reader' = [reader EXCEPT ![r].at = IF messages[reader[r].s].sec # 0 THEN "count" ELSE "index"]
    /\ UNCHANGED <<fileVars, listVars, messages, pages>>

CheckCached(r) ==
    /\ reader[r].at = "check"
    /\ reader' = [reader EXCEPT ![r].at = IF messages[reader[r].s].sec = reader[r].sec THEN "count" ELSE "index"]
    /\ UNCHANGED <<fileVars, listVars, messages, pages>>

\* One transaction: the lines of the session go, those of the file come.
IndexSession(r) ==
    /\ reader[r].at = "index"
    /\ IF ~HasFile(reader[r].s) THEN reader' = [reader EXCEPT ![r] = NoPage] /\ UNCHANGED messages
       ELSE LET s == reader[r].s IN
            /\ messages' = [messages EXCEPT ![s] = [n |-> transcript[s].n, sec |-> reader[r].sec]]
            /\ reader' = [q \in Readers |->
                             IF q = r THEN [reader[r] EXCEPT !.at = "count"]
                             ELSE IF reader[q].s = s /\ reader[q].at = "rows" THEN [reader[q] EXCEPT !.excused = TRUE]
                             ELSE reader[q]]
    /\ UNCHANGED <<fileVars, listVars, pages>>

CountMessages(r) ==
    /\ reader[r].at = "count"
    /\ reader' = [reader EXCEPT ![r].at = "rows", ![r].total = messages[reader[r].s].n]
    /\ UNCHANGED <<fileVars, listVars, messages, pages>>

\* The lines of a page: LIMIT and OFFSET.
PageLength(n, offset) == IF n <= offset THEN 0 ELSE IF n - offset < PageSize THEN n - offset ELSE PageSize

SelectMessages(r) ==
    /\ reader[r].at = "rows"
    /\ reader' = [reader EXCEPT ![r].at = "answer",
                     ![r].got = IF reader[r].total = 0 THEN 0
                                ELSE PageLength(messages[reader[r].s].n, reader[r].offset)]
    /\ UNCHANGED <<fileVars, listVars, messages, pages>>

HasMore(r) == reader[r].offset + reader[r].got < reader[r].total

AnswerPage(r) ==
    /\ reader[r].at = "answer" /\ reader' = [reader EXCEPT ![r] = NoPage]
    /\ UNCHANGED <<fileVars, listVars, messages, pages>>

\* --- The system ------------------------------------------------------------------------------------

HistoryInit ==
    /\ transcript = [s \in Sessions |-> NoFile] /\ second = 1 /\ lines = 0 /\ removals = 0
    /\ looked = [s \in Sessions |-> FALSE] /\ again = [s \in Sessions |-> FALSE]
    /\ rows = [s \in Sessions |-> Unlisted] /\ writer = NoSession
    /\ sync = [x \in Syncers |-> NoSync] /\ syncs = 0
    /\ fileEvents = {} /\ pendingSync = {} /\ debounce = NoDebounce /\ deleter = NoSession
    /\ messages = [s \in Sessions |-> Unlisted] /\ reader = [r \in Readers |-> NoPage] /\ pages = 0

Transcripts ==
    \/ Second \/ HandleDeleteSessions \/ HandleDeleteAgentSessions
    \/ \E s \in Sessions : DeleteHistorySession(s) \/ \E text \in BOOLEAN : AppendLine(s, text)

\* The loop's own, and the calls that list a workspace's history or look for its
\* newest session.
ReconciliationLoop(x) == x = Reconciler /\ FullSync(x)
ListHistory(x) == x \in Calls /\ FullSync(x)
GetMostRecentHistoricalSessionID(x) == x \in Calls /\ FullSync(x)

SyncStep(x) ==
    \/ ReconciliationLoop(x) \/ ListHistory(x) \/ GetMostRecentHistoricalSessionID(x)
    \/ ParseSession(x) \/ CommitSync(x) \/ SelectDeleted(x) \/ DeleteRows(x)
    \/ \E s \in Sessions : CompareMtime(x, s)
WatcherStep == \E s \in Sessions : WatchLoop(s)
DebounceStep == StatFile \/ ParseFile \/ WriteRow \/ \E s \in Sessions : DebounceLoop(s)

ListNext ==
    \/ Transcripts \/ WatcherStep \/ DebounceStep \/ DeleteSessionFile
    \/ \E x \in Syncers : SyncStep(x)
    \/ \E s \in Sessions : DeleteSessionRow(s)

PageNext ==
    \/ Transcripts
    \/ \E r \in Readers :
          \/ \E s \in Sessions, offset \in {0, PageSize} :
                HandleClaudeSessionMessages(r, s, offset) \/ GetWorkspaceSessionMessages(r, s, offset)
          \/ EnsureCached(r) \/ StatTranscript(r) \/ CheckCached(r) \/ IndexSession(r)
          \/ CountMessages(r) \/ SelectMessages(r) \/ AnswerPage(r)

\* The loops go on for ever, and a call under way is carried through.
ListFairness ==
    /\ WF_historyVars(SyncStep(Reconciler)) /\ \A x \in Calls : WF_historyVars(sync[x].at # "idle" /\ SyncStep(x))
    /\ WF_historyVars(WatcherStep) /\ WF_historyVars(DebounceStep) /\ WF_historyVars(DeleteSessionFile)

ListSpec == HistoryInit /\ [][ListNext]_historyVars /\ ListFairness
PageSpec == HistoryInit /\ [][PageNext]_historyVars

\* --- Properties ----------------------------------------------------------------------------------------

RowIsTrue(s) ==
    IF transcript[s].text THEN rows[s] = [n |-> transcript[s].n, sec |-> transcript[s].sec] ELSE s \notin ListSessions

\* Whatever the syncs, the debounce loop and the deletions do to each other's
\* rows, once the transcripts are left alone the list comes to show exactly what
\* is on the disk, and stays so: except for a transcript that was written again
\* within the second in which it had been looked at.
ListCatchesUp == \A s \in Sessions : <>[](again[s] \/ RowIsTrue(s))

\* A page has every line that was in the transcript when it was asked for, and
\* has_more is told exactly when there are lines beyond it: unless the transcript
\* was deleted meanwhile, was written again within the second it had been looked
\* at, or another call indexed it between the count and the lines.
PageIsWhole ==
    \A r \in Readers :
        (reader[r].at = "answer" /\ ~reader[r].excused)
        => /\ reader[r].total >= reader[r].had
           /\ reader[r].got = PageLength(reader[r].total, reader[r].offset)
           /\ HasMore(r) <=> reader[r].offset + PageSize < reader[r].total
=============================================================================
