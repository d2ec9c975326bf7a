--------------------------- MODULE TranscriptPages ---------------------------
(***************************************************************************)
(* How a phone reads a transcript page by page while the agent goes on     *)
(* writing it.  The routes cut their pages in three ways: by offset, by    *)
(* the ID of the newest element the phone has, or from the end backwards   *)
(* and then by the newest ID.                                              *)
(*                                                                         *)
(* A line of a Claude transcript is a row of the answer.  For Codex, tool  *)
(* calls that explore the repository are summed up in one more row, put    *)
(* before the next row that is no tool's, or at the end.  A row is         *)
(* identified by its line; what it says is left out.                       *)
(***************************************************************************)
EXTENDS Naturals, Sequences
LOCAL INSTANCE SequencesExt

CONSTANTS
    Limit,           \* rows of a page
    Cap,             \* lines read for the elements: 500
    MaxItems         \* bound: lines ever written

VARIABLES
    items,           \* the transcript: what kind of line each is
    walk             \* the phone: its route, the rows it has, what it was told

pageWalkVars == <<items, walk>>

\* "repeat" is a thought that has just been written.
Kinds == {"text", "tool", "explore", "repeat"}
OffsetRoutes == {"messages", "workspaceMessages", "agentMessages", "codexMessages"}
CursorRoutes == {"claudeElements", "agentElements", "codexElements"}
Routes == OffsetRoutes \cup CursorRoutes \cup {"latestElements"}

\* --- From lines to rows ---------------------------------------------------------

Row(line) == [line |-> line, explored |-> FALSE]
Plain(its) == [i \in DOMAIN its |-> Row(i)]
Read(its) == SubSeq(its, 1, IF Len(its) < Cap THEN Len(its) ELSE Cap)

\* shouldFlushCodexExploredBeforeItem
FlushBefore(kind) == kind = "text"
Explored(line) == IF line = 0 THEN <<>> ELSE <<[line |-> line, explored |-> TRUE]>>

\* dedupCodexThinking: the lines that are left.
DedupThinking(its) == SelectSeq([i \in DOMAIN its |-> i], LAMBDA i : its[i] # "repeat")

CodexRows(its) ==
    LET Add(rows, i) ==
            IF FlushBefore(its[i])
            THEN [out |-> rows.out \o Explored(rows.pending) \o <<Row(i)>>, pending |-> 0]
            ELSE [out |-> Append(rows.out, Row(i)),
                  pending |-> IF its[i] = "explore" THEN i ELSE rows.pending]
        rows == FoldLeft(Add, [out |-> <<>>, pending |-> 0], DedupThinking(its))
    IN  rows.out \o Explored(rows.pending)

RowsOf(route) ==
    CASE route \in {"messages", "workspaceMessages", "agentMessages", "latestElements"} -> Plain(items)
      [] route \in {"claudeElements", "agentElements"} -> Plain(Read(items))
      [] route \in {"codexMessages", "codexElements"} -> CodexRows(items)

\* --- The pages --------------------------------------------------------------------

Until(n, from) == IF from + Limit < n THEN from + Limit ELSE n
Place(rows, row) == IF \E i \in DOMAIN rows : rows[i] = row THEN CHOOSE i \in DOMAIN rows : rows[i] = row ELSE 0

Told(page, more) ==
    walk' = [walk EXCEPT !.got = @ \o page, !.more = more, !.told = Len(RowsOf(walk.route)), !.begun = TRUE]

\* order=asc, and the offset is the number of rows the phone has.
NextMessages(route) ==
    /\ walk.route = route
    /\ LET rows == RowsOf(walk.route)  offset == Len(walk.got)
           page == SubSeq(rows, offset + 1, Until(Len(rows), offset)) IN
          Told(page, offset + Len(page) < Len(rows))
    /\ UNCHANGED items

\* session/messages, for Claude and for Codex, agent/sessions/messages of a Codex
\* session, and workspace/session/messages.
GetSessionMessages == NextMessages("messages")
GetCodexMessages == NextMessages("codexMessages")
HandleAgentSessionMessages == NextMessages("agentMessages")
GetWorkspaceMessages == NextMessages("workspaceMessages")

\* Where the page that follows the newest element the phone has begins: at the
\* beginning when the phone has none, or names one that is not there.
After(rows, got) == IF got = <<>> THEN 0 ELSE Place(rows, got[Len(got)])

\* has_more_after as session/elements guesses it, and as the HTTP route tells it.
HasMoreGuessed(rows, page) == page # <<>> /\ Len(page) < Len(rows)
HasMoreAfter(rows, page, start) == page # <<>> /\ start + Len(page) < Len(rows)

NextElements(route) ==
    /\ walk.route = route
    /\ LET rows == RowsOf(walk.route)  start == After(rows, walk.got)
           page == SubSeq(rows, start + 1, Until(Len(rows), start)) IN
          Told(page, IF route = "agentElements" THEN HasMoreAfter(rows, page, start)
                     ELSE HasMoreGuessed(rows, page))
    /\ UNCHANGED items

\* session/elements of Claude and of Codex, and agent/sessions/elements of Codex.
GetSessionElements == NextElements("claudeElements")
GetCodexElements == NextElements("codexElements")
HandleAgentSessionElements == NextElements("agentElements")

\* GET /api/claude/sessions/elements: the last page first ...
LatestElements ==
    /\ walk.route = "latestElements" /\ ~walk.begun
    /\ LET rows == RowsOf(walk.route)  start == IF Len(rows) > Limit THEN Len(rows) - Limit ELSE 0 IN
          walk' = [walk EXCEPT !.got = SubSeq(rows, start + 1, Len(rows)), !.before = start > 0,
                               !.more = FALSE, !.told = Len(rows), !.begun = TRUE]
    /\ UNCHANGED items

\* ... then those before the oldest one ...
ElementsBefore ==
    /\ walk.route = "latestElements" /\ walk.before
    /\ LET rows == RowsOf(walk.route)
           end == Place(rows, walk.got[1]) - 1
           start == IF end > Limit THEN end - Limit ELSE 0 IN
          walk' = [walk EXCEPT !.got = SubSeq(rows, start + 1, end) \o @, !.before = start > 0]
    /\ UNCHANGED items

\* ... and those after the newest one, to catch up.
ElementsAfter ==
    /\ walk.route = "latestElements" /\ walk.got # <<>>
    /\ LET rows == RowsOf(walk.route)  start == After(rows, walk.got)
           page == SubSeq(rows, start + 1, Until(Len(rows), start)) IN
          Told(page, start + Len(page) < Len(rows))
    /\ UNCHANGED items

\* The agent writes a line.  A tool's line moves the row of explorations that
\* ended the list, which the phone may have been given.
WriteLine(kind) ==
    /\ Len(items) < MaxItems /\ items' = Append(items, kind)
    /\ kind = "repeat" => Contains(items, "text")
    /\ LET rows == RowsOf(walk.route) IN
          walk' = [walk EXCEPT !.moved = @ \/ /\ kind \in {"tool", "explore"} /\ walk.got # <<>>
                                               /\ walk.got[Len(walk.got)].explored
                                               /\ walk.got[Len(walk.got)] = rows[Len(rows)]]

PageWalkInit ==
    /\ items = <<>>
    /\ walk \in {[route |-> r, got |-> <<>>, begun |-> FALSE, before |-> FALSE, more |-> TRUE, told |-> 0,
                  moved |-> FALSE] : r \in Routes}

PageWalkNext ==
    \/ \E kind \in Kinds : WriteLine(kind)
    \/ /\ ~walk.moved
       /\ \/ GetSessionMessages \/ GetCodexMessages \/ HandleAgentSessionMessages \/ GetWorkspaceMessages
          \/ GetSessionElements \/ GetCodexElements \/ HandleAgentSessionElements
          \/ LatestElements \/ ElementsBefore \/ ElementsAfter

PageWalkSpec == PageWalkInit /\ [][PageWalkNext]_pageWalkVars

\* The pages of a transcript that is being written join: what a phone has read is
\* a stretch of the rows, none missing and none twice; it begins with the first
\* row once the phone is told there is nothing before, and when the phone was told
\* that nothing follows it had all there was.  Excepted is a Codex session that
\* was exploring when the phone was given the last row and went on exploring.
PagesJoin ==
    LET rows == RowsOf(walk.route) IN
    ~walk.moved =>
        \E skipped \in 0..Len(rows) :
            /\ skipped + Len(walk.got) <= Len(rows)
            /\ walk.got = SubSeq(rows, skipped + 1, skipped + Len(walk.got))
            /\ ~walk.before => skipped = 0
            /\ ~walk.more => skipped + Len(walk.got) >= walk.told
=============================================================================
