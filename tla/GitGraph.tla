------------------------------- MODULE GitGraph -------------------------------
(***************************************************************************)
(* The graph of workspace/git/log.  Log asks git for the commits of a page *)
(* and one more, newest first, a child before its parents, and             *)
(* computeGraphLayout goes down the page keeping in each lane the commit   *)
(* that has to come there: the next commit of the line, or none.           *)
(*                                                                         *)
(* A commit is its place in git's list; commits past the page are those    *)
(* the page ends before.                                                   *)
(***************************************************************************)
EXTENDS Naturals, Sequences, FiniteSets
LOCAL INSTANCE SequencesExt

CONSTANTS
    MaxCommits,      \* bound: commits git lists
    PageLimit        \* limit

VARIABLES
    parents,         \* the history: the parents of each commit, in order
    shown            \* the answer

graphVars == <<parents, shown>>

Commits == 1..MaxCommits
NoCommit == 0

\* Every history of merges of two.
Histories ==
    {h \in [Commits -> UNION {[1..n -> 2..MaxCommits + 1] : n \in 0..2}] :
        \A c \in Commits : /\ \A i \in DOMAIN h[c] : h[c][i] > c
                          /\ \A i, j \in DOMAIN h[c] : i # j => h[c][i] # h[c][j]}

\* --- computeGraphLayout -----------------------------------------------------------

FindLane(lanes, c) == IF \E i \in DOMAIN lanes : lanes[i] = c THEN SelectInSeq(lanes, LAMBDA x : x = c) ELSE 0
Occupy(lanes, col, c) == IF col > Len(lanes) THEN Append(lanes, c) ELSE [lanes EXCEPT ![col] = c]
EmptyLane(lanes) == IF FindLane(lanes, NoCommit) # 0 THEN FindLane(lanes, NoCommit) ELSE Len(lanes) + 1
LineType(from, to) == IF from = to THEN "straight" ELSE IF from < to THEN "merge_left" ELSE "merge_right"

\* Mutant of PlaceParent: a further parent gets a lane of its own, also when one waits for it.
PlaceParentAnew(at, column, c, first) ==
    LET found == IF first THEN FindLane(at.lanes, c) ELSE 0
        col == IF found # 0 THEN found ELSE IF first THEN column ELSE EmptyLane(at.lanes)
    IN  [at EXCEPT !.lanes = IF found # 0 THEN @ ELSE Occupy(@, col, c),
                   !.lines = Append(@, [from |-> col, to |-> column, type |-> LineType(col, column)]),
               !.max = IF col > @ THEN col ELSE @]

\* The line from a parent: in the lane that waits for it already, or the first
\* one in the commit's own lane, and another one in a free lane.
PlaceParent(at, column, c, first) ==
    LET found == FindLane(at.lanes, c)
        col == IF found # 0 THEN found ELSE IF first THEN column ELSE EmptyLane(at.lanes)
    IN  [at EXCEPT !.lanes = IF found # 0 THEN @ ELSE Occupy(@, col, c),
                   !.lines = Append(@, [from |-> col, to |-> column, type |-> LineType(col, column)]),
               !.max = IF col > @ THEN col ELSE @]

PassLines(lanes, column, ps) ==
    LET passes(col) == lanes[col] # NoCommit /\ col # column /\ ~Contains(ps, lanes[col])
        cols == SelectSeq([i \in DOMAIN lanes |-> i], passes)
    IN  [i \in DOMAIN cols |-> [from |-> cols[i], to |-> cols[i], type |-> "pass"]]

\* One commit: its column, its lines, the lanes below it.
PlaceCommit(at, c) ==
    LET found == FindLane(at.lanes, c)
        column == IF found # 0 THEN found ELSE EmptyLane(at.lanes)
        ps == parents[c]
        own == [lanes |-> Occupy(at.lanes, column, IF ps = <<>> THEN NoCommit ELSE c), lines |-> <<>>,
                max |-> IF column > at.max THEN column ELSE at.max]
        led == FoldLeft(LAMBDA a, i : PlaceParent(a, column, ps[i], i = 1), own, [i \in DOMAIN ps |-> i])
    IN  [lanes |-> led.lanes, max |-> led.max,
         rows |-> Append(at.rows, [column |-> column, lines |-> led.lines \o PassLines(led.lanes, column, ps)])]

ComputeGraphLayout(n) ==
    FoldLeft(PlaceCommit, [lanes |-> <<>>, rows |-> <<>>, max |-> 0], [c \in 1..n |-> c])

NothingShown == [rows |-> <<>>, maxColumns |-> 0, hasMore |-> FALSE]

\* The page, and whether git listed more than it.
Log ==
    /\ shown = NothingShown
    /\ LET graph == ComputeGraphLayout(IF PageLimit < MaxCommits THEN PageLimit ELSE MaxCommits) IN
          shown' = [rows |-> graph.rows, maxColumns |-> graph.max, hasMore |-> MaxCommits > PageLimit]
    /\ UNCHANGED parents

WorkspaceGitLog == Log

GraphInit == parents \in Histories /\ shown = NothingShown
GraphNext == WorkspaceGitLog
GraphSpec == GraphInit /\ [][GraphNext]_graphVars

Has(c, line) == \E i \in DOMAIN shown.rows[c].lines : shown.rows[c].lines[i] = line
\* A commit waits below row c when a commit above has it for a parent.
Awaited(c, p) == p > c /\ \E a \in 1..c : Contains(parents[a], p)

\* The drawing is the history: from each commit lines lead to the columns where
\* its parents are drawn, within the columns the phone is told; a line that is
\* on its way to a commit further down is drawn through every row between, in
\* that commit's column; and no commit is drawn on a line on its way to another.
LinesLead ==
    \A c, p \in DOMAIN shown.rows :
        LET row == shown.rows[c]  col == shown.rows[p].column IN
        /\ \A i \in DOMAIN row.lines : row.lines[i].from <= shown.maxColumns
        /\ Contains(parents[c], p) => Has(c, [from |-> col, to |-> row.column, type |-> LineType(col, row.column)])
        /\ (c > 1 /\ Awaited(c - 1, p) /\ p > c) =>
              /\ row.column # col \/ Contains(parents[c], p)
              /\ Has(c, [from |-> col, to |-> col, type |-> "pass"]) \/ Contains(parents[c], p)
=============================================================================
