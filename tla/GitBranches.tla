----------------------------- MODULE GitBranches -----------------------------
(***************************************************************************)
(* Branches, remote, stash and merges of one repository, as cdev's clients *)
(* drive them.                                                             *)
(*                                                                         *)
(* A commit is the change it makes: a branch is the set of changes in its  *)
(* history, so that a merge, a rebase and a fast-forward are unions and    *)
(* "merged into" is inclusion.  Each call of Tracker that changes the      *)
(* repository is one git command; Checkout and DeleteBranch ask for the    *)
(* current branch first, and the session manager publishes the change of   *)
(* branch after it.  A stash is named by its place on the stack, which     *)
(* moves with every push and drop.                                         *)
(***************************************************************************)
EXTENDS FiniteSets, Naturals, Sequences, SequencesExt

CONSTANTS
    Branches, Main,   \* branch names, and the one that exists at the start
    None,             \* no branch
    Changes,          \* bound: the changes ever committed
    Clients,
    MaxStash,         \* bound: entries on the stash
    MaxCalls          \* bound: calls of the clients

ASSUME BranchesAssumption ==
    /\ Main \in Branches /\ None \notin Branches
    /\ \A changes \in SUBSET Changes : changes # None
ASSUME ClientsAssumption == IsFiniteSet(Clients)

VARIABLES
    tips,        \* local branches: the changes in their history, or None
    cur,         \* the branch checked out
    remote,      \* the branches on the server
    tracked,     \* the server's branches as last fetched or pushed
    origin,      \* a remote is configured
    upstream,    \* branches with an upstream
    busy,        \* "no", or a conflict of a "merge" or a "rebase" awaits resolution
    incoming,    \* what that merge or rebase brings in
    dirty,       \* the working tree has changes
    stash,       \* the stash, the latest first
    seen,        \* what each client last read with StashList
    call,        \* each client's call under way
    shown,       \* the branch the git_branch_changed events last named
    crossed,     \* history: the branch changed by another way than one checkout at a time
    taken,       \* history: the last stash entry dropped, wanted, and whether the list was fresh
    destroyed,   \* history: changes a forced command removed from every branch
    calls

vars == <<tips, cur, remote, tracked, origin, upstream, busy, incoming, dirty, stash, seen, call,
          shown, crossed, taken, destroyed, calls>>
refs == <<tips, remote, tracked, origin, upstream, destroyed>>
merge == <<busy, incoming>>
stashes == <<stash, seen, taken>>
events == <<call, shown, crossed>>

Exists(b) == tips[b] # None
Reach(t, r, k) == UNION ({t[b] : b \in {x \in Branches : t[x] # None}}
                         \cup {r[b] : b \in {x \in Branches : r[x] # None}}
                         \cup {k[b] : b \in {x \in Branches : k[x] # None}})
Made == Reach(tips, remote, tracked) \cup destroyed
\* What a step loses is destroyed when the client asked for force.
Forced(asked) ==
    destroyed' = IF asked THEN destroyed \cup (Reach(tips, remote, tracked) \ Reach(tips', remote', tracked'))
                 ELSE destroyed

Count == calls < MaxCalls /\ calls' = calls + 1

NoCall == [at |-> "idle", branch |-> None, from |-> None, create |-> FALSE, force |-> FALSE, told |-> FALSE]

\* --- Push, fetch, pull -----------------------------------------------------

Behind(b) == remote[b] # None /\ ~(remote[b] \subseteq tips[b])

Push(force, setUpstream) ==
    /\ origin /\ busy # "rebase" /\ (setUpstream \/ cur \in upstream)
    /\ force \/ ~Behind(cur)
    /\ remote' = [remote EXCEPT ![cur] = tips[cur]]
    /\ tracked' = [tracked EXCEPT ![cur] = tips[cur]]
    /\ upstream' = IF setUpstream THEN upstream \cup {cur} ELSE upstream
    /\ UNCHANGED <<tips, origin>>
    /\ Forced(force)

Fetched(prune) ==
    [b \in Branches |-> IF remote[b] # None THEN remote[b] ELSE IF prune THEN None ELSE tracked[b]]

Fetch(prune) ==
    /\ origin
    /\ tracked' = Fetched(prune)
    /\ UNCHANGED <<tips, remote, origin, upstream, destroyed>>

\* A merge of the changes ms into the current branch: at once, or, when both
\* sides have changes of their own, stopped by a conflict.
Join(ms, how) ==
    \/ /\ tips' = [tips EXCEPT ![cur] = @ \cup ms]
       /\ UNCHANGED merge
    \/ /\ ~(ms \subseteq tips[cur]) /\ ~(tips[cur] \subseteq ms)
       /\ busy' = how /\ incoming' = ms
       /\ UNCHANGED tips

Pull(rebase) ==
    /\ origin /\ busy = "no" /\ cur \in upstream /\ remote[cur] # None
    /\ rebase => ~dirty
    /\ tracked' = Fetched(FALSE)
    /\ Join(remote[cur], IF rebase THEN "rebase" ELSE "merge")
    /\ UNCHANGED <<remote, origin, upstream, destroyed>>

Merge(b) ==
    /\ busy = "no" /\ Exists(b) /\ b # cur
    /\ Join(tips[b], "merge")
    /\ UNCHANGED <<remote, tracked, origin, upstream, destroyed>>

\* git merge --abort knows nothing of a rebase.
MergeAbort ==
    /\ busy = "merge" /\ busy' = "no" /\ incoming' = {}
    /\ UNCHANGED refs

\* --- Remotes ------------------------------------------------------------------

RemoteAdd(fetch) ==
    /\ ~origin /\ origin' = TRUE
    /\ tracked' = IF fetch THEN [b \in Branches |-> remote[b]] ELSE tracked
    /\ UNCHANGED <<tips, remote, upstream, destroyed>>

RemoteRemove ==
    /\ origin /\ origin' = FALSE
    /\ tracked' = [b \in Branches |-> None] /\ upstream' = {}
    /\ UNCHANGED <<tips, remote, destroyed>>

SetUpstream(b) ==
    /\ origin /\ Exists(b) /\ tracked[b] # None /\ upstream' = upstream \cup {b}
    /\ UNCHANGED <<tips, remote, tracked, origin, destroyed>>

\* --- The stash ------------------------------------------------------------------

Stash ==
    /\ dirty /\ busy = "no" /\ Len(stash) < MaxStash
    /\ LET used == ToSet(stash) \cup (UNION {ToSet(seen[c].list) : c \in Clients}) \cup {taken.got, taken.wanted}
           e == CHOOSE n \in 1..(Cardinality(used) + 1) : n \notin used
       IN  stash' = <<e>> \o stash
    /\ seen' = [c \in Clients |-> [seen[c] EXCEPT !.fresh = FALSE]]
    /\ dirty' = FALSE
    /\ UNCHANGED taken

StashList(c) ==
    /\ seen' = [seen EXCEPT ![c] = [list |-> stash, fresh |-> TRUE]]
    /\ UNCHANGED <<stash, dirty, taken>>

\* Mutant of StashRef: the places are counted from one on one side and from zero on the other.
StashRefFromOne(c, i) == i + 1

\* The client names an entry by its place on the list it read.
StashRef(c, i) == i
RemoveEntry(c, i) ==
    LET j == StashRef(c, i) IN
    /\ i \in 1..Len(seen[c].list) /\ j \in 1..Len(stash)
    /\ taken' = [wanted |-> seen[c].list[i], got |-> stash[j], fresh |-> seen[c].fresh]
    /\ stash' = RemoveAt(stash, j)
    /\ seen' = [d \in Clients |-> [seen[d] EXCEPT !.fresh = FALSE]]

StashApply(c, i) ==
    /\ i \in 1..Len(seen[c].list) /\ StashRef(c, i) \in 1..Len(stash)
    /\ dirty' = TRUE /\ UNCHANGED <<stash, seen, taken>>
\* A pop that meets a conflict keeps the entry.
StashPop(c, i) == dirty' = TRUE /\ (RemoveEntry(c, i) \/ (dirty /\ UNCHANGED <<stash, seen, taken>>))
StashDrop(c, i) == RemoveEntry(c, i) /\ UNCHANGED dirty

\* --- Checkout and DeleteBranch: ask for the branch, act, publish --------------------

Begin(c, at, b, create, force, told) ==
    /\ Count /\ call[c].at = "idle"
    /\ call' = [call EXCEPT ![c] = [at |-> at, branch |-> b, from |-> None, create |-> create,
                                    force |-> force, told |-> told]]
    /\ crossed' = (crossed \/ (at = "checkout" /\ (~told \/ \E d \in Clients : call[d].at \in {"checkout", "switch", "publish"})))
    /\ UNCHANGED <<refs, cur, merge, dirty, stashes, shown>>

\* During a rebase HEAD is detached and the branch has no name.
CurrentBranch == IF busy = "rebase" THEN None ELSE cur

CheckoutFrom(c) ==
    /\ call[c].at = "checkout"
    /\ call' = [call EXCEPT ![c].at = "switch", ![c].from = CurrentBranch]
    /\ UNCHANGED <<refs, cur, merge, dirty, stashes, shown, crossed, calls>>

\* A name that exists only on the remote is created from there.
Switch(b, create) ==
    /\ busy = "no"
    /\ IF create THEN ~Exists(b) ELSE Exists(b) \/ tracked[b] # None
    /\ cur' = b
    /\ tips' = [tips EXCEPT ![b] = IF create THEN tips[cur] ELSE IF Exists(b) THEN @ ELSE tracked[b]]
    /\ upstream' = IF ~create /\ ~Exists(b) THEN upstream \cup {b} ELSE upstream

Checkout(c) ==
    /\ call[c].at = "switch"
    /\ \/ /\ Switch(call[c].branch, call[c].create)
          /\ call' = [call EXCEPT ![c].at = "publish"]
       \/ /\ busy # "no" \/ dirty \/ (call[c].create <=> Exists(call[c].branch))
          /\ call' = [call EXCEPT ![c] = NoCall]
          /\ UNCHANGED <<cur, tips, upstream>>
    /\ UNCHANGED <<remote, tracked, origin, destroyed, merge, dirty, stashes, shown, crossed, calls>>

\* GitCheckout of the session manager publishes git_branch_changed; the other two
\* ways to check out a branch do not.
GitCheckout(c) ==
    /\ call[c].at = "publish"
    /\ IF call[c].told /\ call[c].from # None /\ call[c].from # call[c].branch
       THEN shown' = call[c].branch ELSE UNCHANGED shown
    /\ crossed' = (crossed \/ call[c].from = None)
    /\ call' = [call EXCEPT ![c] = NoCall]
    /\ UNCHANGED <<refs, cur, merge, dirty, stashes, calls>>

DeleteLook(c) ==
    /\ call[c].at = "delete"
    /\ call' = [call EXCEPT ![c] = IF @.branch = CurrentBranch THEN NoCall ELSE [@ EXCEPT !.at = "remove"]]
    /\ UNCHANGED <<refs, cur, merge, dirty, stashes, shown, crossed, calls>>

\* git branch -d wants the branch merged into its upstream, or else into HEAD.
Merged(b) == tips[b] \subseteq (IF b \in upstream /\ tracked[b] # None THEN tracked[b] ELSE tips[cur])
\* Mutant of Flag: every branch is deleted by force.
FlagForce(c) == "-D"

Flag(c) == IF call[c].force THEN "-D" ELSE "-d"
DeleteBranch(c) ==
    /\ call[c].at = "remove"
    /\ LET b == call[c].branch IN
          IF Exists(b) /\ b # cur /\ (Flag(c) = "-D" \/ Merged(b))
          THEN /\ tips' = [tips EXCEPT ![b] = None] /\ upstream' = upstream \ {b}
               /\ UNCHANGED <<remote, tracked, origin>>
               /\ Forced(call[c].force)
          ELSE UNCHANGED refs
    /\ call' = [call EXCEPT ![c] = NoCall]
    /\ UNCHANGED <<cur, merge, dirty, stashes, shown, crossed, calls>>

\* --- The doors: workspace/git/*, git/* and HTTP -----------------------------------------

RefCall == Count /\ UNCHANGED <<cur, dirty, stashes, events>>

WorkspaceGitPush == RefCall /\ UNCHANGED merge /\ \E force, setUpstream \in BOOLEAN : Push(force, setUpstream)
GitServicePush == RefCall /\ UNCHANGED merge /\ Push(FALSE, FALSE)
HandleGitPush == RefCall /\ UNCHANGED merge /\ Push(FALSE, FALSE)
WorkspaceGitPull == RefCall /\ \E rebase \in BOOLEAN : Pull(rebase)
GitServicePull == RefCall /\ Pull(FALSE)
HandleGitPull == RefCall /\ Pull(FALSE)
WorkspaceGitFetch == RefCall /\ UNCHANGED merge /\ \E prune \in BOOLEAN : Fetch(prune)
WorkspaceGitMerge == RefCall /\ \E b \in Branches : Merge(b)
WorkspaceGitMergeAbort == RefCall /\ MergeAbort
WorkspaceGitRemoteAdd == RefCall /\ UNCHANGED merge /\ \E fetch \in BOOLEAN : RemoteAdd(fetch)
WorkspaceGitRemoteRemove == RefCall /\ UNCHANGED merge /\ RemoteRemove
WorkspaceGitSetUpstream == RefCall /\ UNCHANGED merge /\ \E b \in Branches : SetUpstream(b)

StashCall == Count /\ UNCHANGED <<refs, cur, merge, events>>

WorkspaceGitStash == StashCall /\ Stash
WorkspaceGitStashList(c) == StashCall /\ StashList(c)
WorkspaceGitStashApply(c) == StashCall /\ \E i \in 1..MaxStash : StashApply(c, i)
WorkspaceGitStashPop(c) == StashCall /\ \E i \in 1..MaxStash : StashPop(c, i)
WorkspaceGitStashDrop(c) == StashCall /\ \E i \in 1..MaxStash : StashDrop(c, i)

WorkspaceGitCheckout(c) == \E b \in Branches, create \in BOOLEAN : Begin(c, "checkout", b, create, FALSE, TRUE)
GitServiceCheckout(c) == \E b \in Branches : Begin(c, "checkout", b, FALSE, FALSE, FALSE)
HandleGitCheckout(c) == \E b \in Branches, create \in BOOLEAN : Begin(c, "checkout", b, create, FALSE, FALSE)
WorkspaceGitDeleteBranch(c) == \E b \in Branches, force \in BOOLEAN : Begin(c, "delete", b, FALSE, force, FALSE)

\* --- The others: Claude, the user at a terminal, the server ---------------------------------

Fresh(x) == x \in Changes \ Made

Edit ==
    /\ ~dirty /\ dirty' = TRUE
    /\ UNCHANGED <<refs, cur, merge, stashes, events, calls>>
\* A commit, or the one that ends a merge; a rebase is continued.
CommitOrResolve ==
    /\ \/ /\ busy = "no" /\ dirty /\ \E x \in Changes : Fresh(x) /\ tips' = [tips EXCEPT ![cur] = @ \cup {x}]
          /\ UNCHANGED merge /\ dirty' = FALSE
       \/ /\ busy # "no" /\ busy' = "no" /\ incoming' = {}
          /\ tips' = [tips EXCEPT ![cur] = @ \cup incoming]
          /\ UNCHANGED dirty
    /\ UNCHANGED <<cur, remote, tracked, origin, upstream, destroyed, stashes, events, calls>>
OthersPush ==
    /\ \E b \in Branches, x \in Changes :
          /\ Fresh(x) /\ remote[b] # None /\ remote' = [remote EXCEPT ![b] = @ \cup {x}]
    /\ UNCHANGED <<tips, tracked, origin, upstream, destroyed, cur, merge, dirty, stashes, events, calls>>

\* --- The system ---------------------------------------------------------------------------------

\* cdev is started on a repository with a commit, with or without a second branch,
\* a remote that has been fetched, an upstream and two stash entries.
Init ==
    /\ \E topic \in {None, {}} : tips = [b \in Branches |-> IF b = Main THEN {} ELSE topic]
    /\ cur = Main
    /\ remote = [b \in Branches |-> IF b = Main THEN {} ELSE None]
    /\ origin \in BOOLEAN
    /\ tracked = IF origin THEN remote ELSE [b \in Branches |-> None]
    /\ upstream \in IF origin THEN {{}, {Main}} ELSE {{}}
    /\ busy = "no" /\ incoming = {} /\ dirty = FALSE
    /\ stash \in {<<>>, <<2, 1>>}
    /\ seen = [c \in Clients |-> [list |-> <<>>, fresh |-> FALSE]]
    /\ taken = [wanted |-> 0, got |-> 0, fresh |-> FALSE]
    /\ call = [c \in Clients |-> NoCall]
    /\ shown = cur /\ crossed = FALSE
    /\ destroyed = {} /\ calls = 0

Call ==
    \/ WorkspaceGitPush \/ GitServicePush \/ HandleGitPush
    \/ WorkspaceGitPull \/ GitServicePull \/ HandleGitPull
    \/ WorkspaceGitFetch \/ WorkspaceGitMerge \/ WorkspaceGitMergeAbort
    \/ WorkspaceGitRemoteAdd \/ WorkspaceGitRemoteRemove \/ WorkspaceGitSetUpstream
    \/ WorkspaceGitStash
    \/ \E c \in Clients :
          \/ WorkspaceGitStashList(c) \/ WorkspaceGitStashApply(c)
          \/ WorkspaceGitStashPop(c) \/ WorkspaceGitStashDrop(c)
          \/ WorkspaceGitCheckout(c) \/ GitServiceCheckout(c) \/ HandleGitCheckout(c)
          \/ WorkspaceGitDeleteBranch(c)

Next ==
    \/ Call
    \/ \E c \in Clients : CheckoutFrom(c) \/ Checkout(c) \/ GitCheckout(c) \/ DeleteLook(c) \/ DeleteBranch(c)
    \/ Edit \/ CommitOrResolve \/ OthersPush

Spec == Init /\ [][Next]_vars

\* --- Properties -----------------------------------------------------------------------------------

\* A change once committed stays on some branch, here or on the server, unless a
\* client asked for force: no delete, push, pull, merge, fetch, checkout or remote
\* call loses it, whatever the other calls and the server do in between.
ChangesSurvive == [][Made \subseteq Made']_vars

\* As long as one workspace checkout runs at a time and finds the branch by name,
\* the git_branch_changed events name the branch that is checked out.
BranchIsShown ==
    (~crossed /\ \A c \in Clients : call[c].at = "idle") => shown = cur

\* A client that drops or pops a stash entry by the place it read removes that
\* entry, unless the stash has moved since it read it.
StashEntryIsMeant == taken.fresh => taken.wanted = taken.got
\* What clients are shown of the repository is what they act on: the branch of
\* the events is the one checked out, the stash entry read is the one dropped.
ShownIsMeant == BranchIsShown /\ StashEntryIsMeant
=============================================================================
