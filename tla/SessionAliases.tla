---------------------------- MODULE SessionAliases ----------------------------
(***************************************************************************)
(* Manager.sessionAliases of internal/session/manager.go: a map from an ID *)
(* a session had earlier to the ID that replaced it, how an ID is resolved *)
(* through it, and what updateSessionID does to it.                        *)
(***************************************************************************)
EXTENDS PartialFunctions

AliasIDs(a, id) == DOMAIN a \cup {a[x] : x \in DOMAIN a} \cup {id}

\* The IDs resolveSessionIDLocked visits when it starts from id: the least
\* set that has id and, with an alias, its target.
Visited(a, id) ==
    {x \in AliasIDs(a, id) :
        \A S \in SUBSET AliasIDs(a, id) :
            id \in S /\ (\A y \in S \cap DOMAIN a : a[y] \in S) => x \in S}

\* The loop stops at an ID without an alias, or with itself for one.
IsCanonical(a, id) == id \in DOMAIN a => a[id] = id

Canonical(a, id) == {x \in Visited(a, id) : IsCanonical(a, x)}

\* An ID the loop would come back to, and where it would first notice that:
\* at id itself, or where the cycle is entered from outside.
OnCycle(a, x) == x \in DOMAIN a /\ x \in Visited(a, a[x])
Entered(a, id) ==
    {x \in Visited(a, id) :
        /\ OnCycle(a, x)
        /\ x = id \/ \E y \in Visited(a, id) \cap DOMAIN a : a[y] = x /\ ~OnCycle(a, y)}

\* resolveSessionIDLocked.  There is always a place to stop, since the map is finite.
Stops(a, id) ==
    LET ends == Canonical(a, id) IN IF ends # {} THEN ends ELSE Entered(a, id)
Resolve(a, id) ==
    LET stops == Stops(a, id) IN IF stops = {} THEN id ELSE CHOOSE x \in stops : TRUE

\* Every ID with an alias leads to one at which the loop stops by itself.
Acyclic(a) == \A id \in DOMAIN a : Canonical(a, id) # {}

-----------------------------------------------------------------------------
\* The aliases after updateSessionID finds the real ID taken: temp and the
\* ID it resolved to are redirected.
Redirected(a, temp, resolved, real) == With(With(a, temp, real), resolved, real)

\* Mutant of Renamed: the ID that is given up gets no alias of its own.
RenamedOthers(a, temp, resolved, real) ==
    [x \in DOMAIN a |-> IF a[x] = resolved THEN real ELSE a[x]]

\* The aliases after updateSessionID gives a session the ID real: whatever
\* led to its old ID now leads to the new one.
Renamed(a, temp, resolved, real) ==
    LET b == Redirected(a, temp, resolved, real)
    IN  [x \in DOMAIN b |-> IF b[x] = resolved THEN real ELSE b[x]]
=============================================================================
