--------------------------- MODULE PermissionMemory ---------------------------
(***************************************************************************)
(* The "Allow for Session" memory of internal/permission/memory.go: for    *)
(* every Claude session a map from tool patterns to remembered decisions,  *)
(* with at most MaxPatterns entries.                                       *)
(*                                                                         *)
(* A memory is a function whose domain is the set of sessions that have an *)
(* entry in MemoryManager.sessions; `decisions' is StoredDecision by       *)
(* pattern, `at' stands for CreatedAt (a store counter in place of the     *)
(* clock: only its order is used) and `idle' is true once LastAccess lies  *)
(* more than the TTL in the past.  UsageCount is only reported and is left *)
(* out.                                                                    *)
(***************************************************************************)
EXTENDS Naturals, FiniteSets, PartialFunctions

CONSTANTS
    Session,        \* Claude session IDs
    Pattern,        \* tool patterns, e.g. Bash(git push:*)
    Call,           \* tool invocations (tool name and input)
    PatternOf,      \* GeneratePattern: the pattern a call is remembered under
    Matches,        \* MatchPattern: the pairs <<pattern, call>> that match
    MaxPatterns     \* SessionMemoryConfig.MaxPatterns

ASSUME PatternAssumption ==
    /\ PatternOf \in [Call -> Pattern]
    /\ Matches \subseteq Pattern \X Call

\* The configuration's default is 100; with 0 the code would still keep one.
ASSUME MaxPatternsAssumption == MaxPatterns \in Nat \ {0}

Decision == {"allow", "deny"}

StoredDecision == [decision : Decision, at : Nat]

IsSessionMemory(m) ==
    /\ m = [decisions |-> m.decisions, idle |-> m.idle]
    /\ Partial(m.decisions, Pattern, StoredDecision)
    /\ m.idle \in BOOLEAN

IsMemory(mem) ==
    /\ DOMAIN mem \subseteq Session
    /\ mem = [s \in DOMAIN mem |-> mem[s]]
    /\ \A s \in DOMAIN mem : IsSessionMemory(mem[s])

-----------------------------------------------------------------------------
\* The decisions a session remembers: none if it has no memory.
Remembered(mem, s) ==
    IF s \in DOMAIN mem THEN mem[s].decisions ELSE EmptyFunction

-----------------------------------------------------------------------------
\* Mutant of Lookup: the memory of every session is searched.
LookupAnySession(mem, s, call) ==
    {mem[t].decisions[PatternOf[call]].decision :
        t \in {u \in DOMAIN mem : PatternOf[call] \in DOMAIN mem[u].decisions}}

(***************************************************************************)
(* CheckMemory.  The pattern the call itself generates comes first; failing*)
(* that, any stored pattern that matches the call, in Go's arbitrary map   *)
(* order: the result is the set of decisions CheckMemory can return, empty *)
(* when it returns nil.                                                    *)
(***************************************************************************)
Lookup(mem, s, call) ==
    LET known == Remembered(mem, s)
        exact == PatternOf[call]
    IN  IF exact \in DOMAIN known
        THEN {known[exact].decision}
        ELSE {known[p].decision :
                p \in {q \in DOMAIN known : <<q, call>> \in Matches}}

\* A session's memory with its idle flag set anew.
Marked(mem, s, idle) ==
    With(mem, s, [decisions |-> mem[s].decisions, idle |-> idle])

\* CheckMemory also refreshes LastAccess of a session that has a memory.
Touch(mem, s) == IF s \in DOMAIN mem THEN Marked(mem, s, FALSE) ELSE mem

\* The patterns whose decision was created first.
Oldest(known) ==
    {p \in DOMAIN known : \A q \in DOMAIN known : known[p].at =< known[q].at}

(***************************************************************************)
(* The eviction in StoreDecision.  A full map loses its oldest entry, even *)
(* when the pattern about to be stored is already in it.                   *)
(***************************************************************************)
Evicted(known) ==
    IF Cardinality(DOMAIN known) >= MaxPatterns
    THEN {Without(known, p) : p \in Oldest(known)}
    ELSE {known}

(***************************************************************************)
(* StoreDecision: the memories it can leave behind.  The `now' of the      *)
(* stored entry is larger than that of every earlier one.                  *)
(***************************************************************************)
Stored(mem, s, p, d, now) ==
    {With(mem, s, [decisions |-> With(kept, p, [decision |-> d, at |-> now]),
                   idle |-> FALSE]) : kept \in Evicted(Remembered(mem, s))}

\* cleanup: every session whose TTL has passed loses its memory.
Cleaned(mem) == [s \in {t \in DOMAIN mem : ~mem[t].idle} |-> mem[s]]
=============================================================================
