----------------------------- MODULE GoMaps_proofs -----------------------------
(***************************************************************************)
(* What the operations on Go maps keep and change, and what resolving and  *)
(* renaming do to the map of session aliases, for every set I of IDs.      *)
(***************************************************************************)
EXTENDS SessionAliases, TLAPS

-----------------------------------------------------------------------------
(* Maps *)

\* With keeps a partial function one, when the new point and value fit.
LEMMA WithPartial ==
    ASSUME NEW f, NEW X, NEW Y, NEW x \in X, NEW y \in Y, Partial(f, X, Y)
    PROVE  Partial(With(f, x, y), X, Y)
  BY DEF Partial, With

\* Without keeps a partial function one.
LEMMA WithoutPartial ==
    ASSUME NEW f, NEW X, NEW Y, NEW x, Partial(f, X, Y)
    PROVE  Partial(Without(f, x), X, Y)
  BY DEF Partial, Without

\* Only keeps a partial function one.
LEMMA OnlyPartial ==
    ASSUME NEW f, NEW X, NEW Y, NEW S, Partial(f, X, Y)
    PROVE  Partial(Only(f, S), X, Y)
  BY DEF Partial, Only

\* The empty function is a partial function.
LEMMA EmptyPartial ==
    ASSUME NEW X, NEW Y
    PROVE  Partial(EmptyFunction, X, Y)
  BY DEF Partial, EmptyFunction

\* An entry of a partial function is of its range.
LEMMA PartialApplication ==
    ASSUME NEW f, NEW X, NEW Y, Partial(f, X, Y), NEW x \in DOMAIN f
    PROVE  x \in X /\ f[x] \in Y
  BY DEF Partial

-----------------------------------------------------------------------------
(* Aliases: the types *)

\* Resolving an ID ends at one that is visited.
LEMMA ResolveVisits ==
    ASSUME NEW a, NEW id
    PROVE  Resolve(a, id) \in Visited(a, id) \cup {id}
  <1>1. Stops(a, id) \subseteq Visited(a, id)
    BY DEF Stops, Canonical, Entered
  <1>2. CASE Stops(a, id) = {}
    BY <1>2 DEF Resolve
  <1>3. CASE Stops(a, id) # {}
    BY <1>1, <1>3 DEF Resolve
  <1> QED
    BY <1>2, <1>3

\* Resolving an ID ends at that ID, at an alias or at the target of one.
LEMMA ResolveEnds ==
    ASSUME NEW a, NEW id
    PROVE  Resolve(a, id) \in AliasIDs(a, id)
  BY ResolveVisits DEF Visited, AliasIDs

\* Resolving an ID gives an ID.
LEMMA ResolveType ==
    ASSUME NEW I, NEW a, Partial(a, I, I), NEW id \in I
    PROVE  Resolve(a, id) \in I
  <1>1. AliasIDs(a, id) \subseteq I
    BY DEF AliasIDs, Partial
  <1> QED
    BY <1>1, ResolveEnds

\* Redirecting leads from IDs to IDs.
LEMMA RedirectedType ==
    ASSUME NEW I, NEW a, Partial(a, I, I), NEW t \in I, NEW o \in I, NEW r \in I
    PROVE  Partial(Redirected(a, t, o, r), I, I)
  <1>1. Partial(With(a, t, r), I, I)
    BY WithPartial
  <1> QED
    BY <1>1, WithPartial DEF Redirected

\* Renaming leads from IDs to IDs.
LEMMA RenamedType ==
    ASSUME NEW I, NEW a, Partial(a, I, I), NEW t \in I, NEW o \in I, NEW r \in I
    PROVE  Partial(Renamed(a, t, o, r), I, I)
  <1>1. Partial(Redirected(a, t, o, r), I, I)
    BY RedirectedType
  <1>2. \A x \in DOMAIN Renamed(a, t, o, r) : Renamed(a, t, o, r)[x] \in I
    BY <1>1 DEF Partial, Renamed
  <1> QED
    BY <1>1, <1>2 DEF Partial, Renamed

-----------------------------------------------------------------------------
(* Aliases: the IDs that are visited *)

\* The loop visits the ID it starts from.
LEMMA VisitedStarts ==
    ASSUME NEW a, NEW id
    PROVE  id \in Visited(a, id)
  BY DEF Visited, AliasIDs

\* Where the loop visits an alias it visits its target.
LEMMA VisitedGoesOn ==
    ASSUME NEW a, NEW id, NEW x \in Visited(a, id), x \in DOMAIN a
    PROVE  a[x] \in Visited(a, id)
  BY DEF Visited, AliasIDs

\* It visits nothing outside a set that holds the ID and every alias's target.
LEMMA VisitedStays ==
    ASSUME NEW a, NEW id, NEW S, id \in S, \A y \in S \cap DOMAIN a : a[y] \in S
    PROVE  Visited(a, id) \subseteq S
  <1> DEFINE T == S \cap AliasIDs(a, id)
  <1>1. T \in SUBSET AliasIDs(a, id) /\ id \in T
    BY DEF AliasIDs
  <1>2. \A y \in T \cap DOMAIN a : a[y] \in T
    BY DEF AliasIDs
  <1> HIDE DEF T
  <1>3. Visited(a, id) \subseteq T
    BY <1>1, <1>2 DEF Visited
  <1> QED
    BY <1>3 DEF T

\* From an ID that is visited the loop visits nothing else.
LEMMA VisitedFrom ==
    ASSUME NEW a, NEW id, NEW x \in Visited(a, id)
    PROVE  Visited(a, x) \subseteq Visited(a, id)
  BY VisitedGoesOn, VisitedStays

\* An alias itself comes first, then whatever is visited from its target.
LEMMA VisitedNext ==
    ASSUME NEW a, NEW id \in DOMAIN a
    PROVE  Visited(a, id) = {id} \cup Visited(a, a[id])
  <1>1. Visited(a, id) \subseteq {id} \cup Visited(a, a[id])
    <2> DEFINE S == {id} \cup Visited(a, a[id])
    <2>1. \A y \in S \cap DOMAIN a : a[y] \in S
      BY VisitedStarts, VisitedGoesOn
    <2>2. id \in S
      OBVIOUS
    <2> HIDE DEF S
    <2>3. Visited(a, id) \subseteq S
      BY <2>1, <2>2, VisitedStays
    <2> QED
      BY <2>3 DEF S
  <1>2. id \in Visited(a, id) /\ a[id] \in Visited(a, id)
    BY VisitedStarts, VisitedGoesOn
  <1> QED
    BY <1>1, <1>2, VisitedFrom

\* Of two IDs the loop visits it visits one from the other.
LEMMA VisitedInOrder ==
    ASSUME NEW a, NEW id, NEW x \in Visited(a, id), NEW y \in Visited(a, id)
    PROVE  x \in Visited(a, y) \/ y \in Visited(a, x)
  <1> DEFINE S == {p \in Visited(a, id) :
                     \A q \in Visited(a, id) : p \in Visited(a, q) \/ q \in Visited(a, p)}
  <1>1. id \in S
    BY VisitedStarts
  <1>2. ASSUME NEW p \in S \cap DOMAIN a
        PROVE  a[p] \in S
    <2>1. p \in Visited(a, id) /\ a[p] \in Visited(a, id)
      BY VisitedGoesOn
    <2>2. ASSUME NEW q \in Visited(a, id)
          PROVE  a[p] \in Visited(a, q) \/ q \in Visited(a, a[p])
      <3>1. CASE p \in Visited(a, q)
        BY <3>1, VisitedGoesOn
      <3>2. CASE q \in Visited(a, p) /\ q # p
        BY <3>2, VisitedNext
      <3>3. CASE q = p
        BY <3>3, VisitedStarts, VisitedGoesOn
      <3> QED
        BY <3>1, <3>2, <3>3
    <2> QED
      BY <2>1, <2>2
  <1>3. Visited(a, id) \subseteq S
    <2> HIDE DEF S
    <2> QED
      BY <1>1, <1>2, VisitedStays
  <1> QED
    BY <1>3

\* Nothing else is visited from an ID at which the loop stops by itself.
LEMMA VisitedOfCanonical ==
    ASSUME NEW a, NEW c, IsCanonical(a, c)
    PROVE  Visited(a, c) = {c}
  <1>1. Visited(a, c) \subseteq {c}
    BY VisitedStays, ZenonT(40) DEF IsCanonical
  <1> QED
    BY <1>1, VisitedStarts

\* There is at most one ID at which the loop stops by itself.
LEMMA CanonicalIsOne ==
    ASSUME NEW a, NEW id, NEW c \in Canonical(a, id), NEW d \in Canonical(a, id)
    PROVE  c = d
  <1>1. c \in Visited(a, d) \/ d \in Visited(a, c)
    BY VisitedInOrder DEF Canonical
  <1> QED
    BY <1>1, VisitedOfCanonical DEF Canonical

\* It is the one the ID resolves to.
LEMMA ResolveIsCanonical ==
    ASSUME NEW a, NEW id, NEW c \in Canonical(a, id)
    PROVE  Resolve(a, id) = c
  <1>1. Stops(a, id) = Canonical(a, id)
    BY DEF Stops
  <1>2. Resolve(a, id) \in Canonical(a, id)
    BY <1>1 DEF Resolve
  <1> QED
    BY <1>2, CanonicalIsOne

\* Without circles every ID resolves to one at which the loop stops by itself.
LEMMA AcyclicResolves ==
    ASSUME NEW a, NEW id, Acyclic(a)
    PROVE  Resolve(a, id) \in Canonical(a, id)
  <1>1. Canonical(a, id) # {}
    <2>1. CASE id \in DOMAIN a
      BY <2>1 DEF Acyclic
    <2>2. CASE id \notin DOMAIN a
      BY <2>2, VisitedStarts DEF Canonical, IsCanonical
    <2> QED
      BY <2>1, <2>2
  <1> QED
    BY <1>1, ResolveIsCanonical

\* Without circles every ID that is visited resolves alike.
LEMMA VisitedResolvesAlike ==
    ASSUME NEW a, NEW id, NEW x \in Visited(a, id), Acyclic(a)
    PROVE  Resolve(a, x) = Resolve(a, id)
  <1>1. Resolve(a, x) \in Canonical(a, x)
    BY AcyclicResolves
  <1>2. Resolve(a, x) \in Canonical(a, id)
    BY <1>1, VisitedFrom DEF Canonical
  <1> QED
    BY <1>2, ResolveIsCanonical

-----------------------------------------------------------------------------
(* Aliases: what redirecting and renaming do to where IDs lead *)

\* b is a with some of what leads to old sent on to real, old included.
Rewritten(a, b, old, real) ==
    /\ \A z : Resolve(a, z) # old =>
          (z \in DOMAIN a <=> z \in DOMAIN b) /\ (z \in DOMAIN a => b[z] = a[z])
    /\ \A z \in DOMAIN a : z \in DOMAIN b /\ b[z] \in {a[z], real}
    /\ old = real \/ (old \in DOMAIN b /\ b[old] = real)

\* An ID that led elsewhere resolves as before.
LEMMA RewrittenElsewhere ==
    ASSUME NEW a, NEW b, NEW old, NEW real, Acyclic(a), Acyclic(b),
           Rewritten(a, b, old, real), NEW x, Resolve(a, x) # old
    PROVE  Resolve(b, x) = Resolve(a, x)
  <1> DEFINE V == Visited(a, x)
  <1>1. x \in V
    BY VisitedStarts
  <1>2. \A z \in V : Resolve(a, z) # old
    BY VisitedResolvesAlike
  <1>3. \A z \in V \cap DOMAIN b : b[z] \in V
    BY <1>2, VisitedGoesOn DEF Rewritten
  <1>4. Visited(b, x) \subseteq V
    <2> HIDE DEF V
    <2> QED
      BY <1>1, <1>3, VisitedStays
  <1>5. Resolve(b, x) \in Canonical(b, x)
    BY AcyclicResolves
  <1>6. Resolve(b, x) \in V /\ IsCanonical(b, Resolve(b, x))
    BY <1>4, <1>5 DEF Canonical
  <1>7. Resolve(b, x) \in Canonical(a, x)
    BY <1>2, <1>6 DEF Canonical, IsCanonical, Rewritten
  <1> QED
    BY <1>7, ResolveIsCanonical

\* An ID that led to old resolves as real does.
LEMMA RewrittenHere ==
    ASSUME NEW a, NEW b, NEW old, NEW real, Acyclic(a), Acyclic(b),
           Rewritten(a, b, old, real), NEW x, Resolve(a, x) = old
    PROVE  Resolve(b, x) = Resolve(b, real)
  <1> DEFINE V == Visited(b, x)
  <1>1. SUFFICES ASSUME real \notin V PROVE FALSE
    BY VisitedResolvesAlike
  <1>2. x \in V
    BY VisitedStarts
  <1>3. \A z \in V \cap DOMAIN a : a[z] \in V
    BY <1>1, VisitedGoesOn DEF Rewritten
  <1>4. Visited(a, x) \subseteq V
    <2> HIDE DEF V
    <2> QED
      BY <1>2, <1>3, VisitedStays
  <1>5. old \in V
    BY <1>4, AcyclicResolves DEF Canonical
  <1> QED
    BY <1>1, <1>5, VisitedGoesOn DEF Rewritten

\* IDs that led to one session go on to.
LEMMA RewrittenKeepsJoins ==
    ASSUME NEW a, NEW b, NEW old, NEW real, Acyclic(a), Acyclic(b),
           Rewritten(a, b, old, real), NEW x, NEW y, Resolve(a, x) = Resolve(a, y)
    PROVE  Resolve(b, x) = Resolve(b, y)
  BY RewrittenElsewhere, RewrittenHere

\* Giving an ID that resolves to real an alias for it does that.
LEMMA WithRewrites ==
    ASSUME NEW a, NEW t, NEW real, Acyclic(a), Resolve(a, t) = real
    PROVE  Rewritten(a, With(a, t, real), real, real)
  BY DEF Rewritten, With

\* The ID an alias leads to resolves to itself.
LEMMA ResolvesToItself ==
    ASSUME NEW a, NEW t, Acyclic(a)
    PROVE  Resolve(a, Resolve(a, t)) = Resolve(a, t)
  BY AcyclicResolves, VisitedResolvesAlike DEF Canonical

\* So does redirecting an ID and what it resolves to.
LEMMA RedirectedRewrites ==
    ASSUME NEW a, NEW t, NEW real, Acyclic(a)
    PROVE  Rewritten(a, Redirected(a, t, Resolve(a, t), real), Resolve(a, t), real)
  <1> DEFINE old == Resolve(a, t)
             b == Redirected(a, t, old, real)
  <1>1. Resolve(a, old) = old
    BY ResolvesToItself
  <1>2. /\ DOMAIN b = DOMAIN a \cup {t, old}
        /\ \A z \in DOMAIN b : b[z] = IF z \in {t, old} THEN real ELSE a[z]
    BY DEF Redirected, With
  <1> HIDE DEF b
  <1>3. Rewritten(a, b, old, real)
    BY <1>1, <1>2 DEF Rewritten
  <1> QED
    BY <1>3 DEF b

\* And so does renaming.
LEMMA RenamedRewrites ==
    ASSUME NEW a, NEW t, NEW real, Acyclic(a)
    PROVE  Rewritten(a, Renamed(a, t, Resolve(a, t), real), Resolve(a, t), real)
  <1> DEFINE old == Resolve(a, t)
             r == Redirected(a, t, old, real)
             b == Renamed(a, t, old, real)
  <1>1. Resolve(a, old) = old
    BY ResolvesToItself
  <1>2. /\ DOMAIN r = DOMAIN a \cup {t, old}
        /\ \A z \in DOMAIN r : r[z] = IF z \in {t, old} THEN real ELSE a[z]
    BY DEF Redirected, With
  <1>3. /\ DOMAIN b = DOMAIN r
        /\ \A z \in DOMAIN b : b[z] = IF r[z] = old THEN real ELSE r[z]
    BY DEF Renamed
  <1>4. \A z \in DOMAIN a : a[z] = old => Resolve(a, z) = old
    <2>1. ASSUME NEW z \in DOMAIN a, a[z] = old PROVE Resolve(a, z) = old
      <3>1. a[z] \in Visited(a, z)
        BY VisitedStarts, VisitedGoesOn
      <3> QED
        BY <1>1, <2>1, <3>1, VisitedResolvesAlike
    <2> QED
      BY <2>1
  <1> HIDE DEF r, b, old
  <1>5. /\ DOMAIN b = DOMAIN a \cup {t, old}
        /\ \A z \in DOMAIN b : b[z] = IF z \in {t, old} \/ a[z] = old THEN real ELSE a[z]
    BY <1>2, <1>3
  <1>6. Resolve(a, t) = old
    BY DEF old
  <1>7. Rewritten(a, b, old, real)
    <2>1. \A z : Resolve(a, z) # old =>
             (z \in DOMAIN a <=> z \in DOMAIN b) /\ (z \in DOMAIN a => b[z] = a[z])
      BY <1>1, <1>4, <1>5, <1>6
    <2>2. \A z \in DOMAIN a : z \in DOMAIN b /\ b[z] \in {a[z], real}
      BY <1>5
    <2>3. old \in DOMAIN b /\ b[old] = real
      BY <1>5
    <2> QED
      BY <2>1, <2>2, <2>3 DEF Rewritten
  <1> QED
    BY <1>7 DEF b, r, old

\* Where every target leads on and loops are filed, an ID in use resolves to
\* one that is filed (filed: the set F).
LEMMA EndsAreFiled ==
    ASSUME NEW a, NEW F, Acyclic(a),
           \A x \in DOMAIN a : a[x] \in DOMAIN a \cup F,
           \A x \in DOMAIN a : a[x] = x => x \in F,
           NEW id \in DOMAIN a \cup F
    PROVE  Resolve(a, id) \in F
  <1> DEFINE S == DOMAIN a \cup F
  <1>1. id \in S /\ \A y \in S \cap DOMAIN a : a[y] \in S
    OBVIOUS
  <1>2. Visited(a, id) \subseteq S
    <2> HIDE DEF S
    <2> QED
      BY <1>1, VisitedStays
  <1>3. Resolve(a, id) \in S /\ IsCanonical(a, Resolve(a, id))
    BY <1>2, AcyclicResolves DEF Canonical
  <1> QED
    BY <1>3 DEF IsCanonical

\* What is not an alias resolves to itself; an alias for it resolves to it.
LEMMA ResolvesAtOnce ==
    ASSUME NEW a, NEW x, x \notin DOMAIN a
    PROVE  /\ Resolve(a, x) = x
           /\ \A y \in DOMAIN a : a[y] = x => Resolve(a, y) = x
  <1>1. x \in Canonical(a, x)
    BY VisitedStarts DEF Canonical, IsCanonical
  <1>2. ASSUME NEW y \in DOMAIN a, a[y] = x PROVE Resolve(a, y) = x
    <2>1. x \in Canonical(a, y)
      BY <1>2, VisitedStarts, VisitedGoesOn DEF Canonical, IsCanonical
    <2> QED
      BY <2>1, ResolveIsCanonical
  <1> QED
    BY <1>1, <1>2, ResolveIsCanonical

\* Aliases that do not lead into T from outside resolve outside T.
LEMMA ResolvesOutside ==
    ASSUME NEW a, NEW T, NEW id, id \notin T,
           \A x \in DOMAIN a \ T : a[x] \notin T
    PROVE  Resolve(a, id) \notin T
  <1> DEFINE S == AliasIDs(a, id) \ T
  <1>1. id \in S /\ \A y \in S \cap DOMAIN a : a[y] \in S
    BY DEF AliasIDs
  <1>2. Visited(a, id) \subseteq S
    <2> HIDE DEF S
    <2> QED
      BY <1>1, VisitedStays
  <1> QED
    BY <1>2, ResolveVisits
=============================================================================
