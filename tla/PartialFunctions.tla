--------------------------- MODULE PartialFunctions ---------------------------
(***************************************************************************)
(* Go maps as functions: a map from X to Y is a function whose domain is   *)
(* the set of keys that are present.                                       *)
(***************************************************************************)

\* f is a function from some of X to Y.
Partial(f, X, Y) == DOMAIN f \subseteq X /\ f \in [DOMAIN f -> Y]

\* delete(f, x)
Without(f, x) == [y \in DOMAIN f \ {x} |-> f[y]]

\* f[x] = v
With(f, x, v) == [y \in DOMAIN f \cup {x} |-> IF y = x THEN v ELSE f[y]]

EmptyFunction == [x \in {} |-> x]

\* The entries of f whose keys are in S.
Only(f, S) == [y \in DOMAIN f \cap S |-> f[y]]
=============================================================================
