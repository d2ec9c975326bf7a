-------------------------- MODULE MCPermissionBridge --------------------------
(***************************************************************************)
(* Small instances of PermissionBridge.  Calls: "gitpush" generates the    *)
(* pattern "git push:*", plain "git" the wider "git:*" that also matches   *)
(* the former, "rm" the pattern "rm:*" that matches neither.               *)
(***************************************************************************)
EXTENDS PermissionBridge, TLC

CONSTANTS r1, r2, p1, p2, s1, s2, t1, t2

MCCall == {"gitpush", "git", "rm"}
MCPattern == {"git push:*", "git:*", "rm:*"}
MCPatternOf == [c \in MCCall |-> CASE c = "gitpush" -> "git push:*"
                                   [] c = "git" -> "git:*"
                                   [] c = "rm" -> "rm:*"]
MCMatches == {<<"git push:*", "gitpush">>, <<"git:*", "gitpush">>,
              <<"git:*", "git">>, <<"rm:*", "rm">>}

Hook(t, s, c, v) == [tool |-> t, session |-> s, call |-> c, via |-> v]

\* Two hooks that may share a tool-use ID, over both transports.
Twins ==
    <<Hook(t1, s1, "rm", "rpc"), Hook(t1, s1, "rm", "http"), Hook(t2, s1, "git", "http"),
      Hook(t2, s2, "rm", "http")>>
TwinInvocations == {Twins[n] : n \in DOMAIN Twins}

-----------------------------------------------------------------------------
(***************************************************************************)
(* The hooks are alike, and so are the phones: of the calls of two hooks   *)
(* the one that Twins lists first is of r1, and the phone that joins when  *)
(* no other is there is p1.                                                *)
(***************************************************************************)
Place(inv) == CHOOSE n \in DOMAIN Twins : Twins[n] = inv

MCNext ==
    /\ Next
    /\ None \notin {req'[r1], req'[r2]} => Place(req'[r1]) <= Place(req'[r2])
    /\ p2 \in phones' => {p1, p2} \cap phones # {} \/ cl[p1] # None \/ cl[p2] # None

MCSpec == Init /\ [][MCNext]_vars /\ Fairness
=============================================================================
