-------------------------- MODULE PermissionPromise ---------------------------
(***************************************************************************)
(* What the permission bridge promises, without its maps, channels, locks  *)
(* and timers: a request is asked once and closed once; while it is open a *)
(* phone may answer it, at most once; and it is closed with the answer it  *)
(* was given, with what a phone told the daemon to remember for the same   *)
(* session, or with a default that never allows anything.                  *)
(*                                                                         *)
(* Module PermissionBridge implements it.                                  *)
(***************************************************************************)
CONSTANTS Request, Invocation, Answer, PatternOf, Matches, None

VARIABLES
    asked,      \* asked[r]: the invocation of r, None before
    answered,   \* answered[r]: the answer a phone gave to r, or None
    verdict     \* verdict[r]: what the hook was told, or None

pvars == <<asked, answered, verdict>>

Init ==
    /\ asked = [r \in Request |-> None]
    /\ answered = [r \in Request |-> None]
    /\ verdict = [r \in Request |-> None]

Open(r) == asked[r] # None /\ verdict[r] = None

Ask(r) ==
    /\ asked[r] = None
    /\ \E inv \in Invocation : asked' = [asked EXCEPT ![r] = inv]
    /\ UNCHANGED <<answered, verdict>>

\* Claude runs with permissions bypassed: asked and allowed in one step.
AskBypassed(r) ==
    /\ asked[r] = None
    /\ \E inv \in Invocation : asked' = [asked EXCEPT ![r] = inv]
    /\ verdict' = [verdict EXCEPT ![r] = [by |-> "bypass", decision |-> "allow"]]
    /\ UNCHANGED answered

AnswerRequest(r) ==
    /\ Open(r)
    /\ answered[r] = None
    /\ \E a \in Answer : answered' = [answered EXCEPT ![r] = a]
    /\ UNCHANGED <<asked, verdict>>

Close(r, by, decision) ==
    /\ Open(r)
    /\ verdict' = [verdict EXCEPT ![r] = [by |-> by, decision |-> decision]]
    /\ UNCHANGED <<asked, answered>>

CloseAnswered(r) ==
    /\ answered[r] # None
    /\ Close(r, "client", answered[r].decision)

\* The pattern of q, answered for its session, covers the call of r.
Covers(q, r) ==
    /\ answered[q] # None
    /\ answered[q].scope = "session"
    /\ asked[q].session = asked[r].session
    /\ LET p == PatternOf[asked[q].call]
       IN  p = PatternOf[asked[r].call] \/ <<p, asked[r].call>> \in Matches

CloseRemembered(r) ==
    \E q \in Request : /\ asked[q] # None
                       /\ asked[r] # None
                       /\ Covers(q, r)
                       /\ Close(r, "memory", answered[q].decision)

CloseByDefault(r) ==
    \E by \in {"no_clients", "timeout", "cancelled"}, d \in {"deny", "ask"} :
        Close(r, by, d)

Next ==
    \E r \in Request : \/ Ask(r)
                       \/ AskBypassed(r)
                       \/ AnswerRequest(r)
                       \/ CloseAnswered(r)
                       \/ CloseRemembered(r)
                       \/ CloseByDefault(r)

Spec == Init /\ [][Next]_pvars
=============================================================================
