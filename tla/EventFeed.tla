------------------------------- MODULE EventFeed -------------------------------
(***************************************************************************)
(* What the event hub promises a client: events reach it in the order in   *)
(* which they were published, none of them twice.  Some may be left out.   *)
(***************************************************************************)
EXTENDS Integers, Sequences

CONSTANTS Client, Topic

VARIABLES
    log,   \* the events that were published, each with its topic
    feed   \* feed[c]: the positions in log of the events client c was sent

vars == <<log, feed>>

Last(s) == s[Len(s)]

Init ==
    /\ log = <<>>
    /\ feed = [c \in Client |-> <<>>]

Publish(t) ==
    /\ log' = Append(log, t)
    /\ UNCHANGED feed

\* Client c is sent event e, which is newer than all it was sent.
Deliver(c, e) ==
    /\ e \in 1..Len(log)
    /\ feed[c] # <<>> => Last(feed[c]) < e
    /\ feed' = [feed EXCEPT ![c] = Append(@, e)]
    /\ UNCHANGED log

Next ==
    \/ \E t \in Topic : Publish(t)
    \/ \E c \in Client, e \in 1..Len(log) : Deliver(c, e)

Spec == Init /\ [][Next]_vars
=============================================================================
