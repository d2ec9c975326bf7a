----------------------------- MODULE RateLimiter -----------------------------
(***************************************************************************)
(* The sliding-window limiter in front of the HTTP server, the uploads and *)
(* the WebSocket messages.  Time is counted in ticks; a key's bucket holds *)
(* the times of the requests let through, each with a number of its own,   *)
(* for two may have come at one time.  The cleanup loop throws away        *)
(* buckets nobody asked for during two windows, at any moment the ticker   *)
(* gives it, and a refused WebSocket message closes its connection.        *)
(***************************************************************************)
EXTENDS Naturals, FiniteSets, PartialFunctions

CONSTANTS
    Keys,            \* clients' addresses
    Conns,           \* WebSocket connections
    MaxRequests,
    Window,          \* ticks
    MaxTime          \* bound: ticks

ASSUME RateAssumption == MaxRequests \in Nat /\ Window \in Nat \ {0}

VARIABLES
    now,
    buckets,         \* key -> the times of its accepted requests, and lastAccess
    conn,            \* the key of each connection, or "closed"
    accepted,        \* history: the requests accepted within the last window, by key
    refused          \* history: the keys refused since the last tick

rateVars == <<now, buckets, conn, accepted, refused>>

\* Those of the requests that are less than a window old, and one more.
Within(requests) == {r \in requests : r.at + Window > now}
WithOneMore(requests) == requests \cup {[at |-> now, number |-> Cardinality(requests) + 1]}

\* Whether a request is let through; the bucket is made when there is none.
Allow(k) ==
    LET valid == IF k \in DOMAIN buckets THEN Within(buckets[k].timestamps) ELSE {} IN
    IF Cardinality(valid) < MaxRequests
    THEN /\ buckets' = With(buckets, k, [timestamps |-> WithOneMore(valid), lastAccess |-> now])
         /\ accepted' = [accepted EXCEPT ![k] = WithOneMore(@)]
         /\ UNCHANGED refused
    ELSE /\ buckets' = With(buckets, k, [timestamps |-> valid, lastAccess |-> now])
         /\ refused' = refused \cup {k}
         /\ UNCHANGED accepted

RateLimitMiddleware(k) == Allow(k) /\ UNCHANGED <<now, conn>>

Upgrade(c, k) ==
    /\ conn[c] = "closed" /\ conn' = [conn EXCEPT ![c] = k]
    /\ UNCHANGED <<now, buckets, accepted, refused>>
Hangup(c) ==
    /\ conn[c] # "closed" /\ conn' = [conn EXCEPT ![c] = "closed"]
    /\ UNCHANGED <<now, buckets, accepted, refused>>
\* One message of a connection: over the limit, the connection is closed.
ReadMessage(c) ==
    /\ conn[c] # "closed" /\ Allow(conn[c])
    /\ conn' = IF accepted' = accepted THEN [conn EXCEPT ![c] = "closed"] ELSE conn
    /\ UNCHANGED now

\* Mutant of Cleanup: a bucket goes as soon as nobody asked for it during a tick.
CleanupEarly ==
    /\ buckets' = Only(buckets, {k \in DOMAIN buckets : buckets[k].lastAccess >= now})
    /\ UNCHANGED <<now, conn, accepted, refused>>

\* The cleanup loop.
Cleanup ==
    /\ buckets' = Only(buckets, {k \in DOMAIN buckets : buckets[k].lastAccess + 2 * Window >= now})
    /\ UNCHANGED <<now, conn, accepted, refused>>

RateTick ==
    /\ now < MaxTime /\ now' = now + 1
    /\ accepted' = [k \in Keys |-> {r \in accepted[k] : r.at + Window > now + 1}]
    /\ refused' = {}
    /\ UNCHANGED <<buckets, conn>>

RateInit ==
    /\ now = 1 /\ buckets = EmptyFunction /\ conn = [c \in Conns |-> "closed"]
    /\ accepted = [k \in Keys |-> {}] /\ refused = {}

RateNext ==
    \/ \E k \in Keys : RateLimitMiddleware(k) \/ \E c \in Conns : Upgrade(c, k)
    \/ \E c \in Conns : ReadMessage(c) \/ Hangup(c)
    \/ Cleanup \/ RateTick

RateSpec == RateInit /\ [][RateNext]_rateVars

\* At any time no key has had more requests accepted within a window than its
\* limit, whatever the cleanup threw away, and a key is refused only when it has
\* had that many.
RateIsHeld ==
    \A k \in Keys :
        /\ Cardinality(accepted[k]) <= MaxRequests
        /\ k \in refused => Cardinality(accepted[k]) = MaxRequests
=============================================================================
