------------------------------- MODULE EventHub -------------------------------
(***************************************************************************)
(* The event hub and its WebSocket clients: internal/hub/hub.go, filter.go *)
(* and the client of internal/server/unified/server.go.                    *)
(*                                                                         *)
(* Publishers, the hub's loop, Hub.Stop, and for every client the HTTP     *)
(* handler, the read pump and the write pump are goroutines of their own.  *)
(* register and unregister are unbuffered channels: their send and receive *)
(* are one step.  An event is its position in log; "log" is all that went  *)
(* into the broadcast channel, of which the loop has taken "taken".  A     *)
(* client's send channel holds what it was sent and has not written.       *)
(*                                                                         *)
(* Left out: the permission filter (hasFocus), replies and heartbeats that *)
(* share a client's send channel, and the hub's internal log subscribers,  *)
(* which never fail.  The application starts its hub once.                 *)
(***************************************************************************)
EXTENDS Integers, Sequences, SequencesExt, FiniteSets

CONSTANTS
    Client,
    Workspace,
    Global,       \* the topic of an event without a workspace
    QueueSize,    \* capacity of Hub.broadcast
    BufferSize,   \* capacity of UnifiedClient.send
    MaxEvents,    \* bound: events published
    None

ASSUME SizeAssumption ==
    QueueSize \in Nat \ {0} /\ BufferSize \in Nat \ {0} /\ MaxEvents \in Nat

ASSUME NamesAssumption == Global \notin Workspace /\ None \notin Client

Topic == Workspace \cup {Global}

VARIABLES
    log,          \* the topics of the events that were queued, in order
    taken,        \* how many of them the loop has taken
    loop,         \* Hub.run: where it is, and the client it deals with
    todo,         \* the subscribers the loop has still to send the event to
    failed,       \* those whose Send returned an error
    subscribers,  \* Hub.subscribers
    stop,         \* where Hub.Stop is; Hub.done is nil once it has begun
    done,         \* whether the channel that was Hub.done is closed
    toClose,      \* Stop's copy of the subscribers
    up,           \* Server.Stop has not been called
    conn,         \* where a client's HTTP handler or read pump is
    closed,       \* UnifiedClient.closed
    filter,       \* FilteredSubscriber.workspaces
    sent,         \* the events that went into UnifiedClient.send
    written,      \* how many of them the write pump has written
    since,        \* history: what was taken before the client was registered
    skipped       \* history: the events not sent: filtered out or no room

queue == <<log, taken>>
run == <<loop, todo, failed>>
stopping == <<stop, done, toClose>>
socket == <<up, conn, filter, written>>
history == <<since, skipped>>
vars == <<queue, run, subscribers, stopping, socket, closed, sent, history>>

LoopState == {"starting", "select", "register", "unregister", "took", "sending",
              "failures", "gone"}

ConnState == {"none", "joining", "open", "parting", "gone"}

TypeOK ==
    /\ log \in Seq(Topic)
    /\ taken \in 0..Len(log)
    /\ loop \in [pc : LoopState, who : Client \cup {None}, deaf : BOOLEAN]
    /\ todo \subseteq Client
    /\ failed \subseteq Client
    /\ subscribers \subseteq Client
    /\ stop \in {"no", "locked", "closing", "stopped"}
    /\ done \in BOOLEAN
    /\ toClose \subseteq Client
    /\ up \in BOOLEAN
    /\ conn \in [Client -> ConnState]
    /\ closed \subseteq Client
    /\ filter \in [Client -> SUBSET Workspace]
    /\ sent \in [Client -> Seq(Nat)]
    /\ written \in [Client -> Nat]
    /\ since \in [Client -> Nat]
    /\ skipped \in [Client -> SUBSET Nat]

\* The application has started the hub; its goroutine may not run yet.
Init ==
    /\ log = <<>> /\ taken = 0
    /\ loop = [pc |-> "starting", who |-> None, deaf |-> FALSE]
    /\ todo = {} /\ failed = {}
    /\ subscribers = {}
    /\ stop = "no" /\ done = FALSE /\ toClose = {}
    /\ up = TRUE
    /\ conn = [c \in Client |-> "none"]
    /\ closed = {}
    /\ filter = [c \in Client |-> {}]
    /\ sent = [c \in Client |-> <<>>]
    /\ written = [c \in Client |-> 0]
    /\ since = [c \in Client |-> 0]
    /\ skipped = [c \in Client |-> {}]

-----------------------------------------------------------------------------
(* Publishing *)

\* An event that finds the channel full is dropped and leaves no trace.
Publish(t) ==
    /\ Len(log) < MaxEvents
    /\ Len(log) - taken < QueueSize
    /\ log' = Append(log, t)
    /\ UNCHANGED <<taken, run, subscribers, stopping, socket, closed, sent, history>>

-----------------------------------------------------------------------------
(* A client's connection *)

GoesTo(c, to) == conn' = [conn EXCEPT ![c] = to]

\* HandleWebSocket, with the first half of Hub.Subscribe: done is read under
\* the lock, and nil once the hub is stopped.
Accept(c) ==
    /\ conn[c] = "none"
    /\ GoesTo(c, IF stop = "no" THEN "joining" ELSE "open")
    /\ UNCHANGED <<queue, run, subscribers, stopping, up, filter, written, closed,
                   sent, history>>

\* Otherwise the loop takes the subscriber (LoopReceives), or done is closed.
\* The pumps are started when Subscribe has returned.
JoinGivesUp(c) ==
    /\ conn[c] = "joining"
    /\ done
    /\ GoesTo(c, "open")
    /\ UNCHANGED <<queue, run, subscribers, stopping, up, filter, written, closed,
                   sent, history>>

\* workspace/subscribe, unsubscribe and subscribeAll, handled by the read pump.
ChangeFilter(c, w) ==
    /\ conn[c] = "open"
    /\ \E f \in {filter[c] \cup {w}, filter[c] \ {w}, {}} :
          filter' = [filter EXCEPT ![c] = f]
    /\ UNCHANGED <<queue, run, subscribers, stopping, up, conn, written, closed,
                   sent, history>>

\* The read pump ends and closes the client; the first half of Unsubscribe.
Disconnect(c) ==
    /\ conn[c] = "open"
    /\ GoesTo(c, IF stop = "no" THEN "parting" ELSE "gone")
    /\ closed' = closed \cup {c}
    /\ UNCHANGED <<queue, run, subscribers, stopping, up, filter, written, sent,
                   history>>

\* Mutant of PartGivesUp: without the case of done it never does.
PartNeverGivesUp(c) == c \notin Client /\ UNCHANGED vars

PartGivesUp(c) ==
    /\ conn[c] = "parting"
    /\ done
    /\ GoesTo(c, "gone")
    /\ UNCHANGED <<queue, run, subscribers, stopping, up, filter, written, closed,
                   sent, history>>

\* The write pump.  A write to a closed connection fails, and a pump that has
\* failed is one that writes no more.
PumpWrites(c) ==
    /\ conn[c] = "open"
    /\ c \notin closed
    /\ written[c] < Len(sent[c])
    /\ written' = [written EXCEPT ![c] = @ + 1]
    /\ UNCHANGED <<queue, run, subscribers, stopping, up, conn, filter, closed,
                   sent, history>>

-----------------------------------------------------------------------------
(* Hub.run *)

At(pc, who) == loop' = [loop EXCEPT !.pc = pc, !.who = who]

\* done is read when the goroutine gets to run: nil when Stop came first, and
\* then the loop never ends.
LoopBegins ==
    /\ loop.pc = "starting"
    /\ loop' = [loop EXCEPT !.pc = "select", !.deaf = stop # "no"]
    /\ UNCHANGED <<queue, todo, failed, subscribers, stopping, socket, closed, sent,
                   history>>

LoopEnds ==
    /\ loop.pc = "select"
    /\ done /\ ~loop.deaf
    /\ At("gone", None)
    /\ UNCHANGED <<queue, todo, failed, subscribers, stopping, socket, closed, sent,
                   history>>

LoopReceives(c) ==
    /\ loop.pc = "select"
    /\ conn[c] = "joining"
    /\ At("register", c)
    /\ GoesTo(c, "open")
    /\ UNCHANGED <<queue, todo, failed, subscribers, stopping, up,
                   filter, written, closed, sent, history>>

LoopRegisters ==
    /\ loop.pc = "register"
    /\ subscribers' = subscribers \cup {loop.who}
    /\ since' = [since EXCEPT ![loop.who] = taken]
    /\ At("select", None)
    /\ UNCHANGED <<queue, todo, failed, stopping, socket, closed, sent, skipped>>

LoopHears(c) ==
    /\ loop.pc = "select"
    /\ conn[c] = "parting"
    /\ At("unregister", c)
    /\ GoesTo(c, "gone")
    /\ UNCHANGED <<queue, todo, failed, subscribers, stopping, up,
                   filter, written, closed, sent, history>>

LoopUnregisters ==
    /\ loop.pc = "unregister"
    /\ closed' = closed \cup ({loop.who} \cap subscribers)
    /\ subscribers' = subscribers \ {loop.who}
    /\ At("select", None)
    /\ UNCHANGED <<queue, todo, failed, stopping, socket, sent, history>>

LoopTakes ==
    /\ loop.pc = "select"
    /\ taken < Len(log)
    /\ taken' = taken + 1
    /\ At("took", None)
    /\ UNCHANGED <<log, todo, failed, subscribers, stopping, socket, closed, sent,
                   history>>

\* The read lock is held while the event goes to one subscriber after another.
LoopLocks ==
    /\ loop.pc = "took"
    /\ todo' = subscribers
    /\ At("sending", None)
    /\ UNCHANGED <<queue, failed, subscribers, stopping, socket, closed, sent, history>>

\* shouldForward
Forwards(c, t) == filter[c] = {} \/ t = Global \/ t \in filter[c]

Room(c) == Len(sent[c]) - written[c] < BufferSize

\* Mutant of LoopSends: the first error ends the round.
LoopSendsUntilError(c) ==
    /\ loop.pc = "sending"
    /\ c \in todo
    /\ \/ /\ Forwards(c, log[taken]) /\ c \in closed
          /\ failed' = failed \cup {c}
          /\ todo' = {}
          /\ UNCHANGED <<sent, skipped>>
       \/ /\ Forwards(c, log[taken]) /\ c \notin closed /\ Room(c)
          /\ sent' = [sent EXCEPT ![c] = Append(@, taken)]
          /\ todo' = todo \ {c}
          /\ UNCHANGED <<failed, skipped>>
       \/ /\ ~Forwards(c, log[taken]) \/ (c \notin closed /\ ~Room(c))
          /\ skipped' = [skipped EXCEPT ![c] = @ \cup {taken}]
          /\ todo' = todo \ {c}
          /\ UNCHANGED <<failed, sent>>
    /\ UNCHANGED <<queue, loop, subscribers, stopping, socket, closed, since>>

\* An error only when the client is closed; no room is not an error.
LoopSends(c) ==
    /\ loop.pc = "sending"
    /\ c \in todo
    /\ todo' = todo \ {c}
    /\ \/ /\ Forwards(c, log[taken]) /\ c \in closed
          /\ failed' = failed \cup {c}
          /\ UNCHANGED <<sent, skipped>>
       \/ /\ Forwards(c, log[taken]) /\ c \notin closed /\ Room(c)
          /\ sent' = [sent EXCEPT ![c] = Append(@, taken)]
          /\ UNCHANGED <<failed, skipped>>
       \/ /\ ~Forwards(c, log[taken]) \/ (c \notin closed /\ ~Room(c))
          /\ skipped' = [skipped EXCEPT ![c] = @ \cup {taken}]
          /\ UNCHANGED <<failed, sent>>
    /\ UNCHANGED <<queue, loop, subscribers, stopping, socket, closed, since>>

\* Mutant of LoopUnlocks: after an error the event is sent once more.
LoopUnlocksToRetry ==
    /\ loop.pc = "sending"
    /\ todo = {}
    /\ IF failed = {} THEN At("select", None) ELSE At("took", None)
    /\ failed' = {}
    /\ UNCHANGED <<queue, todo, subscribers, stopping, socket, closed, sent, history>>

LoopUnlocks ==
    /\ loop.pc = "sending"
    /\ todo = {}
    /\ At(IF failed = {} THEN "select" ELSE "failures", None)
    /\ UNCHANGED <<queue, todo, failed, subscribers, stopping, socket, closed, sent,
                   history>>

LoopRemoves ==
    /\ loop.pc = "failures"
    /\ closed' = closed \cup (failed \cap subscribers)
    /\ subscribers' = subscribers \ failed
    /\ failed' = {}
    /\ At("select", None)
    /\ UNCHANGED <<queue, todo, stopping, socket, sent, history>>

LoopStep ==
    \/ LoopBegins \/ LoopEnds \/ LoopRegisters \/ LoopUnregisters \/ LoopTakes
    \/ LoopLocks \/ LoopUnlocks \/ LoopRemoves
    \/ \E c \in Client : LoopReceives(c) \/ LoopHears(c) \/ LoopSends(c)

-----------------------------------------------------------------------------
(* Shutting down: Server.Stop, then Hub.Stop *)

ServerStops ==
    /\ up
    /\ up' = FALSE
    /\ closed' = closed \cup {c \in Client : conn[c] \in {"joining", "open"}}
    /\ UNCHANGED <<queue, run, subscribers, stopping, conn, filter, written, sent,
                   history>>

\* The write lock waits for a round of sends to end.
StopLocks ==
    /\ stop = "no" /\ ~up
    /\ loop.pc # "sending"
    /\ stop' = "locked"
    /\ toClose' = subscribers
    /\ subscribers' = {}
    /\ UNCHANGED <<queue, run, done, socket, closed, sent, history>>

StopCloses ==
    /\ stop = "locked"
    /\ stop' = "closing"
    /\ done' = TRUE
    /\ UNCHANGED <<queue, run, subscribers, toClose, socket, closed, sent, history>>

StopClosesSubscribers ==
    /\ stop = "closing"
    /\ stop' = "stopped"
    /\ closed' = closed \cup toClose
    /\ UNCHANGED <<queue, run, subscribers, done, toClose, socket, sent, history>>

StopStep == StopLocks \/ StopCloses \/ StopClosesSubscribers

-----------------------------------------------------------------------------
Next ==
    \/ \E t \in Topic : Publish(t)
    \/ \E c \in Client :
          \/ Accept(c) \/ JoinGivesUp(c) \/ Disconnect(c) \/ PartGivesUp(c)
          \/ PumpWrites(c)
          \/ \E w \in Workspace : ChangeFilter(c, w)
    \/ LoopStep
    \/ ServerStops \/ StopStep

Spec == Init /\ [][Next]_vars

\* Goroutines are scheduled, and reading from a connection that is closed
\* fails.  (select chooses among the ready cases at random, so that a client
\* is not kept waiting by a stream of events; with MaxEvents it cannot be.)
Fairness ==
    /\ WF_vars(LoopStep)
    /\ \A c \in Client : WF_vars(JoinGivesUp(c) \/ PartGivesUp(c))
    /\ \A c \in Client : WF_vars(c \in closed /\ Disconnect(c))
    /\ WF_vars(StopStep)

FairSpec == Spec /\ Fairness

-----------------------------------------------------------------------------
(* Properties *)

\* What the hub promises a client.
Feed == INSTANCE EventFeed WITH feed <- sent

\* The hub is a feed, whatever it drops: every client is sent events in the order they were
\* published in, and none of them twice, however its connection, the loop and Stop interleave.
KeepsOrder == Feed!Spec

\* A client that is open misses no event on another's account: whatever the
\* loop has taken since the client was registered was sent, unless the
\* client's own filter or its own full channel kept it out.
NobodyMissesAnEvent ==
    \A c \in subscribers \ closed :
        \A e \in since[c] + 1 .. taken :
            \/ e \in Range(sent[c]) \cup skipped[c]
            \/ e = taken /\ (loop.pc = "took" \/ c \in todo)

\* A client that is open is subscribed for as long as the hub runs.
OpenAreSubscribed ==
    \A c \in Client :
        conn[c] = "open" /\ c \notin closed /\ stop = "no"
        => c \in subscribers \/ (loop.pc = "register" /\ loop.who = c)

\* Subscribe and Unsubscribe return, also when they race with Stop.
HandshakesReturn ==
    \A c \in Client :
        conn[c] \in {"joining", "parting"} ~> conn[c] \in {"open", "gone"}

\* The loop takes every event that was queued, unless the hub is stopped.
EventsAreTaken == taken < Len(log) ~> taken = Len(log) \/ stop # "no"
\* A client that is open stays subscribed and is sent every event it is meant to get.
ClientsAreServed == NobodyMissesAnEvent /\ OpenAreSubscribed

\* The hub goes on: the calls to it return and the events are taken.
HubGoesOn == HandshakesReturn /\ EventsAreTaken
=============================================================================
