--------------------------- MODULE PermissionBridge ---------------------------
(***************************************************************************)
(* The permission hook bridge: hook processes ask the daemon whether       *)
(* Claude may use a tool, phones answer, the daemon remembers.             *)
(*                                                                         *)
(* A request r in Request is one call of permission/request (by the hook   *)
(* CLI, over the unified WebSocket) or of POST /api/hooks/permission-      *)
(* request (by the hook script).  Its handler blocks in a goroutine of its *)
(* own; pc[r] is where that goroutine is.  A client c in Client is a       *)
(* phone; its permission/respond calls run one at a time on its connection *)
(* and cl[c] is where that handler is.  Between two steps of a handler any *)
(* other goroutine may run: the locks pendingMu and mu are each held for   *)
(* one step only.                                                          *)
(*                                                                         *)
(* Publishing pty_permission and pty_permission_resolved is the hub's part *)
(* (module EventHub).  A phone learns a tool-use ID from the event, from   *)
(* permission/pending or from an earlier prompt, so it may answer any ID   *)
(* at any time; an ID that is not pending gets an error and changes        *)
(* nothing.                                                                *)
(***************************************************************************)
EXTENDS PermissionMemory

CONSTANTS
    Request,              \* calls of the two request handlers
    Client,               \* phones
    ToolUse,              \* tool-use IDs sent by the hooks
    Invocation,           \* what a hook may send: a set of records
    InternalSubscribers,  \* hub subscribers of the daemon itself
    None

ASSUME InvocationAssumption ==
    Invocation \subseteq [tool : ToolUse, session : Session, call : Call,
                          via : {"rpc", "http"}]

\* app.Start always subscribes "internal-logger".
ASSUME InternalSubscribersAssumption == InternalSubscribers \in Nat \ {0}

VARIABLES
    pc,        \* pc[r]: where the handler of request r is
    req,       \* req[r]: what request r was called with
    pending,   \* MemoryManager.pending: tool-use ID -> request
    chan,      \* chan[r]: the response in r's ResponseChan (capacity 1)
    result,    \* result[r]: what the handler returned to the hook
    mem,       \* MemoryManager.sessions
    stores,    \* number of StoreDecision calls, for CreatedAt
    cl,        \* cl[c]: the permission/respond handler of phone c
    taken,     \* history: taken[r] is the answer that took r off pending
    phones     \* the phones subscribed to the hub

vars == <<pc, req, pending, chan, result, mem, stores, cl, taken, phones>>
handler == <<pc, req, chan, result>>

Scope == {"once", "session"}
Answer == [decision : Decision, scope : Scope]

GaveUp == {"no_clients", "timeout", "cancelled"}
Waiting == {"count", "wait"} \cup GaveUp
HandlerState == {"idle", "check", "add", "done"} \cup Waiting

Result == [by : {"bypass", "memory", "client"} \cup GaveUp,
           decision : Decision \cup {"ask"}]

Responding == [at : {"store", "send"}, request : Request, answer : Answer]

ASSUME NoneAssumption ==
    /\ None \notin Invocation
    /\ None \notin Decision
    /\ None \notin Answer
    /\ None \notin Result
    /\ None \notin Responding

TypeOK ==
    /\ pc \in [Request -> HandlerState]
    /\ req \in [Request -> Invocation \cup {None}]
    /\ \A r \in Request : (pc[r] = "idle") <=> (req[r] = None)
    /\ Partial(pending, ToolUse, Request)
    /\ chan \in [Request -> Decision \cup {None}]
    /\ result \in [Request -> Result \cup {None}]
    /\ IsMemory(mem)
    /\ stores \in Nat
    /\ cl \in [Client -> Responding \cup {None}]
    /\ taken \in [Request -> Answer \cup {None}]
    /\ phones \in SUBSET Client

Init ==
    /\ pc = [r \in Request |-> "idle"]
    /\ req = [r \in Request |-> None]
    /\ pending = EmptyFunction
    /\ chan = [r \in Request |-> None]
    /\ result = [r \in Request |-> None]
    /\ mem = EmptyFunction
    /\ stores = 0
    /\ cl = [c \in Client |-> None]
    /\ taken = [r \in Request |-> None]
    /\ phones = {}

-----------------------------------------------------------------------------
Goto(r, label) == pc' = [pc EXCEPT ![r] = label]

Return(r, by, decision) ==
    /\ Goto(r, "done")
    /\ result' = [result EXCEPT ![r] = [by |-> by, decision |-> decision]]

\* A hook calls one of the two handlers.
Invoke(r) ==
    /\ pc[r] = "idle"
    /\ \E inv \in Invocation : req' = [req EXCEPT ![r] = inv]
    /\ Goto(r, "check")
    /\ UNCHANGED <<pending, chan, result, mem, stores, cl, taken, phones>>

(***************************************************************************)
(* A hook of a Claude that runs with permissions bypassed: the HTTP handler*)
(* allows at once.                                                         *)
(***************************************************************************)
InvokeBypassed(r) ==
    /\ pc[r] = "idle"
    /\ \E inv \in {i \in Invocation : i.via = "http"} :
            req' = [req EXCEPT ![r] = inv]
    /\ Return(r, "bypass", "allow")
    /\ UNCHANGED <<pending, chan, mem, stores, cl, taken, phones>>

\* CheckMemory, under mu: a remembered decision answers the hook at once.
CheckMemory(r) ==
    /\ pc[r] = "check"
    /\ LET found == Lookup(mem, req[r].session, req[r].call)
       IN  \/ /\ found = {}
              /\ Goto(r, "add")
              /\ UNCHANGED result
           \/ \E d \in found : Return(r, "memory", d)
    /\ mem' = Touch(mem, req[r].session)
    /\ UNCHANGED <<req, pending, chan, stores, cl, taken, phones>>

(***************************************************************************)
(* AddPendingRequest, under pendingMu: the entry of an earlier request with*)
(* the same tool-use ID is overwritten.  The HTTP handler goes on to       *)
(* publish and wait; the RPC one counts subscribers first.                 *)
(***************************************************************************)
AddPendingRequest(r) ==
    /\ pc[r] = "add"
    /\ pending' = With(pending, req[r].tool, r)
    /\ Goto(r, IF req[r].via = "rpc" THEN "count" ELSE "wait")
    /\ UNCHANGED <<req, chan, result, mem, stores, cl, taken, phones>>

(***************************************************************************)
(* The hub's subscribers: the daemon's own, the phones, and every hook     *)
(* whose WebSocket is open because its request is in progress.             *)
(***************************************************************************)
SubscriberCount ==
    InternalSubscribers + Cardinality(phones)
    + Cardinality({r \in Request : /\ pc[r] \notin {"idle", "done"}
                                   /\ req[r].via = "rpc"})

CountSubscribers(r) ==
    /\ pc[r] = "count"
    /\ Goto(r, IF SubscriberCount =< 1 THEN "no_clients" ELSE "wait")
    /\ UNCHANGED <<req, pending, chan, result, mem, stores, cl, taken, phones>>

\* The select of the handler picks the response channel.
Receive(r) ==
    /\ pc[r] = "wait"
    /\ chan[r] # None
    /\ chan' = [chan EXCEPT ![r] = None]
    /\ Return(r, "client", chan[r])
    /\ UNCHANGED <<req, pending, mem, stores, cl, taken, phones>>

\* Mutant of TimerFires: the HTTP handler waits without a timeout.
TimerFiresOnRpcOnly(r) ==
    /\ pc[r] = "wait"
    /\ req[r].via = "rpc"
    /\ Goto(r, "timeout")
    /\ UNCHANGED <<req, pending, chan, result, mem, stores, cl, taken, phones>>

\* The select picks the timer, which it may do even if a response is ready.
TimerFires(r) ==
    /\ pc[r] = "wait"
    /\ Goto(r, "timeout")
    /\ UNCHANGED <<req, pending, chan, result, mem, stores, cl, taken, phones>>

\* The select of the RPC handler picks the end of the request's context.
ContextDone(r) ==
    /\ pc[r] = "wait"
    /\ req[r].via = "rpc"
    /\ Goto(r, "cancelled")
    /\ UNCHANGED <<req, pending, chan, result, mem, stores, cl, taken, phones>>

\* Mutant of GiveUp: the default lets the tool run.
GiveUpAllowing(r) ==
    /\ pc[r] \in GaveUp
    /\ pending' = Without(pending, req[r].tool)
    /\ Return(r, pc[r], "allow")
    /\ UNCHANGED <<req, chan, mem, stores, cl, taken, phones>>

(***************************************************************************)
(* A handler that gives up removes the pending entry of its tool-use ID,   *)
(* whosever it is by now, and returns its default: deny over RPC, ask over *)
(* HTTP.  RemovePendingRequest, on the RPC side, also drains the response  *)
(* channel of the entry it removes.                                        *)
(***************************************************************************)
GiveUp(r) ==
    /\ pc[r] \in GaveUp
    /\ pending' = Without(pending, req[r].tool)
    /\ chan' = IF req[r].via = "rpc" /\ req[r].tool \in DOMAIN pending
               THEN [chan EXCEPT ![pending[req[r].tool]] = None]
               ELSE chan
    /\ Return(r, pc[r], IF req[r].via = "rpc" THEN "deny" ELSE "ask")
    /\ UNCHANGED <<req, mem, stores, cl, taken, phones>>

-----------------------------------------------------------------------------
(***************************************************************************)
(* Respond, first step: GetAndRemovePendingRequest, under pendingMu.       *)
(***************************************************************************)
Take(c, tool, answer) ==
    /\ c \in phones
    /\ cl[c] = None
    /\ tool \in DOMAIN pending
    /\ taken' = [taken EXCEPT ![pending[tool]] = answer]
    /\ cl' = [cl EXCEPT ![c] =
                [at |-> IF answer.scope = "session" THEN "store" ELSE "send",
                 request |-> pending[tool], answer |-> answer]]
    /\ pending' = Without(pending, tool)
    /\ UNCHANGED <<handler, mem, stores, phones>>

\* Respond, second step for "allow for session": StoreDecision, under mu.
StoreDecision(c) ==
    /\ cl[c] # None
    /\ cl[c].at = "store"
    /\ LET of == req[cl[c].request]
       IN  mem' \in Stored(mem, of.session, PatternOf[of.call],
                           cl[c].answer.decision, stores)
    /\ stores' = stores + 1
    /\ cl' = [cl EXCEPT ![c].at = "send"]
    /\ UNCHANGED <<handler, pending, taken, phones>>

\* Mutant of Send: the request is looked up again by its tool-use ID.
SendToCurrent(c) ==
    /\ cl[c] # None
    /\ cl[c].at = "send"
    /\ LET tool == req[cl[c].request].tool
       IN  chan' = IF tool \in DOMAIN pending
                   THEN [chan EXCEPT ![pending[tool]] = cl[c].answer.decision]
                   ELSE chan
    /\ cl' = [cl EXCEPT ![c] = None]
    /\ UNCHANGED <<pc, req, result, pending, mem, stores, taken, phones>>

(***************************************************************************)
(* Respond, last step: the non-blocking send to the response channel; the  *)
(* phone is told "success": true whether or not anybody still listens.     *)
(***************************************************************************)
Send(c) ==
    /\ cl[c] # None
    /\ cl[c].at = "send"
    /\ LET r == cl[c].request
       IN  chan' = IF chan[r] = None
                   THEN [chan EXCEPT ![r] = cl[c].answer.decision]
                   ELSE chan
    /\ cl' = [cl EXCEPT ![c] = None]
    /\ UNCHANGED <<pc, req, result, pending, mem, stores, taken, phones>>

-----------------------------------------------------------------------------
\* A phone's WebSocket is registered with the hub.
Connect(c) ==
    /\ c \notin phones
    /\ phones' = phones \cup {c}
    /\ UNCHANGED <<handler, pending, mem, stores, cl, taken>>

\* It goes away; a permission/respond it is in the middle of runs to its end.
Disconnect(c) ==
    /\ c \in phones
    /\ phones' = phones \ {c}
    /\ UNCHANGED <<handler, pending, mem, stores, cl, taken>>

\* The TTL of a session's memory passes without an access.
GoIdle(s) ==
    /\ s \in DOMAIN mem
    /\ ~mem[s].idle
    /\ mem' = Marked(mem, s, TRUE)
    /\ UNCHANGED <<handler, pending, stores, cl, taken, phones>>

\* A tick of cleanupLoop.
Cleanup ==
    /\ \E s \in DOMAIN mem : mem[s].idle
    /\ mem' = Cleaned(mem)
    /\ UNCHANGED <<handler, pending, stores, cl, taken, phones>>

HandlerStep(r) ==
    \/ CheckMemory(r)
    \/ AddPendingRequest(r)
    \/ CountSubscribers(r)
    \/ Receive(r)
    \/ TimerFires(r)
    \/ GiveUp(r)

RespondStep(c) == StoreDecision(c) \/ Send(c)

Next ==
    \/ \E r \in Request : \/ Invoke(r)
                          \/ InvokeBypassed(r)
                          \/ HandlerStep(r)
                          \/ ContextDone(r)
    \/ \E c \in Client : \/ \E tool \in ToolUse, answer \in Answer :
                                Take(c, tool, answer)
                         \/ RespondStep(c)
                         \/ Connect(c)
                         \/ Disconnect(c)
    \/ \E s \in Session : GoIdle(s)
    \/ Cleanup

(***************************************************************************)
(* The runtime schedules every goroutine that can run and every timer      *)
(* fires.  Hooks, phones, idleness and the cleanup ticker owe nothing.     *)
(***************************************************************************)
Fairness ==
    /\ \A r \in Request : WF_vars(HandlerStep(r))
    /\ \A c \in Client : WF_vars(RespondStep(c))

Spec == Init /\ [][Next]_vars
FairSpec == Spec /\ Fairness

-----------------------------------------------------------------------------
\* The request whose entry is pending under r's tool-use ID is r.
Listed(r) == /\ req[r].tool \in DOMAIN pending
             /\ pending[req[r].tool] = r

(***************************************************************************)
(* The bound of the session memory: no interleaving of phones answering    *)
(* "allow for session" leaves a session with more patterns than configured *)
(* (memory.go StoreDecision: check and insert under one lock).             *)
(***************************************************************************)
MemoryBounded ==
    \A s \in DOMAIN mem : Cardinality(DOMAIN mem[s].decisions) =< MaxPatterns

(***************************************************************************)
(* A pending entry always belongs to a handler that is still running, that *)
(* nobody has answered and whose channel is empty: no path out of the two  *)
(* handlers leaves an entry behind that permission/pending would list, and *)
(* a phone answer, for ever.                                               *)
(***************************************************************************)
PendingIsOpen ==
    \A tool \in DOMAIN pending :
        LET r == pending[tool]
        IN  /\ pc[r] \in Waiting
            /\ req[r].tool = tool
            /\ taken[r] = None
            /\ chan[r] = None

(***************************************************************************)
(* A handler that waits can be answered, or has been, unless another call  *)
(* came with the same tool-use ID: the map is keyed by that ID, so a twin  *)
(* overwrites the entry and, when it gives up, removes it.                 *)
(***************************************************************************)
WaitingIsAnswerable ==
    \A r \in Request : pc[r] \in Waiting =>
        \/ Listed(r)
        \/ taken[r] # None
        \/ \E q \in Request \ {r} : /\ req[q] # None
                                    /\ req[q].tool = req[r].tool

(***************************************************************************)
(* An answer is on its way exactly once: a response in a channel, and every*)
(* decision returned as a phone's, is the one a phone gave to that very    *)
(* request, and no two phones are delivering an answer to the same request.*)
(***************************************************************************)
AnswersAreDelivered ==
    /\ \A r \in Request :
        /\ chan[r] # None => /\ taken[r] # None
                             /\ chan[r] = taken[r].decision
        /\ (result[r] # None /\ result[r].by = "client") =>
                /\ taken[r] # None
                /\ result[r].decision = taken[r].decision
    /\ \A c, d \in Client :
        (cl[c] # None /\ cl[d] # None /\ cl[c].request = cl[d].request) => c = d

\* Nobody has answered a request that was not put on the pending map yet.
UnlistedIsUnanswered ==
    \A r \in Request : pc[r] \in {"idle", "check", "add"} =>
        taken[r] = None /\ chan[r] = None

\* A phone in the middle of Respond delivers the answer that took its request,
\* to a channel that is still empty: the send never finds it full.
RespondersHold ==
    \A c \in Client : cl[c] # None =>
        /\ taken[cl[c].request] = cl[c].answer
        /\ chan[cl[c].request] = None

\* Exactly the handlers that are done have returned something.
DoneIsReturned == \A r \in Request : (pc[r] = "done") <=> (result[r] # None)

\* The inductive invariant behind the properties above.
BridgeInv ==
    /\ TypeOK
    /\ PendingIsOpen
    /\ WaitingIsAnswerable
    /\ AnswersAreDelivered
    /\ UnlistedIsUnanswered
    /\ RespondersHold
    /\ DoneIsReturned

\* A phone told the daemon to remember d for pattern p in session s.
Granted(s, p, d) ==
    \E q \in Request : /\ taken[q] # None /\ req[q] # None
                       /\ taken[q] = [decision |-> d, scope |-> "session"]
                       /\ req[q].session = s
                       /\ PatternOf[req[q].call] = p

(***************************************************************************)
(* Remembered decisions do not leak: what is in a session's memory, and    *)
(* what is returned to a hook from it, was given "for session" by a phone  *)
(* to a request of that same session, under the pattern that request       *)
(* generates.                                                              *)
(***************************************************************************)
MemoryIsGranted ==
    /\ \A s \in DOMAIN mem : \A p \in DOMAIN mem[s].decisions :
            Granted(s, p, mem[s].decisions[p].decision)
    /\ \A r \in Request : (result[r] # None /\ result[r].by = "memory") =>
            \E p \in Pattern :
                /\ p = PatternOf[req[r].call] \/ <<p, req[r].call>> \in Matches
                /\ Granted(req[r].session, p, result[r].decision)

(***************************************************************************)
(* A request is answered at most once: a second phone, or the same phone   *)
(* pressing twice, never replaces an answer that was accepted.             *)
(***************************************************************************)
OneAnswer ==
    [][\A r \in Request : taken[r] # None => taken'[r] = taken[r]]_taken

(***************************************************************************)
(* No hook hangs: every handler returns, whatever the phones do, twins     *)
(* included.                                                               *)
(***************************************************************************)
EveryHookIsAnswered ==
    \A r \in Request : (pc[r] # "idle") ~> (pc[r] = "done")

-----------------------------------------------------------------------------
(***************************************************************************)
(* The bridge implements PermissionPromise: a request is asked when its    *)
(* handler is entered, answered when a phone takes it off the pending map, *)
(* closed when its handler returns.                                        *)
(***************************************************************************)
P == INSTANCE PermissionPromise
        WITH asked <- req, answered <- taken, verdict <- result

(***************************************************************************)
(* Every behaviour of the handlers, with all their interleavings, timeouts *)
(* and twins, is one of PermissionPromise (permission.go Request, Respond; *)
(* hooks.go handlePermissionRequest).                                      *)
(***************************************************************************)
KeepsPromise == P!Spec
=============================================================================
