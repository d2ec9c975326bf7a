------------------------ MODULE PermissionBridge_proofs ------------------------
(***************************************************************************)
(* Theorems about PermissionBridge, for every set of requests, phones,     *)
(* sessions, tool-use IDs and patterns and every bound of the memory.      *)
(***************************************************************************)
EXTENDS PermissionBridge, GoMaps_proofs, FiniteSetTheorems, TLAPS

-----------------------------------------------------------------------------
(***************************************************************************)
(* The operations of the session memory keep its type.                     *)
(***************************************************************************)

\* A session's remembered decisions are decisions, whether it has a memory
\* or not.
LEMMA RememberedType ==
    ASSUME NEW m, IsMemory(m), NEW s
    PROVE  Partial(Remembered(m, s), Pattern, StoredDecision)
  BY EmptyPartial DEF IsMemory, IsSessionMemory, Remembered

\* Every decision CheckMemory can find is a decision.
LEMMA LookupType ==
    ASSUME NEW m, IsMemory(m), NEW s, NEW call
    PROVE  Lookup(m, s, call) \subseteq Decision
  <1> DEFINE known == Remembered(m, s)
  <1>1. Partial(known, Pattern, StoredDecision)
    BY RememberedType
  <1>2. \A p \in DOMAIN known : known[p].decision \in Decision
    BY <1>1 DEF Partial, StoredDecision
  <1> QED
    BY <1>2 DEF Lookup

\* Setting the idle flag of an existing memory keeps the memory well formed.
LEMMA MarkedType ==
    ASSUME NEW m, IsMemory(m), NEW s \in DOMAIN m, NEW idle \in BOOLEAN
    PROVE  IsMemory(Marked(m, s, idle))
  BY DEF IsMemory, IsSessionMemory, Marked, With

\* CheckMemory's refresh keeps the memory well formed.
LEMMA TouchType ==
    ASSUME NEW m, IsMemory(m), NEW s
    PROVE  IsMemory(Touch(m, s))
  BY MarkedType DEF Touch

\* Eviction leaves decisions.
LEMMA EvictedType ==
    ASSUME NEW known, Partial(known, Pattern, StoredDecision),
           NEW kept \in Evicted(known)
    PROVE  Partial(kept, Pattern, StoredDecision)
  BY WithoutPartial DEF Evicted

\* StoreDecision keeps the memory well formed.
LEMMA StoredType ==
    ASSUME NEW m, IsMemory(m), NEW s \in Session, NEW p \in Pattern,
           NEW d \in Decision, NEW now \in Nat, NEW n \in Stored(m, s, p, d, now)
    PROVE  IsMemory(n)
  <1>1. PICK kept \in Evicted(Remembered(m, s)) :
            n = With(m, s, [decisions |-> With(kept, p, [decision |-> d, at |-> now]),
                            idle |-> FALSE])
    BY DEF Stored
  <1>2. Partial(kept, Pattern, StoredDecision)
    BY <1>1, RememberedType, EvictedType
  <1>3. [decision |-> d, at |-> now] \in StoredDecision
    BY DEF StoredDecision
  <1>4. Partial(With(kept, p, [decision |-> d, at |-> now]), Pattern, StoredDecision)
    BY <1>2, <1>3, WithPartial
  <1> QED
    BY <1>1, <1>4 DEF IsMemory, IsSessionMemory, With

\* cleanup keeps the memory well formed.
LEMMA CleanedType ==
    ASSUME NEW m, IsMemory(m)
    PROVE  IsMemory(Cleaned(m))
  BY DEF IsMemory, Cleaned

-----------------------------------------------------------------------------
(***************************************************************************)
(* Type correctness.                                                       *)
(***************************************************************************)
LEMMA InitType == Init => TypeOK
  BY EmptyPartial
  DEF Init, TypeOK, HandlerState, Waiting, IsMemory, EmptyFunction

\* No step of a handler, a phone or the cleanup leaves the declared types.
LEMMA NextType == BridgeInv /\ [Next]_vars => TypeOK'
  <1> SUFFICES ASSUME BridgeInv, [Next]_vars PROVE TypeOK'
    OBVIOUS
  <1>0. TypeOK
    BY DEF BridgeInv
  <1> USE <1>0 DEF TypeOK, handler
  <1>1. ASSUME NEW r \in Request, Invoke(r) PROVE TypeOK'
    BY <1>1, NoneAssumption DEF Invoke, Goto, HandlerState
  <1>2. ASSUME NEW r \in Request, InvokeBypassed(r) PROVE TypeOK'
    BY <1>2, NoneAssumption
    DEF InvokeBypassed, Return, Goto, HandlerState, Result, Decision
  <1>3. ASSUME NEW r \in Request, CheckMemory(r) PROVE TypeOK'
    <2>1. IsMemory(mem')
      BY <1>3, TouchType DEF CheckMemory
    <2>2. Lookup(mem, req[r].session, req[r].call) \subseteq Decision
      BY LookupType
    <2>3. result' \in [Request -> Result \cup {None}]
      BY <1>3, <2>2 DEF CheckMemory, Return, Result
    <2> QED
      BY <1>3, <2>1, <2>3 DEF CheckMemory, Return, Goto, HandlerState
  <1>4. ASSUME NEW r \in Request, AddPendingRequest(r) PROVE TypeOK'
    <2>1. req[r].tool \in ToolUse
      BY <1>4, InvocationAssumption DEF AddPendingRequest
    <2>2. Partial(pending', ToolUse, Request)
      BY <1>4, <2>1, WithPartial DEF AddPendingRequest
    <2> QED
      BY <1>4, <2>2 DEF AddPendingRequest, Goto, HandlerState, Waiting
  <1>5. ASSUME NEW r \in Request, CountSubscribers(r) PROVE TypeOK'
    BY <1>5 DEF CountSubscribers, Goto, HandlerState, Waiting, GaveUp
  <1>6. ASSUME NEW r \in Request, Receive(r) PROVE TypeOK'
    BY <1>6 DEF Receive, Return, Goto, HandlerState, Result
  <1>7. ASSUME NEW r \in Request, TimerFires(r) PROVE TypeOK'
    BY <1>7 DEF TimerFires, Goto, HandlerState, Waiting, GaveUp
  <1>8. ASSUME NEW r \in Request, ContextDone(r) PROVE TypeOK'
    BY <1>8 DEF ContextDone, Goto, HandlerState, Waiting, GaveUp
  <1>9. ASSUME NEW r \in Request, GiveUp(r) PROVE TypeOK'
    <2>1. Partial(pending', ToolUse, Request)
      BY <1>9, WithoutPartial DEF GiveUp
    <2>2. chan' \in [Request -> Decision \cup {None}]
      BY <1>9 DEF GiveUp
    <2>3. result' \in [Request -> Result \cup {None}]
      BY <1>9 DEF GiveUp, Return, Result, Decision
    <2>4. pc' \in [Request -> HandlerState] /\ pc' = [pc EXCEPT ![r] = "done"]
      BY <1>9 DEF GiveUp, Return, Goto, HandlerState
    <2>5. UNCHANGED <<req, mem, stores, cl, taken, phones>>
      BY <1>9 DEF GiveUp
    <2>6. req[r] \in Invocation
      BY <1>9 DEF GiveUp, GaveUp
    <2>7. pc[r] # "idle"
      BY <1>9 DEF GiveUp, GaveUp
    <2> QED
      BY <2>1, <2>2, <2>3, <2>4, <2>5, <2>6, <2>7
  <1>10. ASSUME NEW c \in Client, NEW tool \in ToolUse, NEW answer \in Answer,
                Take(c, tool, answer)
         PROVE  TypeOK'
    <2>1. pending[tool] \in Request
      BY <1>10 DEF Take, Partial
    <2>2. Partial(pending', ToolUse, Request)
      BY <1>10, WithoutPartial DEF Take
    <2>3. cl' \in [Client -> Responding \cup {None}]
      BY <1>10, <2>1 DEF Take, Responding
    <2> QED
      BY <1>10, <2>2, <2>3 DEF Take
  <1>11. ASSUME NEW c \in Client, StoreDecision(c) PROVE TypeOK'
    <2> DEFINE of == req[cl[c].request]
    <2>1. cl[c] \in Responding
      BY <1>11 DEF StoreDecision
    <2>2. taken[cl[c].request] # None
      BY <2>1, NoneAssumption DEF BridgeInv, RespondersHold, Responding
    <2>3. of \in Invocation
      BY <2>1, <2>2 DEF BridgeInv, UnlistedIsUnanswered, Responding
    <2>4. of.session \in Session /\ PatternOf[of.call] \in Pattern
      BY <2>3, InvocationAssumption, PatternAssumption
    <2>5. cl[c].answer.decision \in Decision
      BY <2>1 DEF Responding, Answer
    <2>6. IsMemory(mem')
      BY <1>11, <2>4, <2>5, StoredType DEF StoreDecision
    <2>7. cl' \in [Client -> Responding \cup {None}]
      BY <1>11, <2>1 DEF StoreDecision, Responding
    <2> QED
      BY <1>11, <2>6, <2>7 DEF StoreDecision
  <1>12. ASSUME NEW c \in Client, Send(c) PROVE TypeOK'
    BY <1>12 DEF Send, Responding, Answer
  <1>13. ASSUME NEW c \in Client, Connect(c) \/ Disconnect(c) PROVE TypeOK'
    BY <1>13 DEF Connect, Disconnect
  <1>14. ASSUME NEW s \in Session, GoIdle(s) PROVE TypeOK'
    BY <1>14, MarkedType DEF GoIdle
  <1>15. ASSUME Cleanup PROVE TypeOK'
    BY <1>15, CleanedType DEF Cleanup
  <1>16. CASE UNCHANGED vars
    BY <1>16 DEF vars
  <1> QED
    BY <1>1, <1>2, <1>3, <1>4, <1>5, <1>6, <1>7, <1>8, <1>9, <1>10, <1>11,
       <1>12, <1>13, <1>14, <1>15, <1>16
    DEF Next, HandlerStep, RespondStep
-----------------------------------------------------------------------------
(***************************************************************************)
(* The inductive invariant.                                                *)
(***************************************************************************)
LEMMA InitInv == Init => BridgeInv
  <1> SUFFICES ASSUME Init PROVE BridgeInv
    OBVIOUS
  <1> QED
    BY InitType
    DEF Init, BridgeInv, PendingIsOpen, WaitingIsAnswerable, AnswersAreDelivered,
        UnlistedIsUnanswered, RespondersHold, DoneIsReturned, EmptyFunction,
        Waiting, GaveUp

\* The answer a phone is delivering is the one its request was taken with.
LEMMA HeldIsTaken ==
    ASSUME BridgeInv, NEW c \in Client, cl[c] # None
    PROVE  /\ cl[c] \in Responding
           /\ cl[c].request \in Request
           /\ cl[c].answer \in Answer
           /\ taken[cl[c].request] = cl[c].answer
           /\ taken[cl[c].request] # None
           /\ chan[cl[c].request] = None
           /\ cl[c].answer.decision \in Decision
  BY NoneAssumption DEF BridgeInv, TypeOK, RespondersHold, Responding, Answer

\* A handler that returns a proper result is done and nothing else changes.
LEMMA ReturnEffect ==
    ASSUME TypeOK, NEW r \in Request, NEW by, NEW decision,
           [by |-> by, decision |-> decision] \in Result, Return(r, by, decision)
    PROVE  /\ pc' = [pc EXCEPT ![r] = "done"]
           /\ result'[r] = [by |-> by, decision |-> decision]
           /\ result'[r] # None
           /\ \A q \in Request \ {r} : pc'[q] = pc[q] /\ result'[q] = result[q]
           /\ pc'[r] = "done"
  BY NoneAssumption DEF TypeOK, Return, Goto

\* Every step of every handler keeps the invariant.
LEMMA NextInv == BridgeInv /\ [Next]_vars => BridgeInv'
  <1> SUFFICES ASSUME BridgeInv, [Next]_vars PROVE BridgeInv'
    OBVIOUS
  <1>t. TypeOK'
    BY NextType
  <1> USE <1>t DEF BridgeInv
  <1>1. ASSUME NEW r \in Request, Invoke(r)
        PROVE  BridgeInv'
    <2>1. PendingIsOpen'
      BY <1>1 DEF PendingIsOpen, Invoke, Goto, Waiting, GaveUp
    <2>2. WaitingIsAnswerable'
      BY <1>1 DEF WaitingIsAnswerable, Invoke, Goto, Listed, Waiting, GaveUp, TypeOK
    <2>3. AnswersAreDelivered'
      BY <1>1 DEF AnswersAreDelivered, Invoke
    <2>4. UnlistedIsUnanswered'
      BY <1>1 DEF UnlistedIsUnanswered, Invoke, Goto
    <2>5. RespondersHold'
      BY <1>1 DEF RespondersHold, Invoke
    <2>6. DoneIsReturned'
      BY <1>1 DEF DoneIsReturned, Invoke, Goto
    <2> QED
      BY <2>1, <2>2, <2>3, <2>4, <2>5, <2>6 DEF BridgeInv
  <1>2. ASSUME NEW r \in Request, InvokeBypassed(r)
        PROVE  BridgeInv'
    <2>1. PendingIsOpen'
      BY <1>2 DEF PendingIsOpen, InvokeBypassed, Return, Goto, Waiting, GaveUp
    <2>2. WaitingIsAnswerable'
      BY <1>2
      DEF WaitingIsAnswerable, InvokeBypassed, Return, Goto, Listed, Waiting, GaveUp,
          TypeOK
    <2>3. AnswersAreDelivered'
      BY <1>2 DEF AnswersAreDelivered, InvokeBypassed, Return
    <2>4. UnlistedIsUnanswered'
      BY <1>2 DEF UnlistedIsUnanswered, InvokeBypassed, Return, Goto
    <2>5. RespondersHold'
      BY <1>2 DEF RespondersHold, InvokeBypassed
    <2>6. DoneIsReturned'
      <3>1. [by |-> "bypass", decision |-> "allow"] \in Result
        BY DEF Result, Decision
      <3> QED
        BY <1>2, <3>1, ReturnEffect DEF InvokeBypassed, DoneIsReturned
    <2> QED
      BY <2>1, <2>2, <2>3, <2>4, <2>5, <2>6 DEF BridgeInv
  <1>3. ASSUME NEW r \in Request, CheckMemory(r)
        PROVE  BridgeInv'
    <2>1. PendingIsOpen'
      BY <1>3
      DEF PendingIsOpen, CheckMemory, Return, Goto, Waiting, GaveUp, TypeOK, Partial
    <2>2. WaitingIsAnswerable'
      BY <1>3
      DEF WaitingIsAnswerable, CheckMemory, Return, Goto, Listed, Waiting, GaveUp,
          TypeOK
    <2>3. AnswersAreDelivered'
      BY <1>3 DEF AnswersAreDelivered, CheckMemory, Return, TypeOK
    <2>4. UnlistedIsUnanswered'
      BY <1>3 DEF UnlistedIsUnanswered, CheckMemory, Return, Goto, TypeOK
    <2>5. RespondersHold'
      BY <1>3 DEF RespondersHold, CheckMemory
    <2>6. DoneIsReturned'
      <3> DEFINE found == Lookup(mem, req[r].session, req[r].call)
      <3>1. \A d \in found : [by |-> "memory", decision |-> d] \in Result
        BY LookupType DEF TypeOK, Result
      <3>2. CASE Goto(r, "add") /\ UNCHANGED result
        BY <1>3, <3>2 DEF CheckMemory, Goto, DoneIsReturned, TypeOK
      <3>3. ASSUME NEW d \in found, Return(r, "memory", d) PROVE DoneIsReturned'
        BY <3>1, <3>3, ReturnEffect DEF DoneIsReturned
      <3> QED
        BY <1>3, <3>2, <3>3 DEF CheckMemory
    <2> QED
      BY <2>1, <2>2, <2>3, <2>4, <2>5, <2>6 DEF BridgeInv
  <1>4. ASSUME NEW r \in Request, AddPendingRequest(r)
        PROVE  BridgeInv'
    <2>1. PendingIsOpen'
      BY <1>4
      DEF PendingIsOpen, AddPendingRequest, Goto, With, Waiting, TypeOK,
          UnlistedIsUnanswered
    <2>2. WaitingIsAnswerable'
      BY <1>4 DEF WaitingIsAnswerable, AddPendingRequest, Goto, With, Listed, TypeOK
    <2>3. AnswersAreDelivered'
      BY <1>4 DEF AnswersAreDelivered, AddPendingRequest
    <2>4. UnlistedIsUnanswered'
      BY <1>4 DEF UnlistedIsUnanswered, AddPendingRequest, Goto
    <2>5. RespondersHold'
      BY <1>4 DEF RespondersHold, AddPendingRequest
    <2>6. DoneIsReturned'
      BY <1>4 DEF DoneIsReturned, AddPendingRequest, Goto
    <2> QED
      BY <2>1, <2>2, <2>3, <2>4, <2>5, <2>6 DEF BridgeInv
  <1>5. ASSUME NEW r \in Request, CountSubscribers(r)
        PROVE  BridgeInv'
    <2>1. PendingIsOpen'
      BY <1>5 DEF PendingIsOpen, CountSubscribers, Goto, Waiting, GaveUp
    <2>2. WaitingIsAnswerable'
      BY <1>5 DEF WaitingIsAnswerable, CountSubscribers, Goto, Listed, Waiting
    <2>3. AnswersAreDelivered'
      BY <1>5 DEF AnswersAreDelivered, CountSubscribers
    <2>4. UnlistedIsUnanswered'
      BY <1>5 DEF UnlistedIsUnanswered, CountSubscribers, Goto
    <2>5. RespondersHold'
      BY <1>5 DEF RespondersHold, CountSubscribers
    <2>6. DoneIsReturned'
      BY <1>5 DEF DoneIsReturned, CountSubscribers, Goto
    <2> QED
      BY <2>1, <2>2, <2>3, <2>4, <2>5, <2>6 DEF BridgeInv
  <1>6. ASSUME NEW r \in Request, Receive(r)
        PROVE  BridgeInv'
    <2>1. PendingIsOpen'
      BY <1>6 DEF PendingIsOpen, Receive, Return, Goto
    <2>2. WaitingIsAnswerable'
      BY <1>6 DEF WaitingIsAnswerable, Receive, Return, Goto, Listed, Waiting
    <2>3. AnswersAreDelivered'
      BY <1>6 DEF AnswersAreDelivered, Receive, Return
    <2>4. UnlistedIsUnanswered'
      BY <1>6 DEF UnlistedIsUnanswered, Receive, Return, Goto
    <2>5. RespondersHold'
      BY <1>6 DEF RespondersHold, Receive
    <2>6. DoneIsReturned'
      BY <1>6, NoneAssumption
      DEF DoneIsReturned, Receive, Return, Goto, Result, TypeOK
    <2> QED
      BY <2>1, <2>2, <2>3, <2>4, <2>5, <2>6 DEF BridgeInv
  <1>7. ASSUME NEW r \in Request, TimerFires(r)
        PROVE  BridgeInv'
    <2>1. PendingIsOpen'
      BY <1>7 DEF PendingIsOpen, TimerFires, Goto, Waiting, GaveUp
    <2>2. WaitingIsAnswerable'
      BY <1>7 DEF WaitingIsAnswerable, TimerFires, Goto, Listed, Waiting
    <2>3. AnswersAreDelivered'
      BY <1>7 DEF AnswersAreDelivered, TimerFires
    <2>4. UnlistedIsUnanswered'
      BY <1>7 DEF UnlistedIsUnanswered, TimerFires, Goto
    <2>5. RespondersHold'
      BY <1>7 DEF RespondersHold, TimerFires
    <2>6. DoneIsReturned'
      BY <1>7 DEF DoneIsReturned, TimerFires, Goto
    <2> QED
      BY <2>1, <2>2, <2>3, <2>4, <2>5, <2>6 DEF BridgeInv
  <1>8. ASSUME NEW r \in Request, ContextDone(r)
        PROVE  BridgeInv'
    <2>1. PendingIsOpen'
      BY <1>8 DEF PendingIsOpen, ContextDone, Goto, Waiting, GaveUp
    <2>2. WaitingIsAnswerable'
      BY <1>8 DEF WaitingIsAnswerable, ContextDone, Goto, Listed, Waiting
    <2>3. AnswersAreDelivered'
      BY <1>8 DEF AnswersAreDelivered, ContextDone
    <2>4. UnlistedIsUnanswered'
      BY <1>8 DEF UnlistedIsUnanswered, ContextDone, Goto
    <2>5. RespondersHold'
      BY <1>8 DEF RespondersHold, ContextDone
    <2>6. DoneIsReturned'
      BY <1>8 DEF DoneIsReturned, ContextDone, Goto
    <2> QED
      BY <2>1, <2>2, <2>3, <2>4, <2>5, <2>6 DEF BridgeInv
  <1>9. ASSUME NEW r \in Request, GiveUp(r)
        PROVE  BridgeInv'
    <2>1. PendingIsOpen'
      BY <1>9 DEF PendingIsOpen, GiveUp, Return, Goto, Without
    <2>2. WaitingIsAnswerable'
      BY <1>9
      DEF WaitingIsAnswerable, GiveUp, Return, Goto, Without, Listed, Waiting,
          GaveUp, TypeOK
    <2>3. AnswersAreDelivered'
      <3>1. \A q \in Request : chan'[q] # None => chan'[q] = chan[q]
        BY <1>9 DEF GiveUp, TypeOK
      <3>2. result' = [result EXCEPT ![r] =
                [by |-> pc[r], decision |-> IF req[r].via = "rpc" THEN "deny" ELSE "ask"]]
        BY <1>9 DEF GiveUp, Return
      <3>3. pc[r] # "client" /\ UNCHANGED <<taken, cl>>
        BY <1>9 DEF GiveUp, GaveUp
      <3> QED
        BY <3>1, <3>2, <3>3 DEF AnswersAreDelivered, TypeOK
    <2>4. UnlistedIsUnanswered'
      BY <1>9 DEF UnlistedIsUnanswered, GiveUp, Return, Goto
    <2>5. RespondersHold'
      BY <1>9 DEF RespondersHold, GiveUp
    <2>6. DoneIsReturned'
      <3> DEFINE d == IF req[r].via = "rpc" THEN "deny" ELSE "ask"
      <3>1. [by |-> pc[r], decision |-> d] \in Result /\ Return(r, pc[r], d)
        BY <1>9 DEF GiveUp, Result, Decision
      <3> QED
        BY <3>1, ReturnEffect DEF DoneIsReturned
    <2> QED
      BY <2>1, <2>2, <2>3, <2>4, <2>5, <2>6 DEF BridgeInv
  <1>10. ASSUME NEW c \in Client, NEW tool \in ToolUse, NEW answer \in Answer,
                Take(c, tool, answer)
        PROVE  BridgeInv'
    <2>1. PendingIsOpen'
      BY <1>10 DEF PendingIsOpen, Take, Without, handler
    <2>2. WaitingIsAnswerable'
      BY <1>10, NoneAssumption
      DEF WaitingIsAnswerable, Take, Without, Listed, handler, TypeOK
    <2>3. AnswersAreDelivered'
      <3> DEFINE r == pending[tool]
      <3>1. r \in Request /\ taken[r] = None /\ chan[r] = None
        BY <1>10 DEF Take, TypeOK, Partial, PendingIsOpen
      <3>2. \A d \in Client : cl[d] # None => cl[d].request # r
        BY <3>1, HeldIsTaken
      <3>3. result[r] # None => result[r].by # "client"
        BY <3>1 DEF AnswersAreDelivered
      <3>4. cl[c] = None /\ cl'[c].request = r /\ \A d \in Client \ {c} : cl'[d] = cl[d]
        BY <1>10 DEF Take, TypeOK
      <3>5. \A q \in Request \ {r} : taken'[q] = taken[q]
        BY <1>10 DEF Take, TypeOK
      <3>6. UNCHANGED <<chan, result>>
        BY <1>10 DEF Take, handler
      <3> QED
        BY <3>1, <3>2, <3>3, <3>4, <3>5, <3>6 DEF AnswersAreDelivered
    <2>4. UnlistedIsUnanswered'
      BY <1>10
      DEF UnlistedIsUnanswered, Take, Waiting, GaveUp, handler, PendingIsOpen
    <2>5. RespondersHold'
      BY <1>10, NoneAssumption
      DEF RespondersHold, Take, Responding, handler, TypeOK, PendingIsOpen
    <2>6. DoneIsReturned'
      BY <1>10 DEF DoneIsReturned, Take, handler
    <2> QED
      BY <2>1, <2>2, <2>3, <2>4, <2>5, <2>6 DEF BridgeInv
  <1>11. ASSUME NEW c \in Client, StoreDecision(c)
        PROVE  BridgeInv'
    <2>1. PendingIsOpen'
      BY <1>11 DEF PendingIsOpen, StoreDecision, handler
    <2>2. WaitingIsAnswerable'
      BY <1>11 DEF WaitingIsAnswerable, StoreDecision, Listed, handler
    <2>3. AnswersAreDelivered'
      BY <1>11 DEF AnswersAreDelivered, StoreDecision, handler
    <2>4. UnlistedIsUnanswered'
      BY <1>11 DEF UnlistedIsUnanswered, StoreDecision, handler
    <2>5. RespondersHold'
      BY <1>11 DEF RespondersHold, StoreDecision, handler
    <2>6. DoneIsReturned'
      BY <1>11 DEF DoneIsReturned, StoreDecision, handler
    <2> QED
      BY <2>1, <2>2, <2>3, <2>4, <2>5, <2>6 DEF BridgeInv
  <1>12. ASSUME NEW c \in Client, Send(c)
        PROVE  BridgeInv'
    <2>0. /\ cl[c] # None
          /\ cl[c].request \in Request
          /\ taken[cl[c].request] = cl[c].answer
          /\ taken[cl[c].request] # None
          /\ chan' = [chan EXCEPT ![cl[c].request] = cl[c].answer.decision]
          /\ cl' = [cl EXCEPT ![c] = None]
          /\ UNCHANGED <<pc, req, pending, result, taken>>
      BY <1>12, HeldIsTaken DEF Send
    <2>1. PendingIsOpen'
      BY <2>0 DEF PendingIsOpen, TypeOK, Partial
    <2>2. WaitingIsAnswerable'
      BY <1>12 DEF WaitingIsAnswerable, Send, Listed
    <2>3. AnswersAreDelivered'
      BY <2>0 DEF AnswersAreDelivered, TypeOK, Partial
    <2>4. UnlistedIsUnanswered'
      BY <2>0 DEF UnlistedIsUnanswered, TypeOK, Partial
    <2>5. RespondersHold'
      BY <1>12 DEF RespondersHold, Send, TypeOK, AnswersAreDelivered
    <2>6. DoneIsReturned'
      BY <1>12 DEF DoneIsReturned, Send
    <2> QED
      BY <2>1, <2>2, <2>3, <2>4, <2>5, <2>6 DEF BridgeInv

  <1>13. CASE UNCHANGED <<pc, req, pending, chan, result, cl, taken>>
    BY <1>13
    DEF PendingIsOpen, WaitingIsAnswerable, AnswersAreDelivered, Listed,
        UnlistedIsUnanswered, RespondersHold, DoneIsReturned
  <1>14. ASSUME NEW c \in Client, Connect(c) \/ Disconnect(c) PROVE BridgeInv'
    BY <1>13, <1>14 DEF Connect, Disconnect, handler
  <1>15. ASSUME NEW s \in Session, GoIdle(s) PROVE BridgeInv'
    BY <1>13, <1>15 DEF GoIdle, handler
  <1>16. ASSUME Cleanup PROVE BridgeInv'
    BY <1>13, <1>16 DEF Cleanup, handler
  <1>17. CASE UNCHANGED vars
    BY <1>13, <1>17 DEF vars
  <1> QED
    BY <1>1, <1>2, <1>3, <1>4, <1>5, <1>6, <1>7, <1>8, <1>9, <1>10, <1>11,
       <1>12, <1>14, <1>15, <1>16, <1>17
    DEF Next, HandlerStep, RespondStep
-----------------------------------------------------------------------------
(***************************************************************************)
(* No step takes an accepted answer back or replaces it.                   *)
(***************************************************************************)
AnswersStay == \A r \in Request : taken[r] # None => taken'[r] = taken[r]

\* No step replaces an accepted answer.
LEMMA NextAnswer == BridgeInv /\ [Next]_vars => AnswersStay
  <1> SUFFICES ASSUME BridgeInv, [Next]_vars PROVE AnswersStay
    OBVIOUS
  <1>1. CASE UNCHANGED taken
    BY <1>1 DEF AnswersStay
  <1>2. ASSUME NEW c \in Client, NEW tool \in ToolUse, NEW answer \in Answer,
               Take(c, tool, answer)
        PROVE  AnswersStay
    <2>1. taken[pending[tool]] = None
      BY <1>2 DEF Take, BridgeInv, PendingIsOpen
    <2> QED
      BY <1>2, <2>1 DEF Take, AnswersStay, BridgeInv, TypeOK
  <1> QED
    BY <1>1, <1>2
    DEF Next, HandlerStep, RespondStep, Invoke, InvokeBypassed, CheckMemory,
        AddPendingRequest, CountSubscribers, Receive, TimerFires, ContextDone,
        GiveUp, StoreDecision, Send, Connect, Disconnect, GoIdle, Cleanup, vars

-----------------------------------------------------------------------------
(***************************************************************************)
(* The bound of the memory.                                                *)
(***************************************************************************)
Bounded(known) ==
    /\ IsFiniteSet(DOMAIN known)
    /\ Cardinality(DOMAIN known) \in Nat
    /\ Cardinality(DOMAIN known) =< MaxPatterns

MemoryInv == \A s \in DOMAIN mem : Bounded(mem[s].decisions)

\* What a session remembers is bounded, also when it has no memory.
LEMMA RememberedBounded ==
    ASSUME MemoryInv, NEW s
    PROVE  Bounded(Remembered(mem, s))
  <1>1. Bounded(EmptyFunction)
    BY FS_EmptySet, MaxPatternsAssumption DEF Bounded, EmptyFunction
  <1> QED
    BY <1>1 DEF MemoryInv, Remembered

\* Eviction makes room for one more decision.
LEMMA EvictedHasRoom ==
    ASSUME NEW known, Bounded(known), NEW kept \in Evicted(known)
    PROVE  /\ IsFiniteSet(DOMAIN kept)
           /\ Cardinality(DOMAIN kept) \in Nat
           /\ Cardinality(DOMAIN kept) < MaxPatterns
  <1>1. CASE ~(Cardinality(DOMAIN known) >= MaxPatterns)
    BY <1>1, MaxPatternsAssumption DEF Evicted, Bounded
  <1>2. CASE Cardinality(DOMAIN known) >= MaxPatterns
    <2>1. PICK p \in DOMAIN known : kept = Without(known, p)
      BY <1>2 DEF Evicted, Oldest
    <2>2. DOMAIN kept = DOMAIN known \ {p}
      BY <2>1 DEF Without
    <2>3. IsFiniteSet(DOMAIN kept) /\ Cardinality(DOMAIN kept) = Cardinality(DOMAIN known) - 1
      BY <2>1, <2>2, FS_RemoveElement DEF Bounded
    <2>4. Cardinality(DOMAIN kept) \in Nat
      BY <2>3, FS_CardinalityType
    <2> QED
      BY <2>3, <2>4, MaxPatternsAssumption DEF Bounded
  <1> QED
    BY <1>1, <1>2

\* A decision that has room fits.
LEMMA WithBounded ==
    ASSUME NEW kept, IsFiniteSet(DOMAIN kept), Cardinality(DOMAIN kept) \in Nat,
           Cardinality(DOMAIN kept) < MaxPatterns, NEW p, NEW v
    PROVE  Bounded(With(kept, p, v))
  <1>1. DOMAIN With(kept, p, v) = DOMAIN kept \cup {p}
    BY DEF With
  <1> QED
    BY <1>1, FS_AddElement, MaxPatternsAssumption DEF Bounded

\* Every step keeps every session's memory within its bound.
LEMMA NextMemory == MemoryInv /\ [Next]_vars => MemoryInv'
  <1> SUFFICES ASSUME MemoryInv, [Next]_vars PROVE MemoryInv'
    OBVIOUS
  <1>1. CASE UNCHANGED mem
    BY <1>1 DEF MemoryInv
  <1>2. ASSUME NEW s \in DOMAIN mem, NEW idle, mem' = Marked(mem, s, idle)
        PROVE  MemoryInv'
    BY <1>2 DEF MemoryInv, Marked, With
  <1>3. ASSUME NEW r \in Request, CheckMemory(r) PROVE MemoryInv'
    BY <1>1, <1>2, <1>3 DEF CheckMemory, Touch
  <1>4. ASSUME NEW c \in Client, StoreDecision(c) PROVE MemoryInv'
    <2> DEFINE s == req[cl[c].request].session
               p == PatternOf[req[cl[c].request].call]
               v == [decision |-> cl[c].answer.decision, at |-> stores]
    <2>1. PICK kept \in Evicted(Remembered(mem, s)) :
             mem' = With(mem, s, [decisions |-> With(kept, p, v), idle |-> FALSE])
      BY <1>4 DEF StoreDecision, Stored
    <2>2. Bounded(With(kept, p, v))
      BY RememberedBounded, EvictedHasRoom, WithBounded
    <2> QED
      BY <2>1, <2>2 DEF MemoryInv, With
  <1>5. CASE Cleanup
    BY <1>5 DEF Cleanup, Cleaned, MemoryInv
  <1>6. ASSUME NEW s \in Session, GoIdle(s) PROVE MemoryInv'
    BY <1>2, <1>6 DEF GoIdle
  <1> QED
    BY <1>1, <1>3, <1>4, <1>5, <1>6
    DEF Next, HandlerStep, RespondStep, Invoke, InvokeBypassed,
        AddPendingRequest, CountSubscribers, Receive, TimerFires, ContextDone,
        GiveUp, Take, Send, Connect, Disconnect, vars

-----------------------------------------------------------------------------
(***************************************************************************)
(* What is remembered was granted.                                         *)
(***************************************************************************)

\* Only an answer for the session is on its way to the memory.
StoresForSession ==
    \A c \in Client :
        (cl[c] # None /\ cl[c].at = "store") => cl[c].answer.scope = "session"

\* The decisions in the memory, and those returned from it.
HeldIsGranted ==
    \A s \in DOMAIN mem : \A p \in DOMAIN mem[s].decisions :
        Granted(s, p, mem[s].decisions[p].decision)

Remembers(r) ==
    \E p \in Pattern :
        /\ p = PatternOf[req[r].call] \/ <<p, req[r].call>> \in Matches
        /\ Granted(req[r].session, p, result[r].decision)

GrantInv == BridgeInv /\ StoresForSession /\ MemoryIsGranted

\* What was asked stays as it was asked.
LEMMA AskedStays ==
    ASSUME BridgeInv, [Next]_vars, NEW r \in Request, req[r] # None
    PROVE  req'[r] = req[r]
  <1>1. pc[r] # "idle"
    BY DEF BridgeInv, TypeOK
  <1>2. ASSUME NEW q \in Request, Invoke(q) \/ InvokeBypassed(q) PROVE req'[r] = req[r]
    BY <1>1, <1>2 DEF Invoke, InvokeBypassed, BridgeInv, TypeOK
  <1> QED
    BY <1>2
    DEF Next, HandlerStep, RespondStep, CheckMemory, AddPendingRequest,
        CountSubscribers, Receive, TimerFires, ContextDone, GiveUp, Take,
        StoreDecision, Send, Connect, Disconnect, GoIdle, Cleanup, vars, handler

\* What was granted stays granted.
LEMMA GrantedStays ==
    ASSUME BridgeInv, [Next]_vars, NEW s, NEW p, NEW d, Granted(s, p, d)
    PROVE  Granted(s, p, d)'
  <1>1. PICK q \in Request : /\ taken[q] # None /\ req[q] # None
                             /\ taken[q] = [decision |-> d, scope |-> "session"]
                             /\ req[q].session = s
                             /\ PatternOf[req[q].call] = p
    BY DEF Granted
  <1>2. req'[q] = req[q]
    BY <1>1, AskedStays
  <1>3. taken'[q] = taken[q]
    <2>1. AnswersStay
      BY NextAnswer
    <2> QED
      BY <1>1, <2>1 DEF AnswersStay
  <1> QED
    BY <1>1, <1>2, <1>3 DEF Granted

\* An answer on its way to the memory is a grant.
LEMMA StoringIsGranted ==
    ASSUME GrantInv, NEW c \in Client, StoreDecision(c)
    PROVE  LET of == req[cl[c].request]
           IN  Granted(of.session, PatternOf[of.call], cl[c].answer.decision)
  <1>1. cl[c] # None /\ cl[c].at = "store"
    BY DEF StoreDecision
  <1>2. /\ cl[c].request \in Request
        /\ taken[cl[c].request] = cl[c].answer
        /\ taken[cl[c].request] # None
        /\ cl[c].answer \in Answer
    BY <1>1, HeldIsTaken DEF GrantInv
  <1>3. cl[c].answer = [decision |-> cl[c].answer.decision, scope |-> "session"]
    BY <1>1, <1>2 DEF GrantInv, StoresForSession, Answer
  <1>4. req[cl[c].request] # None
    BY <1>2 DEF GrantInv, BridgeInv, UnlistedIsUnanswered, TypeOK
  <1> QED
    BY <1>2, <1>3, <1>4 DEF Granted

\* Eviction adds nothing.
LEMMA EvictedIsPart ==
    ASSUME NEW known, NEW kept \in Evicted(known), NEW p \in DOMAIN kept
    PROVE  p \in DOMAIN known /\ kept[p] = known[p]
  BY DEF Evicted, Oldest, Without

\* Whatever a step leaves in the memory was there or has been granted.
LEMMA HeldStaysGranted ==
    ASSUME GrantInv, [Next]_vars
    PROVE  HeldIsGranted'
  <1> SUFFICES ASSUME NEW s \in DOMAIN mem', NEW p \in DOMAIN mem'[s].decisions,
                      NEW d, d = mem'[s].decisions[p].decision
               PROVE  Granted(s, p, d)'
    BY DEF HeldIsGranted
  <1>0. BridgeInv
    BY DEF GrantInv
  <1>1. ASSUME s \in DOMAIN mem, p \in DOMAIN mem[s].decisions,
               mem'[s].decisions[p] = mem[s].decisions[p]
        PROVE  Granted(s, p, d)'
    <2>1. Granted(s, p, d)
      BY <1>1 DEF GrantInv, MemoryIsGranted
    <2> QED
      BY <2>1, <1>0, <1>1, GrantedStays
  <1>2. CASE UNCHANGED mem
    BY <1>1, <1>2
  <1>3. ASSUME NEW t \in DOMAIN mem, NEW idle, mem' = Marked(mem, t, idle)
        PROVE  Granted(s, p, d)'
    BY <1>1, <1>3 DEF Marked, With
  <1>4. ASSUME NEW r \in Request, CheckMemory(r)
        PROVE  Granted(s, p, d)'
    BY <1>2, <1>3, <1>4 DEF CheckMemory, Touch
  <1>5. ASSUME NEW c \in Client, StoreDecision(c)
        PROVE  Granted(s, p, d)'
    <2> DEFINE t == req[cl[c].request].session
               q == PatternOf[req[cl[c].request].call]
               v == [decision |-> cl[c].answer.decision, at |-> stores]
    <2>1. PICK kept \in Evicted(Remembered(mem, t)) :
             mem' = With(mem, t, [decisions |-> With(kept, q, v), idle |-> FALSE])
      BY <1>5 DEF StoreDecision, Stored
    <2>2. CASE s # t
      BY <1>1, <2>1, <2>2 DEF With
    <2>3. CASE s = t /\ p # q
      <3>1. p \in DOMAIN kept /\ mem'[s].decisions[p] = kept[p]
        BY <2>1, <2>3 DEF With
      <3>2. p \in DOMAIN Remembered(mem, t) /\ kept[p] = Remembered(mem, t)[p]
        BY <3>1, EvictedIsPart
      <3>3. s \in DOMAIN mem /\ Remembered(mem, t) = mem[s].decisions
        BY <2>3, <3>2 DEF Remembered, EmptyFunction
      <3> QED
        BY <1>1, <3>1, <3>2, <3>3
    <2>4. CASE s = t /\ p = q
      <3>1. d = cl[c].answer.decision
        BY <2>1, <2>4 DEF With
      <3>2. Granted(s, p, d)
        BY <1>5, <2>4, <3>1, StoringIsGranted
      <3> QED
        BY <1>0, <3>1, <3>2, GrantedStays
    <2> QED
      BY <2>2, <2>3, <2>4
  <1>6. CASE Cleanup
    BY <1>1, <1>6 DEF Cleanup, Cleaned
  <1>7. ASSUME NEW t \in Session, GoIdle(t)
        PROVE  Granted(s, p, d)'
    BY <1>3, <1>7 DEF GoIdle
  <1> QED
    BY <1>2, <1>4, <1>5, <1>6, <1>7
    DEF Next, HandlerStep, RespondStep, Invoke, InvokeBypassed,
        AddPendingRequest, CountSubscribers, Receive, TimerFires, ContextDone,
        GiveUp, Take, Send, Connect, Disconnect, vars

\* What CheckMemory finds for a call was granted in its session, under a pattern
\* that the call generates or that matches it.
LEMMA FoundIsGranted ==
    ASSUME GrantInv, NEW r \in Request, req[r] # None,
           NEW d \in Lookup(mem, req[r].session, req[r].call)
    PROVE  \E p \in Pattern :
              /\ p = PatternOf[req[r].call] \/ <<p, req[r].call>> \in Matches
              /\ Granted(req[r].session, p, d)
  <1> DEFINE s == req[r].session
             known == Remembered(mem, s)
  <1>1. PICK p \in DOMAIN known :
           /\ p = PatternOf[req[r].call] \/ <<p, req[r].call>> \in Matches
           /\ d = known[p].decision
    BY DEF Lookup
  <1>2. s \in DOMAIN mem /\ known = mem[s].decisions
    BY <1>1 DEF Remembered, EmptyFunction
  <1>3. p \in Pattern
    BY <1>1, <1>2 DEF GrantInv, BridgeInv, TypeOK, IsMemory, IsSessionMemory, Partial
  <1>4. Granted(s, p, d)
    BY <1>1, <1>2 DEF GrantInv, MemoryIsGranted
  <1> QED
    BY <1>1, <1>3, <1>4

\* A handler that returns does so once, from the state "check" when it was the
\* memory that decided.
LEMMA NewResult ==
    ASSUME BridgeInv, [Next]_vars, NEW r \in Request,
           result'[r] # None, result'[r].by = "memory"
    PROVE  \/ result'[r] = result[r]
           \/ CheckMemory(r) /\ result'[r].decision \in Lookup(mem, req[r].session, req[r].call)
  <1> USE DEF BridgeInv, TypeOK
  <1>1. CASE UNCHANGED result
    BY <1>1
  <1>2. ASSUME NEW q \in Request, CheckMemory(q)
        PROVE  \/ result'[r] = result[r]
               \/ CheckMemory(r) /\ result'[r].decision \in Lookup(mem, req[r].session, req[r].call)
    BY <1>2 DEF CheckMemory, Return
  <1>3. ASSUME NEW q \in Request,
               InvokeBypassed(q) \/ Receive(q) \/ GiveUp(q)
        PROVE  result'[r] = result[r]
    <2>1. q # r => result'[r] = result[r]
      BY <1>3 DEF InvokeBypassed, Receive, GiveUp, Return
    <2>2. q = r => result'[r].by \in {"bypass", "client"} \cup GaveUp
      BY <1>3 DEF InvokeBypassed, Receive, GiveUp, Return
    <2> QED
      BY <2>1, <2>2 DEF GaveUp
  <1> QED
    BY <1>1, <1>2, <1>3
    DEF Next, HandlerStep, RespondStep, Invoke, AddPendingRequest, CountSubscribers,
        TimerFires, ContextDone, Take, StoreDecision, Send, Connect, Disconnect,
        GoIdle, Cleanup, vars, handler

\* Every step keeps the memory and what comes from it granted.
LEMMA NextGrant == GrantInv /\ [Next]_vars => GrantInv'
  <1> SUFFICES ASSUME GrantInv, [Next]_vars PROVE GrantInv'
    OBVIOUS
  <1>0. BridgeInv /\ BridgeInv'
    BY NextInv DEF GrantInv
  <1>1. StoresForSession'
    <2>1. CASE UNCHANGED cl
      BY <2>1 DEF GrantInv, StoresForSession
    <2>2. ASSUME NEW c \in Client, NEW tool \in ToolUse, NEW answer \in Answer,
                 Take(c, tool, answer)
          PROVE  StoresForSession'
      BY <2>2, <1>0 DEF Take, GrantInv, StoresForSession, BridgeInv, TypeOK
    <2>3. ASSUME NEW c \in Client, StoreDecision(c) \/ Send(c) PROVE StoresForSession'
      BY <2>3, <1>0 DEF StoreDecision, Send, GrantInv, StoresForSession, BridgeInv, TypeOK, Responding
    <2> QED
      BY <2>1, <2>2, <2>3
      DEF Next, HandlerStep, RespondStep, Invoke, InvokeBypassed, CheckMemory,
          AddPendingRequest, CountSubscribers, Receive, TimerFires, ContextDone,
          GiveUp, Connect, Disconnect, GoIdle, Cleanup, vars
  <1>2. HeldIsGranted'
    BY HeldStaysGranted
  <1>3. ASSUME NEW r \in Request, result'[r] # None, result'[r].by = "memory"
        PROVE  Remembers(r)'
    <2>1. ASSUME NEW d, req[r] # None, d = result'[r].decision,
                 \E p \in Pattern :
                    /\ p = PatternOf[req[r].call] \/ <<p, req[r].call>> \in Matches
                    /\ Granted(req[r].session, p, d)
          PROVE  Remembers(r)'
      <3>1. req'[r] = req[r]
        BY <1>0, <2>1, AskedStays
      <3>2. PICK p \in Pattern :
               /\ p = PatternOf[req[r].call] \/ <<p, req[r].call>> \in Matches
               /\ Granted(req[r].session, p, d)
        BY <2>1
      <3>3. ASSUME NEW s, s = req[r].session PROVE Granted(s, p, d)'
        BY <1>0, <3>2, <3>3, GrantedStays
      <3>4. Granted(req[r].session, p, d)'
        BY <3>1, <3>3
      <3> QED
        BY <2>1, <3>1, <3>2, <3>4 DEF Remembers
    <2>2. CASE result'[r] = result[r]
      <3>1. result[r] # None /\ pc[r] # "idle" /\ req[r] # None
        BY <1>0, <1>3, <2>2 DEF BridgeInv, DoneIsReturned, TypeOK
      <3> QED
        BY <1>3, <2>1, <2>2, <3>1 DEF GrantInv, MemoryIsGranted
    <2>3. CASE CheckMemory(r) /\ result'[r].decision \in Lookup(mem, req[r].session, req[r].call)
      <3>1. req[r] # None
        BY <1>0, <2>3 DEF CheckMemory, BridgeInv, TypeOK
      <3> QED
        BY <2>1, <2>3, <3>1, FoundIsGranted
    <2> QED
      BY <1>0, <1>3, <2>2, <2>3, NewResult
  <1> QED
    BY <1>0, <1>1, <1>2, <1>3 DEF GrantInv, MemoryIsGranted, HeldIsGranted, Remembers

-----------------------------------------------------------------------------
(***************************************************************************)
(* Every step is a step of PermissionPromise, or leaves what it speaks of. *)
(***************************************************************************)

\* A handler that is under way is an open request.
LEMMA UnderWayIsOpen ==
    ASSUME BridgeInv, NEW r \in Request, pc[r] \notin {"idle", "done"}
    PROVE  P!Open(r)
  BY DEF BridgeInv, TypeOK, DoneIsReturned, P!Open

\* A step of the bridge is a step of PermissionPromise, or one that it does not see.
LEMMA NextPromise == GrantInv /\ [Next]_vars => [P!Next]_(P!pvars)
  <1> SUFFICES ASSUME GrantInv, [Next]_vars PROVE [P!Next]_(P!pvars)
    OBVIOUS
  <1>0. BridgeInv /\ TypeOK
    BY DEF GrantInv, BridgeInv
  <1>1. CASE UNCHANGED <<req, taken, result>>
    BY <1>1 DEF P!pvars
  <1>2. ASSUME NEW r \in Request, Invoke(r) PROVE P!Ask(r)
    BY <1>0, <1>2 DEF Invoke, TypeOK, P!Ask
  <1>3. ASSUME NEW r \in Request, InvokeBypassed(r) PROVE P!AskBypassed(r)
    BY <1>0, <1>3 DEF InvokeBypassed, Return, TypeOK, P!AskBypassed
  <1>4. ASSUME NEW r \in Request, CheckMemory(r)
        PROVE  P!CloseRemembered(r) \/ UNCHANGED <<req, taken, result>>
    <2>1. CASE UNCHANGED result
      BY <1>4, <2>1 DEF CheckMemory
    <2>2. ASSUME NEW d \in Lookup(mem, req[r].session, req[r].call), Return(r, "memory", d)
          PROVE  P!CloseRemembered(r)
      <3>1. P!Open(r)
        BY <1>0, <1>4, UnderWayIsOpen DEF CheckMemory
      <3>2. req[r] # None
        BY <3>1 DEF P!Open
      <3>3. PICK p \in Pattern :
               /\ p = PatternOf[req[r].call] \/ <<p, req[r].call>> \in Matches
               /\ Granted(req[r].session, p, d)
        BY <2>2, <3>2, FoundIsGranted
      <3>4. PICK q \in Request : /\ taken[q] # None /\ req[q] # None
                                 /\ taken[q] = [decision |-> d, scope |-> "session"]
                                 /\ req[q].session = req[r].session
                                 /\ PatternOf[req[q].call] = p
        BY <3>3 DEF Granted
      <3>5. taken[q].scope = "session" /\ taken[q].decision = d
        BY <3>4
      <3>6. P!Covers(q, r)
        BY <3>3, <3>4, <3>5 DEF P!Covers
      <3>7. P!Close(r, "memory", d)
        BY <1>4, <2>2, <3>1 DEF P!Close, CheckMemory, Return
      <3> QED
        BY <3>2, <3>4, <3>5, <3>6, <3>7 DEF P!CloseRemembered
    <2> QED
      BY <1>4, <2>1, <2>2 DEF CheckMemory
  <1>5. ASSUME NEW r \in Request, Receive(r) PROVE P!CloseAnswered(r)
    <2>1. P!Open(r)
      BY <1>0, <1>5, UnderWayIsOpen DEF Receive
    <2>2. taken[r] # None /\ chan[r] = taken[r].decision
      BY <1>0, <1>5 DEF Receive, BridgeInv, AnswersAreDelivered
    <2> QED
      BY <1>5, <2>1, <2>2 DEF P!CloseAnswered, P!Close, Receive, Return
  <1>6. ASSUME NEW r \in Request, GiveUp(r) PROVE P!CloseByDefault(r)
    <2>1. P!Open(r)
      BY <1>0, <1>6, UnderWayIsOpen DEF GiveUp, GaveUp
    <2>2. \E d \in {"deny", "ask"} : P!Close(r, pc[r], d)
      BY <1>6, <2>1 DEF P!Close, GiveUp, Return
    <2>3. pc[r] \in {"no_clients", "timeout", "cancelled"}
      BY <1>6 DEF GiveUp, GaveUp
    <2> QED
      BY <2>2, <2>3 DEF P!CloseByDefault
  <1>7. ASSUME NEW c \in Client, NEW tool \in ToolUse, NEW answer \in Answer,
               Take(c, tool, answer)
        PROVE  P!AnswerRequest(pending[tool])
    <2>1. pc[pending[tool]] \in Waiting /\ taken[pending[tool]] = None
      BY <1>0, <1>7 DEF Take, BridgeInv, PendingIsOpen
    <2>2. pending[tool] \in Request
      BY <1>0, <1>7 DEF Take, TypeOK, Partial
    <2>3. P!Open(pending[tool])
      BY <1>0, <2>1, <2>2, UnderWayIsOpen DEF Waiting, GaveUp
    <2> QED
      BY <1>7, <2>1, <2>3 DEF P!AnswerRequest, Take, handler
  <1>8. ASSUME NEW r \in Request,
               \/ P!Ask(r) \/ P!AskBypassed(r) \/ P!AnswerRequest(r) \/ P!CloseAnswered(r)
               \/ P!CloseRemembered(r) \/ P!CloseByDefault(r)
        PROVE  P!Next
    BY <1>8 DEF P!Next
  <1>9. ASSUME NEW c \in Client, NEW tool \in ToolUse, NEW answer \in Answer,
               Take(c, tool, answer)
        PROVE  P!Next
    BY <1>0, <1>7, <1>8, <1>9 DEF Take, TypeOK, Partial
  <1> QED
    BY <1>1, <1>2, <1>3, <1>4, <1>5, <1>6, <1>8, <1>9
    DEF Next, HandlerStep, RespondStep, AddPendingRequest, CountSubscribers,
        TimerFires, ContextDone, StoreDecision, Send, Connect, Disconnect, GoIdle,
        Cleanup, vars, handler

-----------------------------------------------------------------------------
(***************************************************************************)
(* The theorems.                                                           *)
(***************************************************************************)

\* The inductive invariant holds in every reachable state.
THEOREM Invariance == Spec => []BridgeInv
  BY InitInv, NextInv, PTL DEF Spec

\* Every variable keeps its type (permission.go, hooks.go, memory.go).
THEOREM TypeCorrect == Spec => []TypeOK
  <1>1. BridgeInv => TypeOK
    BY DEF BridgeInv
  <1> QED
    BY <1>1, Invariance, PTL

\* No path out of the request handlers leaves a stale entry on the pending
\* map, and an entry's response channel is empty: the drain in
\* RemovePendingRequest never finds a response.
THEOREM NoStalePending == Spec => []PendingIsOpen
  <1>1. BridgeInv => PendingIsOpen
    BY DEF BridgeInv
  <1> QED
    BY <1>1, Invariance, PTL

\* A waiting handler can be answered unless it shares its tool-use ID.
THEOREM WaitersAreAnswerable == Spec => []WaitingIsAnswerable
  <1>1. BridgeInv => WaitingIsAnswerable
    BY DEF BridgeInv
  <1> QED
    BY <1>1, Invariance, PTL

\* A hook gets the answer a phone gave to its own request, delivered once.
THEOREM RightAnswers == Spec => []AnswersAreDelivered
  <1>1. BridgeInv => AnswersAreDelivered
    BY DEF BridgeInv
  <1> QED
    BY <1>1, Invariance, PTL

\* An accepted answer is never replaced by a later one.
THEOREM AcceptedOnce == Spec => OneAnswer
  <1>1. BridgeInv /\ [Next]_vars =>
            [\A r \in Request : taken[r] # None => taken'[r] = taken[r]]_taken
    BY NextAnswer DEF AnswersStay
  <1> QED
    BY <1>1, Invariance, PTL DEF Spec, OneAnswer

\* A session's memory never outgrows the configured number of patterns.
THEOREM MemoryStaysBounded == Spec => []MemoryBounded
  <1>1. Init => MemoryInv
    BY DEF Init, MemoryInv, EmptyFunction
  <1>2. MemoryInv => MemoryBounded
    BY DEF MemoryInv, MemoryBounded, Bounded
  <1> QED
    BY <1>1, <1>2, NextMemory, PTL DEF Spec

\* What holds of the memory from the first state on.
LEMMA InitGrant == Init => GrantInv
  <1>1. Init => StoresForSession /\ MemoryIsGranted
    BY DEF Init, StoresForSession, MemoryIsGranted, EmptyFunction
  <1> QED
    BY <1>1, InitInv DEF GrantInv

\* What a session remembers, and what a hook is told from it, was given "for
\* session" by a phone to a request of that same session (memory.go CheckMemory,
\* StoreDecision).
THEOREM MemoryAlwaysGranted == Spec => []MemoryIsGranted
  <1>1. GrantInv => MemoryIsGranted
    BY DEF GrantInv
  <1> QED
    BY <1>1, InitGrant, NextGrant, PTL DEF Spec

\* The bridge implements the promise: a hook is told what a phone answered to it,
\* what a phone said for its session, or a default that allows nothing
\* (permission.go Request, Respond; hooks.go handlePermissionRequest).
THEOREM BridgeKeepsPromise == Spec => KeepsPromise
  <1>1. Init => P!Init
    BY DEF Init, P!Init
  <1> QED
    BY <1>1, InitGrant, NextGrant, NextPromise, PTL DEF Spec, KeepsPromise, P!Spec
=============================================================================
