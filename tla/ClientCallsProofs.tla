------------------------- MODULE ClientCallsProofs -------------------------
(***************************************************************************)
(* Proofs about ClientCalls for any number of calls, messages and dials.   *)
(***************************************************************************)
EXTENDS ClientCalls, TLAPS

(* The places of Invoke between RegisterMethodCall and RemoveMethodCall. *)
Registered == {"registered", "picking", "writing", "waiting", "leaving"}

(* cc.methodCalls holds the calls of exactly those. *)
RegistryIsExact == \A c \in Calls : c \in methodCalls <=> pc[c] \in Registered

(* A request that has left belongs to an Invoke past its Write. *)
SentPastWrite == \A c \in sent : pc[c] \in {"waiting", "leaving", "returned"}

(* A handler's response is for a call that has been sent. *)
HandlerOfSentCall == \A h \in Responses : hpc[h] # "idle" => hid[h] \in sent

(* An Invoke that has sent its request and has left its select was told to by
   its context or by a response. *)
LeftForAReason ==
  \A c \in sent :
     pc[c] \in {"leaving", "returned"}
        => c \in ctxDone \/ \E g \in Responses : hid[g] = c /\ hpc[g] = "delivered"

(* A dial that has succeeded may install its transport. *)
RoomForTransport == dial = "dialled" => created < MaxTransports

IInv == /\ TypeOK /\ RegistryIsExact /\ SentPastWrite /\ HandlerOfSentCall
        /\ LeftForAReason /\ RoomForTransport

USE DEF Registered

(* The initial state satisfies the inductive invariant. *)
LEMMA InitIInv == Init => IInv
<1> SUFFICES ASSUME Init PROVE IInv
  OBVIOUS
<1>1. service \in BOOLEAN /\ attached \in BOOLEAN /\ ready \in BOOLEAN
  BY Zenon DEF Init
<1>2. TypeOK
  BY <1>1, MaxTransportsAssumption DEF Init, TypeOK, Transports
<1> QED
  BY <1>2 DEF Init, IInv, RegistryIsExact, SentPastWrite, HandlerOfSentCall, LeftForAReason,
              RoomForTransport

(* Every step preserves it. *)
LEMMA StepIInv == IInv /\ [Next]_vars => IInv'
<1> SUFFICES ASSUME IInv, [Next]_vars PROVE IInv'
  OBVIOUS
<1> USE MaxTransportsAssumption
    DEF IInv, TypeOK, RegistryIsExact, SentPastWrite, HandlerOfSentCall, LeftForAReason,
        RoomForTransport, Transports, Goto, RequestGoto, callVars, handlerVars, connVars
<1>1. ASSUME NEW c \in Calls, BeginInvoke(c)
      PROVE  IInv'
  BY <1>1 DEF BeginInvoke
<1>2. ASSUME NEW c \in Calls, BeginInvokePanics(c)
      PROVE  IInv'
  BY <1>2 DEF BeginInvokePanics
<1>3. ASSUME NEW c \in Calls, CheckState(c)
      PROVE  IInv'
  BY <1>3 DEF CheckState
<1>4. ASSUME NEW c \in Calls, InvokeRejected(c)
      PROVE  IInv'
  BY <1>4 DEF InvokeRejected
<1>5. ASSUME NEW c \in Calls, RegisterMethodCall(c)
      PROVE  IInv'
  BY <1>5 DEF RegisterMethodCall
<1>6. ASSUME NEW c \in Calls, PickTransport(c)
      PROVE  IInv'
  BY <1>6 DEF PickTransport
<1>7. ASSUME NEW c \in Calls, TakeTransport(c)
      PROVE  IInv'
  BY <1>7 DEF TakeTransport
<1>8. ASSUME NEW c \in Calls, WriteAccepted(c)
      PROVE  IInv'
  BY <1>8 DEF WriteAccepted
(* c has not been sent, so it owes no reason to leave. *)
<1>9. ASSUME NEW c \in Calls, WriteFails(c)
      PROVE  IInv'
  BY <1>9 DEF WriteFails
<1>10. ASSUME NEW c \in Calls, TimeOut(c)
       PROVE  IInv'
  BY <1>10 DEF TimeOut
<1>11. ASSUME NEW c \in Calls, RemoveMethodCall(c)
       PROVE  IInv'
  BY <1>11 DEF RemoveMethodCall
<1>12. ASSUME NEW c \in Calls, ContextDone(c)
       PROVE  IInv'
  BY <1>12 DEF ContextDone
(* h was idle, so it was nobody's reason to leave. *)
<1>13. ASSUME NEW h \in Responses, NEW c \in Calls, ReceiveResponse(h, c)
       PROVE  IInv'
  BY <1>13 DEF ReceiveResponse
<1>14. ASSUME NEW h \in Responses, LookupResponse(h)
       PROVE  IInv'
  BY <1>14 DEF LookupResponse
<1>15. ASSUME NEW h \in Responses, Deliver(h)
       PROVE  IInv'
  <2> USE <1>15 DEF Deliver, HandOver
  <2>1. TypeOK'
    OBVIOUS
  <2>2. RegistryIsExact'
    OBVIOUS
  <2>3. SentPastWrite' /\ HandlerOfSentCall'
    OBVIOUS
  (* h is the reason. *)
  <2>4. LeftForAReason'
    OBVIOUS
  <2>5. RoomForTransport'
    OBVIOUS
  <2> QED
    BY <2>1, <2>2, <2>3, <2>4, <2>5
<1>16. ASSUME NEW h \in Responses, DropExpired(h)
       PROVE  IInv'
  BY <1>16 DEF DropExpired
<1>17. ASSUME NEW r \in Requests, ReceiveRequest(r)
       PROVE  IInv'
  BY <1>17 DEF ReceiveRequest
<1>18. ASSUME NEW r \in Requests, RequestDropped(r)
       PROVE  IInv'
  BY <1>18 DEF RequestDropped
<1>19. ASSUME NEW r \in Requests, RequestHandled(r)
       PROVE  IInv'
  BY <1>19 DEF RequestHandled
<1>20. ASSUME NEW r \in Requests, PickReplyTransport(r)
       PROVE  IInv'
  BY <1>20 DEF PickReplyTransport
<1>21. ASSUME NEW r \in Requests, TakeReplyTransport(r)
       PROVE  IInv'
  BY <1>21 DEF TakeReplyTransport
<1>22. ASSUME NEW r \in Requests, ReplyWritten(r)
       PROVE  IInv'
  BY <1>22 DEF ReplyWritten
<1>23. ASSUME NEW r \in Requests, RequestPanics(r)
       PROVE  IInv'
  BY <1>23 DEF RequestPanics
<1>24. CASE StartDial
  BY <1>24 DEF StartDial
<1>25. CASE EndDial
  BY <1>25 DEF EndDial
<1>26. CASE InstallTransport
  BY <1>26 DEF InstallTransport
<1>27. ASSUME NEW t \in Transports, TransportEnds(t)
       PROVE  IInv'
  BY <1>27 DEF TransportEnds
<1>28. CASE AfterWritePump
  <2>1. ready' \in BOOLEAN
    BY <1>28, Zenon DEF AfterWritePump
  <2> QED
    BY <2>1, <1>28 DEF AfterWritePump
<1>29. CASE RegisterService
  BY <1>29 DEF RegisterService
<1>30. CASE CloseDetaches
  <2>1. attached' \in BOOLEAN
    BY <1>30, Zenon DEF CloseDetaches
  <2> QED
    BY <2>1, <1>30 DEF CloseDetaches
<1>31. CASE Teardown
  <2>1. ready' \in BOOLEAN
    BY <1>31, Zenon DEF Teardown
  <2> QED
    BY <2>1, <1>31 DEF Teardown
<1>32. CASE CloseReturns
  BY <1>32 DEF CloseReturns
<1>33. CASE UNCHANGED vars
  BY <1>33 DEF vars
<1> HIDE DEF IInv, TypeOK, RegistryIsExact, SentPastWrite, HandlerOfSentCall, LeftForAReason,
             RoomForTransport, Transports
<1>34. ASSUME NEW c \in Calls, InvokeStep(c)
       PROVE  IInv'
  BY <1>3, <1>4, <1>5, <1>6, <1>7, <1>8, <1>9, <1>10, <1>11, <1>34 DEF InvokeStep
<1>35. ASSUME NEW h \in Responses, ResponseStep(h)
       PROVE  IInv'
  BY <1>14, <1>15, <1>16, <1>35 DEF ResponseStep
<1>36. ASSUME NEW r \in Requests, RequestStep(r)
       PROVE  IInv'
  BY <1>18, <1>19, <1>20, <1>21, <1>22, <1>23, <1>36 DEF RequestStep
<1> QED
  BY <1>1, <1>2, <1>12, <1>13, <1>17, <1>24, <1>25, <1>26, <1>27, <1>28, <1>29, <1>30, <1>31,
     <1>32, <1>33, <1>34, <1>35, <1>36 DEF Next, ConnStep, CloseStep

(* The inductive invariant is an invariant. *)
LEMMA Invariant == Spec => []IInv
BY InitIInv, StepIInv, PTL DEF Spec

(* Every variable keeps its type. *)
THEOREM TypeCorrect == Spec => []TypeOK
<1>1. IInv => TypeOK
  BY DEF IInv
<1> QED
  BY <1>1, Invariant, PTL

(* However it ends, Invoke leaves nothing in cc.methodCalls. *)
THEOREM NothingIsLeftRegistered == Spec => []ReturnedIsRemoved
<1>1. IInv => ReturnedIsRemoved
  BY DEF IInv, TypeOK, RegistryIsExact, ReturnedIsRemoved
<1> QED
  BY <1>1, Invariant, PTL

(* A response handler is left behind for good only by a peer that answers a
   call twice. *)
THEOREM HandlersAreReleased == Spec => []OnlyRepeatsAreLeftBehind
<1>1. IInv => OnlyRepeatsAreLeftBehind
  BY DEF IInv, HandlerOfSentCall, LeftForAReason, OnlyRepeatsAreLeftBehind, LeftBehind
<1> QED
  BY <1>1, Invariant, PTL
-----------------------------------------------------------------------------
(* Refinement of RpcContract *)

(* The values that the refinement mapping gives the contract's variables. *)
status == [c \in Calls |-> CASE pc[c] = "idle" -> "idle"
                             [] pc[c] \in {"leaving", "returned"} -> "returned"
                             [] OTHER -> "pending"]
key == [c \in Calls |-> IF pc[c] = "idle" THEN None ELSE Peer]
answers == {<<Peer, hid[h]>> : h \in {g \in Responses : hpc[g] # "idle"}}

(* Every behaviour of the client's calls is one the contract allows: the
   client, too, returns to a caller only an answer to this very call. *)
THEOREM ImplementsContract == Spec => ContractSpec
<1>1. Init => Contract!Init
  BY DEF Init, Contract!Init
<1>2. IInv /\ [Next]_vars => [Contract!Next]_Contract!vars
  <2> SUFFICES ASSUME IInv, [Next]_vars
               PROVE  Contract!Next \/ UNCHANGED <<status, key, answers, answer>>
    BY DEF Contract!vars, status, key, answers
  <2> USE DEF IInv, TypeOK, Goto, RequestGoto, callVars, handlerVars, connVars
  <2>1. ASSUME NEW c \in Calls, BeginInvoke(c)
        PROVE  Contract!Begin(c, Peer)
    BY <2>1 DEF BeginInvoke, Contract!Begin
  <2>2. ASSUME NEW h \in Responses, NEW c \in Calls, ReceiveResponse(h, c)
        PROVE  Contract!Answer(Peer, c)
    BY <2>2 DEF ReceiveResponse, Contract!Answer
  <2>3. ASSUME NEW h \in Responses, Deliver(h)
        PROVE  \E c \in Calls : Contract!Reply(c)
    <3>1. PICK c \in Calls : c = hid[h]
      BY <2>3 DEF Deliver, HandOver, HandlerOfSentCall
    <3>2. key[c] = Peer /\ <<key[c], c>> \in answers
      BY <2>3, <3>1 DEF Deliver, HandOver, answers, key
    <3>3. status[c] = "pending" /\ status' = [status EXCEPT ![c] = "returned"]
      BY <2>3, <3>1 DEF Deliver, HandOver, status
    <3>4. answer' = [answer EXCEPT ![c] = key[c]] /\ key' = key
      BY <2>3, <3>1, <3>2 DEF Deliver, HandOver, key
    <3>5. answers' = answers
      BY <2>3 DEF Deliver, HandOver, answers
    <3> QED
      BY <3>2, <3>3, <3>4, <3>5 DEF Contract!Reply, status, answers, key
  <2>4. ASSUME NEW c \in Calls, pc[c] \notin {"idle", "leaving", "returned"},
               Goto(c, "leaving") \/ Goto(c, "returned"),
               UNCHANGED <<answer, handlerVars>>
        PROVE  Contract!Fail(c)
    <3>1. status[c] = "pending" /\ status' = [status EXCEPT ![c] = "returned"]
      BY <2>4 DEF status
    <3>2. key' = key
      BY <2>4 DEF key
    <3>3. answers' = answers
      BY <2>4 DEF answers
    <3> QED
      BY <2>4, <3>1, <3>2, <3>3 DEF Contract!Fail, status, key, answers
  <2>5. ASSUME NEW c \in Calls, pc[c] \notin {"idle", "leaving", "returned"},
               NEW l \in {"checked", "registered", "picking", "writing", "waiting"},
               Goto(c, l), UNCHANGED <<answer, handlerVars>>
        PROVE  UNCHANGED <<status, key, answers, answer>>
    BY <2>5 DEF status, key, answers
  <2>6. ASSUME NEW c \in Calls, InvokeStep(c)
        PROVE  Contract!Fail(c) \/ UNCHANGED <<status, key, answers, answer>>
    <3>1. CASE CheckState(c)
      BY <2>4, <2>5, <3>1 DEF CheckState
    <3>2. CASE InvokeRejected(c)
      BY <2>4, <3>2 DEF InvokeRejected
    <3>3. CASE RegisterMethodCall(c)
      BY <2>5, <3>3 DEF RegisterMethodCall
    <3>4. CASE PickTransport(c)
      BY <2>4, <2>5, <3>4 DEF PickTransport
    <3>5. CASE TakeTransport(c)
      BY <2>4, <2>5, <3>5 DEF TakeTransport
    <3>6. CASE WriteAccepted(c)
      BY <2>5, <3>6 DEF WriteAccepted
    <3>7. CASE WriteFails(c)
      BY <2>4, <3>7 DEF WriteFails
    <3>8. CASE TimeOut(c)
      BY <2>4, <3>8 DEF TimeOut
    (* The result was settled before. *)
    <3>9. CASE RemoveMethodCall(c)
      BY <3>9 DEF RemoveMethodCall, status, key, answers
    <3> QED
      BY <2>6, <3>1, <3>2, <3>3, <3>4, <3>5, <3>6, <3>7, <3>8, <3>9 DEF InvokeStep
  <2>7. ASSUME NEW c \in Calls, BeginInvokePanics(c) \/ ContextDone(c)
        PROVE  UNCHANGED <<status, key, answers, answer>>
    BY <2>7 DEF BeginInvokePanics, ContextDone, status, key, answers
  <2>8. ASSUME NEW h \in Responses, ResponseStep(h)
        PROVE  \/ \E c \in Calls : Contract!Reply(c)
               \/ UNCHANGED <<status, key, answers, answer>>
    BY <2>3, <2>8 DEF ResponseStep, LookupResponse, DropExpired, status, key, answers
  <2>9. ASSUME NEW r \in Requests, ReceiveRequest(r) \/ RequestStep(r)
        PROVE  UNCHANGED <<status, key, answers, answer>>
    BY <2>9 DEF ReceiveRequest, RequestStep, RequestDropped, RequestHandled,
       PickReplyTransport, TakeReplyTransport, ReplyWritten, RequestPanics, status, key, answers
  <2>10. CASE ConnStep \/ CloseStep \/ RegisterService \/ CloseDetaches
              \/ \E t \in Transports : TransportEnds(t)
    <3>1. UNCHANGED <<pc, answer, hpc, hid>>
      BY <2>10 DEF ConnStep, CloseStep, RegisterService, CloseDetaches, TransportEnds, StartDial,
         EndDial, AfterWritePump, InstallTransport, Teardown, CloseReturns
    <3> QED
      BY <3>1 DEF status, key, answers
  <2>11. CASE UNCHANGED vars
    BY <2>11 DEF vars, status, key, answers
  <2> HIDE DEF IInv, TypeOK, Goto, RequestGoto, callVars, handlerVars, connVars
  <2>12. /\ \A c \in Calls : BeginInvoke(c) => Contract!Next
         /\ \A h \in Responses, c \in Calls : ReceiveResponse(h, c) => Contract!Next
    BY <2>1, <2>2 DEF Contract!Next
  <2>13. ASSUME NEW c \in Calls, InvokeStep(c)
         PROVE  Contract!Next \/ UNCHANGED <<status, key, answers, answer>>
    BY <2>6, <2>13 DEF Contract!Next
  <2>14. ASSUME NEW h \in Responses, ResponseStep(h)
         PROVE  Contract!Next \/ UNCHANGED <<status, key, answers, answer>>
    BY <2>8, <2>14 DEF Contract!Next
  <2> QED
    BY <2>7, <2>9, <2>10, <2>11, <2>12, <2>13, <2>14 DEF Next
<1> QED
  BY <1>1, <1>2, Invariant, PTL DEF Spec, ContractSpec, Contract!Spec
=============================================================================
