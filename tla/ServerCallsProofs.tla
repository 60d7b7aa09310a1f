------------------------- MODULE ServerCallsProofs -------------------------
(***************************************************************************)
(* Proofs about ServerCalls for any number of calls, peers and handlers.   *)
(***************************************************************************)
EXTENDS ServerCalls, TLAPS

(* The registry files a call under the peer it is addressed to. *)
EntriesUnderKey == \A k \in Keys : \A c \in methodCalls[k] : key[c] = k

(* An Invoke that has not returned has a registered call. *)
InFlightRegistered ==
  \A c \in Calls : pc[c] \in InFlight => key[c] \in Keys /\ c \in methodCalls[key[c]]

(* An Invoke that has not begun has left no trace. *)
IdleUntouched ==
  \A c \in Calls : pc[c] = "idle" => key[c] = None /\ answer[c] = None

(* A request that has left belongs to an Invoke past its write; while the
   call is registered that Invoke has not returned. *)
SentPastWrite ==
  \A c \in sent : pc[c] \in {"waiting", "expired", "returned"}

SentEntriesLive ==
  \A k \in Keys : \A c \in methodCalls[k] : c \in sent => pc[c] \in {"waiting", "expired"}

(* A handler's response is for a call that has been sent. *)
HandlerOfSentCall ==
  \A h \in Responses : hpc[h] # "idle" => hkey[h] \in Keys /\ hid[h] \in sent

(* s.mu is held exactly by the handler that sends, and its call stays
   registered meanwhile: that is what holding s.mu buys. *)
LockInv ==
  \A h \in Responses : /\ hpc[h] = "sending" <=> mu = h
                       /\ hpc[h] = "sending" => hid[h] \in methodCalls[hkey[h]]

AnsweredReturned ==
  \A c \in Calls : answer[c] # None => pc[c] = "returned" /\ answer[c] = key[c]

IInv == /\ TypeOK /\ EntriesUnderKey /\ InFlightRegistered /\ IdleUntouched
        /\ SentPastWrite /\ SentEntriesLive /\ HandlerOfSentCall /\ LockInv
        /\ AnsweredReturned

USE DEF InFlight

(* The initial state satisfies the inductive invariant. *)
LEMMA InitIInv == Init => IInv
BY NoneAssumption DEF Init, IInv, TypeOK, EntriesUnderKey, InFlightRegistered, IdleUntouched,
   SentPastWrite, SentEntriesLive, HandlerOfSentCall, LockInv, AnsweredReturned

(* Every step preserves it. *)
LEMMA StepIInv == IInv /\ [Next]_vars => IInv'
<1> SUFFICES ASSUME IInv, [Next]_vars PROVE IInv'
  OBVIOUS
<1> USE NoneAssumption DEF IInv, TypeOK, EntriesUnderKey, InFlightRegistered, IdleUntouched,
        SentPastWrite, SentEntriesLive, HandlerOfSentCall, LockInv, AnsweredReturned,
        invokeVars, handlerVars
<1>1. ASSUME NEW c \in Calls, InvokeRejected(c)
      PROVE  IInv'
  BY <1>1 DEF InvokeRejected, ReturnError
<1>2. ASSUME NEW c \in Calls, FindTransport(c)
      PROVE  IInv'
  BY <1>2 DEF FindTransport, ReturnError
<1>3. ASSUME NEW c \in Calls, FindTransportPanics(c)
      PROVE  IInv'
  BY <1>3 DEF FindTransportPanics
<1>4. ASSUME NEW c \in Calls, WriteAccepted(c)
      PROVE  IInv'
  BY <1>4 DEF WriteAccepted
<1>5. ASSUME NEW c \in Calls, WriteFails(c)
      PROVE  IInv'
  BY <1>5 DEF WriteFails, ReturnError
<1>6. ASSUME NEW c \in Calls, TimeOut(c)
      PROVE  IInv'
  BY <1>6 DEF TimeOut
<1>7. ASSUME NEW c \in Calls, RemoveExpired(c)
      PROVE  IInv'
  <2> USE <1>7 DEF RemoveExpired, ReturnError, DeleteMethodCall
  <2>1. TypeOK'
    OBVIOUS
  <2>2. EntriesUnderKey'
    OBVIOUS
  (* Only c loses its entry, and c has returned. *)
  <2>3. InFlightRegistered'
    OBVIOUS
  <2>4. IdleUntouched'
    OBVIOUS
  <2>5. SentPastWrite'
    OBVIOUS
  <2>6. SentEntriesLive'
    OBVIOUS
  <2>7. HandlerOfSentCall'
    OBVIOUS
  (* mu = None: no handler is sending to c. *)
  <2>8. LockInv'
    OBVIOUS
  <2>9. AnsweredReturned'
    OBVIOUS
  <2> QED
    BY <2>1, <2>2, <2>3, <2>4, <2>5, <2>6, <2>7, <2>8, <2>9
<1>8. ASSUME NEW c \in Calls, ContextDone(c)
      PROVE  IInv'
  BY <1>8 DEF ContextDone
<1>9. ASSUME NEW c \in Calls, NEW k \in Keys, RegisterMethodCall(c, k)
      PROVE  IInv'
  <2> USE <1>9 DEF RegisterMethodCall, PutMethodCall
  <2>1. TypeOK'
    OBVIOUS
  (* c was idle, so no peer had an entry for it. *)
  <2>2. EntriesUnderKey'
    OBVIOUS
  <2>3. InFlightRegistered'
    OBVIOUS
  <2>4. IdleUntouched'
    OBVIOUS
  <2>5. SentPastWrite'
    OBVIOUS
  <2>6. SentEntriesLive'
    OBVIOUS
  <2>7. HandlerOfSentCall'
    OBVIOUS
  <2>8. LockInv'
    OBVIOUS
  <2>9. AnsweredReturned'
    OBVIOUS
  <2> QED
    BY <2>1, <2>2, <2>3, <2>4, <2>5, <2>6, <2>7, <2>8, <2>9
<1>10. ASSUME NEW h \in Responses, NEW k \in Keys, NEW c \in Calls, ReceiveResponse(h, k, c)
      PROVE  IInv'
  BY <1>10 DEF ReceiveResponse
<1>11. ASSUME NEW h \in Responses, LookupMissing(h)
      PROVE  IInv'
  BY <1>11 DEF LookupMissing
<1>12. ASSUME NEW h \in Responses, LookupFound(h)
      PROVE  IInv'
  <2> USE <1>12 DEF LookupFound, HasMethodCall
  <2>1. TypeOK'
    OBVIOUS
  <2>2. EntriesUnderKey'
    OBVIOUS
  <2>3. InFlightRegistered'
    OBVIOUS
  <2>4. IdleUntouched'
    OBVIOUS
  <2>5. SentPastWrite'
    OBVIOUS
  <2>6. SentEntriesLive'
    OBVIOUS
  <2>7. HandlerOfSentCall'
    OBVIOUS
  (* mu was None, so h is the only sender. *)
  <2>8. LockInv'
    OBVIOUS
  <2>9. AnsweredReturned'
    OBVIOUS
  <2> QED
    BY <2>1, <2>2, <2>3, <2>4, <2>5, <2>6, <2>7, <2>8, <2>9
<1>13. ASSUME NEW h \in Responses, Deliver(h)
      PROVE  IInv'
  <2> USE <1>13 DEF Deliver, DeleteMethodCall
  <2>1. TypeOK'
    OBVIOUS
  <2>2. EntriesUnderKey'
    OBVIOUS
  <2>3. InFlightRegistered'
    OBVIOUS
  <2>4. IdleUntouched'
    OBVIOUS
  <2>5. SentPastWrite'
    OBVIOUS
  (* c leaves the registry with the step that makes it return. *)
  <2>6. SentEntriesLive'
    OBVIOUS
  <2>7. HandlerOfSentCall'
    OBVIOUS
  (* h alone held s.mu. *)
  <2>8. LockInv'
    OBVIOUS
  (* c is registered under hkey[h], hence addressed to it. *)
  <2>9. AnsweredReturned'
    OBVIOUS
  <2> QED
    BY <2>1, <2>2, <2>3, <2>4, <2>5, <2>6, <2>7, <2>8, <2>9
<1>14. ASSUME NEW r \in Requests, ReceiveRequest(r)
      PROVE  IInv'
  BY <1>14 DEF ReceiveRequest
<1>15. ASSUME NEW r \in Requests, RequestDropped(r)
      PROVE  IInv'
  BY <1>15 DEF RequestDropped
<1>16. ASSUME NEW r \in Requests, RequestHandled(r)
      PROVE  IInv'
  BY <1>16 DEF RequestHandled
<1>17. ASSUME NEW r \in Requests, ReplyTransport(r)
      PROVE  IInv'
  BY <1>17 DEF ReplyTransport
<1>18. ASSUME NEW r \in Requests, ReplyPanics(r)
      PROVE  IInv'
  BY <1>18 DEF ReplyPanics
<1>19. ASSUME NEW r \in Requests, ReplyWritten(r)
      PROVE  IInv'
  BY <1>19 DEF ReplyWritten
<1>20. CASE StopServer
  BY <1>20 DEF StopServer
<1>21. CASE UNCHANGED vars
  BY <1>21 DEF vars
<1> QED
  BY <1>1, <1>2, <1>3, <1>4, <1>5, <1>6, <1>7, <1>8, <1>9, <1>10, <1>11, <1>12, <1>13, <1>14, <1>15, <1>16, <1>17, <1>18, <1>19, <1>20, <1>21
     DEF Next, InvokeStep, ResponseStep, RequestStep

(* The inductive invariant is an invariant. *)
LEMMA Invariant == Spec => []IInv
BY InitIInv, StepIInv, PTL DEF Spec

(* Every variable keeps its type. *)
THEOREM TypeCorrect == Spec => []TypeOK
<1>1. IInv => TypeOK
  BY DEF IInv
<1> QED
  BY <1>1, Invariant, PTL

(* However responses, timeouts and failed writes interleave, Invoke returns
   a response only of the peer it was called for. *)
THEOREM Isolation == Spec => []AnswerFromAddressee
<1>1. IInv => AnswerFromAddressee
  BY DEF IInv, AnsweredReturned, AnswerFromAddressee
<1> QED
  BY <1>1, Invariant, PTL

(* A waiting call can always be found by its response. *)
THEOREM WaitingCallsAreFound == Spec => []WaitingIsRegistered
<1>1. IInv => WaitingIsRegistered
  BY DEF IInv, InFlightRegistered, WaitingIsRegistered
<1> QED
  BY <1>1, Invariant, PTL

(* The entries that a failed send leaves behind are out of reach. *)
THEOREM StaleEntriesAreHarmless == Spec => []StaleEntriesUnsent
<1>1. IInv => StaleEntriesUnsent
  BY DEF IInv, SentEntriesLive, StaleEntriesUnsent
<1> QED
  BY <1>1, Invariant, PTL

(* The only Invoke a response handler can wait for is one that has not
   returned, and it is the only handler that waits. *)
THEOREM HandoffIsLive == Spec => []HandoffTargetsLiveCall
<1>1. IInv => HandoffTargetsLiveCall
  BY DEF IInv, TypeOK, LockInv, HandlerOfSentCall, SentEntriesLive, HandoffTargetsLiveCall
<1> QED
  BY <1>1, Invariant, PTL

(* Once a response handler and a timed-out Invoke wait for each other, no
   step of any goroutine ends that. *)
THEOREM WedgePersists == Spec => WedgeIsPermanent
<1>1. IInv /\ [Next]_vars => (Wedged => Wedged')
  <2> SUFFICES ASSUME IInv, [Next]_vars, NEW w \in Responses,
                      hpc[w] = "sending", pc[hid[w]] = "expired"
               PROVE  hpc'[w] = "sending" /\ pc'[hid'[w]] = "expired"
    BY DEF Wedged
  <2>1. mu = w /\ hid[w] \in Calls /\ w # None
    BY NoneAssumption DEF IInv, TypeOK, LockInv, HandlerOfSentCall
  (* Whoever needs s.mu is blocked, and no other handler is sending. *)
  <2>2. \A h \in Responses : hpc[h] = "sending" => h = w
    BY <2>1 DEF IInv, LockInv
  <2> USE <2>1, <2>2 DEF IInv, TypeOK, invokeVars, handlerVars
  <2>3. ASSUME NEW c \in Calls, InvokeRejected(c) \/ InvokeStep(c) \/ ContextDone(c)
        PROVE  UNCHANGED handlerVars /\ pc'[hid[w]] = "expired"
    BY <2>3 DEF InvokeRejected, InvokeStep, ContextDone, FindTransport, FindTransportPanics,
       WriteAccepted, WriteFails, TimeOut, RemoveExpired, ReturnError
  <2>4. ASSUME NEW c \in Calls, NEW k \in Keys, RegisterMethodCall(c, k)
        PROVE  FALSE
    BY <2>4 DEF RegisterMethodCall
  <2>5. ASSUME NEW h \in Responses, NEW k \in Keys, NEW c \in Calls, ReceiveResponse(h, k, c)
        PROVE  hpc'[w] = hpc[w] /\ hid'[w] = hid[w] /\ pc' = pc
    BY <2>5 DEF ReceiveResponse
  <2>6. ASSUME NEW h \in Responses, ResponseStep(h)
        PROVE  FALSE
    BY <2>6 DEF ResponseStep, LookupMissing, LookupFound, Deliver
  <2>7. ASSUME NEW r \in Requests, ReceiveRequest(r) \/ RequestStep(r)
        PROVE  UNCHANGED handlerVars /\ pc' = pc
    BY <2>7 DEF ReceiveRequest, RequestStep, RequestDropped, RequestHandled, ReplyTransport,
       ReplyPanics, ReplyWritten
  <2>8. CASE StopServer
    BY <2>8 DEF StopServer
  <2>9. CASE UNCHANGED vars
    BY <2>9 DEF vars
  <2> QED
    BY <2>3, <2>4, <2>5, <2>6, <2>7, <2>8, <2>9 DEF Next
<1> QED
  BY <1>1, Invariant, PTL DEF Spec, WedgeIsPermanent
-----------------------------------------------------------------------------
(* Refinement of RpcContract *)

(* The values that the refinement mapping gives the contract's variables. *)
status == [c \in Calls |-> IF pc[c] \in InFlight THEN "pending" ELSE pc[c]]
answers == {<<hkey[h], hid[h]>> : h \in {g \in Responses : hpc[g] # "idle"}}

(* Every behaviour of the server's calls is one the contract allows: each
   step begins, answers, answers with a reply or fails one call, or changes
   nothing the caller or the peers can see. *)
THEOREM ImplementsContract == Spec => ContractSpec
<1>1. Init => Contract!Init
  BY DEF Init, Contract!Init
<1>2. IInv /\ [Next]_vars => [Contract!Next]_Contract!vars
  <2> SUFFICES ASSUME IInv, [Next]_vars
               PROVE  Contract!Next \/ UNCHANGED <<status, key, answers, answer>>
    BY DEF Contract!vars, status, answers
  <2> USE DEF IInv, TypeOK, invokeVars, handlerVars
  <2>1. ASSUME NEW c \in Calls, NEW k \in Keys, RegisterMethodCall(c, k)
        PROVE  Contract!Begin(c, k)
    BY <2>1 DEF RegisterMethodCall, Contract!Begin
  <2>2. ASSUME NEW h \in Responses, NEW k \in Keys, NEW c \in Calls, ReceiveResponse(h, k, c)
        PROVE  Contract!Answer(k, c)
    BY <2>2 DEF ReceiveResponse, Contract!Answer
  <2>3. ASSUME NEW h \in Responses, Deliver(h)
        PROVE  \E c \in Calls : Contract!Reply(c)
    <3>1. PICK c \in Calls : c = hid[h] /\ key[c] = hkey[h]
      BY <2>3 DEF Deliver, LockInv, EntriesUnderKey, HandlerOfSentCall
    <3>2. <<key[c], c>> \in answers
      BY <2>3, <3>1 DEF Deliver, answers
    <3>3. status[c] = "pending" /\ status' = [status EXCEPT ![c] = "returned"]
      BY <2>3, <3>1 DEF Deliver, status
    <3>4. answer' = [answer EXCEPT ![c] = key[c]] /\ key' = key
      BY <2>3, <3>1 DEF Deliver
    <3>5. answers' = answers
      BY <2>3 DEF Deliver, answers
    <3> QED
      BY <3>2, <3>3, <3>4, <3>5 DEF Contract!Reply, status, answers
  <2>4. ASSUME NEW c \in Calls, pc[c] \in InFlight \cup {"idle"}, ReturnError(c),
               UNCHANGED <<key, answer, handlerVars>>
        PROVE  Contract!Fail(c)
    BY <2>4 DEF ReturnError, Contract!Fail
  <2>5. ASSUME NEW c \in Calls, InvokeRejected(c) \/ InvokeStep(c) \/ ContextDone(c)
        PROVE  Contract!Fail(c) \/ UNCHANGED <<status, key, answers, answer>>
    BY <2>4, <2>5 DEF InvokeRejected, InvokeStep, ContextDone, FindTransport, FindTransportPanics,
       WriteAccepted, WriteFails, TimeOut, RemoveExpired, status, answers
  <2>6. ASSUME NEW h \in Responses, ResponseStep(h)
        PROVE  \/ \E c \in Calls : Contract!Reply(c)
               \/ UNCHANGED <<status, key, answers, answer>>
    BY <2>3, <2>6 DEF ResponseStep, LookupMissing, LookupFound, status, answers
  <2>7. ASSUME NEW r \in Requests, ReceiveRequest(r) \/ RequestStep(r)
        PROVE  UNCHANGED <<status, key, answers, answer>>
    BY <2>7 DEF ReceiveRequest, RequestStep, RequestDropped, RequestHandled, ReplyTransport,
       ReplyPanics, ReplyWritten, status, answers
  <2>8. CASE StopServer
    BY <2>8 DEF StopServer, status, answers
  <2>9. CASE UNCHANGED vars
    BY <2>9 DEF vars, status, answers
  <2> HIDE DEF IInv, TypeOK, invokeVars, handlerVars
  <2>10. /\ \A c \in Calls, k \in Keys : RegisterMethodCall(c, k) => Contract!Next
         /\ \A h \in Responses, k \in Keys, c \in Calls :
               ReceiveResponse(h, k, c) => Contract!Next
    BY <2>1, <2>2 DEF Contract!Next
  <2>11. ASSUME NEW c \in Calls, InvokeRejected(c) \/ InvokeStep(c) \/ ContextDone(c)
         PROVE  Contract!Next \/ UNCHANGED <<status, key, answers, answer>>
    BY <2>5, <2>11 DEF Contract!Next
  <2>12. ASSUME NEW h \in Responses, ResponseStep(h)
         PROVE  Contract!Next \/ UNCHANGED <<status, key, answers, answer>>
    BY <2>6, <2>12 DEF Contract!Next
  <2> QED
    BY <2>7, <2>8, <2>9, <2>10, <2>11, <2>12 DEF Next
<1> QED
  BY <1>1, <1>2, Invariant, PTL DEF Spec, ContractSpec, Contract!Spec
=============================================================================
