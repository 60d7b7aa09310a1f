---------------------------- MODULE ClientCalls ----------------------------
(***************************************************************************)
(* The calls a ClientConn makes and the messages it handles (client.go):   *)
(* Invoke, handleMessageResponse and handleMessageRequest, while the       *)
(* connection is lost and redialled and the application calls Close.       *)
(*                                                                         *)
(* Invoke and handleMessageRequest read addrConn with cc.mu and ac.mu      *)
(* read-locked, one inside the other, and resetTransport holds ac.mu over  *)
(* its dial: whoever reads addrConn then keeps cc.mu until the dial ends.  *)
(* Everything else done under cc.mu is one step.                           *)
(*                                                                         *)
(* Module ClientConn has the connection in detail; here it is what Invoke  *)
(* can see of it, addrConn's transport and whether its state is Ready.     *)
(***************************************************************************)
EXTENDS Naturals

CONSTANTS Calls,         \* invocations of Invoke, each under a call id of its own
          Responses,     \* handleMessageResponse goroutines
          Requests,      \* handleMessageRequest goroutines
          MaxTransports, \* how many dials succeed
          Peer,          \* the server
          None           \* no peer, no call, no goroutine

ASSUME NoneAssumption == None \notin Calls \cup Requests /\ None # Peer
ASSUME MaxTransportsAssumption == MaxTransports \in Nat

VARIABLES
  pc,          \* pc[c]: where the Invoke of call c is
  answer,      \* answer[c]: the peer whose response Invoke has received
  ctxDone,     \* the calls whose context has ended
  sent,        \* the calls whose request a transport has taken
  tr,          \* tr[g]: the transport call or request handler g writes to, 0 for nil
  methodCalls, \* cc.methodCalls: the registered call ids
  hpc,         \* hpc[h]: where response handler h is
  hid,         \* hid[h]: the call id in the response
  rpc,         \* rpc[r]: where request handler r is
  service,     \* cc.service # nil
  attached,    \* cc.addrConn # nil
  ready,       \* ac.state = Ready
  transport,   \* ac.transport, 0 for nil
  created,     \* how many transports have been installed
  up,          \* the transports that still take messages
  dial,        \* where resetTransport is; it holds ac.mu while "dialing"
  cl,          \* where Close is
  crashed      \* the goroutine that has panicked, or None

callVars == <<pc, answer, sent, methodCalls>>
handlerVars == <<hpc, hid>>
connVars == <<attached, ready, transport, created, up, dial>>
vars == <<callVars, ctxDone, tr, handlerVars, rpc, service, connVars, cl, crashed>>

Transports == 1 .. MaxTransports

(* The type of every variable. *)
TypeOK ==
  /\ pc \in [Calls -> {"idle", "checking", "checked", "registered", "picking", "writing",
                       "waiting", "leaving", "returned"}]
  /\ answer \in [Calls -> {Peer, None}]
  /\ ctxDone \subseteq Calls
  /\ sent \subseteq Calls
  /\ tr \in [Calls \cup Requests -> 0 .. MaxTransports]
  /\ methodCalls \subseteq Calls
  /\ hpc \in [Responses -> {"idle", "started", "sending", "dropped", "delivered"}]
  /\ hid \in [Responses -> Calls \cup {None}]
  /\ rpc \in [Requests -> {"idle", "started", "replying", "picking", "writing", "done"}]
  /\ service \in BOOLEAN
  /\ attached \in BOOLEAN
  /\ ready \in BOOLEAN
  /\ transport \in 0 .. MaxTransports
  /\ created \in 0 .. MaxTransports
  /\ up \subseteq Transports
  /\ dial \in {"top", "dialing", "dialled", "up"}
  /\ cl \in {"idle", "detached", "shutdown", "done"}
  /\ crashed \in Calls \cup Requests \cup {None}

Init ==
  /\ pc = [c \in Calls |-> "idle"]
  /\ answer = [c \in Calls |-> None]
  /\ ctxDone = {}
  /\ sent = {}
  /\ tr = [g \in Calls \cup Requests |-> 0]
  /\ methodCalls = {}
  /\ hpc = [h \in Responses |-> "idle"]
  /\ hid = [h \in Responses |-> None]
  /\ rpc = [r \in Requests |-> "idle"]
  /\ service = FALSE
  /\ attached = TRUE
  /\ ready = FALSE
  /\ transport = 0
  /\ created = 0
  /\ up = {}
  /\ dial = "top"
  /\ cl = "idle"
  /\ crashed = None

Alive == crashed = None

(* Nobody reads addrConn with cc.mu and ac.mu read-locked: cc.mu can be locked. *)
CanLock == /\ \A c \in Calls : pc[c] \notin {"checking", "picking"}
           /\ \A r \in Requests : rpc[r] # "picking"

(* ac.mu can be read-locked; ac.mu can be locked. *)
CanRLockAc == dial # "dialing"
CanLockAc == CanRLockAc /\ CanLock

Goto(c, label) == pc' = [pc EXCEPT ![c] = label]

-----------------------------------------------------------------------------
(* Invoke *)

(* Invoke read-locks cc.mu and asks addrConn for its state. *)
BeginInvoke(c) ==
  /\ Alive /\ pc[c] = "idle"
  /\ attached
  /\ Goto(c, "checking")
  /\ UNCHANGED <<answer, sent, methodCalls, ctxDone, tr, handlerVars, rpc, service, connVars,
                 cl, crashed>>

(* Close has set cc.addrConn to nil. *)
BeginInvokePanics(c) ==
  /\ Alive /\ pc[c] = "idle"
  /\ ~attached
  /\ crashed' = c
  /\ UNCHANGED <<callVars, ctxDone, tr, handlerVars, rpc, service, connVars, cl>>

(* An addrConn that is not Ready ends the call. *)
CheckState(c) ==
  /\ Alive /\ pc[c] = "checking"
  /\ CanRLockAc
  /\ Goto(c, IF ready THEN "checked" ELSE "returned")
  /\ UNCHANGED <<answer, sent, methodCalls, ctxDone, tr, handlerVars, rpc, service, connVars,
                 cl, crashed>>

(* The request cannot be marshalled. *)
InvokeRejected(c) ==
  /\ Alive /\ pc[c] = "checked"
  /\ Goto(c, "returned")
  /\ UNCHANGED <<answer, sent, methodCalls, ctxDone, tr, handlerVars, rpc, service, connVars,
                 cl, crashed>>

RegisterMethodCall(c) ==
  /\ Alive /\ pc[c] = "checked"
  /\ CanLock
  /\ methodCalls' = methodCalls \cup {c}
  /\ Goto(c, "registered")
  /\ UNCHANGED <<answer, sent, ctxDone, tr, handlerVars, rpc, service, connVars, cl, crashed>>

(* Invoke read-locks cc.mu again, unless Close has set cc.addrConn to nil. *)
PickTransport(c) ==
  /\ Alive /\ pc[c] = "registered"
  /\ Goto(c, IF attached THEN "picking" ELSE "leaving")
  /\ UNCHANGED <<answer, sent, methodCalls, ctxDone, tr, handlerVars, rpc, service, connVars,
                 cl, crashed>>

(* The transport may be another one by now, or none. *)
TakeTransport(c) ==
  /\ Alive /\ pc[c] = "picking"
  /\ CanRLockAc
  /\ tr' = [tr EXCEPT ![c] = transport]
  /\ Goto(c, IF transport = 0 THEN "leaving" ELSE "writing")
  /\ UNCHANGED <<answer, sent, methodCalls, ctxDone, handlerVars, rpc, service, connVars,
                 cl, crashed>>

WriteAccepted(c) ==
  /\ Alive /\ pc[c] = "writing"
  /\ tr[c] \in up
  /\ sent' = sent \cup {c}
  /\ tr' = [tr EXCEPT ![c] = 0]
  /\ Goto(c, "waiting")
  /\ UNCHANGED <<answer, methodCalls, ctxDone, handlerVars, rpc, service, connVars,
                 cl, crashed>>

(* The transport has closed, or the context has ended. *)
WriteFails(c) ==
  /\ Alive /\ pc[c] = "writing"
  /\ tr[c] \notin up \/ c \in ctxDone
  /\ tr' = [tr EXCEPT ![c] = 0]
  /\ Goto(c, "leaving")
  /\ UNCHANGED <<answer, sent, methodCalls, ctxDone, handlerVars, rpc, service, connVars,
                 cl, crashed>>

(* Variant: Invoke has a timeout of its own, of which the handler function
   that it registered knows nothing. *)
TimeOutWithoutContext(c) ==
  /\ Alive /\ pc[c] = "waiting"
  /\ Goto(c, "leaving")
  /\ UNCHANGED <<answer, sent, methodCalls, ctxDone, tr, handlerVars, rpc, service, connVars,
                 cl, crashed>>

(* Variant: a timed-out Invoke returns at once. *)
TimeOutReturns(c) ==
  /\ Alive /\ pc[c] = "waiting"
  /\ c \in ctxDone
  /\ Goto(c, "returned")
  /\ UNCHANGED <<answer, sent, methodCalls, ctxDone, tr, handlerVars, rpc, service, connVars,
                 cl, crashed>>

(* Variant: Invoke waits for its response only. *)
TimeOutNever(c) == FALSE /\ UNCHANGED vars

TimeOut(c) ==
  /\ Alive /\ pc[c] = "waiting"
  /\ c \in ctxDone
  /\ Goto(c, "leaving")
  /\ UNCHANGED <<answer, sent, methodCalls, ctxDone, tr, handlerVars, rpc, service, connVars,
                 cl, crashed>>

(* The deferred function: whichever way Invoke ends, the call is removed. *)
RemoveMethodCall(c) ==
  /\ Alive /\ pc[c] = "leaving"
  /\ CanLock
  /\ methodCalls' = methodCalls \ {c}
  /\ Goto(c, "returned")
  /\ UNCHANGED <<answer, sent, ctxDone, tr, handlerVars, rpc, service, connVars, cl, crashed>>

-----------------------------------------------------------------------------
(* handleMessageResponse.  Its goroutines, like those of requests, are in
   cc.wg, which Close waits for. *)

ReceiveResponse(h, c) ==
  /\ Alive /\ cl # "done"
  /\ hpc[h] = "idle"
  /\ c \in sent
  /\ hpc' = [hpc EXCEPT ![h] = "started"]
  /\ hid' = [hid EXCEPT ![h] = c]
  /\ UNCHANGED <<callVars, ctxDone, tr, rpc, service, connVars, cl, crashed>>

LookupResponse(h) ==
  /\ Alive /\ hpc[h] = "started"
  /\ CanLock
  /\ hpc' = [hpc EXCEPT ![h] = IF hid[h] \in methodCalls THEN "sending" ELSE "dropped"]
  /\ UNCHANGED <<callVars, ctxDone, tr, hid, rpc, service, connVars, cl, crashed>>

(* The response goes to an Invoke that waits. *)
HandOver(h, c) ==
  /\ Alive /\ hpc[h] = "sending"
  /\ pc[c] = "waiting"
  /\ answer' = [answer EXCEPT ![c] = Peer]
  /\ Goto(c, "leaving")
  /\ hpc' = [hpc EXCEPT ![h] = "delivered"]
  /\ UNCHANGED <<sent, methodCalls, ctxDone, tr, hid, rpc, service, connVars, cl, crashed>>

(* Variant: all calls wait on one channel. *)
DeliverToAny(h) == \E c \in Calls : HandOver(h, c)

(* The handler function sends on the call's unbuffered channel, cc.mu free. *)
Deliver(h) == HandOver(h, hid[h])

(* Variant: the handler function does not watch the context of the call. *)
DropExpiredNever(h) == FALSE /\ UNCHANGED vars

DropExpired(h) ==
  /\ Alive /\ hpc[h] = "sending"
  /\ hid[h] \in ctxDone
  /\ hpc' = [hpc EXCEPT ![h] = "dropped"]
  /\ UNCHANGED <<callVars, ctxDone, tr, hid, rpc, service, connVars, cl, crashed>>

-----------------------------------------------------------------------------
(* handleMessageRequest *)

RequestGoto(r, label) ==
  /\ rpc' = [rpc EXCEPT ![r] = label]
  /\ UNCHANGED <<callVars, ctxDone, handlerVars, service, connVars, cl, crashed>>

ReceiveRequest(r) ==
  /\ Alive /\ cl # "done"
  /\ rpc[r] = "idle"
  /\ RequestGoto(r, "started") /\ UNCHANGED tr

(* The method is unknown, or no response can be built. *)
RequestDropped(r) ==
  /\ Alive /\ rpc[r] = "started"
  /\ service
  /\ RequestGoto(r, "done") /\ UNCHANGED tr

RequestHandled(r) ==
  /\ Alive /\ rpc[r] = "started"
  /\ service
  /\ RequestGoto(r, "replying") /\ UNCHANGED tr

PickReplyTransport(r) ==
  /\ Alive /\ rpc[r] = "replying"
  /\ attached
  /\ RequestGoto(r, "picking") /\ UNCHANGED tr

TakeReplyTransport(r) ==
  /\ Alive /\ rpc[r] = "picking"
  /\ CanRLockAc
  /\ tr' = [tr EXCEPT ![r] = transport]
  /\ RequestGoto(r, "writing")

(* Write takes the reply or refuses it; there is no context to end it.  It would
   not return either if the writePump has failed while readPump is blocked on a
   message: then nobody closes closeWritePump.  Such a readPump is a matter of
   ClientConn, and left out here. *)
ReplyWritten(r) ==
  /\ Alive /\ rpc[r] = "writing"
  /\ tr[r] # 0
  /\ tr' = [tr EXCEPT ![r] = 0]
  /\ RequestGoto(r, "done")

(* No service was registered, cc.addrConn is nil, or the transport is nil. *)
RequestPanics(r) ==
  /\ Alive
  /\ \/ rpc[r] = "started" /\ ~service
     \/ rpc[r] = "replying" /\ ~attached
     \/ rpc[r] = "writing" /\ tr[r] = 0
  /\ crashed' = r
  /\ UNCHANGED <<callVars, ctxDone, tr, handlerVars, rpc, service, connVars, cl>>

-----------------------------------------------------------------------------
(* The connection, as far as Invoke can see it *)

StartDial ==
  /\ Alive /\ cl \in {"idle", "detached"}
  /\ dial = "top" /\ CanLockAc
  /\ dial' = "dialing"
  /\ transport' = 0
  /\ UNCHANGED <<callVars, ctxDone, tr, handlerVars, rpc, service, attached, ready,
                 created, up, cl, crashed>>

EndDial ==
  /\ Alive /\ dial = "dialing"
  /\ \/ dial' = "dialled" /\ created < MaxTransports
     \/ dial' = "top"
  /\ UNCHANGED <<callVars, ctxDone, tr, handlerVars, rpc, service, attached, ready, transport,
                 created, up, cl, crashed>>

InstallTransport ==
  /\ Alive /\ cl \in {"idle", "detached"}
  /\ dial = "dialled" /\ CanLockAc
  /\ created' = created + 1
  /\ dial' = "up"
  /\ transport' = created'
  /\ up' = up \cup {created'}
  /\ ready' = TRUE
  /\ UNCHANGED <<callVars, ctxDone, tr, handlerVars, rpc, service, attached, cl, crashed>>

(* The transport's pumps end: it takes no more messages. *)
TransportEnds(t) ==
  /\ Alive /\ t \in up
  /\ up' = up \ {t}
  /\ UNCHANGED <<callVars, ctxDone, tr, handlerVars, rpc, service, attached, ready, transport,
                 created, dial, cl, crashed>>

(* afterWritePump: addrConn is Idle, and resetTransport starts again. *)
AfterWritePump ==
  /\ Alive /\ dial = "up" /\ transport \notin up
  /\ CanLockAc
  /\ ready' = FALSE
  /\ dial' = "top"
  /\ UNCHANGED <<callVars, ctxDone, tr, handlerVars, rpc, service, attached, transport,
                 created, up, cl, crashed>>

-----------------------------------------------------------------------------
(* The application *)

(* Invoke looks at its context from its Write on: an earlier end is no
   different from one at that moment.  The handler function that it registered
   may still look when Invoke has returned. *)
ContextDone(c) ==
  /\ Alive /\ (pc[c] = "writing" \/ c \in sent)
  /\ c \notin ctxDone
  /\ ctxDone' = ctxDone \cup {c}
  /\ UNCHANGED <<callVars, tr, handlerVars, rpc, service, connVars, cl, crashed>>

RegisterService ==
  /\ Alive /\ ~service
  /\ CanLock
  /\ service' = TRUE
  /\ UNCHANGED <<callVars, ctxDone, tr, handlerVars, rpc, connVars, cl, crashed>>

CloseDetaches ==
  /\ Alive /\ cl = "idle"
  /\ CanLock
  /\ cl' = "detached"
  /\ attached' = FALSE
  /\ UNCHANGED <<callVars, ctxDone, tr, handlerVars, rpc, service, ready, transport, created,
                 up, dial, crashed>>

Teardown ==
  /\ Alive /\ cl = "detached"
  /\ CanLockAc
  /\ cl' = "shutdown"
  /\ ready' = FALSE
  /\ transport' = 0
  /\ up' = up \ {transport}
  /\ UNCHANGED <<callVars, ctxDone, tr, handlerVars, rpc, service, attached, created, dial,
                 crashed>>

(* cc.wg.Wait() *)
CloseReturns ==
  /\ Alive /\ cl = "shutdown"
  /\ \A h \in Responses : hpc[h] \notin {"started", "sending"}
  /\ \A r \in Requests : rpc[r] \in {"idle", "done"}
  /\ cl' = "done"
  /\ UNCHANGED <<callVars, ctxDone, tr, handlerVars, rpc, service, connVars, crashed>>

-----------------------------------------------------------------------------
InvokeStep(c) == \/ CheckState(c) \/ InvokeRejected(c) \/ RegisterMethodCall(c)
                 \/ PickTransport(c) \/ TakeTransport(c)
                 \/ WriteAccepted(c) \/ WriteFails(c)
                 \/ TimeOut(c) \/ RemoveMethodCall(c)

ResponseStep(h) == LookupResponse(h) \/ Deliver(h) \/ DropExpired(h)

RequestStep(r) == \/ RequestDropped(r) \/ RequestHandled(r)
                  \/ PickReplyTransport(r) \/ TakeReplyTransport(r) \/ ReplyWritten(r)
                  \/ RequestPanics(r)

ConnStep == StartDial \/ EndDial \/ AfterWritePump \/ InstallTransport

CloseStep == Teardown \/ CloseReturns

Next ==
  \/ \E c \in Calls : \/ BeginInvoke(c) \/ BeginInvokePanics(c) \/ InvokeStep(c)
                      \/ ContextDone(c)
  \/ \E h \in Responses, c \in Calls : ReceiveResponse(h, c)
  \/ \E h \in Responses : ResponseStep(h)
  \/ \E r \in Requests : ReceiveRequest(r) \/ RequestStep(r)
  \/ ConnStep \/ \E t \in Transports : TransportEnds(t)
  \/ RegisterService \/ CloseDetaches \/ CloseStep

Spec == Init /\ [][Next]_vars

(* The goroutines of the library go on when they can, a dial ends (its
   handshake has a timeout) and the service's handlers return; the peer,
   contexts and the application owe nothing.  Between two dials resetTransport
   and teardown compete for ac.mu, and Go's mutexes hand over to a waiter that
   has been passed over. *)
Fairness ==
  /\ \A c \in Calls : WF_vars(InvokeStep(c))
  /\ \A h \in Responses : WF_vars(ResponseStep(h))
  /\ \A r \in Requests : WF_vars(RequestStep(r))
  /\ WF_vars(EndDial)
  /\ WF_vars(CloseStep) /\ SF_vars(Teardown)

FairSpec == Spec /\ Fairness

-----------------------------------------------------------------------------
(* Safety *)

(* Whichever way Invoke ends, it leaves nothing in cc.methodCalls, unlike the
   Invoke of the server. *)
ReturnedIsRemoved == \A c \in methodCalls : pc[c] \notin {"idle", "returned"}

(* Handler h sends to an Invoke that has left its select. *)
LeftBehind(h) == hpc[h] = "sending" /\ pc[hid[h]] \in {"leaving", "returned"}

(* The handler function looks the call up under cc.mu and sends without it, so
   Invoke may be gone by then.  That leaves a goroutine behind only if the
   peer has answered the call twice; otherwise the context of the call has
   ended and releases the handler. *)
OnlyRepeatsAreLeftBehind ==
  \A h \in Responses :
     LeftBehind(h) /\ hid[h] \notin ctxDone
        => \E g \in Responses : hid[g] = hid[h] /\ hpc[g] = "delivered"

(* Invoke keeps the promise of ClientInterface: its result is settled when it
   leaves its select or fails. *)
Contract ==
  INSTANCE RpcContract WITH
    Keys <- {Peer},
    status <- [c \in Calls |-> CASE pc[c] = "idle" -> "idle"
                                 [] pc[c] \in {"leaving", "returned"} -> "returned"
                                 [] OTHER -> "pending"],
    key <- [c \in Calls |-> IF pc[c] = "idle" THEN None ELSE Peer],
    answers <- {<<Peer, hid[h]>> : h \in {g \in Responses : hpc[g] # "idle"}}

ContractSpec == Contract!Spec

-----------------------------------------------------------------------------
(* Liveness *)

(* A call whose context has ended returns, even while the connection is being
   redialled: the locks that others hold over a dial are released. *)
TimedOutCallReturns ==
  \A c \in Calls : (c \in ctxDone) ~> (pc[c] = "returned" \/ ~Alive)

(* Close, which waits for every message handler, returns, unless a repeated
   response for a call whose context does not end keeps its handler waiting. *)
CloseTerminates ==
  (cl = "detached") ~> \/ cl = "done"
                       \/ \E h \in Responses : LeftBehind(h) /\ hid[h] \notin ctxDone
                       \/ ~Alive
=============================================================================
