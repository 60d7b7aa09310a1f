---------------------------- MODULE ServerCalls ----------------------------
(***************************************************************************)
(* The calls a Server makes and the messages it handles (server.go,        *)
(* internal/methods): Invoke on behalf of the application, and one         *)
(* goroutine per message that handleRead takes from a connection.  They    *)
(* meet in the methodCalls registry, under the server's mutex s.mu.        *)
(*                                                                         *)
(* A critical section that cannot block is one step, taken while s.mu is   *)
(* free.  handleMessageResponse is the one goroutine that keeps s.mu over  *)
(* a blocking operation (the send on the call's unbuffered channel), so    *)
(* the variable mu names the response handler that holds it.               *)
(*                                                                         *)
(* The registry of connections is module ServerConns; here sendMsg finds a *)
(* transport or not, and Transport.Write takes the message or refuses it,  *)
(* as the connections may come and go at any time.                         *)
(***************************************************************************)
CONSTANTS Calls,      \* invocations of Invoke, each under a call id of its own
          Keys,       \* public keys of the peers
          Responses,  \* handleMessageResponse goroutines
          Requests,   \* handleMessageRequest goroutines
          None        \* no key, no call, no goroutine

ASSUME NoneAssumption == /\ None \notin Keys
                         /\ None \notin Calls
                         /\ None \notin Responses

VARIABLES
  pc,           \* pc[c]: where the Invoke of call c is
  key,          \* key[c]: the peer that the context of call c names
  answer,       \* answer[c]: the peer whose response Invoke has returned
  ctxDone,      \* the calls whose context has ended
  sent,         \* the calls whose request a transport has taken
  methodCalls,  \* methodCalls[k]: the call ids registered for peer k
  mu,           \* the response handler that holds s.mu, or None
  hpc,          \* hpc[h]: where response handler h is
  hkey,         \* hkey[h]: the peer the response came from
  hid,          \* hid[h]: the call id in the response
  rpc,          \* rpc[r]: where request handler r is
  stopped,      \* Stop has set s.connMgr to nil
  crashed       \* a goroutine has panicked: the process is gone

invokeVars == <<pc, key, answer, sent>>
handlerVars == <<hpc, hkey, hid>>
vars == <<invokeVars, ctxDone, methodCalls, mu, handlerVars, rpc, stopped, crashed>>

(* Invoke is between registering its call id and leaving its select. *)
InFlight == {"registered", "writing", "waiting", "expired"}

(* The type of every variable; methodCalls is a map of maps keyed by peer. *)
TypeOK ==
  /\ pc \in [Calls -> InFlight \cup {"idle", "returned"}]
  /\ key \in [Calls -> Keys \cup {None}]
  /\ answer \in [Calls -> Keys \cup {None}]
  /\ ctxDone \subseteq Calls
  /\ sent \subseteq Calls
  /\ methodCalls \in [Keys -> SUBSET Calls]
  /\ mu \in Responses \cup {None}
  /\ hpc \in [Responses -> {"idle", "started", "sending", "done"}]
  /\ hkey \in [Responses -> Keys \cup {None}]
  /\ hid \in [Responses -> Calls \cup {None}]
  /\ rpc \in [Requests -> {"idle", "started", "replying", "writing", "done"}]
  /\ stopped \in BOOLEAN
  /\ crashed \in BOOLEAN

Init ==
  /\ pc = [c \in Calls |-> "idle"]
  /\ key = [c \in Calls |-> None]
  /\ answer = [c \in Calls |-> None]
  /\ ctxDone = {}
  /\ sent = {}
  /\ methodCalls = [k \in Keys |-> {}]
  /\ mu = None
  /\ hpc = [h \in Responses |-> "idle"]
  /\ hkey = [h \in Responses |-> None]
  /\ hid = [h \in Responses |-> None]
  /\ rpc = [r \in Requests |-> "idle"]
  /\ stopped = FALSE
  /\ crashed = FALSE

-----------------------------------------------------------------------------
(* internal/methods: the registry of pending calls, one map per peer.      *)

PutMethodCall(k, c) == methodCalls' = [methodCalls EXCEPT ![k] = @ \cup {c}]

(* Variant: one map of call ids, whichever peer the response comes from. *)
HasMethodCallOfAnyKey(k, c) == \E j \in Keys : c \in methodCalls[j]

HasMethodCall(k, c) == c \in methodCalls[k]

DeleteMethodCall(k, c) == methodCalls' = [methodCalls EXCEPT ![k] = @ \ {c}]

-----------------------------------------------------------------------------
(* Invoke *)

(* Invoke ends with an error, its method call still registered. *)
ReturnError(c) == pc' = [pc EXCEPT ![c] = "returned"]

(* The request cannot be marshalled or the context names no peer. *)
InvokeRejected(c) ==
  /\ ~crashed
  /\ pc[c] = "idle"
  /\ ReturnError(c)
  /\ UNCHANGED <<key, answer, sent, ctxDone, methodCalls, mu, handlerVars, rpc,
                 stopped, crashed>>

RegisterMethodCall(c, k) ==
  /\ ~crashed
  /\ pc[c] = "idle"
  /\ mu = None
  /\ PutMethodCall(k, c)
  /\ pc' = [pc EXCEPT ![c] = "registered"]
  /\ key' = [key EXCEPT ![c] = k]
  /\ UNCHANGED <<answer, sent, ctxDone, mu, handlerVars, rpc, stopped, crashed>>

(* sendMsg finds the peer's transport, or Invoke returns ErrNotConnected. *)
FindTransport(c) ==
  /\ ~crashed
  /\ pc[c] = "registered"
  /\ mu = None
  /\ ~stopped
  /\ \/ pc' = [pc EXCEPT ![c] = "writing"]
     \/ ReturnError(c)
  /\ UNCHANGED <<key, answer, sent, ctxDone, methodCalls, mu, handlerVars, rpc,
                 stopped, crashed>>

(* sendMsg dereferences s.connMgr, which Stop has set to nil. *)
FindTransportPanics(c) ==
  /\ ~crashed
  /\ pc[c] = "registered"
  /\ mu = None
  /\ stopped
  /\ crashed' = TRUE
  /\ UNCHANGED <<invokeVars, ctxDone, methodCalls, mu, handlerVars, rpc, stopped>>

(* The transport's write pump takes the message. *)
WriteAccepted(c) ==
  /\ ~crashed
  /\ pc[c] = "writing"
  /\ pc' = [pc EXCEPT ![c] = "waiting"]
  /\ sent' = sent \cup {c}
  /\ UNCHANGED <<key, answer, ctxDone, methodCalls, mu, handlerVars, rpc,
                 stopped, crashed>>

(* The transport has closed or the context has ended: Write returns an error. *)
WriteFails(c) ==
  /\ ~crashed
  /\ pc[c] = "writing"
  /\ ReturnError(c)
  /\ UNCHANGED <<key, answer, sent, ctxDone, methodCalls, mu, handlerVars, rpc,
                 stopped, crashed>>

(* The select of Invoke takes ctx.Done(), which it may although a response
   handler is already blocked on the call's channel. *)
TimeOut(c) ==
  /\ ~crashed
  /\ pc[c] = "waiting"
  /\ c \in ctxDone
  /\ pc' = [pc EXCEPT ![c] = "expired"]
  /\ UNCHANGED <<key, answer, sent, ctxDone, methodCalls, mu, handlerVars, rpc,
                 stopped, crashed>>

(* Variant: a timed-out Invoke takes its call out without taking s.mu. *)
RemoveExpiredUnlocked(c) ==
  /\ ~crashed
  /\ pc[c] = "expired"
  /\ DeleteMethodCall(key[c], c)
  /\ ReturnError(c)
  /\ UNCHANGED <<key, answer, sent, ctxDone, mu, handlerVars, rpc, stopped, crashed>>

RemoveExpired(c) ==
  /\ ~crashed
  /\ pc[c] = "expired"
  /\ mu = None
  /\ DeleteMethodCall(key[c], c)
  /\ ReturnError(c)
  /\ UNCHANGED <<key, answer, sent, ctxDone, mu, handlerVars, rpc, stopped, crashed>>

-----------------------------------------------------------------------------
(* handleRead starts a goroutine for each message; handleMessageResponse. *)

(* A response arrives from peer k under the id of a call that has been sent:
   k's own call or another's, answered for the first time or once more. *)
ReceiveResponse(h, k, c) ==
  /\ ~crashed
  /\ hpc[h] = "idle"
  /\ c \in sent
  /\ hpc' = [hpc EXCEPT ![h] = "started"]
  /\ hkey' = [hkey EXCEPT ![h] = k]
  /\ hid' = [hid EXCEPT ![h] = c]
  /\ UNCHANGED <<invokeVars, ctxDone, methodCalls, mu, rpc, stopped, crashed>>

(* Variant: the response handler returns early without unlocking s.mu. *)
LookupMissingKeepsLock(h) ==
  /\ ~crashed
  /\ hpc[h] = "started"
  /\ mu = None
  /\ ~HasMethodCall(hkey[h], hid[h])
  /\ mu' = h
  /\ hpc' = [hpc EXCEPT ![h] = "done"]
  /\ UNCHANGED <<invokeVars, ctxDone, methodCalls, hkey, hid, rpc, stopped, crashed>>

LookupMissing(h) ==
  /\ ~crashed
  /\ hpc[h] = "started"
  /\ mu = None
  /\ ~HasMethodCall(hkey[h], hid[h])
  /\ hpc' = [hpc EXCEPT ![h] = "done"]
  /\ UNCHANGED <<invokeVars, ctxDone, methodCalls, mu, hkey, hid, rpc, stopped, crashed>>

(* Variant: the response handler removes the call before it has sent. *)
LookupAndRemove(h) ==
  /\ ~crashed
  /\ hpc[h] = "started"
  /\ mu = None
  /\ HasMethodCall(hkey[h], hid[h])
  /\ mu' = h
  /\ DeleteMethodCall(hkey[h], hid[h])
  /\ hpc' = [hpc EXCEPT ![h] = "sending"]
  /\ UNCHANGED <<invokeVars, ctxDone, hkey, hid, rpc, stopped, crashed>>

(* The handler finds the call's channel and starts to send, holding s.mu. *)
LookupFound(h) ==
  /\ ~crashed
  /\ hpc[h] = "started"
  /\ mu = None
  /\ HasMethodCall(hkey[h], hid[h])
  /\ mu' = h
  /\ hpc' = [hpc EXCEPT ![h] = "sending"]
  /\ UNCHANGED <<invokeVars, ctxDone, methodCalls, hkey, hid, rpc, stopped, crashed>>

(* The send meets the select of Invoke: Invoke returns the response, the
   handler removes the method call and unlocks s.mu. *)
Deliver(h) ==
  LET c == hid[h] IN
  /\ ~crashed
  /\ hpc[h] = "sending"
  /\ pc[c] = "waiting"
  /\ pc' = [pc EXCEPT ![c] = "returned"]
  /\ answer' = [answer EXCEPT ![c] = hkey[h]]
  /\ DeleteMethodCall(hkey[h], c)
  /\ mu' = None
  /\ hpc' = [hpc EXCEPT ![h] = "done"]
  /\ UNCHANGED <<key, sent, ctxDone, hkey, hid, rpc, stopped, crashed>>

-----------------------------------------------------------------------------
(* handleMessageRequest *)

ReceiveRequest(r) ==
  /\ ~crashed
  /\ rpc[r] = "idle"
  /\ rpc' = [rpc EXCEPT ![r] = "started"]
  /\ UNCHANGED <<invokeVars, ctxDone, methodCalls, mu, handlerVars, stopped, crashed>>

(* The request is invalid, or no response can be built from what the
   service's handler returned: the peer gets no answer. *)
RequestDropped(r) ==
  /\ ~crashed
  /\ rpc[r] = "started"
  /\ rpc' = [rpc EXCEPT ![r] = "done"]
  /\ UNCHANGED <<invokeVars, ctxDone, methodCalls, mu, handlerVars, stopped, crashed>>

(* The service's handler has run and there is a response to send. *)
RequestHandled(r) ==
  /\ ~crashed
  /\ rpc[r] = "started"
  /\ rpc' = [rpc EXCEPT ![r] = "replying"]
  /\ UNCHANGED <<invokeVars, ctxDone, methodCalls, mu, handlerVars, stopped, crashed>>

(* sendMsg looks for the peer's transport: it is there, or it is logged that
   it is not. *)
ReplyTransport(r) ==
  /\ ~crashed
  /\ rpc[r] = "replying"
  /\ mu = None
  /\ ~stopped
  /\ \E next \in {"writing", "done"} : rpc' = [rpc EXCEPT ![r] = next]
  /\ UNCHANGED <<invokeVars, ctxDone, methodCalls, mu, handlerVars, stopped, crashed>>

ReplyPanics(r) ==
  /\ ~crashed
  /\ rpc[r] = "replying"
  /\ mu = None
  /\ stopped
  /\ crashed' = TRUE
  /\ UNCHANGED <<invokeVars, ctxDone, methodCalls, mu, handlerVars, rpc, stopped>>

(* Write returns, whether or not the transport took the reply. *)
ReplyWritten(r) ==
  /\ ~crashed
  /\ rpc[r] = "writing"
  /\ rpc' = [rpc EXCEPT ![r] = "done"]
  /\ UNCHANGED <<invokeVars, ctxDone, methodCalls, mu, handlerVars, stopped, crashed>>

-----------------------------------------------------------------------------
(* The environment: contexts end, and the application stops the server. *)

ContextDone(c) ==
  /\ ~crashed
  /\ pc[c] \in InFlight
  /\ c \notin ctxDone
  /\ ctxDone' = ctxDone \cup {c}
  /\ UNCHANGED <<invokeVars, methodCalls, mu, handlerVars, rpc, stopped, crashed>>

(* Stop takes s.mu to set s.connMgr to nil. *)
StopServer ==
  /\ ~crashed
  /\ ~stopped
  /\ mu = None
  /\ stopped' = TRUE
  /\ UNCHANGED <<invokeVars, ctxDone, methodCalls, mu, handlerVars, rpc, crashed>>

(* The steps of one Invoke that do not wait for the application. *)
InvokeStep(c) == \/ FindTransport(c) \/ FindTransportPanics(c)
                 \/ WriteAccepted(c) \/ WriteFails(c)
                 \/ TimeOut(c) \/ RemoveExpired(c)

ResponseStep(h) == LookupMissing(h) \/ LookupFound(h) \/ Deliver(h)

RequestStep(r) == \/ RequestDropped(r) \/ RequestHandled(r)
                  \/ ReplyTransport(r) \/ ReplyPanics(r) \/ ReplyWritten(r)

Next ==
  \/ \E c \in Calls : InvokeRejected(c) \/ InvokeStep(c) \/ ContextDone(c)
  \/ \E c \in Calls, k \in Keys : RegisterMethodCall(c, k)
  \/ \E h \in Responses, k \in Keys, c \in Calls : ReceiveResponse(h, k, c)
  \/ \E h \in Responses : ResponseStep(h)
  \/ \E r \in Requests : ReceiveRequest(r) \/ RequestStep(r)
  \/ StopServer

Spec == Init /\ [][Next]_vars

(* Every goroutine that can go on does; peers, contexts and the application
   owe nothing. *)
Fairness ==
  /\ \A c \in Calls : WF_vars(InvokeStep(c))
  /\ \A h \in Responses : WF_vars(ResponseStep(h))
  /\ \A r \in Requests : WF_vars(RequestStep(r))

FairSpec == Spec /\ Fairness

-----------------------------------------------------------------------------
(* Safety *)

(* A call returns a response only of the peer it was addressed to: the
   per-key registry of internal/methods keeps peers from answering each
   other's calls, even with the right call id. *)
AnswerFromAddressee == \A c \in Calls : answer[c] # None => answer[c] = key[c]

(* A call that waits for its response is registered, so a response that
   arrives in time is never logged as "id not found" and dropped. *)
WaitingIsRegistered ==
  \A c \in Calls : pc[c] \in {"waiting", "expired"} => c \in methodCalls[key[c]]

(* Invoke leaves its call registered when sendMsg fails.  Such an entry stays
   for ever, but it is one whose request never left: no response can find it
   and block on a channel nobody reads. *)
StaleEntriesUnsent ==
  \A k \in Keys : \A c \in methodCalls[k] : pc[c] = "returned" => c \notin sent

(* handleMessageResponse, while it holds s.mu, sends to a call whose Invoke
   has not returned, and at most one handler sends at a time. *)
HandoffTargetsLiveCall ==
  \A h \in Responses : hpc[h] = "sending" =>
     /\ pc[hid[h]] \in {"waiting", "expired"}
     /\ \A g \in Responses : hpc[g] = "sending" => g = h

(* The deadlock of server.go:292 and 374: a response handler holds s.mu and
   waits for an Invoke, which has timed out and waits for s.mu. *)
Wedged == \E h \in Responses : hpc[h] = "sending" /\ pc[hid[h]] = "expired"

(* Nothing the server does resolves that deadlock. *)
WedgeIsPermanent == [][Wedged => Wedged']_vars

(* Invoke keeps the promise of ClientInterface. *)
Contract ==
  INSTANCE RpcContract WITH
    status <- [c \in Calls |-> IF pc[c] \in InFlight THEN "pending" ELSE pc[c]],
    answers <- {<<hkey[h], hid[h]>> : h \in {g \in Responses : hpc[g] # "idle"}}

ContractSpec == Contract!Spec

-----------------------------------------------------------------------------
(* Liveness *)

(* A call whose context has ended returns, unless the server is wedged: not
   only the call's own handoff can hold it up. *)
TimedOutCallReturns ==
  \A c \in Calls : (pc[c] = "waiting" /\ c \in ctxDone)
                     ~> (pc[c] = "returned" \/ Wedged \/ crashed)

(* What the comment in Invoke says, "Remove the call since we have timeout":
   a timed-out call gets to remove itself and returns. *)
TimedOutCallIsRemoved ==
  \A c \in Calls : (pc[c] = "expired") ~> (pc[c] = "returned" \/ crashed)
=============================================================================
