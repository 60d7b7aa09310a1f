------------------------------ MODULE Services ------------------------------
(***************************************************************************)
(* A call from a generated client stub to the implementation of a service  *)
(* and back: the stubs and descriptors that the protoc plugins generate    *)
(* (cmd/), RegisterService, the dispatch of handleMessageRequest on either *)
(* side, NewRequest and NewResponse, and what the three kinds of caller    *)
(* (ClientConn, UniClientConn, Server) make of a response.                 *)
(*                                                                         *)
(* A payload is "full" or "empty" (it encodes to no bytes) and belongs to  *)
(* a method of a service; decoded as another message it may fail or be     *)
(* garbled.  Call ids are those of uuid.NewString, which the server's      *)
(* validation accepts.  Transports only lose messages here.                *)
(***************************************************************************)
EXTENDS Naturals, Sequences

CONSTANTS Calls,      \* the calls that are made
          ServiceSet, \* services of the .proto files, by the names they have there
          Methods,    \* Methods[s]: the method names of s, in the order of the file
          PbPackage,  \* the services whose proto package is called pb
          GoName,     \* GoName[s]: the name of s in camel case, as protogen makes it
          None,       \* no service, no handler
          MaxRegs     \* how often RegisterService is called on an endpoint

ASSUME MethodsAssumption ==
  /\ Methods \in [ServiceSet -> Seq(STRING)]
  /\ \A s \in ServiceSet : \A i, j \in DOMAIN Methods[s] : Methods[s][i] = Methods[s][j] => i = j
ASSUME PbAssumption == PbPackage \subseteq ServiceSet
ASSUME GoNameAssumption ==
  /\ DOMAIN GoName = ServiceSet
  /\ \A s \in ServiceSet : GoName[s] \in ServiceSet => GoName[GoName[s]] = GoName[s]
ASSUME MaxRegsAssumption == MaxRegs \in Nat

VARIABLES
  service,   \* service[e]: the service registered at endpoint e, or None
  regs,      \* regs[e]: how often RegisterService was called
  grpc,      \* the services registered with a gRPC server
  call,      \* call[c]: who calls which method of which service with what, or None
  pc,        \* pc[c]: where the request is
  handler,   \* handler[c]: the handler that dispatch has found
  ret,       \* ret[c]: what that handler has returned
  result,    \* result[c]: what the stub returns, or "none"
  crashed,   \* endpoints with a panic in a goroutine that nothing recovers
  link       \* link[e]: "up", "down" (a ClientConn without a transport), "closed"

vars == <<service, regs, grpc, call, pc, handler, ret, result, crashed, link>>

Endpoints == {"server", "client"}
Callers == {"ClientConn", "UniClient", "Server"}
Names(s) == {Methods[s][i] : i \in DOMAIN Methods[s]}

(* Where a caller is, and who serves its requests. *)
Origin(caller) == IF caller = "Server" THEN "server" ELSE "client"
Target(c) == IF call[c].caller = "Server" THEN "client" ELSE "server"

(* What an implementation returns: a message, possibly a nil one of the right
   type ("nil") or one that proto.Marshal refuses, with a string that is not
   UTF-8 ("invalid"); and an error: none, one with a text, one with an empty
   text, one whose text is not UTF-8. *)
Errors == {"none", "text", "notext", "invalid"}
Returns == [v : {"full", "empty", "nil", "invalid"}, err : Errors]

(* What its generated handler returns when the request cannot be decoded: a
   nil without a type. *)
Undecoded == [v |-> "untyped", err |-> "text"]

CallRecords == [caller : Callers \cup {"Grpc"}, s : ServiceSet, m : STRING, arg : {"full", "empty"}]
Handlers == ServiceSet \X STRING

ASSUME NoneAssumption ==
  None \notin ServiceSet \cup CallRecords \cup Handlers \cup Returns \cup {Undecoded}

(* The type of every variable. *)
TypeOK ==
  /\ service \in [Endpoints -> ServiceSet \cup {None}]
  /\ regs \in [Endpoints -> 0 .. MaxRegs]
  /\ grpc \subseteq ServiceSet
  /\ call \in [Calls -> CallRecords \cup {None}]
  /\ \A c \in Calls : call[c] # None => call[c].m \in Names(call[c].s)
  /\ pc \in [Calls -> {"idle", "requested", "validated", "found", "handled", "replied",
                        "lost", "over"}]
  /\ handler \in [Calls -> Handlers \cup {None}]
  /\ ret \in [Calls -> Returns \cup {Undecoded, None}]
  /\ result \in [Calls -> {"none", "full", "empty", "garbled", "error", "decode", "nilpayload",
                           "rejected", "timeout", "routed", "unimplemented"}]
  /\ crashed \subseteq Endpoints
  /\ link \in [Endpoints -> {"up", "down", "closed"}]

(* Dial returns with the ClientConn still connecting. *)
Init ==
  /\ service = [e \in Endpoints |-> None] /\ regs = [e \in Endpoints |-> 0] /\ grpc = {}
  /\ call = [c \in Calls |-> None] /\ pc = [c \in Calls |-> "idle"]
  /\ handler = [c \in Calls |-> None] /\ ret = [c \in Calls |-> None]
  /\ result = [c \in Calls |-> "none"]
  /\ crashed = {}
  /\ link = [e \in Endpoints |-> IF e = "client" THEN "down" ELSE "up"]

-----------------------------------------------------------------------------
(* Generated code *)

(* The method name that the client stub passes to Invoke: not qualified by
   the service. *)
StubMethod(s, m) == m

(* One handler per method, in the order of the methods. *)
HandlerNames(s) == [i \in DOMAIN Methods[s] |-> <<s, Methods[s][i]>>]

(* The service descriptor lists a name and a handler for each. *)
ServiceDesc(s) ==
  [i \in DOMAIN Methods[s] |-> [MethodName |-> Methods[s][i], Handler |-> HandlerNames(s)[i]]]

(* The gRPC stub calls /pb.Service/Method with the Go name of the service,
   whatever its package is. *)
GrpcStubMethod(s, m) == <<"pb", GoName[s], m>>

(* Variant: the descriptor with the name of the service alone. *)
GrpcServiceDescUnqualified(s) == {<<"none", s, m>> : m \in Names(s)}

(* The descriptor has the full name of the service in the .proto file.  Methods
   keep their names in both. *)
GrpcServiceDesc(s) ==
  {<<IF s \in PbPackage THEN "pb" ELSE "other", s, m>> : m \in Names(s)}

-----------------------------------------------------------------------------
(* Registration *)

(* The map that register builds from a descriptor. *)
MethodMap(s) ==
  [n \in Names(s) |->
     LET i == CHOOSE j \in DOMAIN ServiceDesc(s) : ServiceDesc(s)[j].MethodName = n
     IN ServiceDesc(s)[i].Handler]

Register(e, s) ==
  /\ regs[e] < MaxRegs
  /\ e \notin crashed
  /\ service' = [service EXCEPT ![e] = s]
  /\ regs' = [regs EXCEPT ![e] = @ + 1]
  /\ UNCHANGED <<grpc, call, pc, handler, ret, result, crashed, link>>

(* Variant: the services of a server are registered while it serves. *)
ServerRegisterAnytime(s) == Register("server", s)

(* "This must be called before invoking Serve". *)
ServerRegister(s) ==
  /\ \A c \in Calls : call[c] # None => Target(c) # "server"
  /\ Register("server", s)

(* A ClientConn is connected from the start: its services are registered while
   requests may come in. *)
ClientRegister(s) == Register("client", s)

(* A gRPC server takes its services before it serves. *)
GrpcRegister(s) ==
  /\ s \notin grpc
  /\ \A c \in Calls : call[c] # None => call[c].caller # "Grpc"
  /\ grpc' = grpc \cup {s}
  /\ UNCHANGED <<service, regs, call, pc, handler, ret, result, crashed, link>>

-----------------------------------------------------------------------------
(* The connections: resetTransport sets addrConn's transport to nil until it
   has dialled, Close sets cc.addrConn to nil for good, Stop s.connMgr. *)

SetLink(e, from, to) ==
  /\ e \notin crashed
  /\ link[e] \in from
  /\ link' = [link EXCEPT ![e] = to]
  /\ UNCHANGED <<service, regs, grpc, call, pc, handler, ret, result, crashed>>

Redial == SetLink("client", {"up"}, "down")
Connected == SetLink("client", {"down"}, "up")
Close == SetLink("client", {"up", "down"}, "closed")
Stop == SetLink("server", {"up"}, "closed")

-----------------------------------------------------------------------------
(* The caller *)

Begin(c, caller, s, m, arg) ==
  /\ pc[c] = "idle"
  /\ Origin(caller) \notin crashed
  /\ call' = [call EXCEPT ![c] = [caller |-> caller, s |-> s, m |-> m, arg |-> arg]]

(* NewRequest fails: a string of the request is not UTF-8; on the server, the
   context names no peer; on either side there is no connection. *)
InvokeRejected(c, caller, s, m) ==
  /\ Begin(c, caller, s, m, "empty")
  /\ caller = "ClientConn" => link["client"] # "closed"
  /\ pc' = [pc EXCEPT ![c] = "over"]
  /\ result' = [result EXCEPT ![c] = "rejected"]
  /\ UNCHANGED <<service, regs, grpc, handler, ret, crashed, link>>

(* Server.Invoke after Stop dereferences s.connMgr in sendMsg, an Invoke of a
   closed ClientConn cc.addrConn. *)
InvokePanics(c, caller, s, m) ==
  /\ Begin(c, caller, s, m, "empty")
  /\ \/ caller = "ClientConn" /\ link["client"] = "closed"
     \/ caller = "Server" /\ link["server"] = "closed"
  /\ pc' = [pc EXCEPT ![c] = "over"]
  /\ crashed' = crashed \cup {Origin(caller)}
  /\ UNCHANGED <<service, regs, grpc, handler, ret, result, link>>

(* The two ends of the caller's connection have it; a UniClientConn has one of
   its own. *)
CanSend(caller) ==
  /\ caller \in {"ClientConn", "Server"} => link["client"] = "up"
  /\ caller = "Server" => link["server"] = "up"

Invoke(c, caller, s, m, arg) ==
  /\ Begin(c, caller, s, m, arg)
  /\ CanSend(caller)
  /\ pc' = [pc EXCEPT ![c] = "requested"]
  /\ UNCHANGED <<service, regs, grpc, handler, ret, result, crashed, link>>

(* A gRPC server looks the path up in the descriptors it has. *)
GrpcInvoke(c, s, m) ==
  /\ Begin(c, "Grpc", s, m, "full")
  /\ pc' = [pc EXCEPT ![c] = "over"]
  /\ \/ \E t \in grpc : /\ GrpcStubMethod(s, m) \in GrpcServiceDesc(t)
                        /\ handler' = [handler EXCEPT ![c] = <<t, m>>]
                        /\ result' = [result EXCEPT ![c] = "routed"]
     \/ /\ \A t \in grpc : GrpcStubMethod(s, m) \notin GrpcServiceDesc(t)
        /\ result' = [result EXCEPT ![c] = "unimplemented"]
        /\ UNCHANGED handler
  /\ UNCHANGED <<service, regs, grpc, ret, crashed, link>>

TimeOut(c) ==
  /\ pc[c] # "idle"
  /\ Origin(call[c].caller) \notin crashed
  /\ result[c] = "none"
  /\ result' = [result EXCEPT ![c] = "timeout"]
  /\ UNCHANGED <<service, regs, grpc, call, pc, handler, ret, crashed, link>>

-----------------------------------------------------------------------------
(* handleMessageRequest *)

Alive(c) == Target(c) \notin crashed
Goto(c, label) == pc' = [pc EXCEPT ![c] = label]
Name(c) == StubMethod(call[c].s, call[c].m)

(* The registered service is nil. *)
NoServicePanics(c) ==
  /\ pc[c] = "requested"
  /\ Alive(c)
  /\ service[Target(c)] = None
  /\ crashed' = crashed \cup {Target(c)}
  /\ UNCHANGED <<service, regs, grpc, call, pc, handler, ret, result, link>>

(* The server's validation, before it looks the method up again.  A request
   for an unknown method is dropped without a response. *)
ValidateMessageRequest(c) ==
  /\ pc[c] = "requested" /\ Target(c) = "server"
  /\ Alive(c)
  /\ service["server"] # None
  /\ Goto(c, IF Name(c) \in Names(service["server"]) THEN "validated" ELSE "over")
  /\ UNCHANGED <<service, regs, grpc, call, handler, ret, result, crashed, link>>

(* The method descriptor: on the server after the validation, on the client
   the only check. *)
FindMethod(c) ==
  LET svc == service[Target(c)] IN
  /\ \/ pc[c] = "validated"
     \/ pc[c] = "requested" /\ Target(c) = "client"
  /\ Alive(c)
  /\ svc # None
  /\ IF Name(c) \in Names(svc)
     THEN /\ handler' = [handler EXCEPT ![c] = MethodMap(svc)[Name(c)]]
          /\ Goto(c, "found")
          /\ UNCHANGED crashed
     ELSE /\ Goto(c, "over")
          /\ crashed' = IF Target(c) = "server" THEN crashed \cup {"server"} ELSE crashed
          /\ UNCHANGED handler
  /\ UNCHANGED <<service, regs, grpc, call, ret, result, link>>

(* What decoding the payload of method <<s, m>> as a message of method t gives. *)
Decoded(payload, own) ==
  IF payload # "full" THEN {"empty"} ELSE IF own THEN {"full"} ELSE {"garbled", "failed"}

(* The generated handler decodes the request, then calls the implementation
   that is registered by now.  A failed decoding returns a nil without a
   type; an implementation of another service panics. *)
RunHandler(c) ==
  /\ pc[c] = "found"
  /\ Alive(c)
  /\ \E in \in Decoded(call[c].arg, handler[c] = <<call[c].s, call[c].m>>) :
       IF in # "failed" /\ service[Target(c)] # handler[c][1]
       THEN /\ crashed' = crashed \cup {Target(c)}
            /\ UNCHANGED <<pc, ret>>
       ELSE /\ \E r \in IF in = "failed" THEN {Undecoded} ELSE Returns :
                 ret' = [ret EXCEPT ![c] = r]
            /\ Goto(c, "handled")
            /\ UNCHANGED crashed
  /\ UNCHANGED <<service, regs, grpc, call, handler, result, link>>

(* Variant: the response carries the payload only. *)
NewResponseWithoutError(r) == [payload |-> IF r.v = "full" THEN "full" ELSE "nil", error |-> "none"]

(* NewResponse, encoded and decoded: a payload without bytes arrives as nil. *)
NewResponse(r) == [payload |-> IF r.v = "full" THEN "full" ELSE "nil", error |-> r.err]

(* Variant: a nil message cannot be encoded. *)
CanRespondToNonNil(r) == r.v \notin {"untyped", "invalid", "nil"} /\ r.err # "invalid"

(* A value that is no message, one that proto.Marshal refuses, whatever comes
   with it, or an error text that is not UTF-8, cannot be encoded. *)
CanRespond(r) == r.v \notin {"untyped", "invalid"} /\ r.err # "invalid"

(* The reply needs s.connMgr, or cc.addrConn and its transport: nothing checks
   whether they are nil. *)
ReplyPanics(c) ==
  /\ pc[c] = "handled"
  /\ Alive(c)
  /\ CanRespond(ret[c])
  /\ link[Target(c)] # "up"
  /\ crashed' = crashed \cup {Target(c)}
  /\ UNCHANGED <<service, regs, grpc, call, pc, handler, ret, result, link>>

Reply(c) ==
  /\ pc[c] = "handled"
  /\ Alive(c)
  /\ CanRespond(ret[c])
  /\ link[Target(c)] = "up"
  /\ Goto(c, "replied")
  /\ UNCHANGED <<service, regs, grpc, call, handler, ret, result, crashed, link>>

NoReply(c) ==
  /\ pc[c] = "handled"
  /\ Alive(c)
  /\ ~CanRespond(ret[c])
  /\ Goto(c, "over")
  /\ UNCHANGED <<service, regs, grpc, call, handler, ret, result, crashed, link>>

(* A transport loses the request or the response. *)
MessageLost(c) ==
  /\ pc[c] \in {"requested", "replied"}
  /\ Goto(c, "lost")
  /\ UNCHANGED <<service, regs, grpc, call, handler, ret, result, crashed, link>>

-----------------------------------------------------------------------------
(* The response at the caller *)

(* ClientConn.Invoke and Server.Invoke: an error has a text. *)
InvokeResult(r, own) ==
  IF r.error = "text" THEN {"error"}
  ELSE {IF v = "failed" THEN "decode" ELSE v : v \in Decoded(r.payload, own)}

(* UniClientConn.Invoke does not look at the error. *)
UniInvokeResult(r, own) ==
  IF r.payload = "nil" THEN {"nilpayload"}
  ELSE {IF v = "failed" THEN "decode" ELSE v : v \in Decoded(r.payload, own)}

Return(c) ==
  LET own == handler[c] = <<call[c].s, call[c].m>>
      r == NewResponse(ret[c])
  IN
  /\ pc[c] = "replied"
  /\ result[c] = "none"
  /\ Origin(call[c].caller) \notin crashed
  /\ Goto(c, "over")
  /\ \E v \in IF call[c].caller = "UniClient" THEN UniInvokeResult(r, own)
                                              ELSE InvokeResult(r, own) :
       result' = [result EXCEPT ![c] = v]
  /\ UNCHANGED <<service, regs, grpc, call, handler, ret, crashed, link>>

-----------------------------------------------------------------------------
DispatchStep(c) == \/ ValidateMessageRequest(c) \/ FindMethod(c) \/ RunHandler(c)
                   \/ Reply(c) \/ ReplyPanics(c) \/ NoReply(c) \/ Return(c)

Next ==
  \/ \E s \in ServiceSet : ServerRegister(s) \/ ClientRegister(s) \/ GrpcRegister(s)
  \/ \E c \in Calls, s \in ServiceSet : \E m \in Names(s) :
       \/ \E caller \in Callers : \/ InvokeRejected(c, caller, s, m)
                                  \/ InvokePanics(c, caller, s, m)
                                  \/ \E arg \in {"full", "empty"} : Invoke(c, caller, s, m, arg)
       \/ GrpcInvoke(c, s, m)
  \/ Redial \/ Connected \/ Close \/ Stop
  \/ \E c \in Calls : \/ DispatchStep(c) \/ NoServicePanics(c)
                      \/ MessageLost(c) \/ TimeOut(c)

Spec == Init /\ [][Next]_vars

(* The goroutine that handles a message goes on; transports, contexts and the
   application owe nothing. *)
FairSpec == Spec /\ \A c \in Calls : WF_vars(DispatchStep(c))

-----------------------------------------------------------------------------
(* The names that stubs and descriptors make of a method agree: dispatch finds
   the handler of a method of the caller's name, if not of the caller's
   service, as names are not qualified.  A gRPC stub reaches its own service
   exactly if that is registered, in package pb, and has the name in the .proto
   file that it has in Go; ping_service is out of reach, and its stub may reach
   PingService instead. *)
NamesResolve ==
  \A c \in Calls :
     /\ handler[c] # None => handler[c][2] = call[c].m
     /\ pc[c] = "over" /\ call[c].caller = "Grpc" =>
          /\ handler[c] = <<call[c].s, call[c].m>>
                <=> call[c].s \in grpc \cap PbPackage /\ GoName[call[c].s] = call[c].s
          /\ handler[c] # None => handler[c][1] \in grpc \cap PbPackage

(* A call returns what the handler has returned: a message only if there was
   no error, the message that the caller's own method returned, and an error
   only if there was one.  Four exceptions: an error without a text is taken
   for success; a UniClientConn takes any message that is not empty for
   success, and an empty one for an error; and another service may answer
   under the same method name. *)
ResultIsTheHandlers ==
  \A c \in Calls :
     /\ result[c] \in {"full", "empty", "garbled"} =>
          \/ ret[c].err \in {"none", "notext"}
          \/ call[c].caller = "UniClient" /\ ret[c].v = "full"
     /\ result[c] = "error" => call[c].caller # "UniClient" /\ ret[c].err = "text"
     /\ result[c] = "nilpayload" => call[c].caller = "UniClient" /\ ret[c].v \in {"empty", "nil"}
     /\ handler[c] # None /\ handler[c] = <<call[c].s, call[c].m>> =>
          /\ result[c] = "full" => ret[c].v = "full"
          /\ result[c] = "empty" => ret[c].v \in {"empty", "nil"}
          /\ result[c] \notin {"garbled", "decode"}

(* The service of the client was replaced by another between the lookup of the
   method for c and the call of its implementation. *)
ReplacedUnder(c) ==
  /\ pc[c] = "found"
  /\ Target(c) = "client"
  /\ service["client"] # handler[c][1]

(* A server panics only if it never had a service or was stopped; a client only
   if it never had a service, has no transport or was closed, or had its service
   replaced while it handled a request.  A connected endpoint that registers
   once, before it serves, never panics over a request, whatever the request
   and its implementation. *)
PanicsOnlyUnprepared ==
  /\ "server" \in crashed => regs["server"] = 0 \/ link["server"] = "closed"
  /\ "client" \in crashed => \/ regs["client"] = 0
                             \/ link["client"] # "up"
                             \/ \E c \in Calls : ReplacedUnder(c)

(* A call of a method that the endpoint serves is answered whatever its
   implementation returns, a nil message with an error included, unless the
   message or the error text cannot be encoded, a transport loses a message or
   an endpoint panics. *)
ServedCallIsAnswered ==
  \A c \in Calls :
     (pc[c] = "found" /\ handler[c][1] = call[c].s)
        ~> \/ result[c] # "none" \/ pc[c] = "lost"
           \/ pc[c] = "over" /\ ret[c] # None /\ "invalid" \in {ret[c].v, ret[c].err}
           \/ crashed # {}
=============================================================================
