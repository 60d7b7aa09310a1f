--------------------------- MODULE ServicesProofs ---------------------------
(***************************************************************************)
(* Proofs about Services for any services, whatever their names and their  *)
(* packages, any methods, calls and numbers of registrations.              *)
(***************************************************************************)
EXTENDS Services, TLAPS

(* An endpoint has a service from its first registration on. *)
RegistryInv == \A e \in Endpoints : service[e] = None <=> regs[e] = 0

(* A call is on record from the moment it is made.  Only a call that is over
   has a result other than a timeout, and a gRPC call is over at once.  A
   server is never without its connection manager but after Stop. *)
CallInv ==
  \A c \in Calls :
     /\ call[c] = None <=> pc[c] = "idle"
     /\ pc[c] # "over" => result[c] \in {"none", "timeout"}
     /\ call[c] # None /\ call[c].caller = "Grpc" =>
          pc[c] = "over" /\ result[c] \in {"routed", "unimplemented"}
LinkInv == link["server"] # "down"

(* The second lookup of a server finds what the validation has found, and the
   handler that a server has found is one of the service it still has. *)
DispatchInv ==
  \A c \in Calls :
     /\ handler[c] # None => pc[c] # "idle"
     /\ pc[c] = "validated" => /\ Target(c) = "server"
                               /\ service["server"] # None
                               /\ Name(c) \in Names(service["server"])
     /\ pc[c] = "found" =>
          /\ handler[c] # None
          /\ service[Target(c)] # None
          /\ Target(c) = "server" => service[Target(c)] = handler[c][1]

(* The handler of the caller's own method decodes the request, and what is
   sent as a response can be encoded. *)
ReturnInv ==
  \A c \in Calls :
     /\ pc[c] \in {"handled", "replied"} =>
          /\ handler[c] # None /\ ret[c] # None
          /\ handler[c] = <<call[c].s, call[c].m>> => ret[c] # Undecoded
     /\ pc[c] = "replied" => CanRespond(ret[c])

IInv == /\ TypeOK /\ RegistryInv /\ CallInv /\ LinkInv /\ DispatchInv /\ ReturnInv
        /\ NamesResolve /\ ResultIsTheHandlers /\ PanicsOnlyUnprepared
-----------------------------------------------------------------------------
(* dispatch finds the handler of the name it looks for, of the service that is
   registered. *)
LEMMA MethodMapFinds ==
  ASSUME NEW s \in ServiceSet, NEW n \in Names(s)
  PROVE  MethodMap(s)[n] = <<s, n>>
<1> DEFINE P(j) == j \in DOMAIN ServiceDesc(s) /\ ServiceDesc(s)[j].MethodName = n
           i == CHOOSE j \in DOMAIN ServiceDesc(s) : ServiceDesc(s)[j].MethodName = n
<1>1. \E j \in DOMAIN ServiceDesc(s) : ServiceDesc(s)[j].MethodName = n
  BY DEF Names, ServiceDesc
<1>2. i \in DOMAIN ServiceDesc(s) /\ ServiceDesc(s)[i].MethodName = n
  BY <1>1
<1>3. ServiceDesc(s)[i].Handler = <<s, n>>
  BY <1>2 DEF ServiceDesc, HandlerNames
<1> QED
  BY <1>3 DEF MethodMap

(* A gRPC call finds the service in package pb whose name is the Go name of
   the caller's, if that has the method. *)
LEMMA GrpcRoutes ==
  ASSUME NEW s \in ServiceSet, NEW m \in Names(s), NEW t \in ServiceSet
  PROVE  GrpcStubMethod(s, m) \in GrpcServiceDesc(t)
            <=> t \in PbPackage /\ t = GoName[s] /\ m \in Names(t)
BY DEF GrpcStubMethod, GrpcServiceDesc

(* What a payload can be decoded as. *)
LEMMA Decoding ==
  ASSUME NEW payload, NEW own \in BOOLEAN, NEW d \in Decoded(payload, own)
  PROVE  /\ payload # "full" => d = "empty"
         /\ payload = "full" /\ own => d = "full"
         /\ payload = "full" /\ ~own => d \in {"garbled", "failed"}
<1>1. CASE payload # "full"
  BY <1>1 DEF Decoded
<1>2. CASE payload = "full" /\ own
  BY <1>2 DEF Decoded
<1>3. CASE payload = "full" /\ ~own
  BY <1>3 DEF Decoded
<1> QED
  BY <1>1, <1>2, <1>3

(* The initial state satisfies the inductive invariant. *)
LEMMA InitIInv == Init => IInv
BY MaxRegsAssumption, NoneAssumption
   DEF Init, IInv, TypeOK, Endpoints, RegistryInv, CallInv, LinkInv, DispatchInv, ReturnInv,
   NamesResolve, ResultIsTheHandlers, PanicsOnlyUnprepared

(* Registration with a server, before any request reaches it, preserves it. *)
LEMMA ServerRegisterIInv ==
  ASSUME IInv, NEW s \in ServiceSet,
         ServerRegister(s)
  PROVE  IInv'
<1> USE DEF IInv, TypeOK, Endpoints, Target, ServerRegister, Register
<1>1. TypeOK'
  BY NoneAssumption, MaxRegsAssumption
<1>2. RegistryInv'
  BY NoneAssumption, MaxRegsAssumption DEF RegistryInv
<1>3. DispatchInv'
  BY NoneAssumption, MaxRegsAssumption DEF DispatchInv, CallInv, RegistryInv, Name
<1>4. PanicsOnlyUnprepared'
  BY DEF PanicsOnlyUnprepared, ReplacedUnder
<1>5. (CallInv /\ LinkInv /\ ReturnInv /\ NamesResolve /\ ResultIsTheHandlers)'
  BY DEF CallInv, LinkInv, ReturnInv, NamesResolve, ResultIsTheHandlers
<1> QED
  BY <1>1, <1>2, <1>3, <1>4, <1>5

(* Registration with a client preserves it. *)
LEMMA ClientRegisterIInv ==
  ASSUME IInv, NEW s \in ServiceSet,
         ClientRegister(s)
  PROVE  IInv'
<1> USE DEF IInv, TypeOK, Endpoints, Target, ClientRegister, Register
<1>1. TypeOK'
  BY NoneAssumption, MaxRegsAssumption
<1>2. RegistryInv'
  BY NoneAssumption, MaxRegsAssumption DEF RegistryInv
<1>3. DispatchInv'
  BY NoneAssumption, MaxRegsAssumption DEF DispatchInv, CallInv, RegistryInv, Name
<1>4. PanicsOnlyUnprepared'
  BY DEF PanicsOnlyUnprepared, ReplacedUnder
<1>5. (CallInv /\ LinkInv /\ ReturnInv /\ NamesResolve /\ ResultIsTheHandlers)'
  BY DEF CallInv, LinkInv, ReturnInv, NamesResolve, ResultIsTheHandlers
<1> QED
  BY <1>1, <1>2, <1>3, <1>4, <1>5

(* Registration with a gRPC server preserves it. *)
LEMMA GrpcRegisterIInv ==
  ASSUME IInv, NEW s \in ServiceSet,
         GrpcRegister(s)
  PROVE  IInv'
<1> USE DEF IInv, TypeOK, Endpoints, Target, GrpcRegister
<1>1. TypeOK'
  OBVIOUS
<1>2. NamesResolve'
  BY DEF NamesResolve, CallInv
<1>3. (RegistryInv /\ CallInv /\ LinkInv /\ DispatchInv /\ ReturnInv /\ ResultIsTheHandlers /\
      PanicsOnlyUnprepared)'
  BY DEF RegistryInv, CallInv, LinkInv, DispatchInv, Name, ReturnInv, ResultIsTheHandlers,
     PanicsOnlyUnprepared, ReplacedUnder
<1> QED
  BY <1>1, <1>2, <1>3

(* A change of a connection preserves it: an endpoint that has crashed keeps
   the one it had. *)
LEMMA LinkIInv ==
  ASSUME IInv, Redial \/ Connected \/ Close \/ Stop
  PROVE  IInv'
<1> USE DEF IInv, TypeOK, Endpoints, Target, Redial, Connected, Close, Stop, SetLink
<1>1. TypeOK' /\ LinkInv'
  <2>1. PICK e \in Endpoints, to \in {"up", "down", "closed"} :
          link' = [link EXCEPT ![e] = to] /\ (e = "server" => to # "down")
    OBVIOUS
  <2>2. UNCHANGED <<service, regs, grpc, call, pc, handler, ret, result, crashed>>
    OBVIOUS
  <2> HIDE DEF Redial, Connected, Close, Stop
  <2>3. link' \in [Endpoints -> {"up", "down", "closed"}] /\ LinkInv'
    BY <2>1 DEF LinkInv
  <2> QED
    BY <2>2, <2>3
<1>2. PanicsOnlyUnprepared'
  BY DEF PanicsOnlyUnprepared, ReplacedUnder
<1>3. (RegistryInv /\ CallInv /\ DispatchInv /\ ReturnInv)'
  BY DEF RegistryInv, CallInv, DispatchInv, Name, ReturnInv
<1>4. (NamesResolve /\ ResultIsTheHandlers)'
  BY DEF NamesResolve, ResultIsTheHandlers
<1> QED
  BY <1>1, <1>2, <1>3, <1>4

(* A call that is rejected, or panics, preserves it. *)
LEMMA RejectedIInv ==
  ASSUME IInv, NEW c \in Calls, NEW s \in ServiceSet, NEW m \in Names(s), NEW caller \in
         Callers,
         InvokeRejected(c, caller, s, m) \/ InvokePanics(c, caller, s, m)
  PROVE  IInv'
<1> USE DEF IInv, TypeOK, Endpoints, Target, InvokeRejected, InvokePanics, Begin, Callers, Origin
<1>0. /\ call' = [call EXCEPT ![c] = [caller |-> caller, s |-> s, m |-> m, arg |-> "empty"]]
      /\ [caller |-> caller, s |-> s, m |-> m, arg |-> "empty"] \in CallRecords
      /\ [caller |-> caller, s |-> s, m |-> m, arg |-> "empty"] # None
  <2>1. m \in STRING
    BY MethodsAssumption DEF Names
  <2> QED
    BY <2>1, NoneAssumption DEF CallRecords, Callers
<1>1. TypeOK'
  BY <1>0
<1>2. CallInv'
  BY <1>0 DEF CallInv
<1>3. DispatchInv'
  BY <1>0 DEF DispatchInv, CallInv, Name
<1>4. ReturnInv'
  BY DEF ReturnInv, CallInv
<1>5. NamesResolve'
  BY <1>0 DEF NamesResolve, CallInv, DispatchInv
<1>6. ResultIsTheHandlers'
  BY DEF ResultIsTheHandlers, CallInv, DispatchInv
<1>7. (RegistryInv /\ LinkInv /\ PanicsOnlyUnprepared)'
  BY DEF RegistryInv, LinkInv, PanicsOnlyUnprepared, ReplacedUnder, CallInv
<1> QED
  BY <1>1, <1>2, <1>3, <1>4, <1>5, <1>6, <1>7

(* A call that is sent preserves it. *)
LEMMA InvokeIInv ==
  ASSUME IInv, NEW c \in Calls, NEW s \in ServiceSet, NEW m \in Names(s), NEW caller \in
         Callers, NEW arg \in {"full", "empty"},
         Invoke(c, caller, s, m, arg)
  PROVE  IInv'
<1> USE DEF IInv, TypeOK, Endpoints, Target, Invoke, Begin, Callers
<1>0. /\ call' = [call EXCEPT ![c] = [caller |-> caller, s |-> s, m |-> m, arg |-> arg]]
      /\ [caller |-> caller, s |-> s, m |-> m, arg |-> arg] \in CallRecords
      /\ [caller |-> caller, s |-> s, m |-> m, arg |-> arg] # None
  <2>1. m \in STRING
    BY MethodsAssumption DEF Names
  <2> QED
    BY <2>1, NoneAssumption DEF CallRecords, Callers
<1>1. TypeOK'
  BY <1>0
<1>2. CallInv'
  BY <1>0 DEF CallInv
<1>3. DispatchInv'
  BY <1>0 DEF DispatchInv, CallInv, Name
<1>4. ReturnInv'
  BY DEF ReturnInv, CallInv
<1>5. NamesResolve'
  BY <1>0 DEF NamesResolve, CallInv, DispatchInv
<1>6. ResultIsTheHandlers'
  BY DEF ResultIsTheHandlers, CallInv, DispatchInv
<1>7. (RegistryInv /\ LinkInv /\ PanicsOnlyUnprepared)'
  BY DEF RegistryInv, LinkInv, PanicsOnlyUnprepared, ReplacedUnder, CallInv
<1> QED
  BY <1>1, <1>2, <1>3, <1>4, <1>5, <1>6, <1>7

(* A gRPC call preserves it. *)
LEMMA GrpcInvokeIInv ==
  ASSUME IInv, NEW c \in Calls, NEW s \in ServiceSet, NEW m \in Names(s),
         GrpcInvoke(c, s, m)
  PROVE  IInv'
<1> USE DEF IInv, TypeOK, Endpoints, Target, GrpcInvoke, Begin
<1>0. /\ call' = [call EXCEPT ![c] = [caller |-> "Grpc", s |-> s, m |-> m, arg |-> "full"]]
      /\ [caller |-> "Grpc", s |-> s, m |-> m, arg |-> "full"] \in CallRecords
      /\ [caller |-> "Grpc", s |-> s, m |-> m, arg |-> "full"] # None
  <2>1. m \in STRING
    BY MethodsAssumption DEF Names
  <2> QED
    BY <2>1, NoneAssumption DEF CallRecords, Callers
<1>a. \/ /\ UNCHANGED handler
         /\ result' = [result EXCEPT ![c] = "unimplemented"]
         /\ \A t \in grpc : ~(t \in PbPackage /\ t = GoName[s] /\ m \in Names(t))
      \/ /\ handler' = [handler EXCEPT ![c] = <<GoName[s], m>>]
         /\ result' = [result EXCEPT ![c] = "routed"]
         /\ GoName[s] \in grpc \cap PbPackage
         /\ <<GoName[s], m>> \in Handlers /\ <<GoName[s], m>> # None
  <2>1. m \in STRING
    BY MethodsAssumption DEF Names
  <2> QED
    BY <2>1, GrpcRoutes, NoneAssumption DEF Handlers
<1>b. handler[c] = None
  BY DEF DispatchInv
<1> HIDE DEF GrpcInvoke
<1>c. pc' = [pc EXCEPT ![c] = "over"] /\ pc[c] = "idle"
      /\ UNCHANGED <<service, regs, grpc, ret, crashed, link>>
  BY DEF GrpcInvoke
<1> USE <1>0, <1>a, <1>b, <1>c
<1>1. TypeOK'
  OBVIOUS
<1>2. CallInv'
  BY <1>0 DEF CallInv
<1>3. DispatchInv'
  BY <1>0 DEF DispatchInv, CallInv, Name
<1>4. ReturnInv'
  BY DEF ReturnInv, CallInv
<1>5. NamesResolve'
  <2>1. <<s, m>> # None
    <3>1. m \in STRING
      BY MethodsAssumption DEF Names
    <3> QED
      BY <3>1, NoneAssumption DEF Handlers
  <2>2. /\ handler'[c] = <<s, m>> <=> s \in grpc \cap PbPackage /\ GoName[s] = s
        /\ handler'[c] # None => handler'[c][2] = m /\ handler'[c][1] \in grpc \cap PbPackage
    BY <2>1
  <2>3. call'[c].s = s /\ call'[c].m = m /\ grpc' = grpc
    OBVIOUS
  <2>4. ASSUME NEW d \in Calls, d # c
        PROVE  handler'[d] = handler[d] /\ call'[d] = call[d] /\ pc'[d] = pc[d]
    BY <2>4
  <2> QED
    BY <2>2, <2>3, <2>4 DEF NamesResolve
<1>6. ResultIsTheHandlers'
  BY DEF ResultIsTheHandlers, CallInv, DispatchInv
<1>7. (RegistryInv /\ LinkInv /\ PanicsOnlyUnprepared)'
  BY DEF RegistryInv, LinkInv, PanicsOnlyUnprepared, ReplacedUnder, CallInv
<1> QED
  BY <1>1, <1>2, <1>3, <1>4, <1>5, <1>6, <1>7

(* A response that is sent or not, a loss and a timeout preserve it. *)
LEMMA EndIInv ==
  ASSUME IInv, NEW c \in Calls,
         Reply(c) \/ NoReply(c) \/ MessageLost(c) \/ TimeOut(c)
  PROVE  IInv'
<1> USE DEF IInv, TypeOK, Endpoints, Target, Reply, NoReply, MessageLost, TimeOut, Goto
<1>1. TypeOK'
  OBVIOUS
<1>2. CallInv'
  BY DEF CallInv
<1>3. DispatchInv'
  BY DEF DispatchInv, CallInv, Name
<1>4. ReturnInv'
  BY DEF ReturnInv, CallInv
<1>5. NamesResolve'
  BY DEF NamesResolve, CallInv
<1>6. ResultIsTheHandlers'
  BY DEF ResultIsTheHandlers, CallInv
<1>7. (RegistryInv /\ LinkInv /\ PanicsOnlyUnprepared)'
  BY DEF RegistryInv, LinkInv, PanicsOnlyUnprepared, ReplacedUnder, CallInv
<1> QED
  BY <1>1, <1>2, <1>3, <1>4, <1>5, <1>6, <1>7

(* A request to an endpoint without a service, and a reply on one without a
   connection, preserve it. *)
LEMMA PanicIInv ==
  ASSUME IInv, NEW c \in Calls,
         NoServicePanics(c) \/ ReplyPanics(c)
  PROVE  IInv'
<1> USE DEF IInv, TypeOK, Endpoints, Target, NoServicePanics, ReplyPanics
<1>1. TypeOK'
  OBVIOUS
<1>2. PanicsOnlyUnprepared'
  BY DEF PanicsOnlyUnprepared, ReplacedUnder, RegistryInv, CallInv, LinkInv
<1>3. (RegistryInv /\ CallInv /\ LinkInv /\ DispatchInv /\ ReturnInv /\ NamesResolve /\
      ResultIsTheHandlers)'
  BY DEF RegistryInv, CallInv, LinkInv, DispatchInv, Name, ReturnInv, NamesResolve,
     ResultIsTheHandlers
<1> QED
  BY <1>1, <1>2, <1>3

(* The server's validation preserves it. *)
LEMMA ValidateIInv ==
  ASSUME IInv, NEW c \in Calls,
         ValidateMessageRequest(c)
  PROVE  IInv'
<1> USE DEF IInv, TypeOK, Endpoints, Target, ValidateMessageRequest, Goto
<1>1. TypeOK'
  OBVIOUS
<1>2. CallInv'
  BY DEF CallInv
<1>3. DispatchInv'
  BY DEF DispatchInv, CallInv, Name
<1>4. ReturnInv'
  BY DEF ReturnInv, CallInv
<1>5. NamesResolve'
  BY DEF NamesResolve, CallInv
<1>6. (RegistryInv /\ LinkInv /\ ResultIsTheHandlers /\ PanicsOnlyUnprepared)'
  BY DEF RegistryInv, LinkInv, ResultIsTheHandlers, PanicsOnlyUnprepared, ReplacedUnder, CallInv
<1> QED
  BY <1>1, <1>2, <1>3, <1>4, <1>5, <1>6

(* The lookup of the method preserves it. *)
LEMMA FindMethodIInv ==
  ASSUME IInv, NEW c \in Calls,
         FindMethod(c)
  PROVE  IInv'
<1> USE DEF IInv, TypeOK, Endpoints, Target, FindMethod, Goto
<1> DEFINE svc == service[Target(c)]
           h == <<svc, call[c].m>>
<1>0. CASE Name(c) \in Names(svc)
  <2>1. svc \in ServiceSet /\ Target(c) \in Endpoints /\ svc # None
    OBVIOUS
  <2>2. call[c].m \in STRING
    BY MethodsAssumption, <1>0, <2>1 DEF Names, Name, StubMethod
  <2>3. h \in Handlers /\ h # None /\ h[1] = svc /\ h[2] = call[c].m
    BY <2>1, <2>2, NoneAssumption DEF Handlers
  <2>4. MethodMap(svc)[Name(c)] = h
    BY <2>1, <1>0, MethodMapFinds DEF Name, StubMethod
  <2>5. /\ handler' = [handler EXCEPT ![c] = h] /\ pc' = [pc EXCEPT ![c] = "found"]
        /\ UNCHANGED <<service, regs, grpc, call, ret, result, crashed, link>>
        /\ pc[c] \in {"validated", "requested"}
    BY <2>4, <1>0
  <2> HIDE DEF FindMethod, svc, h
  <2>6. TypeOK'
    BY <2>3, <2>5
  <2>7. (RegistryInv /\ CallInv /\ LinkInv /\ PanicsOnlyUnprepared)'
    BY <2>5 DEF RegistryInv, CallInv, LinkInv, PanicsOnlyUnprepared, ReplacedUnder
  <2>8. DispatchInv'
    BY <2>1, <2>3, <2>5 DEF DispatchInv, CallInv, Name, svc
  <2>9. ReturnInv'
    BY <2>5 DEF ReturnInv
  <2>10. NamesResolve'
    BY <2>3, <2>5 DEF NamesResolve
  <2>11. ResultIsTheHandlers'
    BY <2>5 DEF ResultIsTheHandlers, CallInv
  <2> QED
    BY <2>6, <2>7, <2>8, <2>9, <2>10, <2>11
<1>1. CASE Name(c) \notin Names(svc)
  <2>1. /\ pc' = [pc EXCEPT ![c] = "over"] /\ pc[c] = "requested" /\ Target(c) = "client"
        /\ UNCHANGED <<service, regs, grpc, call, handler, ret, result, crashed, link>>
    BY <1>1 DEF DispatchInv
  <2> HIDE DEF FindMethod, svc
  <2>2. TypeOK'
    BY <2>1
  <2>3. (RegistryInv /\ CallInv /\ LinkInv /\ PanicsOnlyUnprepared)'
    BY <2>1 DEF RegistryInv, CallInv, LinkInv, PanicsOnlyUnprepared, ReplacedUnder
  <2>4. (DispatchInv /\ ReturnInv)'
    BY <2>1 DEF DispatchInv, ReturnInv, Name
  <2>5. (NamesResolve /\ ResultIsTheHandlers)'
    BY <2>1 DEF NamesResolve, ResultIsTheHandlers, CallInv
  <2> QED
    BY <2>2, <2>3, <2>4, <2>5
<1> QED
  BY <1>0, <1>1

(* The handler preserves it. *)
LEMMA RunHandlerIInv ==
  ASSUME IInv, NEW c \in Calls,
         RunHandler(c)
  PROVE  IInv'
<1> USE DEF IInv, TypeOK, Endpoints, Target, RunHandler, Goto
<1>1. TypeOK'
  OBVIOUS
<1>2. (RegistryInv /\ LinkInv)'
  BY DEF RegistryInv, LinkInv
<1>3. CallInv'
  BY DEF CallInv
<1>4. DispatchInv'
  BY DEF DispatchInv, CallInv, Name
<1>5. ReturnInv'
  <2>1. UNCHANGED <<call, handler>> /\ pc[c] = "found" /\ handler[c] # None
    BY DEF DispatchInv
  <2>2. CASE UNCHANGED <<pc, ret>>
    BY <2>1, <2>2 DEF ReturnInv
  <2>3. CASE ~UNCHANGED <<pc, ret>>
    <3>1. PICK in \in Decoded(call[c].arg, handler[c] = <<call[c].s, call[c].m>>) :
             \E r \in IF in = "failed" THEN {Undecoded} ELSE Returns :
                ret' = [ret EXCEPT ![c] = r]
      BY <2>3
    <3>2. PICK r \in IF in = "failed" THEN {Undecoded} ELSE Returns :
             ret' = [ret EXCEPT ![c] = r]
      BY <3>1
    <3>3. r # None /\ (r = Undecoded => in = "failed")
      BY <3>2, NoneAssumption DEF Returns, Undecoded
    <3>4. handler[c] = <<call[c].s, call[c].m>> => in # "failed"
      BY DEF Decoded
    <3>5. pc' = [pc EXCEPT ![c] = "handled"]
      BY <2>3
    <3> HIDE DEF RunHandler
    <3> QED
      BY <2>1, <3>2, <3>3, <3>4, <3>5 DEF ReturnInv
  <2> QED
    BY <2>2, <2>3
<1>6. NamesResolve'
  BY DEF NamesResolve, CallInv
<1>7. ResultIsTheHandlers'
  BY DEF ResultIsTheHandlers, CallInv
<1>8. PanicsOnlyUnprepared'
  <2>1. CASE UNCHANGED crashed
    <3>1. \A d \in Calls : "client" \in crashed /\ ReplacedUnder(d) => ReplacedUnder(d)'
      BY DEF ReplacedUnder, Alive
    <3> QED
      BY <2>1, <3>1 DEF PanicsOnlyUnprepared
  <2>2. CASE ~UNCHANGED crashed
    <3>1. /\ crashed' = crashed \cup {Target(c)} /\ service[Target(c)] # handler[c][1]
          /\ pc[c] = "found"
          /\ UNCHANGED <<service, regs, call, pc, handler, link>>
      BY <2>2
    <3>2. Target(c) = "client"
      BY <3>1 DEF DispatchInv
    <3>3. ReplacedUnder(c)'
      BY <3>1, <3>2 DEF ReplacedUnder
    <3> QED
      BY <3>1, <3>2, <3>3 DEF PanicsOnlyUnprepared
  <2> QED
    BY <2>1, <2>2
<1> QED
  BY <1>1, <1>2, <1>3, <1>4, <1>5, <1>6, <1>7, <1>8

(* The response at the caller preserves it. *)
LEMMA ReturnIInv ==
  ASSUME IInv, NEW c \in Calls,
         Return(c)
  PROVE  IInv'
<1> USE DEF IInv, TypeOK, Endpoints, Target, Return, Goto
<1> DEFINE own == handler[c] = <<call[c].s, call[c].m>>
           r == NewResponse(ret[c])
<1>0. PICK v \in IF call[c].caller = "UniClient" THEN UniInvokeResult(r, own)
                                                 ELSE InvokeResult(r, own) :
        result' = [result EXCEPT ![c] = v]
  BY DEF Return
<1>a. /\ ret[c] \in Returns \cup {Undecoded}
      /\ ret[c].v \in {"full", "empty", "nil"}
      /\ ret[c].err \in {"none", "text", "notext"}
  <2>1. ret[c] \in Returns \cup {Undecoded} /\ CanRespond(ret[c])
    BY DEF ReturnInv
  <2> QED
    BY <2>1 DEF CanRespond, Undecoded, Returns, Errors
<1>b. /\ v \in {"full", "empty", "garbled", "error", "decode", "nilpayload"}
      /\ v \in {"full", "empty", "garbled"} =>
           \/ ret[c].err \in {"none", "notext"}
           \/ call[c].caller = "UniClient" /\ ret[c].v = "full"
      /\ v = "error" => call[c].caller # "UniClient" /\ ret[c].err = "text"
      /\ v = "nilpayload" => call[c].caller = "UniClient" /\ ret[c].v \in {"empty", "nil"}
      /\ own => /\ v = "full" => ret[c].v = "full"
                /\ v = "empty" => ret[c].v \in {"empty", "nil"}
                /\ v \notin {"garbled", "decode"}
  <2>1. /\ r.payload = (IF ret[c].v = "full" THEN "full" ELSE "nil") /\ r.error = ret[c].err
    BY DEF NewResponse
  <2> HIDE DEF r, own
  <2>2. own \in BOOLEAN
    BY DEF own
  <2>3. v \in {"error", "nilpayload"}
        \/ \E d \in Decoded(r.payload, own) : v = IF d = "failed" THEN "decode" ELSE d
    BY <1>0 DEF UniInvokeResult, InvokeResult
  <2>4. v \notin {"error", "nilpayload"} =>
           \/ call[c].caller = "UniClient" /\ r.payload = "full"
           \/ call[c].caller # "UniClient" /\ r.error # "text"
    BY <1>0, <2>1 DEF UniInvokeResult, InvokeResult
  <2>5. CASE v \in {"error", "nilpayload"}
    <3>1. ASSUME v # "nilpayload" PROVE call[c].caller # "UniClient" /\ r.error = "text"
      <4>1. \A d \in Decoded(r.payload, own) : d \in {"full", "empty", "garbled", "failed"}
        BY <2>2, Decoding
      <4> QED
        BY <1>0, <2>5, <3>1, <4>1 DEF UniInvokeResult, InvokeResult
    <3>2. ASSUME v = "nilpayload" PROVE call[c].caller = "UniClient" /\ r.payload = "nil"
      <4>1. \A d \in Decoded(r.payload, own) : d \in {"full", "empty", "garbled", "failed"}
        BY <2>2, Decoding
      <4> QED
        BY <1>0, <3>2, <4>1 DEF UniInvokeResult, InvokeResult
    <3> QED
      BY <1>a, <2>1, <2>5, <3>1, <3>2
  <2>6. CASE v \notin {"error", "nilpayload"}
    <3>1. PICK d \in Decoded(r.payload, own) : v = IF d = "failed" THEN "decode" ELSE d
      BY <2>3, <2>6
    <3>2. /\ r.payload # "full" => d = "empty"
          /\ r.payload = "full" /\ own => d = "full"
          /\ r.payload = "full" /\ ~own => d \in {"garbled", "failed"}
      BY <2>2, Decoding
    <3> QED
      BY <1>a, <2>1, <2>4, <2>6, <3>1, <3>2
  <2> QED
    BY <2>5, <2>6
<1>1. TypeOK'
  BY <1>0, <1>b
<1>2. CallInv'
  BY DEF CallInv
<1>3. DispatchInv'
  BY DEF DispatchInv, CallInv, Name
<1>4. ReturnInv'
  BY DEF ReturnInv, CallInv
<1>5. NamesResolve'
  BY DEF NamesResolve, CallInv
<1>6. ResultIsTheHandlers'
  BY <1>0, <1>b DEF ResultIsTheHandlers, CallInv
<1>7. (RegistryInv /\ LinkInv /\ PanicsOnlyUnprepared)'
  BY DEF RegistryInv, LinkInv, PanicsOnlyUnprepared, ReplacedUnder, CallInv
<1> QED
  BY <1>1, <1>2, <1>3, <1>4, <1>5, <1>6, <1>7

(* Every step preserves it. *)
LEMMA StepIInv == IInv /\ [Next]_vars => IInv'
<1> SUFFICES ASSUME IInv, [Next]_vars PROVE IInv'
  OBVIOUS
<1>1. CASE \/ \E s \in ServiceSet : ServerRegister(s) \/ ClientRegister(s) \/ GrpcRegister(s)
           \/ Redial \/ Connected \/ Close \/ Stop
  BY <1>1, ServerRegisterIInv, ClientRegisterIInv, GrpcRegisterIInv, LinkIInv
<1>2. CASE \E c \in Calls, s \in ServiceSet : \E m \in Names(s) :
             \/ \E caller \in Callers : \/ InvokeRejected(c, caller, s, m)
                                        \/ InvokePanics(c, caller, s, m)
                                        \/ \E arg \in {"full", "empty"} : Invoke(c, caller, s, m, arg)
             \/ GrpcInvoke(c, s, m)
  BY <1>2, RejectedIInv, InvokeIInv, GrpcInvokeIInv
<1>3. CASE \E c \in Calls : \/ DispatchStep(c) \/ NoServicePanics(c)
                            \/ MessageLost(c) \/ TimeOut(c)
  BY <1>3, EndIInv, PanicIInv, ValidateIInv, FindMethodIInv, RunHandlerIInv, ReturnIInv
     DEF DispatchStep
<1>4. CASE UNCHANGED vars
  BY <1>4 DEF vars, IInv, TypeOK, RegistryInv, CallInv, DispatchInv, ReturnInv, NamesResolve,
     ResultIsTheHandlers, PanicsOnlyUnprepared, ReplacedUnder, LinkInv, Target, Name
<1> QED
  BY <1>1, <1>2, <1>3, <1>4 DEF Next

LEMMA Invariant == Spec => []IInv
BY InitIInv, StepIInv, PTL DEF Spec

(* Every variable keeps its type. *)
THEOREM TypeCorrect == Spec => []TypeOK
<1>1. IInv => TypeOK
  BY DEF IInv
<1> QED
  BY <1>1, Invariant, PTL

(* Stubs and descriptors agree on the names of the methods, and a gRPC stub
   reaches its service exactly if that is registered, in package pb, and has
   the same name in its .proto file as in Go. *)
THEOREM StubsMeetDescriptors == Spec => []NamesResolve
<1>1. IInv => NamesResolve
  BY DEF IInv
<1> QED
  BY <1>1, Invariant, PTL

(* A call returns what the handler has returned, with the four exceptions
   that ResultIsTheHandlers names. *)
THEOREM CallsReturnTheHandlersResult == Spec => []ResultIsTheHandlers
<1>1. IInv => ResultIsTheHandlers
  BY DEF IInv
<1> QED
  BY <1>1, Invariant, PTL

(* A server panics only without a service or after Stop, a client only without
   a service or a transport, or when its service is replaced under a request. *)
THEOREM RequestsDoNotPanic == Spec => []PanicsOnlyUnprepared
<1>1. IInv => PanicsOnlyUnprepared
  BY DEF IInv
<1> QED
  BY <1>1, Invariant, PTL
=============================================================================
