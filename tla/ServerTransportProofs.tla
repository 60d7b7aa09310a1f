----------------------- MODULE ServerTransportProofs -----------------------
(***************************************************************************)
(* Proofs about ServerTransport for any number of writers.                 *)
(***************************************************************************)
EXTENDS ServerTransport, TLAPS

(* start has closed the transport before it calls afterWritePump. *)
ClosedBeforeCallback == wp \in {"closed", "finished"} => closeConn

IInv == TypeOK /\ AcceptedIsSentOrFatal /\ ClosedBeforeCallback

(* The initial state satisfies the inductive invariant. *)
LEMMA InitIInv == Init => IInv
BY DEF Init, IInv, TypeOK, AcceptedIsSentOrFatal, ClosedBeforeCallback

(* Every step preserves it. *)
LEMMA StepIInv == IInv /\ [Next]_vars => IInv'
<1> SUFFICES ASSUME IInv, [Next]_vars PROVE IInv'
  OBVIOUS
<1> USE DEF IInv, TypeOK, AcceptedIsSentOrFatal, ClosedBeforeCallback, connVars
<1>1. ASSUME NEW w \in Writers, BeginWrite(w) \/ WriterStep(w) \/ ContextDone(w)
      PROVE  IInv'
  BY <1>1 DEF BeginWrite, WriterStep, WriteAccepted, WriteRefused, ContextDone
<1>2. CASE Close \/ MessageArrives \/ ReadRefused \/ ReadPumpStep
  <2>1. CASE Close
    BY <2>1 DEF Close
  <2>2. CASE MessageArrives \/ MessageTaken
    BY <2>2 DEF MessageArrives, MessageTaken
  <2>3. CASE ReadRefused \/ ReadError
    <3>1. ReadEnds
      BY <2>3 DEF ReadRefused, ReadError
    <3> QED
      BY <3>1 DEF ReadEnds
  <2> QED
    BY <1>2, <2>1, <2>2, <2>3 DEF ReadPumpStep
<1>3. CASE WritePumpStep
  <2>1. CASE MessageWritten
    BY <2>1 DEF MessageWritten
  (* The only step that loses a message also leaves the loop. *)
  <2>2. CASE WriteFails
    BY <2>2 DEF WriteFails, Leave
  <2>3. CASE ReadPumpEnded \/ PingFails \/ CloseMessage \/ CloseWaitEnds
    BY <2>3 DEF ReadPumpEnded, PingFails, CloseMessage, CloseMessageFails, CloseMessageSent,
       CloseWaitEnds, Leave
  <2>4. CASE StartCloses
    BY <2>4 DEF StartCloses
  <2>5. CASE AfterWritePump
    BY <2>5 DEF AfterWritePump
  <2> QED
    BY <1>3, <2>1, <2>2, <2>3, <2>4, <2>5 DEF WritePumpStep, StartStep
<1>4. CASE PingTimesOut
  BY <1>4 DEF PingTimesOut, Leave
<1>5. CASE HandleReadStarts \/ HandleReadLeaves \/ ConnectionLost \/ DeadlinePasses
  BY <1>5 DEF HandleReadStarts, HandleReadLeaves, ConnectionLost, DeadlinePasses
<1>6. CASE UNCHANGED vars
  BY <1>6 DEF vars
<1> QED
  BY <1>1, <1>2, <1>3, <1>4, <1>5, <1>6 DEF Next

(* IInv holds in every reachable state. *)
LEMMA Invariant == Spec => []IInv
BY InitIInv, StepIInv, PTL DEF Spec

(* Every variable keeps its type, whatever the pumps, the writers and the
   connection do. *)
THEOREM TypeCorrect == Spec => []TypeOK
<1>1. IInv => TypeOK
  BY DEF IInv
<1> QED
  BY <1>1, Invariant, PTL

(* A message that Write has accepted and writePump fails to send takes the
   transport down with it. *)
THEOREM LossIsFatal == Spec => []AcceptedIsSentOrFatal
<1>1. IInv => AcceptedIsSentOrFatal
  BY DEF IInv
<1> QED
  BY <1>1, Invariant, PTL

-----------------------------------------------------------------------------
(* Refinement of TransportLife *)

(* The pumps take only the steps that the server expects of a transport:
   start closes it before it calls afterWritePump, writePump leaves once, and
   nothing follows the callback. *)
THEOREM ImplementsTransportLife == Spec => Life!SafeSpec
<1>1. Init => Life!Init
  BY DEF Init, Life!Init, tr
<1>2. IInv /\ [Next]_vars => [Life!Next]_Life!vars
  <2> SUFFICES ASSUME IInv, [Next]_vars
               PROVE  Life!Next \/ UNCHANGED <<tr, closeConn>>
    BY DEF Life!vars
  <2> USE DEF connVars
  <2>1. ASSUME NEW w \in Writers, BeginWrite(w) \/ WriterStep(w) \/ ContextDone(w)
        PROVE  UNCHANGED <<tr, closeConn>>
    BY <2>1 DEF BeginWrite, WriterStep, WriteAccepted, WriteRefused, ContextDone, tr
  <2>2. CASE Close
    BY <2>2 DEF Close, Life!Next, Life!Close, tr
  <2>3. CASE MessageArrives \/ ReadRefused \/ ReadPumpStep
    BY <2>3 DEF MessageArrives, ReadRefused, ReadPumpStep, MessageTaken, ReadError, ReadEnds, tr
  <2>4. ASSUME wp \in {"select", "writing", "closing"}, Leave
        PROVE  Life!Next
    BY <2>4 DEF Leave, Life!Next, Life!Exit, tr
  <2>5. CASE MessageWritten \/ CloseMessageSent
    BY <2>5 DEF MessageWritten, CloseMessageSent, tr
  <2>6. CASE WriteFails \/ ReadPumpEnded \/ PingFails \/ CloseMessageFails \/ CloseWaitEnds
             \/ PingTimesOut
    BY <2>4, <2>6 DEF WriteFails, ReadPumpEnded, PingFails, CloseMessageFails, CloseWaitEnds,
       PingTimesOut
  <2>7. CASE StartCloses
    BY <2>7 DEF StartCloses, Life!Next, Life!Close, tr
  (* ClosedBeforeCallback: Close has been called by now. *)
  <2>8. CASE AfterWritePump
    BY <2>8 DEF AfterWritePump, IInv, TypeOK, ClosedBeforeCallback, Life!Next, Life!Finish, tr
  <2>9. CASE HandleReadStarts \/ HandleReadLeaves \/ ConnectionLost \/ DeadlinePasses
    BY <2>9 DEF HandleReadStarts, HandleReadLeaves, ConnectionLost, DeadlinePasses, tr
  <2>10. CASE UNCHANGED vars
    BY <2>10 DEF vars, tr
  <2> QED
    BY <2>1, <2>2, <2>3, <2>5, <2>6, <2>7, <2>8, <2>9, <2>10
       DEF Next, WritePumpStep, CloseMessage, StartStep
<1> QED
  BY <1>1, <1>2, Invariant, PTL DEF Spec, Life!SafeSpec
=============================================================================
