------------------------- MODULE ClientConnProofs -------------------------
(***************************************************************************)
(* Proofs about ClientConn for any number of dials, with and without       *)
(* WithBlock.                                                              *)
(***************************************************************************)
EXTENDS ClientConn, TLAPS

(* ac.mu is held over the send of the new state and over the dial. *)
LockInv ==
  /\ acMu = "free" => sending = "none"
  /\ sending # "none" => sending = acState
  /\ rt = "dial" => acMu = "dial" /\ acState = "Connecting"

(* The transports up to number created exist, and one whose reconnect event
   has fired has ended. *)
PumpInv ==
  /\ \A t \in Transports : pump[t] = "none" <=> t > created
  /\ \A t \in reconnect : pump[t] = "done"
  /\ rt = "install" => created # 0

(* All transports have ended when resetTransport goes for the next one. *)
EndedBeforeNext ==
  rt \in {"connect", "top", "dial", "failed", "backoff"} =>
     \A t \in Transports : t <= created => pump[t] = "done"

(* Only the last transport created has a writePump, or an afterWritePump to
   come: resetTransport dials again only when the reconnect event of the one
   before has fired.  Nothing of the kind holds of reading: the readPump of an
   older transport may still wait for its read deadline, or for a handleRead
   to take its message. *)
OneWritePumpAtATime ==
  \A t \in Transports : t < created => pump[t] = "done"

(* A Ready addrConn has the last transport. *)
ReadyInv == acState = "Ready" => created # 0 /\ acTr = created

(* The state that listenForConnectivityChange is about to apply, or has
   applied, is addrConn's, unless another one is on its way. *)
InOrder ==
  ~ctxDone /\ sending = "none" => /\ lcc # "exit"
                                  /\ lcc \in States => lcc = acState
                                  /\ lcc = "select" => csState = acState

(* A handleRead is started at most once for each transport: its Ready is
   about to be installed, sent, applied or noticed by listenForRead, and at
   one of these places only. *)
One(b) == IF b THEN 1 ELSE 0
StartsBound ==
  starting + One(csState = "Ready" /\ lfr = "woken") + One(lcc = "Ready")
           + One(sending = "Ready") + One(rt = "install") <= created

(* The channel of a WaitForReady that has not found it closed is open. *)
WaiterInv == /\ waiter \in {"check", "sleep"} => notifyOpen
             /\ waiter = "sleep" => csState \notin {"Ready", "Shutdown"}

IInv == /\ TypeOK /\ LockInv /\ PumpInv /\ EndedBeforeNext /\ OneWritePumpAtATime
        /\ ReadyInv /\ InOrder /\ StartsBound /\ WaiterInv
-----------------------------------------------------------------------------
(* The initial state satisfies the inductive invariant. *)
LEMMA InitIInv == Init => IInv
<1> SUFFICES ASSUME Init PROVE IInv
  OBVIOUS
<1> USE MaxTransportsAssumption DEF Init, Transports, States
<1>1. dialer \in [at : {"begin", "got", "check", "stale", "sleep", "returned", "failed"},
                 cur : States]
  <2>1. PICK block \in Block : dialer = At(IF block THEN "begin" ELSE "returned")
    BY DEF Init
  <2> QED
    BY <2>1 DEF At
<1>2. /\ ctxDone \in BOOLEAN /\ attached \in BOOLEAN /\ notifyOpen \in BOOLEAN
      /\ ~ctxDone /\ attached /\ notifyOpen
  OBVIOUS
<1>3. pump \in [Transports -> {"none", "running", "left", "updating", "updated", "done"}]
  OBVIOUS
<1>4. readPump \in [Transports -> {"none", "reading", "blocked", "done"}]
  OBVIOUS
<1>5. TypeOK
  BY <1>1, <1>2, <1>3, <1>4 DEF TypeOK
<1>6. LockInv /\ PumpInv /\ EndedBeforeNext /\ OneWritePumpAtATime /\ ReadyInv
  BY DEF LockInv, PumpInv, EndedBeforeNext, OneWritePumpAtATime, ReadyInv
<1>7. InOrder /\ WaiterInv
  BY DEF InOrder, WaiterInv
<1>8. StartsBound
  BY DEF StartsBound, One
<1> QED
  BY <1>5, <1>6, <1>7, <1>8 DEF IInv

(* connect and resetTransport preserve it. *)
LEMMA ResetIInv == ASSUME IInv, ResetStep PROVE IInv'
<1> USE MaxTransportsAssumption DEF IInv, TypeOK, Transports, States, acVars, trVars, csVars,
        readVars, appVars
<1>1. CASE Connect
  <2> USE <1>1 DEF Connect, Update
  <2>1. TypeOK'
    OBVIOUS
  <2>2. LockInv'
    BY DEF LockInv
  <2>3. PumpInv'
    BY DEF PumpInv
  <2>4. EndedBeforeNext'
    BY DEF EndedBeforeNext
  <2>5. ReadyInv'
    BY DEF ReadyInv
  <2>6. InOrder'
    BY DEF InOrder, LockInv
  <2>7. StartsBound'
    BY DEF StartsBound, One
  <2>8. (OneWritePumpAtATime /\ WaiterInv)'
    BY DEF OneWritePumpAtATime, WaiterInv
  <2> QED
    BY <2>1, <2>2, <2>3, <2>4, <2>5, <2>6, <2>7, <2>8
<1>2. CASE ResetTransportReturns
  <2> USE <1>2 DEF ResetTransportReturns
  <2>1. TypeOK'
    OBVIOUS
  <2>2. LockInv'
    BY DEF LockInv
  <2>3. PumpInv'
    BY DEF PumpInv
  <2>4. EndedBeforeNext'
    BY DEF EndedBeforeNext
  <2>5. StartsBound'
    BY DEF StartsBound, One
  <2>6. (OneWritePumpAtATime /\ ReadyInv /\ InOrder /\ WaiterInv)'
    BY DEF OneWritePumpAtATime, ReadyInv, InOrder, WaiterInv
  <2> QED
    BY <2>1, <2>2, <2>3, <2>4, <2>5, <2>6
<1>3. CASE ResetTransport
  <2> USE <1>3 DEF ResetTransport, Update
  <2>1. TypeOK'
    OBVIOUS
  <2>2. LockInv'
    BY DEF LockInv
  <2>3. PumpInv'
    BY DEF PumpInv
  <2>4. EndedBeforeNext'
    BY DEF EndedBeforeNext
  <2>5. ReadyInv'
    BY DEF ReadyInv
  <2>6. InOrder'
    BY DEF InOrder, LockInv
  <2>7. StartsBound'
    BY DEF StartsBound, One
  <2>8. (OneWritePumpAtATime /\ WaiterInv)'
    BY DEF OneWritePumpAtATime, WaiterInv
  <2> QED
    BY <2>1, <2>2, <2>3, <2>4, <2>5, <2>6, <2>7, <2>8
<1>4. CASE DialSucceeds
  <2> USE <1>4 DEF DialSucceeds
  <2>1. TypeOK'
    OBVIOUS
  <2>2. LockInv'
    BY DEF LockInv
  <2>3. PumpInv'
    BY DEF PumpInv
  <2>4. EndedBeforeNext'
    BY DEF EndedBeforeNext
  <2>5. OneWritePumpAtATime'
    BY DEF OneWritePumpAtATime, EndedBeforeNext
  <2>6. ReadyInv'
    BY DEF ReadyInv, LockInv
  <2>7. StartsBound'
    BY DEF StartsBound, One
  <2>8. (InOrder /\ WaiterInv)'
    BY DEF InOrder, WaiterInv
  <2> QED
    BY <2>1, <2>2, <2>3, <2>4, <2>5, <2>6, <2>7, <2>8
<1>5. CASE DialFails
  <2> USE <1>5 DEF DialFails
  <2>1. TypeOK'
    OBVIOUS
  <2>2. LockInv'
    BY DEF LockInv
  <2>3. PumpInv'
    BY DEF PumpInv
  <2>4. EndedBeforeNext'
    BY DEF EndedBeforeNext
  <2>5. StartsBound'
    BY DEF StartsBound, One
  <2>6. (OneWritePumpAtATime /\ ReadyInv /\ InOrder /\ WaiterInv)'
    BY DEF OneWritePumpAtATime, ReadyInv, InOrder, WaiterInv
  <2> QED
    BY <2>1, <2>2, <2>3, <2>4, <2>5, <2>6
<1>6. CASE EnterTransientFailure
  <2> USE <1>6 DEF EnterTransientFailure, Update
  <2>1. TypeOK'
    OBVIOUS
  <2>2. LockInv'
    BY DEF LockInv
  <2>3. PumpInv'
    BY DEF PumpInv
  <2>4. EndedBeforeNext'
    BY DEF EndedBeforeNext
  <2>5. ReadyInv'
    BY DEF ReadyInv
  <2>6. InOrder'
    BY DEF InOrder, LockInv
  <2>7. StartsBound'
    BY DEF StartsBound, One
  <2>8. (OneWritePumpAtATime /\ WaiterInv)'
    BY DEF OneWritePumpAtATime, WaiterInv
  <2> QED
    BY <2>1, <2>2, <2>3, <2>4, <2>5, <2>6, <2>7, <2>8
<1>7. CASE BackoffExpires
  <2> USE <1>7 DEF BackoffExpires
  <2>1. TypeOK'
    OBVIOUS
  <2>2. LockInv'
    BY DEF LockInv
  <2>3. PumpInv'
    BY DEF PumpInv
  <2>4. EndedBeforeNext'
    BY DEF EndedBeforeNext
  <2>5. StartsBound'
    BY DEF StartsBound, One
  <2>6. (OneWritePumpAtATime /\ ReadyInv /\ InOrder /\ WaiterInv)'
    BY DEF OneWritePumpAtATime, ReadyInv, InOrder, WaiterInv
  <2> QED
    BY <2>1, <2>2, <2>3, <2>4, <2>5, <2>6
<1>8. CASE InstallTransport
  <2> USE <1>8 DEF InstallTransport, Update
  <2>1. TypeOK'
    OBVIOUS
  <2>2. LockInv'
    BY DEF LockInv
  <2>3. PumpInv'
    BY DEF PumpInv
  <2>4. EndedBeforeNext'
    BY DEF EndedBeforeNext
  <2>5. ReadyInv'
    BY DEF ReadyInv, PumpInv
  <2>6. InOrder'
    BY DEF InOrder, LockInv
  <2>7. StartsBound'
    BY DEF StartsBound, One
  <2>8. (OneWritePumpAtATime /\ WaiterInv)'
    BY DEF OneWritePumpAtATime, WaiterInv
  <2> QED
    BY <2>1, <2>2, <2>3, <2>4, <2>5, <2>6, <2>7, <2>8
<1>9. CASE AbandonTransport
  <2> USE <1>9 DEF AbandonTransport
  <2>1. TypeOK'
    OBVIOUS
  <2>2. LockInv'
    BY DEF LockInv
  <2>3. PumpInv'
    BY DEF PumpInv
  <2>4. EndedBeforeNext'
    BY DEF EndedBeforeNext
  <2>5. StartsBound'
    BY DEF StartsBound, One
  <2>6. (OneWritePumpAtATime /\ ReadyInv /\ InOrder /\ WaiterInv)'
    BY DEF OneWritePumpAtATime, ReadyInv, InOrder, WaiterInv
  <2> QED
    BY <2>1, <2>2, <2>3, <2>4, <2>5, <2>6
<1>10. CASE Reconnect
  <2> USE <1>10 DEF Reconnect
  <2>1. TypeOK'
    OBVIOUS
  <2>2. LockInv'
    BY DEF LockInv
  <2>3. PumpInv'
    BY DEF PumpInv
  <2>4. EndedBeforeNext'
    BY DEF EndedBeforeNext, PumpInv, OneWritePumpAtATime
  <2>5. StartsBound'
    BY DEF StartsBound, One
  <2>6. (OneWritePumpAtATime /\ ReadyInv /\ InOrder /\ WaiterInv)'
    BY DEF OneWritePumpAtATime, ReadyInv, InOrder, WaiterInv
  <2> QED
    BY <2>1, <2>2, <2>3, <2>4, <2>5, <2>6
<1>11. CASE ResetTransportCancelled
  <2> USE <1>11 DEF ResetTransportCancelled
  <2>1. TypeOK'
    OBVIOUS
  <2>2. LockInv'
    BY DEF LockInv
  <2>3. PumpInv'
    BY DEF PumpInv
  <2>4. EndedBeforeNext'
    BY DEF EndedBeforeNext
  <2>5. StartsBound'
    BY DEF StartsBound, One
  <2>6. (OneWritePumpAtATime /\ ReadyInv /\ InOrder /\ WaiterInv)'
    BY DEF OneWritePumpAtATime, ReadyInv, InOrder, WaiterInv
  <2> QED
    BY <2>1, <2>2, <2>3, <2>4, <2>5, <2>6
<1> QED
  BY <1>1, <1>2, <1>3, <1>4, <1>5, <1>6, <1>7, <1>8, <1>9, <1>10, <1>11 DEF ResetStep

(* The send on stateCh and its receipt preserve it. *)
LEMMA SendIInv == ASSUME IInv, SendStep PROVE IInv'
<1> USE MaxTransportsAssumption DEF IInv, TypeOK, Transports, States, acVars, trVars, csVars,
        readVars, appVars
<1>1. CASE StateReceived
  <2> USE <1>1 DEF StateReceived, MuAfterSend, PumpAfterSend
  <2>1. TypeOK'
    OBVIOUS
  <2>2. LockInv'
    BY DEF LockInv
  <2>3. PumpInv'
    BY DEF PumpInv
  <2>4. EndedBeforeNext'
    BY DEF EndedBeforeNext
  <2>5. OneWritePumpAtATime'
    BY DEF OneWritePumpAtATime
  <2>6. InOrder'
    BY DEF InOrder, LockInv
  <2>7. StartsBound'
    BY DEF StartsBound, One
  <2>8. (ReadyInv /\ WaiterInv)'
    BY DEF ReadyInv, WaiterInv
  <2> QED
    BY <2>1, <2>2, <2>3, <2>4, <2>5, <2>6, <2>7, <2>8
<1>2. CASE StateNotSent
  <2> USE <1>2 DEF StateNotSent, MuAfterSend, PumpAfterSend
  <2>1. TypeOK'
    OBVIOUS
  <2>2. LockInv'
    BY DEF LockInv
  <2>3. PumpInv'
    BY DEF PumpInv
  <2>4. EndedBeforeNext'
    BY DEF EndedBeforeNext
  <2>5. OneWritePumpAtATime'
    BY DEF OneWritePumpAtATime
  <2>6. InOrder'
    BY DEF InOrder
  <2>7. StartsBound'
    BY DEF StartsBound, One
  <2>8. (ReadyInv /\ WaiterInv)'
    BY DEF ReadyInv, WaiterInv
  <2> QED
    BY <2>1, <2>2, <2>3, <2>4, <2>5, <2>6, <2>7, <2>8
<1> QED
  BY <1>1, <1>2 DEF SendStep

(* The pumps of a transport preserve it. *)
LEMMA PumpIInv ==
  ASSUME IInv, NEW t \in Transports,
         \/ PumpStep(t) \/ ReadStep(t) \/ MessageArrives(t) \/ ReadRefused(t)
         \/ ConnectionLost(t)
  PROVE  IInv'
<1> USE MaxTransportsAssumption DEF IInv, TypeOK, Transports, States, acVars, trVars, csVars,
        readVars, appVars
<1>1. CASE WritePumpLeaves(t)
  <2> USE <1>1 DEF WritePumpLeaves, WritePumpEnds
  <2>1. TypeOK'
    <3>1. connOpen' \subseteq Transports
      OBVIOUS
    <3>2. pump' \in [Transports -> {"none", "running", "left", "updating", "updated", "done"}]
      OBVIOUS
    <3> QED
      BY <3>1, <3>2
  <2>2. PumpInv'
    BY DEF PumpInv
  <2>3. EndedBeforeNext'
    BY DEF EndedBeforeNext
  <2>4. OneWritePumpAtATime'
    BY DEF OneWritePumpAtATime
  <2>5. (LockInv /\ ReadyInv /\ InOrder /\ StartsBound /\ WaiterInv)'
    BY DEF LockInv, ReadyInv, InOrder, StartsBound, One, WaiterInv
  <2> QED
    BY <2>1, <2>2, <2>3, <2>4, <2>5
<1>2. CASE AfterWritePump(t)
  <2> USE <1>2 DEF AfterWritePump, Update
  <2>1. TypeOK'
    OBVIOUS
  <2>2. LockInv'
    BY DEF LockInv
  <2>3. PumpInv'
    BY DEF PumpInv
  <2>4. EndedBeforeNext'
    BY DEF EndedBeforeNext
  <2>5. OneWritePumpAtATime'
    BY DEF OneWritePumpAtATime
  <2>6. ReadyInv'
    BY DEF ReadyInv
  <2>7. InOrder'
    BY DEF InOrder, LockInv
  <2>8. StartsBound'
    BY DEF StartsBound, One
  <2>9. WaiterInv'
    BY DEF WaiterInv
  <2> QED
    BY <2>1, <2>2, <2>3, <2>4, <2>5, <2>6, <2>7, <2>8, <2>9
<1>3. CASE FireReconnect(t)
  <2> USE <1>3 DEF FireReconnect
  <2>1. TypeOK'
    OBVIOUS
  <2>2. PumpInv'
    BY DEF PumpInv
  <2>3. EndedBeforeNext'
    BY DEF EndedBeforeNext
  <2>4. OneWritePumpAtATime'
    BY DEF OneWritePumpAtATime
  <2>5. (LockInv /\ ReadyInv /\ InOrder /\ StartsBound /\ WaiterInv)'
    BY DEF LockInv, ReadyInv, InOrder, StartsBound, One, WaiterInv
  <2> QED
    BY <2>1, <2>2, <2>3, <2>4, <2>5
<1>4. CASE ReadStep(t) \/ MessageArrives(t) \/ ReadRefused(t) \/ ConnectionLost(t)
  <2> USE <1>4 DEF ReadStep, MessageTaken, ReadError, MessageArrives, ReadRefused, ConnectionLost
  <2>1. readPump' \in [Transports -> {"none", "reading", "blocked", "done"}]
    OBVIOUS
  <2>2. connOpen' \subseteq Transports
    OBVIOUS
  <2>3. UNCHANGED <<acVars, pump, closeReq, reconnect, csVars, readVars>>
    OBVIOUS
  <2>4. UNCHANGED <<ctxDone, attached, appVars, cl>>
    OBVIOUS
  <2> HIDE <1>4 DEF ReadStep, MessageTaken, ReadError, MessageArrives, ReadRefused,
             ConnectionLost
  <2>5. TypeOK'
    BY <2>1, <2>2, <2>3, <2>4
  <2>6. (LockInv /\ PumpInv /\ EndedBeforeNext /\ OneWritePumpAtATime)'
    BY <2>3 DEF LockInv, PumpInv, EndedBeforeNext, OneWritePumpAtATime
  <2>7. (ReadyInv /\ InOrder /\ StartsBound /\ WaiterInv)'
    BY <2>3, <2>4 DEF ReadyInv, InOrder, StartsBound, One, WaiterInv
  <2> QED
    BY <2>5, <2>6, <2>7
<1> QED
  BY <1>1, <1>2, <1>3, <1>4 DEF PumpStep

(* listenForConnectivityChange, listenForRead and handleRead preserve it. *)
LEMMA ListenIInv ==
  ASSUME IInv,
         \/ ListenStep \/ ListenForReadStep \/ HandleReadStarts
         \/ \E t \in Transports : HandleReadExits(t)
  PROVE  IInv'
<1> USE MaxTransportsAssumption DEF IInv, TypeOK, Transports, States, acVars, trVars, csVars,
        readVars, appVars
<1>1. CASE UpdateState
  <2> USE <1>1 DEF UpdateState, At
  <2>1. TypeOK'
    OBVIOUS
  <2>2. InOrder'
    BY DEF InOrder
  <2>3. StartsBound'
    BY DEF StartsBound, One
  <2>4. WaiterInv'
    BY DEF WaiterInv
  <2>5. (LockInv /\ PumpInv /\ EndedBeforeNext /\ OneWritePumpAtATime /\ ReadyInv)'
    BY DEF LockInv, PumpInv, EndedBeforeNext, OneWritePumpAtATime, ReadyInv
  <2> QED
    BY <2>1, <2>2, <2>3, <2>4, <2>5
<1>2. CASE ListenForConnectivityChangeExits
  <2> USE <1>2 DEF ListenForConnectivityChangeExits
  <2>1. TypeOK'
    OBVIOUS
  <2>2. InOrder'
    BY DEF InOrder
  <2>3. StartsBound'
    BY DEF StartsBound, One
  <2>4. (LockInv /\ PumpInv /\ EndedBeforeNext /\ OneWritePumpAtATime /\ ReadyInv /\
        WaiterInv)'
    BY DEF LockInv, PumpInv, EndedBeforeNext, OneWritePumpAtATime, ReadyInv, WaiterInv
  <2> QED
    BY <2>1, <2>2, <2>3, <2>4
<1>3. CASE ListenForReadWaits
  <2> USE <1>3 DEF ListenForReadWaits
  <2>1. TypeOK'
    OBVIOUS
  <2>2. StartsBound'
    BY DEF StartsBound, One
  <2>3. WaiterInv'
    BY DEF WaiterInv
  <2>4. (LockInv /\ PumpInv /\ EndedBeforeNext /\ OneWritePumpAtATime /\ ReadyInv /\
        InOrder)'
    BY DEF LockInv, PumpInv, EndedBeforeNext, OneWritePumpAtATime, ReadyInv, InOrder
  <2> QED
    BY <2>1, <2>2, <2>3, <2>4
<1>4. CASE ListenForReadWakes
  <2> USE <1>4 DEF ListenForReadWakes
  <2>1. TypeOK'
    <3>1. starting' \in 0 .. MaxTransports
      BY DEF StartsBound, One
    <3> QED
      BY <3>1
  <2>2. StartsBound'
    BY DEF StartsBound, One
  <2>3. (LockInv /\ PumpInv /\ EndedBeforeNext /\ OneWritePumpAtATime /\ ReadyInv /\ InOrder
        /\ WaiterInv)'
    BY DEF LockInv, PumpInv, EndedBeforeNext, OneWritePumpAtATime, ReadyInv, InOrder,
       WaiterInv
  <2> QED
    BY <2>1, <2>2, <2>3
<1>5. CASE ListenForReadExits
  <2> USE <1>5 DEF ListenForReadExits
  <2>1. TypeOK'
    OBVIOUS
  <2>2. StartsBound'
    BY DEF StartsBound, One
  <2>3. (LockInv /\ PumpInv /\ EndedBeforeNext /\ OneWritePumpAtATime /\ ReadyInv /\ InOrder
        /\ WaiterInv)'
    BY DEF LockInv, PumpInv, EndedBeforeNext, OneWritePumpAtATime, ReadyInv, InOrder,
       WaiterInv
  <2> QED
    BY <2>1, <2>2, <2>3
<1>6. CASE HandleReadStarts
  <2> USE <1>6 DEF HandleReadStarts
  <2>1. TypeOK'
    OBVIOUS
  <2>2. StartsBound'
    BY DEF StartsBound, One
  <2>3. (LockInv /\ PumpInv /\ EndedBeforeNext /\ OneWritePumpAtATime /\ ReadyInv /\ InOrder
        /\ WaiterInv)'
    BY DEF LockInv, PumpInv, EndedBeforeNext, OneWritePumpAtATime, ReadyInv, InOrder,
       WaiterInv
  <2> QED
    BY <2>1, <2>2, <2>3
<1>7. CASE \E t \in Transports : HandleReadExits(t)
  <2> USE <1>7 DEF HandleReadExits
  <2>1. TypeOK'
    OBVIOUS
  <2>2. (LockInv /\ PumpInv /\ EndedBeforeNext /\ OneWritePumpAtATime /\ ReadyInv /\ InOrder
        /\ StartsBound /\ WaiterInv)'
    BY DEF LockInv, PumpInv, EndedBeforeNext, OneWritePumpAtATime, ReadyInv, InOrder,
       StartsBound, One, WaiterInv
  <2> QED
    BY <2>1, <2>2
<1> QED
  BY <1>1, <1>2, <1>3, <1>4, <1>5, <1>6, <1>7 DEF ListenStep, ListenForReadStep

(* Dial, WaitForReady and Close preserve it. *)
LEMMA AppIInv ==
  ASSUME IInv,
         \/ DialStep \/ WaitForReady \/ WaitStep \/ CallerCancels \/ CloseCancels \/ CloseStep
         \/ CloseAgain
  PROVE  IInv'
<1> USE MaxTransportsAssumption DEF IInv, TypeOK, Transports, States, acVars, trVars, csVars,
        readVars, appVars
<1>1. CASE DialStep
  <2> USE <1>1 DEF DialStep, DialGetsState, DialTakesChan, DialCompares, DialGivesUp, DialMoves, At
  <2>1. TypeOK'
    <3>1. /\ dialer' \in [at : {"begin", "got", "check", "stale", "sleep", "returned", "failed"},
                         cur : States]
      OBVIOUS
    <3>2. notifyOpen' \in BOOLEAN
      OBVIOUS
    <3> QED
      BY <3>1, <3>2
  <2>2. WaiterInv'
    BY DEF WaiterInv
  <2>3. (LockInv /\ PumpInv /\ EndedBeforeNext /\ OneWritePumpAtATime /\ ReadyInv /\ InOrder
        /\ StartsBound)'
    BY DEF LockInv, PumpInv, EndedBeforeNext, OneWritePumpAtATime, ReadyInv, InOrder,
       StartsBound, One
  <2> QED
    BY <2>1, <2>2, <2>3
<1>2. CASE WaitForReady \/ WaitStep
  <2> USE <1>2 DEF WaitForReady, WaitStep, WaitForReadyAgain, TakeNotifyChan, WaitForReadyChecks
  <2>1. TypeOK'
    <3>1. waiter' \in {"idle", "check", "stale", "sleep", "again", "true", "false"}
      OBVIOUS
    <3>2. notifyOpen' \in BOOLEAN
      OBVIOUS
    <3> QED
      BY <3>1, <3>2
  <2>2. WaiterInv'
    BY DEF WaiterInv
  <2>3. (LockInv /\ PumpInv /\ EndedBeforeNext /\ OneWritePumpAtATime /\ ReadyInv /\ InOrder
        /\ StartsBound)'
    BY DEF LockInv, PumpInv, EndedBeforeNext, OneWritePumpAtATime, ReadyInv, InOrder,
       StartsBound, One
  <2> QED
    BY <2>1, <2>2, <2>3
<1>3. CASE CallerCancels \/ CloseCancels \/ CloseDetaches \/ CloseAgain
  <2> USE <1>3 DEF CallerCancels, CloseCancels, CloseDetaches, CloseAgain
  <2>1. UNCHANGED <<acVars, trVars, csVars, readVars, appVars>>
    OBVIOUS
  <2>2. /\ ctxDone' \in BOOLEAN /\ attached' \in BOOLEAN
        /\ ctxDone => ctxDone'
    OBVIOUS
  <2>3. cl' \in {"idle", "cancelled", "detached", "shutdown", "closing", "waiting", "done",
                 "panicked"}
    OBVIOUS
  <2> HIDE <1>3
  <2>4. TypeOK'
    BY <2>1, <2>2, <2>3
  <2>5. InOrder'
    BY <2>1, <2>2 DEF InOrder
  <2>6. (LockInv /\ PumpInv /\ EndedBeforeNext /\ OneWritePumpAtATime)'
    BY <2>1 DEF LockInv, PumpInv, EndedBeforeNext, OneWritePumpAtATime
  <2>7. (ReadyInv /\ StartsBound /\ WaiterInv)'
    BY <2>1 DEF ReadyInv, StartsBound, One, WaiterInv
  <2> QED
    BY <2>4, <2>5, <2>6, <2>7
<1>4. CASE Teardown
  <2> USE <1>4 DEF Teardown, Update
  <2>1. TypeOK'
    OBVIOUS
  <2>2. LockInv'
    BY DEF LockInv
  <2>3. ReadyInv'
    BY DEF ReadyInv
  <2>4. InOrder'
    BY DEF InOrder, LockInv
  <2>5. StartsBound'
    BY DEF StartsBound, One
  <2>6. (PumpInv /\ EndedBeforeNext /\ OneWritePumpAtATime /\ WaiterInv)'
    BY DEF PumpInv, EndedBeforeNext, OneWritePumpAtATime, WaiterInv
  <2> QED
    BY <2>1, <2>2, <2>3, <2>4, <2>5, <2>6
<1>5. CASE TransportClosed \/ AddrConnStopped \/ CloseReturns
  <2>1. /\ UNCHANGED <<ctxDone, attached, acVars, trVars, csVars, readVars, appVars>>
        /\ cl' \in {"closing", "waiting", "done"}
    BY <1>5 DEF TransportClosed, AddrConnStopped, CloseReturns
  <2>2. TypeOK'
    BY <2>1
  <2>3. (LockInv /\ PumpInv /\ EndedBeforeNext /\ OneWritePumpAtATime)'
    BY <2>1 DEF LockInv, PumpInv, EndedBeforeNext, OneWritePumpAtATime
  <2>4. (ReadyInv /\ InOrder /\ StartsBound /\ WaiterInv)'
    BY <2>1 DEF ReadyInv, InOrder, StartsBound, One, WaiterInv
  <2> QED
    BY <2>2, <2>3, <2>4
<1> QED
  BY <1>1, <1>2, <1>3, <1>4, <1>5 DEF CloseStep

(* Every step preserves it. *)
LEMMA StepIInv == IInv /\ [Next]_vars => IInv'
<1>1. ASSUME IInv, UNCHANGED vars
      PROVE  IInv'
  BY <1>1 DEF IInv, TypeOK, LockInv, PumpInv, EndedBeforeNext, OneWritePumpAtATime, ReadyInv,
     InOrder, StartsBound, WaiterInv, vars, acVars, trVars, csVars, readVars, appVars
<1> QED
  BY <1>1, ResetIInv, SendIInv, PumpIInv, ListenIInv, AppIInv DEF Next

(* IInv holds in every reachable state. *)
LEMMA Invariant == Spec => []IInv
BY InitIInv, StepIInv, PTL DEF Spec

-----------------------------------------------------------------------------
(* Every variable keeps its type, for any number of dials; among other things
   no more handleRead goroutines are started than there were transports. *)
THEOREM TypeCorrect == Spec => []TypeOK
<1>1. IInv => TypeOK
  BY DEF IInv
<1> QED
  BY <1>1, Invariant, PTL

(* Only the last transport may have a writePump, or its callback to come. *)
THEOREM WritePumpsDoNotOverlap == Spec => []OneWritePumpAtATime
<1>1. IInv => OneWritePumpAtATime
  BY DEF IInv
<1> QED
  BY <1>1, Invariant, PTL

(* csMgr shows addrConn's state whenever no change is on its way. *)
THEOREM ManagerAgrees == Spec => []StatesAgree
<1>1. IInv => StatesAgree
  BY DEF IInv, InOrder, StatesAgree
<1> QED
  BY <1>1, Invariant, PTL

(* As long as the context lives, WaitForReady does not sleep through the
   change it waits for: it is in csMgr's hands or on its way there. *)
THEOREM NoMissedWakeup == Spec => []SleeperWillBeTold
<1>1. IInv => SleeperWillBeTold
  BY DEF IInv, TypeOK, LockInv, InOrder, WaiterInv, SleeperWillBeTold, States
<1> QED
  BY <1>1, Invariant, PTL

(* Close waits for listenForConnectivityChange, which never comes back. *)
ListenerGone == cl = "done" => lcc = "exit"

(* Every step preserves this, and none wakes a WaitForReady then. *)
LEMMA StepListenerGone ==
  ListenerGone /\ [Next]_vars =>
     ListenerGone' /\ [cl = "done" /\ waiter = "sleep" => waiter' = "sleep"]_vars
<1> SUFFICES ASSUME ListenerGone, [Next]_vars
             PROVE  ListenerGone' /\ (cl = "done" /\ waiter = "sleep" => waiter' = "sleep")
  OBVIOUS
<1> USE DEF ListenerGone, acVars, trVars, csVars, readVars, appVars
<1>1. CASE UNCHANGED vars
  BY <1>1 DEF vars
<1>2. CASE ResetStep \/ SendStep
  BY <1>2 DEF ResetStep, Connect, ResetTransportReturns, ResetTransport, DialSucceeds, DialFails,
     EnterTransientFailure, BackoffExpires, InstallTransport, AbandonTransport, Reconnect,
     ResetTransportCancelled, SendStep, StateReceived, StateNotSent, Update
<1>3. CASE ListenStep
  BY <1>3 DEF ListenStep, UpdateState, ListenForConnectivityChangeExits, States
<1>4. CASE ListenForReadStep \/ HandleReadStarts
  BY <1>4 DEF ListenForReadStep, ListenForReadWaits, ListenForReadWakes, ListenForReadExits,
     HandleReadStarts
<1>5. ASSUME NEW t \in Transports,
             \/ PumpStep(t) \/ ReadStep(t) \/ HandleReadExits(t)
             \/ MessageArrives(t) \/ ReadRefused(t) \/ ConnectionLost(t)
      PROVE  UNCHANGED <<cl, lcc, waiter>>
  BY <1>5 DEF PumpStep, WritePumpLeaves, AfterWritePump, FireReconnect, ReadStep, MessageTaken,
     ReadError, HandleReadExits, MessageArrives, ReadRefused, ConnectionLost, Update
<1>6. CASE DialStep \/ WaitForReady \/ WaitStep
  BY <1>6 DEF DialStep, DialGetsState, DialTakesChan, DialCompares, DialGivesUp, DialMoves,
     WaitForReady, WaitStep, WaitForReadyAgain, TakeNotifyChan, WaitForReadyChecks
<1>7. CASE CallerCancels \/ CloseCancels \/ CloseStep \/ CloseAgain
  BY <1>7 DEF CallerCancels, CloseCancels, CloseStep, CloseDetaches, Teardown, TransportClosed,
     AddrConnStopped, CloseReturns, CloseAgain, Update
<1> QED
  BY <1>1, <1>2, <1>3, <1>4, <1>5, <1>6, <1>7 DEF Next

(* A WaitForReady that sleeps when Close has returned is never woken. *)
THEOREM NobodyTellsOfShutdown == Spec => ClosedWaiterSleepsOn
<1>1. Init => ListenerGone
  BY DEF Init, ListenerGone
<1> QED
  BY <1>1, StepListenerGone, PTL DEF Spec, ClosedWaiterSleepsOn

(* The end of an older transport never makes a Ready addrConn Idle. *)
THEOREM OldTransportsAreHarmless == Spec => OnlyOwnTransportDemotes
<1>1. IInv /\ [Next]_vars =>
        [acState = "Ready" /\ acState' = "Idle" => acTr # 0 /\ pump[acTr] = "left"]_vars
  <2> SUFFICES ASSUME IInv, Next, acState = "Ready", acState' = "Idle"
               PROVE  acTr # 0 /\ pump[acTr] = "left"
    OBVIOUS
  <2> USE DEF IInv, TypeOK, Transports, acVars, trVars, csVars, readVars, appVars
  (* A pump that has left its loop is that of the last transport. *)
  <2>1. ASSUME NEW t \in Transports, AfterWritePump(t)
        PROVE  acTr # 0 /\ pump[acTr] = "left"
    <3>1. pump[t] = "left" /\ t = created
      BY <2>1, MaxTransportsAssumption DEF AfterWritePump, PumpInv, OneWritePumpAtATime
    <3> QED
      BY <3>1 DEF ReadyInv
  <2>2. ASSUME NEW t \in Transports,
               \/ WritePumpLeaves(t) \/ FireReconnect(t) \/ ReadStep(t) \/ MessageArrives(t)
               \/ ReadRefused(t) \/ ConnectionLost(t) \/ HandleReadExits(t)
        PROVE  FALSE
    BY <2>2 DEF WritePumpLeaves, FireReconnect, ReadStep, MessageTaken, ReadError, MessageArrives,
       ReadRefused, ConnectionLost, HandleReadExits
  <2>3. ~ResetStep
    BY DEF ResetStep, Connect, ResetTransportReturns, ResetTransport, DialSucceeds, DialFails,
       EnterTransientFailure, BackoffExpires, InstallTransport, AbandonTransport, Reconnect,
       ResetTransportCancelled, Update
  <2>4. ~(SendStep \/ ListenStep \/ ListenForReadStep \/ HandleReadStarts)
    BY DEF SendStep, StateReceived, StateNotSent, ListenStep, UpdateState,
       ListenForConnectivityChangeExits, ListenForReadStep, ListenForReadWaits,
       ListenForReadWakes, ListenForReadExits, HandleReadStarts
  <2>5. ~(DialStep \/ WaitForReady \/ WaitStep)
    BY DEF DialStep, DialGetsState, DialTakesChan, DialCompares, DialGivesUp, DialMoves,
       WaitForReady, WaitStep, WaitForReadyAgain, TakeNotifyChan, WaitForReadyChecks
  <2>6. ~(CallerCancels \/ CloseCancels \/ CloseStep \/ CloseAgain)
    BY DEF CallerCancels, CloseCancels, CloseStep, CloseDetaches, Teardown, TransportClosed,
       AddrConnStopped, CloseReturns, CloseAgain, Update
  <2> QED
    BY <2>1, <2>2, <2>3, <2>4, <2>5, <2>6 DEF Next, PumpStep
<1> QED
  BY <1>1, Invariant, PTL DEF Spec, OnlyOwnTransportDemotes
=============================================================================
