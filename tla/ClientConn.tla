----------------------------- MODULE ClientConn -----------------------------
(***************************************************************************)
(* The connection of a ClientConn (client.go, websocket_client.go): the    *)
(* addrConn that dials, backs off and redials (resetTransport); the        *)
(* transports it creates, each with its two pumps; the way a change of     *)
(* addrConn's state travels over stateCh to connectivityStateManager and   *)
(* from there to listenForRead and to WaitForReady; and Close.             *)
(*                                                                         *)
(* ac.mu is held over blocking operations (the dial, the send on stateCh), *)
(* so acMu names its holder.  cc.mu and csMgr.mu guard steps that are      *)
(* atomic here.                                                            *)
(***************************************************************************)
EXTENDS Naturals

CONSTANTS MaxTransports,  \* how many dials succeed
          Block,          \* whether Dial is called with WithBlock: a set of answers
          Waits           \* whether the application calls WaitForReady

ASSUME BlockAssumption == Block \subseteq BOOLEAN /\ Waits \in BOOLEAN
ASSUME MaxTransportsAssumption == MaxTransports \in Nat

VARIABLES
  ctxDone,    \* cc.ctx is done: Close was called or the caller's context ended
  attached,   \* cc.addrConn # nil
  acMu,       \* who holds ac.mu: "dial", "pump" (an afterWritePump), "close", or "free"
  acState,    \* ac.state
  acTr,       \* ac.transport, 0 for nil
  sending,    \* the state that the holder of ac.mu is sending on stateCh, or "none"
  rt,         \* where connect and resetTransport are
  created,    \* how many transports have been created: the last one is number created
  pump,       \* pump[t]: where the writePump of transport t is
  readPump,   \* readPump[t]: where its readPump is
  connOpen,   \* the transports whose websocket connection neither broke nor was closed
  closeReq,   \* the transports on which Close has been called
  reconnect,  \* the transports whose reconnect event has fired
  lcc,        \* listenForConnectivityChange: "select", the state it applies, "exit"
  csState,    \* csMgr.state
  notifyOpen, \* csMgr.notifyChan is an open channel rather than nil
  lfr,        \* where listenForRead is
  starting,   \* handleRead goroutines that have not found their transport yet
  readers,    \* the transports that a handleRead goroutine reads
  dialer,     \* dialer.at: where a blocking Dial is, dialer.cur: its curState
  waiter,     \* where an application's WaitForReady is
  cl          \* where Close is

acVars == <<acMu, acState, acTr, sending, rt, created>>
trVars == <<pump, readPump, connOpen, closeReq, reconnect>>
csVars == <<lcc, csState, notifyOpen>>
readVars == <<lfr, starting, readers>>
appVars == <<dialer, waiter>>
vars == <<ctxDone, attached, acVars, trVars, csVars, readVars, appVars, cl>>

Transports == 1 .. MaxTransports
States == {"Idle", "Connecting", "Ready", "TransientFailure", "Shutdown"}

(* The type of every variable. *)
TypeOK ==
  /\ ctxDone \in BOOLEAN /\ attached \in BOOLEAN
  /\ acMu \in {"free", "dial", "pump", "close"}
  /\ acState \in States
  /\ acTr \in 0 .. MaxTransports
  /\ sending \in States \cup {"none"}
  /\ rt \in {"connect", "top", "dial", "install", "up", "failed", "backoff",
             "exit", "abandoned"}
  /\ created \in 0 .. MaxTransports
  /\ pump \in [Transports -> {"none", "running", "left", "updating", "updated", "done"}]
  /\ readPump \in [Transports -> {"none", "reading", "blocked", "done"}]
  /\ connOpen \subseteq Transports
  /\ closeReq \subseteq Transports
  /\ reconnect \subseteq Transports
  /\ lcc \in States \cup {"select", "exit"}
  /\ csState \in States
  /\ notifyOpen \in BOOLEAN
  /\ lfr \in {"get", "wait", "woken", "exit"}
  /\ starting \in 0 .. MaxTransports
  /\ readers \subseteq Transports
  /\ dialer \in [at : {"begin", "got", "check", "stale", "sleep", "returned", "failed"},
                  cur : States]
  /\ waiter \in {"idle", "check", "stale", "sleep", "again", "true", "false"}
  /\ cl \in {"idle", "cancelled", "detached", "shutdown", "closing", "waiting", "done", "panicked"}

At(label) == [at |-> label, cur |-> "Idle"]

Init ==
  /\ \E block \in Block : dialer = At(IF block THEN "begin" ELSE "returned")
  /\ ctxDone = FALSE /\ attached = TRUE
  /\ acMu = "free" /\ acState = "Idle" /\ acTr = 0 /\ sending = "none"
  /\ rt = "connect" /\ created = 0
  /\ pump = [t \in Transports |-> "none"]
  /\ readPump = [t \in Transports |-> "none"]
  /\ connOpen = {} /\ closeReq = {} /\ reconnect = {}
  /\ lcc = "select" /\ csState = "Idle" /\ notifyOpen = TRUE
  /\ lfr = "get" /\ starting = 0 /\ readers = {}
  /\ waiter = "idle" /\ cl = "idle"

-----------------------------------------------------------------------------
(* updateConnectivityState: with ac.mu held, set the state and, if that is a
   change, send it on stateCh.  Without a change ac.mu is given on as next. *)
Update(holder, s, next) ==
  /\ acState' = s
  /\ IF acState = s THEN acMu' = next /\ sending' = "none"
                    ELSE acMu' = holder /\ sending' = s

(* What becomes of ac.mu after the send: resetTransport keeps it to dial. *)
MuAfterSend == IF acMu = "dial" /\ rt = "dial" THEN "dial" ELSE "free"

(* afterWritePump goes on once its send has ended. *)
PumpAfterSend ==
  [t \in Transports |-> IF acMu = "pump" /\ pump[t] = "updating" THEN "updated" ELSE pump[t]]

(* listenForConnectivityChange takes the state from stateCh. *)
StateReceived ==
  /\ sending # "none"
  /\ lcc = "select"
  /\ lcc' = sending
  /\ sending' = "none"
  /\ acMu' = MuAfterSend
  /\ pump' = PumpAfterSend
  /\ UNCHANGED <<ctxDone, attached, acState, acTr, rt, created, readPump, connOpen, closeReq,
                 reconnect, csState, notifyOpen, readVars, appVars, cl>>

(* Variant: the send is given up whenever nobody is receiving. *)
StateLost ==
  /\ sending # "none"
  /\ ctxDone \/ lcc # "select"
  /\ sending' = "none"
  /\ acMu' = MuAfterSend
  /\ pump' = PumpAfterSend
  /\ UNCHANGED <<ctxDone, attached, acState, acTr, rt, created, readPump, connOpen, closeReq,
                 reconnect, csVars, readVars, appVars, cl>>

(* Variant: the send does not watch the context. *)
StateSentOrStuck == FALSE /\ UNCHANGED vars

(* The context is done: the send is given up. *)
StateNotSent ==
  /\ sending # "none"
  /\ ctxDone
  /\ sending' = "none"
  /\ acMu' = MuAfterSend
  /\ pump' = PumpAfterSend
  /\ UNCHANGED <<ctxDone, attached, acState, acTr, rt, created, readPump, connOpen, closeReq,
                 reconnect, csVars, readVars, appVars, cl>>

-----------------------------------------------------------------------------
(* connect and resetTransport *)

(* addrConn.connect, called by Dial. *)
Connect ==
  /\ rt = "connect"
  /\ acMu = "free"
  /\ Update("dial", "Connecting", "free")
  /\ rt' = "top"
  /\ UNCHANGED <<ctxDone, attached, acTr, created, trVars, csVars, readVars, appVars, cl>>

(* resetTransport finds addrConn shut down and returns. *)
ResetTransportReturns ==
  /\ rt \in {"top", "failed"}
  /\ acMu = "free"
  /\ acState = "Shutdown"
  /\ rt' = "exit"
  /\ UNCHANGED <<ctxDone, attached, acMu, acState, acTr, sending, created, trVars, csVars,
                 readVars, appVars, cl>>

ResetTransport ==
  /\ rt = "top"
  /\ acMu = "free"
  /\ acState # "Shutdown"
  /\ acTr' = 0
  /\ Update("dial", "Connecting", "dial")
  /\ rt' = "dial"
  /\ UNCHANGED <<ctxDone, attached, created, trVars, csVars, readVars, appVars, cl>>

(* createTransport succeeds and starts the pumps, before addrConn has the
   new transport. *)
DialSucceeds ==
  /\ rt = "dial" /\ acMu = "dial" /\ sending = "none"
  /\ created < MaxTransports
  /\ created' = created + 1
  /\ pump' = [pump EXCEPT ![created'] = "running"]
  /\ readPump' = [readPump EXCEPT ![created'] = "reading"]
  /\ connOpen' = connOpen \cup {created'}
  /\ acMu' = "free"
  /\ rt' = "install"
  /\ UNCHANGED <<ctxDone, attached, acState, acTr, sending, closeReq, reconnect, csVars,
                 readVars, appVars, cl>>

DialFails ==
  /\ rt = "dial" /\ acMu = "dial" /\ sending = "none"
  /\ acMu' = "free"
  /\ rt' = "failed"
  /\ UNCHANGED <<ctxDone, attached, acState, acTr, sending, created, trVars, csVars,
                 readVars, appVars, cl>>

EnterTransientFailure ==
  /\ rt = "failed"
  /\ acMu = "free"
  /\ acState # "Shutdown"
  /\ Update("dial", "TransientFailure", "free")
  /\ rt' = "backoff"
  /\ UNCHANGED <<ctxDone, attached, acTr, created, trVars, csVars, readVars, appVars, cl>>

BackoffExpires ==
  /\ rt = "backoff"
  /\ acMu # "dial"
  /\ rt' = "top"
  /\ UNCHANGED <<ctxDone, attached, acMu, acState, acTr, sending, created, trVars, csVars,
                 readVars, appVars, cl>>

InstallTransport ==
  /\ rt = "install"
  /\ acMu = "free"
  /\ acState # "Shutdown"
  /\ acTr' = created
  /\ Update("dial", "Ready", "free")
  /\ rt' = "up"
  /\ UNCHANGED <<ctxDone, attached, created, trVars, csVars, readVars, appVars, cl>>

(* Close was faster: resetTransport returns, and the transport it has just
   created is neither installed nor closed. *)
AbandonTransport ==
  /\ rt = "install"
  /\ acMu = "free"
  /\ acState = "Shutdown"
  /\ rt' = "abandoned"
  /\ UNCHANGED <<ctxDone, attached, acMu, acState, acTr, sending, created, trVars, csVars,
                 readVars, appVars, cl>>

(* The transport is down: start again from the top. *)
Reconnect ==
  /\ rt = "up"
  /\ acMu # "dial"
  /\ created \in reconnect
  /\ rt' = "top"
  /\ UNCHANGED <<ctxDone, attached, acMu, acState, acTr, sending, created, trVars, csVars,
                 readVars, appVars, cl>>

(* The context is done while resetTransport backs off or waits for the
   transport to go down. *)
ResetTransportCancelled ==
  /\ rt \in {"backoff", "up"}
  /\ acMu # "dial"
  /\ ctxDone
  /\ rt' = "exit"
  /\ UNCHANGED <<ctxDone, attached, acMu, acState, acTr, sending, created, trVars, csVars,
                 readVars, appVars, cl>>

-----------------------------------------------------------------------------
(* The pumps of a transport *)

MessageArrives(t) ==
  /\ readPump[t] = "reading"
  /\ t \in connOpen
  /\ readPump' = [readPump EXCEPT ![t] = "blocked"]
  /\ UNCHANGED <<ctxDone, attached, acVars, pump, connOpen, closeReq, reconnect, csVars,
                 readVars, appVars, cl>>

(* A handleRead goroutine takes the message from the read channel. *)
MessageTaken(t) ==
  /\ readPump[t] = "blocked"
  /\ t \in readers
  /\ readPump' = [readPump EXCEPT ![t] = "reading"]
  /\ UNCHANGED <<ctxDone, attached, acVars, pump, connOpen, closeReq, reconnect, csVars,
                 readVars, appVars, cl>>

(* ReadMessage fails: the connection is closed, or nobody pings any more and
   the read deadline, which only pongs extend, passes. *)
ReadError(t) ==
  /\ readPump[t] = "reading"
  /\ t \notin connOpen \/ pump[t] # "running"
  /\ readPump' = [readPump EXCEPT ![t] = "done"]
  /\ UNCHANGED <<ctxDone, attached, acVars, pump, connOpen, closeReq, reconnect, csVars,
                 readVars, appVars, cl>>

(* ReadMessage fails on an open connection: the peer's pong is overdue, or a
   message exceeds the read limit. *)
ReadRefused(t) ==
  /\ readPump[t] = "reading"
  /\ t \in connOpen /\ pump[t] = "running"
  /\ readPump' = [readPump EXCEPT ![t] = "done"]
  /\ UNCHANGED <<ctxDone, attached, acVars, pump, connOpen, closeReq, reconnect, csVars,
                 readVars, appVars, cl>>

(* The connection breaks. *)
ConnectionLost(t) ==
  /\ t \in connOpen
  /\ connOpen' = connOpen \ {t}
  /\ UNCHANGED <<ctxDone, attached, acVars, pump, readPump, closeReq, reconnect, csVars,
                 readVars, appVars, cl>>

(* Why writePump leaves its loop: a write or a ping fails, readPump has ended,
   or Close was called.  Only after a successful close message does it close
   a connection that is still open. *)
WritePumpEnds(t) ==
  \/ (t \notin connOpen \/ readPump[t] = "done") /\ UNCHANGED connOpen
  \/ t \in closeReq /\ connOpen' \in {connOpen, connOpen \ {t}}

(* Variant: the reconnect event fires before the state is updated. *)
WritePumpFiresFirst(t) ==
  /\ pump[t] = "running"
  /\ WritePumpEnds(t)
  /\ pump' = [pump EXCEPT ![t] = "left"]
  /\ reconnect' = reconnect \cup {t}
  /\ UNCHANGED <<ctxDone, attached, acVars, readPump, closeReq, csVars, readVars, appVars, cl>>

WritePumpLeaves(t) ==
  /\ pump[t] = "running"
  /\ WritePumpEnds(t)
  /\ pump' = [pump EXCEPT ![t] = "left"]
  /\ UNCHANGED <<ctxDone, attached, acVars, readPump, closeReq, reconnect, csVars,
                 readVars, appVars, cl>>

(* afterWritePump takes ac.mu; a Ready addrConn becomes Idle. *)
AfterWritePump(t) ==
  /\ pump[t] = "left"
  /\ acMu = "free"
  /\ IF acState = "Ready"
     THEN /\ Update("pump", "Idle", "free")
          /\ pump' = [pump EXCEPT ![t] = "updating"]
     ELSE /\ pump' = [pump EXCEPT ![t] = "updated"]
          /\ UNCHANGED <<acMu, acState, sending>>
  /\ UNCHANGED <<ctxDone, attached, acTr, rt, created, readPump, connOpen, closeReq, reconnect,
                 csVars, readVars, appVars, cl>>

(* Variant: the event fires only for the transport that addrConn still has. *)
FireReconnectIfCurrent(t) ==
  /\ pump[t] = "updated"
  /\ pump' = [pump EXCEPT ![t] = "done"]
  /\ reconnect' = IF acTr = t THEN reconnect \cup {t} ELSE reconnect
  /\ UNCHANGED <<ctxDone, attached, acVars, readPump, connOpen, closeReq, csVars, readVars,
                 appVars, cl>>

FireReconnect(t) ==
  /\ pump[t] = "updated"
  /\ pump' = [pump EXCEPT ![t] = "done"]
  /\ reconnect' = reconnect \cup {t}
  /\ UNCHANGED <<ctxDone, attached, acVars, readPump, connOpen, closeReq, csVars, readVars,
                 appVars, cl>>

-----------------------------------------------------------------------------
(* connectivityStateManager and listenForConnectivityChange *)

(* updateState: a change closes notifyChan, if there is one, which wakes
   whoever holds it. *)
UpdateState ==
  /\ lcc \in States
  /\ lcc' = "select"
  /\ csState' = lcc
  /\ notifyOpen' = (notifyOpen /\ csState = lcc)
  /\ IF csState = lcc
     THEN UNCHANGED <<lfr, appVars>>
     ELSE /\ dialer' = CASE dialer.at = "sleep" -> At("begin")
                         [] dialer.at = "check" -> [dialer EXCEPT !.at = "stale"]
                         [] OTHER -> dialer
          /\ lfr' = IF lfr = "wait" THEN "woken" ELSE lfr
          /\ waiter' = CASE waiter = "sleep" -> "again"
                         [] waiter = "check" -> "stale"
                         [] OTHER -> waiter
  /\ UNCHANGED <<ctxDone, attached, acVars, trVars, starting, readers, cl>>

ListenForConnectivityChangeExits ==
  /\ lcc = "select"
  /\ ctxDone
  /\ lcc' = "exit"
  /\ UNCHANGED <<ctxDone, attached, acVars, trVars, csState, notifyOpen, readVars, appVars, cl>>

-----------------------------------------------------------------------------
(* listenForRead and handleRead *)

(* getNotifyChan, then wait on the channel. *)
ListenForReadWaits ==
  /\ lfr = "get"
  /\ lfr' = "wait"
  /\ notifyOpen' = TRUE
  /\ UNCHANGED <<ctxDone, attached, acVars, trVars, lcc, csState, starting, readers, appVars, cl>>

(* Variant: the read handler is enabled when the state is not Ready. *)
ListenForReadInverted ==
  /\ lfr = "woken"
  /\ lfr' = "get"
  /\ starting' = IF csState = "Ready" THEN starting ELSE starting + 1
  /\ UNCHANGED <<ctxDone, attached, acVars, trVars, csVars, readers, appVars, cl>>

(* The channel was closed: if the state is Ready by now, start handleRead. *)
ListenForReadWakes ==
  /\ lfr = "woken"
  /\ lfr' = "get"
  /\ starting' = IF csState = "Ready" THEN starting + 1 ELSE starting
  /\ UNCHANGED <<ctxDone, attached, acVars, trVars, csVars, readers, appVars, cl>>

ListenForReadExits ==
  /\ lfr = "wait"
  /\ ctxDone
  /\ lfr' = "exit"
  /\ UNCHANGED <<ctxDone, attached, acVars, trVars, csVars, starting, readers, appVars, cl>>

(* handleRead takes the transport that addrConn has now, if there is one. *)
HandleReadStarts ==
  /\ starting > 0
  /\ ~attached \/ acMu = "free"
  /\ starting' = starting - 1
  /\ readers' = IF attached /\ acTr # 0 THEN readers \cup {acTr} ELSE readers
  /\ UNCHANGED <<ctxDone, attached, acVars, trVars, csVars, lfr, appVars, cl>>

HandleReadExits(t) ==
  /\ t \in readers
  /\ ctxDone
  /\ readers' = readers \ {t}
  /\ UNCHANGED <<ctxDone, attached, acVars, trVars, csVars, lfr, starting, appVars, cl>>

-----------------------------------------------------------------------------
(* Dial with WithBlock, and WaitForStateChange, which it calls with the
   context of the connection *)

(* addrConn.connect has returned. *)
Connected == rt # "connect" /\ ~(rt = "top" /\ acMu = "dial")

DialMoves(to) ==
  /\ dialer' = to
  /\ UNCHANGED <<ctxDone, attached, acVars, trVars, lcc, csState, readVars, waiter, cl>>

DialGetsState ==
  /\ dialer.at = "begin"
  /\ Connected
  /\ DialMoves(IF csState = "Ready" THEN At("returned") ELSE [at |-> "got", cur |-> csState])
  /\ UNCHANGED notifyOpen

DialTakesChan ==
  /\ dialer.at = "got"
  /\ DialMoves([dialer EXCEPT !.at = "check"])
  /\ notifyOpen' = TRUE

(* Variant: the second look at the state is left out. *)
DialSleepsUnchecked ==
  /\ dialer.at \in {"check", "stale"}
  /\ DialMoves(At("sleep"))
  /\ UNCHANGED notifyOpen

(* The state has changed, or the channel is closed: look again. *)
DialCompares ==
  /\ dialer.at \in {"check", "stale"}
  /\ DialMoves(At(IF dialer.at = "check" /\ csState = dialer.cur THEN "sleep" ELSE "begin"))
  /\ UNCHANGED notifyOpen

(* The context is done: Dial returns an error, and nobody can call Close. *)
DialGivesUp ==
  /\ dialer.at = "sleep" \/ (dialer.at = "stale" /\ csState = dialer.cur)
  /\ ctxDone
  /\ DialMoves(At("failed"))
  /\ UNCHANGED notifyOpen

-----------------------------------------------------------------------------
(* WaitForReady, called by the application with a context that does not end. *)

(* Dial has returned a ClientConn. *)
Dialled == Connected /\ dialer.at = "returned"

TakeNotifyChan ==
  /\ waiter' = "check"
  /\ notifyOpen' = TRUE
  /\ UNCHANGED <<ctxDone, attached, acVars, trVars, lcc, csState, readVars, dialer, cl>>

WaitForReady ==
  /\ Waits
  /\ waiter = "idle"
  /\ Dialled
  /\ TakeNotifyChan

(* It has been woken, and calls itself. *)
WaitForReadyAgain == waiter = "again" /\ TakeNotifyChan

(* Variant: the waiter checks the state and forgets about its channel. *)
WaitForReadyForgetsChan ==
  /\ waiter \in {"check", "stale"}
  /\ waiter' = CASE csState = "Ready" -> "true"
                 [] csState = "Shutdown" -> "false"
                 [] OTHER -> "sleep"
  /\ UNCHANGED <<ctxDone, attached, acVars, trVars, csVars, readVars, dialer, cl>>

(* getState, with the channel in hand: open ("check") or closed ("stale"). *)
WaitForReadyChecks ==
  /\ waiter \in {"check", "stale"}
  /\ waiter' = CASE csState = "Ready" -> "true"
                 [] csState = "Shutdown" -> "false"
                 [] OTHER -> IF waiter = "check" THEN "sleep" ELSE "again"
  /\ UNCHANGED <<ctxDone, attached, acVars, trVars, csVars, readVars, dialer, cl>>

-----------------------------------------------------------------------------
(* The end: the caller's context, or Close. *)

CallerCancels ==
  /\ ~ctxDone
  /\ ctxDone' = TRUE
  /\ UNCHANGED <<attached, acVars, trVars, csVars, readVars, appVars, cl>>

CloseCancels ==
  /\ cl = "idle"
  /\ Dialled
  /\ cl' = "cancelled"
  /\ ctxDone' = TRUE
  /\ UNCHANGED <<attached, acVars, trVars, csVars, readVars, appVars>>

CloseDetaches ==
  /\ cl = "cancelled"
  /\ cl' = "detached"
  /\ attached' = FALSE
  /\ UNCHANGED <<ctxDone, acVars, trVars, csVars, readVars, appVars>>

(* teardown: addrConn gives up its transport and becomes Shutdown. *)
Teardown ==
  /\ cl = "detached"
  /\ acMu = "free"
  /\ Update("close", "Shutdown", "free")
  /\ acTr' = 0
  /\ closeReq' = IF acTr = 0 THEN closeReq ELSE closeReq \cup {acTr}
  /\ cl' = "shutdown"
  /\ UNCHANGED <<ctxDone, attached, rt, created, pump, readPump, connOpen, reconnect, csVars,
                 readVars, appVars>>

(* curTr.Close() waits for both pumps of the transport. *)
TransportClosed ==
  /\ cl = "shutdown"
  /\ acMu # "close"
  /\ \A t \in closeReq : pump[t] = "done" /\ readPump[t] = "done"
  /\ cl' = "closing"
  /\ UNCHANGED <<ctxDone, attached, acVars, trVars, csVars, readVars, appVars>>

(* ac.wg.Wait() *)
AddrConnStopped ==
  /\ cl = "closing"
  /\ rt \in {"exit", "abandoned"}
  /\ cl' = "waiting"
  /\ UNCHANGED <<ctxDone, attached, acVars, trVars, csVars, readVars, appVars>>

(* Variant: Close does not wait for the goroutines of the ClientConn. *)
CloseReturnsEarly ==
  /\ cl = "waiting"
  /\ cl' = "done"
  /\ UNCHANGED <<ctxDone, attached, acVars, trVars, csVars, readVars, appVars>>

(* cc.wg.Wait() *)
CloseReturns ==
  /\ cl = "waiting"
  /\ lcc = "exit" /\ lfr = "exit" /\ starting = 0 /\ readers = {}
  /\ cl' = "done"
  /\ UNCHANGED <<ctxDone, attached, acVars, trVars, csVars, readVars, appVars>>

(* Another Close finds cc.addrConn nil, and the process panics. *)
CloseAgain ==
  /\ ~attached
  /\ cl' = "panicked"
  /\ UNCHANGED <<ctxDone, attached, acVars, trVars, csVars, readVars, appVars>>

-----------------------------------------------------------------------------
ResetStep == \/ Connect \/ ResetTransportReturns \/ ResetTransport
             \/ DialSucceeds \/ DialFails \/ EnterTransientFailure \/ BackoffExpires
             \/ InstallTransport \/ AbandonTransport \/ Reconnect \/ ResetTransportCancelled
SendStep == StateReceived \/ StateNotSent
PumpStep(t) == WritePumpLeaves(t) \/ AfterWritePump(t) \/ FireReconnect(t)
ReadStep(t) == MessageTaken(t) \/ ReadError(t)
DialStep == DialGetsState \/ DialTakesChan \/ DialCompares \/ DialGivesUp
WaitStep == WaitForReadyAgain \/ WaitForReadyChecks
ListenStep == UpdateState \/ ListenForConnectivityChangeExits
ListenForReadStep == ListenForReadWaits \/ ListenForReadWakes \/ ListenForReadExits
CloseStep == CloseDetaches \/ Teardown \/ TransportClosed \/ AddrConnStopped \/ CloseReturns

Runs == cl # "panicked"

Next ==
  /\ Runs
  /\ \/ ResetStep \/ SendStep \/ ListenStep \/ ListenForReadStep \/ HandleReadStarts
     \/ \E t \in Transports : \/ PumpStep(t) \/ ReadStep(t) \/ HandleReadExits(t)
                              \/ MessageArrives(t) \/ ReadRefused(t) \/ ConnectionLost(t)
     \/ DialStep \/ WaitForReady \/ WaitStep
     \/ CallerCancels \/ CloseCancels \/ CloseStep \/ CloseAgain

Spec == Init /\ [][Next]_vars

(* Every goroutine goes on when it can: the dial ends (its handshake has a
   timeout), the backoff timer fires, a ping on a broken connection fails.
   One step needs more: a timer of the backoff may fire at the moment the
   context ends, but not each time, as the select then finds the context done
   long before the timer fires. *)
Fairness ==
  /\ WF_vars(Runs /\ ResetStep) /\ SF_vars(Runs /\ ResetTransportCancelled)
  /\ WF_vars(Runs /\ SendStep)
  /\ WF_vars(Runs /\ ListenStep)
  /\ WF_vars(Runs /\ ListenForReadStep)
  /\ WF_vars(Runs /\ HandleReadStarts)
  /\ \A t \in Transports : /\ WF_vars(Runs /\ PumpStep(t))
                           /\ WF_vars(Runs /\ ReadStep(t))
                           /\ WF_vars(Runs /\ HandleReadExits(t))
  /\ WF_vars(Runs /\ DialStep)
  /\ WF_vars(Runs /\ WaitStep)
  /\ WF_vars(Runs /\ CloseStep)

FairSpec == Spec /\ Fairness

-----------------------------------------------------------------------------
(* Safety *)

(* Whenever no change is on its way, csMgr shows addrConn's state: every
   change is sent, in order, and none overtakes another. *)
StatesAgree ==
  ~ctxDone /\ sending = "none" /\ lcc = "select" => csState = acState

(* As long as the context lives, WaitForReady never sleeps through what it
   waits for: its channel is open, csMgr has not got there yet, and if addrConn
   has, the news is on its way to csMgr, on stateCh or with the goroutine that
   applies it.  Once the context has ended the news may be dropped. *)
SleeperWillBeTold ==
  waiter = "sleep" => /\ notifyOpen
                      /\ csState \notin {"Ready", "Shutdown"}
                      /\ ~ctxDone /\ acState \in {"Ready", "Shutdown"}
                            => acState \in {sending, lcc}

(* What comes of that: when Close has returned, a WaitForReady that still sleeps
   is never woken, since nobody is left to tell csMgr of the shutdown.  The
   comment "It returns false if the context is cancelled, or the conn is shut
   down" (client.go:137) promises otherwise. *)
ClosedWaiterSleepsOn ==
  [][cl = "done" /\ waiter = "sleep" => waiter' = "sleep"]_vars

(* addrConn goes from Ready to Idle only when the transport it uses has left
   its write pump: afterWritePump asks for the state, not for its transport,
   yet the end of an older transport never takes a newer one down. *)
OnlyOwnTransportDemotes ==
  [][acState = "Ready" /\ acState' = "Idle" => acTr # 0 /\ pump[acTr] = "left"]_vars

-----------------------------------------------------------------------------
(* Liveness *)

(* A connection that breaks or can no longer be read is dialled again, until
   the context is done. *)
LostConnectionIsRedialled ==
  \A t \in Transports :
     (created = t /\ (t \notin connOpen \/ readPump[t] = "done")) ~> (rt = "dial" \/ ctxDone)

(* Close waits for the pumps of t, and readPump holds a message that no
   handleRead will take: they have left, and addrConn is gone for new ones. *)
Stuck(t) == cl = "shutdown" /\ t \in closeReq /\ readPump[t] = "blocked" /\ t \notin readers

(* Close returns, unless a readPump is stuck with a message or Close is called
   again. *)
CloseTerminates ==
  (cl = "cancelled") ~> (cl \in {"done", "panicked"} \/ \E t \in Transports : Stuck(t))

(* A transport that becomes Ready is read, whether listenForRead waits for the
   change or has been woken by an earlier one and not yet looked at the state.
   Otherwise it is between getState and the next getNotifyChan: it misses the
   change, and nobody reads the transport before the state changes again,
   contrary to "listens for the connectivity state to be ready and enables the
   read handler" (client.go:203). *)
ReadyIsRead ==
  \A t \in Transports :
     (/\ acState = "Ready" /\ acTr = t
      /\ \/ lfr = "wait" /\ lcc = "Ready" /\ csState # "Ready"
         \/ lfr = "woken" /\ csState = "Ready")
        ~> (t \in readers \/ acState # "Ready" \/ acTr # t \/ ctxDone)

Dialling == dialer.at \notin {"returned", "failed"}

(* A blocking Dial returns when the connection is and stays Ready, and when
   its context ends. *)
BlockingDialReturns ==
  (Dialling /\ (acState = "Ready" \/ ctxDone)) ~> (~Dialling \/ (acState # "Ready" /\ ~ctxDone))
=============================================================================
