-------------------------- MODULE ServerTransport --------------------------
(***************************************************************************)
(* One transport of the server (websocket_server.go): readPump hands what  *)
(* it reads to a handleRead over an unbuffered channel, writePump takes    *)
(* what Write offers on another, and Close, a failed read, a failed write  *)
(* or a failed ping end them in any order.  A closed channel is a flag     *)
(* that stays TRUE; a message is no more than where it is.                 *)
(*                                                                         *)
(* The websocket connection is an environment: it may break at any time,   *)
(* and it keeps the write deadline that the last message has set, also for *)
(* the close message, for which writePump sets none.                       *)
(***************************************************************************)
EXTENDS Naturals

CONSTANT Writers   \* goroutines that call Write, once each

VARIABLES
  conn,            \* the websocket connection: "open", "broken", or "closed" by conn.Close
  deadline,        \* its write deadline: "none", "ahead" or "passed"
  closeConn,       \* Close has been called: state is closing, closeConn is closed
  closeWritePump,  \* readPump has returned: closeWritePump is closed
  rp,              \* readPump: "reading", "sending" a message on s.read, "done"
  wp,              \* writePump and, once it has left its loop, start
  write,           \* write[w]: where the Write of w is
  ctxDone,         \* the writers whose context has ended
  lost,            \* a message that Write has accepted was not sent
  reader           \* the server's handleRead for this transport

connVars == <<conn, deadline>>
vars == <<connVars, closeConn, closeWritePump, rp, wp, write, ctxDone, lost, reader>>

(* The type of every variable. *)
TypeOK ==
  /\ conn \in {"open", "broken", "closed"}
  /\ deadline \in {"none", "ahead", "passed"}
  /\ closeConn \in BOOLEAN /\ closeWritePump \in BOOLEAN /\ lost \in BOOLEAN
  /\ rp \in {"reading", "sending", "done"}
  /\ wp \in {"select", "writing", "closing", "left", "closed", "finished"}
  /\ write \in [Writers -> {"idle", "select", "ok", "error"}]
  /\ ctxDone \subseteq Writers
  /\ reader \in {"none", "reading", "left"}

(* NewServerTransport: the pumps run as soon as the transport exists. *)
Init ==
  /\ conn = "open" /\ deadline = "none"
  /\ closeConn = FALSE /\ closeWritePump = FALSE
  /\ rp = "reading" /\ wp = "select"
  /\ write = [w \in Writers |-> "idle"]
  /\ ctxDone = {} /\ lost = FALSE /\ reader = "none"

-----------------------------------------------------------------------------
(* Write *)

BeginWrite(w) ==
  /\ write[w] = "idle"
  /\ write' = [write EXCEPT ![w] = "select"]
  /\ UNCHANGED <<connVars, closeConn, closeWritePump, rp, wp, ctxDone, lost, reader>>

(* writePump takes the message, sets the deadline and starts to write. *)
WriteAccepted(w) ==
  /\ write[w] = "select"
  /\ wp = "select"
  /\ write' = [write EXCEPT ![w] = "ok"]
  /\ wp' = "writing"
  /\ deadline' = "ahead"
  /\ UNCHANGED <<conn, closeConn, closeWritePump, rp, ctxDone, lost, reader>>

(* One of the other cases of Write's select is ready. *)
WriteRefused(w) ==
  /\ write[w] = "select"
  /\ closeWritePump \/ closeConn \/ w \in ctxDone
  /\ write' = [write EXCEPT ![w] = "error"]
  /\ UNCHANGED <<connVars, closeConn, closeWritePump, rp, wp, ctxDone, lost, reader>>

ContextDone(w) ==
  /\ w \notin ctxDone
  /\ ctxDone' = ctxDone \cup {w}
  /\ UNCHANGED <<connVars, closeConn, closeWritePump, rp, wp, write, lost, reader>>

-----------------------------------------------------------------------------
(* Close, called by the server; only the first call does anything. *)

Close ==
  /\ ~closeConn
  /\ closeConn' = TRUE
  /\ UNCHANGED <<connVars, closeWritePump, rp, wp, write, ctxDone, lost, reader>>

-----------------------------------------------------------------------------
(* readPump *)

MessageArrives ==
  /\ rp = "reading"
  /\ conn = "open"
  /\ rp' = "sending"
  /\ UNCHANGED <<connVars, closeConn, closeWritePump, wp, write, ctxDone, lost, reader>>

MessageTaken ==
  /\ rp = "sending"
  /\ reader = "reading"
  /\ rp' = "reading"
  /\ UNCHANGED <<connVars, closeConn, closeWritePump, wp, write, ctxDone, lost, reader>>

ReadEnds ==
  /\ rp' = "done"
  /\ closeWritePump' = TRUE
  /\ UNCHANGED <<connVars, closeConn, wp, write, ctxDone, lost, reader>>

(* Variant: nothing sets a read deadline. *)
ReadErrorWithoutDeadline ==
  /\ rp = "reading"
  /\ conn # "open"
  /\ ReadEnds

(* ReadMessage fails on a connection that is broken or closed, and once
   writePump has stopped to ping: the read deadline, which handlePong extends,
   passes. *)
ReadError ==
  /\ rp = "reading"
  /\ conn # "open" \/ wp \in {"left", "closed", "finished"}
  /\ ReadEnds

(* ReadMessage fails on an open connection: the peer owes a pong, or its
   message exceeds the read limit. *)
ReadRefused ==
  /\ rp = "reading"
  /\ conn = "open"
  /\ ReadEnds

-----------------------------------------------------------------------------
(* writePump *)

(* writePump returns. *)
Leave == wp' = "left" /\ UNCHANGED <<closeConn, closeWritePump, rp, write, ctxDone, reader>>

ReadPumpEnded ==
  /\ wp = "select"
  /\ closeWritePump
  /\ Leave
  /\ UNCHANGED <<connVars, lost>>

MessageWritten ==
  /\ wp = "writing"
  /\ wp' = "select"
  /\ UNCHANGED <<connVars, closeConn, closeWritePump, rp, write, ctxDone, lost, reader>>

(* Variant: writePump goes on after an error. *)
WriteFailsAndGoesOn ==
  /\ wp = "writing"
  /\ lost' = TRUE
  /\ wp' = "select"
  /\ UNCHANGED <<connVars, closeConn, closeWritePump, rp, write, ctxDone, reader>>

(* The connection is broken, or the peer takes no bytes until the deadline;
   the message is lost and the connection is not closed. *)
WriteFails ==
  /\ wp = "writing"
  /\ lost' = TRUE
  /\ Leave
  /\ UNCHANGED connVars

(* Variant: writePump leaves it to readPump to notice. *)
PingFailsSilently == FALSE /\ UNCHANGED vars

(* A ping on a broken connection fails, and writePump closes the connection. *)
PingFails ==
  /\ wp = "select"
  /\ conn = "broken"
  /\ conn' = "closed"
  /\ Leave
  /\ UNCHANGED <<deadline, lost>>

(* So does a ping that the peer takes too long to take; any other changes
   nothing. *)
PingTimesOut ==
  /\ wp = "select"
  /\ conn = "open"
  /\ conn' = "closed"
  /\ Leave
  /\ UNCHANGED <<deadline, lost>>

(* The close message is written under whatever deadline the last message has
   left; if that fails, writePump returns and the connection stays as it is. *)
CloseMessageFails ==
  /\ wp = "select"
  /\ closeConn
  /\ conn = "broken" \/ deadline = "passed"
  /\ Leave
  /\ UNCHANGED <<connVars, lost>>

CloseMessageSent ==
  /\ wp = "select"
  /\ closeConn
  /\ deadline # "passed"
  /\ conn' = "closed"
  /\ wp' = "closing"
  /\ UNCHANGED <<deadline, closeConn, closeWritePump, rp, write, ctxDone, lost, reader>>

(* Variant: writePump waits for readPump without a timeout. *)
CloseWaitsForReadPump ==
  /\ wp = "closing"
  /\ closeWritePump
  /\ Leave
  /\ UNCHANGED <<connVars, lost>>

(* readPump has noticed, or a second has passed. *)
CloseWaitEnds ==
  /\ wp = "closing"
  /\ Leave
  /\ UNCHANGED <<connVars, lost>>

(* Variant: start does not close the transport. *)
StartForgetsClose ==
  /\ wp = "left"
  /\ wp' = "closed"
  /\ UNCHANGED <<connVars, closeConn, closeWritePump, rp, write, ctxDone, lost, reader>>

(* start's deferred function: Close, then afterWritePump, on which handleRead
   leaves. *)
StartCloses ==
  /\ wp = "left"
  /\ wp' = "closed"
  /\ closeConn' = TRUE
  /\ UNCHANGED <<connVars, closeWritePump, rp, write, ctxDone, lost, reader>>

AfterWritePump ==
  /\ wp = "closed"
  /\ wp' = "finished"
  /\ UNCHANGED <<connVars, closeConn, closeWritePump, rp, write, ctxDone, lost, reader>>

-----------------------------------------------------------------------------
(* handleRead, and the environment *)

HandleReadStarts ==
  /\ reader = "none"
  /\ reader' = "reading"
  /\ UNCHANGED <<connVars, closeConn, closeWritePump, rp, wp, write, ctxDone, lost>>

HandleReadLeaves ==
  /\ reader = "reading"
  /\ wp = "finished"
  /\ reader' = "left"
  /\ UNCHANGED <<connVars, closeConn, closeWritePump, rp, wp, write, ctxDone, lost>>

ConnectionLost ==
  /\ conn = "open"
  /\ conn' = "broken"
  /\ UNCHANGED <<deadline, closeConn, closeWritePump, rp, wp, write, ctxDone, lost, reader>>

DeadlinePasses ==
  /\ deadline = "ahead"
  /\ wp # "writing"
  /\ deadline' = "passed"
  /\ UNCHANGED <<conn, closeConn, closeWritePump, rp, wp, write, ctxDone, lost, reader>>

-----------------------------------------------------------------------------
WriterStep(w) == WriteAccepted(w) \/ WriteRefused(w)
ReadPumpStep == MessageTaken \/ ReadError
CloseMessage == CloseMessageFails \/ CloseMessageSent
StartStep == StartCloses \/ AfterWritePump
WritePumpStep == \/ MessageWritten \/ WriteFails \/ ReadPumpEnded \/ PingFails
                 \/ CloseMessage \/ CloseWaitEnds \/ StartStep

Next ==
  \/ \E w \in Writers : BeginWrite(w) \/ WriterStep(w) \/ ContextDone(w)
  \/ Close \/ MessageArrives \/ ReadRefused \/ ReadPumpStep
  \/ WritePumpStep \/ PingTimesOut
  \/ HandleReadStarts \/ HandleReadLeaves \/ ConnectionLost \/ DeadlinePasses

Spec == Init /\ [][Next]_vars

(* Goroutines go on when they can.  A writer and writePump find each other: a
   select with several ready cases does not always pick another one. *)
Fairness ==
  /\ \A w \in Writers : WF_vars(WriterStep(w))
  /\ WF_vars(ReadPumpStep)
  /\ WF_vars(WritePumpStep)
  /\ WF_vars(HandleReadLeaves)

FairSpec == Spec /\ Fairness

-----------------------------------------------------------------------------
(* A message that Write has accepted is lost only together with the
   transport: Write reports success before the message is sent, so a pump
   that survived the failure would leave a caller waiting on a connection
   that looks healthy. *)
AcceptedIsSentOrFatal == lost => wp \in {"left", "closed", "finished"}

(* What the server sees of the transport. *)
tr == CASE wp \in {"select", "writing", "closing"} -> "running"
        [] wp \in {"left", "closed"} -> "exited"
        [] wp = "finished" -> "finished"

Life == INSTANCE TransportLife WITH tr <- tr, closeReq <- closeConn

(* Both pumps together behave like the transport ServerConns assumes: after
   Close, and after writePump has left for any reason, afterWritePump is
   called, once, whatever readPump is doing. *)
LifeCycle == Life!Spec

(* Write returns although neither its context ends nor anyone reads from the
   transport: when writePump has left, start closes closeConn. *)
WriteReturns == \A w \in Writers : (write[w] = "select") ~> (write[w] \in {"ok", "error"})

(* A broken connection ends the transport, also while readPump is blocked
   with a message and cannot notice: the pings do. *)
LossIsNoticed == (conn = "broken") ~> (wp = "finished")

(* readPump ends once the transport has, unless it is left with a message
   that no handleRead takes: one that leaves takes no more, and none may ever
   have come. *)
ReadPumpEnds == (wp = "finished") ~> (rp = "done" \/ (rp = "sending" /\ reader # "reading"))

(* What the comment on Close says, it "closes the websocket connection": a
   transport that has ended although no read and no write has failed, that
   is by Close, has closed its connection. *)
CloseClosesConnection ==
  wp = "finished" /\ ~closeWritePump /\ ~lost => conn # "open"
=============================================================================
