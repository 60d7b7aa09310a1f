----------------------------- MODULE UniClient -----------------------------
(***************************************************************************)
(* UniClientConn (uni_client.go): one websocket connection under a mutex.  *)
(* Invoke writes its request and takes the next message on the connection  *)
(* for the response; when writing or reading fails it connects anew and    *)
(* sends the request again, until its context is done.                     *)
(*                                                                         *)
(* The server answers the requests of a connection in any order, and may   *)
(* push requests of its own, which a unidirectional client does not        *)
(* expect.  A connection on which reading or writing has failed once fails *)
(* every time, as those of the websocket library do.                       *)
(***************************************************************************)
EXTENDS Naturals, Sequences

CONSTANTS Calls,     \* invocations of Invoke
          MaxConns,  \* how many dials succeed, the first one by Dial
          MaxPushes, \* how many requests the server pushes
          None,      \* no call
          Push       \* a request pushed by the server

ASSUME DistinctAssumption == None # Push /\ None \notin Calls /\ Push \notin Calls
ASSUME MaxConnsAssumption == MaxConns \in Nat \ {0}
ASSUME MaxPushesAssumption == MaxPushes \in Nat

VARIABLES
  pc,        \* pc[c]: where the Invoke of call c is
  timed,     \* the calls whose context has a deadline; the others can be cancelled
  ctxDone,   \* the calls whose context has ended
  answer,    \* answer[c]: the call whose response Invoke has returned
  via,       \* via[c]: the connection it was read from
  connMu,    \* the call that holds connMu, or None
  conn,      \* uc.conn
  dialled,   \* how many connections there have been
  limit,     \* limit[n]: the call that has set the deadlines of connection n last
  readDead,  \* the connections on which reading has failed or that are closed
  writeDead, \* the connections on which writing has failed or that are closed
  lost,      \* the connections that have broken, whether noticed or not
  got,       \* got[n]: the requests the server has received on n
  answered,  \* answered[n]: those that it has answered
  inbox,     \* inbox[n]: the messages from the server, not read yet
  pushed,    \* the connections on which the server has pushed requests, one by one
  cl         \* where Close is

invokeVars == <<pc, timed, ctxDone, answer, via>>
connVars == <<conn, dialled, limit, readDead, writeDead>>
serverVars == <<lost, got, answered, inbox, pushed>>
vars == <<invokeVars, connMu, connVars, serverVars, cl>>

Conns == 1 .. MaxConns

(* The type of every variable. *)
TypeOK ==
  /\ pc \in [Calls -> {"idle", "locking", "writing", "reading", "dialing", "returned"}]
  /\ timed \subseteq Calls
  /\ ctxDone \subseteq Calls
  /\ answer \in [Calls -> Calls \cup {None}]
  /\ via \in [Calls -> 0 .. MaxConns]
  /\ connMu \in Calls \cup {None}
  /\ conn \in Conns
  /\ dialled \in Conns
  /\ limit \in [Conns -> Calls \cup {None}]
  /\ readDead \subseteq Conns
  /\ writeDead \subseteq Conns
  /\ lost \subseteq Conns
  /\ got \in [Conns -> Seq(Calls)]
  /\ answered \in [Conns -> SUBSET Calls]
  /\ inbox \in [Conns -> Seq(Calls \cup {Push})]
  /\ pushed \in Seq(Conns)
  /\ cl \in {"idle", "locking", "done"}

(* Dial has connected. *)
Init ==
  /\ pc = [c \in Calls |-> "idle"]
  /\ timed = {} /\ ctxDone = {}
  /\ answer = [c \in Calls |-> None]
  /\ via = [c \in Calls |-> 0]
  /\ connMu = None
  /\ conn = 1 /\ dialled = 1
  /\ limit = [n \in Conns |-> None]
  /\ readDead = {} /\ writeDead = {} /\ lost = {}
  /\ got = [n \in Conns |-> <<>>]
  /\ answered = [n \in Conns |-> {}]
  /\ inbox = [n \in Conns |-> <<>>]
  /\ pushed = <<>>
  /\ cl = "idle"

Goto(c, label) == pc' = [pc EXCEPT ![c] = label]

(* The deadline that a call has set on connection n has passed: reading and
   writing fail, for another call too. *)
Overdue(n) == limit[n] \in ctxDone

-----------------------------------------------------------------------------
(* Invoke *)

(* The application calls Invoke, with or without a deadline. *)
BeginInvoke(c) ==
  /\ pc[c] = "idle"
  /\ Goto(c, "locking")
  /\ timed' \in {timed, timed \cup {c}}
  /\ UNCHANGED <<ctxDone, answer, via, connMu, connVars, serverVars, cl>>

(* Variant: Invoke returns without unlocking connMu. *)
ReturnLocked(c) == Goto(c, "returned") /\ UNCHANGED connMu

Return(c) == Goto(c, "returned") /\ connMu' = None

(* The request cannot be marshalled. *)
InvokeRejected(c) ==
  /\ pc[c] = "locking"
  /\ connMu = None
  /\ Return(c)
  /\ UNCHANGED <<timed, ctxDone, answer, via, connVars, serverVars, cl>>

(* The deadline of the call's context, if it has one, becomes that of n. *)
SetDeadline(c, n) == limit' = IF c \in timed THEN [limit EXCEPT ![n] = c] ELSE limit

LockConn(c) ==
  /\ pc[c] = "locking"
  /\ connMu = None
  /\ connMu' = c
  /\ Goto(c, "writing")
  /\ SetDeadline(c, conn)
  /\ UNCHANGED <<timed, ctxDone, answer, via, conn, dialled, readDead, writeDead, serverVars,
                 cl>>

(* What is written to a connection that has broken may go nowhere. *)
WriteMessage(c) ==
  /\ pc[c] = "writing"
  /\ conn \notin writeDead /\ ~Overdue(conn)
  /\ Goto(c, "reading")
  /\ got' = IF conn \in lost THEN got ELSE [got EXCEPT ![conn] = Append(@, c)]
  /\ UNCHANGED <<timed, ctxDone, answer, via, connMu, connVars, lost, answered, inbox, pushed,
                 cl>>

(* After an error Invoke returns if its context is done; else it connects anew. *)
Recover(c) == IF c \in ctxDone THEN Return(c) ELSE Goto(c, "dialing") /\ UNCHANGED connMu

WriteFails(c) ==
  /\ pc[c] = "writing"
  /\ conn \in lost \cup writeDead \/ Overdue(conn)
  /\ writeDead' = writeDead \cup {conn}
  /\ Recover(c)
  /\ UNCHANGED <<timed, ctxDone, answer, via, conn, dialled, limit, readDead, serverVars, cl>>

(* The next message is taken for the response, whatever call it answers; a
   request is an error. *)
ReadMessage(c) ==
  LET msg == Head(inbox[conn]) IN
  /\ pc[c] = "reading"
  /\ conn \notin readDead
  /\ inbox[conn] # <<>>
  /\ inbox' = [inbox EXCEPT ![conn] = Tail(@)]
  /\ Return(c)
  /\ IF msg = Push THEN UNCHANGED <<answer, via>>
                   ELSE /\ answer' = [answer EXCEPT ![c] = msg]
                        /\ via' = [via EXCEPT ![c] = conn]
  /\ UNCHANGED <<timed, ctxDone, connVars, lost, got, answered, pushed, cl>>

(* ReadMessage returns an error. *)
ReadImpossible == conn \in lost \cup readDead \/ Overdue(conn)

(* Variant: Invoke also gives up on a cancelled context, and leaves its
   response to be read by the next call. *)
ReadFailsOrCancelled(c) ==
  /\ pc[c] = "reading"
  /\ ReadImpossible \/ c \in ctxDone
  /\ readDead' = IF ReadImpossible THEN readDead \cup {conn} ELSE readDead
  /\ Recover(c)
  /\ UNCHANGED <<timed, ctxDone, answer, via, conn, dialled, limit, writeDead, serverVars, cl>>

(* Variant: after a failed read the request is sent again on the connection
   that there is. *)
ReadFailsAndResends(c) ==
  /\ pc[c] = "reading"
  /\ ReadImpossible
  /\ readDead' = readDead \cup {conn}
  /\ IF c \in ctxDone THEN Return(c) ELSE Goto(c, "writing") /\ UNCHANGED connMu
  /\ UNCHANGED <<timed, ctxDone, answer, via, conn, dialled, limit, writeDead, serverVars, cl>>

ReadFails(c) ==
  /\ pc[c] = "reading"
  /\ ReadImpossible
  /\ readDead' = readDead \cup {conn}
  /\ Recover(c)
  /\ UNCHANGED <<timed, ctxDone, answer, via, conn, dialled, limit, writeDead, serverVars, cl>>

(* retryConnectWithBackoff connects after any number of attempts; the old
   connection is left as it is. *)
Connects(c) ==
  /\ pc[c] = "dialing"
  /\ c \notin ctxDone
  /\ dialled < MaxConns
  /\ dialled' = dialled + 1
  /\ conn' = dialled'
  /\ SetDeadline(c, conn')
  /\ Goto(c, "writing")
  /\ UNCHANGED <<timed, ctxDone, answer, via, connMu, readDead, writeDead, serverVars, cl>>

(* Variant: the attempts go on when the context is done. *)
ConnectNotCancelled(c) == FALSE /\ UNCHANGED vars

ConnectCancelled(c) ==
  /\ pc[c] = "dialing"
  /\ c \in ctxDone
  /\ Return(c)
  /\ UNCHANGED <<timed, ctxDone, answer, via, connVars, serverVars, cl>>

-----------------------------------------------------------------------------
(* Close *)

CloseCalled ==
  /\ cl = "idle"
  /\ cl' = "locking"
  /\ UNCHANGED <<invokeVars, connMu, connVars, serverVars>>

Close ==
  /\ cl = "locking"
  /\ connMu = None
  /\ cl' = "done"
  /\ readDead' = readDead \cup {conn}
  /\ writeDead' = writeDead \cup {conn}
  /\ UNCHANGED <<invokeVars, connMu, conn, dialled, limit, serverVars>>

-----------------------------------------------------------------------------
(* The environment: contexts, the server and the network *)

(* A deadline passes or a context is cancelled. *)
ContextDone(c) ==
  /\ pc[c] # "idle"
  /\ c \notin ctxDone
  /\ ctxDone' = ctxDone \cup {c}
  /\ UNCHANGED <<pc, timed, answer, via, connMu, connVars, serverVars, cl>>

ServerAnswers(n, c) ==
  /\ n \notin lost
  /\ c \notin answered[n]
  /\ \E i \in DOMAIN got[n] : got[n][i] = c
  /\ answered' = [answered EXCEPT ![n] = @ \cup {c}]
  /\ inbox' = [inbox EXCEPT ![n] = Append(@, c)]
  /\ UNCHANGED <<invokeVars, connMu, connVars, lost, got, pushed, cl>>

ServerPushes(n) ==
  /\ n <= dialled /\ n \notin lost
  /\ Len(pushed) < MaxPushes
  /\ pushed' = Append(pushed, n)
  /\ inbox' = [inbox EXCEPT ![n] = Append(@, Push)]
  /\ UNCHANGED <<invokeVars, connMu, connVars, lost, got, answered, cl>>

ConnectionLost(n) ==
  /\ n <= dialled /\ n \notin lost
  /\ lost' = lost \cup {n}
  /\ UNCHANGED <<invokeVars, connMu, connVars, got, answered, inbox, pushed, cl>>

InvokeStep(c) == \/ InvokeRejected(c) \/ LockConn(c) \/ WriteMessage(c) \/ WriteFails(c)
                 \/ ReadMessage(c) \/ ReadFails(c) \/ Connects(c) \/ ConnectCancelled(c)

Next ==
  \/ \E c \in Calls : BeginInvoke(c) \/ InvokeStep(c) \/ ContextDone(c)
  \/ CloseCalled \/ Close
  \/ \E n \in Conns : \/ \E c \in Calls : ServerAnswers(n, c)
                      \/ ServerPushes(n) \/ ConnectionLost(n)

Spec == Init /\ [][Next]_vars

(* Invoke and Close go on when they can, and deadlines pass; nobody has to
   cancel a context, and the server owes no answer. *)
Fairness ==
  /\ \A c \in Calls : /\ WF_vars(InvokeStep(c))
                      /\ WF_vars(c \in timed /\ ContextDone(c))
  /\ WF_vars(Close)

FairSpec == Spec /\ Fairness

-----------------------------------------------------------------------------
(* Safety *)

(* Invoke does not compare call ids, yet it returns the response to its own
   request, unless the server has pushed a request on the connection: a call
   that gives up leaves the connection unreadable, so nothing it was owed is
   read by the next. *)
AnswerIsOwn ==
  \A c \in Calls : answer[c] \notin {None, c} => \E i \in DOMAIN pushed : pushed[i] = via[c]

(* A request is sent again only on another connection: the server never
   receives it twice on one. *)
OncePerConnection ==
  \A n \in Conns : \A i, j \in DOMAIN got[n] : got[n][i] = got[n][j] => i = j

-----------------------------------------------------------------------------
(* Liveness *)

(* An Invoke whose deadline has passed returns, once it has connMu, whether it
   writes, reads or connects. *)
DeadlineEndsInvoke ==
  \A c \in Calls : (connMu = c /\ c \in timed) ~> (pc[c] = "returned")

(* Only an Invoke without a deadline keeps Close from returning. *)
CloseTerminates ==
  (cl = "locking") ~> (cl = "done" \/ \E c \in Calls \ timed : connMu = c)
=============================================================================
