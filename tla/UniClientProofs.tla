-------------------------- MODULE UniClientProofs --------------------------
(***************************************************************************)
(* Proofs about UniClient for any number of calls, connections and pushed  *)
(* requests.                                                               *)
(***************************************************************************)
EXTENDS UniClient, SequenceTheorems, TLAPS

(* x occurs in s. *)
In(x, s) == \E i \in DOMAIN s : s[i] = x

(* connMu is held from the first write to the return of Invoke. *)
MutexInv ==
  \A c \in Calls : pc[c] \in {"writing", "reading", "dialing"} <=> connMu = c

(* uc.conn is the last connection, and nothing has happened on later ones. *)
ConnIsLast == conn = dialled
FutureUntouched == \A n \in Conns : n > dialled => got[n] = <<>> /\ inbox[n] = <<>>

(* A call that is about to write has not written to this connection, and one
   that waits for connMu to none. *)
NotSentYet ==
  \A c \in Calls : /\ pc[c] \in {"idle", "locking"} => \A n \in Conns : ~In(c, got[n])
                   /\ pc[c] = "writing" => ~In(c, got[conn])

(* The server answers what it has received. *)
AnsweredWereReceived == \A n \in Conns : \A c \in answered[n] : In(c, got[n])

(* Invoke c reads from connection n. *)
Reads(c, n) == n = conn /\ connMu = c /\ pc[c] = "reading"

(* A connection that can be read and was not pushed to owes an answer to the
   call that reads from it at most, and holds no other. *)
Clean(n) == n \notin readDead /\ ~In(n, pushed)

OwesReaderOnly ==
  \A n \in Conns : Clean(n) =>
     \A c \in Calls : In(c, got[n]) /\ c \notin answered[n] => Reads(c, n)

HoldsReadersOnly ==
  \A n \in Conns : Clean(n) =>
     \/ inbox[n] = <<>>
     \/ \E c \in answered[n] : Reads(c, n) /\ inbox[n] = <<c>>

IInv == /\ TypeOK /\ MutexInv /\ ConnIsLast /\ FutureUntouched /\ NotSentYet
        /\ AnsweredWereReceived /\ OwesReaderOnly /\ HoldsReadersOnly
        /\ OncePerConnection /\ AnswerIsOwn
-----------------------------------------------------------------------------
(* What appending a message does to the messages that occur. *)
LEMMA InAppend ==
  ASSUME NEW S, NEW s \in Seq(S), NEW x \in S, NEW y
  PROVE  In(y, Append(s, x)) <=> In(y, s) \/ y = x
<1>1. /\ DOMAIN Append(s, x) = 1 .. Len(s) + 1
      /\ \A i \in 1 .. Len(s) : Append(s, x)[i] = s[i]
      /\ Append(s, x)[Len(s) + 1] = x
      /\ DOMAIN s = 1 .. Len(s) /\ Len(s) \in Nat
  BY AppendProperties
<1> QED
  BY <1>1 DEF In

(* Nothing occurs in the empty sequence. *)
LEMMA InEmpty == \A y : ~In(y, <<>>)
BY DEF In

(* As long as a reader goes on reading or leaves its connection unreadable,
   what the readable connections owe and hold stays accounted for. *)
LEMMA ReaderStaysOrKills ==
  ASSUME TypeOK, OwesReaderOnly, HoldsReadersOnly,
         readDead \subseteq readDead', UNCHANGED <<pushed, got, answered, inbox>>,
         \A n \in Conns, c \in Calls : Reads(c, n) => n \in readDead' \/ Reads(c, n)'
  PROVE  OwesReaderOnly' /\ HoldsReadersOnly'
<1>1. ASSUME NEW n \in Conns, Clean(n)'
      PROVE  Clean(n) /\ n \notin readDead'
  BY <1>1 DEF Clean
<1>2. OwesReaderOnly'
  BY <1>1 DEF OwesReaderOnly
<1>3. HoldsReadersOnly'
  BY <1>1 DEF HoldsReadersOnly, TypeOK
<1> QED
  BY <1>2, <1>3

(* The initial state satisfies the inductive invariant. *)
LEMMA InitIInv == Init => IInv
BY InEmpty, DistinctAssumption, MaxConnsAssumption
   DEF Init, IInv, TypeOK, Conns, MutexInv, ConnIsLast, FutureUntouched, NotSentYet,
   AnsweredWereReceived, OwesReaderOnly, HoldsReadersOnly, OncePerConnection, AnswerIsOwn

(* A step of Invoke preserves it. *)
LEMMA InvokeIInv ==
  ASSUME IInv, NEW c \in Calls, BeginInvoke(c) \/ InvokeStep(c) \/ ContextDone(c)
  PROVE  IInv'
<1> USE DistinctAssumption, MaxConnsAssumption DEF IInv, TypeOK, invokeVars, connVars, serverVars,
        Goto
(* The steps that neither send nor receive a message. *)
<1>1. ASSUME \/ BeginInvoke(c) \/ InvokeRejected(c) \/ LockConn(c) \/ WriteFails(c)
             \/ ReadFails(c) \/ Connects(c) \/ ConnectCancelled(c) \/ ContextDone(c)
      PROVE  IInv'
  <2> USE DEF BeginInvoke, InvokeRejected, LockConn, SetDeadline, WriteFails, ReadFails, Recover,
          Connects, ConnectCancelled, ContextDone, Return
  <2>1. /\ UNCHANGED <<answer, via, lost, got, answered, inbox, pushed>>
        /\ readDead \subseteq readDead' /\ dialled' >= dialled
    <3>1. UNCHANGED <<answer, via, lost, got, answered, inbox, pushed>>
      BY <1>1
    <3>2. readDead \subseteq readDead' /\ (dialled' = dialled \/ dialled' = dialled + 1)
      BY <1>1
    <3> QED
      BY <3>1, <3>2 DEF Conns
  <2>2. TypeOK'
    <3>1. /\ pc' \in [Calls -> {"idle", "locking", "writing", "reading", "dialing", "returned"}]
          /\ timed' \subseteq Calls /\ ctxDone' \subseteq Calls
      BY <1>1
    <3>2. connMu' \in Calls \cup {None} /\ conn' \in Conns /\ dialled' \in Conns
      <4>1. connMu' \in Calls \cup {None}
        BY <1>1
      <4>2. CASE Connects(c)
        BY <4>1, <4>2 DEF Conns
      <4>3. CASE ~Connects(c)
        <5>1. conn' = conn /\ dialled' = dialled
          BY <1>1, <4>3
        <5> QED
          BY <4>1, <5>1
      <4> QED
        BY <4>2, <4>3
    <3>3. limit' \in [Conns -> Calls \cup {None}]
      <4>1. limit' = limit \/ \E n \in Conns : limit' = [limit EXCEPT ![n] = c]
        BY <1>1, <3>2
      <4> QED
        BY <4>1
    <3>4. readDead' \subseteq Conns /\ writeDead' \subseteq Conns /\ cl' = cl
      BY <1>1
    <3> QED
      BY <2>1, <3>1, <3>2, <3>3, <3>4
  <2>3. MutexInv'
    <3>1. CASE BeginInvoke(c) \/ InvokeRejected(c) \/ LockConn(c) \/ Connects(c) \/ ContextDone(c)
      BY <3>1 DEF MutexInv
    <3>2. CASE WriteFails(c) \/ ReadFails(c) \/ ConnectCancelled(c)
      <4>1. \A d \in Calls : pc[d] \in {"writing", "reading", "dialing"} <=> d = c
        BY <3>2 DEF MutexInv
      <4> QED
        BY <3>2, <4>1 DEF MutexInv
    <3> QED
      BY <1>1, <3>1, <3>2
  <2>4. ConnIsLast'
    BY <1>1 DEF ConnIsLast
  <2>5. FutureUntouched'
    <3>1. \A n \in Conns : n > dialled' => n > dialled
      BY <2>1, <2>2 DEF Conns
    <3> QED
      BY <2>1, <3>1 DEF FutureUntouched
  <2>6. NotSentYet'
    (* Nothing has happened on a new connection. *)
    <3>1. CASE Connects(c)
      <4>1. conn' \in Conns /\ conn' > dialled
        BY <2>2, <3>1 DEF Conns
      <4>2. ~In(c, got'[conn'])
        BY <2>1, <4>1, InEmpty DEF FutureUntouched
      <4>3. ASSUME NEW d \in Calls, pc'[d] = "writing"
            PROVE  d = c
        BY <3>1, <4>3 DEF MutexInv
      <4> QED
        BY <2>1, <3>1, <4>2, <4>3 DEF NotSentYet
    <3>2. CASE ~Connects(c)
      <4>1. conn' = conn /\ got' = got
        BY <1>1, <2>1, <3>2
      <4>2. \A d \in Calls : /\ pc'[d] \in {"idle", "locking"} => pc[d] \in {"idle", "locking"}
                             /\ pc'[d] = "writing" => pc[d] \in {"locking", "writing"}
        BY <1>1, <3>2
      <4>3. conn \in Conns /\ NotSentYet
        OBVIOUS
      <4> HIDE DEF IInv, TypeOK, BeginInvoke, ContextDone
      <4>4. ASSUME NEW d \in Calls, NEW n \in Conns, pc'[d] \in {"idle", "locking"}
            PROVE  ~In(d, got'[n])
        BY <4>1, <4>2, <4>3, <4>4 DEF NotSentYet
      <4>5. ASSUME NEW d \in Calls, pc'[d] = "writing"
            PROVE  ~In(d, got'[conn'])
        BY <4>1, <4>2, <4>3, <4>5 DEF NotSentYet
      <4> QED
        BY <4>4, <4>5 DEF NotSentYet
    <3> QED
      BY <3>1, <3>2
  <2>7. AnsweredWereReceived'
    BY <2>1 DEF AnsweredWereReceived
  (* Only ReadFails ends a read, and the connection cannot be read any more. *)
  <2>8. ASSUME NEW n \in Conns, NEW d \in Calls, Reads(d, n)
        PROVE  n \in readDead' \/ Reads(d, n)'
    <3>1. d # c => pc[c] \notin {"writing", "reading", "dialing"} /\ connMu # None
      BY <2>8 DEF Reads, MutexInv
    <3>2. CASE d = c
      BY <1>1, <2>8, <3>2 DEF Reads
    <3>3. CASE d # c
      BY <1>1, <2>8, <3>1, <3>3 DEF Reads
    <3> QED
      BY <3>2, <3>3
  <2>9. OwesReaderOnly' /\ HoldsReadersOnly'
    BY <2>1, <2>8, ReaderStaysOrKills
  <2>10. OncePerConnection' /\ AnswerIsOwn'
    BY <2>1 DEF OncePerConnection, AnswerIsOwn
  <2> QED
    BY <2>2, <2>3, <2>4, <2>5, <2>6, <2>7, <2>9, <2>10
<1>2. ASSUME WriteMessage(c)
      PROVE  IInv'
  <2> USE <1>2 DEF WriteMessage
  <2>1. ASSUME NEW n \in Conns, NEW x
        PROVE  In(x, got'[n]) => In(x, got[n]) \/ (x = c /\ n = conn)
    BY InAppend
  <2>2. ASSUME NEW n \in Conns, NEW x, In(x, got[n])
        PROVE  In(x, got'[n])
    BY <2>2, InAppend
  (* c holds connMu and does not read, so nobody does. *)
  <2>3. /\ connMu = c /\ \A d \in Calls \ {c} : pc[d] \notin {"writing", "reading", "dialing"}
        /\ \A n \in Conns, d \in Calls : ~Reads(d, n)
    BY DEF MutexInv, Reads
  <2>4. TypeOK'
    <3>1. got' \in [Conns -> Seq(Calls)]
      BY AppendProperties
    <3> QED
      BY <3>1
  <2>5. MutexInv'
    BY <2>3 DEF MutexInv
  <2>6. ConnIsLast'
    BY DEF ConnIsLast
  <2>7. FutureUntouched'
    BY DEF FutureUntouched, ConnIsLast, Conns
  <2>8. NotSentYet'
    BY <2>1, <2>3 DEF NotSentYet
  <2>9. AnsweredWereReceived'
    BY <2>2 DEF AnsweredWereReceived
  <2>10. OwesReaderOnly'
    BY <2>1, <2>3 DEF OwesReaderOnly, Clean, Reads
  <2>11. HoldsReadersOnly'
    BY <2>3 DEF HoldsReadersOnly, Clean
  (* NotSentYet: c has not been received on conn before. *)
  <2>12. OncePerConnection'
    <3>1. ASSUME NEW n \in Conns, NEW i \in DOMAIN got'[n], NEW j \in DOMAIN got'[n],
                 got'[n][i] = got'[n][j]
          PROVE  i = j
      <4>1. CASE got'[n] = got[n]
        BY <3>1, <4>1 DEF OncePerConnection
      <4>2. CASE got'[n] = Append(got[n], c) /\ n = conn
        <5>1. /\ DOMAIN got'[n] = 1 .. Len(got[n]) + 1
              /\ \A k \in 1 .. Len(got[n]) : got'[n][k] = got[n][k]
              /\ got'[n][Len(got[n]) + 1] = c
              /\ DOMAIN got[n] = 1 .. Len(got[n]) /\ Len(got[n]) \in Nat
          BY <4>2, AppendProperties
        <5>2. \A k \in 1 .. Len(got[n]) : got[n][k] # c
          BY <4>2, <5>1 DEF NotSentYet, In
        <5> DEFINE l == Len(got[n])
        <5>3. i \in 1 .. l + 1 /\ j \in 1 .. l + 1 /\ l \in Nat
          BY <3>1, <5>1
        <5> HIDE DEF l
        <5>4. i \in 1 .. l \/ i = l + 1
          BY <5>3
        <5>5. j \in 1 .. l \/ j = l + 1
          BY <5>3
        <5>6. CASE i \in 1 .. l /\ j \in 1 .. l
          <6>1. got[n][i] = got[n][j]
            BY <3>1, <5>1, <5>6 DEF l
          <6> QED
            BY <5>1, <5>6, <6>1 DEF OncePerConnection, l
        <5>7. CASE i = l + 1 \/ j = l + 1
          BY <3>1, <5>1, <5>2, <5>4, <5>5, <5>7 DEF l
        <5> QED
          BY <5>4, <5>5, <5>6, <5>7
      <4> QED
        BY <4>1, <4>2
    <3> QED
      BY <3>1 DEF OncePerConnection
  <2>13. AnswerIsOwn'
    BY DEF AnswerIsOwn
  <2> QED
    BY <2>4, <2>5, <2>6, <2>7, <2>8, <2>9, <2>10, <2>11, <2>12, <2>13
<1>3. ASSUME ReadMessage(c)
      PROVE  IInv'
  <2> USE <1>3 DEF ReadMessage, Return
  <2>1. /\ connMu = c /\ \A d \in Calls \ {c} : pc[d] \notin {"writing", "reading", "dialing"}
        /\ \A n \in Conns, d \in Calls : Reads(d, n) <=> d = c /\ n = conn
    BY DEF MutexInv, Reads
  <2>2. /\ Head(inbox[conn]) \in Calls \cup {Push}
        /\ Tail(inbox[conn]) \in Seq(Calls \cup {Push})
    BY HeadTailProperties
  (* The message is c's own response, unless the server has pushed. *)
  <2>3. ASSUME ~In(conn, pushed)
        PROVE  inbox[conn] = <<c>> /\ c \in answered[conn]
    BY <2>1, <2>3 DEF HoldsReadersOnly, Clean
  <2>4. TypeOK'
    <3>1. inbox' \in [Conns -> Seq(Calls \cup {Push})]
      BY <2>2
    <3>2. answer' \in [Calls -> Calls \cup {None}] /\ via' \in [Calls -> 0 .. MaxConns]
      <4>1. CASE Head(inbox[conn]) = Push
        BY <4>1
      <4>2. CASE Head(inbox[conn]) # Push
        <5>1. conn \in 0 .. MaxConns /\ Head(inbox[conn]) \in Calls
          BY <2>2, <4>2 DEF Conns
        <5>2. answer' = [answer EXCEPT ![c] = Head(inbox[conn])]
          BY <4>2
        <5>3. via' = [via EXCEPT ![c] = conn]
          BY <4>2
        <5>4. answer' \in [Calls -> Calls \cup {None}]
          BY <5>1, <5>2
        <5> QED
          BY <5>1, <5>3, <5>4
      <4> QED
        BY <4>1, <4>2
    <3> QED
      BY <3>1, <3>2
  <2>5. MutexInv'
    BY <2>1 DEF MutexInv
  <2>6. ConnIsLast'
    BY DEF ConnIsLast
  <2>7. FutureUntouched'
    BY DEF FutureUntouched, ConnIsLast, Conns
  <2>8. NotSentYet'
    BY <2>1 DEF NotSentYet
  <2>9. AnsweredWereReceived'
    BY DEF AnsweredWereReceived
  <2>10. OwesReaderOnly'
    BY <2>1, <2>3 DEF OwesReaderOnly, Clean
  <2>11. HoldsReadersOnly'
    <3>1. ASSUME NEW n \in Conns, Clean(n)
          PROVE  inbox'[n] = <<>>
      <4>1. CASE n = conn
        <5>1. Tail(<<c>>) = <<>>
          OBVIOUS
        <5> QED
          BY <2>3, <3>1, <4>1, <5>1 DEF Clean
      <4>2. CASE n # conn
        BY <2>1, <3>1, <4>2 DEF HoldsReadersOnly
      <4> QED
        BY <4>1, <4>2
    <3> QED
      BY <3>1 DEF HoldsReadersOnly, Clean
  <2>12. OncePerConnection'
    BY DEF OncePerConnection
  <2>13. AnswerIsOwn'
    <3>1. ASSUME answer'[c] \notin {None, c}
          PROVE  In(via'[c], pushed)
      <4>1. CASE Head(inbox[conn]) = Push
        BY <3>1, <4>1 DEF AnswerIsOwn, In
      <4>2. CASE Head(inbox[conn]) # Push
        <5>1. Head(<<c>>) = c
          OBVIOUS
        <5> QED
          BY <2>3, <3>1, <4>2, <5>1
      <4> QED
        BY <4>1, <4>2
    <3>2. \A d \in Calls \ {c} : answer'[d] = answer[d] /\ via'[d] = via[d]
      OBVIOUS
    <3> QED
      BY <3>1, <3>2 DEF AnswerIsOwn, In
  <2> QED
    BY <2>4, <2>5, <2>6, <2>7, <2>8, <2>9, <2>10, <2>11, <2>12, <2>13
<1> QED
  BY <1>1, <1>2, <1>3 DEF InvokeStep

(* So does a step of Close, the server or the network. *)
LEMMA OtherIInv ==
  ASSUME IInv,
         \/ CloseCalled \/ Close
         \/ \E n \in Conns : (\E c \in Calls : ServerAnswers(n, c)) \/ ServerPushes(n)
                             \/ ConnectionLost(n)
  PROVE  IInv'
<1> USE DistinctAssumption, MaxConnsAssumption DEF IInv, TypeOK, invokeVars, connVars, serverVars
<1>1. ASSUME CloseCalled \/ Close \/ \E n \in Conns : ConnectionLost(n)
      PROVE  IInv'
  <2> USE <1>1 DEF CloseCalled, Close, ConnectionLost
  <2>1. /\ UNCHANGED <<pc, answer, via, connMu, conn, dialled, got, answered, inbox, pushed>>
        /\ readDead \subseteq readDead'
    OBVIOUS
  <2>2. TypeOK'
    OBVIOUS
  <2>3. OwesReaderOnly' /\ HoldsReadersOnly'
    BY <2>1, ReaderStaysOrKills DEF Reads
  <2> QED
    BY <2>1, <2>2, <2>3 DEF MutexInv, ConnIsLast, FutureUntouched, NotSentYet,
       AnsweredWereReceived, OncePerConnection, AnswerIsOwn
<1>2. ASSUME NEW n \in Conns, NEW c \in Calls, ServerAnswers(n, c)
      PROVE  IInv'
  <2> USE <1>2 DEF ServerAnswers
  <2>1. In(c, got[n]) /\ c \notin answered[n]
    BY DEF In
  (* The answer is the one that the reader waits for, and the first. *)
  <2>2. ASSUME Clean(n)
        PROVE  Reads(c, n) /\ inbox[n] = <<>>
    <3>1. Reads(c, n)
      BY <2>1, <2>2 DEF OwesReaderOnly
    <3>2. \A d \in answered[n] : ~Reads(d, n)
      BY <2>1, <3>1 DEF Reads
    <3> QED
      BY <2>2, <3>1, <3>2 DEF HoldsReadersOnly
  <2>3. TypeOK'
    <3>1. inbox' \in [Conns -> Seq(Calls \cup {Push})]
      BY AppendProperties
    <3> QED
      BY <3>1
  <2>4. FutureUntouched'
    BY <2>1, InEmpty DEF FutureUntouched
  <2>5. AnsweredWereReceived'
    BY <2>1 DEF AnsweredWereReceived
  <2>6. OwesReaderOnly'
    BY DEF OwesReaderOnly, Clean, Reads
  <2>7. HoldsReadersOnly'
    <3>1. ASSUME NEW m \in Conns, Clean(m)
          PROVE  \/ inbox'[m] = <<>>
                 \/ \E d \in answered'[m] : Reads(d, m) /\ inbox'[m] = <<d>>
      <4>1. CASE m = n
        <5>1. Append(<<>>, c) = <<c>>
          OBVIOUS
        <5> QED
          BY <2>2, <3>1, <4>1, <5>1
      <4>2. CASE m # n
        BY <3>1, <4>2 DEF HoldsReadersOnly
      <4> QED
        BY <4>1, <4>2
    <3> QED
      BY <3>1 DEF HoldsReadersOnly, Clean, Reads
  <2> QED
    BY <2>3, <2>4, <2>5, <2>6, <2>7 DEF MutexInv, ConnIsLast, NotSentYet, OncePerConnection,
       AnswerIsOwn
<1>3. ASSUME NEW n \in Conns, ServerPushes(n)
      PROVE  IInv'
  <2> USE <1>3 DEF ServerPushes
  <2>1. \A m \in Conns : In(m, pushed') <=> In(m, pushed) \/ m = n
    BY InAppend
  <2>2. TypeOK'
    <3>1. inbox' \in [Conns -> Seq(Calls \cup {Push})] /\ pushed' \in Seq(Conns)
      BY AppendProperties
    <3> QED
      BY <3>1
  <2>3. FutureUntouched'
    BY DEF FutureUntouched, Conns
  <2>4. \A m \in Conns : Clean(m)' => Clean(m) /\ inbox'[m] = inbox[m]
    BY <2>1 DEF Clean
  <2>5. OwesReaderOnly'
    BY <2>4 DEF OwesReaderOnly, Reads
  <2>6. HoldsReadersOnly'
    BY <2>4 DEF HoldsReadersOnly, Reads
  <2>7. AnswerIsOwn'
    <3>1. /\ pushed \in Seq(Conns) /\ n \in Conns /\ pushed' = Append(pushed, n)
          /\ UNCHANGED <<answer, via>> /\ AnswerIsOwn
      OBVIOUS
    <3> HIDE <1>3 DEF IInv, TypeOK
    <3>2. \A i \in DOMAIN pushed : i \in DOMAIN pushed' /\ pushed'[i] = pushed[i]
      BY <3>1, AppendProperties
    <3> QED
      BY <3>1, <3>2 DEF AnswerIsOwn
  <2> QED
    BY <2>2, <2>3, <2>5, <2>6, <2>7 DEF MutexInv, ConnIsLast, NotSentYet, AnsweredWereReceived,
       OncePerConnection
<1> QED
  BY <1>1, <1>2, <1>3

(* Every step preserves it. *)
LEMMA StepIInv == IInv /\ [Next]_vars => IInv'
<1>1. ASSUME IInv, UNCHANGED vars
      PROVE  IInv'
  BY <1>1 DEF IInv, TypeOK, MutexInv, ConnIsLast, FutureUntouched, NotSentYet,
     AnsweredWereReceived, Reads, Clean, OwesReaderOnly, HoldsReadersOnly, OncePerConnection,
     AnswerIsOwn, vars, invokeVars, connVars, serverVars
<1> QED
  BY <1>1, InvokeIInv, OtherIInv DEF Next

(* IInv holds in every reachable state. *)
LEMMA Invariant == Spec => []IInv
BY InitIInv, StepIInv, PTL DEF Spec

(* Every variable keeps its type, for any number of calls and connections. *)
THEOREM TypeCorrect == Spec => []TypeOK
<1>1. IInv => TypeOK
  BY DEF IInv
<1> QED
  BY <1>1, Invariant, PTL

(* Invoke returns the response to its own request although it compares no
   call ids, unless the server has pushed a request on that connection. *)
THEOREM ResponseIsOwn == Spec => []AnswerIsOwn
<1>1. IInv => AnswerIsOwn
  BY DEF IInv
<1> QED
  BY <1>1, Invariant, PTL

(* The retries of Invoke never send a request twice on one connection. *)
THEOREM SentOncePerConnection == Spec => []OncePerConnection
<1>1. IInv => OncePerConnection
  BY DEF IInv
<1> QED
  BY <1>1, Invariant, PTL
=============================================================================
