--------------------------- MODULE BackoffProofs ---------------------------
(***************************************************************************)
(* Proofs about Backoff for any number of connections and any delays,      *)
(* multiplier and jitter.                                                  *)
(***************************************************************************)
EXTENDS Backoff, WellFoundedInduction, NaturalsInduction, TLAPS

(* Arithmetic *)

(* Multiplication is monotonic. *)
LEMMA TimesMonotonic ==
  ASSUME NEW a \in Int, NEW b \in Int, NEW d \in Nat, a <= b
  PROVE  a * d <= b * d
OBVIOUS

(* What the quotient is. *)
LEMMA Quotient ==
  ASSUME NEW a \in Nat, NEW d \in Nat \ {0}
  PROVE  /\ a \div d \in Nat
         /\ (a \div d) * d <= a
         /\ a < (a \div d + 1) * d
OBVIOUS

(* Integer division reaches a quotient exactly when the dividend reaches the
   product. *)
LEMMA QuotientReaches ==
  ASSUME NEW a \in Nat, NEW d \in Nat \ {0}, NEW q \in Nat
  PROVE  q <= a \div d <=> q * d <= a
<1> DEFINE p == a \div d
<1>1. p \in Nat /\ p * d <= a /\ a < (p + 1) * d
  BY Quotient
<1> HIDE DEF p
<1>2. ASSUME q <= p PROVE q * d <= a
  <2>1. q * d <= p * d
    BY <1>1, <1>2, TimesMonotonic
  <2> QED
    BY <1>1, <2>1
<1>3. ASSUME ~(q <= p) PROVE ~(q * d <= a)
  <2>1. (p + 1) * d <= q * d
    BY <1>1, <1>3, TimesMonotonic
  <2> QED
    BY <1>1, <2>1
<1>4. q <= p <=> q * d <= a
  BY <1>2, <1>3
<1> QED
  BY <1>4 DEF p

(* Integer division is monotonic. *)
LEMMA QuotientMonotonic ==
  ASSUME NEW a \in Nat, NEW b \in Nat, NEW d \in Nat \ {0}, a <= b
  PROVE  a \div d <= b \div d
<1> DEFINE q == a \div d
<1>1. q \in Nat /\ q * d <= a
  BY Quotient
<1> HIDE DEF q
<1>2. q * d <= b
  BY <1>1
<1>3. q <= b \div d
  BY <1>1, <1>2, QuotientReaches
<1> QED
  BY <1>3 DEF q

(* A set of naturals has a least element. *)
LEMMA Least ==
  ASSUME NEW T \in SUBSET Nat, T # {}
  PROVE  \E x \in T : \A y \in T : x <= y
<1> DEFINE R == {ss \in Nat \X Nat : ss[1] < ss[2]}
<1>1. IsWellFoundedOn(R, Nat)
  BY NatLessThanWellFounded DEF OpToRel
<1>2. \A y, x \in Nat : y < x => <<y, x>> \in R
  OBVIOUS
<1> HIDE DEF R
<1>3. PICK x \in T : \A y \in T : ~(<<y, x>> \in R)
  BY <1>1, WFMin, Zenon
<1>4. \A y \in T : ~(y < x)
  BY <1>2, <1>3
<1> QED
  BY <1>4

-----------------------------------------------------------------------------
(* The schedule *)

(* The delay after one failure more, as Delay has it. *)
Grow(d) == LET e == (d * MultNum) \div MultDen IN IF e < MaxDelay THEN e ELSE MaxDelay

(* The function f follows the schedule for n failures. *)
Schedule(f, n) == f = [k \in 1 .. n |-> IF k = 1 THEN BaseDelay ELSE Grow(f[k - 1])]

(* A schedule can be continued ... *)
LEMMA ScheduleExtends ==
  ASSUME NEW n \in Nat, NEW f, Schedule(f, n)
  PROVE  \E g : Schedule(g, n + 1)
<1> DEFINE g == [k \in 1 .. n + 1 |-> IF k = 1 THEN BaseDelay ELSE Grow(f[k - 1])]
<1>1. \A k \in 1 .. n : f[k] = IF k = 1 THEN BaseDelay ELSE Grow(f[k - 1])
  BY DEF Schedule
<1>2. \A k \in 1 .. n : g[k] = f[k]
  BY <1>1
<1>3. ASSUME NEW k \in 1 .. n + 1
      PROVE  g[k] = IF k = 1 THEN BaseDelay ELSE Grow(g[k - 1])
  <2>1. CASE k = 1
    BY <2>1
  <2>2. CASE k # 1
    <3>1. k - 1 \in 1 .. n
      BY <2>2
    <3>2. g[k] = Grow(f[k - 1])
      BY <2>2
    <3> HIDE DEF g
    <3> QED
      BY <1>2, <2>2, <3>1, <3>2
  <2> QED
    BY <2>1, <2>2
<1>4. g = [k \in 1 .. n + 1 |-> IF k = 1 THEN BaseDelay ELSE Grow(g[k - 1])]
  <2>1. g = [k \in 1 .. n + 1 |-> g[k]]
    OBVIOUS
  <2> HIDE DEF g
  <2> QED
    BY <1>3, <2>1
<1> HIDE DEF g
<1> QED
  BY <1>4 DEF Schedule

(* ... so there is one of every length ... *)
LEMMA ScheduleExists == \A n \in Nat : \E f : Schedule(f, n)
<1> DEFINE T == {n \in Nat : ~\E f : Schedule(f, n)}
<1> SUFFICES ASSUME T # {} PROVE FALSE
  OBVIOUS
<1>1. T \in SUBSET Nat
  OBVIOUS
<1>2. PICK n \in T : \A m \in T : n <= m
  <2> HIDE DEF T
  <2> QED
    BY <1>1, Least
<1>3. n # 0
  <2>1. Schedule([k \in {} |-> 0], 0)
    <3>1. 1 .. 0 = {}
      OBVIOUS
    <3> QED
      BY <3>1 DEF Schedule
  <2> QED
    BY <2>1
<1>4. n - 1 \in Nat /\ n - 1 \notin T
  BY <1>2, <1>3
<1>5. PICK f : Schedule(f, n - 1)
  BY <1>4
<1>6. \E g : Schedule(g, n - 1 + 1)
  BY <1>4, <1>5, ScheduleExtends
<1>7. n - 1 + 1 = n
  OBVIOUS
<1> QED
  BY <1>6, <1>7

(* ... and Delay, which is defined by recursion, is one. *)
LEMMA DelayEquation == Schedule(Delay, MaxFails)
<1>1. \E f : Schedule(f, MaxFails)
  BY MaxFailsAssumption, ScheduleExists
<1>2. Delay = CHOOSE f : Schedule(f, MaxFails)
  BY DEF Delay, Schedule, Grow
<1> HIDE DEF Delay
<1> QED
  BY <1>1, <1>2

(* incrementCurrentInterval compares before it divides and Delay after it: the
   result is the same. *)
LEMMA IncrementIsGrow == \A d \in Nat : Increment(d) = Grow(d)
<1> SUFFICES ASSUME NEW d \in Nat PROVE Increment(d) = Grow(d)
  OBVIOUS
<1> DEFINE a == d * MultNum
<1>1. a \in Nat
  BY MultiplierAssumption
<1>2. a \div MultDen \in Nat
  BY <1>1, Quotient, MultiplierAssumption
<1>3. MaxDelay <= a \div MultDen <=> MaxDelay * MultDen <= a
  <2> HIDE DEF a
  <2> QED
    BY <1>1, QuotientReaches, MultiplierAssumption, DelayAssumption
<1>4. MaxDelay * MultDen \in Nat
  BY MultiplierAssumption, DelayAssumption
<1>5. /\ Increment(d) = IF a >= MaxDelay * MultDen THEN MaxDelay ELSE a \div MultDen
      /\ Grow(d) = IF a \div MultDen < MaxDelay THEN a \div MultDen ELSE MaxDelay
  BY DEF Increment, Grow
<1> HIDE DEF a
<1> DEFINE e == a \div MultDen
           m == MaxDelay * MultDen
<1>6. e \in Nat /\ m \in Nat /\ (MaxDelay <= e <=> m <= a)
  BY <1>2, <1>3, <1>4
<1>7. /\ Increment(d) = IF a >= m THEN MaxDelay ELSE e
      /\ Grow(d) = IF e < MaxDelay THEN e ELSE MaxDelay
  BY <1>5
<1> HIDE DEF e, m
<1> QED
  BY <1>1, <1>6, <1>7, DelayAssumption

(* An interval grows, up to MaxDelay. *)
LEMMA GrowGrows ==
  ASSUME NEW d \in Nat, d <= MaxDelay
  PROVE  Grow(d) \in d .. MaxDelay
<1>1. d * MultDen <= d * MultNum
  BY TimesMonotonic, MultiplierAssumption
<1>2. d * MultNum \in Nat
  BY MultiplierAssumption
<1>3. d <= (d * MultNum) \div MultDen
  BY <1>1, <1>2, QuotientReaches, MultiplierAssumption
<1>4. (d * MultNum) \div MultDen \in Nat
  BY <1>2, Quotient, MultiplierAssumption
<1> QED
  BY <1>3, <1>4, DelayAssumption DEF Grow

(* Of two intervals the longer one grows to the longer one. *)
LEMMA GrowMonotonic ==
  ASSUME NEW d \in Nat, NEW e \in Nat, d <= e
  PROVE  Grow(d) <= Grow(e)
<1>1. d * MultNum \in Nat /\ e * MultNum \in Nat
  BY MultiplierAssumption
<1>2. d * MultNum <= e * MultNum
  BY TimesMonotonic, MultiplierAssumption
<1>3. (d * MultNum) \div MultDen <= (e * MultNum) \div MultDen
  BY <1>1, <1>2, QuotientMonotonic, MultiplierAssumption
<1>4. (d * MultNum) \div MultDen \in Nat /\ (e * MultNum) \div MultDen \in Nat
  BY <1>1, Quotient, MultiplierAssumption
<1> QED
  BY <1>3, <1>4, DelayAssumption DEF Grow

(* The delays of the schedule are between BaseDelay and MaxDelay. *)
LEMMA DelayType == \A n \in 1 .. MaxFails : Delay[n] \in BaseDelay .. MaxDelay
<1> DEFINE T == {n \in 1 .. MaxFails : Delay[n] \notin BaseDelay .. MaxDelay}
<1> SUFFICES ASSUME T # {} PROVE FALSE
  OBVIOUS
<1>1. T \in SUBSET Nat
  BY MaxFailsAssumption
<1>2. PICK n \in T : \A m \in T : n <= m
  <2> HIDE DEF T
  <2> QED
    BY <1>1, Least
<1>3. n \in 1 .. MaxFails /\ Delay[n] = IF n = 1 THEN BaseDelay ELSE Grow(Delay[n - 1])
  BY DelayEquation DEF Schedule
<1>4. n # 1
  BY <1>3, DelayAssumption
<1>5. n - 1 \in 1 .. MaxFails /\ n - 1 \notin T
  BY <1>2, <1>3, <1>4, MaxFailsAssumption
<1>6. Delay[n - 1] \in BaseDelay .. MaxDelay
  BY <1>5
<1>7. Grow(Delay[n - 1]) \in BaseDelay .. MaxDelay
  BY <1>6, GrowGrows, DelayAssumption
<1> QED
  BY <1>3, <1>4, <1>7

(* The number of failures after one failure more. *)
OneMore(n) == IF n < MaxFails THEN n + 1 ELSE n

(* An interval of the schedule grows into the next one. *)
LEMMA DelayGrows ==
  /\ Delay[1] = BaseDelay
  /\ \A n \in 1 .. MaxFails : Grow(Delay[n]) = Delay[OneMore(n)]
<1>1. Delay[1] = BaseDelay
  BY DelayEquation, MaxFailsAssumption DEF Schedule
<1>2. ASSUME NEW n \in 1 .. MaxFails PROVE Grow(Delay[n]) = Delay[OneMore(n)]
  <2>1. CASE n < MaxFails
    <3>1. n + 1 \in 1 .. MaxFails /\ n + 1 # 1 /\ n + 1 - 1 = n
      BY <2>1, MaxFailsAssumption
    <3>2. Delay[n + 1] = Grow(Delay[n + 1 - 1])
      BY <3>1, DelayEquation DEF Schedule
    <3> QED
      BY <2>1, <3>1, <3>2 DEF OneMore
  <2>2. CASE n = MaxFails
    <3>1. Grow(MaxDelay) = MaxDelay
      BY GrowGrows, DelayAssumption
    <3> QED
      BY <2>2, <3>1, ScheduleAssumption, MaxFailsAssumption DEF OneMore
  <2> QED
    BY <2>1, <2>2, MaxFailsAssumption
<1> QED
  BY <1>1, <1>2
-----------------------------------------------------------------------------
(* The state machine *)

(* A connection that dials or waits has drawn an interval. *)
DrawnInv == \A c \in Conns : phase[c] \in {"dialing", "waiting"} =>
               draws[c] # 0 /\ backoffFor[c] >= BaseDelay

(* The next draw of a connection follows the schedule as well. *)
ScheduleInv ==
  \A c \in Conns :
     /\ others[c] = {} => currentInterval = Delay[OneMore(draws[c])]
     /\ "reset" \notin others[c] => currentInterval >= Delay[OneMore(draws[c])]

(* The wait of the unidirectional client has been a second at least. *)
UniInv == Second <= reconnectWait

IInv == TypeOK /\ DrawnInv /\ ScheduleInv /\ FollowsSchedule /\ UniInv

(* Counting a failure stays within the bound. *)
LEMMA OneMoreType == \A n \in 0 .. MaxFails : OneMore(n) \in 1 .. MaxFails
BY MaxFailsAssumption DEF OneMore

(* The initial state satisfies the inductive invariant. *)
LEMMA InitIInv == Init => IInv
<1> SUFFICES ASSUME Init PROVE IInv
  OBVIOUS
<1> USE DelayAssumption, MaxFailsAssumption, UniAssumption DEF Init, InitialInterval
<1>1. TypeOK
  BY DEF TypeOK
<1>2. DrawnInv /\ UniInv /\ FollowsSchedule
  BY DEF DrawnInv, UniInv, FollowsSchedule
<1>3. ScheduleInv
  <2>1. OneMore(0) = 1
    BY DEF OneMore
  <2>2. Delay[1] = BaseDelay /\ currentInterval = BaseDelay
    BY DelayGrows
  <2>3. \A c \in Conns : Delay[OneMore(draws[c])] = BaseDelay
    BY <2>1, <2>2
  <2>4. currentInterval >= BaseDelay
    BY <2>2
  <2> QED
    BY <2>2, <2>3, <2>4 DEF ScheduleInv
<1> QED
  BY <1>1, <1>2, <1>3 DEF IInv

(* A draw preserves it. *)
LEMMA NextBackOffIInv == ASSUME IInv, NEW c \in Conns, NextBackOff(c) PROVE IInv'
<1> USE DEF IInv
<1>1. /\ currentInterval \in Nat /\ currentInterval \in BaseDelay .. MaxDelay
      /\ currentInterval' = Grow(currentInterval)
      /\ currentInterval' \in currentInterval .. MaxDelay
  <2>1. currentInterval \in Nat /\ currentInterval \in BaseDelay .. MaxDelay
    BY DelayAssumption DEF TypeOK
  <2>2. currentInterval' = Grow(currentInterval)
    BY <2>1, IncrementIsGrow DEF NextBackOff
  <2> QED
    BY <2>1, <2>2, GrowGrows
<1>2. \A d \in Conns : draws[d] \in 0 .. MaxFails /\ OneMore(draws[d]) \in 1 .. MaxFails
  BY OneMoreType DEF TypeOK
<1>3. /\ draws' = [draws EXCEPT ![c] = OneMore(draws[c])]
      /\ backoffFor' = [backoffFor EXCEPT ![c] = currentInterval]
      /\ phase' = [phase EXCEPT ![c] = "dialing"]
      /\ UNCHANGED <<uniPhase, reconnectWait>>
  BY DEF NextBackOff, uniVars, OneMore
<1>4. /\ others'[c] = others[c]
      /\ \A d \in Conns \ {c} : others'[d] = others[d] \cup {"next"}
      /\ others' \in [Conns -> SUBSET {"next", "reset"}]
  BY DEF NextBackOff, Tell, TypeOK
<1>5. TypeOK'
  <2>1. currentInterval' \in BaseDelay .. MaxDelay
    BY <1>1, DelayAssumption
  <2>2. backoffFor' \in [Conns -> 0 .. MaxDelay]
    BY <1>1, <1>3, DelayAssumption DEF TypeOK
  <2>3. draws' \in [Conns -> 0 .. MaxFails]
    BY <1>2, <1>3, MaxFailsAssumption DEF TypeOK
  <2> QED
    BY <2>1, <2>2, <2>3, <1>3, <1>4 DEF TypeOK
<1>6. DrawnInv'
  BY <1>1, <1>2, <1>3, MaxFailsAssumption DEF DrawnInv, TypeOK
<1>7. ScheduleInv'
  <2> SUFFICES ASSUME NEW d \in Conns
               PROVE  (/\ others[d] = {} => currentInterval = Delay[OneMore(draws[d])]
                       /\ "reset" \notin others[d] =>
                            currentInterval >= Delay[OneMore(draws[d])])'
    BY DEF ScheduleInv
  <2> DEFINE n == OneMore(draws[d])
  <2>1. n \in 1 .. MaxFails /\ Delay[n] \in Nat /\ Delay[n] \in BaseDelay .. MaxDelay
    BY <1>2, DelayType, DelayAssumption
  <2>2. /\ others[d] = {} => currentInterval = Delay[n]
        /\ "reset" \notin others[d] => currentInterval >= Delay[n]
    BY DEF ScheduleInv
  <2>3. CASE d = c
    <3>1. draws'[d] = n /\ others'[d] = others[d]
      BY <1>3, <1>4, <2>3 DEF TypeOK
    <3>2. Grow(Delay[n]) = Delay[OneMore(n)]
      BY <2>1, DelayGrows
    <3> HIDE DEF n
    <3>3. "reset" \notin others[d] => Grow(currentInterval) >= Grow(Delay[n])
      BY <1>1, <2>1, <2>2, GrowMonotonic
    <3> QED
      BY <1>1, <2>2, <3>1, <3>2, <3>3
  <2>4. CASE d # c
    <3>1. draws'[d] = draws[d] /\ others'[d] = others[d] \cup {"next"}
      BY <1>3, <1>4, <2>4 DEF TypeOK
    <3>2. "reset" \notin others[d] => currentInterval' >= Delay[n]
      <4> HIDE DEF n
      <4> QED
        BY <1>1, <2>1, <2>2
    <3> QED
      BY <3>1, <3>2
  <2> QED
    BY <2>3, <2>4
<1>8. FollowsSchedule'
  <2> SUFFICES ASSUME NEW d \in Conns, phase'[d] \in {"dialing", "waiting"}
               PROVE  (/\ others[d] = {} => backoffFor[d] = Delay[draws[d]]
                       /\ "reset" \notin others[d] => backoffFor[d] >= Delay[draws[d]])'
    BY DEF FollowsSchedule
  <2>1. CASE d = c
    BY <1>3, <1>4, <2>1 DEF ScheduleInv, TypeOK
  <2>2. CASE d # c
    BY <1>3, <1>4, <2>2 DEF FollowsSchedule, TypeOK
  <2> QED
    BY <2>1, <2>2
<1>9. UniInv'
  BY <1>3 DEF UniInv
<1> QED
  BY <1>5, <1>6, <1>7, <1>8, <1>9

(* So does the reset after a successful dial. *)
LEMMA DialSucceedsIInv == ASSUME IInv, NEW c \in Conns, DialSucceeds(c) PROVE IInv'
<1> USE DEF IInv, DialSucceeds, uniVars
<1>1. /\ others'[c] = {}
      /\ \A d \in Conns \ {c} : others'[d] = others[d] \cup {"reset"}
      /\ others' \in [Conns -> SUBSET {"next", "reset"}]
  BY DEF Tell, TypeOK
<1>2. TypeOK'
  BY <1>1, DelayAssumption, MaxFailsAssumption DEF TypeOK
<1>3. DrawnInv'
  BY DEF DrawnInv, TypeOK
<1>4. ScheduleInv'
  <2>1. draws'[c] = 0 /\ OneMore(0) = 1
    BY MaxFailsAssumption DEF TypeOK, OneMore
  <2>2. Delay[1] = BaseDelay /\ currentInterval' = BaseDelay
    BY DelayGrows
  <2>3. \A d \in Conns : d # c => others'[d] # {} /\ "reset" \in others'[d]
    BY <1>1
  <2> HIDE DEF DialSucceeds
  <2> QED
    BY <1>1, <2>1, <2>2, <2>3, DelayAssumption DEF ScheduleInv
<1>5. FollowsSchedule'
  BY <1>1 DEF FollowsSchedule, TypeOK
<1>6. UniInv'
  BY DEF UniInv
<1> QED
  BY <1>2, <1>3, <1>4, <1>5, <1>6

(* The end of a dial or of a connection touches no interval. *)
LEMMA PhaseIInv == ASSUME IInv, NEW c \in Conns, DialFails(c) \/ Close(c) PROVE IInv'
<1> USE DEF IInv, DialFails, Close, uniVars, TypeOK
<1>1. TypeOK'
  OBVIOUS
<1>2. DrawnInv'
  BY DEF DrawnInv
<1>3. ScheduleInv'
  BY DEF ScheduleInv
<1>4. FollowsSchedule'
  BY DEF FollowsSchedule
<1>5. UniInv'
  BY DEF UniInv
<1> QED
  BY <1>1, <1>2, <1>3, <1>4, <1>5

(* The unidirectional client preserves it: when doubling overflows, a minute is
   the longer of the two. *)
LEMMA UniIInv == ASSUME IInv, UniNext PROVE IInv'
<1> USE UniAssumption DEF IInv, UniNext, UniDialFails, UniWaitOver, UniCancelled, UniDialSucceeds,
        UniReconnect
<1>1. UNCHANGED connVars
  OBVIOUS
<1>2. reconnectWait' \in -Limit .. Limit - 1 /\ Second <= reconnectWait'
  <2>1. CASE UniWaitOver
    <3>1. 2 * Limit \in Nat \ {0} /\ reconnectWait * 2 + Limit \in Int
      BY DEF TypeOK
    <3>2. (reconnectWait * 2 + Limit) % (2 * Limit) \in 0 .. 2 * Limit - 1
      BY <3>1
    <3>3. Wrap(reconnectWait * 2) \in -Limit .. Limit - 1
      BY <3>2 DEF Wrap
    <3> QED
      BY <2>1, <3>3 DEF LongerOf
  <2>2. CASE ~UniWaitOver
    BY <2>2 DEF TypeOK, UniInv
  <2> QED
    BY <2>1, <2>2
<1>3. uniPhase' \in {"dialing", "waiting", "connected", "cancelled"}
  OBVIOUS
<1> HIDE DEF UniNext
<1>4. TypeOK'
  BY <1>1, <1>2, <1>3 DEF TypeOK, connVars
<1>5. (DrawnInv /\ ScheduleInv /\ FollowsSchedule)'
  BY <1>1 DEF connVars, DrawnInv, ScheduleInv, FollowsSchedule
<1>6. UniInv'
  BY <1>2 DEF UniInv
<1> QED
  BY <1>4, <1>5, <1>6

(* Every step preserves it. *)
LEMMA StepIInv == IInv /\ [Next]_vars => IInv'
<1> SUFFICES ASSUME IInv, [Next]_vars PROVE IInv'
  OBVIOUS
<1>1. CASE \E c \in Conns : ConnNext(c)
  BY <1>1, NextBackOffIInv, DialSucceedsIInv, PhaseIInv DEF ConnNext, Connect, WaitOver, Reconnect
<1>2. CASE UniNext
  BY <1>2, UniIInv
<1>3. CASE UNCHANGED vars
  BY <1>3 DEF vars, connVars, uniVars, IInv, TypeOK, DrawnInv, ScheduleInv, FollowsSchedule, UniInv
<1> QED
  BY <1>1, <1>2, <1>3 DEF Next

LEMMA Invariant == Spec => []IInv
BY InitIInv, StepIInv, PTL DEF Spec

(* The waits that the invariant allows are in range. *)
LEMMA RangeFollows == IInv => WaitsAreInRange
<1> SUFFICES ASSUME IInv PROVE WaitsAreInRange
  OBVIOUS
<1>1. ASSUME NEW c \in Conns, phase[c] = "waiting"
      PROVE  /\ 0 < Shortest(backoffFor[c]) /\ Shortest(BaseDelay) <= Shortest(backoffFor[c])
             /\ Longest(backoffFor[c]) <= Longest(MaxDelay)
  <2> DEFINE b == backoffFor[c]
             less == JitterDen - JitterNum
             more == JitterDen + JitterNum
  <2>1. b \in Nat /\ BaseDelay <= b /\ b <= MaxDelay
    BY <1>1, DelayAssumption DEF IInv, TypeOK, DrawnInv
  <2>2. less \in Nat /\ more \in Nat
    BY JitterAssumption
  <2>3. BaseDelay * less >= JitterDen
    BY JitterAssumption
  <2> HIDE DEF b, less, more
  <2>4. BaseDelay * less <= b * less /\ b * more <= MaxDelay * more
    BY <2>1, <2>2, TimesMonotonic, DelayAssumption
  <2>5. /\ BaseDelay * less \in Nat /\ b * less \in Nat
        /\ b * more \in Nat /\ MaxDelay * more \in Nat
    BY <2>1, <2>2, DelayAssumption
  <2>6. 1 <= (BaseDelay * less) \div JitterDen
    BY <2>3, <2>5, QuotientReaches, JitterAssumption
  <2>7. (BaseDelay * less) \div JitterDen <= (b * less) \div JitterDen
    BY <2>4, <2>5, QuotientMonotonic, JitterAssumption
  <2>8. (b * more) \div JitterDen <= (MaxDelay * more) \div JitterDen
    BY <2>4, <2>5, QuotientMonotonic, JitterAssumption
  <2>9. (BaseDelay * less) \div JitterDen \in Nat /\ (b * less) \div JitterDen \in Nat
    BY <2>5, Quotient, JitterAssumption
  <2>10. 0 < (b * less) \div JitterDen
    BY <2>6, <2>7, <2>9
  <2> QED
    BY <2>7, <2>8, <2>10 DEF Shortest, Longest, b, less, more
<1> QED
  BY <1>1 DEF WaitsAreInRange, IInv, UniInv

(* Every variable keeps its type. *)
THEOREM TypeCorrect == Spec => []TypeOK
<1>1. IInv => TypeOK
  BY DEF IInv
<1> QED
  BY <1>1, Invariant, PTL

(* A connection that is not disturbed waits by the documented schedule, and no
   other connection than one that succeeds makes it wait less. *)
THEOREM ScheduleIsKept == Spec => []FollowsSchedule
<1>1. IInv => FollowsSchedule
  BY DEF IInv
<1> QED
  BY <1>1, Invariant, PTL

(* Waits are never too long and never too short, whatever the overflow. *)
THEOREM WaitsStayInRange == Spec => []WaitsAreInRange
BY RangeFollows, Invariant, PTL
=============================================================================
