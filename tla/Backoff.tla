------------------------------ MODULE Backoff ------------------------------
(***************************************************************************)
(* How long clients wait between dials.  Every addrConn of a process draws *)
(* from one exponential backoff (internal/backoff), before each dial, and  *)
(* resets it after a successful one (resetTransport in client.go).         *)
(* UniClientConn counts for itself (retryConnectWithBackoff in             *)
(* uni_client.go), in a signed integer that wraps around.                  *)
(*                                                                         *)
(* Durations are naturals in a unit that divides all of them.  The         *)
(* exponential backoff is that of github.com/cenkalti/backoff.             *)
(***************************************************************************)
EXTENDS Integers

CONSTANTS
  Conns,          \* the client connections of the process
  BaseDelay, MaxDelay,
  MultNum, MultDen,      \* Multiplier as a fraction
  JitterNum, JitterDen,  \* Jitter as a fraction
  MaxFails,       \* failures are counted up to this number
  Second, Minute, \* in the unit of the unidirectional client
  Limit           \* its durations are in -Limit .. Limit - 1

ASSUME DelayAssumption == BaseDelay \in Nat \ {0} /\ MaxDelay \in Nat /\ BaseDelay <= MaxDelay
ASSUME MultiplierAssumption == MultNum \in Nat /\ MultDen \in Nat \ {0} /\ MultNum >= MultDen
ASSUME JitterAssumption ==   \* the jitter leaves a unit of the base delay at least
  /\ JitterNum \in Nat /\ JitterDen \in Nat \ {0} /\ JitterNum < JitterDen
  /\ BaseDelay * (JitterDen - JitterNum) >= JitterDen
ASSUME MaxFailsAssumption == MaxFails \in Nat \ {0}
ASSUME UniAssumption ==
  Second \in Nat \ {0} /\ Minute \in Nat /\ Limit \in Nat /\ Second <= Minute /\ Minute < Limit

VARIABLES
  currentInterval,  \* the interval of DefaultExponential
  phase,            \* phase[c]: "new", "dialing", "waiting", "ready" or "closed"
  backoffFor,       \* backoffFor[c]: the interval that was current at the last draw
  draws,            \* draws[c]: draws since the last success, up to MaxFails
  others,           \* others[c]: what other connections have done to the backoff since then
  uniPhase,         \* "dialing", "waiting", "connected" or "cancelled"
  reconnectWait     \* the local of retryConnectWithBackoff

connVars == <<currentInterval, phase, backoffFor, draws, others>>
uniVars == <<uniPhase, reconnectWait>>
vars == <<connVars, uniVars>>

(* The type of every variable. *)
TypeOK ==
  /\ currentInterval \in BaseDelay .. MaxDelay
  /\ phase \in [Conns -> {"new", "dialing", "waiting", "ready", "closed"}]
  /\ backoffFor \in [Conns -> 0 .. MaxDelay]
  /\ draws \in [Conns -> 0 .. MaxFails]
  /\ others \in [Conns -> SUBSET {"next", "reset"}]
  /\ uniPhase \in {"dialing", "waiting", "connected", "cancelled"}
  /\ reconnectWait \in -Limit .. Limit - 1

-----------------------------------------------------------------------------
(* The exponential backoff *)

(* NewExponential resets, which sets the initial values. *)
InitialInterval == BaseDelay

(* incrementCurrentInterval *)
Increment(interval) ==
  IF interval * MultNum >= MaxDelay * MultDen THEN MaxDelay ELSE (interval * MultNum) \div MultDen

(* The durations that NextBackOff returns for an interval are between these. *)
Shortest(interval) == (interval * (JitterDen - JitterNum)) \div JitterDen
Longest(interval) == (interval * (JitterDen + JitterNum)) \div JitterDen

Init ==
  /\ currentInterval = InitialInterval
  /\ phase = [c \in Conns |-> "new"]
  /\ backoffFor = [c \in Conns |-> 0]
  /\ draws = [c \in Conns |-> 0]
  /\ others = [c \in Conns |-> {}]
  /\ uniPhase = "dialing" /\ reconnectWait = Second

(* What c does to the backoff is something that the others have not done. *)
Tell(c, what) == [d \in Conns |-> IF d = c THEN others[d] ELSE others[d] \cup {what}]

(* NextBackOff, and the dial begins. *)
NextBackOff(c) ==
  /\ backoffFor' = [backoffFor EXCEPT ![c] = currentInterval]
  /\ currentInterval' = Increment(currentInterval)
  /\ draws' = [draws EXCEPT ![c] = IF @ < MaxFails THEN @ + 1 ELSE @]
  /\ others' = Tell(c, "next")
  /\ phase' = [phase EXCEPT ![c] = "dialing"]
  /\ UNCHANGED uniVars

(* Dial starts resetTransport. *)
Connect(c) == phase[c] = "new" /\ NextBackOff(c)

(* The wait is over, and resetTransport goes round its loop. *)
WaitOver(c) == phase[c] = "waiting" /\ NextBackOff(c)

(* A connection is lost: the next dial follows without a wait. *)
Reconnect(c) == phase[c] = "ready" /\ NextBackOff(c)

(* createTransport fails; the wait was drawn before the dial. *)
DialFails(c) ==
  /\ phase[c] = "dialing"
  /\ phase' = [phase EXCEPT ![c] = "waiting"]
  /\ UNCHANGED <<currentInterval, backoffFor, draws, others, uniVars>>

(* Variant: a success does not reset the backoff. *)
DialSucceedsWithoutReset(c) ==
  /\ phase[c] = "dialing"
  /\ phase' = [phase EXCEPT ![c] = "ready"]
  /\ draws' = [draws EXCEPT ![c] = 0]
  /\ others' = [Tell(c, "reset") EXCEPT ![c] = {}]
  /\ UNCHANGED <<currentInterval, backoffFor, uniVars>>

(* createTransport succeeds, and the backoff is reset for everyone. *)
DialSucceeds(c) ==
  /\ phase[c] = "dialing"
  /\ phase' = [phase EXCEPT ![c] = "ready"]
  /\ currentInterval' = BaseDelay
  /\ draws' = [draws EXCEPT ![c] = 0]
  /\ others' = [Tell(c, "reset") EXCEPT ![c] = {}]
  /\ UNCHANGED <<backoffFor, uniVars>>

(* Close: a wait ends, a dial that is under way changes nothing any more. *)
Close(c) ==
  /\ phase[c] \in {"dialing", "waiting", "ready"}
  /\ phase' = [phase EXCEPT ![c] = "closed"]
  /\ UNCHANGED <<currentInterval, backoffFor, draws, others, uniVars>>

-----------------------------------------------------------------------------
(* The unidirectional client *)

(* Addition of durations wraps around. *)
Wrap(n) == ((n + Limit) % (2 * Limit)) - Limit

(* Variant: the wait is doubled only. *)
LongerOfDoubleOnly(d1, d2) == d1

(* max in uni_client.go *)
LongerOf(d1, d2) == IF d1 > d2 THEN d1 ELSE d2

UniDialFails ==
  /\ uniPhase = "dialing"
  /\ uniPhase' = "waiting"
  /\ UNCHANGED <<connVars, reconnectWait>>

(* time.After fires, and the wait grows: to a minute, then without a bound. *)
UniWaitOver ==
  /\ uniPhase = "waiting"
  /\ uniPhase' = "dialing"
  /\ reconnectWait' = LongerOf(Wrap(reconnectWait * 2), Minute)
  /\ UNCHANGED connVars

UniCancelled ==
  /\ uniPhase = "waiting"
  /\ uniPhase' = "cancelled"
  /\ UNCHANGED <<connVars, reconnectWait>>

UniDialSucceeds ==
  /\ uniPhase = "dialing"
  /\ uniPhase' = "connected"
  /\ UNCHANGED <<connVars, reconnectWait>>

(* Dial and each reconnect of Invoke call retryConnectWithBackoff afresh. *)
UniReconnect ==
  /\ uniPhase \in {"connected", "cancelled"}
  /\ uniPhase' = "dialing"
  /\ reconnectWait' = Second
  /\ UNCHANGED connVars

-----------------------------------------------------------------------------
ConnNext(c) == \/ Connect(c) \/ WaitOver(c) \/ Reconnect(c) \/ DialFails(c)
               \/ DialSucceeds(c) \/ Close(c)
UniNext == \/ UniDialFails \/ UniWaitOver \/ UniCancelled \/ UniDialSucceeds \/ UniReconnect

Next == (\E c \in Conns : ConnNext(c)) \/ UniNext

Spec == Init /\ [][Next]_vars

-----------------------------------------------------------------------------
(* The delay after n failures in a row, as the comments on Config have it:
   BaseDelay after the first one, times Multiplier for each one more, and at
   most MaxDelay. *)
Delay[n \in 1 .. MaxFails] ==
  IF n = 1 THEN BaseDelay
  ELSE LET d == (Delay[n - 1] * MultNum) \div MultDen IN IF d < MaxDelay THEN d ELSE MaxDelay

(* MaxFails failures in a row reach MaxDelay: counting no further loses nothing. *)
ASSUME ScheduleAssumption == Delay[MaxFails] = MaxDelay

(* A connection that nobody else disturbs waits by that schedule, also after
   it has been connected in between.  One that others disturb never waits
   less than that, as long as no other connection succeeds: a success resets
   the backoff that all connections share. *)
FollowsSchedule ==
  \A c \in Conns : phase[c] \in {"dialing", "waiting"} =>
     /\ others[c] = {} => backoffFor[c] = Delay[draws[c]]
     /\ "reset" \notin others[c] => backoffFor[c] >= Delay[draws[c]]

(* No connection waits too long, no client dials again without a wait, however many draw
   from the backoff and whatever they do to it: waits of a connection are
   between BaseDelay and MaxDelay, give or take the jitter, and those of the
   unidirectional client never shorter than a second, even when doubling
   overflows.  They have no upper bound but the overflow. *)
WaitsAreInRange ==
  /\ \A c \in Conns : phase[c] = "waiting" =>
       /\ 0 < Shortest(backoffFor[c]) /\ Shortest(BaseDelay) <= Shortest(backoffFor[c])
       /\ Longest(backoffFor[c]) <= Longest(MaxDelay)
  /\ uniPhase = "waiting" => Second <= reconnectWait
=============================================================================
