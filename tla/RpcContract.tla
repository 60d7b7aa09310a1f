---------------------------- MODULE RpcContract ----------------------------
(***************************************************************************)
(* What ClientInterface.Invoke promises its caller, whichever side makes   *)
(* the call: a call is addressed to one peer, it returns at most once, and *)
(* it returns a reply only if the peer it was addressed to has answered    *)
(* that very call.  Everything else (not connected, write error, timeout)  *)
(* is a failure, which may happen at any time.                             *)
(***************************************************************************)
CONSTANTS Calls,  \* the invocations of Invoke, each with its own call id
          Keys,   \* the public keys that identify the peers
          None    \* no key

VARIABLES status,   \* how far each call has come
          key,      \* the peer each call is addressed to
          answers,  \* the answers peers have sent, as <<peer, call>> pairs
          answer    \* the peer whose answer a call has returned

vars == <<status, key, answers, answer>>

Init == /\ status = [c \in Calls |-> "idle"]
        /\ key = [c \in Calls |-> None]
        /\ answers = {}
        /\ answer = [c \in Calls |-> None]

(* The caller enters Invoke with a context that names the peer k. *)
Begin(c, k) == /\ status[c] = "idle"
               /\ status' = [status EXCEPT ![c] = "pending"]
               /\ key' = [key EXCEPT ![c] = k]
               /\ UNCHANGED <<answers, answer>>

(* A peer answers some call: its own, another peer's, or one it has answered. *)
Answer(k, c) == /\ answers' = answers \cup {<<k, c>>}
                /\ UNCHANGED <<status, key, answer>>

(* Invoke returns the reply of the peer the call is addressed to. *)
Reply(c) == /\ status[c] = "pending"
            /\ <<key[c], c>> \in answers
            /\ status' = [status EXCEPT ![c] = "returned"]
            /\ answer' = [answer EXCEPT ![c] = key[c]]
            /\ UNCHANGED <<key, answers>>

(* Invoke returns an error of its own making. *)
Fail(c) == /\ status[c] \in {"idle", "pending"}
           /\ status' = [status EXCEPT ![c] = "returned"]
           /\ UNCHANGED <<key, answers, answer>>

Next == \/ \E c \in Calls, k \in Keys : Begin(c, k) \/ Answer(k, c)
        \/ \E c \in Calls : Reply(c) \/ Fail(c)

Spec == Init /\ [][Next]_vars
=============================================================================
