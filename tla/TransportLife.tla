--------------------------- MODULE TransportLife ---------------------------
(***************************************************************************)
(* What a Server relies on in a transport (transport.go: ServerTransport   *)
(* and the afterWritePump callback of NewServerTransport): it runs until   *)
(* the connection fails or Close is called, and then calls afterWritePump, *)
(* once.  ServerConns uses a transport in this form; ServerTransport shows *)
(* that the two pumps of websocket_server.go implement it.                 *)
(***************************************************************************)

VARIABLES
  tr,         \* "running", "exited" (writePump has returned), "finished" (afterWritePump called)
  closeReq    \* Close has been called

vars == <<tr, closeReq>>

Init == tr = "running" /\ closeReq = FALSE

Close == closeReq' = TRUE /\ UNCHANGED tr

Exit == tr = "running" /\ tr' = "exited" /\ UNCHANGED closeReq

Finish == tr = "exited" /\ closeReq /\ tr' = "finished" /\ UNCHANGED closeReq

Next == Close \/ Exit \/ Finish

SafeSpec == Init /\ [][Next]_vars

(* A transport may run for ever, but not once Close has been called, and one
   that has exited calls back. *)
Fairness == WF_vars(closeReq /\ Exit) /\ WF_vars(Finish) /\ WF_vars(tr = "exited" /\ Close)

Spec == SafeSpec /\ Fairness
=============================================================================
