----------------------------- MODULE MCServices -----------------------------
(* Two services of package pb with a method name in common: A has its Go name in
   the .proto file; B has not, and its Go name is A's. *)
EXTENDS Services

CONSTANTS A, B

MCMethods == [s \in ServiceSet |-> IF s = A THEN <<"Ping", "Put">> ELSE <<"Echo", "Ping">>]
MCGoName == [s \in ServiceSet |-> A]
=============================================================================
