------------------------------ MODULE MCMachine ------------------------------
(* Machine with one client, which is enough for two requests that change the *)
(* state, and a channel smaller than the code's, so that it fills.           *)
EXTENDS Machine

CONSTANT c1

OneClient == {c1}
NoServer  == {}
=============================================================================
