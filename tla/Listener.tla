-------------------------------- MODULE Listener --------------------------------
(***************************************************************************)
(* The programs that listen for the agent's changes of state.  Before it   *)
(* enters a state, the agent runs a script that hands the name of the      *)
(* state to a listener's socket and prints what comes back.  A listener    *)
(* runs the callbacks registered for the state, one after the other, each  *)
(* of which may write "cancel" to the connection.  An error of a callback, *)
(* like a state it does not know, ends the listener.                       *)
(***************************************************************************)
EXTENDS Naturals, Sequences, FiniteSets

CONSTANT Callbacks   \* what the callbacks of a state may do, in their order

Reaction == {"proceed", "cancel", "fail"}

ASSUME ListenerAssumption == Callbacks \subseteq Seq(Reaction)

\* listener::State
Listened == {"probe", "download", "install", "reboot", "error"}

\* The callbacks that run: up to the first that fails.
Ran(cs) == {i \in DOMAIN cs : \A j \in 1..(i - 1) : cs[j] # "fail"}

\* Handler::cancel appends to what the connection carries.
Cancels(cs) == {i \in Ran(cs) : cs[i] = "cancel"}

\* A slip: what is neither "cancel" nor empty lets the agent go on.
TransitionLenient(cs) ==
  IF Cardinality(Cancels(cs)) = 1 THEN "cancel" ELSE "continue"

\* What state_change_callback makes of the output: "cancelcancel" is invalid.
Transition(cs) ==
  CASE Cancels(cs) = {}              -> "continue"
    [] Cardinality(Cancels(cs)) = 1  -> "cancel"
    [] Cardinality(Cancels(cs)) > 1  -> "error"
================================================================================
