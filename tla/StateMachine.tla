---------------------------- MODULE StateMachine ----------------------------
(***************************************************************************)
(* What the states of the agent promise, whatever each does: the order     *)
(* they come in, which of them a request may end, and for which others.    *)
(* Nothing but a handler takes the agent on from an install, an install    *)
(* only follows a validation, and a reboot an install.                     *)
(***************************************************************************)
VARIABLE state

\* Before the machine is started, and after its process has ended.
Down == "down"

Preemptive  == {"park", "entryPoint", "poll", "probe", "validation"}
Downloading == {"download", "directDownload"}

Leads == [park                |-> {"park"},
          entryPoint          |-> {"probe", "poll", "park", "error"},
          poll                |-> {"probe"},
          probe               |-> {"probe", "entryPoint", "validation", "error"},
          validation          |-> {"download", "install", "entryPoint", "error"},
          download            |-> {"validation", "entryPoint", "error"},
          directDownload      |-> {"prepareLocalInstall", "entryPoint", "error"},
          prepareLocalInstall |-> {"validation", "entryPoint", "error"},
          install             |-> {"reboot", "entryPoint", "error"},
          reboot              |-> {"entryPoint", "error"},
          error               |-> {"entryPoint"}]

Init == state \in {Down, "entryPoint"}

Start == state = Down /\ state' = "entryPoint"

\* A handler ends.
Move == state \in DOMAIN Leads /\ state' \in Leads[state]

\* A probe that a client asked for is answered, or a package is given.
Request == /\ state \in Preemptive
           /\ state' \in {"entryPoint", "validation", "prepareLocalInstall", "directDownload"}

Abort == state \in Downloading /\ state' = "entryPoint"

Stop == state' = Down

Next == Start \/ Move \/ Request \/ Abort \/ Stop

Spec == Init /\ [][Next]_state
=============================================================================
