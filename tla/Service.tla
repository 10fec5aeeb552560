------------------------------ MODULE Service ------------------------------
(***************************************************************************)
(* What the agent promises its clients, without a channel, a waker or a    *)
(* handling that waits: a request is judged, has its effect and is         *)
(* answered in one step, somewhere between the command and its end; or it  *)
(* is lost, and then it had none.                                          *)
(***************************************************************************)
EXTENDS StateMachine

CONSTANTS Client, Kinds

None == "none"

VARIABLES asked,   \* what each client asks for, or None
          told     \* what it was answered last, or None

svars == <<state, asked, told>>

ServiceInit == /\ Init
               /\ asked = [c \in Client |-> None]
               /\ told = [c \in Client |-> None]

Ask(c) == /\ asked[c] = None
          /\ \E k \in Kinds : asked' = [asked EXCEPT ![c] = k]
          /\ told' = [told EXCEPT ![c] = None]
          /\ UNCHANGED state

GiveUp(c) == /\ asked[c] # None
             /\ asked' = [asked EXCEPT ![c] = None]
             /\ UNCHANGED <<state, told>>

\* The answers that a request of kind k may get in state s, each with the state
\* that comes of it.
Verdicts(k, s) ==
  CASE k = "info" -> {<<"info", s>>}
    [] k = "abortDownload" ->
         IF s \in Downloading THEN {<<"accepted", "entryPoint">>} ELSE {<<"invalidState", s>>}
    [] k = "probe" ->
         IF s \in Preemptive
         THEN {<<"unavailable", "entryPoint">>, <<"available", "validation">>,
               <<"delayed", s>>, <<"error", s>>}
         ELSE {<<"busy", s>>}
    [] k = "localInstall" ->
         IF s \in Preemptive THEN {<<"accepted", "prepareLocalInstall">>}
                             ELSE {<<"invalidState", s>>}
    [] k = "remoteInstall" ->
         IF s \in Preemptive THEN {<<"accepted", "directDownload">>}
                             ELSE {<<"invalidState", s>>}

Answered(c, answer) == /\ asked' = [asked EXCEPT ![c] = None]
                       /\ told' = [told EXCEPT ![c] = answer]

Serve(c) == /\ asked[c] # None
            /\ \E v \in Verdicts(asked[c], state) : Answered(c, v[1]) /\ state' = v[2]

\* Only what would have ended the state can be lost.
Lose(c) == /\ asked[c] \in {"probe", "localInstall", "remoteInstall"}
           /\ state \in Preemptive
           /\ Answered(c, "dropped")
           /\ UNCHANGED state

Step == Move /\ UNCHANGED <<asked, told>>

ServiceNext == Step \/ \E c \in Client : Ask(c) \/ GiveUp(c) \/ Serve(c) \/ Lose(c)

ServiceSpec == ServiceInit /\ [][ServiceNext]_svars
=============================================================================
