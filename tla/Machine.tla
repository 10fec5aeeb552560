------------------------------- MODULE Machine -------------------------------
(***************************************************************************)
(* The state machine's run loop, the requests it takes over HTTP and the   *)
(* two channels between them.                                              *)
(*                                                                         *)
(* A request is a message on the bounded communication channel, with a     *)
(* responder the client waits on.  The loop takes requests at three        *)
(* places: all that are pending before a state is handled, those that      *)
(* arrive while it waits for the next step, and those that arrive during a *)
(* download.  A request that changes the state also wakes the wait, by a   *)
(* message on the waker channel, which holds one.                          *)
(*                                                                         *)
(* Handling a request is not atomic: it waits for the server's answer to a *)
(* probe and for room on the waker channel.  When the wait it runs beside  *)
(* ends meanwhile, the handling is dropped where it stands.                *)
(***************************************************************************)
EXTENDS Naturals, Sequences

CONSTANTS
  Client,         \* HTTP clients, each with one request at a time
  Kinds,          \* the kinds of request they make
  CustomServer,   \* servers a probe request can name
  CommCapacity,   \* capacity of the communication channel (10 in the code)
  WakerCapacity,  \* capacity of the waker channel (1 in the code)
  PollingEnabled, \* settings.polling.enabled
  Disconnects,    \* whether clients may give up waiting
  SaveFails       \* whether saving the runtime settings may fail

Default == "default"    \* settings.network.server_address
None    == "none"

AllKinds == {"info", "probe", "abortDownload", "localInstall", "remoteInstall"}

ASSUME MachineAssumption == /\ Kinds \subseteq AllKinds
                            /\ CommCapacity \in Nat \ {0}
                            /\ WakerCapacity \in Nat \ {0}
                            /\ {Default, None} \cap CustomServer = {}
                            /\ None \notin Client
                            /\ PollingEnabled \in BOOLEAN
                            /\ Disconnects \in BOOLEAN
                            /\ SaveFails \in BOOLEAN

VARIABLES
  state,     \* StateMachine::state, by name
  phase,     \* where the run loop is
  waitFor,   \* the StepTransition being waited on: a timer, or nothing
  req,       \* the request being handled, once it has had to wait
  comm,      \* Context::communication
  waker,     \* Context::waker, the number of messages on it
  stray,     \* one of them is of a request that came to nothing; no variable of
             \* the code, and no action depends on it
  forced,    \* polling.now
  server,    \* the server in force: the custom one, or Default
  offerer,   \* the server that offered the package of the state, if any
  client     \* what each client waits for, or the last answer it got

vars ==
  <<state, phase, waitFor, req, comm, waker, stray, forced, server, offerer,
    client>>

\* A slip: an install under way is preemptive.
PreemptiveInstall == {"park", "entryPoint", "poll", "probe", "validation",
                      "prepareLocalInstall"}

Preemptive  == {"park", "entryPoint", "poll", "probe", "validation"}
Downloading == {"download", "directDownload"}
Installing  == {"prepareLocalInstall", "install", "reboot"}
State == Preemptive \cup Downloading \cup Installing \cup {"error"}

Answer == {"info", "busy", "delayed", "unavailable", "available", "accepted",
           "invalidState", "error"}

Message == [client : Client, kind : Kinds, server : CustomServer \cup {Default}]

NoRequest == [client |-> None, at |-> "none", next |-> None, answer |-> None]

\* A request waiting for the server's answer to its probe, or for room on
\* the waker channel with the state and the answer it will then give.
Request ==
  {NoRequest} \cup
  [client : Client, at : {"probing"}, next : {None}, answer : {None}] \cup
  [client : Client, at : {"waking"},
   next   : {"entryPoint", "validation", "prepareLocalInstall", "directDownload"},
   answer : {"unavailable", "available", "accepted"}]

TypeOK ==
  /\ state \in State
  /\ phase \in {"top", "drain", "handle", "wait"}
  /\ waitFor \in {"timer", "nothing"}
  /\ req \in Request
  /\ comm \in Seq(Message) /\ Len(comm) <= CommCapacity
  /\ waker \in 0..WakerCapacity
  /\ stray \in BOOLEAN
  /\ forced \in BOOLEAN
  /\ server \in CustomServer \cup {Default}
  /\ offerer \in CustomServer \cup {Default, None}
  /\ client \in [Client -> Answer \cup {"idle", "waiting", "gone", "dropped"}]

\* Startup may have forced a probe, and the file the runtime settings are
\* loaded from may hold a custom server.
Init ==
  /\ state = "entryPoint"
  /\ phase = "top"
  /\ waitFor = "nothing"
  /\ req = NoRequest
  /\ comm = <<>>
  /\ waker = 0
  /\ stray = FALSE
  /\ forced \in BOOLEAN
  /\ server \in CustomServer \cup {Default}
  /\ offerer = None
  /\ client = [c \in Client |-> "idle"]

(***************************************************************************)
(* Clients.                                                                *)
(***************************************************************************)

\* Addr::request_*: send the message, then wait on the responder.  While the
\* channel is full the send waits.
SendRequest(c) ==
  /\ client[c] \notin {"waiting", "gone"}
  /\ Len(comm) < CommCapacity
  /\ \E k \in Kinds, s \in CustomServer \cup {Default} :
       /\ k # "probe" => s = Default
       /\ comm' = Append(comm, [client |-> c, kind |-> k, server |-> s])
  /\ client' = [client EXCEPT ![c] = "waiting"]
  /\ UNCHANGED <<state, phase, waitFor, req, waker, stray, forced, server, offerer>>

\* The connection is closed and the responder's receiver with it; the message
\* stays.
Disconnect(c) ==
  /\ Disconnects
  /\ client[c] = "waiting"
  /\ client' = [client EXCEPT ![c] = "gone"]
  /\ UNCHANGED <<state, phase, waitFor, req, comm, waker, stray, forced, server, offerer>>

(***************************************************************************)
(* handle_communication.                                                   *)
(***************************************************************************)

\* responder.send(..).await.ok()?: without a receiver there is no new state.
Respond(c, answer) ==
  client' = [client EXCEPT ![c] = IF @ = "gone" THEN "idle" ELSE answer]

\* The answer to c, and the state that comes with it.
RespondWith(c, answer, next, from) ==
  /\ Respond(c, answer)
  /\ IF client[c] = "gone" THEN UNCHANGED <<state, offerer>>
                           ELSE state' = next /\ offerer' = from

\* Where the loop has a request to take: not while it handles another one,
\* and while a state is handled only if that is a download.
Receptive == /\ req = NoRequest
             /\ comm # <<>>
             /\ \/ phase \in {"drain", "wait"}
                \/ phase = "handle" /\ state \in Downloading

Take(k) == /\ Receptive
           /\ Head(comm).kind = k
           /\ comm' = Tail(comm)

TakeInfo ==
  /\ Take("info")
  /\ Respond(Head(comm).client, "info")
  /\ UNCHANGED <<state, phase, waitFor, req, waker, stray, forced, server, offerer>>

TakeProbeBusy ==
  /\ Take("probe")
  /\ state \notin Preemptive
  /\ Respond(Head(comm).client, "busy")
  /\ UNCHANGED <<state, phase, waitFor, req, waker, stray, forced, server, offerer>>

\* The custom server is set before it is known to answer.
TakeProbe ==
  /\ Take("probe")
  /\ state \in Preemptive
  /\ server' = IF Head(comm).server = Default THEN server ELSE Head(comm).server
  /\ req' = [NoRequest EXCEPT !.client = Head(comm).client, !.at = "probing"]
  /\ UNCHANGED <<state, phase, waitFor, waker, stray, forced, offerer, client>>

TakeAbort ==
  /\ Take("abortDownload")
  /\ IF state \in Downloading
       THEN /\ RespondWith(Head(comm).client, "accepted", "entryPoint", None)
            /\ phase' = IF phase = "handle" /\ state' # state
                        THEN "top" ELSE phase
       ELSE /\ Respond(Head(comm).client, "invalidState")
            /\ UNCHANGED <<state, phase, offerer>>
  /\ UNCHANGED <<waitFor, req, waker, stray, forced, server>>

\* handle_local_install and handle_remote_install.
InstallState(k) == IF k = "localInstall" THEN "prepareLocalInstall"
                                         ELSE "directDownload"

\* A slip: a request that comes at a bad time is dropped, and its responder
\* with it.
TakeInstallOrDrop ==
  /\ \E k \in {"localInstall", "remoteInstall"} :
       /\ Take(k)
       /\ IF state \in Preemptive
            THEN /\ req' = [client |-> Head(comm).client, at |-> "waking",
                            next |-> InstallState(k), answer |-> "accepted"]
                 /\ UNCHANGED client
            ELSE /\ client' = [client EXCEPT ![Head(comm).client] =
                                 IF @ = "gone" THEN "idle" ELSE "dropped"]
                 /\ UNCHANGED req
  /\ UNCHANGED <<state, phase, waitFor, waker, stray, forced, server, offerer>>

TakeInstall ==
  /\ \E k \in {"localInstall", "remoteInstall"} :
       /\ Take(k)
       /\ IF state \in Preemptive
            THEN /\ req' = [client |-> Head(comm).client, at |-> "waking",
                            next |-> InstallState(k), answer |-> "accepted"]
                 /\ UNCHANGED client
            ELSE /\ Respond(Head(comm).client, "invalidState")
                 /\ UNCHANGED req
  /\ UNCHANGED <<state, phase, waitFor, waker, stray, forced, server, offerer>>

\* The server answers the probe, or does not.
ProbeResult ==
  /\ req.at = "probing"
  /\ \/ /\ \/ Respond(req.client, "error")
           \/ Respond(req.client, "delayed")       \* ExtraPoll
        /\ req' = NoRequest
     \/ /\ \/ req' = [req EXCEPT !.at = "waking", !.next = "entryPoint",
                                 !.answer = "unavailable"]
           \/ req' = [req EXCEPT !.at = "waking", !.next = "validation",
                                 !.answer = "available"]
        /\ UNCHANGED client
  /\ UNCHANGED <<state, phase, waitFor, comm, waker, stray, forced, server, offerer>>

\* A slip: the message is sent without waiting for room.
WakeAtOnce ==
  /\ req.at = "waking"
  /\ waker' = waker + 1
  /\ stray' = (stray \/ client[req.client] = "gone")
  /\ RespondWith(req.client, req.answer, req.next,
                 IF req.next = "validation" THEN server ELSE None)
  /\ req' = NoRequest
  /\ UNCHANGED <<phase, waitFor, comm, forced, server>>

\* A slip: the request is answered and nobody woken.
WakeNobody ==
  /\ req.at = "waking"
  /\ RespondWith(req.client, req.answer, req.next,
                 IF req.next = "validation" THEN server ELSE None)
  /\ req' = NoRequest
  /\ UNCHANGED <<phase, waitFor, comm, waker, stray, forced, server>>

\* A slip: the state is changed before the settings are saved.
WakeBeforeSave ==
  /\ req.at = "waking"
  /\ waker < WakerCapacity
  /\ waker' = waker + 1
  /\ stray' = (stray \/ client[req.client] = "gone")
  /\ \E answer \in {req.answer} \cup IF SaveFails THEN {"error"} ELSE {} :
       RespondWith(req.client, answer, req.next,
                   IF req.next = "validation" THEN server ELSE None)
  /\ req' = NoRequest
  /\ UNCHANGED <<phase, waitFor, comm, forced, server>>

\* waker.sender.send(()).await goes through.  A probe saves the time of
\* polling before it answers.
Wake ==
  /\ req.at = "waking"
  /\ waker < WakerCapacity
  /\ waker' = waker + 1
  /\ \/ /\ RespondWith(req.client, req.answer, req.next,
                       IF req.next = "validation" THEN server ELSE None)
        /\ stray' = (stray \/ client[req.client] = "gone")
     \/ /\ SaveFails
        /\ req.answer \in {"unavailable", "available"}
        /\ Respond(req.client, "error")
        /\ stray' = TRUE
        /\ UNCHANGED <<state, offerer>>
  /\ req' = NoRequest
  /\ UNCHANGED <<phase, waitFor, comm, forced, server>>

(***************************************************************************)
(* StateMachine::start.                                                    *)
(***************************************************************************)

Requests == TakeInfo \/ TakeProbeBusy \/ TakeProbe \/ TakeAbort \/ TakeInstall
            \/ ProbeResult \/ Wake

\* A slip: the wake message is left for the next wait.
TopKeepsMessage ==
  /\ phase = "top"
  /\ phase' = "drain"
  /\ UNCHANGED <<state, waitFor, req, comm, waker, stray, forced, server, offerer,
                 client>>

\* Already running: a wake message is discharged.
Top ==
  /\ phase = "top"
  /\ waker' = IF waker > 0 THEN waker - 1 ELSE 0
  /\ stray' = (stray /\ waker > 1)
  /\ phase' = "drain"
  /\ UNCHANGED <<state, waitFor, req, comm, forced, server, offerer, client>>

\* consume_pending_communication returns once it finds the channel empty.
DrainDone ==
  /\ phase = "drain"
  /\ req = NoRequest
  /\ comm = <<>>
  /\ phase' = "handle"
  /\ UNCHANGED <<state, waitFor, req, comm, waker, stray, forced, server, offerer,
                 client>>

\* Handling a request goes on, in one poll, until it has to wait.
Suspended == \/ req = NoRequest
             \/ req.at = "probing"
             \/ req.at = "waking" /\ waker = WakerCapacity

\* A slip: the responder is dropped and the handling is not.
EndWaitKeepsRequest ==
  /\ phase = "wait"
  /\ Suspended
  /\ phase' = "top"
  /\ client' = [c \in Client |->
                  IF c # req.client THEN client[c]
                  ELSE IF client[c] = "gone" THEN "idle" ELSE "dropped"]
  /\ UNCHANGED <<state, waitFor, req, comm, forced, server, offerer>>

\* The wait is over: select returns, and what it was handling is dropped with
\* the responder.
EndWait ==
  /\ phase = "wait"
  /\ Suspended
  /\ phase' = "top"
  /\ req' = NoRequest
  /\ client' = [c \in Client |->
                  IF c # req.client THEN client[c]
                  ELSE IF client[c] = "gone" THEN "idle" ELSE "dropped"]
  /\ UNCHANGED <<state, waitFor, comm, forced, server, offerer>>

SleepEnds == waitFor = "timer" /\ EndWait /\ UNCHANGED <<waker, stray>>

WakerFires == /\ waker > 0
              /\ EndWait
              /\ waker' = waker - 1
              /\ stray' = (stray /\ waker > 1)

(***************************************************************************)
(* The states' handlers: the next state, and the transition to it.         *)
(***************************************************************************)

Handle(s) == /\ phase = "handle"
             /\ state = s
             /\ UNCHANGED <<req, comm, waker, stray, client>>

\* StepTransition::Immediate, to a state that has no package from a server.
Goto(next) == /\ state' = next
              /\ phase' = "top"
              /\ offerer' = None
              /\ UNCHANGED waitFor

\* StepTransition::Delayed and Never: the wait is in the next state.
WaitIn(next, for) == /\ state' = next
                     /\ phase' = "wait"
                     /\ waitFor' = for
                     /\ UNCHANGED offerer

Park ==
  /\ Handle("park")
  /\ WaitIn("park", "nothing")
  /\ UNCHANGED <<forced, server>>

\* A forced poll keeps the server in force.
EntryPoint ==
  /\ Handle("entryPoint")
  /\ IF forced THEN /\ forced' = FALSE
                    /\ \/ Goto("probe")
                       \/ SaveFails /\ Goto("error")
                    /\ UNCHANGED server
               ELSE /\ server' = Default
                    /\ Goto(IF PollingEnabled THEN "poll" ELSE "park")
                    /\ UNCHANGED forced

Poll ==
  /\ Handle("poll")
  /\ Goto("probe") \/ WaitIn("probe", "timer")
  /\ UNCHANGED <<forced, server>>

\* No update or a cancelled transition; a retry or an extra poll; an update;
\* a failure.
Probe ==
  /\ Handle("probe")
  /\ \/ Goto("entryPoint")
     \/ WaitIn("probe", "timer")
     \/ /\ state' = "validation"
        /\ phase' = "top"
        /\ offerer' = server
        /\ UNCHANGED waitFor
     \/ Goto("error")
  /\ UNCHANGED <<forced, server>>

\* require_download is that of a package the server offered.
Validation ==
  /\ Handle("validation")
  /\ \/ /\ state' = IF offerer = None THEN "install" ELSE "download"
        /\ phase' = "top"
        /\ UNCHANGED <<waitFor, offerer>>
     \/ Goto("entryPoint")
     \/ Goto("error")
  /\ UNCHANGED <<forced, server>>

Download ==
  /\ Handle("download")
  /\ Goto("validation") \/ Goto("error") \/ Goto("entryPoint")
  /\ UNCHANGED <<forced, server>>

DirectDownload ==
  /\ Handle("directDownload")
  /\ Goto("prepareLocalInstall") \/ Goto("error")
  /\ UNCHANGED <<forced, server>>

PrepareLocalInstall ==
  /\ Handle("prepareLocalInstall")
  /\ Goto("validation") \/ Goto("error") \/ Goto("entryPoint")
  /\ UNCHANGED <<forced, server>>

Install ==
  /\ Handle("install")
  /\ Goto("reboot") \/ Goto("error") \/ Goto("entryPoint")
  /\ UNCHANGED <<forced, server>>

\* The reboot command returns before the machine goes down.
Reboot ==
  /\ Handle("reboot")
  /\ Goto("entryPoint") \/ Goto("error")
  /\ UNCHANGED <<forced, server>>

Error ==
  /\ Handle("error")
  /\ Goto("entryPoint")
  /\ UNCHANGED <<forced, server>>

Handling == \/ Park \/ EntryPoint \/ Poll \/ Probe \/ Validation
            \/ Download \/ DirectDownload \/ PrepareLocalInstall
            \/ Install \/ Reboot \/ Error

Next ==
  \/ \E c \in Client : SendRequest(c) \/ Disconnect(c)
  \/ Requests
  \/ Top \/ DrainDone \/ SleepEnds \/ WakerFires
  \/ Handling

Spec == Init /\ [][Next]_vars

\* The loop runs, its timers end, the network answers or times out, and each
\* handler returns.  Pending requests end too: the channel that is found empty
\* again and again is found empty where the loop looks.
Fairness == /\ WF_vars(Requests)
            /\ WF_vars(Top)
            /\ SF_vars(DrainDone)
            /\ WF_vars(SleepEnds)
            /\ WF_vars(WakerFires)
            /\ WF_vars(Handling)

FairSpec == Spec /\ Fairness

(***************************************************************************)
(* Properties.                                                             *)
(***************************************************************************)

\* The states a request leaves the machine in.
Requested == {"entryPoint", "validation", "prepareLocalInstall", "directDownload"}

\* The machine never sleeps over work it accepted: when a request has changed
\* the state during a wait, there is a message on the waker channel to end the
\* wait, which in Park nothing else would.
NoLostWake == phase = "wait" /\ state \notin {"park", "probe"} => waker > 0

\* The delay between two probes is waited in full: a message that can cut a wait
\* short is of a request accepted during that wait, or of one that came to
\* nothing after the loop was woken for it, its client gone or its save failed.
\* That of a request taken before a state is handled is discharged before the
\* next wait, and one that came to nothing cuts no second wait.
FullWait == phase = "wait" /\ waker > 0 => state \in Requested \/ stray

\* Only its own handler moves the machine on from an install: a request
\* accepted in a preemptive state does not take effect in one that is not, and
\* two accepted installs do not replace one another.
InstallKept ==
  [][phase # "handle" /\ state \in Installing => state' = state]_vars

\* While a request waits, for the server or for the waker channel, the state
\* it was judged by stays preemptive.
JudgedByState == req # NoRequest => state \in Preemptive

\* What makes them hold at every step of the loop.
LoopInv == /\ TypeOK
           /\ NoLostWake
           /\ JudgedByState
           /\ phase \in {"top", "handle"} => req = NoRequest

\* What makes FullWait hold: between two turns of the loop a message on the waker
\* channel stands for a state that is handled before the machine waits again,
\* or is stray.
WakerMeansWork == waker > 0 /\ phase # "top" => state \in Requested \/ stray

\* Clients that never let the channel run empty would keep the loop draining it.
ChannelRunsEmpty == []<>(comm = <<>>)

\* An install that was accepted is started, unless the clients keep the loop
\* from it.
AcceptedInstallRuns ==
  ChannelRunsEmpty =>
    \A s \in {"prepareLocalInstall", "directDownload"} :
      state = s ~> state # s \/ phase = "handle"

\* Every request is answered, or its client told that it will not be.
ClientsServed == \A c \in Client : client[c] = "waiting" ~> client[c] # "waiting"
=============================================================================
