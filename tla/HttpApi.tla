-------------------------------- MODULE HttpApi --------------------------------
(***************************************************************************)
(* The way from a command of the client program to the run loop and back:  *)
(* the command becomes an HTTP request, the API hands it to the loop, makes *)
(* a status and a body of the loop's answer, and the client library makes  *)
(* a result of these.  Agent and library have tables of their own for the  *)
(* bodies, and they do not always agree.                                   *)
(***************************************************************************)
EXTENDS Machine

VARIABLE asked    \* what each client asks for, until its command ends

hvars == <<vars, asked>>

Nothing == [kind |-> None, server |-> None]
Asked   == [kind : Kinds, server : CustomServer \cup {Default}]

HttpTypeOK == asked \in [Client -> Asked \cup {Nothing}]

HttpInit == Init /\ asked = [c \in Client |-> Nothing]

(***************************************************************************)
(* http_api: the reply to each answer of the loop.                         *)
(***************************************************************************)
OK                  == 200
NotAcceptable       == 406
InternalServerError == 500

Reply(status, body) == [status |-> status, body |-> body]

\* A slip: a refusal is a plain reply.
ReplyWithoutStatus(answer, kind, name) ==
  CASE answer = "info"        -> Reply(OK, "info")
    [] answer = "available"   -> Reply(OK, "updating")
    [] answer = "unavailable" -> Reply(OK, "noUpdate")
    [] answer = "delayed"     -> Reply(OK, "tryAgain")
    [] answer = "busy"        -> Reply(OK, name)
    [] answer = "accepted"    -> Reply(OK, IF kind = "abortDownload" THEN "message"
                                                                     ELSE name)
    [] answer = "invalidState" -> Reply(OK, IF kind = "abortDownload"
                                            THEN "error" ELSE name)
    [] answer = "error"       -> Reply(InternalServerError, None)

\* `name' is that of the state the request found.
ReplyTo(answer, kind, name) ==
  CASE answer = "info"        -> Reply(OK, "info")
    [] answer = "available"   -> Reply(OK, "updating")
    [] answer = "unavailable" -> Reply(OK, "noUpdate")
    [] answer = "delayed"     -> Reply(OK, "tryAgain")
    [] answer = "busy"        -> Reply(OK, name)
    [] answer = "accepted"    -> Reply(OK, IF kind = "abortDownload" THEN "message"
                                                                     ELSE name)
    [] answer = "invalidState" -> Reply(NotAcceptable, IF kind = "abortDownload"
                                                       THEN "error" ELSE name)
    [] answer = "error"       -> Reply(InternalServerError, None)

(***************************************************************************)
(* The client library: what it reads as a success, and as a refusal.       *)
(***************************************************************************)
\* api::state::Response has names of one word: those of two are written
\* "entrypoint" there and "entry_point" by the agent.
Readable == State \ {"entryPoint", "directDownload", "prepareLocalInstall"}

Successes == [info          |-> {"info"},
              probe         |-> {"updating", "noUpdate", "tryAgain"},
              abortDownload |-> Readable,
              localInstall  |-> Readable,
              remoteInstall |-> Readable]

\* remote_install has no refusal.
Refusals == [probe         |-> Readable,
             abortDownload |-> {"error"},
             localInstall  |-> Readable]

\* A success or a refusal with what the body says, a body that does not parse,
\* or UnexpectedResponse.
Parsed(what, body, read) ==
  IF body \in read THEN [what |-> what, said |-> body]
                   ELSE [what |-> "unreadable", said |-> None]

ResultOf(kind, reply) ==
  CASE reply.status = OK -> Parsed("success", reply.body, Successes[kind])
    [] reply.status = NotAcceptable /\ kind \in DOMAIN Refusals ->
         Parsed("refused", reply.body, Refusals[kind])
    [] OTHER -> [what |-> "unexpected", said |-> None]

(***************************************************************************)
(* Clients.  A command to show the log, and an install whose body the API  *)
(* cannot read, never get to the loop and change nothing.                  *)
(***************************************************************************)
Commands == {"info", "probe", "abort-download", "install-package"}

\* client_main: an address is installed from the network, a path from disk.
KindsOf(command) ==
  Kinds \cap CASE command = "info"            -> {"info"}
               [] command = "probe"           -> {"probe"}
               [] command = "abort-download"  -> {"abortDownload"}
               [] command = "install-package" -> {"remoteInstall", "localInstall"}

\* Only a probe names a server; one whose body cannot be read names none.
Command(c) ==
  /\ \E command \in Commands : \E k \in KindsOf(command) :
       \E s \in IF k = "probe" THEN CustomServer \cup {Default} ELSE {Default} :
          /\ asked' = [asked EXCEPT ![c] = [kind |-> k, server |-> s]]
          /\ comm' = Append(comm, [client |-> c, kind |-> k, server |-> s])
  /\ SendRequest(c)

\* The client is stopped.
GiveUp(c) == Disconnect(c) /\ asked' = [asked EXCEPT ![c] = Nothing]

(***************************************************************************)
(* The loop's answers become results.  A responder that is dropped makes   *)
(* the API's handler panic, and the connection ends.                       *)
(***************************************************************************)
Served(c) == client[c] = "waiting" /\ client'[c] # "waiting"

Result(c) ==
  IF client'[c] = "dropped" THEN [what |-> "noResponse", said |-> None]
  ELSE ResultOf(asked[c].kind, ReplyTo(client'[c], asked[c].kind, state))

Loop(A) ==
  /\ A
  /\ asked' = [c \in Client |-> IF Served(c) THEN Nothing ELSE asked[c]]

HttpNext ==
  \/ \E c \in Client : Command(c) \/ GiveUp(c)
  \/ Loop(Requests)
  \/ Loop(Top) \/ Loop(DrainDone) \/ Loop(SleepEnds) \/ Loop(WakerFires)
  \/ Loop(Handling)

HttpSpec == HttpInit /\ [][HttpNext]_hvars

\* That of Machine.
FairHttpSpec ==
  /\ HttpSpec
  /\ WF_hvars(Loop(Requests))
  /\ WF_hvars(Loop(Top))
  /\ SF_hvars(Loop(DrainDone))
  /\ WF_hvars(Loop(SleepEnds))
  /\ WF_hvars(Loop(WakerFires))
  /\ WF_hvars(Loop(Handling))

(***************************************************************************)
(* Properties.                                                             *)
(***************************************************************************)
\* Who waits has asked for something.
WaitsForAnswer == \A c \in Client : client[c] = "waiting" <=> asked[c] # Nothing

\* A message is what its client asked for, and the only one of it.
AskedOnce ==
  \A i \in 1..Len(comm) :
    /\ client[comm[i].client] \in {"waiting", "gone"}
    /\ client[comm[i].client] = "waiting" =>
         asked[comm[i].client] = [kind |-> comm[i].kind, server |-> comm[i].server]
    /\ comm[i].client # req.client
    /\ \A j \in 1..Len(comm) : comm[j].client = comm[i].client => j = i

\* The request in hand comes to an answer for what its client asked.
AskedInHand ==
  req # NoRequest =>
    /\ client[req.client] \in {"waiting", "gone"}
    /\ client[req.client] = "waiting" => LET k == asked[req.client].kind IN
         \/ k = "probe" /\ req.at = "probing"
         \/ k = "probe" /\ req.at = "waking" /\ <<req.next, req.answer>> \in
              {<<"entryPoint", "unavailable">>, <<"validation", "available">>}
         \/ /\ k \in {"localInstall", "remoteInstall"} /\ req.at = "waking"
            /\ <<req.next, req.answer>> = <<InstallState(k), "accepted">>

\* The request on the channel or in the loop's hands is the one its client asked
\* for, as long as it waits, and the only one it has there: an answer goes to
\* who asked, for what it asked.
Correlated == WaitsForAnswer /\ AskedOnce /\ AskedInHand

\* A step of the loop brings c's command to such a result.
Ends(c, what) == asked[c] # Nothing /\ Served(c) /\ client'[c] # "gone"
                 /\ Result(c).what = what

\* Who is told of success finds the agent at it: an install that is reported
\* accepted is the next thing the loop does, and an update that is reported
\* running is one the server in force offered.
SuccessMeansDone ==
  [][\A c \in Client : Ends(c, "success") =>
       /\ asked[c].kind \in {"localInstall", "remoteInstall"}
            => state' = InstallState(asked[c].kind)
       /\ Result(c).said = "updating" => state' = "validation" /\ offerer' = server
       /\ Result(c).said = "noUpdate" => state' = "entryPoint"]_hvars

\* A request of c is granted in words the library cannot read: an abort, whose
\* reply is a message and no state, and an install in EntryPoint.
Misread(c) ==
  \/ /\ asked[c].kind = "abortDownload"
     /\ state \in Downloading /\ state' = "entryPoint"
  \/ /\ asked[c].kind \in {"localInstall", "remoteInstall"}
     /\ state = "entryPoint" /\ state' = InstallState(asked[c].kind)

\* Who is told of a refusal, of an error or of nothing may ask again: the request
\* that came to it has changed no state and leads to no install.  The two that
\* are misread are the exception, and the only one: there an error hides that
\* the agent does what was asked.
NothingDoneUnlessMisread ==
  [][\A c \in Client : \A w \in {"refused", "unreadable", "unexpected", "noResponse"} :
       Ends(c, w) => \/ UNCHANGED <<state, offerer>>
                     \/ w = "unreadable" /\ Misread(c)]_hvars

\* As its clients see it, the agent serves each request at one moment and for the
\* state of that moment, though its handling waits for a server and for the waker
\* channel, beside a wait that may end (handle_communication, StateMachine::start).
Seen == [c \in Client |-> IF client[c] \in {"idle", "waiting", "gone"} THEN None
                                                                     ELSE client[c]]

Agent == INSTANCE Service WITH asked <- [c \in Client |-> asked[c].kind], told <- Seen

ServesAtOnce == Agent!ServiceSpec

\* Every command comes to an end, and not for want of an answer: its responder
\* is not dropped for good, which Addr's methods hold to be unreachable.
CommandsEnd ==
  \A c \in Client : asked[c] # Nothing ~> asked[c] = Nothing /\ client[c] \in Answer
================================================================================
