---------------------------- MODULE HttpApiProofs ----------------------------
(***************************************************************************)
(* What a client program may rely on, for any number of them, any capacity *)
(* of the channels and any failure: its answer is for what it asked, and   *)
(* its success or failure is that of the agent.                            *)
(***************************************************************************)
EXTENDS HttpApi, MachineProofs

\* A command is a request to the loop like any other, and the replies change
\* nothing in it.
LEMMA StepIsLoopStep == [HttpNext]_hvars => [Next]_vars
<1> SUFFICES ASSUME [HttpNext]_hvars PROVE [Next]_vars
  OBVIOUS
<1>1. CASE \E c \in Client : Command(c) \/ GiveUp(c)
  BY <1>1 DEF Command, GiveUp, Next
<1>2. CASE Loop(Requests) \/ Loop(Top) \/ Loop(DrainDone) \/ Loop(SleepEnds)
           \/ Loop(WakerFires) \/ Loop(Handling)
  BY <1>2 DEF Loop, Next
<1>3. CASE UNCHANGED hvars
  BY <1>3 DEF hvars, vars
<1> QED BY <1>1, <1>2, <1>3 DEF HttpNext

\* The way over HTTP implements the run loop: what is proved of Machine holds
\* of the agent its clients see (http_api.rs).
THEOREM ServesTheLoop == HttpSpec => Spec
<1>1. HttpInit => Init
  BY DEF HttpInit
<1> QED BY <1>1, StepIsLoopStep, PTL DEF HttpSpec, Spec

\* The loop's invariant holds beside the clients' commands.
LEMMA LoopBeneath == HttpSpec => []LoopInv
BY ServesTheLoop, LoopCorrect, PTL

-----------------------------------------------------------------------------
HttpInv == HttpTypeOK /\ Correlated

\* What a client asks for is something.
LEMMA SomethingAsked ==
  ASSUME NEW k \in Kinds, NEW s \in CustomServer \cup {Default}
  PROVE  [kind |-> k, server |-> s] \in Asked /\ [kind |-> k, server |-> s] # Nothing
<1>1. k # None
  BY MachineAssumption DEF MachineAssumption, AllKinds, None
<1> QED BY <1>1 DEF Asked, Nothing

\* The messages after one was taken are those that were behind it.
LEMMA Behind ==
  ASSUME comm \in Seq(Message), comm # <<>>
  PROVE  /\ Len(comm) \in Nat /\ 1 \in 1..Len(comm) /\ Head(comm) = comm[1]
         /\ Len(Tail(comm)) = Len(comm) - 1
         /\ \A i \in 1..Len(Tail(comm)) : Tail(comm)[i] = comm[i + 1]
  OBVIOUS

\* Before the first command nobody waits.
LEMMA InitHttp == HttpInit => HttpInv
<1> SUFFICES ASSUME HttpInit PROVE HttpInv
  OBVIOUS
<1>1. HttpTypeOK
  BY DEF HttpInit, HttpTypeOK
<1>2. WaitsForAnswer /\ AskedInHand
  BY DEF HttpInit, Init, WaitsForAnswer, AskedInHand
<1>3. AskedOnce
  BY DEF HttpInit, Init, AskedOnce
<1> QED BY <1>1, <1>2, <1>3 DEF HttpInv, Correlated

\* A step of the loop forgets what was answered, and keeps the types.
LEMMA LoopTypes ==
  ASSUME HttpTypeOK,
         asked' = [c \in Client |-> IF Served(c) THEN Nothing ELSE asked[c]]
  PROVE  HttpTypeOK'
BY DEF HttpTypeOK

\* Client c has had its answer, or will get none, and no message of it is left.
LEMMA Settling ==
  ASSUME TypeOK, TypeOK', HttpInv, NEW c \in Client, NEW x,
         x \notin {"waiting", "gone"},
         client' = [client EXCEPT ![c] = x],
         asked' = [k \in Client |-> IF Served(k) THEN Nothing ELSE asked[k]],
         req' = NoRequest,
         NEW d \in {0, 1},
         Len(comm') = Len(comm) - d,
         \A i \in 1..Len(comm') : comm'[i] = comm[i + d] /\ comm'[i].client # c
  PROVE  HttpInv'
<1> USE DEF HttpInv, Correlated
<1>1. HttpTypeOK'
  BY LoopTypes
<1>2. /\ client'[c] = x
      /\ \A k \in Client : k # c => client'[k] = client[k] /\ asked'[k] = asked[k]
      /\ asked'[c] = IF client[c] = "waiting" THEN Nothing ELSE asked[c]
  BY DEF Served, TypeOK
<1>3. WaitsForAnswer'
  BY <1>2 DEF WaitsForAnswer
<1>4. AskedInHand'
  BY DEF AskedInHand
<1>5. AskedOnce'
  <2> SUFFICES ASSUME NEW i \in 1..Len(comm')
               PROVE  /\ client'[comm'[i].client] \in {"waiting", "gone"}
                      /\ client'[comm'[i].client] = "waiting" =>
                           asked'[comm'[i].client] =
                             [kind |-> comm'[i].kind, server |-> comm'[i].server]
                      /\ comm'[i].client # req'.client
                      /\ \A j \in 1..Len(comm') :
                           comm'[j].client = comm'[i].client => j = i
    BY DEF AskedOnce
  <2>1. Len(comm) \in Nat /\ \A j \in 1..Len(comm') : j + d \in 1..Len(comm)
    BY DEF TypeOK
  <2>2. comm'[i].client \in Client /\ comm'[i].client # c /\ comm'[i] = comm[i + d]
    <3>1. comm' \in Seq(Message)
      BY DEF TypeOK
    <3>2. comm'[i] \in Message
      BY <3>1
    <3> QED BY <3>2 DEF Message
  <2>3. comm'[i].client # req'.client
    BY <2>2, MachineAssumption DEF MachineAssumption, NoRequest
  <2>4. \A j \in 1..Len(comm') : comm'[j].client = comm'[i].client => j = i
    <3>1. \A j \in 1..Len(comm') : comm[j + d].client = comm[i + d].client => j + d = i + d
      BY <2>1 DEF AskedOnce
    <3> QED BY <3>1
  <2>5. /\ client[comm[i + d].client] \in {"waiting", "gone"}
        /\ client[comm[i + d].client] = "waiting" =>
             asked[comm[i + d].client] =
               [kind |-> comm[i + d].kind, server |-> comm[i + d].server]
    BY <2>1 DEF AskedOnce
  <2> QED BY <1>2, <2>2, <2>3, <2>4, <2>5
<1> QED BY <1>1, <1>3, <1>4, <1>5

\* The loop moves on and neither a client nor a message is concerned.
LEMMA Standing ==
  ASSUME HttpInv, UNCHANGED <<client, comm, req>>,
         asked' = [k \in Client |-> IF Served(k) THEN Nothing ELSE asked[k]]
  PROVE  HttpInv'
<1>1. asked' = asked
  BY DEF Served, HttpInv, HttpTypeOK
<1> QED BY <1>1 DEF HttpInv, HttpTypeOK, Correlated, WaitsForAnswer, AskedOnce, AskedInHand

\* A client sends a request or gives up.
LEMMA ClientKeeps ==
  ASSUME TypeOK, HttpInv, NEW c \in Client, Command(c) \/ GiveUp(c)
  PROVE  HttpInv'
<1> USE DEF HttpInv, Correlated
<1>0. /\ comm \in Seq(Message) /\ Len(comm) \in Nat
      /\ client \in [Client -> Answer \cup {"idle", "waiting", "gone", "dropped"}]
      /\ asked \in [Client -> Asked \cup {Nothing}]
  BY DEF TypeOK, HttpTypeOK
<1>1. CASE Command(c)
  <2>1. PICK k \in Kinds, s \in CustomServer \cup {Default} :
          /\ asked' = [asked EXCEPT ![c] = [kind |-> k, server |-> s]]
          /\ comm' = Append(comm, [client |-> c, kind |-> k, server |-> s])
    BY <1>1 DEF Command, KindsOf
  <2> DEFINE m == [client |-> c, kind |-> k, server |-> s]
  <2>2. /\ client[c] \notin {"waiting", "gone"}
        /\ client' = [client EXCEPT ![c] = "waiting"]
        /\ req' = req
    BY <1>1 DEF Command, SendRequest
  <2>3. [kind |-> k, server |-> s] \in Asked /\ [kind |-> k, server |-> s] # Nothing
    BY SomethingAsked
  <2>4. HttpTypeOK'
    BY <1>0, <2>1, <2>3 DEF HttpTypeOK
  <2>5. WaitsForAnswer'
    BY <1>0, <2>1, <2>2, <2>3 DEF WaitsForAnswer
  <2>6. req # NoRequest => req.client # c
    BY <2>2 DEF AskedInHand
  <2>7. req # NoRequest => req.client \in Client
    BY DEF TypeOK, Request
  <2>8. AskedInHand'
    BY <1>0, <2>1, <2>2, <2>6, <2>7 DEF AskedInHand
  <2>9. /\ Len(comm') = Len(comm) + 1
        /\ comm'[Len(comm) + 1] = m
        /\ \A i \in 1..Len(comm) : comm'[i] = comm[i] /\ comm[i].client \in Client
    <3>1. m \in Message
      BY DEF Message
    <3>2. \A i \in 1..Len(comm) : comm[i] \in Message
      BY <1>0
    <3>3. \A i \in 1..Len(comm) : comm[i].client \in Client
      BY <3>2 DEF Message
    <3> QED BY <1>0, <2>1, <3>1, <3>3
  <2>10. \A i \in 1..Len(comm) : comm[i].client # c
    BY <2>2 DEF AskedOnce
  <2>11. c # req.client
    BY <2>6, MachineAssumption DEF MachineAssumption, NoRequest
  <2>12. AskedOnce'
    <3> SUFFICES ASSUME NEW i \in 1..Len(comm')
                 PROVE  /\ client'[comm'[i].client] \in {"waiting", "gone"}
                        /\ client'[comm'[i].client] = "waiting" =>
                             asked'[comm'[i].client] =
                               [kind |-> comm'[i].kind, server |-> comm'[i].server]
                        /\ comm'[i].client # req'.client
                        /\ \A j \in 1..Len(comm') :
                             comm'[j].client = comm'[i].client => j = i
      BY DEF AskedOnce
    <3>0. \A j \in 1..Len(comm') : j \in 1..Len(comm) \/ j = Len(comm) + 1
      BY <1>0, <2>9
    <3>1. CASE i = Len(comm) + 1
      <4>1. comm'[i].client = c /\ comm'[i].kind = k /\ comm'[i].server = s
        BY <2>9, <3>1
      <4>2. \A j \in 1..Len(comm') : comm'[j].client = c => j = i
        BY <2>9, <2>10, <3>0, <3>1
      <4> QED BY <1>0, <2>1, <2>2, <2>11, <4>1, <4>2
    <3>2. CASE i \in 1..Len(comm)
      <4>1. comm'[i] = comm[i] /\ comm[i].client \in Client /\ comm[i].client # c
        BY <2>9, <2>10, <3>2
      <4>2. \A j \in 1..Len(comm') : comm'[j].client = comm[i].client => j = i
        <5>1. \A j \in 1..Len(comm) : comm[j].client = comm[i].client => j = i
          BY <3>2 DEF AskedOnce
        <5> QED BY <2>9, <3>0, <4>1, <5>1
      <4>3. /\ client[comm[i].client] \in {"waiting", "gone"}
            /\ client[comm[i].client] = "waiting" =>
                 asked[comm[i].client] = [kind |-> comm[i].kind, server |-> comm[i].server]
            /\ comm[i].client # req.client
        BY <3>2 DEF AskedOnce
      <4> QED BY <1>0, <2>1, <2>2, <4>1, <4>2, <4>3
    <3> QED BY <3>0, <3>1, <3>2
  <2> QED BY <2>4, <2>5, <2>8, <2>12
<1>2. CASE GiveUp(c)
  <2>1. /\ client[c] = "waiting"
        /\ client' = [client EXCEPT ![c] = "gone"]
        /\ asked' = [asked EXCEPT ![c] = Nothing]
        /\ UNCHANGED <<comm, req>>
    BY <1>2 DEF GiveUp, Disconnect
  <2>2. HttpTypeOK'
    BY <1>0, <2>1 DEF HttpTypeOK
  <2>3. WaitsForAnswer'
    BY <1>0, <2>1 DEF WaitsForAnswer
  <2>4. req # NoRequest => req.client \in Client
    BY DEF TypeOK, Request
  <2>5. AskedInHand'
    BY <1>0, <2>1, <2>4 DEF AskedInHand
  <2>6. \A i \in 1..Len(comm) : comm[i].client \in Client
    <3>1. \A i \in 1..Len(comm) : comm[i] \in Message
      BY <1>0
    <3> QED BY <3>1 DEF Message
  <2>7. AskedOnce'
    BY <1>0, <2>1, <2>6 DEF AskedOnce
  <2> QED BY <2>2, <2>3, <2>5, <2>7
<1> QED BY <1>1, <1>2

\* The request that is taken is that of a client that asked for it, or has given
\* up, and none of its requests is behind it.
LEMMA Taking ==
  ASSUME TypeOK, HttpInv, NEW k, Take(k)
  PROVE  LET c == Head(comm).client
         IN /\ req = NoRequest
            /\ phase \in {"drain", "wait"} \/ state \in Downloading
            /\ c \in Client
            /\ client[c] \in {"waiting", "gone"}
            /\ client[c] = "waiting" => asked[c].kind = k
            /\ Len(comm') = Len(comm) - 1
            /\ \A i \in 1..Len(comm') : comm'[i] = comm[i + 1] /\ comm'[i].client # c
<1> USE DEF HttpInv, Correlated
<1> DEFINE c == Head(comm).client
<1>1. /\ req = NoRequest /\ comm # <<>> /\ comm' = Tail(comm) /\ Head(comm).kind = k
      /\ phase \in {"drain", "wait"} \/ state \in Downloading
  BY DEF Take, Receptive
<1>2. comm \in Seq(Message)
  BY DEF TypeOK
<1>3. /\ Len(comm) \in Nat /\ 1 \in 1..Len(comm) /\ Head(comm) = comm[1]
      /\ Len(Tail(comm)) = Len(comm) - 1
      /\ \A i \in 1..Len(Tail(comm)) : Tail(comm)[i] = comm[i + 1]
  BY ONLY <1>1, <1>2, Behind
<1>4. Head(comm) \in Message
  BY <1>2, <1>3
<1>5. c \in Client
  BY <1>4 DEF Message
<1>6. /\ client[c] \in {"waiting", "gone"}
      /\ client[c] = "waiting" =>
           asked[c] = [kind |-> Head(comm).kind, server |-> Head(comm).server]
      /\ \A j \in 1..Len(comm) : comm[j].client = c => j = 1
  BY <1>3 DEF AskedOnce
<1>7. \A i \in 1..Len(comm') : comm'[i] = comm[i + 1] /\ comm'[i].client # c
  <2> SUFFICES ASSUME NEW i \in 1..Len(comm')
               PROVE  comm'[i] = comm[i + 1] /\ comm'[i].client # c
    OBVIOUS
  <2>1. i + 1 \in 1..Len(comm) /\ i + 1 # 1
    BY <1>1, <1>3
  <2> QED BY <1>1, <1>3, <1>6, <2>1
<1>8. client[c] = "waiting" => asked[c].kind = k
  BY <1>1, <1>6
<1> QED BY <1>1, <1>3, <1>5, <1>6, <1>7, <1>8

\* A request that is taken and kept in hand is that of the client it was of.
LEMMA Holding ==
  ASSUME TypeOK, TypeOK', HttpInv, NEW k, Take(k), UNCHANGED client,
         asked' = [j \in Client |-> IF Served(j) THEN Nothing ELSE asked[j]],
         req'.client = Head(comm).client,
         \/ k = "probe" /\ req'.at = "probing"
         \/ /\ k \in {"localInstall", "remoteInstall"} /\ req'.at = "waking"
            /\ req'.next = InstallState(k) /\ req'.answer = "accepted"
  PROVE  HttpInv'
<1> USE DEF HttpInv, Correlated
<1> DEFINE c == Head(comm).client
<1>1. /\ c \in Client
      /\ client[c] \in {"waiting", "gone"}
      /\ client[c] = "waiting" => asked[c].kind = k
      /\ Len(comm') = Len(comm) - 1
      /\ \A i \in 1..Len(comm') : comm'[i] = comm[i + 1] /\ comm'[i].client # c
  BY Taking
<1>2. asked' = asked
  BY DEF Served, HttpTypeOK
<1>3. HttpTypeOK' /\ WaitsForAnswer'
  BY <1>2 DEF HttpTypeOK, WaitsForAnswer
<1>4. AskedInHand'
  BY <1>1, <1>2 DEF AskedInHand
<1>5. AskedOnce'
  <2>1. Len(comm) \in Nat /\ \A j \in 1..Len(comm') : j + 1 \in 1..Len(comm)
    BY <1>1 DEF TypeOK
  <2> SUFFICES ASSUME NEW i \in 1..Len(comm')
               PROVE  /\ client[comm[i + 1].client] \in {"waiting", "gone"}
                      /\ client[comm[i + 1].client] = "waiting" =>
                           asked[comm[i + 1].client] =
                             [kind |-> comm[i + 1].kind, server |-> comm[i + 1].server]
                      /\ comm'[i].client # c
                      /\ \A j \in 1..Len(comm') :
                           comm[j + 1].client = comm[i + 1].client => j = i
    BY <1>1, <1>2 DEF AskedOnce
  <2>2. \A j \in 1..Len(comm') : comm[j + 1].client = comm[i + 1].client => j + 1 = i + 1
    BY <2>1 DEF AskedOnce
  <2>3. \A j \in 1..Len(comm') : comm[j + 1].client = comm[i + 1].client => j = i
    BY <2>2
  <2> QED BY <1>1, <2>1, <2>3 DEF AskedOnce
<1> QED BY <1>3, <1>4, <1>5

\* A request that is taken and answered.
LEMMA AnsweredAtOnce ==
  ASSUME TypeOK, TypeOK', HttpInv, NEW k, Take(k), NEW a \in Answer,
         Respond(Head(comm).client, a), req' = NoRequest,
         asked' = [j \in Client |-> IF Served(j) THEN Nothing ELSE asked[j]]
  PROVE  HttpInv'
<1> DEFINE c == Head(comm).client
           x == IF client[c] = "gone" THEN "idle" ELSE a
<1>1. /\ c \in Client
      /\ Len(comm') = Len(comm) - 1
      /\ \A i \in 1..Len(comm') : comm'[i] = comm[i + 1] /\ comm'[i].client # c
  BY Taking
<1>2. client' = [client EXCEPT ![c] = x]
  BY DEF Respond
<1>3. x \notin {"waiting", "gone"}
  BY DEF Answer
<1> QED BY <1>1, <1>2, <1>3, Settling

\* Requests that are taken.
LEMMA TakingKeeps ==
  ASSUME TypeOK, TypeOK', HttpInv,
         TakeInfo \/ TakeProbeBusy \/ TakeProbe \/ TakeAbort \/ TakeInstall,
         asked' = [j \in Client |-> IF Served(j) THEN Nothing ELSE asked[j]]
  PROVE  HttpInv'
<1>1. CASE TakeInfo
  <2>1. Take("info") /\ Respond(Head(comm).client, "info") /\ req' = req
    BY <1>1 DEF TakeInfo
  <2>2. req' = NoRequest
    BY <2>1, Taking
  <2> QED BY <2>1, <2>2, AnsweredAtOnce DEF Answer
<1>2. CASE TakeProbeBusy
  <2>1. Take("probe") /\ Respond(Head(comm).client, "busy") /\ req' = req
    BY <1>2 DEF TakeProbeBusy
  <2>2. req' = NoRequest
    BY <2>1, Taking
  <2> QED BY <2>1, <2>2, AnsweredAtOnce DEF Answer
<1>3. CASE TakeProbe
  <2>1. Take("probe") /\ UNCHANGED client
    BY <1>3 DEF TakeProbe
  <2>2. req'.client = Head(comm).client /\ req'.at = "probing"
    BY <1>3 DEF TakeProbe, NoRequest
  <2> QED BY <2>1, <2>2, Holding
<1>4. CASE TakeAbort
  <2>1. Take("abortDownload") /\ req' = req
    BY <1>4 DEF TakeAbort
  <2>2. \E a \in {"accepted", "invalidState"} : Respond(Head(comm).client, a)
    BY <1>4 DEF TakeAbort, RespondWith
  <2>3. PICK a \in {"accepted", "invalidState"} : Respond(Head(comm).client, a)
    BY <2>2
  <2>4. req' = NoRequest
    BY <2>1, Taking
  <2> QED BY <2>1, <2>3, <2>4, AnsweredAtOnce DEF Answer
<1>5. CASE TakeInstall
  <2>1. PICK k \in {"localInstall", "remoteInstall"} :
          /\ Take(k)
          /\ IF state \in Preemptive
               THEN /\ req' = [client |-> Head(comm).client, at |-> "waking",
                               next |-> InstallState(k), answer |-> "accepted"]
                    /\ UNCHANGED client
               ELSE /\ Respond(Head(comm).client, "invalidState")
                    /\ UNCHANGED req
    BY <1>5 DEF TakeInstall
  <2>2. CASE state \in Preemptive
    <3>1. /\ req'.client = Head(comm).client /\ req'.at = "waking"
          /\ req'.next = InstallState(k) /\ req'.answer = "accepted"
      BY <2>1, <2>2
    <3> QED BY <2>1, <2>2, <3>1, Holding
  <2>3. CASE state \notin Preemptive
    <3>1. req' = NoRequest
      BY <2>1, <2>3, Taking
    <3> QED BY <2>1, <2>3, <3>1, AnsweredAtOnce DEF Answer
  <2> QED BY <2>2, <2>3
<1> QED BY <1>1, <1>2, <1>3, <1>4, <1>5

\* The request in hand is answered or dropped.
LEMMA Finished ==
  ASSUME TypeOK, TypeOK', HttpInv, req # NoRequest, NEW a,
         a \notin {"waiting", "gone"},
         client' = [client EXCEPT ![req.client] = IF @ = "gone" THEN "idle" ELSE a],
         req' = NoRequest, UNCHANGED comm,
         asked' = [j \in Client |-> IF Served(j) THEN Nothing ELSE asked[j]]
  PROVE  HttpInv'
<1> DEFINE c == req.client
           x == IF client[c] = "gone" THEN "idle" ELSE a
<1>1. c \in Client
  BY DEF TypeOK, Request
<1>2. \A i \in 1..Len(comm) : comm[i].client # c
  BY DEF HttpInv, Correlated, AskedOnce
<1>3. client' = [client EXCEPT ![c] = x] /\ x \notin {"waiting", "gone"}
  OBVIOUS
<1>4. /\ Len(comm') = Len(comm) - 0
      /\ \A i \in 1..Len(comm') : comm'[i] = comm[i + 0] /\ comm'[i].client # c
  BY <1>2 DEF TypeOK
<1> QED BY <1>1, <1>3, <1>4, Settling

\* The request in hand: the server answers, or the wake message is sent.
LEMMA InHandKeeps ==
  ASSUME TypeOK, TypeOK', HttpInv, ProbeResult \/ Wake,
         asked' = [j \in Client |-> IF Served(j) THEN Nothing ELSE asked[j]]
  PROVE  HttpInv'
<1>1. req # NoRequest /\ req.client \in Client /\ comm' = comm
  BY DEF ProbeResult, Wake, TypeOK, Request, NoRequest
<1>2. CASE ProbeResult /\ req' = NoRequest
  <2>1. \E a \in {"error", "delayed"} : Respond(req.client, a)
    BY <1>1, <1>2 DEF ProbeResult, NoRequest
  <2>2. PICK a \in {"error", "delayed"} : Respond(req.client, a)
    BY <2>1
  <2>3. client' = [client EXCEPT ![req.client] = IF @ = "gone" THEN "idle" ELSE a]
    BY <2>2 DEF Respond
  <2> QED BY <1>1, <1>2, <2>3, Finished
<1>3. CASE ProbeResult /\ req' # NoRequest
  <2>1. /\ req.at = "probing" /\ UNCHANGED client
        /\ \/ req' = [req EXCEPT !.at = "waking", !.next = "entryPoint",
                                !.answer = "unavailable"]
           \/ req' = [req EXCEPT !.at = "waking", !.next = "validation",
                                !.answer = "available"]
    BY <1>3 DEF ProbeResult
  <2>2. req \in [client : Client, at : {"probing"}, next : {None}, answer : {None}]
    BY <2>1 DEF TypeOK, Request, NoRequest
  <2>3. /\ req'.client = req.client /\ req'.at = "waking"
        /\ <<req'.next, req'.answer>> \in
             {<<"entryPoint", "unavailable">>, <<"validation", "available">>}
    BY <2>1, <2>2
  <2>4. asked' = asked
    BY <2>1 DEF Served, HttpInv, HttpTypeOK
  <2>5. AskedInHand'
    BY <1>1, <2>1, <2>3, <2>4 DEF HttpInv, Correlated, AskedInHand
  <2>6. HttpTypeOK' /\ WaitsForAnswer'
    BY <2>1, <2>4 DEF HttpInv, Correlated, HttpTypeOK, WaitsForAnswer
  <2>7. AskedOnce'
    BY <1>1, <2>1, <2>3, <2>4 DEF HttpInv, Correlated, AskedOnce
  <2> QED BY <2>5, <2>6, <2>7 DEF HttpInv, Correlated
<1>4. CASE Wake
  <2>1. \E a \in {req.answer, "error"} : Respond(req.client, a)
    BY <1>4 DEF Wake, RespondWith
  <2>2. PICK a \in {req.answer, "error"} : Respond(req.client, a)
    BY <2>1
  <2>3. a \notin {"waiting", "gone"}
    BY <1>1, <1>4, <2>2 DEF Wake, TypeOK, Request
  <2>4. client' = [client EXCEPT ![req.client] = IF @ = "gone" THEN "idle" ELSE a]
    BY <2>2 DEF Respond
  <2>5. req' = NoRequest
    BY <1>4 DEF Wake
  <2> QED BY <1>1, <2>3, <2>4, <2>5, Finished
<1> QED BY <1>2, <1>3, <1>4

\* A wait ends, and what was in hand is dropped.
LEMMA EndWaitKeeps ==
  ASSUME TypeOK, TypeOK', HttpInv, EndWait,
         asked' = [j \in Client |-> IF Served(j) THEN Nothing ELSE asked[j]]
  PROVE  HttpInv'
<1>1. /\ req' = NoRequest /\ comm' = comm
      /\ client' = [c \in Client |->
                     IF c # req.client THEN client[c]
                     ELSE IF client[c] = "gone" THEN "idle" ELSE "dropped"]
  BY DEF EndWait
<1>2. CASE req = NoRequest
  <2>1. client' = client
    BY <1>1, <1>2, MachineAssumption DEF MachineAssumption, NoRequest, TypeOK
  <2> QED BY <1>1, <1>2, <2>1, Standing
<1>3. CASE req # NoRequest
  <2>1. client' = [client EXCEPT ![req.client] = IF @ = "gone" THEN "idle" ELSE "dropped"]
    BY <1>1 DEF TypeOK
  <2> QED BY <1>1, <1>3, <2>1, Finished
<1> QED BY <1>2, <1>3

\* Whatever happens next, answers stay with who asked.
LEMMA HttpStep ==
  ASSUME LoopInv, LoopInv', HttpInv, [HttpNext]_hvars
  PROVE  HttpInv'
<1>0. TypeOK /\ TypeOK'
  BY DEF LoopInv
<1>1. CASE \E c \in Client : Command(c) \/ GiveUp(c)
  BY <1>0, <1>1, ClientKeeps
<1>2. CASE Loop(Requests)
  BY <1>0, <1>2, TakingKeeps, InHandKeeps DEF Loop, Requests
<1>3. CASE Loop(SleepEnds) \/ Loop(WakerFires)
  BY <1>0, <1>3, EndWaitKeeps DEF Loop, SleepEnds, WakerFires
<1>4. CASE Loop(Top) \/ Loop(DrainDone) \/ Loop(Handling)
  <2>1. UNCHANGED <<client, comm, req>>
    BY <1>4 DEF Loop, Top, DrainDone, Handling, Handle, Park, EntryPoint, Poll, Probe,
       Validation, Download, DirectDownload, PrepareLocalInstall, Install, Reboot, Error
  <2> QED BY <1>4, <2>1, Standing DEF Loop
<1>5. CASE UNCHANGED hvars
  BY <1>5 DEF hvars, vars, HttpInv, HttpTypeOK, Correlated, WaitsForAnswer, AskedOnce,
     AskedInHand
<1> QED BY <1>1, <1>2, <1>3, <1>4, <1>5 DEF HttpNext

\* Answers go to who asked, for what was asked, whoever gives up meanwhile
\* (Addr::request_*, whose match on the kind of answer is otherwise unreachable!).
THEOREM AnswersFit == HttpSpec => []Correlated
<1>1. HttpInv => Correlated
  BY DEF HttpInv
<1> QED BY <1>1, InitHttp, HttpStep, LoopBeneath, PTL DEF HttpSpec

-----------------------------------------------------------------------------
Installs == {"localInstall", "remoteInstall"}

\* What an answer says of the step it comes with.
Outcome(a, k) ==
  \/ /\ \/ a = "dropped" /\ k \in {"probe"} \cup Installs /\ state \in Preemptive
        \/ a = "info" /\ k = "info"
        \/ a \in {"error", "delayed"} /\ k = "probe" /\ state \in Preemptive
        \/ a = "busy" /\ k = "probe" /\ state \notin Preemptive
        \/ a = "invalidState" /\ k = "abortDownload" /\ state \notin Downloading
        \/ a = "invalidState" /\ k \in Installs /\ state \notin Preemptive
     /\ UNCHANGED <<state, offerer>>
  \/ /\ a = "accepted" /\ k = "abortDownload" /\ state \in Downloading
     /\ state' = "entryPoint"
  \/ /\ a = "accepted" /\ k \in Installs /\ state \in Preemptive
     /\ state' = InstallState(k)
  \/ /\ a = "available" /\ k = "probe" /\ state \in Preemptive
     /\ state' = "validation" /\ offerer' = server
  \/ /\ a = "unavailable" /\ k = "probe" /\ state \in Preemptive
     /\ state' = "entryPoint"

\* Client c waits, and step A answers d: c is d, and the answer is as given.
LEMMA Answered ==
  ASSUME TypeOK, NEW c \in Client, NEW d \in Client, NEW a, Served(c),
         client' = [client EXCEPT ![d] = IF @ = "gone" THEN "idle" ELSE a]
  PROVE  c = d /\ client'[c] = a /\ client[d] # "gone"
BY DEF Served, TypeOK

\* The answers to requests that are taken.
LEMMA TakenOutcome ==
  ASSUME TypeOK, HttpInv, NEW c \in Client, Served(c),
         TakeInfo \/ TakeProbeBusy \/ TakeProbe \/ TakeAbort \/ TakeInstall
  PROVE  Outcome(client'[c], asked[c].kind)
<1> DEFINE d == Head(comm).client
<1>0. ASSUME NEW k, Take(k) PROVE d \in Client /\ (d = c => asked[c].kind = k)
  BY <1>0, Taking DEF Served
<1>1. CASE TakeInfo
  <2>1. /\ d \in Client /\ Respond(d, "info") /\ UNCHANGED <<state, offerer>>
        /\ d = c => asked[c].kind = "info"
    BY <1>0, <1>1 DEF TakeInfo
  <2> QED BY <2>1, Answered DEF Respond, Outcome
<1>2. CASE TakeProbeBusy
  <2>1. /\ d \in Client /\ Respond(d, "busy") /\ UNCHANGED <<state, offerer>>
        /\ d = c => asked[c].kind = "probe"
        /\ state \notin Preemptive
    BY <1>0, <1>2 DEF TakeProbeBusy
  <2> QED BY <2>1, Answered DEF Respond, Outcome
<1>3. CASE TakeProbe
  BY <1>3 DEF TakeProbe, Served
<1>4. CASE TakeAbort
  <2>1. d \in Client /\ (d = c => asked[c].kind = "abortDownload")
    BY <1>0, <1>4 DEF TakeAbort
  <2>2. CASE state \in Downloading /\ RespondWith(d, "accepted", "entryPoint", None)
    <3>1. d = c /\ client'[c] = "accepted" /\ client[d] # "gone"
      BY <2>1, <2>2, Answered DEF RespondWith, Respond
    <3>2. state' = "entryPoint"
      BY <2>2, <3>1 DEF RespondWith
    <3> QED BY <2>1, <2>2, <3>1, <3>2 DEF Outcome
  <2>3. CASE state \notin Downloading /\ Respond(d, "invalidState") /\ UNCHANGED <<state, offerer>>
    BY <2>1, <2>3, Answered DEF Respond, Outcome
  <2> QED BY <1>4, <2>2, <2>3 DEF TakeAbort
<1>5. CASE TakeInstall
  <2>1. /\ d \in Client /\ UNCHANGED <<state, offerer>>
        /\ d = c => asked[c].kind \in Installs
        /\ \/ state \notin Preemptive /\ Respond(d, "invalidState")
           \/ UNCHANGED client
    BY <1>0, <1>5 DEF TakeInstall, Installs
  <2>2. CASE state \notin Preemptive /\ Respond(d, "invalidState")
    BY <2>1, <2>2, Answered DEF Respond, Outcome
  <2>3. CASE UNCHANGED client
    BY <2>3 DEF Served
  <2> QED BY <2>1, <2>2, <2>3
<1> QED BY <1>1, <1>2, <1>3, <1>4, <1>5

\* The answers to the request in hand: it has kept what its client asked.
LEMMA InHandOutcome ==
  ASSUME TypeOK, JudgedByState, HttpInv, NEW c \in Client, Served(c), ProbeResult \/ Wake
  PROVE  Outcome(client'[c], asked[c].kind)
<1> DEFINE d == req.client
<1>0. req # NoRequest /\ d \in Client /\ state \in Preemptive
  BY DEF ProbeResult, Wake, TypeOK, Request, NoRequest, JudgedByState
<1>1. CASE ProbeResult
  <2>1. /\ UNCHANGED <<state, offerer>>
        /\ Respond(d, "error") \/ Respond(d, "delayed") \/ UNCHANGED client
        /\ d = c => asked[c].kind = "probe"
    BY <1>0, <1>1 DEF ProbeResult, HttpInv, Correlated, AskedInHand, Served
  <2>2. CASE Respond(d, "error")
    BY <1>0, <2>1, <2>2, Answered DEF Respond, Outcome
  <2>3. CASE Respond(d, "delayed")
    BY <1>0, <2>1, <2>3, Answered DEF Respond, Outcome
  <2>4. CASE UNCHANGED client
    BY <2>4 DEF Served
  <2> QED BY <2>1, <2>2, <2>3, <2>4
<1>2. CASE Wake
  <2>1. CASE /\ req.answer \in {"unavailable", "available"}
             /\ Respond(d, "error") /\ UNCHANGED <<state, offerer>>
    <3>1. d = c => asked[c].kind = "probe"
      BY <1>0, <1>2, <2>1 DEF Wake, HttpInv, Correlated, AskedInHand, Served
    <3> QED BY <1>0, <2>1, <3>1, Answered DEF Respond, Outcome
  <2>2. CASE RespondWith(d, req.answer, req.next,
                         IF req.next = "validation" THEN server ELSE None)
    <3>1. c = d /\ client'[c] = req.answer /\ client[d] # "gone"
      BY <1>0, <2>2, Answered DEF RespondWith, Respond
    <3>2. /\ state' = req.next
          /\ offerer' = IF req.next = "validation" THEN server ELSE None
      BY <2>2, <3>1 DEF RespondWith
    <3>3. client[d] = "waiting" /\ req.at = "waking"
      BY <1>2, <3>1 DEF Served, Wake
    <3>4. LET k == asked[c].kind IN
            \/ k = "probe" /\ req.next = "entryPoint" /\ req.answer = "unavailable"
            \/ k = "probe" /\ req.next = "validation" /\ req.answer = "available"
            \/ /\ k \in Installs
               /\ req.next = InstallState(k) /\ req.answer = "accepted"
      BY <1>0, <3>1, <3>3 DEF HttpInv, Correlated, AskedInHand, Installs
    <3> QED BY <1>0, <3>1, <3>2, <3>4 DEF Outcome
  <2> QED BY <1>2, <2>1, <2>2 DEF Wake
<1> QED BY <1>1, <1>2

\* A command that ends does so with an answer, or because its responder was
\* dropped.
LEMMA Outcomes ==
  ASSUME LoopInv, HttpInv, [HttpNext]_hvars, NEW c \in Client,
         Served(c), client'[c] # "gone"
  PROVE  Outcome(client'[c], asked[c].kind)
<1>0. TypeOK /\ JudgedByState
  BY DEF LoopInv
<1>1. CASE \E d \in Client : Command(d) \/ GiveUp(d)
  BY <1>0, <1>1 DEF Command, GiveUp, SendRequest, Disconnect, Served, TypeOK
<1>2. CASE Loop(Requests)
  BY <1>0, <1>2, TakenOutcome, InHandOutcome DEF Loop, Requests
<1>3. CASE Loop(SleepEnds) \/ Loop(WakerFires)
  <2>1. /\ UNCHANGED <<state, offerer>>
        /\ client' = [k \in Client |->
                       IF k # req.client THEN client[k]
                       ELSE IF client[k] = "gone" THEN "idle" ELSE "dropped"]
    BY <1>3 DEF Loop, SleepEnds, WakerFires, EndWait
  <2>2. client'[c] = "dropped" /\ req.client = c
    BY <2>1 DEF Served
  <2>3. req # NoRequest
    BY <2>2, MachineAssumption DEF NoRequest, MachineAssumption
  <2>4. state \in Preemptive /\ asked[c].kind \in {"probe"} \cup Installs
    BY <1>0, <2>2, <2>3 DEF JudgedByState, HttpInv, Correlated, AskedInHand, Served, Installs
  <2> QED BY <2>1, <2>2, <2>4 DEF Outcome
<1>4. CASE Loop(Top) \/ Loop(DrainDone) \/ Loop(Handling)
  <2>1. UNCHANGED client
    BY <1>4 DEF Loop, Top, DrainDone, Handling, Handle, Park, EntryPoint, Poll, Probe,
       Validation, Download, DirectDownload, PrepareLocalInstall, Install, Reboot, Error
  <2> QED BY <2>1 DEF Served
<1>5. CASE UNCHANGED hvars
  BY <1>5 DEF hvars, vars, Served
<1> QED BY <1>1, <1>2, <1>3, <1>4, <1>5 DEF HttpNext

\* The replies of http_api.rs: what is refused or fails has a status of its own.
LEMMA Statuses ==
  ASSUME NEW a, NEW k, NEW name
  PROVE  /\ a \in {"info", "available", "unavailable", "delayed", "busy", "accepted"}
              => ReplyTo(a, k, name).status = OK
         /\ a \in {"invalidState", "error"} => ReplyTo(a, k, name).status # OK
         /\ a = "info" => ReplyTo(a, k, name).body = "info"
         /\ a = "delayed" => ReplyTo(a, k, name).body = "tryAgain"
         /\ a = "busy" => ReplyTo(a, k, name).body = name
         /\ a = "available" => ReplyTo(a, k, name).body = "updating"
         /\ a = "unavailable" => ReplyTo(a, k, name).body = "noUpdate"
         /\ a = "accepted" =>
              ReplyTo(a, k, name).body = IF k = "abortDownload" THEN "message" ELSE name
<1> USE DEF ReplyTo, Reply, OK, NotAcceptable, InternalServerError
<1>1. CASE a = "info"
  BY <1>1
<1>2. CASE a = "available"
  BY <1>2
<1>3. CASE a = "unavailable"
  BY <1>3
<1>4. CASE a = "delayed"
  BY <1>4
<1>5. CASE a = "busy"
  BY <1>5
<1>6. CASE a = "accepted"
  BY <1>6
<1>7. CASE a = "invalidState"
  BY <1>7
<1>8. CASE a = "error"
  BY <1>8
<1>9. CASE a \notin Answer
  BY ONLY <1>9 DEF Answer
<1> QED BY ONLY <1>1, <1>2, <1>3, <1>4, <1>5, <1>6, <1>7, <1>8, <1>9 DEF Answer

\* The results of the client library follow the status.
LEMMA Results ==
  ASSUME NEW k, NEW reply
  PROVE  /\ reply.status = OK => ResultOf(k, reply).what \in {"success", "unreadable"}
         /\ reply.status # OK => ResultOf(k, reply).what # "success"
         /\ ResultOf(k, reply).what = "success" =>
              ResultOf(k, reply).said = reply.body /\ reply.body \in Successes[k]
BY DEF ResultOf, Parsed, OK, NotAcceptable

\* A body the library cannot read: with that status the result is unreadable only
\* if the body is none of its successes.
LEMMA Unreadable ==
  ASSUME NEW k, NEW reply, reply.status = OK, ResultOf(k, reply).what # "success"
  PROVE  reply.body \notin Successes[k]
BY DEF ResultOf, Parsed, OK, NotAcceptable

\* Who is told of a failure may ask again: nothing was done.  An answer that fails
\* half-way (a save that fails, a wait that ends) leaves the state and the
\* package in it alone (handle_communication).  Of what is granted only an abort
\* and an install in EntryPoint are told as failures, for their bodies are not
\* in the library's tables, and then exactly what was asked is done.
THEOREM FailureIsNothingOrMisread == HttpSpec => NothingDoneUnlessMisread
<1>1. ASSUME LoopInv, HttpInv, [HttpNext]_hvars
      PROVE  \A c \in Client : \A w \in {"refused", "unreadable", "unexpected", "noResponse"} :
               Ends(c, w) => \/ UNCHANGED <<state, offerer>>
                             \/ w = "unreadable" /\ Misread(c)
  <2> SUFFICES ASSUME NEW c \in Client,
                      NEW w \in {"refused", "unreadable", "unexpected", "noResponse"},
                      Ends(c, w)
               PROVE  \/ UNCHANGED <<state, offerer>>
                      \/ w = "unreadable" /\ Misread(c)
    OBVIOUS
  <2> DEFINE a == client'[c]
             k == asked[c].kind
             reply == ReplyTo(a, k, state)
  <2>1. Outcome(a, k)
    BY <1>1, Outcomes DEF Ends
  <2>2. CASE a \in {"dropped", "error", "info", "delayed", "invalidState", "busy"}
    BY <2>1, <2>2 DEF Outcome
  <2>3. CASE a \in {"accepted", "available", "unavailable"}
    <3>1. reply.status = OK
      BY <2>3, Statuses
    <3>2. Result(c) = ResultOf(k, reply)
      BY <2>3 DEF Result
    <3>3. w = "unreadable"
      <4>1. ResultOf(k, reply).what \in {"success", "unreadable"}
        BY <3>1, Results
      <4> QED BY <3>2, <4>1 DEF Ends
    <3>4. reply.body \notin Successes[k]
      <4>1. ResultOf(k, reply).what # "success"
        BY <3>2, <3>3 DEF Ends
      <4> QED BY <3>1, <4>1, Unreadable
    <3>5. CASE a \in {"available", "unavailable"} /\ k = "probe"
      <4>1. reply.body \in {"updating", "noUpdate"}
        BY <3>5, Statuses
      <4> QED BY <3>4, <3>5, <4>1 DEF Successes
    <3>6. CASE a = "accepted" /\ k = "abortDownload"
      BY <2>1, <3>3, <3>6 DEF Outcome, Misread, Installs
    <3>7. CASE a = "accepted" /\ k \in Installs
      <4>1. reply.body = state
        BY <3>7, Statuses DEF Installs
      <4>2. Successes[k] = Readable
        BY <3>7 DEF Installs, Successes
      <4>3. state \in Preemptive /\ state' = InstallState(k)
        BY <2>1, <3>7 DEF Outcome, Installs
      <4>4. state = "entryPoint"
        BY <3>4, <4>1, <4>2, <4>3 DEF Readable, State, Preemptive
      <4> QED BY <3>3, <3>7, <4>3, <4>4 DEF Misread, Installs
    <3> QED BY <2>1, <2>3, <3>5, <3>6, <3>7 DEF Outcome, Installs
  <2> QED BY <2>1, <2>2, <2>3 DEF Outcome
<1>2. HttpSpec => [](LoopInv /\ HttpInv)
  BY InitHttp, HttpStep, LoopBeneath, PTL DEF HttpSpec
<1> QED BY <1>1, <1>2, PTL DEF HttpSpec, NothingDoneUnlessMisread

\* Who is told of success may rely on it: the loop does next what was asked, and
\* an update that runs is one the server in force offered.
THEOREM SuccessIsReal == HttpSpec => SuccessMeansDone
<1> DEFINE Told(c) ==
      Ends(c, "success") =>
        /\ asked[c].kind \in {"localInstall", "remoteInstall"}
             => state' = InstallState(asked[c].kind)
        /\ Result(c).said = "updating" => state' = "validation" /\ offerer' = server
        /\ Result(c).said = "noUpdate" => state' = "entryPoint"
<1>1. ASSUME LoopInv, HttpInv, [HttpNext]_hvars
      PROVE  \A c \in Client : Told(c)
  <2> SUFFICES ASSUME NEW c \in Client, Ends(c, "success")
               PROVE  /\ asked[c].kind \in {"localInstall", "remoteInstall"}
                           => state' = InstallState(asked[c].kind)
                      /\ Result(c).said = "updating"
                           => state' = "validation" /\ offerer' = server
                      /\ Result(c).said = "noUpdate" => state' = "entryPoint"
    OBVIOUS
  <2> DEFINE a == client'[c]
             k == asked[c].kind
             reply == ReplyTo(a, k, state)
  <2>1. Outcome(a, k)
    BY <1>1, Outcomes DEF Ends
  <2>2. a # "dropped" /\ Result(c) = ResultOf(k, reply)
    BY DEF Ends, Result
  <2>3. /\ Result(c).said = reply.body
        /\ reply.body \in Successes[k]
        /\ reply.status = OK
    BY <2>2, Results DEF Ends
  <2>4. a \notin {"invalidState", "error"}
    BY <2>3, Statuses
  <2>5. state \in State
    BY <1>1 DEF LoopInv, TypeOK
  <2>6. state \notin {"updating", "noUpdate"}
    BY <2>5 DEF State, Preemptive, Downloading, Installing
  <2>7. k \in {"localInstall", "remoteInstall"} => Successes[k] = Readable
    BY DEF Successes
  <2>8. {"info", "tryAgain"} \cap Readable = {}
    BY DEF Readable, State, Preemptive, Downloading, Installing
  <2>9. CASE a \in {"info", "delayed"}
    <3>1. reply.body \in {"info", "tryAgain"}
      BY <2>9, Statuses
    <3> QED BY <2>3, <2>7, <2>8, <3>1
  <2>10. CASE a = "busy" /\ k = "probe"
    <3>1. reply.body = state
      BY <2>10, Statuses
    <3> QED BY <2>3, <2>6, <2>10, <3>1
  <2>11. CASE a = "accepted" /\ k = "abortDownload"
    <3>1. reply.body = "message"
      BY <2>11, Statuses
    <3> QED BY <2>3, <2>11, <3>1
  <2>12. CASE a = "accepted" /\ k \in {"localInstall", "remoteInstall"}
    <3>1. reply.body = state
      BY <2>12, Statuses
    <3> QED BY <2>1, <2>3, <2>6, <2>12, <3>1 DEF Outcome
  <2>13. CASE a = "available" /\ k = "probe"
    <3>1. reply.body = "updating"
      BY <2>13, Statuses
    <3> QED BY <2>1, <2>3, <2>13, <3>1 DEF Outcome
  <2>14. CASE a = "unavailable" /\ k = "probe"
    <3>1. reply.body = "noUpdate"
      BY <2>14, Statuses
    <3> QED BY <2>1, <2>3, <2>14, <3>1 DEF Outcome
  <2> QED BY <2>1, <2>2, <2>4, <2>9, <2>10, <2>11, <2>12, <2>13, <2>14
       DEF Outcome, Installs
<1>2. HttpSpec => [](LoopInv /\ HttpInv)
  BY InitHttp, HttpStep, LoopBeneath, PTL DEF HttpSpec
<1>3. ASSUME LoopInv, HttpInv, [HttpNext]_hvars
      PROVE  [\A c \in Client : Told(c)]_hvars
  BY <1>1, <1>3
<1> QED BY <1>2, <1>3, PTL DEF HttpSpec, SuccessMeansDone

-----------------------------------------------------------------------------
(***************************************************************************)
(* The abstract service.                                                   *)
(***************************************************************************)

\* A step at the end of which client d has answer a, and no other has another.
Ended(d, a) ==
  /\ d \in Client /\ a \in Answer \cup {"dropped"}
  /\ client[d] \in {"waiting", "gone"}
  /\ client' = [client EXCEPT ![d] = IF @ = "gone" THEN "idle" ELSE a]
  /\ client[d] = "gone" => state' = state

\* A request step answers one client, or changes nothing that clients see.
LEMMA OneEnds ==
  ASSUME LoopInv, HttpInv, Requests \/ EndWait
  PROVE  (\E d, a : Ended(d, a)) \/ UNCHANGED <<client, state>>
<1>0. TypeOK
  BY DEF LoopInv
<1>1. ASSUME NEW k, Take(k)
      PROVE  Head(comm).client \in Client /\ client[Head(comm).client] \in {"waiting", "gone"}
  BY <1>0, <1>1, Taking
<1>2. CASE TakeInfo
  <2>1. Ended(Head(comm).client, "info")
    BY <1>1, <1>2 DEF TakeInfo, Respond, Ended, Answer
  <2> QED BY <2>1
<1>3. CASE TakeProbeBusy
  <2>1. Ended(Head(comm).client, "busy")
    BY <1>1, <1>3 DEF TakeProbeBusy, Respond, Ended, Answer
  <2> QED BY <2>1
<1>4. CASE TakeProbe
  BY <1>4 DEF TakeProbe
<1>5. CASE TakeAbort
  <2>1. \E a : Ended(Head(comm).client, a)
    BY <1>1, <1>5 DEF TakeAbort, RespondWith, Respond, Ended, Answer
  <2> QED BY <2>1
<1>6. CASE TakeInstall
  <2>1. Ended(Head(comm).client, "invalidState") \/ UNCHANGED <<client, state>>
    BY <1>1, <1>6 DEF TakeInstall, Respond, Ended, Answer
  <2> QED BY <2>1
<1>7. ASSUME req # NoRequest
      PROVE  req.client \in Client /\ client[req.client] \in {"waiting", "gone"}
  BY <1>0, <1>7 DEF TypeOK, Request, HttpInv, Correlated, AskedInHand
<1>8. CASE ProbeResult
  <2>1. req # NoRequest
    BY <1>8 DEF ProbeResult, NoRequest
  <2>2. Ended(req.client, "error") \/ Ended(req.client, "delayed") \/ UNCHANGED <<client, state>>
    BY <1>7, <1>8, <2>1 DEF ProbeResult, Respond, Ended, Answer
  <2> QED BY <2>2
<1>9. CASE Wake
  <2>1. req # NoRequest /\ req.answer \in Answer
    BY <1>0, <1>9 DEF Wake, NoRequest, TypeOK, Request, Answer
  <2>2. Ended(req.client, "error") \/ Ended(req.client, req.answer)
    BY <1>7, <1>9, <2>1 DEF Wake, RespondWith, Respond, Ended, Answer
  <2> QED BY <2>2
<1>10. CASE EndWait
  <2>1. /\ state' = state
        /\ client' = [c \in Client |->
                       IF c # req.client THEN client[c]
                       ELSE IF client[c] = "gone" THEN "idle" ELSE "dropped"]
    BY <1>10 DEF EndWait
  <2>2. client \in [Client -> Answer \cup {"idle", "waiting", "gone", "dropped"}]
    BY <1>0 DEF TypeOK
  <2>3. CASE req = NoRequest
    <3>1. client' = client
      BY <2>1, <2>2, <2>3, MachineAssumption DEF NoRequest, MachineAssumption
    <3> QED BY <2>1, <3>1
  <2>4. CASE req # NoRequest
    <3>1. client' = [client EXCEPT ![req.client] = IF @ = "gone" THEN "idle" ELSE "dropped"]
      BY <1>7, <2>1, <2>2, <2>4
    <3>2. Ended(req.client, "dropped")
      BY <1>7, <2>1, <2>4, <3>1 DEF Ended
    <3> QED BY <3>2
  <2> QED BY <2>3, <2>4
<1> QED BY <1>2, <1>3, <1>4, <1>5, <1>6, <1>8, <1>9, <1>10 DEF Requests

\* What a client sees of an end: a verdict, or a loss.
LEMMA OutcomeIsVerdict ==
  ASSUME NEW c \in Client, NEW a, Outcome(a, asked[c].kind)
  PROVE  \/ <<a, state'>> \in Agent!Verdicts(asked[c].kind, state)
         \/ /\ asked[c].kind \in {"probe", "localInstall", "remoteInstall"}
            /\ state \in Agent!Preemptive /\ a = "dropped" /\ state' = state
BY DEF Outcome, Installs, InstallState, Agent!Verdicts, Agent!Preemptive, Agent!Downloading,
       Preemptive, Downloading

\* Where nobody is served, clients see a step of the machine at most.
LEMMA NobodyServed ==
  ASSUME HttpTypeOK, UNCHANGED client,
         asked' = [c \in Client |-> IF Served(c) THEN Nothing ELSE asked[c]],
         state' = state \/ Agent!Move
  PROVE  [Agent!ServiceNext]_(<<state, [c \in Client |-> asked[c].kind], Seen>>)
<1>1. asked' = asked
  BY DEF HttpTypeOK, Served
<1>2. Seen' = Seen
  BY DEF Seen
<1> QED BY <1>1, <1>2 DEF Agent!ServiceNext, Agent!Step

\* A handler takes the machine where its state leads.
LEMMA HandlerMoves == ASSUME TypeOK, Handling PROVE state' = state \/ Agent!Move
BY DEF Handling, Handle, Goto, WaitIn, Park, EntryPoint, Poll, Probe, Validation, Download,
       DirectDownload, PrepareLocalInstall, Install, Reboot, Error, Agent!Move, Agent!Leads

\* Every step is one of the abstract service, or none to its clients.
LEMMA ServiceStep ==
  ASSUME LoopInv, HttpInv, [HttpNext]_hvars
  PROVE  [Agent!ServiceNext]_(<<state, [c \in Client |-> asked[c].kind], Seen>>)
<1> DEFINE kinds == [c \in Client |-> asked[c].kind]
           Goal == [Agent!ServiceNext]_(<<state, kinds, Seen>>)
<1>0. /\ TypeOK /\ HttpTypeOK /\ WaitsForAnswer
      /\ client \in [Client -> Answer \cup {"idle", "waiting", "gone", "dropped"}]
      /\ asked \in [Client -> Asked \cup {Nothing}]
      /\ None \notin Kinds
  BY MachineAssumption DEF LoopInv, TypeOK, HttpInv, HttpTypeOK, Correlated, MachineAssumption,
     AllKinds, None
<1>1. \A c \in Client : asked[c].kind = None <=> asked[c] = Nothing
  BY <1>0 DEF Asked, Nothing
<1>2. Agent!None = None
  BY DEF Agent!None, None
<1>3. ASSUME NEW c \in Client, Command(c) PROVE Goal
  <2>1. PICK k \in Kinds, s \in CustomServer \cup {Default} :
          asked' = [asked EXCEPT ![c] = [kind |-> k, server |-> s]]
    BY <1>3 DEF Command, KindsOf
  <2>2. client[c] \notin {"waiting", "gone"} /\ client' = [client EXCEPT ![c] = "waiting"]
        /\ state' = state
    BY <1>3 DEF Command, SendRequest
  <2>3. kinds[c] = None
    BY <1>0, <1>1, <2>2 DEF WaitsForAnswer
  <2>4. kinds' = [kinds EXCEPT ![c] = k]
    BY <1>0, <2>1
  <2>5. Seen' = [Seen EXCEPT ![c] = None]
    BY <1>0, <2>2 DEF Seen
  <2>6. Agent!Ask(c)
    BY <1>2, <2>2, <2>3, <2>4, <2>5 DEF Agent!Ask
  <2> QED BY <2>6 DEF Agent!ServiceNext
<1>4. ASSUME NEW c \in Client, GiveUp(c) PROVE Goal
  <2>1. /\ client[c] = "waiting" /\ client' = [client EXCEPT ![c] = "gone"]
        /\ state' = state /\ asked' = [asked EXCEPT ![c] = Nothing]
    BY <1>4 DEF GiveUp, Disconnect
  <2>2. kinds[c] # None
    BY <1>0, <1>1, <2>1 DEF WaitsForAnswer
  <2>3. kinds' = [kinds EXCEPT ![c] = None]
    BY <1>0, <2>1 DEF Nothing
  <2>4. Seen' = Seen
    BY <1>0, <2>1 DEF Seen
  <2>5. Agent!GiveUp(c)
    BY <1>2, <2>1, <2>2, <2>3, <2>4 DEF Agent!GiveUp
  <2> QED BY <2>5 DEF Agent!ServiceNext
<1>5. CASE Loop(Requests) \/ Loop(SleepEnds) \/ Loop(WakerFires)
  <2>0. /\ Requests \/ EndWait
        /\ asked' = [c \in Client |-> IF Served(c) THEN Nothing ELSE asked[c]]
    BY <1>5 DEF Loop, SleepEnds, WakerFires
  <2>1. CASE UNCHANGED <<client, state>>
    BY <1>0, <2>0, <2>1, NobodyServed
  <2>2. ASSUME NEW d, NEW a, Ended(d, a), client[d] = "gone" PROVE Goal
    <3>1. /\ d \in Client /\ client' = [client EXCEPT ![d] = "idle"] /\ state' = state
      BY <2>2 DEF Ended
    <3>2. asked' = asked
      BY <1>0, <2>0, <2>2, <3>1 DEF Served
    <3>3. Seen' = Seen
      BY <1>0, <2>2, <3>1 DEF Seen
    <3> QED BY <3>1, <3>2, <3>3
  <2>3. ASSUME NEW d, NEW a, Ended(d, a), client[d] = "waiting" PROVE Goal
    <3>1. /\ d \in Client /\ client' = [client EXCEPT ![d] = a]
          /\ a \in Answer \cup {"dropped"}
      BY <2>3 DEF Ended
    <3>2. a \notin {"idle", "waiting", "gone"}
      BY <3>1 DEF Answer
    <3>3. Served(d) /\ client'[d] = a /\ \A c \in Client : Served(c) => c = d
      BY <1>0, <2>3, <3>1, <3>2 DEF Served
    <3>4. kinds' = [kinds EXCEPT ![d] = None]
      BY <1>0, <2>0, <3>1, <3>3 DEF Nothing
    <3>5. Seen' = [Seen EXCEPT ![d] = a]
      BY <1>0, <3>1, <3>2 DEF Seen
    <3>6. kinds[d] # None /\ kinds[d] = asked[d].kind
      BY <1>0, <1>1, <2>3, <3>1 DEF WaitsForAnswer
    <3>7. Outcome(a, asked[d].kind)
      BY <3>1, <3>2, <3>3, Outcomes
    <3>8. \/ <<a, state'>> \in Agent!Verdicts(kinds[d], state)
          \/ /\ kinds[d] \in {"probe", "localInstall", "remoteInstall"}
             /\ state \in Agent!Preemptive /\ a = "dropped" /\ state' = state
      BY <3>1, <3>6, <3>7, OutcomeIsVerdict
    <3>9. Agent!Answered(d, a)
      BY <1>2, <3>4, <3>5 DEF Agent!Answered
    <3>10. Agent!Serve(d) \/ Agent!Lose(d)
      <4>1. CASE <<a, state'>> \in Agent!Verdicts(kinds[d], state)
        <5> DEFINE v == <<a, state'>>
        <5>1. v[1] = a /\ v[2] = state'
          OBVIOUS
        <5> HIDE DEF v
        <5>2. Agent!Answered(d, v[1]) /\ state' = v[2]
          BY <3>9, <5>1 DEF Agent!Answered
        <5>3. v \in Agent!Verdicts(kinds[d], state)
          BY <4>1 DEF v
        <5> QED BY <1>2, <3>6, <5>2, <5>3 DEF Agent!Serve, Agent!Answered
      <4>2. CASE /\ kinds[d] \in {"probe", "localInstall", "remoteInstall"}
                 /\ state \in Agent!Preemptive /\ a = "dropped" /\ state' = state
        BY <3>9, <4>2 DEF Agent!Lose
      <4> QED BY <3>8, <4>1, <4>2
    <3> QED BY <3>1, <3>10 DEF Agent!ServiceNext
  <2>4. ASSUME NEW d, NEW a, Ended(d, a) PROVE Goal
    BY <2>2, <2>3, <2>4 DEF Ended
  <2> QED BY <2>0, <2>1, <2>4, OneEnds
<1>6. CASE Loop(Top) \/ Loop(DrainDone) \/ Loop(Handling)
  <2>1. UNCHANGED client /\ (state' = state \/ Agent!Move)
    BY <1>0, <1>6, HandlerMoves DEF Loop, Top, DrainDone, Handling, Handle, Park, EntryPoint,
       Poll, Probe, Validation, Download, DirectDownload, PrepareLocalInstall, Install, Reboot,
       Error
  <2> QED BY <1>0, <1>6, <2>1, NobodyServed DEF Loop
<1>7. CASE UNCHANGED hvars
  BY <1>7 DEF hvars, vars, Seen
<1> QED BY <1>3, <1>4, <1>5, <1>6, <1>7 DEF HttpNext

\* The agent implements the abstract service: what its clients see is what they
\* would see of one that serves each request at one moment, for any number of
\* clients, capacities of the channels and faults.
THEOREM ServesAtOneMoment == HttpSpec => ServesAtOnce
<1>1. HttpInit => Agent!ServiceInit
  BY DEF HttpInit, Init, Nothing, Seen, Agent!ServiceInit, Agent!Init, Agent!None, None
<1>2. LoopInv /\ HttpInv /\ [HttpNext]_hvars => [Agent!ServiceNext]_(Agent!svars)
  BY ServiceStep DEF Agent!svars
<1>3. HttpSpec => [](LoopInv /\ HttpInv)
  BY InitHttp, HttpStep, LoopBeneath, PTL DEF HttpSpec
<1> QED BY <1>1, <1>2, <1>3, PTL DEF HttpSpec, ServesAtOnce, Agent!ServiceSpec

\* The agent that serves its clients goes through its states in the order of the
\* abstract machine.
THEOREM StatesInOrder == HttpSpec => Agent!Spec
<1> DEFINE kinds == [c \in Client |-> asked[c].kind]
<1>1. Agent!ServiceInit => Agent!Init
  BY DEF Agent!ServiceInit
<1>2. HttpTypeOK /\ [Agent!ServiceNext]_(Agent!svars) => [Agent!Next]_state
  <2> SUFFICES ASSUME HttpTypeOK, Agent!ServiceNext, state' # state PROVE Agent!Next
    BY DEF Agent!svars
  <2>1. CASE Agent!Step
    BY <2>1 DEF Agent!Step, Agent!Next
  <2>2. ASSUME NEW c \in Client, Agent!Serve(c) PROVE Agent!Next
    <3>1. kinds[c] # None /\ kinds[c] \in AllKinds \cup {None}
      BY <2>2, MachineAssumption DEF Agent!Serve, Agent!None, None, HttpTypeOK, Asked, Nothing,
         MachineAssumption
    <3>2. PICK v \in Agent!Verdicts(kinds[c], state) : state' = v[2]
      BY <2>2 DEF Agent!Serve
    <3>3. CASE kinds[c] = "abortDownload"
      BY <3>2, <3>3 DEF Agent!Verdicts, Agent!Abort, Agent!Next
    <3>4. CASE kinds[c] \in {"probe", "localInstall", "remoteInstall"}
      BY <3>2, <3>4 DEF Agent!Verdicts, Agent!Request, Agent!Next
    <3>5. CASE kinds[c] = "info"
      BY <3>2, <3>5 DEF Agent!Verdicts
    <3> QED BY <3>1, <3>3, <3>4, <3>5 DEF AllKinds
  <2> QED BY <2>1, <2>2 DEF Agent!ServiceNext, Agent!Ask, Agent!GiveUp, Agent!Lose
<1>3. HttpSpec => []HttpTypeOK
  <2>1. HttpInv => HttpTypeOK
    BY DEF HttpInv
  <2> QED BY <2>1, InitHttp, HttpStep, LoopBeneath, PTL DEF HttpSpec
<1> QED BY <1>1, <1>2, <1>3, ServesAtOneMoment, PTL DEF ServesAtOnce, Agent!ServiceSpec, Agent!Spec
=============================================================================
