--------------------------- MODULE MachineProofs ---------------------------
(***************************************************************************)
(* What the run loop never does, for any number of clients, any capacity   *)
(* of its channels and any order in which requests come.                   *)
(***************************************************************************)
EXTENDS Machine, TLAPS

\* The messages, as sequences: a message sent is one more at most, and one
\* taken leaves the rest.
LEMMA Channel ==
  ASSUME comm \in Seq(Message), Len(comm) <= CommCapacity
  PROVE  /\ \A m \in Message : Len(comm) < CommCapacity =>
              Append(comm, m) \in Seq(Message) /\ Len(Append(comm, m)) <= CommCapacity
         /\ comm # <<>> => /\ Head(comm) \in Message
                           /\ Tail(comm) \in Seq(Message)
                           /\ Len(Tail(comm)) <= CommCapacity
<1>1. ASSUME NEW m \in Message, Len(comm) < CommCapacity
      PROVE  Append(comm, m) \in Seq(Message) /\ Len(Append(comm, m)) <= CommCapacity
  <2>1. Len(Append(comm, m)) = Len(comm) + 1 /\ Append(comm, m) \in Seq(Message)
    OBVIOUS
  <2> QED BY <1>1, <2>1, MachineAssumption DEF MachineAssumption
<1>2. ASSUME comm # <<>>
      PROVE  /\ Head(comm) \in Message
             /\ Tail(comm) \in Seq(Message)
             /\ Len(Tail(comm)) <= CommCapacity
  <2>1. Len(comm) \in Nat /\ Len(comm) # 0
    BY <1>2
  <2>2. Head(comm) \in Message /\ Tail(comm) \in Seq(Message)
    BY <1>2
  <2>3. Len(Tail(comm)) = Len(comm) - 1
    BY <1>2
  <2> QED BY <2>1, <2>2, <2>3, MachineAssumption DEF MachineAssumption
<1> QED BY <1>1, <1>2

\* Before the first step no request is in hand and nothing has been woken.
LEMMA InitLoop == Init => LoopInv
<1> SUFFICES ASSUME Init PROVE LoopInv
  OBVIOUS
<1>1. stray \in BOOLEAN
  BY DEF Init
<1>2. TypeOK
  BY <1>1, MachineAssumption DEF Init, TypeOK, MachineAssumption, State, Preemptive,
     Request, Message, Default, None
<1> QED BY <1>2 DEF LoopInv, Init, NoLostWake, JudgedByState

\* An answer is one, and a state that comes with it is the one given.
LEMMA Responding ==
  ASSUME TypeOK, NEW c \in Client, NEW answer \in Answer, NEW next \in State,
         NEW from \in CustomServer \cup {Default, None}
  PROVE  /\ Respond(c, answer) => client' \in
              [Client -> Answer \cup {"idle", "waiting", "gone", "dropped"}]
         /\ RespondWith(c, answer, next, from) =>
              /\ client' \in [Client -> Answer \cup {"idle", "waiting", "gone", "dropped"}]
              /\ state' = state \/ state' = next
              /\ state' \in State
              /\ offerer' \in CustomServer \cup {Default, None}
BY DEF TypeOK, Respond, RespondWith

\* A client sends or gives up: the state, the loop and the waker channel are
\* as they were.
LEMMA ClientStep ==
  ASSUME LoopInv, NEW c \in Client, SendRequest(c) \/ Disconnect(c)
  PROVE  LoopInv'
<1> USE DEF LoopInv
<1>1. CASE SendRequest(c)
  <2>1. comm' \in Seq(Message) /\ Len(comm') <= CommCapacity
    <3>1. PICK k \in Kinds, sv \in CustomServer \cup {Default} :
            comm' = Append(comm, [client |-> c, kind |-> k, server |-> sv])
      BY <1>1 DEF SendRequest
    <3> QED BY <1>1, <3>1, Channel DEF SendRequest, Message, TypeOK
  <2>2. client' \in [Client -> Answer \cup {"idle", "waiting", "gone", "dropped"}]
    BY <1>1 DEF SendRequest, TypeOK
  <2> QED BY <1>1, <2>1, <2>2 DEF SendRequest, TypeOK, NoLostWake, JudgedByState
<1>2. CASE Disconnect(c)
  BY <1>2 DEF Disconnect, TypeOK, NoLostWake, JudgedByState
<1> QED BY <1>1, <1>2

\* Taking a request: it is judged by the state it finds, and changes it only
\* to end a download.
LEMMA TakeStep ==
  ASSUME LoopInv, TakeInfo \/ TakeProbeBusy \/ TakeProbe \/ TakeAbort \/ TakeInstall
  PROVE  LoopInv'
<1> USE DEF LoopInv
<1> DEFINE m == Head(comm)
<1>1. /\ req = NoRequest
      /\ comm # <<>>
      /\ comm' = Tail(comm)
      /\ \/ phase \in {"drain", "wait"}
         \/ phase = "handle" /\ state \in Downloading
  <2>1. \E k \in AllKinds : Take(k)
    BY DEF TakeInfo, TakeProbeBusy, TakeProbe, TakeAbort, TakeInstall, AllKinds
  <2>2. PICK k \in AllKinds : Take(k)
    BY <2>1
  <2>3. Receptive /\ comm' = Tail(comm)
    BY <2>2 DEF Take
  <2> QED BY ONLY <2>3 DEF Receptive
<1>2. /\ m \in Message
      /\ comm' \in Seq(Message)
      /\ Len(comm') <= CommCapacity
  BY <1>1, Channel DEF TypeOK
<1>3. m.client \in Client /\ m.server \in CustomServer \cup {Default}
  BY <1>2 DEF Message
<1>4. CASE TakeInfo
  <2>1. client' \in [Client -> Answer \cup {"idle", "waiting", "gone", "dropped"}]
    BY <1>3, <1>4 DEF TakeInfo, Respond, Answer, TypeOK
  <2> QED BY <1>2, <1>4, <2>1 DEF TakeInfo, TypeOK, NoLostWake, JudgedByState
<1>5. CASE TakeProbeBusy
  <2>1. client' \in [Client -> Answer \cup {"idle", "waiting", "gone", "dropped"}]
    BY <1>3, <1>5 DEF TakeProbeBusy, Respond, Answer, TypeOK
  <2> QED BY <1>2, <1>5, <2>1 DEF TakeProbeBusy, TypeOK, NoLostWake, JudgedByState
<1>6. CASE TakeProbe
  <2>1. req' = [client |-> m.client, at |-> "probing", next |-> None, answer |-> None]
    BY <1>1, <1>6 DEF TakeProbe, NoRequest
  <2>2. req' \in Request
    BY <1>3, <2>1 DEF Request
  <2>3. server' \in CustomServer \cup {Default}
    BY <1>3, <1>6 DEF TakeProbe, TypeOK
  <2>4. state \in Preemptive /\ phase \notin {"top", "handle"}
    BY <1>1, <1>6 DEF TakeProbe, Preemptive, Downloading
  <2> QED BY <1>2, <1>6, <2>2, <2>3, <2>4 DEF TakeProbe, TypeOK, NoLostWake, JudgedByState
<1>7. CASE TakeAbort
  <2>1. CASE state \in Downloading
    <3>1. /\ client' \in [Client -> Answer \cup {"idle", "waiting", "gone", "dropped"}]
          /\ state' = state \/ state' = "entryPoint"
          /\ state' \in State
          /\ offerer' \in CustomServer \cup {Default, None}
          /\ phase' = phase \/ phase' = "top"
      BY <1>3, <1>7, <2>1, Responding DEF TakeAbort, Answer, State, Preemptive
    <3>2. state \notin {"park", "probe"}
      BY <2>1 DEF Downloading
    <3> QED BY <1>1, <1>2, <1>7, <3>1, <3>2 DEF TakeAbort, TypeOK, NoLostWake, JudgedByState
  <2>2. CASE state \notin Downloading
    <3>1. client' \in [Client -> Answer \cup {"idle", "waiting", "gone", "dropped"}]
      BY <1>3, <1>7, <2>2 DEF TakeAbort, Respond, Answer, TypeOK
    <3> QED BY <1>2, <1>7, <2>2, <3>1 DEF TakeAbort, TypeOK, NoLostWake, JudgedByState
  <2> QED BY <2>1, <2>2
<1>8. CASE TakeInstall
  <2>1. PICK k \in {"localInstall", "remoteInstall"} :
          IF state \in Preemptive
            THEN /\ req' = [client |-> m.client, at |-> "waking",
                            next |-> InstallState(k), answer |-> "accepted"]
                 /\ UNCHANGED client
            ELSE /\ Respond(m.client, "invalidState")
                 /\ UNCHANGED req
    BY <1>8 DEF TakeInstall
  <2>2. CASE state \in Preemptive
    <3>1. req' \in Request
      BY <1>3, <2>1, <2>2 DEF Request, InstallState
    <3>2. phase \notin {"top", "handle"}
      BY <1>1, <2>2 DEF Preemptive, Downloading
    <3> QED BY <1>2, <1>8, <2>1, <2>2, <3>1, <3>2
            DEF TakeInstall, TypeOK, NoLostWake, JudgedByState
  <2>3. CASE state \notin Preemptive
    <3>1. client' \in [Client -> Answer \cup {"idle", "waiting", "gone", "dropped"}]
      BY <1>3, <2>1, <2>3 DEF Respond, Answer, TypeOK
    <3> QED BY <1>2, <1>8, <2>1, <2>3, <3>1
            DEF TakeInstall, TypeOK, NoLostWake, JudgedByState
  <2> QED BY <2>2, <2>3
<1> QED BY <1>4, <1>5, <1>6, <1>7, <1>8

\* The request in hand goes on: it keeps its state until it has sent the wake
\* message, and then it is no longer in hand.
LEMMA RequestStep ==
  ASSUME LoopInv, ProbeResult \/ Wake
  PROVE  LoopInv'
<1> USE DEF LoopInv
<1>1. req \in Request \ {NoRequest} /\ req.client \in Client
  BY DEF ProbeResult, Wake, TypeOK, Request, NoRequest
<1>2. CASE ProbeResult
  <2>1. req' \in Request /\ (req' # NoRequest => req # NoRequest)
    BY <1>1, <1>2 DEF ProbeResult, Request, NoRequest
  <2>2. client' \in [Client -> Answer \cup {"idle", "waiting", "gone", "dropped"}]
    BY <1>1, <1>2 DEF ProbeResult, Respond, Answer, TypeOK
  <2> QED BY <1>1, <1>2, <2>1, <2>2 DEF ProbeResult, TypeOK, NoLostWake, JudgedByState
<1>3. CASE Wake
  <2>1. req.next \in State /\ req.answer \in Answer
    BY <1>1, <1>3 DEF Wake, Request, NoRequest, State, Preemptive, Downloading, Installing, Answer
  <2>2. waker' \in 0..WakerCapacity /\ waker' > 0
    BY <1>3, MachineAssumption DEF Wake, TypeOK, MachineAssumption
  <2>3. /\ client' \in [Client -> Answer \cup {"idle", "waiting", "gone", "dropped"}]
        /\ state' \in State
        /\ offerer' \in CustomServer \cup {Default, None}
    <3>1. CASE RespondWith(req.client, req.answer, req.next,
                           IF req.next = "validation" THEN server ELSE None)
      <4>1. (IF req.next = "validation" THEN server ELSE None)
              \in CustomServer \cup {Default, None}
        BY DEF TypeOK
      <4> QED BY <1>1, <2>1, <3>1, <4>1, Responding
    <3>2. CASE Respond(req.client, "error") /\ UNCHANGED <<state, offerer>>
      BY <1>1, <3>2 DEF Respond, Answer, TypeOK
    <3> QED BY <1>3, <3>1, <3>2 DEF Wake
  <2>4. req' = NoRequest /\ req' \in Request
    BY <1>3 DEF Wake, Request
  <2> QED BY <1>3, <2>2, <2>3, <2>4 DEF Wake, TypeOK, NoLostWake, JudgedByState
<1> QED BY <1>2, <1>3

\* The loop moves on: a wait that ends leaves no request in hand.
LEMMA LoopStep ==
  ASSUME LoopInv, Top \/ DrainDone \/ SleepEnds \/ WakerFires
  PROVE  LoopInv'
<1> USE DEF LoopInv
<1>1. CASE Top
  BY <1>1, MachineAssumption DEF Top, TypeOK, NoLostWake, JudgedByState, MachineAssumption
<1>2. CASE DrainDone
  BY <1>2 DEF DrainDone, TypeOK, NoLostWake, JudgedByState
<1>3. CASE /\ EndWait
            /\ \/ UNCHANGED <<waker, stray>>
               \/ waker > 0 /\ waker' = waker - 1 /\ stray' = (stray /\ waker > 1)
  <2>1. client' \in [Client -> Answer \cup {"idle", "waiting", "gone", "dropped"}]
    BY <1>3 DEF EndWait, TypeOK
  <2>2. waker' \in 0..WakerCapacity
    BY <1>3, MachineAssumption DEF TypeOK, MachineAssumption
  <2>3. req' = NoRequest /\ req' \in Request
    BY <1>3 DEF EndWait, Request
  <2>4. phase' = "top" /\ UNCHANGED <<state, waitFor, comm, forced, server, offerer>>
    BY <1>3 DEF EndWait
  <2>5. TypeOK'
    <3>1. stray' \in BOOLEAN
      BY <1>3 DEF TypeOK
    <3> QED BY ONLY TypeOK, <2>1, <2>2, <2>3, <2>4, <3>1 DEF TypeOK
  <2> QED BY ONLY <2>3, <2>4, <2>5 DEF LoopInv, NoLostWake, JudgedByState
<1> QED BY <1>1, <1>2, <1>3 DEF SleepEnds, WakerFires

\* A state is handled: there is no request in hand, and a wait is only ever
\* in Park or in Probe.
LEMMA HandlerStep == ASSUME LoopInv, Handling PROVE LoopInv'
<1> USE DEF LoopInv
<1>1. /\ req = NoRequest
      /\ UNCHANGED <<req, comm, waker, stray, client>>
  BY DEF Handling, Handle, Park, EntryPoint, Poll, Probe, Validation, Download,
         DirectDownload, PrepareLocalInstall, Install, Reboot, Error
<1>2. /\ forced' \in BOOLEAN
      /\ server' \in CustomServer \cup {Default}
  BY DEF Handling, Park, EntryPoint, Poll, Probe, Validation, Download,
         DirectDownload, PrepareLocalInstall, Install, Reboot, Error, TypeOK
<1>3. /\ state' \in State
      /\ waitFor' \in {"timer", "nothing"}
      /\ offerer' \in CustomServer \cup {Default, None}
      /\ phase' = "top" \/ (phase' = "wait" /\ state' \in {"park", "probe"})
  <2>1. \/ \E next \in State : Goto(next)
        \/ \E next \in {"park", "probe"}, for \in {"timer", "nothing"} : WaitIn(next, for)
        \/ /\ state' \in {"validation", "install", "download"}
           /\ phase' = "top"
           /\ offerer' \in {server, offerer}
           /\ UNCHANGED waitFor
    <3> USE DEF State, Preemptive, Downloading, Installing
    <3>1. CASE Park \/ EntryPoint \/ Poll
      BY <3>1 DEF Park, EntryPoint, Poll
    <3>2. CASE Probe \/ Validation
      BY <3>2 DEF Probe, Validation
    <3>3. CASE Download \/ DirectDownload \/ PrepareLocalInstall
      BY <3>3 DEF Download, DirectDownload, PrepareLocalInstall
    <3>4. CASE Install \/ Reboot \/ Error
      BY <3>4 DEF Install, Reboot, Error
    <3> QED BY <3>1, <3>2, <3>3, <3>4 DEF Handling
  <2>2. ASSUME NEW next \in State, Goto(next)
        PROVE  state' \in State /\ phase' = "top" /\ offerer' = None /\ UNCHANGED waitFor
    BY <2>2 DEF Goto
  <2>3. ASSUME NEW next \in {"park", "probe"}, NEW for \in {"timer", "nothing"},
               WaitIn(next, for)
        PROVE  /\ state' \in {"park", "probe"} /\ phase' = "wait"
               /\ waitFor' \in {"timer", "nothing"} /\ UNCHANGED offerer
    BY <2>3 DEF WaitIn
  <2>4. {"park", "probe", "validation", "install", "download"} \subseteq State
    BY DEF State, Preemptive, Downloading, Installing
  <2>5. CASE \E next \in State : Goto(next)
    BY <2>2, <2>5 DEF TypeOK
  <2>6. CASE \E next \in {"park", "probe"}, for \in {"timer", "nothing"} : WaitIn(next, for)
    <3>1. /\ state' \in {"park", "probe"} /\ phase' = "wait"
          /\ waitFor' \in {"timer", "nothing"} /\ UNCHANGED offerer
      BY ONLY <2>3, <2>6
    <3> QED BY <2>4, <3>1 DEF TypeOK
  <2>7. CASE /\ state' \in {"validation", "install", "download"}
             /\ phase' = "top"
             /\ offerer' \in {server, offerer}
             /\ UNCHANGED waitFor
    BY <2>4, <2>7 DEF TypeOK
  <2> QED BY <2>1, <2>5, <2>6, <2>7
<1> QED BY <1>1, <1>2, <1>3 DEF TypeOK, NoLostWake, JudgedByState

\* Whatever the loop, a client or the server does next, LoopInv stays.
LEMMA LoopInvStep == LoopInv /\ [Next]_vars => LoopInv'
<1> SUFFICES ASSUME LoopInv, [Next]_vars PROVE LoopInv'
  OBVIOUS
<1>1. CASE \E c \in Client : SendRequest(c) \/ Disconnect(c)
  BY <1>1, ClientStep
<1>2. CASE Requests
  BY <1>2, TakeStep, RequestStep DEF Requests
<1>3. CASE Top \/ DrainDone \/ SleepEnds \/ WakerFires
  BY <1>3, LoopStep
<1>4. CASE Handling
  BY <1>4, HandlerStep
<1>5. CASE UNCHANGED vars
  BY <1>5 DEF vars, LoopInv, TypeOK, NoLostWake, JudgedByState
<1> QED BY <1>1, <1>2, <1>3, <1>4, <1>5 DEF Next

\* The loop's invariant: types, a wake message for every state accepted during
\* a wait, and no request in hand but over a preemptive state.
THEOREM LoopCorrect == Spec => []LoopInv
BY InitLoop, LoopInvStep, PTL DEF Spec

\* The machine never sleeps over work it accepted: StateMachine::start waits in
\* a state other than Park and Probe only with a wake message to end the wait.
THEOREM NeverSleepsOverWork == Spec => []NoLostWake
<1>1. LoopInv => NoLostWake
  BY DEF LoopInv
<1> QED BY <1>1, LoopCorrect, PTL

\* No request, accepted in whatever order, moves the machine away from an
\* install: only the install's own handler does.
THEOREM InstallIsKept == Spec => InstallKept
<1>1. LoopInv /\ [Next]_vars
        => [phase # "handle" /\ state \in Installing => state' = state]_vars
  <2> SUFFICES ASSUME LoopInv, [Next]_vars, phase # "handle", state \in Installing
               PROVE  state' = state
    OBVIOUS
  <2>1. state \notin Preemptive \cup Downloading
    BY DEF Installing, Preemptive, Downloading
  <2>2. req = NoRequest
    BY <2>1 DEF LoopInv, JudgedByState
  <2>3. ~ Wake
    BY <2>2 DEF Wake, NoRequest
  <2>4. ~ Handling
    BY DEF Handling, Handle, Park, EntryPoint, Poll, Probe, Validation, Download,
           DirectDownload, PrepareLocalInstall, Install, Reboot, Error
  <2>5. CASE \E c \in Client : SendRequest(c) \/ Disconnect(c)
    BY <2>5 DEF SendRequest, Disconnect
  <2>6. CASE Requests
    BY <2>1, <2>3, <2>6 DEF Requests, TakeInfo, TakeProbeBusy, TakeProbe, TakeAbort,
       TakeInstall, ProbeResult
  <2>7. CASE Top \/ DrainDone \/ SleepEnds \/ WakerFires
    BY <2>7 DEF Top, DrainDone, SleepEnds, WakerFires, EndWait
  <2> QED BY <2>4, <2>5, <2>6, <2>7 DEF Next, vars
<1> QED BY <1>1, LoopCorrect, PTL DEF Spec, InstallKept

\* A wake message stands for a state that is handled before the next wait, or
\* for a request that came to nothing, until it is taken.
LEMMA WakerStep ==
  ASSUME WakerCapacity = 1, LoopInv, WakerMeansWork, [Next]_vars
  PROVE  WakerMeansWork'
<1> USE DEF LoopInv
<1>1. CASE \E c \in Client : SendRequest(c) \/ Disconnect(c)
  BY <1>1 DEF SendRequest, Disconnect, WakerMeansWork
<1>2. CASE TakeInfo \/ TakeProbeBusy \/ TakeProbe \/ TakeAbort \/ TakeInstall \/ ProbeResult
  <2>1. /\ UNCHANGED <<waker, stray>>
        /\ phase # "top"
        /\ state' = state \/ state' = "entryPoint"
    <3>1. CASE TakeAbort
      BY <3>1 DEF TakeAbort, Take, Receptive, RespondWith
    <3>2. CASE ProbeResult
      BY <3>2 DEF ProbeResult, LoopInv, NoRequest
    <3> QED BY <1>2, <3>1, <3>2 DEF TakeInfo, TakeProbeBusy, TakeProbe, TakeInstall, Take, Receptive
  <2> QED BY <2>1 DEF WakerMeansWork, Requested
<1>3. CASE Wake
  <2>1. req.next \in Requested
    BY <1>3 DEF Wake, TypeOK, Request, NoRequest, Requested
  <2>2. CASE /\ RespondWith(req.client, req.answer, req.next,
                            IF req.next = "validation" THEN server ELSE None)
             /\ stray' = (stray \/ client[req.client] = "gone")
    <3>1. CASE client[req.client] = "gone"
      BY <2>2, <3>1 DEF WakerMeansWork
    <3>2. CASE client[req.client] # "gone"
      BY <2>1, <2>2, <3>2 DEF RespondWith, WakerMeansWork
    <3> QED BY <3>1, <3>2
  <2>3. CASE stray' = TRUE
    BY <2>3 DEF WakerMeansWork
  <2> QED BY <1>3, <2>2, <2>3 DEF Wake
<1>4. CASE Top
  BY <1>4 DEF Top, TypeOK, WakerMeansWork
<1>5. CASE DrainDone
  BY <1>5 DEF DrainDone, WakerMeansWork
<1>6. CASE SleepEnds \/ WakerFires
  BY <1>6 DEF SleepEnds, WakerFires, EndWait, WakerMeansWork
<1>7. CASE Handling
  <2>1. UNCHANGED <<waker, stray>> /\ phase = "handle"
    BY <1>7 DEF Handling, Handle, Park, EntryPoint, Poll, Probe, Validation, Download,
       DirectDownload, PrepareLocalInstall, Install, Reboot, Error
  <2>2. phase' = "top" \/ state \in {"park", "poll", "probe"}
    BY <1>7 DEF Handling, Handle, Park, EntryPoint, Poll, Probe, Validation, Download,
       DirectDownload, PrepareLocalInstall, Install, Reboot, Error, Goto
  <2> QED BY <2>1, <2>2 DEF WakerMeansWork, Requested
<1>8. CASE UNCHANGED vars
  BY <1>8 DEF vars, WakerMeansWork
<1> QED BY <1>1, <1>2, <1>3, <1>4, <1>5, <1>6, <1>7, <1>8 DEF Next, Requests

\* The delay before the next probe is waited in full: with the code's waker
\* channel of one message, StateMachine::start is woken from a wait only for work
\* accepted during it, or by the one message of a request whose client is gone
\* or whose save has failed.
THEOREM WaitsInFull == WakerCapacity = 1 /\ Spec => []FullWait
<1>1. Init => WakerMeansWork
  BY DEF Init, WakerMeansWork
<1>2. WakerCapacity = 1 /\ LoopInv /\ WakerMeansWork /\ [Next]_vars => WakerMeansWork'
  BY WakerStep
<1>3. WakerMeansWork => FullWait
  BY DEF WakerMeansWork, FullWait
<1>4. ASSUME WakerCapacity = 1 PROVE Spec => []FullWait
  <2>1. LoopInv /\ WakerMeansWork /\ [Next]_vars => WakerMeansWork'
    BY <1>2, <1>4
  <2> QED BY <1>1, <1>3, <2>1, InitLoop, LoopInvStep, PTL DEF Spec
<1> QED BY <1>4
=============================================================================
