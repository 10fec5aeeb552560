------------------------------ MODULE Transitions ------------------------------
(***************************************************************************)
(* The life of an agent between its updates: startup with a settings file, *)
(* the schedule of probes under a clock that may be set, the consent that  *)
(* listeners give to a change of state, the reports to the server, and the *)
(* scope of the log an error report carries.                               *)
(*                                                                         *)
(* The clock is only ever compared with last_polling, so the model keeps   *)
(* how long ago that was by the clock (`since').  A sleep runs on the      *)
(* monotonic clock (`left').  Handlers take no time.  What an agent finds   *)
(* in its runtime settings' file, after whatever saves, is a constant:     *)
(* UpdateCycle.tla has the file.                                           *)
(***************************************************************************)
EXTENDS Polling, Listener

CONSTANTS
  Files,       \* the settings files the agent may find
  Stored,      \* the polling part of the runtime settings a file may hold
  Never,       \* the age of the epoch, the default of last_polling
  Pauses,      \* how far into a wait something else may happen
  Ages,        \* what `since' may become when the clock is set
  ExtraPolls,  \* the seconds a server may ask to be probed after
  Faults       \* what may go wrong besides an unreachable server

None == "none"

AllFaults == {"restart", "saveFails", "clockSet", "noConsent"}

\* The server in force: the one of the settings, or one a request named, whose
\* address may not parse.
Address == {"default", "custom", "notUrl"}

Record == [since : Int, retries : Nat, now : BOOLEAN, server : Address]

ASSUME TransitionsAssumption ==
  /\ Files \subseteq File
  /\ Stored \subseteq Record
  /\ Pauses \subseteq Nat \ {0}
  /\ Ages \subseteq Int
  /\ ExtraPolls \subseteq Int
  /\ Never \in Int
  /\ \A f \in Files : \A s \in Load(f) : s.interval < Never
  /\ Faults \subseteq AllFaults

VARIABLES
  file,       \* /etc/updatehub.conf
  settings,   \* what was loaded from it
  pc,         \* the state, or the running of its handler
  waiting,    \* StepTransition: "no" (Immediate), "timed" or "ever"
  left,       \* what is left of a timed wait
  woken,      \* a message on the waker channel
  mem,        \* the polling part of the runtime settings: the file's, while down
  logging,    \* whether the memory log records
  \* What follows is history, read by no action.
  objected,   \* a callback cancelled the last change of state
  told,       \* the last report of this attempt to reach the server
  swapped,    \* the package of this attempt is installed
  waited,     \* the time waited since the server was asked or the clock set
  spins       \* probes entered since time last passed or someone asked for one

loop == <<pc, waiting, left, woken>>
world == <<file, settings, objected>>
attempt == <<told, swapped>>
quiet == <<waited, spins>>
vars == <<loop, mem, world, logging, attempt, quiet>>

\* Handlers running, by the state they handle.
Running == [probe |-> "probing", prepareLocalInstall |-> "preparing",
            download |-> "downloading", install |-> "installing",
            reboot |-> "rebooting"]

\* Validation with and without require_download.
Validating == {"validation", "validationInPlace"}

Preemptive == {"park", "entryPoint", "poll", "probe"} \cup Validating
Updating == {"download", "downloading", "directDownload", "prepareLocalInstall",
             "preparing", "install", "installing", "reboot", "rebooting"}
State == Preemptive \cup Updating \cup {"down", "probing", "error"}

Reports == {None, "downloading", "downloaded", "installing", "installed",
            "rebooting", "error"}

TypeOK ==
  /\ file \in Files
  /\ settings \in Settings /\ Valid(settings)
  /\ pc \in State
  /\ waiting \in {"no", "timed", "ever"}
  /\ left \in Nat
  /\ woken \in BOOLEAN
  /\ mem \in Record
  /\ logging \in BOOLEAN /\ objected \in BOOLEAN
  /\ told \in Reports /\ swapped \in BOOLEAN
  /\ waited \in Nat
  /\ spins \in 0..3

Init ==
  /\ file \in Files
  /\ settings = Default
  /\ pc = "down"
  /\ waiting = "no" /\ left = 0 /\ woken = FALSE
  /\ mem \in Stored
  /\ logging = FALSE /\ objected = FALSE
  /\ told = None /\ swapped = FALSE
  /\ waited = 0 /\ spins = 0

(***************************************************************************)
(* The loop: the next state is handled at once, or after a wait.  A wake   *)
(* message is dropped at the top of the loop and ends a wait.              *)
(***************************************************************************)
Goto(s) == pc' = s /\ waiting' = "no" /\ left' = 0 /\ woken' = FALSE

\* An age above the interval is as good as any other.
Aged(since) == IF since > settings.interval THEN Never ELSE since

Delayed(s, d) ==
  /\ pc' = s
  /\ waiting' = "timed"
  /\ left' = IF woken THEN 0 ELSE Positive(d)
  /\ woken' = FALSE

WaitEnds ==
  /\ waiting = "timed"
  /\ left = 0
  /\ waiting' = "no"
  /\ UNCHANGED <<pc, left, woken, mem, world, logging, attempt, quiet>>

\* Time passes for the sleep and for the clock.
Tick ==
  /\ waiting = "timed"
  /\ left > 0
  /\ \E d \in {left} \cup {p \in Pauses : p < left} :
       /\ left' = left - d
       /\ mem' = [mem EXCEPT !.since = Aged(@ + d)]
       /\ waited' = waited + d
  /\ spins' = 0
  /\ UNCHANGED <<pc, waiting, woken, world, logging, attempt>>

\* Only Poll looks at the clock, so it is enough to set it before that.
ClockSet ==
  /\ "clockSet" \in Faults
  /\ pc = "poll" \/ waiting = "timed"
  /\ \E a \in Ages : mem' = [mem EXCEPT !.since = a]
  /\ waited' = 0 /\ spins' = 0
  /\ UNCHANGED <<loop, world, logging, attempt>>

(***************************************************************************)
(* Runtime settings: setters change the memory, then save all of it.       *)
(***************************************************************************)
\* RuntimeSettings::save does nothing on read-only storage, and does not fail.
SaveFails == "saveFails" \in Faults /\ ~settings.readOnly

\* What follows a save, and the error of one.
SaveThen(next, failed) == Goto(next) \/ (SaveFails /\ Goto(failed))

(***************************************************************************)
(* Startup, and the end of the agent.                                      *)
(***************************************************************************)
\* run: a file that is not accepted, or a socket that does not parse, ends the
\* agent, the latter after the startup callbacks.  Those force a probe when
\* they settle an update.
Start ==
  /\ pc = "down"
  /\ \E s \in Load(file), settled \in BOOLEAN :
       /\ settings' = s
       /\ mem' = [mem EXCEPT !.now = @ \/ settled]
       /\ pc' = IF Listens(s) THEN "entryPoint" ELSE "down"
  /\ logging' = TRUE
  /\ waiting' = "no" /\ left' = 0 /\ woken' = FALSE
  /\ told' = None /\ swapped' = FALSE
  /\ waited' = 0 /\ spins' = 0
  /\ UNCHANGED <<file, objected>>

\* The process is killed or the device goes down, and with it what was not saved.
Restart ==
  /\ "restart" \in Faults
  /\ pc # "down"
  /\ pc' = "down" /\ waiting' = "no" /\ left' = 0 /\ woken' = FALSE
  /\ mem' \in Stored
  /\ logging' = FALSE /\ objected' = FALSE
  /\ told' = None /\ swapped' = FALSE
  /\ waited' = 0 /\ spins' = 0
  /\ UNCHANGED <<file, settings>>

(***************************************************************************)
(* Consent: state_change_callback, asked before a state is handled.        *)
(***************************************************************************)
\* A listener answers; or none is there, as at first and after one ended, and the
\* script has an outcome of its own.
Outcome(s, transition) ==
  \/ /\ s \in Listened
     /\ \E cs \in Callbacks : /\ transition = Transition(cs)
                              /\ objected' = (Cancels(cs) # {})
  \/ /\ \/ transition = "continue"
        \/ transition = "error" /\ "noConsent" \in Faults
     /\ objected' = FALSE

Ask(s) == pc = s /\ waiting = "no" /\ UNCHANGED <<file, settings>>

Continue(s) == Outcome(s, "continue") /\ pc' = Running[s]

\* handle_with_callback: whatever goes wrong leads to EntryPoint.
AskOfLocalInstall ==
  /\ Ask("prepareLocalInstall")
  /\ \/ Continue("prepareLocalInstall") /\ UNCHANGED <<waiting, left, woken>>
     \/ \E t \in {"cancel", "error"} : Outcome("prepareLocalInstall", t)
                                       /\ Goto("entryPoint")
  /\ UNCHANGED <<mem, logging, attempt, quiet>>

\* A slip: an agent that met an error goes to rest.
AskOfErrorParks ==
  /\ Ask("error")
  /\ \E t \in {"continue", "cancel", "error"} : Outcome("error", t)
  /\ Goto("park")
  /\ UNCHANGED <<mem, logging, attempt, quiet>>

AskOfError ==
  /\ Ask("error")
  /\ \E t \in {"continue", "cancel", "error"} : Outcome("error", t)
  /\ Goto("entryPoint")
  /\ UNCHANGED <<mem, logging, attempt, quiet>>

\* A slip: a probe that is cancelled leaves the last polling as it was.
AskOfProbeForgets ==
  /\ Ask("probe")
  /\ spins' = IF spins = 3 THEN 3 ELSE spins + 1
  /\ \/ Continue("probe") /\ UNCHANGED <<waiting, left, woken, mem, waited>>
     \/ /\ \E t \in {"cancel", "error"} : Outcome("probe", t)
        /\ waited' = 0
        /\ Goto("entryPoint")
        /\ UNCHANGED mem
  /\ UNCHANGED <<logging, attempt>>

\* Probe: a probe that is cancelled counts as one, whether the save succeeds
\* or not.
AskOfProbe ==
  /\ Ask("probe")
  /\ spins' = IF spins = 3 THEN 3 ELSE spins + 1
  /\ \/ Continue("probe") /\ UNCHANGED <<waiting, left, woken, mem, waited>>
     \/ /\ \E t \in {"cancel", "error"} : Outcome("probe", t)
        /\ mem' = [mem EXCEPT !.since = 0]
        /\ waited' = 0
        /\ SaveThen("entryPoint", "entryPoint")
  /\ UNCHANGED <<logging, attempt>>

\* A report may not arrive; that is logged and nothing else.
Report(r) == told' = r \/ told' = told

\* handle_with_callback_and_report_progress: a callback that fails is an error
\* of the state; one that cancels is not.
AskAndReport(s, entering) ==
  /\ Ask(s)
  /\ \/ /\ Continue(s)
        /\ UNCHANGED <<waiting, left, woken>>
        /\ Report(entering)
     \/ Outcome(s, "cancel") /\ Goto("entryPoint") /\ UNCHANGED told
     \/ Outcome(s, "error") /\ Goto("error") /\ UNCHANGED told
  /\ UNCHANGED <<mem, logging, swapped, quiet>>

AskOfDownload == AskAndReport("download", "downloading")
AskOfInstall  == AskAndReport("install", "installing")
AskOfReboot   == AskAndReport("reboot", "rebooting")

(***************************************************************************)
(* The handlers.                                                           *)
(***************************************************************************)
Handle(s) == /\ pc = s /\ waiting = "no"
             /\ objected' = FALSE
             /\ UNCHANGED <<file, settings>>

\* A slip: the server that was named is kept.
EntryPointKeepsServer ==
  /\ Handle("entryPoint")
  /\ \/ /\ mem.now
        /\ mem' = [mem EXCEPT !.now = FALSE]
        /\ SaveThen("probe", "error")
        /\ UNCHANGED logging
     \/ /\ ~mem.now
        /\ logging' = FALSE
        /\ Goto(IF settings.enabled THEN "poll" ELSE "park")
        /\ UNCHANGED mem
  /\ told' = None /\ swapped' = FALSE
  /\ UNCHANGED quiet

\* disable_force_poll may fail; reset_transient_settings is not saved.
EntryPoint ==
  /\ Handle("entryPoint")
  /\ \/ /\ mem.now
        /\ mem' = [mem EXCEPT !.now = FALSE]
        /\ SaveThen("probe", "error")
        /\ UNCHANGED logging
     \/ /\ ~mem.now
        /\ logging' = FALSE
        /\ mem' = [mem EXCEPT !.server = "default"]
        /\ Goto(IF settings.enabled THEN "poll" ELSE "park")
  /\ told' = None /\ swapped' = FALSE
  /\ UNCHANGED quiet

Park ==
  /\ Handle("park")
  /\ logging' = FALSE
  /\ waiting' = IF woken THEN "no" ELSE "ever"
  /\ woken' = FALSE
  /\ UNCHANGED <<pc, left, mem, attempt, quiet>>

Poll ==
  /\ Handle("poll")
  /\ IF PollAtOnce(mem.since, settings.interval)
     THEN Goto("probe")
     ELSE Delayed("probe", PollDelay(mem.since, settings.interval))
  /\ UNCHANGED <<mem, logging, attempt, quiet>>

\* The server's address does not parse.
ProbeUrlError ==
  /\ Handle("probing")
  /\ mem.server = "notUrl"
  /\ Goto("error")
  /\ UNCHANGED <<mem, logging, attempt, quiet>>

\* Any other error.  Once the delay has reached its cap, more failures make no
\* difference.
ProbeFails ==
  /\ Handle("probing")
  /\ mem.server # "notUrl"
  /\ mem' = [mem EXCEPT !.retries =
               IF @ > 0 /\ RetryDelay(@, settings.interval) = Cap(settings.interval)
               THEN @ ELSE @ + 1]
  /\ Delayed("probe", RetryDelay(mem'.retries, settings.interval))
  /\ waited' = 0
  /\ UNCHANGED <<logging, attempt, spins>>

\* The server asks to be probed again after some seconds.
ProbeExtraPoll ==
  /\ Handle("probing")
  /\ mem.server # "notUrl"
  /\ mem' = [mem EXCEPT !.retries = 0]
  /\ \E e \in ExtraPolls : Delayed("probe", e)
  /\ waited' = 0 /\ spins' = 0
  /\ UNCHANGED <<logging, attempt>>

Answered == [mem EXCEPT !.retries = 0, !.since = 0]

ProbeNoUpdate ==
  /\ Handle("probing")
  /\ mem.server # "notUrl"
  /\ mem' = Answered
  /\ SaveThen("entryPoint", "error")
  /\ waited' = 0
  /\ UNCHANGED <<logging, attempt, spins>>

\* A slip: the log of the operation is not started.
ProbeUpdateUnlogged ==
  /\ Handle("probing")
  /\ mem.server # "notUrl"
  /\ mem' = Answered
  /\ SaveThen("validation", "error")
  /\ waited' = 0
  /\ told' = None /\ swapped' = FALSE
  /\ UNCHANGED <<logging, spins>>

ProbeUpdate ==
  /\ Handle("probing")
  /\ mem.server # "notUrl"
  /\ mem' = Answered
  /\ \/ Goto("validation") /\ logging' = TRUE
     \/ SaveFails /\ Goto("error") /\ UNCHANGED logging
  /\ waited' = 0
  /\ told' = None /\ swapped' = FALSE
  /\ UNCHANGED spins

\* Accepted, for download or, once downloaded, for install; already applied; or
\* refused.
Validation ==
  /\ \/ Handle("validation") /\ Goto("download")
     \/ Handle("validationInPlace") /\ Goto("install")
     \/ \E s \in Validating : Handle(s) /\ (Goto("entryPoint") \/ Goto("error"))
  /\ UNCHANGED <<mem, logging, attempt, quiet>>

\* A handler that reports: it leaves for the next state with a report of its
\* own, or for Error with that of the error.
LeaveWith(leaving, next) ==
  \/ Goto(next) /\ Report(leaving)
  \/ Goto("error") /\ Report("error")

\* A request to abort ends the download as if it had succeeded.
Downloading ==
  /\ Handle("downloading")
  /\ \E next \in {"validationInPlace", "entryPoint"} : LeaveWith("downloaded", next)
  /\ UNCHANGED <<mem, logging, swapped, quiet>>

\* A slip: what an install ends with is reported whatever came of it.
InstallingReportsFirst ==
  /\ Handle("installing")
  /\ \/ Goto("reboot") /\ swapped' = TRUE
     \/ Goto("error") /\ UNCHANGED swapped
  /\ Report("installed")
  /\ UNCHANGED <<mem, logging, quiet>>

Installing ==
  /\ Handle("installing")
  /\ LeaveWith("installed", "reboot")
  /\ swapped' = (swapped \/ pc' = "reboot")
  /\ UNCHANGED <<mem, logging, quiet>>

\* The command returns, and the device goes down or does not.
Rebooting ==
  /\ Handle("rebooting")
  /\ LeaveWith("rebooting", "entryPoint")
  /\ UNCHANGED <<mem, logging, swapped, quiet>>

DirectDownload ==
  /\ Handle("directDownload")
  /\ \E s \in {"prepareLocalInstall", "entryPoint", "error"} : Goto(s)
  /\ UNCHANGED <<mem, logging, attempt, quiet>>

Preparing ==
  /\ Handle("preparing")
  /\ \E s \in {"validationInPlace", "error"} : Goto(s)
  /\ UNCHANGED <<mem, logging, attempt, quiet>>

(***************************************************************************)
(* Requests, in a preemptive state: taken before it is handled, or while   *)
(* it waits.  (A second one that wakes before the loop is back at its top  *)
(* blocks it: that is Machine's concern.)                                  *)
(***************************************************************************)
\* A message on the waker channel: it ends the wait, or the one to come.
Wake(s) == /\ ~woken
           /\ pc' = s
           /\ waiting' = "no" /\ left' = 0
           /\ woken' = (waiting = "no")

\* The request names a server or none.  When the save of an answer fails the
\* client gets the error and the loop goes on from the state it had.
ApiProbe ==
  /\ pc \in Preemptive
  /\ logging' = TRUE
  /\ \E server \in {mem.server, "custom", "notUrl"} :
        \/ /\ mem' = [mem EXCEPT !.server = server]
           /\ UNCHANGED <<loop, attempt, waited>>
        \/ /\ server # "notUrl"
           /\ mem' = [mem EXCEPT !.server = server, !.since = 0]
           /\ waited' = 0
           /\ \/ Wake("entryPoint") /\ UNCHANGED attempt
              \/ Wake("validation") /\ told' = None /\ swapped' = FALSE
              \/ SaveFails /\ Wake(pc) /\ UNCHANGED attempt
  /\ spins' = 0
  /\ UNCHANGED world

ApiInstall ==
  /\ pc \in Preemptive
  /\ \E s \in {"prepareLocalInstall", "directDownload"} : Wake(s)
  /\ logging' = TRUE
  /\ told' = None /\ swapped' = FALSE
  /\ spins' = 0
  /\ UNCHANGED <<mem, world, waited>>

Asks == \/ AskOfProbe \/ AskOfLocalInstall \/ AskOfError
        \/ AskOfDownload \/ AskOfInstall \/ AskOfReboot

Handlers == \/ EntryPoint \/ Park \/ Poll
            \/ ProbeUrlError \/ ProbeFails \/ ProbeExtraPoll
            \/ ProbeNoUpdate \/ ProbeUpdate
            \/ Validation \/ Downloading \/ Installing \/ Rebooting
            \/ DirectDownload \/ Preparing

Requests == ApiInstall \/ ApiProbe

Environment == ClockSet \/ Start \/ Restart

Next == Tick \/ WaitEnds \/ Asks \/ Handlers \/ Requests \/ Environment

Spec == Init /\ [][Next]_vars

\* The loop is a task of its own and goes on; a sleep ends.
FairSpec == Spec /\ WF_vars(Tick \/ WaitEnds \/ Asks \/ Handlers)

(***************************************************************************)
(* Properties.                                                             *)
(***************************************************************************)
\* The server is not asked over and over: without a request, and without a wait
\* in between, at most two probes are entered, the second for an address that
\* did not parse or a wait that was woken before it began.
NoSpin == spins <= 2

\* Whatever the callbacks do and whatever fails, the states come in the order
\* StateMachine.tla allows (State::move_to_next_state).
Stage == CASE pc \in Validating -> "validation"
           [] \E s \in DOMAIN Running : pc = Running[s] ->
                CHOOSE s \in DOMAIN Running : pc = Running[s]
           [] OTHER -> pc

Order == INSTANCE StateMachine WITH state <- Stage
InOrder == Order!Spec

\* No longer than an interval, or than some server asks.
Within(time, interval) == time <= interval \/ \E e \in ExtraPolls : time <= e

\* However often the clock is set and requests end its waits, the loop does not
\* wait for longer than two intervals without asking the server (or longer than
\* one and what the server asked for): a last polling in the future is not
\* waited for and the delay of a retry is capped.
ProbesInTime ==
  waiting = "timed" => Within(waited + left - settings.interval, settings.interval)

\* A state whose callback wrote "cancel" is not handled.
CancelHeeded == pc \in {Running[s] : s \in DOMAIN Running} => ~objected

\* From the moment an update is known until it ends, the memory log records,
\* whatever part of the loop stopped it before.
UpdatesAreLogged == pc \in Updating \cup Validating => logging

\* The server is told of an installation, or a reboot into it, only after the
\* sets were swapped.
InstalledIsTrue == told \in {"installed", "rebooting"} => swapped

\* A server that a request named is asked until it answers and not for ever
\* after: an agent that polls, and that nobody interrupts any more, comes back to
\* the server of its settings, unless it goes on probing the other in vain.
CustomServerPasses ==
  (/\ <>[](pc # "down" /\ settings.enabled)
   /\ <>[][~Requests]_vars
   /\ []<>(pc \notin {"probe", "probing"}))
    => <>[](mem.server = "default")

\* An agent that polls and is not stopped goes on probing, once nobody interrupts
\* it, whatever fails on the way.
KeepsProbing ==
  (<>[](pc # "down" /\ settings.enabled) /\ <>[][~Requests]_vars)
    => []<>(pc = "probe" /\ waiting = "no")
================================================================================
