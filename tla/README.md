# UpdateHub agent: a verification project

UpdateHub is an agent for embedded Linux devices.  It asks a server whether
there is an update, downloads it, writes it to the installation set (A or B)
that is not running, selects that set for the next boot and reboots; the agent
of the next boot confirms the new system or goes back.  This directory holds
TLA+ models of the agent's own logic, the TLC configurations that check them
on small instances, and TLAPS proofs of their main properties for every value
of the constants.

Paths below are relative to `src/updatehub/src/` unless they start with `src/`.

## 1. The system

| component | code | state | operations |
|---|---|---|---|
| update states | `states/*.rs` | the state and the package it carries | `handle` of each state, transition callbacks, reports |
| runtime settings | `runtime_settings.rs` | the record of the upgrade, the applied package, the forced probe, the custom server, the polling times; a copy in memory and one in a file | load, save, one setter each |
| installation sets and startup | `firmware/installation_set.rs`, `firmware/mod.rs`, `states/mod.rs` | the set the firmware boots next (kept outside the agent) | active, inactive, swap, validate; validate and rollback callbacks at startup |
| run loop and requests | `states/machine/mod.rs`, `states/machine/address.rs` | the state, a channel of requests, a channel that wakes the loop | drain, handle, wait; info, probe, abort, local and remote install |
| HTTP API and client library | `http_api.rs`, `src/updatehub-sdk/src/client.rs` | none | routes to requests, answers to replies, replies to results |
| client command line | `main.rs` | the index up to which a watcher has printed | one request each; `log --watch` |
| memory log | `mem_drain.rs`, `logger.rs` | a bounded buffer of records | log, start, stop, record out of scope, serialize |
| probe scheduling | `states/poll.rs`, `states/probe.rs` | last polling, retries, extra interval | due or delayed; retry delay |
| settings | `settings.rs` | what was read at startup | load and parse, in two formats |
| agent SDK listener | `src/updatehub-sdk/src/listener.rs`, `states/mod.rs` | registered callbacks | run those of a state; what they write lets the state be handled or not |
| object download and store | `src/updatehub-cloud-sdk/src/client.rs`, `object/info.rs`, `update_package/mod.rs`, `states/download.rs`, `states/prepare_local_install.rs` | files in the download directory | status, prune, request, append, extract |
| installers | `object/installer/*.rs` | what the devices hold, what is mounted | per install mode: requirements, install-if-different, format, mount, write |
| file system and MTD utilities | `utils/*.rs` | none | which devices share storage, names of flash partitions, mounts, attributes |
| package schema, cloud reports | `src/updatehub-package-schema`, `src/updatehub-cloud-sdk` | none | the fields of an object; the reports of an attempt |

How they interact:

* The run loop (`StateMachine::start`) owns the state.  It drains the request
  channel, handles the state, and waits if the handler says so.  A request is
  a message with a responder of its own; it is handled by the loop, inside the
  drain, beside the wait, or beside a download.  A request that changes the
  state during a wait sends a message on a second channel, the waker, which
  ends the wait.
* A command of the client program becomes an HTTP request, a request on the
  channel, an answer, a reply and a result: agent and client library have tables
  of their own for the bodies.
* Before a state is handled, a script hands its name to a listener, whose
  callbacks may cancel it; states that report tell the server where they are.
* The states change the runtime settings, the sets and the boot selection,
  which are three stores, updated one after the other.
* Startup (`handle_startup_callbacks`) compares the settings file with the boot
  selection, and confirms or rolls back, before the loop starts.
* Download and PrepareLocalInstall fill the download directory; Validation
  looks whether it has what Install needs; nothing but the directory carries
  over from one attempt to the next.
* Install takes the objects of the directory, the longest first, each through the
  handler of its mode to a device; the devices, too, carry over what an attempt
  that was cut short left on them.
* The states log into the memory log, which is cleared when an operation
  starts and stopped when the agent rests; a client polls it over HTTP, and an
  error report carries it.

What is hard:

* **crashes and partial failures** between writes to the three stores, at any
  point of an install, a confirmation or a rollback;
* **interleavings** of requests with the loop: a request's handling is itself
  suspended (for the server, or for room on the waker channel), and the wait it
  runs beside may end meanwhile and drop it;
* **deadlock and lost wakes** between the loop and the two channels;
* **stale state**: the record of an upgrade whose swap did not happen, the set
  booted next taken for the one that is running, the custom server of a probe
  that failed, a mount left by a killed agent;
* **time**: a clock that is set, retries that grow, waits that are cut short;
* **resumption**: files left by interrupted attempts, of this package or others;
* **liveness**: after failures, retries and rollbacks, the device must settle,
  the agent must get back to where it can be reached, and it must go on probing.

What makes each component correct: the set known to be good is never written,
what is booted is whole and a trial is always judged (update states, runtime
settings, startup); an accepted install runs and waits last as long as they should
(run loop); every command ends, with the answer to what was asked, and a result
says what the agent does (HTTP API); the server is asked in time and not over and
over, a cancelled state is not handled, reports are true (scheduling, listener,
reports); only whole objects are installed, finished objects are kept and
the directory stays bounded (download and store); an install that ends has put
every object in its place and has spared what is mounted (installers); the log
keeps its bound and a watcher sees each entry once and in order (memory log).

## 2. The modules

| module | models | extends |
|---|---|---|
| `StateMachine` | the abstract order of the states; `UpdateCycle`, `Transitions` and `HttpApi` implement it | |
| `Service` | what the agent promises its clients, each request in one step; `HttpApi` implements it | `StateMachine` |
| `RuntimeSettings` | the upgrade record as a value, its operations, and loading of absent, v1, v2 and torn files | |
| `UpdateCycle` | the life of an update over the three stores: states, startup, boots, faults | `RuntimeSettings` |
| `ABUpdate` | the abstract promise of an A/B device; `UpdateCycle` implements it | |
| `Machine` | the run loop, its channels, requests and clients | |
| `HttpApi` | commands, replies and results around the loop; implements `Machine` | `Machine` |
| `Settings` | the settings file in its two formats, and what makes it acceptable | |
| `Polling` | the delays of Poll and of a retry, as operators | `Settings` |
| `Listener` | the callbacks of a state, and what the agent makes of their output | |
| `Transitions` | an agent between its updates: startup, probes in time, consent, reports, scope of the log | `Polling`, `Listener` |
| `MemoryLog` | the log buffer and a client that watches it | |
| `Objects` | the download directory over any number of attempts | |
| `BlockDevices` | the devices that share storage with a target, as operators | |
| `Installation` | the handlers of a package's objects, over any number of attempts | `BlockDevices` |
| `MC...` | the values of the constants TLC uses | the module of that name |
| `...Proofs` | theorems and their proofs | the module of that name |

`UpdateCycle`, `Machine`, `Transitions`, `Objects` and `Installation` are views of
the same states, split by what they change: the stores, the loop, the schedule and
the reports, the directory, the devices.  Each takes the decisions that belong to
the others as choices, so that what holds in it holds whatever they decide.

### UpdateCycle

`pc` is the state being handled, or how far a handler has come: Install is split
into `WriteObjects`, `ObjectsWritten`, `MarkApplied`, `MarkUpgrading` and
`SwapActive`, the startup into `StartupJudge`, `Confirm`, `Reset`,
`RollbackSwap`, `RollbackCallback`, `RestoreV1` and `RollbackReboot`, because
power may fail between any two of them.  `mem` and `disk` are the runtime
settings in memory and in the file (`Load` gives what the agent reads from it);
`active` is the set booted next, `running` the one booted, `content` what each
holds.  `good`, the set of the last verdict, is a history variable of the agent (the
firmware may fall back on it), and so is `early`: the agent last started without a
boot, and over a set the device had yet to boot.  A package is
a model value; an install that stopped half-way leaves `"partial"`.

`Faults` names what may go wrong: a loss of power anywhere, a restart of the
agent alone, a save, an installer, a swap, a reboot, a startup hook or a rollback
callback that fails, a device that takes its time to go down, a torn write.  A
hook that fails is taken to have had no effect.  Bounds: two packages (one to be
on record and one to come), two sets (as in the code); nothing is counted, so
the state space is finite.

`ABUpdate` has what the device promises: a set known to be good, one that may be
under trial and a note that says so; a set is written only if it is neither good
nor selected or the note stands, a trial starts only after it is noted, and ends
by a verdict.  `Promise` is its specification with the note refined to "the
file, if loaded now, has an upgrade on record".

### Machine and HttpApi

`phase` says where the loop is (top, drain, handle, wait), `comm` and `waker` are
the two channels, `req` the request being handled once it had to wait, `client`
what each client waits for or last got.  A handler is one step: nothing else
runs beside it but, in a download, the taking of requests.  The answer of a
server to a probe is a choice.  `server`, `forced` and `offerer` are the custom
server in force, the forced probe, and where the package in hand comes from.
`stray` is a history variable: a message on the waker channel is of a request that
came to nothing, since its client was gone or its save failed after the message
was sent.

`HttpApi` adds `asked`, what the command of each client asks for.  `Command` is
`SendRequest` of a request of that kind; a step of the loop that answers a client
ends its command with `Result`: `ReplyTo` is the status and the body the API makes
of the answer, `ResultOf` what the client library makes of these.  A body is the
name of what it carries; `Readable` are the names of states the library knows.

Bounds: the request channel holds 2 messages instead of 10, so that it fills; the
waker channel holds 1, as in the code; two clients with one command each at a time
(enough for one request to be pending while another waits), which repeat for ever.

### Transitions, with Settings, Polling and Listener

`file` is the settings file, `settings` what was loaded of it, `mem` the polling
part of the runtime settings (`since`, the age of the last polling by the clock,
which may be negative; `retries`; `now`; `server`), `waiting` and `left` the wait
after a state, `woken` a message on the waker channel, `logging` whether the memory
log records.  Time passes in `Tick` alone: all of a wait, or a part of it after
which something else may happen; the clock may be set where it is looked at next.
A state with callbacks has two steps, the question (`Asks`) and the handler;
`Outcome` is what a listener with up to two callbacks, or a script without one,
makes of the question.  History: `objected`, `told`, `swapped`, `waited`, `spins`;
`waited` and `spins` count from where the clock was last set.

`Settings.Load` is the set of what may be loaded of a file: one value, or none where
the file is refused.  `RetryDelay` and `PollDelay` are operators on numbers, as in
the code; the shift is capped at 12, where it is past the longest delay.

Bounds: an interval of 60 seconds, the least the code accepts; waits that are
interrupted after 50 seconds or not; a clock set back by less and by more than an
interval; a server that asks for a delay of 90 seconds, longer than an interval, or
of -1; seven files, four of which the agent refuses at once or over the socket;
stored settings that are fresh or in the middle of retries with a custom server;
callbacks that agree, cancel, cancel twice, and fail before one that would cancel.
Retries stop counting once more of them make no difference.

### MemoryLog

Records have a length class and a repeat count; `inserted` is the counter
`first_index` is derived from.  The client keeps `printed` and compares it with
the answer.  Bounds: `Bound` 4 bytes, messages of 1, 2 and 5 bytes (one record
that fits four times, one twice, one never), `MaxInserted` 5 and `MaxCount` 2,
enough for the buffer to turn over and for each kind of eviction.

### Objects

`dir` maps an object, named by its hash, to its file: absent, or a length and
whether its bytes are a prefix of the object, which is what `Info::status` and
an append tell apart.  `offset` is how far the server's answer has come.  An
attempt may be interrupted in any state that touches the directory, and the
next one may be for another package.  `Ranges` says whether the server heeds the
`Range` header; the file is opened, and so created, before the answer is looked
at.  Bounds: objects of 2 to 4 bytes (short, but enough to be
empty, at one byte, in the middle, full and too long), three packages that share
one: two whose lists agree, one of them with an object installed remotely
(`raw-delta`), and one that lists other objects for either set.  With an upgrade on
record the set downloaded for is then not the one installed to, and only the look
of Validation at the latter keeps what did not come from being installed.

The package of a remote install is fetched by `DirectDownload` and extracted by
the same handler as a local one: `LocalInstall` stands for both.

### Installation and BlockDevices

A `Place` is a region of a device or a file on it; `fill` is what it holds, chunk
by chunk, a chunk being a content and a position in it, `mode` whether a file has
the mode the package gives.  `fs` are the devices with a filesystem, `mounted`
those the system has mounted, `stale` those a killed agent had; the mount of the
handler itself is `Guard`, since it lives as long as a block of the code.  `pc`
follows a handler through install-if-different, format, open (which truncates a
file, or erases flash), the chunks, and the attributes of a copied file; `left`
are the objects still to come.  An object is a record with the fields of the
package schema that decide how it is installed; one definition serves the seven
modes, which differ in `Mounting`, `Erasing` and `Checking`.

`Accepted` is what Validation asks of the devices: that none a handler takes for
itself is in use, and that what is installed is not larger than the device
(`Capacity`); `Room` is what there is from where an object starts, and `Full` the
end of it, met half-way.  `InUse` looks for all devices `BlockDevices.Affected` by a
write: up from a partition to its disk, down from a disk to its partitions, and to
what is stacked on any of them, and from flash to the UBI volumes on it.

An attempt may stop at any step, for a failure, the agent being killed or a loss of
power, and the next one may be of another package.  What is taken from outside: a
tool or a mkfs that stops leaves no filesystem, a mount works where there is one,
decompression gives `Inflated`, a written chunk lasts.

Bounds: four packages, of three, three, one and one object; a disk with two
partitions, a volume stacked on one, a flash with a UBI volume; contents of one
to three chunks (short, but enough to stop before, between and after the chunks
and to leave an older tail).  The first package lists a copy before the archive
that must come first; it and the third write the same file with contents of
different length; the second writes blocks over the filesystem of the first; the
object of the fourth runs over the end of the disk from where it starts.
`AffectedAreEnough` is evaluated over every way of stacking two volumes on a disk
with two partitions and on each other.

## 3. What is checked

| run | property | what it says |
|---|---|---|
| `cycle_faults` | `IndInv` | the invariant of the proofs, types included |
| | `TrialIsRemembered` | a set without a verdict is never selected unless the file says that an upgrade is pending |
| | `KnownGoodUntouched` | no step writes to the set of the last verdict |
| | `Promise` | the device implements `ABUpdate` |
| | `TrialIsSettled` | a trial gets its verdict |
| `cycle_whole` | `NextBootIsWhole` | neither the set booted next nor the good one is half-written |
| | `InstalledSetIsNext` | after the swap the set on record is the one booted next |
| | `ForcedProbeHappens` | a settled update is followed by a probe, with polling disabled |
| `cycle_reachable` | `ConfirmedHasBooted` | only the system that runs is confirmed, unless the agent alone was started again before the boot |
| | `AlwaysReachable` | the agent always gets back to a state that accepts requests |
| `loop_faults` | `NoLostWake`, `LoopInv` | the loop never sleeps over work it accepted; the invariant of the proofs |
| | `ServesAtOnce` | as its clients see it, the agent implements `Service`: a request is judged, has its effect and is answered in one step, or is lost without an effect; only its handler moves the agent on from an install |
| | `AcceptedInstallRuns` | an accepted install starts |
| | `Correlated` | an answer goes to who asked, and fits what was asked |
| | `SuccessMeansDone` | a client told of success finds the agent at what it asked |
| | `NothingDoneUnlessMisread` | a client told of a failure of any kind has changed no state, but for an accepted abort and an install accepted in EntryPoint, whose replies the library cannot read: there the agent does just what was asked |
| | `FullWait` | a message that can cut a wait short is of a request accepted during it, or of one that came to nothing; the latter cuts one wait at most |
| `loop_served` | `CommandsEnd` | every command comes to an end, with an answer |
| `transitions` | `TypeOK` | types, `Valid` settings among them, waits that are not negative, however old or new the last polling |
| | `NoSpin` | without time passing or a request, no more than two probes are entered |
| | `ProbesInTime` | from where the clock was last set, no wait goes on for longer than two intervals, or one and what a server asked for |
| | `CancelHeeded` | a state whose callback cancelled it is not handled |
| | `UpdatesAreLogged` | from the moment an update is known the log records |
| | `InstalledIsTrue` | the server is told of an installation only after the swap |
| | `KeepsProbing` | an agent that polls goes on probing, whatever fails |
| | `CustomServerPasses` | a server named by a request is not kept, unless every probe of it fails |
| `memory_log` | `TypeOK`, `BoundKept` | the count of bytes never goes below zero, and is that of the records; the buffer keeps to its bound |
| | `PrintedInOrder`, `NoneSkipped`, `IndexMonotonic` | the watcher prints what is held once, in order, without gaps |
| `objects_resumed` | `DirInv` | during a download no foreign object is in the directory, and no file ever reaches twice its size; with what the proofs need |
| | `ReadyKept` | a download neither removes nor writes to an object that is ready |
| | `WholeObjectsInstalled` | what Install reads is whole |
| | `EventuallyInstalls` | once interruptions cease, a package is installed |
| `installs` | `AllInPlace` | an install that ends has every object in its place, whatever earlier attempts left and whatever was skipped |
| | `InstallInv` | the invariant of the proofs, types included |
| | `MountsSpared` | no storage that something mounted shares is formatted, be it a partition, a volume stacked on one or a UBI volume |
| | `EventuallyInstalls` | once failures cease on a device that is ready, a package is installed |

Which faults each `cycle_` run allows is in its configuration.  They differ
because the properties do.  `cycle_faults` excludes only the two faults the proofs
exclude (section 5); its `TrialIsSettled` starts where the device goes down or comes
up, since a refused reboot or a restart of the agent alone leaves the device up with
the verdict still to come.  `cycle_whole` excludes, besides those two, lost saves and
every way of going on after the reboot was asked for, because its safety properties fail
there (section 6); `cycle_reachable` excludes none.

`loop_faults` has polling disabled, where Park waits for nothing but a wake, and
says nothing of deadlock, since section 6 has one; `loop_served` has polling
enabled and the kinds of request that cannot lead into it.  `AcceptedInstallRuns`
assumes `ChannelRunsEmpty`: clients that never let the channel run empty keep
`consume_pending_communication` from returning, for ever.

`transitions` and `installs` are the large ones, of about a million states each;
the other runs have between four and three hundred thousand.  `transitions`
does not check deadlock: an agent whose settings are refused stops.

### Fairness

* `UpdateCycle`: the device comes back after going down and goes down when asked
  to; the agent's handlers return (weak fairness of `InstallStep`, `StartupStep`,
  `EntryPoint \/ Poll`).  Each is a function called by a loop that has nothing
  else to do.  Nothing is assumed of offers, requests or faults; that the power losses
  and restarts cease is a hypothesis of the properties, as no device settles
  without.
* `Machine` and `HttpApi`: weak fairness of the loop's steps and of the handlers, for
  the same reason; the network answers or times out.  `DrainDone` is strongly fair: the
  loop looks at the channel after every request, so a channel found empty again
  and again is found empty there.  Nothing is assumed of the clients.
* `Transitions`: weak fairness of `Tick \/ WaitEnds \/ Asks \/ Handlers` together: the
  loop is a task of its own, at one place at a time, and sleeps end.  Nothing is
  assumed of the server, the listeners, the clock or the requests.
* `Objects`: an idle agent is offered an update again (it polls), handlers
  return, and an answer that is not interrupted comes to its end.
* `Installation`: an idle agent is given a package again (`Begin`) and handlers
  return (`Handle`, which includes that a handler refuses).  That failures cease,
  and that the device is then ready (`Ready`: what the package needs for itself is
  not mounted, what a copy writes through has a filesystem, what is written fits)
  are hypotheses of `EventuallyInstalls`.

## 4. Mutants

Next to the definition they change, some modules have a second form of it, marked
"A slip": the bug the code might have had there (a missing swap, a save before
the change, an index off by one).  `PROJECT.json` pairs each property with a slip
under which TLC finds it violated, so no property holds by the shape of the model.

## 5. What is proved

For every value of the constants that satisfies the assumptions named:

| theorem | statement | needs |
|---|---|---|
| `UpdateCycleProofs!TypeCorrect` | `[]TypeOK` | |
| `UpdateCycleProofs!Invariance` | `[]IndInv` | `FaultAssumption` |
| `UpdateCycleProofs!Remembered` | `[]TrialIsRemembered` | `FaultAssumption` |
| `UpdateCycleProofs!GoodSetKept` | `KnownGoodUntouched` | `FaultAssumption` |
| `UpdateCycleProofs!PromiseKept` | `Promise` (refinement of `ABUpdate`) | `FaultAssumption` |
| `UpdateCycleProofs!BootsWhole` | `[]NextBootIsWhole` | `SteadyAssumption` |
| `UpdateCycleProofs!SwapsToTarget` | `[]InstalledSetIsNext` | `SteadyAssumption` |
| `UpdateCycleProofs!ConfirmsItself` | `ConfirmedHasBooted` | |
| `MachineProofs!LoopCorrect` | `[]LoopInv` | |
| `MachineProofs!NeverSleepsOverWork` | `[]NoLostWake` | |
| `MachineProofs!InstallIsKept` | `InstallKept` | |
| `MachineProofs!WaitsInFull` | `[]FullWait` | `WakerCapacity = 1`, as in the code |
| `HttpApiProofs!ServesTheLoop` | `HttpSpec => Spec` (refinement of `Machine`) | |
| `HttpApiProofs!AnswersFit` | `[]Correlated` | |
| `HttpApiProofs!SuccessIsReal` | `SuccessMeansDone` | |
| `HttpApiProofs!FailureIsNothingOrMisread` | `NothingDoneUnlessMisread` | |
| `HttpApiProofs!ServesAtOneMoment` | `ServesAtOnce` (refinement of `Service`) | |
| `UpdateCycleProofs!StatesInOrder`, `TransitionsProofs!StatesInOrder` | `InOrder` (refinement of `StateMachine`) | |
| `HttpApiProofs!StatesInOrder` | `HttpSpec => Agent!Spec` (refinement of `StateMachine`) | |
| `TransitionsProofs!TypeCorrect` | `[]TypeOK` | |
| `TransitionsProofs!ServerIsAskedInTime` | `[]ProbesInTime` | |
| `TransitionsProofs!NeverSpins` | `[]NoSpin` | |
| `TransitionsProofs!CancelsAreHeeded` | `[]CancelHeeded` | |
| `TransitionsProofs!LoggedThroughout` | `[]UpdatesAreLogged` | |
| `TransitionsProofs!InstalledIsInstalled` | `[]InstalledIsTrue` | |
| `MemoryLogProofs!WatchCorrect` | the watcher's invariant | |
| `MemoryLogProofs!IndexGrows`, `WatchPrintsInOrder`, `WatchSkipsNone` | `IndexMonotonic`, `[]PrintedInOrder`, `[]NoneSkipped` | |
| `MemoryLogProofs!TypeCorrect`, `RoomKept` | `[]TypeOK`, `[]BoundKept` | |
| `ObjectsProofs!DirectoryBounded` | `[]DirInv`, `[]DirBounded` | `Distinct` |
| `ObjectsProofs!ReadyFilesKept` | `ReadyKept` | `Distinct` |
| `ObjectsProofs!InstallsWhole` | `[]WholeObjectsInstalled` | |
| `InstallationProofs!InstallCorrect`, `InstalledInPlace` | `[]InstallInv`, `[]AllInPlace` | `Apart` |
| `InstallationProofs!AllReached` | `ReachesAll` | `Stacked` |
| `InstallationProofs!MountsAreSpared` | `MountsSpared` | `Stacked` |
| `InstallationProofs!ReadyIsWhatItTakes`, `AttemptsAreFinite` | `ReadyIsEnough`, `Progress` | |

**UpdateCycle.**  `FaultAssumption`: the storage is persistent, a write is not torn, and
startup hooks do not fail together with power losses, restarts or failing saves.
Each exclusion is needed: without it the record of the pending upgrade can be
lost, or name the confirmed set, and the next install then writes to it.
`TrialIsRemembered` is not inductive.  What it needs is the state of memory as
well (`MemoryCoversTrial`: an agent that has nothing on record in memory is on
the good set), that the target of a running install is not the good set
(`TargetIsNotGood`, which follows from the record and not from the boot
selection, since `get_inactive_installation_set` prefers the record), and how
far startup has come (`StartupInOrder`), since a power loss there leaves the
file as it is and the next boot starts from it.  `HooksFailSafely` is the part
for failing startup hooks, a regime of its own that TLC does not run: only the
proof covers it.  `GoodSetKept` and `PromiseKept` then follow step by step.

`SteadyAssumption` adds that saves go through, startup hooks do not fail, and the
device goes down when asked to; power losses, restarts of the agent, and failing
installers, swaps and rollback callbacks stay.  `NextBootIsWhole` then rests on two
facts (`SteadyInv`).  No machine runs on trial: outside startup and the last step of
an install, the set booted next is the good one, so that what is written is
neither.  And a file that names the good set, which a boot may still answer with a
rollback, was left by a confirmation after which nothing was written, so that the
set to go back to is whole.

**Machine.**  `LoopInv` adds to `NoLostWake` that a request that is being handled was
accepted in a preemptive state which nothing changes meanwhile (`JudgedByState`),
and that no request is in hand while a state is handled.  `WaitsInFull` needs
`WakerMeansWork`: but for the moment between two turns of the loop, a message on the
waker channel stands for a state that is handled before the next wait, or for a
request that came to nothing.  It says so of clients that give up and saves that
fail as well, and of any number of them.

**HttpApi.**  Each command is a `SendRequest` and each other step one of the loop, so
`LoopInv` holds beneath (`ServesTheLoop`).  `Correlated` is inductive with it: a
client has one message at most, or the request in hand, and not both, and the
request in hand can only come to an answer of its kind.  From it follows what an
answer says of the step it comes with (`Outcome`), and from that and the two tables
what a result says.

`ServesAtOneMoment` is about the same steps, put together.  A request takes its effect
where the loop answers it, and not where it takes it from the channel: between
the two it waits for the server, or for the waker channel, beside a wait that may
end.  That the state it was judged for is still the agent's is `JudgedByState`, that
the answer is one to what was asked `Correlated`, and that nobody else is answered
in the same step `OneEnds`.  Every other step of the loop is a handler's, or
stutters.  The one request `Service` lets the agent lose is one that would have
ended the state: its handling is dropped with the wait it ran beside.

**StateMachine.**  It has the states as `states/*.rs` move between them, requests and
the going down of the device included, and leaves out everything they do; the
views of `UpdateCycle`, `Transitions` and `HttpApi` each map their own places onto it
(`Stage`), and each of their steps is one of its steps or stutters, under every fault.
So the three agree on the order of the states, which none of them takes from another.
No run repeats these three; `ServesAtOnce`, whose `Service` extends it, has one.

**Transitions.**  The types rest on the bounds of the operators (`RetryDelayBounds`:
between a second and the interval; a delay taken from a clock that was set is never
negative where it is waited for).  `ProbesInTime` needs `TimelyInv`: what is left of
a wait and the age of the last polling together never exceed an interval, and a
wait that was ended early leaves less than it began with.  `NoSpin` needs a budget
(`SpinInv`): the probes entered and those that may yet be come to two at most, one
for a last polling that is due or a probe that is forced, and one for an address that
does not parse or a wake that ends the delay of a retry; being asked for a probe
uses up one of them, and each answer or cancellation all.  `CancelHeeded` needs that
of the outputs of several callbacks only "no output" is taken for consent
(`ContinueIsConsent`).  The properties of an attempt are proved together
(`AttemptInv`), with the fact that the sets are swapped wherever a reboot is next.

**MemoryLog.**  The index of the first record is a difference of two counters; the
proof keeps the watcher's position between them.  `RoomKept` relates the count of
bytes to the records.  `Total` is the last of the partial sums (`Sums`) over them, a
recursive function on the length; that it exists and is what its equation says
(`SumsExist`, `SumsAre`) is proved by a least counterexample, as are the facts about
parts of the buffer: a prefix has the sums of the whole (`SumsOfPart`), and what is
evicted and what stays add up (`TotalSplit`).  An eviction then takes from the count
just what the records it drops were counted for, so that the count never falls below
zero (`TypeCorrect`), and stops where the rest fits or one record is left.

**Objects.**  `Distinct`: no package lists an object twice.  The file of the object
on the way is shorter than the object plus what has come of the answer, and has
the right bytes only if it ends where the answer has come or short of the
object (`TransferInv`); every other object still to come is short (`TodoShort`).
So it ends below twice its size, and one that is ready is at the answer's end,
where no chunk follows.  Without `Distinct` the second download starts on a
finished file.  `InstallsWhole` does not need it: Validation is the only way in.

**Installation.**  `Apart`: no two objects of a package have the same place, and an
object that wipes another (a format or an erase of the device, blocks under a
filesystem) is not shorter, so that it comes first.  The code checks neither.
`AllInPlace` alone says nothing of an install under way.  `InstallInv` adds that
the objects taken are in place already (`TakenInPlace`), that they are as long as
those to come (`TakenFirst`, so what comes does not wipe them), and that the one
being written is there up to the last chunk (`WrittenSoFar`).  A skipped object
is in place because its checksum was: `Judged` leaves out the rules that do
not tell (section 6).  The assumption on the constants: a compressed object
is written whole.  That places on different devices do not overlap, when one of the
devices is stacked on the other, is up to the package and not checked by the model:
it takes each device for storage of its own, but for what is mounted on it.

`MountsAreSpared` needs that the walk finds whatever shares storage with a target
(`ReachesAll`).  It does for every layered stacking (`AllReached`): nothing is
stacked on itself, what is stacked takes its blocks from what it is on, and what
stands on one device, or on none, shares no blocks; a UBI volume is on flash that is
on nothing, and carries nothing; and nothing is stacked on what a filesystem is on
(`Stacked`).  The argument follows one block: whatever holds it is above the one
device on the ground that does (`AboveGround`), and of any two devices that hold it
one is above the other (`Comparable`), since a device hands each of its blocks to one
other at most.  What can be mounted carries nothing, so it is above every target it
shares a block with (`TopAffected`), and is met by the walk up from there, which is
closed after as many steps as there are devices, as each step that finds something
new makes what was found larger (`WalkEnds`).
TLC evaluates `Stacked` for the devices of the run, and that every
stacking of section 2 is `Layered`.

What needs fairness is checked by TLC only: the provers here have no rule for it.
These are `TrialIsSettled`, `ForcedProbeHappens`, `AlwaysReachable`,
`AcceptedInstallRuns`, `CommandsEnd`, `KeepsProbing`, `CustomServerPasses` and both
`EventuallyInstalls`.  Of that of `Installation` the safety half is proved: a device that is
`Ready` is refused by no handler (`ReadyIsWhatItTakes`, which needs that a device
that is formatted has a filesystem until its handler takes it up), and an attempt
takes finitely many steps (`AttemptsAreFinite`: objects, stages and chunks run out, in
that order of weight).  What is left to fairness is that those steps are taken.

## 6. Known disagreements

Three runs are expected to fail.  Each checks one statement of the repository
that the code does not keep:

* `waker_deadlock` (`ClientsServed`): `src/doc/agent-http.yaml:38` promises a busy
  agent's answer.  A probe taken by the drain leaves EntryPoint or Validation,
  which are preemptive, and a message on the waker channel; the next request of
  the same drain waits for room on that channel, which only the loop empties.
  The agent answers nobody any more.  An aborted remote install followed by another
  install does the same.
* `double_install` (`InstalledSetIsNext`): `states/install.rs:79` "Swap installation
  set so it is used next device boot."  The swap toggles.  After a reboot that was
  refused, a second update is written to the set already selected and the swap
  selects the old system.
* `resume_corrupts` (`CompletedIsReady`): `src/updatehub-cloud-sdk/src/client.rs:146`
  "Downloads that stopped part way continue from the number of bytes already on
  disk."  The range starts one byte earlier and is appended; the object is
  corrupted, pruned by the next attempt and downloaded from the start.  The
  mock of `src/updatehub-cloud-sdk/tests/integration_test.rs:167` answers
  `bytes=3-` with what follows byte 4, so its test passes.

Others were met while modelling and are not kept as runs; each follows from the
model as it stands, by adding the fault or request or dropping the hypothesis named.

Update cycle and settings:

* When only the agent restarts between the swap and the reboot, startup compares the
  record with the set booted next (`states/mod.rs:228`) and confirms a system that
  never ran; between the swap of a rollback and the reboot, it confirms the other
  set from the one that was to be left.  `ConfirmedHasBooted` has this as `early`,
  and says that no other fault does it.
* When the save in `disable_force_poll` fails, the forced probe of
  `runtime_settings.rs:233` is lost: `ForcedProbeHappens` with `"saveFails"`.
* A power loss after `set_applied_package_uid` and before the swap
  (`states/install.rs:68`) leaves a package recorded as applied that no set
  boots; it is then skipped at every offer.
* `runtime_settings.rs:149` says that an upgrade on record has been swapped; when
  `updatehub-active-set` fails it has not, and the record stays.
* After a rollback to v1, the machine runs until the device is down and a save
  replaces the v1 file just restored (`runtime_settings.rs:242`).
* A v1 settings file without a listen socket is accepted with an empty one, which is
  parsed only after the startup callbacks have confirmed a trial
  (`states/mod.rs:380`): the agent then ends at every start.

Probing and reports:

* A custom server is reset only in EntryPoint, although `runtime_settings.rs:223` says
  "Server address is reset so it doesn't keep probing the last custom server
  requested": an agent whose probe of it fails stays in Probe and retries that
  server for ever, if it never answers (`CustomServerPasses` without its third
  hypothesis).  Meanwhile a probe request in Validation redirects the download.
* `src/doc/agent-http.yaml:30` says the address is used for the requests that follow
  if there is an update; it is set before the probe, whatever comes of it.
* An address of a protocol alone (`http://`) passes the check of the settings and is
  no URL: every probe is an error, and the agent goes from Error to Poll and Probe
  without a wait once an interval has passed.  The model takes an address of the
  settings to be a URL.
* A server that asks to be probed after no time, or a negative one, is probed at
  once.
* A download that is aborted ends without an error and is reported as
  "downloaded"; errors in Validation, PrepareLocalInstall and DirectDownload are
  not reported; a reboot is reported when it begins and again when it was
  requested.
* A probe over HTTP during Validation clears the log of the update in hand.

Listener:

* `listen` (`src/updatehub-sdk/src/listener.rs:121`) ends with an error not only for
  the reasons its comment gives but also for the name of a state it does not know,
  as that of PrepareLocalInstall; later cancels are then lost.
* Two callbacks that cancel a state write `cancelcancel`, which the agent refuses as
  invalid output: the state is not handled, and the agent reports an error.

HTTP:

* A busy probe is replied to with 200 (`http_api.rs:133`),
  `src/doc/agent-http.yaml:38` says 406; the client library fails to read the name
  of the state in it.
* The reply to an accepted abort is a message, the library expects a state: a
  successful abort is an error to the client.
* States of two words are written with an underscore by the agent and read without
  by the library: an install accepted in EntryPoint is an error to the client.  This
  and the abort are the failures after which something was done: `Misread` in
  `NothingDoneUnlessMisread`.
* A wake message is sent before the save and the answer (`states/machine/mod.rs:88`).
  Where one of them fails the message stays, and cuts the next wait short though
  nothing has changed: `stray` in `FullWait`.
* A refused remote install is `UnexpectedResponse`, as the library has no refusal
  for it.
* A wait that ends while a probe asked for over HTTP is in flight drops the
  request with its responder, `unreachable!` in `states/machine/address.rs:78` is
  reached and the connection ends: the client has no response, and may repeat the
  command (`NothingDoneUnlessMisread`); `CommandsEnd` does not hold with requests of
  kind `"probe"`.

Download:

* `dedup` (`states/download.rs:77`) keeps an object listed under two names, which is
  then downloaded twice into one file, corrupted and pruned at every attempt:
  `EventuallyInstalls` without `Agreeing`.
* A local install extracts the objects of the active set
  (`states/prepare_local_install.rs:71`) and validates those of the inactive one:
  a package whose lists differ is never installed that way.

Installers:

* install-if-different with a pattern (`object/installer/mod.rs:64`): the version
  stands at the start of the object, so an object cut short after its start is
  skipped by the next attempt, which then reports the package as installed:
  `AllInPlace` without the first conjunct of `Judged`.
* A copy that is interrupted between its content and its attributes
  (`object/installer/copy.rs:110`) is skipped by the next attempt with the mode of
  the older file.
* The checksum is that of the object as downloaded, so for a compressed object, or
  one with `skip`, the rule never finds it installed and always writes again.
* Copy mounts the device before it formats it (`object/installer/copy.rs:55`): on a
  blank device, or after a mkfs that was cut short, no attempt gets past the mount.
  Tarball formats first.
* An agent that is killed leaves its mount, and every later install that takes the
  device for itself is refused until somebody unmounts it.
* The space check compares the whole object with the whole device and looks neither
  at `skip` and `count` nor at `seek`: an object may run over the end of the device,
  and fail half-way, or be refused though the part of it to be written fits.  A
  tarball is judged by the size of the archive, and imxkobs not at all.
* The names of flash partitions are matched with one digit (`utils/mtd.rs:41`): a
  partition past the tenth is not found by its name.
* "File's access mode is changed here" (`object/installer/copy.rs:92`): `set_mode`
  changes the value in memory and not the file.

## 7. What is not modelled

* Installers: the environment of U-Boot (a script for `fw_setenv`), the lookup of a
  UBI volume by its name, and the cache of the kernel: a chunk that is written
  lasts, while the code does not sync it before the swap.  `raw-delta` writes its
  chunks in the order of the archive, in the model in that of the target.  The
  second chip of imxkobs, written by the same command, is left out, and so is an
  unmount that fails in an agent that lives: only a killed one leaves its mount.  In
  `UpdateCycle` an installer is a write that may stop half-way.
* What the objects, the package and the requests look like: the deserialization of
  metadata, the contents of reports and probes, and signatures, which are a reason
  for Validation to refuse.
* What callbacks and listeners do: programs outside the repository; a transition they
  cancel is a choice.  `Transitions` has one program with up to two callbacks, or one
  script in its place, and the outputs the agent tells apart; the code takes any
  number of programs and puts what they write together.
* Firmware metadata: read once by scripts, and sent along.
* `metadata` and `signature` files left by older agents in the download directory,
  and errors of the file system there other than a failed extraction.
* With `read_only` storage nothing is recorded, so that the promise of `ABUpdate`
  cannot be stated; only `Transitions` has it.

What could still be added is a composition: `UpdateCycle` with `Objects` and
`Installation`, an install reading what the directory holds and writing what the
set then boots, so that `NextBootIsWhole` starts at the server.  Each module now
takes from the others no more than what the proofs establish there: whole
objects from `InstallsWhole`, and a set that holds its package from
`InstalledInPlace`.
