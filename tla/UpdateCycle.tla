----------------------------- MODULE UpdateCycle -----------------------------
(***************************************************************************)
(* The life of an update on a device with two installation sets: the agent *)
(* receives a package, writes it to one set, records what it did, selects  *)
(* that set for the next boot and reboots; the agent of the next boot      *)
(* judges the new set and confirms it or goes back to the previous one.    *)
(*                                                                         *)
(* Three stores are updated one after the other and never together: the    *)
(* content of the sets, the settings file and the boot selection kept by   *)
(* the firmware (updatehub-active-get / -set / -validated).  A power loss, *)
(* a save or a hook that fails, or a reboot that does not happen, can come *)
(* between any two of them.  CONSTANT Faults says which ones may.          *)
(***************************************************************************)
EXTENDS RuntimeSettings

CONSTANTS
  Faults,          \* which of the faults below can occur
  Persistent,      \* ~settings.storage.read_only
  PollingEnabled,  \* settings.polling.enabled
  FromV1           \* the device may first boot from an UpdateHub v1 update

AllFaults == {
  "powerLoss",         \* the device goes down at any point
  "agentRestart",      \* only the agent process is restarted
  "saveFails",         \* writing the settings file fails
  "tornWrite",         \* a failed or interrupted write leaves half a file
  "installFails",      \* an installer fails half-way
  "swapFails",         \* updatehub-active-set fails at the end of an install
  "rebootRefused",     \* the reboot is cancelled by a callback, or fails
  "slowReboot",        \* the agent goes on running while the device goes down
  "startupHookFails",  \* a hook of the startup sequence fails
  "rollbackFails"}     \* the rollback callback fails

ASSUME ConfigAssumption == /\ Faults \subseteq AllFaults
                           /\ Persistent \in BOOLEAN
                           /\ PollingEnabled \in BOOLEAN
                           /\ FromV1 \in BOOLEAN

ASSUME ContentAssumption == {"factory", "v1System", "partial"} \cap Package = {}

VARIABLES
  pc,               \* what the agent is about to do
  mem,              \* runtime settings in memory
  disk,             \* the runtime settings file
  v1File,           \* RuntimeSettings::v1_content, the v1 file to restore
  pkg,              \* the package carried by the current state
  requireDownload,  \* Validation::require_download
  target,           \* the set Install is writing to
  active,           \* the set the firmware boots next
  running,          \* the set the device booted from
  good,             \* the set of the last verdict: confirmed, or fallen back on
  content,          \* what each set holds
  rebooting,        \* the device is going down on the agent's request
  early             \* the agent last started without a boot, and over a set the
                    \* device had yet to boot; no action depends on it

agentVars  == <<pc, mem, disk, v1File, pkg, requireDownload, target>>
deviceVars == <<active, running, good, content, rebooting, early>>
vars       == <<agentVars, deviceVars>>

Startup == {"startup", "confirm", "reset", "rollbackSwap", "rollbackCallback",
            "restoreV1", "rollbackReboot"}

\* States whose is_preemptive_state() is true.
Preemptive == {"park", "entryPoint", "poll", "probe", "validation"}

Installing == {"writing", "markApplied", "markUpgrading", "swap"}

Control == Startup \cup Preemptive \cup Installing \cup
           {"off", "down", "download", "directDownload", "prepareLocalInstall",
            "install", "reboot", "error", "v1Agent"}

\* A package, the system of the factory, the v1 system the device was
\* upgraded from, or an install that did not complete.
Contents == Package \cup {"factory", "v1System", "partial"}

TypeOK ==
  /\ pc \in Control
  /\ mem \in Settings
  /\ disk \in File
  /\ v1File \in File
  /\ pkg \in Package \cup {None}
  /\ requireDownload \in BOOLEAN
  /\ target \in InstallationSet \cup {None}
  /\ active \in InstallationSet
  /\ running \in InstallationSet
  /\ good \in InstallationSet
  /\ content \in [InstallationSet -> Contents]
  /\ rebooting \in BOOLEAN
  /\ early \in BOOLEAN

May(fault) == fault \in Faults

(***************************************************************************)
(* Initial states: a device out of the factory, without a settings file,   *)
(* or one whose v1 agent installed a package into B and rebooted.          *)
(***************************************************************************)
V1Pending == [fmt |-> "v1", rec |-> [DefaultSettings EXCEPT !.upgradeTo = "B"]]

Init ==
  /\ pc = "off"
  /\ mem = DefaultSettings
  /\ v1File = AbsentFile
  /\ pkg = None
  /\ requireDownload = FALSE
  /\ target = None
  /\ good = "A"
  /\ running = "A"
  /\ rebooting = FALSE
  /\ early = FALSE
  /\ \/ /\ disk = AbsentFile
        /\ active = "A"
        /\ content = [s \in InstallationSet |-> "factory"]
     \/ /\ FromV1
        /\ disk = V1Pending
        /\ active = "B"
        /\ \E p \in Package :
             content = [s \in InstallationSet |-> IF s = "A" THEN "v1System" ELSE p]

(***************************************************************************)
(* RuntimeSettings::save.  A read-only storage skips the write and reports *)
(* success; fs::write truncates the file before it writes.                 *)
(***************************************************************************)
Saved(m) == disk' = IF Persistent THEN FileOf(m) ELSE disk

SaveFailed ==
  /\ Persistent
  /\ May("saveFails")
  /\ \/ disk' = disk
     \/ May("tornWrite") /\ disk' = TornFile

\* Save m; control continues at ok, or at err when the save fails.
SaveThen(m, ok, err) ==
  \/ Saved(m) /\ pc' = ok
  \/ SaveFailed /\ pc' = err

\* The state carrying a package is left for one that carries none.
DropPackage == /\ pkg' = None
               /\ requireDownload' = FALSE
               /\ target' = None

carried == <<pkg, requireDownload, target>>

(***************************************************************************)
(* The device.                                                             *)
(***************************************************************************)

\* Power on.  The firmware boots the selected set; from a set that no
\* verdict of the agent covers it may fall back on the other one.
BootSet ==
  /\ pc = "off"
  /\ active' \in {active} \cup (IF active # good THEN {good} ELSE {})
  /\ running' = active'

\* The agent of the set loads its settings.
Boot ==
  /\ BootSet
  /\ content[active'] # "v1System"
  /\ mem' = Load(disk)
  /\ disk' = AfterLoad(disk)
  /\ v1File' = IF disk.fmt = "v1" THEN disk ELSE AbsentFile
  /\ pc' = "startup"
  /\ early' = FALSE
  /\ UNCHANGED <<carried, good, content, rebooting>>

\* The set holds the v1 system: its agent, which is another program, takes
\* the device over.
BootV1System ==
  /\ BootSet
  /\ content[active'] = "v1System"
  /\ pc' = "v1Agent"
  /\ early' = FALSE
  /\ UNCHANGED <<mem, disk, v1File, carried, good, content, rebooting>>

V1AgentRuns == pc = "v1Agent" /\ UNCHANGED vars

GoDown ==
  /\ pc' = "off"
  /\ rebooting' = FALSE
  /\ mem' = DefaultSettings
  /\ v1File' = AbsentFile
  /\ DropPackage
  /\ UNCHANGED <<active, running, good, content, early>>

\* The reboot the agent asked for.
Shutdown ==
  /\ rebooting
  /\ GoDown
  /\ UNCHANGED disk

\* Places where a write of the settings file can be under way.
Saving == Preemptive \cup {"reset", "restoreV1", "markApplied", "markUpgrading"}

PowerLoss ==
  /\ May("powerLoss")
  /\ pc \notin {"off", "v1Agent"}
  /\ GoDown
  /\ \/ UNCHANGED disk
     \/ May("tornWrite") /\ Persistent /\ pc \in Saving /\ disk' = TornFile

\* The process alone starts again: same boot, settings loaded anew.
AgentRestart ==
  /\ May("agentRestart")
  /\ pc \notin {"off", "down", "v1Agent"}
  /\ pc' = "startup"
  /\ mem' = Load(disk)
  /\ disk' = AfterLoad(disk)
  /\ v1File' = IF disk.fmt = "v1" THEN disk ELSE AbsentFile
  /\ DropPackage
  /\ early' = (active # running)
  /\ UNCHANGED <<active, running, good, content, rebooting>>

\* The reboot command returned: the device is going down, and unless that
\* takes long the agent gets no further.
RebootRequested ==
  /\ rebooting' = TRUE
  /\ pc' \in {"down"} \cup (IF May("slowReboot") THEN {"entryPoint"} ELSE {})

(***************************************************************************)
(* handle_startup_callbacks, one action per store it touches.  An error    *)
(* anywhere is logged and the machine starts all the same.                 *)
(***************************************************************************)
StartupIdle ==
  /\ pc = "startup"
  /\ mem.upgradeTo = None
  /\ pc' = "entryPoint"
  /\ UNCHANGED <<mem, disk, v1File, carried, deviceVars>>

\* A slip: a positive verdict resets without validating.
StartupJudgeSkipsConfirm ==
  /\ pc = "startup"
  /\ mem.upgradeTo = active
  /\ pc' \in {"reset", "rollbackSwap"}
  /\ UNCHANGED <<mem, disk, v1File, carried, deviceVars>>

\* updatehub-active-get says the expected set is active: the validate
\* callback gives the verdict.
StartupJudge ==
  /\ pc = "startup"
  /\ mem.upgradeTo = active
  /\ pc' \in {"confirm", "rollbackSwap"}
  /\ UNCHANGED <<mem, disk, v1File, carried, deviceVars>>

\* Another set is active: the update has been rolled back.
StartupRolledBack ==
  /\ pc = "startup"
  /\ mem.upgradeTo \notin {None, active}
  /\ pc' = "confirm"
  /\ UNCHANGED <<mem, disk, v1File, carried, deviceVars>>

\* updatehub-active-get fails or the validate callback cannot be run;
\* updatehub-active-validated fails; swapping back fails.
StartupHookFails ==
  /\ May("startupHookFails")
  /\ \/ pc = "startup" /\ mem.upgradeTo # None
     \/ pc = "confirm"
     \/ pc = "rollbackSwap"
  /\ pc' = "entryPoint"
  /\ UNCHANGED <<mem, disk, v1File, carried, deviceVars>>

\* installation_set::validate.
Confirm ==
  /\ pc = "confirm"
  /\ good' = active
  /\ pc' = "reset"
  /\ UNCHANGED <<mem, disk, v1File, carried, active, running, content, rebooting, early>>

Reset ==
  /\ pc = "reset"
  /\ mem' = ResetInstallationSettings(mem)
  /\ SaveThen(mem', "entryPoint", "entryPoint")
  /\ UNCHANGED <<v1File, carried, deviceVars>>

\* A slip: the swap is missing.
RollbackWithoutSwap ==
  /\ pc = "rollbackSwap"
  /\ pc' = "rollbackCallback"
  /\ UNCHANGED <<mem, disk, v1File, carried, deviceVars>>

\* The verdict was negative: installation_set::swap_active.
RollbackSwap ==
  /\ pc = "rollbackSwap"
  /\ active' = Inactive(active)
  /\ good' = active'
  /\ pc' = "rollbackCallback"
  /\ UNCHANGED <<mem, disk, v1File, carried, running, content, rebooting, early>>

\* A slip: no return after a rollback, validation follows.
RollbackFallsThrough ==
  /\ pc = "rollbackCallback"
  /\ pc' = "confirm"
  /\ UNCHANGED <<mem, disk, v1File, carried, deviceVars>>

RollbackCallback ==
  /\ pc = "rollbackCallback"
  /\ \/ pc' = "restoreV1"
     \/ May("rollbackFails") /\ pc' = "entryPoint"
  /\ UNCHANGED <<mem, disk, v1File, carried, deviceVars>>

\* restore_v1_content writes the v1 file back, on a read-only storage too.
RestoreV1 ==
  /\ pc = "restoreV1"
  /\ \/ /\ v1File # AbsentFile
        /\ disk' = v1File
        /\ pc' = "rollbackReboot"
     \/ /\ v1File = AbsentFile
        /\ disk' = disk
        /\ pc' = "rollbackReboot"
     \/ /\ v1File # AbsentFile
        /\ SaveFailed
        /\ pc' = "entryPoint"
  /\ UNCHANGED <<mem, v1File, carried, deviceVars>>

\* The pending upgrade stays recorded, for the next boot to notice.
RollbackReboot ==
  /\ pc = "rollbackReboot"
  /\ \/ RebootRequested
     \/ /\ May("rebootRefused")
        /\ pc' = "entryPoint"
        /\ UNCHANGED rebooting
  /\ UNCHANGED <<mem, disk, v1File, carried, active, running, good, content, early>>

(***************************************************************************)
(* The idle states, and the ways a package is offered.                     *)
(***************************************************************************)
\* A slip: polling.enabled is looked at before the forced probe.
EntryPointPollsFirst ==
  /\ pc = "entryPoint"
  /\ mem' = DisableForcePoll(mem)
  /\ SaveThen(mem', IF PollingEnabled THEN "poll" ELSE "park", "error")
  /\ UNCHANGED <<v1File, carried, deviceVars>>

EntryPoint ==
  /\ pc = "entryPoint"
  /\ \/ /\ mem.now
        /\ mem' = DisableForcePoll(mem)
        /\ SaveThen(mem', "probe", "error")
     \/ /\ ~mem.now
        /\ pc' = IF PollingEnabled THEN "poll" ELSE "park"
        /\ UNCHANGED <<mem, disk>>
  /\ UNCHANGED <<v1File, carried, deviceVars>>

Poll ==
  /\ pc = "poll"
  /\ pc' = "probe"
  /\ UNCHANGED <<mem, disk, v1File, carried, deviceVars>>

\* No update, or the callback cancels the probe: in both cases the time of
\* the probe is saved.
ProbeNoUpdate ==
  /\ pc = "probe"
  /\ \/ SaveThen(mem, "entryPoint", "error")       \* the server has none
     \/ SaveThen(mem, "entryPoint", "entryPoint")  \* the callback cancels
  /\ UNCHANGED <<mem, v1File, carried, deviceVars>>

ProbeUpdate ==
  /\ pc = "probe"
  /\ SaveThen(mem, "validation", "error")
  /\ IF pc' = "validation" THEN /\ pkg' \in Package
                                /\ requireDownload' = TRUE
                                /\ UNCHANGED target
                           ELSE UNCHANGED carried
  /\ UNCHANGED <<mem, v1File, deviceVars>>

\* The server address is not a URL.
ProbeUrlError ==
  /\ pc = "probe"
  /\ pc' = "error"
  /\ UNCHANGED <<mem, disk, v1File, carried, deviceVars>>

\* A probe asked for over HTTP, in a preemptive state.  The new state is
\* dropped when the client has gone before the answer.
ApiProbe ==
  /\ pc \in Preemptive
  /\ \/ Saved(mem) /\ pc' = "entryPoint" /\ DropPackage
     \/ /\ Saved(mem)
        /\ pc' = "validation"
        /\ pkg' \in Package
        /\ requireDownload' = TRUE
        /\ target' = None
     \/ (Saved(mem) \/ SaveFailed) /\ UNCHANGED <<pc, carried>>
  /\ UNCHANGED <<mem, v1File, deviceVars>>

ApiLocalInstall ==
  /\ pc \in Preemptive
  /\ pc' = "prepareLocalInstall"
  /\ DropPackage
  /\ UNCHANGED <<mem, disk, v1File, deviceVars>>

ApiRemoteInstall ==
  /\ pc \in Preemptive
  /\ pc' = "directDownload"
  /\ DropPackage
  /\ UNCHANGED <<mem, disk, v1File, deviceVars>>

(***************************************************************************)
(* From the package to the install.  Errors drop the package and pass by   *)
(* the Error state; a cancelled transition or an abort goes straight to    *)
(* EntryPoint.                                                             *)
(***************************************************************************)
FetchPackage ==
  /\ pc = "directDownload"
  /\ pc' \in {"prepareLocalInstall", "error", "entryPoint"}
  /\ UNCHANGED <<mem, disk, v1File, carried, deviceVars>>

PrepareLocalInstall ==
  /\ pc = "prepareLocalInstall"
  /\ \/ /\ pc' = "validation"
        /\ pkg' \in Package
        /\ UNCHANGED <<requireDownload, target>>
     \/ /\ pc' \in {"error", "entryPoint"}
        /\ UNCHANGED carried
  /\ UNCHANGED <<mem, disk, v1File, deviceVars>>

\* The package is refused: signature, compatibility, install mode,
\* requirements of an object, or objects that are not ready.
ValidationRejects ==
  /\ pc = "validation"
  /\ pc' = "error"
  /\ DropPackage
  /\ UNCHANGED <<mem, disk, v1File, deviceVars>>

\* "the same package has already been installed"
ValidationSkips ==
  /\ pc = "validation"
  /\ mem.applied = pkg
  /\ pc' = "entryPoint"
  /\ DropPackage
  /\ UNCHANGED <<mem, disk, v1File, deviceVars>>

ValidationAccepts ==
  /\ pc = "validation"
  /\ mem.applied # pkg
  /\ pc' = IF requireDownload THEN "download" ELSE "install"
  /\ UNCHANGED <<mem, disk, v1File, carried, deviceVars>>

Download ==
  /\ pc = "download"
  /\ \/ /\ pc' = "validation"
        /\ requireDownload' = FALSE
        /\ UNCHANGED <<pkg, target>>
     \/ /\ pc' \in {"error", "entryPoint"}
        /\ DropPackage
  /\ UNCHANGED <<mem, disk, v1File, deviceVars>>

(***************************************************************************)
(* Install::handle: write the objects, record the package, record the set, *)
(* select the set.                                                         *)
(***************************************************************************)
Install ==
  /\ pc = "install"
  /\ \/ /\ target' = GetInactiveInstallationSet(mem, active)
        /\ pc' = "writing"
        /\ UNCHANGED <<pkg, requireDownload>>
     \/ /\ pc' \in {"error", "entryPoint"}   \* hook error, callback cancels
        /\ DropPackage
  /\ UNCHANGED <<mem, disk, v1File, deviceVars>>

\* Some of the objects are on the set, some are not.
WriteObjects ==
  /\ pc = "writing"
  /\ content[target] # "partial"
  /\ content' = [content EXCEPT ![target] = "partial"]
  /\ UNCHANGED <<agentVars, active, running, good, rebooting, early>>

ObjectsWritten ==
  /\ pc = "writing"
  /\ content[target] = "partial"
  /\ content' = [content EXCEPT ![target] = pkg]
  /\ pc' = "markApplied"
  /\ UNCHANGED <<mem, disk, v1File, carried, active, running, good, rebooting, early>>

InstallFails ==
  /\ May("installFails")
  /\ pc = "writing"
  /\ pc' = "error"
  /\ DropPackage
  /\ UNCHANGED <<mem, disk, v1File, deviceVars>>

\* A slip: the set being upgraded to is not recorded.
MarkAppliedOnly ==
  /\ pc = "markApplied"
  /\ mem' = SetAppliedPackageUid(mem, pkg)
  /\ SaveThen(mem', "swap", "error")
  /\ IF pc' = "error" THEN DropPackage ELSE UNCHANGED carried
  /\ UNCHANGED <<v1File, deviceVars>>

MarkApplied ==
  /\ pc = "markApplied"
  /\ mem' = SetAppliedPackageUid(mem, pkg)
  /\ SaveThen(mem', "markUpgrading", "error")
  /\ IF pc' = "error" THEN DropPackage ELSE UNCHANGED carried
  /\ UNCHANGED <<v1File, deviceVars>>

\* A slip: saved before it is changed.
MarkUpgradingSavesFirst ==
  /\ pc = "markUpgrading"
  /\ mem' = SetUpgradingTo(mem, target)
  /\ SaveThen(mem, "swap", "error")
  /\ IF pc' = "error" THEN DropPackage ELSE UNCHANGED carried
  /\ UNCHANGED <<v1File, deviceVars>>

MarkUpgrading ==
  /\ pc = "markUpgrading"
  /\ mem' = SetUpgradingTo(mem, target)
  /\ SaveThen(mem', "swap", "error")
  /\ IF pc' = "error" THEN DropPackage ELSE UNCHANGED carried
  /\ UNCHANGED <<v1File, deviceVars>>

\* A slip: the swap is missing.
RebootWithoutSwap ==
  /\ pc = "swap"
  /\ pc' = "reboot"
  /\ UNCHANGED <<mem, disk, v1File, carried, deviceVars>>

SwapActive ==
  /\ pc = "swap"
  /\ \/ /\ active' = Inactive(active)
        /\ pc' = "reboot"
        /\ UNCHANGED carried
     \/ /\ May("swapFails")
        /\ pc' = "error"
        /\ DropPackage
        /\ UNCHANGED active
  /\ UNCHANGED <<mem, disk, v1File, running, good, content, rebooting, early>>

Reboot ==
  /\ pc = "reboot"
  /\ \/ RebootRequested
     \/ /\ May("rebootRefused")
        /\ pc' \in {"error", "entryPoint"}
        /\ UNCHANGED rebooting
  /\ DropPackage
  /\ UNCHANGED <<mem, disk, v1File, active, running, good, content, early>>

Error ==
  /\ pc = "error"
  /\ pc' = "entryPoint"
  /\ UNCHANGED <<mem, disk, v1File, carried, deviceVars>>

DeviceStep == Boot \/ BootV1System \/ V1AgentRuns \/ Shutdown \/ PowerLoss \/ AgentRestart

StartupStep == \/ StartupIdle \/ StartupJudge \/ StartupRolledBack
               \/ StartupHookFails \/ Confirm \/ Reset \/ RollbackSwap
               \/ RollbackCallback \/ RestoreV1 \/ RollbackReboot

OfferStep == \/ EntryPoint \/ Poll \/ ProbeNoUpdate \/ ProbeUpdate
             \/ ProbeUrlError \/ ApiProbe \/ ApiLocalInstall \/ ApiRemoteInstall

InstallStep == \/ FetchPackage \/ PrepareLocalInstall \/ ValidationRejects
               \/ ValidationSkips \/ ValidationAccepts \/ Download \/ Install
               \/ WriteObjects \/ ObjectsWritten \/ InstallFails \/ MarkApplied
               \/ MarkUpgrading \/ SwapActive \/ Reboot \/ Error

Next == DeviceStep \/ StartupStep \/ OfferStep \/ InstallStep

Spec == Init /\ [][Next]_vars

(***************************************************************************)
(* Fairness: the device comes back after going down, and goes down when    *)
(* asked to; the agent's own handlers return.  Nothing is assumed of the   *)
(* server's answers, of the requests, or of the faults.                    *)
(***************************************************************************)
Fairness ==
  /\ WF_vars(Boot \/ BootV1System)
  /\ WF_vars(Shutdown)
  /\ WF_vars(StartupStep)
  /\ WF_vars(EntryPoint \/ Poll)
  /\ WF_vars(InstallStep)

FairSpec == Spec /\ Fairness

(***************************************************************************)
(* Safety.                                                                 *)
(***************************************************************************)

\* The set of the last verdict -- confirmed by the agent, or fallen back on
\* after a failed validation -- is never written by an install, whichever
\* of the settings, the sets and the boot selection the faults left behind
\* (Install::handle, get_inactive_installation_set, startup callbacks).
KnownGoodUntouched ==
  [][\A s \in InstallationSet : content'[s] # content[s] => s # good]_vars

\* Whenever the firmware would boot a set no verdict covers, the settings
\* file says so: the next boot will judge it (the order of the two saves and
\* the swap in Install::handle, and of validate and reset at startup).
TrialIsRemembered == active # good => Load(disk).upgradeTo # None

\* The device keeps the promise of an A/B update: its stores only change in
\* the order ABUpdate.tla allows.
AB == INSTANCE ABUpdate WITH pending <- Load(disk).upgradeTo # None
Promise == AB!Spec

\* The agent goes through its states in the order StateMachine.tla allows: the
\* sets are only touched by an Install that a Validation led to.
Stage == CASE pc \in Startup \cup {"off", "down", "v1Agent"} -> "down"
           [] pc \in Installing -> "install"
           [] OTHER -> pc

Order == INSTANCE StateMachine WITH state <- Stage
InOrder == Order!Spec

\* The set selected for the next boot, and the one to fall back on, hold a
\* whole package: an interrupted install never leaves the device to boot it
\* (the swap in Install::handle comes last).
NextBootIsWhole == content[active] # "partial" /\ content[good] # "partial"

\* A set is confirmed only by the system that runs from it: the agent that
\* validates is the one that was to be validated (mod.rs:226-252).  Of all the
\* faults only one lets the startup sequence confirm a system that never ran:
\* its process alone was started again between a swap, of an install or of a
\* rollback, and the boot, and takes the selected set for the one that was booted.
ConfirmedHasBooted == [][Confirm => active = running \/ early]_vars

\* Once Install has swapped, the set it recorded as being upgraded to is the
\* one the device boots next (install.rs:79).
InstalledSetIsNext == pc = "reboot" => mem.upgradeTo = active

(***************************************************************************)
(* The inductive invariant behind KnownGoodUntouched and Promise.  A fault *)
(* that loses the pending upgrade breaks it: a read-only storage, a torn   *)
(* write; so do a failing startup hook and a lost reset taken together,    *)
(* which leave a confirmed set on record as the one being upgraded to.     *)
(***************************************************************************)
FaultAssumption ==
  /\ Persistent
  /\ ~May("tornWrite")
  /\ May("startupHookFails") =>
       ~May("powerLoss") /\ ~May("agentRestart") /\ ~May("saveFails")

MachineStarted == Control \ (Startup \cup {"off", "down", "v1Agent"})

\* What the agent believes is pending, when it has something in memory.
MemoryCoversTrial ==
  pc \notin {"off", "down", "v1Agent"} /\ mem.upgradeTo = None => active = good

\* An install knows its target, and the states that carry a package do.
InHand ==
  /\ pc \in Installing => target \in InstallationSet
  /\ pc \in Installing \cup {"validation", "download", "install"} =>
       pkg \in Package

\* The machine never runs with a verdict's set on record as the target.
TargetIsNotGood ==
  /\ pc \in MachineStarted => mem.upgradeTo # good
  /\ pc \in Installing => target # good
  /\ pc = "swap" => mem.upgradeTo = target /\ Load(disk).upgradeTo = target

\* How far the startup sequence has come.
StartupInOrder ==
  /\ pc \in Startup \ {"reset"} => Load(disk).upgradeTo = mem.upgradeTo
  /\ pc \in Startup \ {"startup"} => mem.upgradeTo # None
  /\ pc = "rollbackSwap" => mem.upgradeTo = active
  /\ pc = "reset" => active = good
  /\ pc \in {"rollbackCallback", "restoreV1", "rollbackReboot"} =>
       active = good /\ mem.upgradeTo # good
  /\ pc \in Startup /\ v1File # AbsentFile =>
       Load(v1File).upgradeTo = mem.upgradeTo

\* Where startup hooks can fail, the record never names the set of the last
\* verdict when they do.
HooksFailSafely ==
  May("startupHookFails") =>
    /\ pc # "reset" => Load(disk).upgradeTo # good
    /\ pc \in {"startup", "confirm", "rollbackSwap"} => mem.upgradeTo # good
    /\ pc \in Startup \cup {"off", "v1Agent"} => ~rebooting

IndInv == /\ TypeOK
          /\ InHand
          /\ TrialIsRemembered
          /\ MemoryCoversTrial
          /\ TargetIsNotGood
          /\ StartupInOrder
          /\ HooksFailSafely

(***************************************************************************)
(* Liveness, once power losses and restarts cease.  Going down on request  *)
(* is not a power loss: reboots may go on for ever.                        *)
(***************************************************************************)
DisruptionsCease == <>[][~(PowerLoss /\ ~Shutdown) /\ ~AgentRestart]_vars

\* The handlers' own steps go on, those that look like a request's included.
OwnStep == EntryPoint \/ Poll \/ ProbeNoUpdate \/ ProbeUpdate \/ ProbeUrlError
           \/ InstallStep

RequestsCease ==
  <>[][ApiProbe \/ ApiLocalInstall \/ ApiRemoteInstall => OwnStep]_vars

\* A set without a verdict is about to be booted, or has been: all there is
\* left to refuse is the reboot.
OnTrial == active # good /\ (rebooting \/ pc \in Startup \cup {"off", "down"})

\* A set that was selected for booting gets its verdict: it is confirmed,
\* or the device is back on the other one, whatever is saved or installed
\* while the device goes down (Reboot, startup callbacks).
TrialIsSettled == DisruptionsCease => (OnTrial ~> active = good)

\* No sequence of failed updates, failed saves and rollbacks keeps the
\* device rebooting or the agent failing for ever: it always gets back to
\* where it accepts requests (Error, EntryPoint, startup callbacks).
AlwaysReachable ==
  DisruptionsCease => []<>(pc \in Preemptive \cup {"v1Agent"})

\* A settled update is followed by a probe, even with polling disabled
\* (runtime_settings.rs:233 "Ensure we do a probe as soon as possible").
ForcedProbeHappens ==
  (DisruptionsCease /\ RequestsCease) => (mem.now ~> pc = "probe")
=============================================================================
