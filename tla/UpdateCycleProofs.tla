-------------------------- MODULE UpdateCycleProofs --------------------------
(***************************************************************************)
(* Proofs about UpdateCycle, for every set of packages, every setting and  *)
(* every set of faults that FaultAssumption admits.                        *)
(***************************************************************************)
EXTENDS UpdateCycle, TLAPS

(***************************************************************************)
(* Facts about the settings and their file.                                *)
(***************************************************************************)

\* What is saved is what is loaded back (RuntimeSettings::save and load).
LEMMA LoadSaved == \A m : Load(FileOf(m)) = m
BY DEF Load, FileOf

\* Moving a file that does not parse out of the way changes nothing of what
\* is loaded (RuntimeSettings::load).
LEMMA LoadAfterLoad == \A f \in File : Load(AfterLoad(f)) = Load(f)
BY DEF Load, AfterLoad, File, AbsentFile

\* The files and the settings handled have their types.
LEMMA FileTypes ==
  /\ DefaultSettings \in Settings
  /\ AbsentFile \in File
  /\ TornFile \in File
  /\ \A m \in Settings : FileOf(m) \in File
  /\ \A f \in File : Load(f) \in Settings /\ AfterLoad(f) \in File
<1>1. DefaultSettings \in Settings
  BY DEF DefaultSettings, Settings
<1>2. AbsentFile \in File /\ TornFile \in File
  BY <1>1 DEF AbsentFile, TornFile, File
<1>3. \A m \in Settings : FileOf(m) \in File
  BY DEF FileOf, File
<1>4. \A f \in File : Load(f) \in Settings /\ AfterLoad(f) \in File
  BY <1>1, <1>2 DEF Load, AfterLoad, File
<1> QED
  BY <1>1, <1>2, <1>3, <1>4

\* The setters keep the type of the settings, and each touches the fields it
\* is named for (runtime_settings.rs).
LEMMA SetterTypes ==
  /\ \A m \in Settings, p \in Package :
       /\ SetAppliedPackageUid(m, p) \in Settings
       /\ SetAppliedPackageUid(m, p).upgradeTo = m.upgradeTo
  /\ \A m \in Settings, s \in InstallationSet :
       /\ SetUpgradingTo(m, s) \in Settings
       /\ SetUpgradingTo(m, s).upgradeTo = s
  /\ \A m \in Settings :
       /\ DisableForcePoll(m) \in Settings
       /\ DisableForcePoll(m).upgradeTo = m.upgradeTo
       /\ ResetInstallationSettings(m) \in Settings
       /\ ResetInstallationSettings(m).upgradeTo = None
BY DEF Settings, SetAppliedPackageUid, SetUpgradingTo, DisableForcePoll,
       ResetInstallationSettings

\* The other set is a set, and another one (installation_set::inactive).
LEMMA InactiveIsOther ==
  ASSUME NEW a \in InstallationSet
  PROVE  Inactive(a) \in InstallationSet \ {a}
BY DEF InstallationSet, Inactive

\* An install is aimed at a set, at the pending one if there is one
\* (get_inactive_installation_set).
LEMMA TargetType ==
  ASSUME NEW m \in Settings, NEW a \in InstallationSet
  PROVE  /\ GetInactiveInstallationSet(m, a) \in InstallationSet
         /\ m.upgradeTo # None => GetInactiveInstallationSet(m, a) = m.upgradeTo
         /\ m.upgradeTo = None => GetInactiveInstallationSet(m, a) # a
BY InactiveIsOther DEF Settings, GetInactiveInstallationSet

\* A set is not None.
LEMMA SetIsNotNone == None \notin InstallationSet
BY DEF None, InstallationSet

(***************************************************************************)
(* Type correctness.                                                       *)
(***************************************************************************)

\* The device starts with every variable in its type and no install in hand.
LEMMA InitType == Init => TypeOK /\ InHand
<1> SUFFICES ASSUME Init PROVE TypeOK /\ InHand
  OBVIOUS
<1>1. V1Pending \in File
  BY DEF V1Pending, File, Settings, DefaultSettings, InstallationSet
<1> QED
  BY <1>1, FileTypes
  DEF Init, TypeOK, InHand, Control, Startup, Installing, InstallationSet,
      Contents

\* Every step keeps the types, and with them what an install has in hand,
\* whatever the faults.
LEMMA StepType ==
  TypeOK /\ InHand /\ [Next]_vars => TypeOK' /\ InHand'
<1> SUFFICES ASSUME TypeOK, InHand, [Next]_vars PROVE TypeOK' /\ InHand'
  OBVIOUS
<1> USE FileTypes, SetterTypes, InactiveIsOther, TargetType
    DEF TypeOK, carried, deviceVars, agentVars, Control, Startup, Preemptive,
        Installing, Contents, InHand
<1>1. CASE Boot
  BY <1>1 DEF Boot, BootSet
<1>2. CASE BootV1System
  BY <1>2 DEF BootV1System, BootSet
<1>3. CASE V1AgentRuns
  BY <1>3 DEF V1AgentRuns, vars
<1>4. CASE Shutdown
  BY <1>4 DEF Shutdown, GoDown, DropPackage
<1>5. CASE PowerLoss
  BY <1>5 DEF PowerLoss, GoDown, DropPackage
<1>6. CASE AgentRestart
  BY <1>6 DEF AgentRestart, DropPackage
<1>7. CASE StartupIdle
  BY <1>7 DEF StartupIdle
<1>8. CASE StartupJudge
  BY <1>8 DEF StartupJudge
<1>9. CASE StartupRolledBack
  BY <1>9 DEF StartupRolledBack
<1>10. CASE StartupHookFails
  BY <1>10 DEF StartupHookFails
<1>11. CASE Confirm
  BY <1>11 DEF Confirm
<1>12. CASE Reset
  <2>1. mem' \in Settings
    BY <1>12 DEF Reset
  <2>2. disk' \in {FileOf(mem'), disk, TornFile}
    BY <1>12 DEF Reset, SaveThen, Saved, SaveFailed
  <2>3. disk' \in File
    BY <2>1, <2>2
  <2> QED
    BY <1>12, <2>1, <2>3 DEF Reset, SaveThen
<1>13. CASE RollbackSwap
  BY <1>13 DEF RollbackSwap
<1>14. CASE RollbackCallback
  BY <1>14 DEF RollbackCallback
<1>15. CASE RestoreV1
  BY <1>15 DEF RestoreV1, SaveFailed
<1>16. CASE RollbackReboot
  BY <1>16 DEF RollbackReboot, RebootRequested
<1>17. CASE EntryPoint
  <2>1. mem' \in Settings
    BY <1>17 DEF EntryPoint
  <2>2. disk' \in {FileOf(mem'), disk, TornFile}
    BY <1>17 DEF EntryPoint, SaveThen, Saved, SaveFailed
  <2>3. disk' \in File
    BY <2>1, <2>2
  <2>4. pc' \in {"probe", "error", "poll", "park"}
    BY <1>17 DEF EntryPoint, SaveThen
  <2> QED
    BY <1>17, <2>1, <2>3, <2>4 DEF EntryPoint
<1>18. CASE Poll
  BY <1>18 DEF Poll
<1>19. CASE ProbeNoUpdate
  BY <1>19 DEF ProbeNoUpdate, SaveThen, Saved, SaveFailed
<1>20. CASE ProbeUpdate
  BY <1>20 DEF ProbeUpdate, SaveThen, Saved, SaveFailed
<1>21. CASE ProbeUrlError
  BY <1>21 DEF ProbeUrlError
<1>22. CASE ApiProbe
  BY <1>22 DEF ApiProbe, Saved, SaveFailed, DropPackage
<1>23. CASE ApiLocalInstall
  BY <1>23 DEF ApiLocalInstall, DropPackage
<1>24. CASE ApiRemoteInstall
  BY <1>24 DEF ApiRemoteInstall, DropPackage
<1>25. CASE FetchPackage
  BY <1>25 DEF FetchPackage
<1>26. CASE PrepareLocalInstall
  BY <1>26 DEF PrepareLocalInstall
<1>27. CASE ValidationRejects
  BY <1>27 DEF ValidationRejects, DropPackage
<1>28. CASE ValidationSkips
  BY <1>28 DEF ValidationSkips, DropPackage
<1>29. CASE ValidationAccepts
  BY <1>29 DEF ValidationAccepts
<1>30. CASE Download
  BY <1>30 DEF Download, DropPackage
<1>31. CASE Install
  <2>1. GetInactiveInstallationSet(mem, active) \in InstallationSet
    OBVIOUS
  <2> QED
    BY <1>31, <2>1 DEF Install, DropPackage
<1>32. CASE WriteObjects
  BY <1>32 DEF WriteObjects
<1>33. CASE ObjectsWritten
  BY <1>33 DEF ObjectsWritten
<1>34. CASE InstallFails
  BY <1>34 DEF InstallFails, DropPackage
<1>35. CASE MarkApplied
  <2>1. mem' \in Settings
    BY <1>35 DEF MarkApplied
  <2>2. disk' \in {FileOf(mem'), disk, TornFile}
    BY <1>35 DEF MarkApplied, SaveThen, Saved, SaveFailed
  <2>3. disk' \in File
    BY <2>1, <2>2
  <2>4. pc' \in {"markUpgrading", "error"}
    BY <1>35 DEF MarkApplied, SaveThen
  <2>5. /\ pkg' \in Package \cup {None}
        /\ requireDownload' \in BOOLEAN
        /\ target' \in InstallationSet \cup {None}
    BY <1>35 DEF MarkApplied, DropPackage
  <2> QED
    BY <1>35, <2>1, <2>3, <2>4, <2>5 DEF MarkApplied
<1>36. CASE MarkUpgrading
  <2>1. mem' \in Settings
    BY <1>36 DEF MarkUpgrading
  <2>2. disk' \in {FileOf(mem'), disk, TornFile}
    BY <1>36 DEF MarkUpgrading, SaveThen, Saved, SaveFailed
  <2>3. disk' \in File
    BY <2>1, <2>2
  <2>4. pc' \in {"swap", "error"}
    BY <1>36 DEF MarkUpgrading, SaveThen
  <2>5. /\ pkg' \in Package \cup {None}
        /\ requireDownload' \in BOOLEAN
        /\ target' \in InstallationSet \cup {None}
    BY <1>36 DEF MarkUpgrading, DropPackage
  <2> QED
    BY <1>36, <2>1, <2>3, <2>4, <2>5 DEF MarkUpgrading
<1>37. CASE SwapActive
  BY <1>37 DEF SwapActive, DropPackage
<1>38. CASE Reboot
  BY <1>38 DEF Reboot, RebootRequested, DropPackage
<1>39. CASE Error
  BY <1>39 DEF Error
<1>40. CASE UNCHANGED vars
  BY <1>40 DEF vars
<1> QED
  BY <1>1, <1>2, <1>3, <1>4, <1>5, <1>6, <1>7, <1>8, <1>9, <1>10,
     <1>11, <1>12, <1>13, <1>14, <1>15, <1>16, <1>17, <1>18, <1>19,
     <1>20, <1>21, <1>22, <1>23, <1>24, <1>25, <1>26, <1>27, <1>28,
     <1>29, <1>30, <1>31, <1>32, <1>33, <1>34, <1>35, <1>36, <1>37,
     <1>38, <1>39, <1>40
  DEF Next, DeviceStep, StartupStep, OfferStep, InstallStep

\* A device that starts has no upgrade pending, or only a v1 system's own.
LEMMA InitInv == Init /\ FaultAssumption => IndInv
<1> SUFFICES ASSUME Init PROVE IndInv
  OBVIOUS
<1> QED
  BY InitType, LoadSaved
  DEF Init, IndInv, TrialIsRemembered, MemoryCoversTrial, TargetIsNotGood,
      StartupInOrder, HooksFailSafely, V1Pending, Load, AbsentFile, None,
      DefaultSettings, Startup, MachineStarted, Installing, InstallationSet

\* Whatever the device, its startup, the server or an install does next, the
\* invariant stays.
LEMMA StepInv == IndInv /\ FaultAssumption /\ [Next]_vars => IndInv'
<1> SUFFICES ASSUME IndInv, FaultAssumption, [Next]_vars PROVE IndInv'
  OBVIOUS
<1>t. TypeOK' /\ InHand'
  BY StepType DEF IndInv
<1> USE <1>t DEF IndInv, TypeOK, InHand, TrialIsRemembered,
        MemoryCoversTrial, TargetIsNotGood, StartupInOrder, HooksFailSafely,
        FaultAssumption, MachineStarted, Startup, Installing, Preemptive,
        carried, deviceVars, agentVars
<1>1. CASE Boot
  BY <1>1, LoadAfterLoad DEF Boot, BootSet
<1>2. CASE BootV1System
  BY <1>2, LoadAfterLoad DEF BootV1System, BootSet
<1>3. CASE V1AgentRuns
  BY <1>3 DEF V1AgentRuns, vars
<1>4. CASE Shutdown
  BY <1>4 DEF Shutdown, GoDown, DropPackage
<1>5. CASE PowerLoss
  BY <1>5 DEF PowerLoss, GoDown, DropPackage
<1>6. CASE AgentRestart
  BY <1>6, LoadAfterLoad DEF AgentRestart, DropPackage
<1>7. CASE StartupIdle
  BY <1>7, SetIsNotNone DEF StartupIdle
<1>8. CASE StartupJudge
  BY <1>8, SetIsNotNone DEF StartupJudge
<1>9. CASE StartupRolledBack
  BY <1>9 DEF StartupRolledBack
<1>10. CASE StartupHookFails
  BY <1>10 DEF StartupHookFails
<1>11. CASE Confirm
  BY <1>11 DEF Confirm
<1>12. CASE Reset
  <2>1. mem' \in Settings /\ mem'.upgradeTo = None
    BY <1>12, SetterTypes DEF Reset
  <2>2. disk' \in {FileOf(mem'), disk}
    BY <1>12 DEF Reset, SaveThen, Saved, SaveFailed, May
  <2>3. May("startupHookFails") => disk' = FileOf(mem')
    BY <1>12 DEF Reset, SaveThen, Saved, SaveFailed
  <2>4. /\ pc = "reset" /\ pc' = "entryPoint" /\ active = good
        /\ UNCHANGED <<v1File, pkg, requireDownload, target, active,
                      running, good, content, rebooting, early>>
    BY <1>12 DEF Reset, SaveThen
  <2> QED
    BY <2>1, <2>2, <2>3, <2>4, LoadSaved, SetIsNotNone
<1>13. CASE RollbackSwap
  BY <1>13, InactiveIsOther DEF RollbackSwap
<1>14. CASE RollbackCallback
  BY <1>14 DEF RollbackCallback
<1>15. CASE RestoreV1
  BY <1>15 DEF RestoreV1, SaveFailed
<1>16. CASE RollbackReboot
  BY <1>16 DEF RollbackReboot, RebootRequested
<1>17. CASE EntryPoint
  <2>1. mem' \in Settings /\ mem'.upgradeTo = mem.upgradeTo
    BY <1>17, SetterTypes DEF EntryPoint
  <2>2. disk' \in {FileOf(mem'), disk}
    BY <1>17 DEF EntryPoint, SaveThen, Saved, SaveFailed, May
  <2>3. /\ pc = "entryPoint"
        /\ pc' \in {"probe", "error", "poll", "park"}
        /\ UNCHANGED <<v1File, pkg, requireDownload, target, active,
                      running, good, content, rebooting, early>>
    BY <1>17 DEF EntryPoint, SaveThen
  <2> QED
    BY <2>1, <2>2, <2>3, LoadSaved
<1>18. CASE Poll
  BY <1>18 DEF Poll
<1>19. CASE ProbeNoUpdate
  BY <1>19, LoadSaved DEF ProbeNoUpdate, SaveThen, Saved, SaveFailed
<1>20. CASE ProbeUpdate
  BY <1>20, LoadSaved DEF ProbeUpdate, SaveThen, Saved, SaveFailed
<1>21. CASE ProbeUrlError
  BY <1>21 DEF ProbeUrlError
<1>22. CASE ApiProbe
  BY <1>22, LoadSaved DEF ApiProbe, Saved, SaveFailed, DropPackage
<1>23. CASE ApiLocalInstall
  BY <1>23 DEF ApiLocalInstall, DropPackage
<1>24. CASE ApiRemoteInstall
  BY <1>24 DEF ApiRemoteInstall, DropPackage
<1>25. CASE FetchPackage
  BY <1>25 DEF FetchPackage
<1>26. CASE PrepareLocalInstall
  BY <1>26 DEF PrepareLocalInstall
<1>27. CASE ValidationRejects
  BY <1>27 DEF ValidationRejects, DropPackage
<1>28. CASE ValidationSkips
  BY <1>28 DEF ValidationSkips, DropPackage
<1>29. CASE ValidationAccepts
  BY <1>29 DEF ValidationAccepts
<1>30. CASE Download
  BY <1>30 DEF Download, DropPackage
<1>31. CASE Install
  <2>1. GetInactiveInstallationSet(mem, active) \in InstallationSet \ {good}
    BY <1>31, TargetType, InactiveIsOther DEF Install
  <2> QED
    BY <1>31, <2>1 DEF Install, DropPackage
<1>32. CASE WriteObjects
  BY <1>32 DEF WriteObjects
<1>33. CASE ObjectsWritten
  BY <1>33 DEF ObjectsWritten
<1>34. CASE InstallFails
  BY <1>34 DEF InstallFails, DropPackage
<1>35. CASE MarkApplied
  <2>1. mem' \in Settings /\ mem'.upgradeTo = mem.upgradeTo
    BY <1>35, SetterTypes DEF MarkApplied
  <2>2. disk' \in {FileOf(mem'), disk}
    BY <1>35 DEF MarkApplied, SaveThen, Saved, SaveFailed, May
  <2>3. /\ pc = "markApplied"
        /\ \/ pc' = "error"
           \/ pc' = "markUpgrading" /\ UNCHANGED <<pkg, target>>
        /\ UNCHANGED <<v1File, active, running, good, content, rebooting, early>>
    BY <1>35 DEF MarkApplied, SaveThen
  <2>4. target \in InstallationSet \ {good} /\ pkg \in Package
    BY <2>3
  <2> QED
    BY <2>1, <2>2, <2>3, <2>4, LoadSaved
<1>36. CASE MarkUpgrading
  <2>0. target \in InstallationSet \ {good}
    BY <1>36 DEF MarkUpgrading
  <2>1. mem' \in Settings /\ mem'.upgradeTo = target
    <3>1. mem \in Settings /\ mem' = SetUpgradingTo(mem, target)
      BY <1>36 DEF MarkUpgrading
    <3> QED
      BY <3>1, <2>0, SetterTypes
  <2>2. /\ pc = "markUpgrading"
        /\ \/ pc' = "error" /\ disk' \in {FileOf(mem'), disk}
           \/ pc' = "swap" /\ disk' = FileOf(mem') /\ UNCHANGED <<pkg, target>>
        /\ UNCHANGED <<v1File, active, running, good, content, rebooting, early>>
    BY <1>36 DEF MarkUpgrading, SaveThen, Saved, SaveFailed, May
  <2> QED
    BY <2>0, <2>1, <2>2, LoadSaved, SetIsNotNone
<1>37. CASE SwapActive
  <2>1. /\ pc = "swap" /\ pc' \in {"reboot", "error"}
        /\ \/ active' = Inactive(active)
           \/ active' = active
        /\ UNCHANGED <<mem, disk, v1File, running, good, content, rebooting, early>>
    BY <1>37 DEF SwapActive
  <2> QED
    BY <2>1, InactiveIsOther, SetIsNotNone
<1>38. CASE Reboot
  BY <1>38 DEF Reboot, RebootRequested, DropPackage
<1>39. CASE Error
  BY <1>39 DEF Error
<1>40. CASE UNCHANGED vars
  BY <1>40 DEF vars
<1> QED
  BY <1>1, <1>2, <1>3, <1>4, <1>5, <1>6, <1>7, <1>8, <1>9, <1>10,
     <1>11, <1>12, <1>13, <1>14, <1>15, <1>16, <1>17, <1>18, <1>19,
     <1>20, <1>21, <1>22, <1>23, <1>24, <1>25, <1>26, <1>27, <1>28,
     <1>29, <1>30, <1>31, <1>32, <1>33, <1>34, <1>35, <1>36, <1>37,
     <1>38, <1>39, <1>40
  DEF Next, DeviceStep, StartupStep, OfferStep, InstallStep

(***************************************************************************)
(* The theorems.                                                           *)
(***************************************************************************)

\* Every variable keeps its type, whatever the faults.
THEOREM TypeCorrect == Spec => []TypeOK
<1>1. Init => TypeOK /\ InHand
  BY InitType
<1>2. TypeOK /\ InHand /\ [Next]_vars => TypeOK' /\ InHand'
  BY StepType
<1> QED
  BY <1>1, <1>2, PTL DEF Spec

\* The invariant the others rest on (UpdateCycle.tla says what it is made of).
THEOREM Invariance == ASSUME FaultAssumption PROVE Spec => []IndInv
<1>1. Init => IndInv
  BY InitInv
<1>2. IndInv /\ [Next]_vars => IndInv'
  BY StepInv
<1> QED
  BY <1>1, <1>2, PTL DEF Spec

\* A set without a verdict is never selected for booting unless the settings
\* file says that an upgrade is pending.
THEOREM Remembered ==
  ASSUME FaultAssumption PROVE Spec => []TrialIsRemembered
<1>1. IndInv => TrialIsRemembered
  BY DEF IndInv
<1> QED
  BY <1>1, Invariance, PTL

\* No install writes to the set of the last verdict.
THEOREM GoodSetKept == ASSUME FaultAssumption PROVE Spec => KnownGoodUntouched
<1> DEFINE Kept == \A s \in InstallationSet : content'[s] # content[s] => s # good
<1>1. IndInv /\ [Next]_vars => [Kept]_vars
  <2> SUFFICES ASSUME IndInv, [Next]_vars, content' # content PROVE Kept
    BY DEF vars, deviceVars
  <2>1. /\ pc = "writing"
        /\ \E c : content' = [content EXCEPT ![target] = c]
    BY DEF Next, DeviceStep, StartupStep, OfferStep, InstallStep, vars,
           agentVars, deviceVars, Boot, BootSet, BootV1System, V1AgentRuns,
           Shutdown, PowerLoss, GoDown, AgentRestart, StartupIdle,
           StartupJudge, StartupRolledBack, StartupHookFails, Confirm, Reset,
           RollbackSwap, RollbackCallback, RestoreV1, RollbackReboot,
           EntryPoint, Poll, ProbeNoUpdate, ProbeUpdate, ProbeUrlError,
           ApiProbe, ApiLocalInstall, ApiRemoteInstall, FetchPackage,
           PrepareLocalInstall, ValidationRejects, ValidationSkips,
           ValidationAccepts, Download, Install, WriteObjects,
           ObjectsWritten, InstallFails, MarkApplied, MarkUpgrading,
           SwapActive, Reboot, Error
  <2>2. target # good
    BY <2>1 DEF IndInv, TargetIsNotGood, Installing
  <2> QED
    BY <2>1, <2>2 DEF IndInv, TypeOK
<1> QED
  BY <1>1, Invariance, PTL DEF Spec, KnownGoodUntouched

(***************************************************************************)
(* The agent keeps the promise of ABUpdate.tla.  Most steps leave the sets *)
(* and the boot selection alone, and what they do to the settings file is  *)
(* then allowed because TrialIsRemembered still holds after them.          *)
(***************************************************************************)

\* A step that leaves the sets and the boot selection alone is one of the
\* promise's, or none of it.
LEMMA QuietStep ==
  ASSUME TrialIsRemembered', UNCHANGED <<active, good, content>>
  PROVE  [AB!Next]_AB!vars
<1>1. CASE (Load(disk).upgradeTo # None)' = TRUE
  BY <1>1 DEF AB!Next, AB!Announce
<1>2. CASE (Load(disk).upgradeTo # None)' = FALSE
  BY <1>2 DEF AB!Next, AB!Forget, TrialIsRemembered
<1> QED
  BY <1>1, <1>2

\* Another set becomes active only at power on, when the firmware falls back.
LEMMA BootStep ==
  ASSUME IndInv, BootSet, Load(disk').upgradeTo = Load(disk).upgradeTo,
         UNCHANGED <<good, content>>
  PROVE  [AB!Next]_AB!vars
<1>1. CASE active' = active
  BY <1>1 DEF AB!vars
<1>2. CASE active' = good /\ active # good
  BY <1>2 DEF AB!Next, AB!FallBack
<1> QED
  BY <1>1, <1>2 DEF BootSet

\* Every step of the agent maps to a step of the promise or to a stutter.
LEMMA PromiseStep ==
  ASSUME IndInv, IndInv', [Next]_vars
  PROVE  [AB!Next]_AB!vars
<1>q. ASSUME UNCHANGED <<active, good, content>> PROVE [AB!Next]_AB!vars
  BY <1>q, QuietStep DEF IndInv
<1>1. CASE Boot \/ BootV1System
  <2>1. Load(disk').upgradeTo = Load(disk).upgradeTo
    BY <1>1, LoadAfterLoad DEF Boot, BootV1System, IndInv, TypeOK
  <2> QED
    BY <1>1, <2>1, BootStep DEF Boot, BootV1System
<1>2. CASE Confirm
  <2>1. Load(disk).upgradeTo # None
    BY <1>2 DEF Confirm, IndInv, StartupInOrder, Startup
  <2> QED
    BY <1>2, <2>1 DEF Confirm, deviceVars, AB!Next, AB!Accept
<1>3. CASE RollbackSwap
  <2>1. Load(disk).upgradeTo # None
    BY <1>3 DEF RollbackSwap, IndInv, StartupInOrder, Startup
  <2> QED
    BY <1>3, <2>1 DEF RollbackSwap, AB!Next, AB!Reject, AB!Inactive, Inactive
<1>4. CASE WriteObjects \/ ObjectsWritten
  <2>1. /\ pc = "writing"
        /\ UNCHANGED <<disk, active, good>>
        /\ \E c \in Contents : content' = [content EXCEPT ![target] = c]
    BY <1>4 DEF WriteObjects, ObjectsWritten, agentVars, IndInv, InHand,
                Installing, Contents
  <2>2. target \in InstallationSet \ {good}
    BY <2>1 DEF IndInv, InHand, TargetIsNotGood, Installing
  <2> QED
    BY <2>1, <2>2 DEF AB!Next, AB!Write, AB!InstallationSet, InstallationSet
<1>5. CASE SwapActive
  <2>1. CASE active' = active
    BY <1>5, <1>q, <2>1 DEF SwapActive
  <2>2. CASE active' # active
    <3>1. Load(disk).upgradeTo # None
      BY <1>5, SetIsNotNone DEF SwapActive, IndInv, InHand, TargetIsNotGood,
                                Installing
    <3> QED
      BY <1>5, <2>2, <3>1 DEF SwapActive, AB!Next, AB!Select, AB!Inactive,
                              Inactive
  <2> QED
    BY <2>1, <2>2
<1>6. CASE V1AgentRuns \/ UNCHANGED vars
  BY <1>6, <1>q DEF V1AgentRuns, vars, deviceVars
<1>7. CASE Shutdown \/ PowerLoss \/ AgentRestart
  BY <1>7, <1>q DEF Shutdown, PowerLoss, GoDown, AgentRestart, deviceVars
<1>8. CASE \/ StartupIdle \/ StartupJudge \/ StartupRolledBack
           \/ StartupHookFails \/ Reset \/ RollbackCallback \/ RestoreV1
           \/ RollbackReboot
  BY <1>8, <1>q DEF StartupIdle, StartupJudge, StartupRolledBack,
     StartupHookFails, Reset, RollbackCallback, RestoreV1, RollbackReboot,
     deviceVars
<1>9. CASE OfferStep
  BY <1>9, <1>q DEF OfferStep, EntryPoint, Poll, ProbeNoUpdate, ProbeUpdate,
     ProbeUrlError, ApiProbe, ApiLocalInstall, ApiRemoteInstall, deviceVars
<1>10. CASE \/ FetchPackage \/ PrepareLocalInstall \/ ValidationRejects
            \/ ValidationSkips \/ ValidationAccepts \/ Download \/ Install
            \/ InstallFails \/ MarkApplied \/ MarkUpgrading \/ Reboot \/ Error
  BY <1>10, <1>q DEF FetchPackage, PrepareLocalInstall, ValidationRejects,
     ValidationSkips, ValidationAccepts, Download, Install, InstallFails,
     MarkApplied, MarkUpgrading, Reboot, Error, deviceVars
<1> QED
  BY <1>1, <1>2, <1>3, <1>4, <1>5, <1>6, <1>7, <1>8, <1>9, <1>10
  DEF Next, DeviceStep, StartupStep, InstallStep

\* UpdateCycle implements ABUpdate: with any faults FaultAssumption admits,
\* the sets, the boot selection and the record of a pending upgrade change
\* only in the order the abstract specification allows.
THEOREM PromiseKept == ASSUME FaultAssumption PROVE Spec => Promise
<1>1. Init => AB!Init
  <2> SUFFICES ASSUME Init PROVE AB!Init
    OBVIOUS
  <2>1. TypeOK /\ TrialIsRemembered
    BY InitType, InitInv DEF IndInv
  <2> QED
    BY <2>1 DEF AB!Init, TypeOK, TrialIsRemembered, AB!InstallationSet,
                InstallationSet
<1>2. IndInv /\ IndInv' /\ [Next]_vars => [AB!Next]_AB!vars
  BY PromiseStep
<1> QED
  BY <1>1, <1>2, Invariance, PTL DEF Spec, Promise, AB!Spec

(***************************************************************************)
(* What holds as long as every save goes through and the device goes down  *)
(* when it is asked to: no machine then runs while a set is on trial.      *)
(***************************************************************************)
SteadyAssumption ==
  /\ FaultAssumption
  /\ \A f \in {"saveFails", "rebootRefused", "slowReboot", "startupHookFails"} : ~May(f)

SteadyInv ==
  /\ NextBootIsWhole
  /\ InstalledSetIsNext
  /\ pc \in MachineStarted \ {"reboot"} => active = good
  /\ pc \in MachineStarted => Load(disk).upgradeTo # good
  /\ pc \in {"markApplied", "markUpgrading", "swap"} => content[target] # "partial"
  /\ Load(disk).upgradeTo = good => content[Inactive(good)] # "partial"

\* There are two sets.
LEMMA TwoSets ==
  /\ \A s, t \in InstallationSet : s # t => Inactive(s) = t
  /\ \A s \in InstallationSet : Inactive(s) \in InstallationSet \ {s}
BY DEF InstallationSet, Inactive

\* The device starts with whole sets.
LEMMA InitSteady == Init => SteadyInv
<1> SUFFICES ASSUME Init PROVE SteadyInv
  OBVIOUS
<1>1. \A s \in InstallationSet : content[s] # "partial"
  BY ContentAssumption DEF Init
<1> QED BY <1>1, TwoSets DEF Init, SteadyInv, NextBootIsWhole, InstalledSetIsNext,
           MachineStarted, Startup, InstallationSet

\* Power on and off: what the file holds and the sets do not change.
LEMMA DeviceSteady ==
  ASSUME IndInv, SteadyInv, SteadyAssumption, DeviceStep
  PROVE  SteadyInv'
<1> USE DEF SteadyAssumption, FaultAssumption, IndInv, SteadyInv, NextBootIsWhole,
        InstalledSetIsNext, MachineStarted, Startup, deviceVars
<1>1. CASE Boot \/ BootV1System
  <2>1. /\ Load(disk').upgradeTo = Load(disk).upgradeTo
        /\ active' \in {active, good}
        /\ pc' \in {"startup", "v1Agent"}
        /\ UNCHANGED <<good, content>>
    BY <1>1, LoadAfterLoad DEF Boot, BootV1System, BootSet, TypeOK
  <2> QED BY <2>1
<1>2. CASE V1AgentRuns
  BY <1>2 DEF V1AgentRuns, vars, agentVars
<1>3. CASE Shutdown \/ PowerLoss
  <2>1. pc' = "off" /\ UNCHANGED <<disk, active, good, content>>
    BY <1>3 DEF Shutdown, PowerLoss, GoDown
  <2> QED BY <2>1
<1>4. CASE AgentRestart
  <2>1. /\ Load(disk').upgradeTo = Load(disk).upgradeTo
        /\ pc' = "startup"
        /\ UNCHANGED <<active, good, content>>
    BY <1>4, LoadAfterLoad DEF AgentRestart, TypeOK
  <2> QED BY <2>1
<1> QED BY <1>1, <1>2, <1>3, <1>4 DEF DeviceStep

\* The verdict: a set that is confirmed leaves a whole one beside it, to which
\* the boots before the record is cleared may still go back.
LEMMA StartupSteady ==
  ASSUME IndInv, SteadyInv, SteadyAssumption, StartupStep
  PROVE  SteadyInv'
<1> USE DEF SteadyAssumption, FaultAssumption, IndInv, SteadyInv, NextBootIsWhole,
        InstalledSetIsNext, MachineStarted, Startup, carried, deviceVars, StartupInOrder,
        MemoryCoversTrial, TypeOK, Control
<1>1. CASE StartupIdle
  BY <1>1, SetIsNotNone DEF StartupIdle
<1>2. CASE StartupJudge \/ StartupRolledBack
  BY <1>2 DEF StartupJudge, StartupRolledBack
<1>3. CASE StartupHookFails
  BY <1>3 DEF StartupHookFails
<1>4. CASE Confirm
  <2>1. /\ pc' = "reset" /\ good' = active
        /\ UNCHANGED <<disk, active, content>>
    BY <1>4 DEF Confirm
  <2>2. Load(disk).upgradeTo = active => content[Inactive(active)] # "partial"
    BY TwoSets
  <2> QED BY <2>1, <2>2
<1>5. CASE Reset
  <2>1. mem' \in Settings /\ mem'.upgradeTo = None
    BY <1>5, SetterTypes DEF Reset
  <2>2. disk' = FileOf(mem') /\ active = good /\ pc' = "entryPoint"
        /\ UNCHANGED <<active, good, content>>
    BY <1>5 DEF Reset, SaveThen, Saved, SaveFailed
  <2> QED BY <2>1, <2>2, LoadSaved, SetIsNotNone
<1>6. CASE RollbackSwap
  <2>1. /\ active' = Inactive(active) /\ good' = active'
        /\ pc' = "rollbackCallback"
        /\ UNCHANGED <<disk, content>>
    BY <1>6 DEF RollbackSwap
  <2>2. Load(disk).upgradeTo = active
    BY <1>6 DEF RollbackSwap
  <2>3. content[Inactive(active)] # "partial" /\ Inactive(active) # active
    BY <2>2, TwoSets
  <2> QED BY <2>1, <2>2, <2>3
<1>7. CASE RollbackCallback
  BY <1>7 DEF RollbackCallback
<1>8. CASE RestoreV1
  <2>1. /\ pc = "restoreV1" /\ pc' = "rollbackReboot"
        /\ disk' = disk \/ (v1File # AbsentFile /\ disk' = v1File)
        /\ UNCHANGED <<active, good, content>>
    BY <1>8 DEF RestoreV1, SaveFailed
  <2>2. Load(disk').upgradeTo = Load(disk).upgradeTo
    BY <2>1
  <2> QED BY <2>1, <2>2
<1>9. CASE RollbackReboot
  BY <1>9 DEF RollbackReboot, RebootRequested
<1> QED BY <1>1, <1>2, <1>3, <1>4, <1>5, <1>6, <1>7, <1>8, <1>9 DEF StartupStep

\* Until a package is written the sets and the set on record stay.
LEMMA OfferSteady ==
  ASSUME IndInv, SteadyInv, SteadyAssumption, OfferStep
  PROVE  SteadyInv'
<1> USE DEF SteadyAssumption, FaultAssumption, IndInv, TargetIsNotGood, MachineStarted,
        Startup, Preemptive, carried, deviceVars, TypeOK
<1>1. /\ pc \in Preemptive
      /\ pc' \in Preemptive \cup {"error", "prepareLocalInstall", "directDownload"}
      /\ UNCHANGED <<active, good, content>>
      /\ disk' = disk \/ disk' = FileOf(mem')
      /\ mem'.upgradeTo = mem.upgradeTo
  <2>1. CASE EntryPoint
    BY <2>1, SetterTypes DEF EntryPoint, SaveThen, Saved, SaveFailed
  <2>2. CASE ProbeNoUpdate \/ ProbeUpdate
    BY <2>2 DEF ProbeNoUpdate, ProbeUpdate, SaveThen, Saved, SaveFailed
  <2>3. CASE ApiProbe
    BY <2>3 DEF ApiProbe, Saved, SaveFailed
  <2>4. CASE Poll \/ ProbeUrlError \/ ApiLocalInstall \/ ApiRemoteInstall
    BY <2>4 DEF Poll, ProbeUrlError, ApiLocalInstall, ApiRemoteInstall
  <2> QED BY <2>1, <2>2, <2>3, <2>4 DEF OfferStep
<1>2. Load(disk').upgradeTo # good' /\ active' = good'
  BY <1>1, LoadSaved DEF SteadyInv
<1> QED BY <1>1, <1>2 DEF SteadyInv, NextBootIsWhole, InstalledSetIsNext

\* An install writes to the set that is neither booted next nor good, and the
\* swap selects that one, whole.
LEMMA InstallSteady ==
  ASSUME IndInv, SteadyInv, SteadyAssumption, InstallStep
  PROVE  SteadyInv'
<1> USE DEF SteadyAssumption, FaultAssumption, IndInv, InHand, TargetIsNotGood,
        SteadyInv, NextBootIsWhole, InstalledSetIsNext, MachineStarted, Startup,
        Installing, carried, deviceVars, agentVars, TypeOK
<1>1. CASE \/ FetchPackage \/ PrepareLocalInstall \/ ValidationRejects
           \/ ValidationSkips \/ ValidationAccepts \/ Download \/ Install
           \/ InstallFails \/ Error
  <2>1. /\ pc \in MachineStarted \ {"reboot"}
        /\ pc' \in MachineStarted \ {"reboot", "markApplied", "markUpgrading", "swap"}
        /\ UNCHANGED <<disk, active, good, content>>
    BY <1>1 DEF FetchPackage, PrepareLocalInstall, ValidationRejects, ValidationSkips,
       ValidationAccepts, Download, Install, InstallFails, Error, Control, Preemptive
  <2> QED BY <2>1
<1>2. CASE WriteObjects \/ ObjectsWritten
  <2>1. /\ pc = "writing" /\ target # good /\ active = good
        /\ UNCHANGED <<disk, active, good, target>>
        /\ \A s \in InstallationSet : s # target => content'[s] = content[s]
        /\ pc' = "writing" \/ (pc' = "markApplied" /\ content'[target] = pkg)
    BY <1>2 DEF WriteObjects, ObjectsWritten
  <2>2. pkg # "partial"
    BY <2>1, ContentAssumption
  <2> QED BY <2>1, <2>2
<1>3. CASE MarkApplied
  <2>1. mem'.upgradeTo = mem.upgradeTo
    BY <1>3, SetterTypes DEF MarkApplied
  <2>2. /\ pc = "markApplied" /\ pc' = "markUpgrading" /\ disk' = FileOf(mem')
        /\ UNCHANGED <<target, active, good, content>>
    BY <1>3 DEF MarkApplied, SaveThen, Saved, SaveFailed
  <2> QED BY <2>1, <2>2, LoadSaved
<1>4. CASE MarkUpgrading
  <2>1. mem'.upgradeTo = target
    BY <1>4, SetterTypes DEF MarkUpgrading
  <2>2. /\ pc = "markUpgrading" /\ pc' = "swap" /\ disk' = FileOf(mem')
        /\ UNCHANGED <<target, active, good, content>>
    BY <1>4 DEF MarkUpgrading, SaveThen, Saved, SaveFailed
  <2> QED BY <2>1, <2>2, LoadSaved
<1>5. CASE SwapActive
  <2>1. Inactive(active) = target
    BY <1>5, TwoSets DEF SwapActive
  <2> QED BY <1>5, <2>1 DEF SwapActive
<1>6. CASE Reboot
  <2>1. pc' = "down" /\ UNCHANGED <<disk, active, good, content>>
    BY <1>6 DEF Reboot, RebootRequested
  <2> QED BY <2>1
<1> QED BY <1>1, <1>2, <1>3, <1>4, <1>5, <1>6 DEF InstallStep

\* As long as saves go through and reboots happen, whatever power losses,
\* restarts, failing installers, swaps and rollback callbacks come between.
LEMMA Steadiness == ASSUME SteadyAssumption PROVE Spec => []SteadyInv
<1>1. IndInv /\ SteadyInv /\ [Next]_vars => SteadyInv'
  <2>1. ASSUME SteadyInv, UNCHANGED vars PROVE SteadyInv'
    BY <2>1 DEF vars, agentVars, deviceVars, SteadyInv, NextBootIsWhole,
       InstalledSetIsNext
  <2> QED BY <2>1, DeviceSteady, StartupSteady, OfferSteady, InstallSteady DEF Next
<1>2. FaultAssumption
  BY DEF SteadyAssumption
<1> QED BY <1>1, <1>2, InitSteady, Invariance, PTL DEF Spec

\* The device never boots a half-written set, and never falls back on one: an
\* install that is cut short has written to neither (Install::handle).
THEOREM BootsWhole == ASSUME SteadyAssumption PROVE Spec => []NextBootIsWhole
<1>1. SteadyInv => NextBootIsWhole
  BY DEF SteadyInv
<1> QED BY <1>1, Steadiness, PTL

\* The swap selects the set that was written, although it only toggles
\* (installation_set::swap_active).
THEOREM SwapsToTarget == ASSUME SteadyAssumption PROVE Spec => []InstalledSetIsNext
<1>1. SteadyInv => InstalledSetIsNext
  BY DEF SteadyInv
<1> QED BY <1>1, Steadiness, PTL

\* Only the system that runs is confirmed, under every fault but one: an agent
\* that is started again between a swap and the boot, and no other, confirms a
\* system that was not booted (handle_startup_callbacks).
THEOREM ConfirmsItself == Spec => ConfirmedHasBooted
<1> DEFINE Judging == pc \in {"startup", "confirm", "rollbackSwap"} =>
                        active = running \/ early
<1>1. Init => Judging
  BY DEF Init
<1>2. Judging /\ [Next]_vars => Judging'
  <2> SUFFICES ASSUME Judging, [Next]_vars PROVE Judging'
    OBVIOUS
  <2> USE DEF carried, deviceVars, agentVars
  <2>1. CASE DeviceStep
    BY <2>1 DEF DeviceStep, Boot, BootSet, BootV1System, V1AgentRuns, vars, Shutdown,
       PowerLoss, GoDown, AgentRestart
  <2>2. CASE StartupStep
    BY <2>2 DEF StartupStep, StartupIdle, StartupJudge, StartupRolledBack,
       StartupHookFails, Confirm, Reset, SaveThen, RollbackSwap, RollbackCallback,
       RestoreV1, RollbackReboot, RebootRequested
  <2>3. CASE OfferStep
    BY <2>3 DEF OfferStep, EntryPoint, Poll, ProbeNoUpdate, ProbeUpdate, ProbeUrlError,
       ApiProbe, ApiLocalInstall, ApiRemoteInstall, SaveThen, Preemptive
  <2>4. CASE InstallStep
    BY <2>4 DEF InstallStep, FetchPackage, PrepareLocalInstall, ValidationRejects,
       ValidationSkips, ValidationAccepts, Download, Install, WriteObjects,
       ObjectsWritten, InstallFails, MarkApplied, MarkUpgrading, SaveThen, SwapActive,
       Reboot, RebootRequested, Error
  <2>5. CASE UNCHANGED vars
    BY <2>5 DEF vars
  <2> QED BY <2>1, <2>2, <2>3, <2>4, <2>5 DEF Next
<1>3. Judging => [Confirm => active = running \/ early]_vars
  BY DEF Confirm
<1> QED BY <1>1, <1>2, <1>3, PTL DEF Spec, ConfirmedHasBooted

-----------------------------------------------------------------------------
(***************************************************************************)
(* The order of the states.                                                *)
(***************************************************************************)
LEMMA OrderStep == [Next]_vars => [Order!Next]_Stage
<1> SUFFICES ASSUME [Next]_vars PROVE Order!Next \/ Stage' = Stage
  OBVIOUS
<1>1. CASE DeviceStep
  <2>1. pc' \in {"startup", "v1Agent", "off"} \/ pc' = pc
    BY <1>1 DEF DeviceStep, Boot, BootV1System, V1AgentRuns, Shutdown, PowerLoss, AgentRestart,
                GoDown, vars, agentVars
  <2>2. CASE pc' \in {"startup", "v1Agent", "off"}
    <3>1. Stage' = "down"
      BY <2>2 DEF Stage, Startup, Installing
    <3> QED BY <3>1 DEF Order!Next, Order!Stop, Order!Down
  <2>3. CASE pc' = pc
    BY <2>3 DEF Stage
  <2> QED BY <2>1, <2>2, <2>3
<1>2. CASE StartupStep
  <2>1. pc \in Startup /\ pc' \in Startup \cup {"down", "entryPoint"}
    BY <1>2 DEF StartupStep, StartupIdle, StartupJudge, StartupRolledBack, StartupHookFails,
                Confirm, Reset, SaveThen, RollbackSwap, RollbackCallback, RestoreV1,
                RollbackReboot, RebootRequested, Startup
  <2>2. Stage = "down" /\ Stage' \in {"down", "entryPoint"}
    BY <2>1 DEF Stage, Startup, Installing
  <2> QED BY <2>2 DEF Order!Next, Order!Start, Order!Down
<1> USE DEF Order!Next, Order!Move, Order!Leads
<1>3. CASE EntryPoint \/ Poll \/ ProbeNoUpdate \/ ProbeUpdate \/ ProbeUrlError
  <2>1. \/ pc = "entryPoint" /\ pc' \in {"probe", "error", "poll", "park"}
        \/ pc = "poll" /\ pc' = "probe"
        \/ pc = "probe" /\ pc' \in {"entryPoint", "validation", "error"}
    BY <1>3 DEF EntryPoint, Poll, ProbeNoUpdate, ProbeUpdate, ProbeUrlError, SaveThen
  <2> QED BY <2>1 DEF Stage, Startup, Installing
<1>4. CASE ApiProbe \/ ApiLocalInstall \/ ApiRemoteInstall
  <2>1. /\ pc \in Preemptive
        /\ \/ pc' \in {"entryPoint", "validation", "prepareLocalInstall", "directDownload"}
           \/ pc' = pc
    BY <1>4 DEF ApiProbe, ApiLocalInstall, ApiRemoteInstall
  <2>2. \/ Stage' = Stage
        \/ /\ Stage \in Preemptive
           /\ Stage' \in {"entryPoint", "validation", "prepareLocalInstall", "directDownload"}
    BY <2>1 DEF Stage, Startup, Installing, Preemptive
  <2> QED BY <2>2 DEF Order!Request, Order!Preemptive, Preemptive
<1>5. CASE \/ FetchPackage \/ PrepareLocalInstall \/ ValidationRejects \/ ValidationSkips
           \/ ValidationAccepts \/ Download
  <2>1. \/ pc = "directDownload" /\ pc' \in {"prepareLocalInstall", "error", "entryPoint"}
        \/ pc = "prepareLocalInstall" /\ pc' \in {"validation", "error", "entryPoint"}
        \/ pc = "validation" /\ pc' \in {"download", "install", "error", "entryPoint"}
        \/ pc = "download" /\ pc' \in {"validation", "error", "entryPoint"}
    BY <1>5 DEF FetchPackage, PrepareLocalInstall, ValidationRejects, ValidationSkips,
                ValidationAccepts, Download
  <2> QED BY <2>1 DEF Stage, Startup, Installing
<1>6. CASE \/ Install \/ WriteObjects \/ ObjectsWritten \/ InstallFails \/ MarkApplied
           \/ MarkUpgrading \/ SwapActive
  <2>1. /\ pc \in Installing \cup {"install"}
        /\ pc' \in Installing \cup {"reboot", "error", "entryPoint"}
    BY <1>6 DEF Install, WriteObjects, ObjectsWritten, InstallFails, MarkApplied, MarkUpgrading,
                SwapActive, SaveThen, agentVars, Installing
  <2>2. Stage = "install" /\ Stage' \in {"install", "reboot", "error", "entryPoint"}
    BY <2>1 DEF Stage, Startup, Installing
  <2> QED BY <2>2
<1>7. CASE Reboot \/ Error
  <2>1. \/ pc = "reboot" /\ pc' \in {"down", "entryPoint", "error"}
        \/ pc = "error" /\ pc' = "entryPoint"
    BY <1>7 DEF Reboot, Error, RebootRequested
  <2> QED BY <2>1 DEF Stage, Startup, Installing, Order!Stop, Order!Down
<1>8. CASE UNCHANGED vars
  BY <1>8 DEF vars, agentVars, Stage
<1> QED BY <1>1, <1>2, <1>3, <1>4, <1>5, <1>6, <1>7, <1>8 DEF Next, OfferStep, InstallStep

\* The states come in the order of the abstract machine, whatever goes wrong:
\* under no fault does an agent get to write a set, or to select one, but by way
\* of a validation.
THEOREM StatesInOrder == Spec => InOrder
<1>1. Init => Order!Init
  BY DEF Init, Stage, Startup, Installing, Order!Init, Order!Down
<1> QED BY <1>1, OrderStep, PTL DEF Spec, InOrder, Order!Spec
=============================================================================
