--------------------------- MODULE RuntimeSettings ---------------------------
(***************************************************************************)
(* The part of the agent's runtime settings that decides where the next    *)
(* update is written and whether a boot is a trial boot: the installation  *)
(* set being upgraded to, the package already applied, and the request to  *)
(* probe at once.  The record exists twice, in memory and in the settings  *)
(* file; every setter changes the memory first and then saves the whole    *)
(* record.  Setters are pure here: UpdateCycle.tla says when they run and  *)
(* whether the save that follows succeeds.                                 *)
(***************************************************************************)
EXTENDS Naturals

CONSTANT Package            \* the update packages a server or user can offer

None == "none"              \* Option::None, for a set as well as a package

ASSUME PackageAssumption == None \notin Package

(***************************************************************************)
(* Installation sets.                                                      *)
(***************************************************************************)
InstallationSet == {"A", "B"}

\* The set updatehub-active-get does not name.
Inactive(active) == IF active = "A" THEN "B" ELSE "A"

(***************************************************************************)
(* The record, in memory and on disk.                                      *)
(***************************************************************************)
Settings == [upgradeTo : InstallationSet \cup {None},
             applied   : Package \cup {None},
             now       : BOOLEAN]

DefaultSettings == [upgradeTo |-> None, applied |-> None, now |-> FALSE]

\* What the file holds: nothing, a v1 (INI) or v2 (JSON) record, or the
\* remains of a write that did not complete.
File == [fmt : {"absent", "v1", "v2", "torn"}, rec : Settings]

AbsentFile == [fmt |-> "absent", rec |-> DefaultSettings]
TornFile   == [fmt |-> "torn",   rec |-> DefaultSettings]
FileOf(m)  == [fmt |-> "v2", rec |-> m]

\* An absent file and one that does not parse both load as the defaults.
Load(file) ==
  IF file.fmt \in {"v1", "v2"} THEN file.rec ELSE DefaultSettings

\* A file that does not parse is renamed out of the way.
AfterLoad(file) == IF file.fmt = "torn" THEN AbsentFile ELSE file

(***************************************************************************)
(* Setters and getters.                                                    *)
(***************************************************************************)
SetAppliedPackageUid(m, p) == [m EXCEPT !.applied = p]

SetUpgradingTo(m, s) == [m EXCEPT !.upgradeTo = s]

DisableForcePoll(m) == [m EXCEPT !.now = FALSE]

ResetInstallationSettings(m) ==
  [m EXCEPT !.upgradeTo = None, !.applied = None, !.now = TRUE]

\* Slips: the pending upgrade is overlooked; active and inactive mixed up.
GetInactiveOverlooksPending(m, active) == Inactive(active)
GetInactiveReturnsActive(m, active) ==
  IF m.upgradeTo # None THEN m.upgradeTo ELSE active

\* Where the next update is written: the set of a pending upgrade if there
\* is one, the inactive set otherwise.
GetInactiveInstallationSet(m, active) ==
  IF m.upgradeTo # None THEN m.upgradeTo ELSE Inactive(active)
=============================================================================
