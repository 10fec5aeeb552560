------------------------------ MODULE Installation ------------------------------
(***************************************************************************)
(* The installation of a package: each of its objects, the longest first,  *)
(* goes through the handler of its kind to its place on a device.          *)
(*                                                                         *)
(* What is on the devices outlives the attempt.  An attempt may stop       *)
(* anywhere, in the middle of a write too, and the next one takes every    *)
(* object again, but for those it finds installed (install-if-different).  *)
(* A device is written as blocks, or through a filesystem the handler      *)
(* mounts; an agent that is killed leaves its mount behind.                *)
(***************************************************************************)
EXTENDS Integers, Sequences, BlockDevices

CONSTANTS
  Content,      \* contents, by their sha256sum
  Size,         \* length of each, in chunks
  Version,      \* what a known or custom pattern finds at its start
  Inflated,     \* what it holds, if it is compressed
  Device,
  Storage,      \* how they are related, as sysfs has it
  Blocks,       \* the blocks each of them stands for
  Capacity,     \* its size, or what is free there, in chunks
  Place,        \* regions of devices and files on them, that do not overlap
  On,           \* the device of each
  Room,         \* the chunks of a region, from seek to its end; 0 for a file
  Package,
  List          \* the objects of a package

\* Count::All.
All == -1

Kind == {"raw", "raw-delta", "flash", "imxkobs", "ubifs", "copy", "tarball"}

\* Handlers that write through a filesystem, that first empty the device, and
\* that look at install_if_different.
Mounting == {"copy", "tarball"}
Erasing  == {"flash", "imxkobs", "ubifs"}
Checking == {"raw", "flash", "imxkobs", "copy"}

\* rule: install_if_different; mode: TargetPermissions, "keep" if none is given.
Entry == [kind : Kind, content : Content, place : Place, skip : Nat, count : Int,
          format : BOOLEAN, rule : {"none", "checksum", "pattern"},
          compressed : BOOLEAN, mode : {"keep", "given"}]

\* What the handler takes out of the object's file, and how much of it.
Source(e) == IF e.compressed THEN Inflated[e.content] ELSE e.content
Start(e)  == e.skip
Count(e)  ==
  IF e.count = All \/ Start(e) + e.count > Size[Source(e)]
  THEN Size[Source(e)] - Start(e) ELSE e.count

ASSUME InstallationAssumption ==
  /\ Size \in [Content -> Nat \ {0}]
  /\ Inflated \in [Content -> Content]
  /\ IsFiniteSet(Device)
  /\ Storage \in Topologies(Device)
  /\ DOMAIN Blocks = Device
  /\ Capacity \in [Device -> Nat]
  /\ On \in [Place -> Device]
  /\ Room \in [Place -> Nat]
  /\ \A p \in Package : List[p] \in Seq(Entry)
  /\ \A p \in Package : \A i \in DOMAIN List[p] :
       LET e == List[p][i]
       IN /\ e.skip < Size[e.content] /\ e.count >= All
          /\ e.kind # "raw" \/ e.compressed => e.skip = 0 /\ e.count = All
          /\ e.kind \in Mounting <=> Room[e.place] = 0
          /\ e.kind \notin Mounting => ~ e.format

VARIABLES
  pc,       \* how far the handler has come
  pkg,      \* the package being installed
  left,     \* its objects still to install, by index
  cur,      \* the one the handler is at
  at,       \* the chunks of it that are written
  fill,     \* what each place holds
  mode,     \* the mode of each file
  fs,       \* the devices that hold a filesystem
  mounted,  \* those the system has mounted
  stale     \* those an agent that was killed had mounted

target == <<fill, mode, fs>>
mounts == <<mounted, stale>>
vars == <<pc, pkg, left, cur, at, target, mounts>>

Blank == <<>>
Chunk == {Blank} \cup (Content \X (Nat \ {0}))

\* A region nothing was written to, or a file that is not there.
Nothing(pl) == [k \in 1..Room[pl] |-> Blank]

Handling == {"check", "format", "open", "write", "attributes"}

TypeOK ==
  /\ pc \in {"idle", "next", "installed"} \cup Handling
  /\ pkg \in Package
  /\ left \subseteq DOMAIN List[pkg]
  /\ pc \in Handling => cur \in left
  /\ at \in Nat
  /\ fill \in [Place -> Seq(Chunk)]
  /\ mode \in [Place -> {"keep", "given"}]
  /\ fs \subseteq Device
  /\ mounted \subseteq Device
  /\ stale \subseteq Device

Init ==
  /\ pc = "idle"
  /\ pkg \in Package
  /\ left = {}
  /\ cur = 1
  /\ at = 0
  /\ fill = [pl \in Place |-> Nothing(pl)]
  /\ mode = [pl \in Place |-> "keep"]
  /\ fs \in SUBSET {On[pl] : pl \in {f \in Place : Room[f] = 0}}
  /\ mounted = {}
  /\ stale = {}

Obj   == List[pkg][cur]
Where == On[Obj.place]

\* A slip: the mount outlives the block it is made for.
GuardKept ==
  IF pc \in {"check", "format", "write", "attributes"} /\ Obj.kind \in Mounting
     /\ (pc \in {"check", "format"} => Obj.kind = "copy" /\ Where \in fs)
  THEN {Where} ELSE {}

\* The device the handler itself has mounted: Copy while it looks for the file,
\* and both while they write.
Guard ==
  IF pc \in {"check", "write", "attributes"} /\ Obj.kind \in Mounting
     /\ (pc = "check" => Obj.kind = "copy" /\ Where \in fs)
  THEN {Where} ELSE {}

(***************************************************************************)
(* Validation, and the order of the objects.                               *)
(***************************************************************************)

\* Access::for_format.
Exclusive(e) == e.kind \notin Mounting \/ e.format

\* ensure_not_mounted
Reached == [d \in Device |-> Affected(Storage, d)]

\* A slip: the device alone is looked for.
InUseAlone(d, mounting) == d \in mounting

InUse(d, mounting) == Reached[d] \cap mounting # {}

\* required_install_size: neither skip and count nor seek come into it.
Required(e) == Size[Source(e)]

\* check_requirements: a device a handler takes for itself is not in use, and
\* what is to be installed is not larger than the device. The tool of imxkobs is
\* left to find out.
Accepted(p) ==
  \A i \in DOMAIN List[p] : LET e == List[p][i] IN
    /\ Exclusive(e) => ~ InUse(On[e.place], mounted \cup stale)
    /\ e.kind # "imxkobs" => Required(e) <= Capacity[On[e.place]]

Begin ==
  /\ pc = "idle"
  /\ \E p \in Package :
       /\ Accepted(p)
       /\ pkg' = p
       /\ left' = DOMAIN List[p]
  /\ pc' = "next"
  /\ UNCHANGED <<cur, at, target, mounts>>

\* Longer objects first, and in the order of the list where they are as long.
Before(p, i, j) ==
  LET a == Size[List[p][i].content]
      b == Size[List[p][j].content]
  IN a > b \/ (a = b /\ i <= j)

\* A slip: in the order of the list.
PickAsListed ==
  /\ pc = "next"
  /\ \E i \in left :
       /\ \A j \in left : i <= j
       /\ cur' = i
  /\ pc' = "check"
  /\ UNCHANGED <<pkg, left, at, target, mounts>>

Pick ==
  /\ pc = "next"
  /\ \E i \in left :
       /\ \A j \in left : Before(pkg, i, j)
       /\ cur' = i
  /\ pc' = "check"
  /\ UNCHANGED <<pkg, left, at, target, mounts>>

Installed ==
  /\ pc = "next"
  /\ left = {}
  /\ pc' = "installed"
  /\ UNCHANGED <<pkg, left, cur, at, target, mounts>>

\* The state ends, and the agent goes on to the reboot.
Leave ==
  /\ pc = "installed"
  /\ pc' = "idle"
  /\ UNCHANGED <<pkg, left, cur, at, target, mounts>>

(***************************************************************************)
(* should_skip_install.                                                    *)
(***************************************************************************)

\* What the handler reads back from a place.
Read(e) ==
  IF e.count = All \/ e.count > Len(fill[e.place]) THEN fill[e.place]
  ELSE [k \in 1..e.count |-> fill[e.place][k]]

\* check_if_different.
Same(e) ==
  \/ e.rule = "checksum" /\ Read(e) = [k \in 1..Size[e.content] |-> <<e.content, k>>]
  \/ /\ e.rule = "pattern"
     /\ Len(Read(e)) > 0
     /\ \E c \in Content : Read(e)[1] = <<c, 1>> /\ Version[c] = Version[Source(e)]

\* Copy mounts the device to look, whether or not there is a rule.
Looked == pc = "check" /\ (Obj.kind = "copy" => Where \in fs)

Skip ==
  /\ Looked
  /\ Obj.kind \in Checking
  /\ Same(Obj)
  /\ left' = left \ {cur}
  /\ pc' = "next"
  /\ UNCHANGED <<pkg, cur, at, target, mounts>>

Proceed ==
  /\ Looked
  /\ ~ (Obj.kind \in Checking /\ Same(Obj))
  /\ pc' = IF Obj.format THEN "format" ELSE "open"
  /\ UNCHANGED <<pkg, left, cur, at, target, mounts>>

(***************************************************************************)
(* The handlers' writes.                                                   *)
(***************************************************************************)
Emptied(d) == [pl \in Place |-> IF On[pl] = d THEN Nothing(pl) ELSE fill[pl]]

\* utils::fs::format, forced, and therefore not of what is mounted.
Format ==
  /\ pc = "format"
  /\ ~ InUse(Where, mounted \cup stale \cup Guard)
  /\ fill' = Emptied(Where)
  /\ mode' = [pl \in Place |-> IF On[pl] = Where THEN "keep" ELSE mode[pl]]
  /\ fs' = fs \cup {Where}
  /\ pc' = "open"
  /\ UNCHANGED <<pkg, left, cur, at, mounts>>

\* mkfs stops half way: there is no filesystem.
FormatStops ==
  /\ pc = "format"
  /\ ~ InUse(Where, mounted \cup stale \cup Guard)
  /\ fill' = Emptied(Where)
  /\ mode' = [pl \in Place |-> IF On[pl] = Where THEN "keep" ELSE mode[pl]]
  /\ fs' = fs \ {Where}
  /\ pc' = "idle"
  /\ UNCHANGED <<pkg, left, cur, at, mounts>>

\* A slip: the file is not truncated.
OpenForAppending ==
  /\ pc = "open"
  /\ Obj.kind \in Mounting => Where \in fs
  /\ fill' = IF Obj.kind \in Erasing THEN Emptied(Where) ELSE fill
  /\ fs' = IF Obj.kind \in Erasing THEN fs \ {Where} ELSE fs
  /\ at' = 0
  /\ pc' = "write"
  /\ UNCHANGED <<pkg, left, cur, mode, mounts>>

\* A file is created or truncated, and keeps its mode; flash is erased; a
\* block device stays as it is.
Open ==
  /\ pc = "open"
  /\ Obj.kind \in Mounting => Where \in fs
  /\ fill' = CASE Obj.kind \in Mounting -> [fill EXCEPT ![Obj.place] = <<>>]
               [] Obj.kind \in Erasing -> Emptied(Where)
               [] OTHER -> fill
  /\ fs' = IF Obj.kind \in Erasing THEN fs \ {Where} ELSE fs
  /\ at' = 0
  /\ pc' = "write"
  /\ UNCHANGED <<pkg, left, cur, mode, mounts>>

Put(s, k, c) ==
  [i \in 1..(IF k > Len(s) THEN k ELSE Len(s)) |-> IF i = k THEN c ELSE s[i]]

\* The device ends before the object does.
Full == Obj.kind \notin Mounting /\ at >= Room[Obj.place]

\* io::copy, uncompress_data or the tool that is run: one chunk.
Write ==
  /\ pc = "write"
  /\ at < Count(Obj)
  /\ ~ Full
  /\ at' = at + 1
  /\ fill' = [fill EXCEPT ![Obj.place] =
                Put(@, at + 1, <<Source(Obj), Start(Obj) + at + 1>>)]
  /\ fs' = IF Obj.kind \in Mounting THEN fs ELSE fs \ {Where}
  /\ UNCHANGED <<pc, pkg, left, cur, mode, mounts>>

\* The handler returns; but that of Copy first sees to the attributes.
Written ==
  /\ pc = "write"
  /\ at = Count(Obj)
  /\ \/ /\ Obj.kind = "copy"
        /\ pc' = "attributes"
        /\ UNCHANGED left
     \/ /\ Obj.kind # "copy"
        /\ pc' = "next"
        /\ left' = left \ {cur}
  /\ UNCHANGED <<pkg, cur, at, target, mounts>>

\* chmod and chown.
SetAttributes ==
  /\ pc = "attributes"
  /\ mode' = IF Obj.mode = "given" THEN [mode EXCEPT ![Obj.place] = "given"] ELSE mode
  /\ left' = left \ {cur}
  /\ pc' = "next"
  /\ UNCHANGED <<pkg, cur, at, fill, fs, mounts>>

(***************************************************************************)
(* What goes wrong.                                                        *)
(***************************************************************************)

\* There is no filesystem to mount, or format finds the device in use.
Refused ==
  /\ \/ pc = "check" /\ Obj.kind = "copy" /\ Where \notin fs
     \/ pc = "open" /\ Obj.kind \in Mounting /\ Where \notin fs
     \/ pc = "format" /\ InUse(Where, mounted \cup stale \cup Guard)
     \/ pc = "write" /\ at < Count(Obj) /\ Full
  /\ pc' = "idle"
  /\ UNCHANGED <<pkg, left, cur, at, target, mounts>>

\* Any operation of the handler fails, or the time for it is over; the guard is
\* dropped.
Fail ==
  /\ pc \in Handling
  /\ pc' = "idle"
  /\ UNCHANGED <<pkg, left, cur, at, target, mounts>>

\* The agent is killed, before or after it has mounted the device.
Killed ==
  /\ pc # "idle"
  /\ pc' = "idle"
  /\ stale' \in {stale, stale \cup Guard}
  /\ UNCHANGED <<pkg, left, cur, at, target, mounted>>

PowerLoss ==
  /\ pc' = "idle"
  /\ mounted' = {}
  /\ stale' = {}
  /\ UNCHANGED <<pkg, left, cur, at, target>>

\* The system mounts a filesystem, and unmounts it.
Mount ==
  /\ mounted' \in {mounted \cup {d} : d \in fs}
  /\ UNCHANGED <<pc, pkg, left, cur, at, target, stale>>

Unmount ==
  /\ \E d \in mounted \cup stale :
       /\ mounted' = mounted \ {d}
       /\ stale' = stale \ {d}
  /\ UNCHANGED <<pc, pkg, left, cur, at, target>>

Handle == Pick \/ Skip \/ Proceed \/ Format \/ Open \/ Write \/ Written
          \/ SetAttributes \/ Installed \/ Leave \/ Refused

Next == Begin \/ Handle \/ FormatStops \/ Fail \/ Killed \/ PowerLoss
        \/ Mount \/ Unmount

Spec == Init /\ [][Next]_vars

\* An idle agent is given a package again, and handlers return.
FairSpec == Spec /\ WF_vars(Begin) /\ WF_vars(Handle)

(***************************************************************************)
(* Properties.                                                             *)
(***************************************************************************)

\* The object is where it belongs.
InPlace(e) ==
  /\ Len(fill[e.place]) >= Count(e)
  /\ \A k \in 1..Count(e) : fill[e.place][k] = <<Source(e), Start(e) + k>>
  /\ e.kind \in Mounting => On[e.place] \in fs /\ Len(fill[e.place]) = Count(e)
  /\ e.kind = "copy" /\ e.mode = "given" => mode[e.place] = "given"

\* Objects whose rule can tell an installation that was cut short from one that
\* was not: a version is found as soon as the start is written, the attributes
\* come after the content and are not looked at, and a checksum is that of the
\* whole object as it was downloaded.
Judged(e) ==
  e.kind \in Checking =>
    /\ e.rule # "pattern"
    /\ e.rule = "checksum" => e.mode = "keep" /\ e.skip = 0 /\ ~ e.compressed

\* An install that ends has put each object in its place, whatever the attempts
\* before it left there, whatever it skipped and however little room there is
\* (Install::handle).
AllInPlace ==
  pc = "installed" => \A i \in DOMAIN List[pkg] : Judged(List[pkg][i]) => InPlace(List[pkg][i])

\* What makes it hold: no two objects of a package have the same place, and one
\* that wipes another comes before it.
Wipes(e, f) ==
  /\ On[e.place] = On[f.place]
  /\ \/ e.format
     \/ e.kind \in Erasing
     \/ e.kind \notin Mounting /\ f.kind \in Mounting

Apart ==
  \A p \in Package : \A i, j \in DOMAIN List[p] :
    i # j => /\ List[p][i].place # List[p][j].place
             /\ Wipes(List[p][i], List[p][j]) => ~ Before(p, j, i)

\* What was taken came before what is left, and is in its place.
TakenFirst ==
  /\ pc # "idle" => \A i \in DOMAIN List[pkg] \ left, j \in left : Before(pkg, i, j)
  /\ pc \in Handling => \A j \in left : Before(pkg, cur, j)

TakenInPlace ==
  pc # "idle" => \A i \in DOMAIN List[pkg] \ left :
                   Judged(List[pkg][i]) => InPlace(List[pkg][i])

\* The object being written is there as far as the handler has come.
WrittenSoFar ==
  pc \in {"write", "attributes"} =>
    /\ at <= Count(Obj)
    /\ Len(fill[Obj.place]) >= at
    /\ \A k \in 1..at : fill[Obj.place][k] = <<Source(Obj), Start(Obj) + k>>
    /\ Obj.kind \in Mounting => Where \in fs /\ Len(fill[Obj.place]) = at
    /\ pc = "attributes" => at = Count(Obj) /\ Obj.kind = "copy"

\* What is formatted is to be, and an installed package has nothing left.
Stages ==
  /\ pc = "format" => Obj.format
  /\ pc = "installed" => left = {}

InstallInv == TypeOK /\ Stages /\ TakenFirst /\ TakenInPlace /\ WrittenSoFar

\* Devices that share blocks.
Share(d, e) == Blocks[d] \cap Blocks[e] # {}

\* No filesystem is made, and no blocks are written, on storage that something
\* mounted by the agent or its killed predecessor shares, be it a partition, a
\* disk or a volume stacked on one; and no filesystem is made on storage that
\* something mounted by the system does (utils::fs::format, Access).
MountsSpared ==
  [][/\ pc = "format" /\ fill' # fill =>
          \A d \in mounted \cup stale \cup Guard : ~ Share(Where, d)
     /\ pc \in {"open", "write"} /\ fill' # fill /\ Obj.kind \notin Mounting =>
          \A d \in stale : ~ Share(Where, d)]_vars

\* What makes it hold: of devices that can be mounted, those that share storage
\* with a device are reached from it, as nothing is stacked on them; and no object
\* of the package that is being installed takes a device for itself that an older
\* agent's mount reaches.
Mountable == {On[pl] : pl \in {f \in Place : Room[f] = 0}}

Stacked == Layered(Storage, Blocks) /\ \A e \in Mountable : Top(Storage, e)

ReachesAll ==
  \A d \in Device, e \in Mountable : Share(d, e) => e \in Reached[d]

MountInv ==
  /\ fs \subseteq Mountable
  /\ mounted \subseteq Mountable
  /\ stale \subseteq Mountable
  /\ pc # "idle" => \A i \in DOMAIN List[pkg] :
       Exclusive(List[pkg][i]) => ~ InUse(On[List[pkg][i].place], stale)

\* What the handler refuses of itself is not one of the failures.
FailuresCease ==
  <>[][~(\/ (FormatStops \/ Fail \/ Killed \/ PowerLoss) /\ ~ Refused
         \/ Mount \/ Unmount)]_vars

\* Nothing the package needs is mounted, what Copy writes through is there, and
\* no object runs over the end of its device.
Ready ==
  /\ Accepted(pkg)
  /\ \A i \in DOMAIN List[pkg] : LET e == List[pkg][i] IN
       /\ e.kind = "copy" \/ (e.kind = "tarball" /\ ~ e.format) => On[e.place] \in fs
       /\ e.kind \notin Mounting => Count(e) <= Room[e.place]

\* On such a device no handler refuses what Validation let through: the safety half
\* of EventuallyInstalls, with the next one.
ReadyIsEnough == [][Ready => ~ Refused]_vars

\* Each step of a handler ends the attempt, finishes an object, takes the object
\* to a later stage, or writes one more of its chunks: an attempt is finite.
Stage == CASE pc = "next" -> 0 [] pc = "check" -> 1 [] pc = "format" -> 2
           [] pc = "open" -> 3 [] pc = "write" -> 4 [] pc = "attributes" -> 5

Progress ==
  [][Handle =>
       \/ pc' \in {"installed", "idle"}
       \/ left' \subseteq left /\ left' # left
       \/ left' = left /\ Stage' > Stage
       \/ left' = left /\ Stage' = Stage /\ at < at' /\ at' <= Count(Obj)]_vars

\* Once failures cease on such a device, a package gets installed, whatever
\* state its places are in.
EventuallyInstalls ==
  FailuresCease /\ <>[]Ready => []<>(pc = "installed")
=============================================================================
