---------------------------- MODULE MCInstallation ----------------------------
(* Installation of four packages: on a disk, a partition of it, a volume     *)
(* stacked on another and a flash that holds a UBI volume.                   *)
EXTENDS Installation

CONSTANTS os, app, boot, zip, disk, part, data, crypt, nand, ubi,
          root, file, image, conf, kernel, spl, first, second, third, fourth

MCContent == {os, app, boot, zip}
MCSize    == [c \in MCContent |-> CASE c = os -> 3 [] c = zip -> 1 [] OTHER -> 2]
MCVersion == [c \in MCContent |-> IF c = app THEN "1" ELSE "2"]
MCInflated == [c \in MCContent |-> IF c = zip THEN app ELSE c]

MCDevice == {disk, part, data, crypt, nand, ubi}

MCStorage ==
  [disk    |-> [d \in MCDevice |-> IF d \in {part, data} THEN disk ELSE NoDisk],
   holders |-> [d \in MCDevice |-> IF d = data THEN {crypt} ELSE {}],
   volumes |-> [d \in MCDevice |-> IF d = nand THEN {ubi} ELSE {}]]

MCBlocks == [d \in MCDevice |-> CASE d = disk -> 1..4
                                   [] d = part -> {1, 2}
                                   [] d \in {data, crypt} -> {3}
                                   [] d \in {nand, ubi} -> {5}]

MCCapacity == [d \in MCDevice |-> IF d \in {part, disk} THEN 4 ELSE 2]

\* The flash is named, and the twelfth of its name.
MCMtd == [i \in 1..12 |-> IF i \in {3, 12} THEN "spl" ELSE "env"]

ASSUME FlashNamed == MtdNamed(MCMtd, "spl") = {3} /\ MtdNamed(MCMtd, "log") = {}

MCPlace  == {root, file, image, conf, kernel, spl}
MCOn     == [pl \in MCPlace |-> CASE pl \in {root, file, image} -> part
                                  [] pl = conf -> crypt
                                  [] pl = kernel -> disk
                                  [] pl = spl -> nand]
MCRoom   == [pl \in MCPlace |-> CASE pl \in {root, file, conf} -> 0 [] OTHER -> 2]

MCPackage == {first, second, third, fourth}

Plain(k, c, pl, r) ==
  [kind |-> k, content |-> c, place |-> pl, skip |-> 0, count |-> All,
   format |-> FALSE, rule |-> r, compressed |-> FALSE, mode |-> "keep"]

\* The first lists what must come last before what must come first. That of the
\* fourth is not larger than the disk, and runs over its end from where it starts.
MCList ==
  [p \in MCPackage |->
     IF p = first
     THEN <<Plain("copy", app, file, "checksum"),
            [Plain("tarball", os, root, "none") EXCEPT !.format = TRUE],
            [Plain("raw", zip, kernel, "none") EXCEPT !.compressed = TRUE]>>
     ELSE IF p = third THEN <<Plain("copy", zip, file, "checksum")>>
     ELSE IF p = fourth THEN <<Plain("raw", os, kernel, "checksum")>>
     ELSE <<[Plain("copy", boot, conf, "none") EXCEPT !.mode = "given", !.format = TRUE],
            [Plain("raw", boot, image, "checksum") EXCEPT !.count = 2],
            Plain("flash", app, spl, "pattern")>>]

(***************************************************************************)
(* Two volumes stacked in every way on a disk with two partitions and on   *)
(* each other: whatever is at the top, and so can be mounted, and shares    *)
(* blocks with a device is among those affected by a write to it.          *)
(***************************************************************************)
Stack == {disk, part, data, crypt, ubi}

\* What each of the two is on, and the blocks it takes of that.
Stacking == [on : [{crypt, ubi} -> SUBSET {part, data, crypt}],
             takes : [{crypt, ubi} -> SUBSET (1..3)]]

Holders(s) == [d \in Stack |-> {h \in {crypt, ubi} : d \in s.on[h]}]

Built(s)   == [disk    |-> [d \in Stack |-> IF d \in {part, data} THEN disk ELSE NoDisk],
               holders |-> Holders(s),
               volumes |-> [d \in Stack |-> {}]]

Extent(s) == [d \in Stack |-> CASE d = disk -> 1..3
                                 [] d = part -> {1, 2}
                                 [] d = data -> {3}
                                 [] OTHER    -> s.takes[d]]

\* A volume takes blocks of all it is on and of nothing else, and no two take
\* the same from one device.
Possible(s) ==
  /\ crypt \notin s.on[crypt]
  /\ \A h \in {crypt, ubi} : /\ s.on[h] # {}
                             /\ \A d \in s.on[h] : Extent(s)[h] \cap Extent(s)[d] # {}
                             /\ Extent(s)[h] \subseteq UNION {Extent(s)[d] : d \in s.on[h]}
  /\ \A d \in Stack : \A g, h \in Holders(s)[d] :
       g # h => Extent(s)[g] \cap Extent(s)[h] \cap Extent(s)[d] = {}

Tops(s) == {d \in Stack \ {disk} : Holders(s)[d] = {}}

ASSUME AffectedAreEnough ==
  \A s \in {x \in Stacking : Possible(x)} : \A d \in Stack :
    {e \in Tops(s) : Extent(s)[d] \cap Extent(s)[e] # {}} \subseteq Affected(Built(s), d)

\* Each of them is layered.
ASSUME PossibleLayered ==
  \A s \in {x \in Stacking : Possible(x)} : Layered(Built(s), Extent(s))

\* What InstallCorrect asks of the packages, and MountsAreSpared of the devices.
ASSUME ListApart == Apart
ASSUME DevicesStacked == Stacked
=============================================================================
