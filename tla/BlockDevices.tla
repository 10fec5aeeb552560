------------------------------ MODULE BlockDevices ------------------------------
(***************************************************************************)
(* What a write to a device may damage, as the agent works it out before   *)
(* it takes a device for itself: from sysfs for block devices, and from    *)
(* the names of MTD partitions and UBI volumes, which mountinfo lists for   *)
(* want of a block device.                                                 *)
(***************************************************************************)
EXTENDS Naturals, FiniteSets, Sequences

NoDisk == "none"

\* Of each device: the disk it is a partition of, the devices stacked on it
\* (LVM, MD, loop), and the UBI volumes on it, if it is an MTD partition that
\* one is attached to.
Topologies(D) == [disk    : [D -> D \cup {NoDisk}],
                  holders : [D -> SUBSET D],
                  volumes : [D -> SUBSET D]]

\* A disk is walked to its partitions, and any device to what is stacked on it.
Leads(t, x, y) == \/ t.disk[x] = NoDisk /\ t.disk[y] = x
                  \/ y \in t.holders[x]

Walked(t, d) ==
  LET after[n \in 0..Cardinality(DOMAIN t.disk)] ==
        IF n = 0 THEN {d}
        ELSE LET found == after[n - 1]
             IN found \cup {y \in DOMAIN t.disk : \E x \in found : Leads(t, x, y)}
  IN after[Cardinality(DOMAIN t.disk)]

\* related_block_devices: the disk of a partition is recorded and not walked.
Related(t, d) ==
  LET walked == Walked(t, d)
  IN walked \cup ({t.disk[x] : x \in walked} \ {NoDisk})

\* mtd::mount_sources_for: erasing an MTD partition takes its volumes down.
Sources(t, d) == {d} \cup t.volumes[d]

\* ensure_not_mounted looks for these among the mounts.
Affected(t, d) == Related(t, d) \cup Sources(t, d)

(***************************************************************************)
(* How storage is stacked: blocks[d] are the blocks a device stands for.   *)
(***************************************************************************)
Carries(t, x, y) == Leads(t, x, y) \/ y \in t.volumes[x]

Ground(t, x) == \A y \in DOMAIN t.disk : ~ Carries(t, y, x)

\* Nothing is stacked on itself; what is stacked takes blocks of what it is on
\* and no others; what is on one device, or at the ground, shares no blocks; and
\* a UBI volume is on flash that is at the ground, and carries nothing.
Layered(t, blocks) ==
  LET D == DOMAIN t.disk IN
  /\ \A S \in SUBSET D : S # {} => \E x \in S : \A y \in S : ~ Carries(t, y, x)
  /\ \A y \in D : ~ Ground(t, y) =>
       \A b \in blocks[y] : \E x \in D : Carries(t, x, y) /\ b \in blocks[x]
  /\ \A x, y, z \in D : Carries(t, x, y) /\ Carries(t, x, z) /\ y # z =>
                         blocks[x] \cap blocks[y] \cap blocks[z] = {}
  /\ \A x, y \in D : Ground(t, x) /\ Ground(t, y) /\ x # y => blocks[x] \cap blocks[y] = {}
  /\ \A x, y \in D : y \in t.volumes[x] =>
       Ground(t, x) /\ \A z \in D : ~ Leads(t, x, z) /\ ~ Carries(t, y, z)

\* A device that nothing is stacked on.
Top(t, x) == \A y \in DOMAIN t.disk : ~ Carries(t, x, y)

(***************************************************************************)
(* target_device_from_mtd_name: the first line of /proc/mtd that names the *)
(* partition, of those whose number has one digit.                         *)
(***************************************************************************)
MtdNamed(table, name) ==
  {i \in 1..10 \cap DOMAIN table :
     table[i] = name /\ \A j \in 1..(i - 1) : table[j] # name}
================================================================================
