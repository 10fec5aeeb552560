------------------------------ MODULE MCObjects ------------------------------
(* Objects with three packages that share an object, one of which has        *)
(* another list for each set.                                                *)
EXTENDS Objects

CONSTANTS x, y, z, p, q, r

MCObject == {x, y, z}
MCSize   == [o \in MCObject |-> CASE o = x -> 3 [] o = y -> 4 [] o = z -> 2]

OnePackage    == {p}
ThreePackages == {p, q, r}

E(f, o) == [filename |-> f, sha256sum |-> o, remote |-> FALSE]
Remote(f, o) == [filename |-> f, sha256sum |-> o, remote |-> TRUE]

System == <<E("rootfs", x), E("kernel", y)>>
Delta  == <<E("kernel", y), Remote("delta", z)>>

\* The lists of p and q name the same objects for both sets, those of r do not.
Lists == [k \in ThreePackages |-> [s \in InstallationSet |->
            IF k = p \/ (k = r /\ s = "A") THEN System ELSE Delta]]
=============================================================================
