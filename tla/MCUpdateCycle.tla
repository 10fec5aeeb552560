--------------------------- MODULE MCUpdateCycle ---------------------------
(***************************************************************************)
(* Small instances of UpdateCycle: which faults each configuration allows. *)
(***************************************************************************)
EXTENDS UpdateCycle

CONSTANTS p1, p2

MCPackage == {p1, p2}
=============================================================================
