---------------------------- MODULE MCMemoryLog ----------------------------
(* MemoryLog with records of three sizes, one of them past the bound alone.  *)
EXTENDS MemoryLog

CONSTANTS short, long, huge

MCMessage == {short, long, huge}
MCSize    == [m \in MCMessage |-> CASE m = short -> 1 [] m = long -> 2 [] m = huge -> 5]
=============================================================================
