---------------------------- MODULE MCTransitions ----------------------------
(***************************************************************************)
(* Transitions for TLC: files that are and are not acceptable, a server    *)
(* that asks for a later probe, clocks set forward and back, and every     *)
(* way in which up to two callbacks of a state may react.                  *)
(***************************************************************************)
EXTENDS Transitions

Interval == 60

Toml == [format |-> "toml", complete |-> TRUE, interval |-> Interval,
         enabled |-> TRUE, readOnly |-> "no", server |-> "https",
         socket |-> "localhost"]

MCFiles == {Toml,
            [Toml EXCEPT !.interval = 0],
            [Toml EXCEPT !.server = "other"],
            [Toml EXCEPT !.complete = FALSE],
            [Toml EXCEPT !.format = "ini", !.socket = Missing],
            [Toml EXCEPT !.format = "ini", !.readOnly = "yes", !.enabled = FALSE],
            [Toml EXCEPT !.format = "neither"]}

Fresh == [since |-> 100000, retries |-> 0, now |-> FALSE, server |-> "default"]

MCStored == {Fresh, [Fresh EXCEPT !.since = 30, !.retries = 12, !.now = TRUE,
                     !.server = "custom"]}

MCPauses == {50}

MCAges == {-100, -50}

MCExtraPolls == {-1, 90}

MCCallbacks == {<<>>, <<"cancel">>, <<"cancel", "cancel">>, <<"fail", "cancel">>}
================================================================================
