-------------------------------- MODULE Settings --------------------------------
(***************************************************************************)
(* The settings of the agent, read once from /etc/updatehub.conf: the      *)
(* defaults where there is no file, a file in the format of the agent or   *)
(* in that of its version 1, and what makes a file unacceptable.           *)
(*                                                                         *)
(* Of a file the model keeps the values the agent's behaviour depends on;  *)
(* `complete' says that the other keys are there, well formed and known.   *)
(***************************************************************************)
EXTENDS Integers

Missing == "missing"

Day == 86400

\* Server addresses by the protocol they start with, sockets by what has to be
\* parsed; a v1 file without a socket leaves an empty string.
Prefixed == {"http", "https"}
Sockets  == {"localhost", "address"}

\* api::Settings
Settings == [interval : Int, enabled : BOOLEAN, readOnly : BOOLEAN,
             server : Prefixed \cup {"other"}, socket : Sockets \cup {"", "other"}]

\* No file, or one of the format "toml", "ini" (version 1) or neither.
File == [format : {"absent", "toml", "ini", "neither"}, complete : BOOLEAN,
         interval : Int, enabled : BOOLEAN,
         readOnly : {"yes", "no", Missing},
         server : Prefixed \cup {"other"},
         socket : Sockets \cup {"other", Missing}]

\* Settings::default
Default == [interval |-> Day, enabled |-> TRUE, readOnly |-> FALSE,
            server |-> "https", socket |-> "localhost"]

\* toml::from_str: every key is there and no other.
TomlParses(f) == /\ f.format = "toml"
                 /\ f.complete
                 /\ Missing \notin {f.readOnly, f.socket}

\* v1_parse: the same keys under other names; two of them have defaults.
IniParses(f) == f.format = "ini" /\ f.complete

Values(f) == [interval |-> f.interval, enabled |-> f.enabled,
              readOnly |-> f.readOnly = "yes",
              server |-> f.server,
              socket |-> IF f.socket = Missing THEN "" ELSE f.socket]

\* The two checks of Settings::parse.
Valid(s) == s.interval >= 60 /\ s.server \in Prefixed

\* Settings::parse: the settings of the file, or none.
Parse(f) == {s \in {Values(f)} : (TomlParses(f) \/ IniParses(f)) /\ Valid(s)}

\* Settings::load
Load(f) == IF f.format = "absent" THEN {Default} ELSE Parse(f)

\* The replacement and the parse of the listen socket, in run.
Listens(s) == s.socket \in Sockets
================================================================================
