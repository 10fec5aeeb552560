------------------------------ MODULE MCHttpApi ------------------------------
(* HttpApi with two clients and a channel smaller than the code's, so that   *)
(* it fills.                                                                 *)
EXTENDS HttpApi

CONSTANTS c1, c2

Clients == {c1, c2}

NoServer == {}
Custom   == {"custom"}

\* Requests of which none, taken in one drain, leads to a second wake: a probe
\* or an aborted remote install leaves a state in which another is accepted.
Unchained == {"info", "abortDownload", "localInstall"}
=============================================================================
