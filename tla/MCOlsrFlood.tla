---------------------------- MODULE MCOlsrFlood ----------------------------
(***************************************************************************)
(* Instances of OlsrFlood for TLC.                                         *)
(***************************************************************************)
EXTENDS OlsrFlood

(* One node always relays, one never does, and one does gladly.            *)
Mixed == [n \in Node |-> CASE n = 2 -> ALWAYS [] n = 4 -> NEVER [] n = 5 -> HIGH
                           [] OTHER -> DEFAULT]
=============================================================================
