----------------------------- MODULE MCTermination -----------------------------
(* An instance of Termination: two captured commands, and two signals.        *)
EXTENDS Termination
CONSTANTS c1, c2
MCSent == {"SIGINT", "SIGTERM"}
================================================================================
