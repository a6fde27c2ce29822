---------------------------- MODULE MCHostPorts ----------------------------
(* A small instance of HostPorts for TLC: the two environments of an app   *)
(* compete for three ports, of which one is handed out and one is refused. *)
EXTENDS HostPorts

CONSTANT a

OneApp     == {a}
BothEnvs   == {<<a, "production">>, <<a, "sandbox">>}
ThreePorts == 1 .. 3
FirstPort  == {1}
LastPort   == {3}
=============================================================================
