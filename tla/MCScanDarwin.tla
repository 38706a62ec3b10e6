---------------------------- MODULE MCScanDarwin ----------------------------
(* Instances of ScanDarwin for TLC: one clock, whose name comes and goes. *)
EXTENDS ScanDarwin

\* Find by name: the clock under its name.
TargetsByName == {[addr |-> "clock", name |-> "XGGF-1V48"]}
=============================================================================
