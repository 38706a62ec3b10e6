---------------------------- MODULE MCScanLinux ----------------------------
(* Instances of ScanLinux for TLC: one clock, whose name comes and goes. *)
EXTENDS ScanLinux

\* Find by name: the clock under its name.
TargetsByName == {[addr |-> "clock", name |-> "XGGF-1V48"]}
=============================================================================
