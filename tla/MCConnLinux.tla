---------------------------- MODULE MCConnLinux ----------------------------
(* Instances of ConnLinux for TLC. *)
EXTENDS ConnLinux

Gap1800   == [uuid |-> "1800", chars |-> {"other"}]
Uart      == [uuid |-> "uart", chars |-> {"rx", "tx"}]
Vendor    == [uuid |-> "other", chars |-> {"other", "rx"}]

\* A clock, and a device with two services that have an RX characteristic.
MCTables  == {<<Gap1800, Uart>>, <<Vendor, Gap1800, Uart>>}

Choice(s, w, n) == [service |-> s, write |-> w, notify |-> n]
MCOptions == {Choice("", "", ""), Choice("uart", "rx", "tx")}
=============================================================================
