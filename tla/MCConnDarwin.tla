---------------------------- MODULE MCConnDarwin ----------------------------
(* Instances of ConnDarwin for TLC. *)
EXTENDS ConnDarwin

Gap1800 == [uuid |-> "1800", chars |-> {"other"}]
Uart    == [uuid |-> "uart", chars |-> {"rx", "tx"}]
Vendor  == [uuid |-> "other", chars |-> {"other"}]

\* A clock, and two UART services after another one.
MCTables == {<<Gap1800, Uart>>, <<Vendor, Uart, Uart>>}

MCOptions == {[service |-> "", write |-> "", notify |-> ""],
              [service |-> "uart", write |-> "rx", notify |-> "other"],
              [service |-> "other", write |-> "other", notify |-> ""]}

OneCommand == {[service |-> "", write |-> "", notify |-> ""]}
=============================================================================
