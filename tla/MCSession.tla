----------------------------- MODULE MCSession -----------------------------
(* Instances of Session for TLC.  A tick is 100 ms. *)
EXTENDS Session

Gap1800  == [uuid |-> "1800", chars |-> {"other"}]
Uart     == [uuid |-> "uart", chars |-> {"rx", "tx"}]
WriteOnly == [uuid |-> "uart", chars |-> {"rx"}]
Vendor   == [uuid |-> "other", chars |-> {"other", "tx"}]
Shadow   == [uuid |-> "1800", chars |-> {"rx"}]

\* A clock; a generic service with an RX characteristic and two UART services
\* after one without; and none with a write characteristic.
MCTables == {<<Gap1800, Uart>>, <<Shadow, Vendor, WriteOnly, Uart>>, <<Gap1800, Vendor>>}

Choice(s, w, n) == [service |-> s, write |-> w, notify |-> n]

MCOptions == {Choice("", "", ""), Choice("other", "other", "tx"), Choice("uart", "rx", ""),
              Choice("uart", "other", ""), Choice("uart", "rx", "other"),
              Choice("", "", "tx"), Choice("uart", "bad", "")}

TwoProbes  == {<<>>, <<"date", "time">>}
=============================================================================
