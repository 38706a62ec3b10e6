----------------------------- MODULE DeviceSearch -----------------------------
(***************************************************************************)
(* What ble.Find and ble.Scan promise their caller, whatever the platform: *)
(* windows of discovery one after the other, each begun with the radio     *)
(* quiet; every report is news; a window that ends well has taken its      *)
(* discovery session with it; a search ends found, not found or failed.    *)
(***************************************************************************)
EXTENDS Naturals

CONSTANTS Addrs, Names, NoName, Targets, Unseen, Sessions

VARIABLES phase, matched, running, last

searchVars == <<phase, matched, running, last>>

Init ==
    /\ phase = "ready"
    /\ matched = FALSE
    /\ running = {}
    /\ last = [a \in Addrs |-> Unseen]

\* A window opens on a quiet radio.
Begin(s) ==
    /\ phase = "ready" /\ ~matched /\ running = {}
    /\ phase' = "scanning"
    /\ running' = {s}
    /\ last' = [a \in Addrs |-> Unseen]
    /\ UNCHANGED matched

\* A report is a new address, or a new name (never the loss of one).
Tell(a, n) ==
    /\ phase = "scanning"
    /\ last[a] # Unseen => n \notin {NoName, last[a]}
    /\ last' = [last EXCEPT ![a] = n]
    /\ IF [addr |-> a, name |-> n] \in Targets
       THEN matched' = TRUE /\ phase' = "closing"
       ELSE UNCHANGED <<matched, phase>>
    /\ UNCHANGED running

Expire ==
    /\ phase = "scanning"
    /\ phase' = "closing"
    /\ UNCHANGED <<matched, running, last>>

SessionEnds(s) ==
    /\ s \in running
    /\ running' = running \ {s}
    /\ UNCHANGED <<phase, matched, last>>

\* A window that ends well leaves nothing behind.
Close ==
    /\ phase = "closing" /\ running = {}
    /\ phase' = IF matched THEN "found" ELSE "ready"
    /\ UNCHANGED <<matched, running, last>>

GiveUp ==
    /\ phase = "ready" /\ running = {}
    /\ phase' = "notfound"
    /\ UNCHANGED <<matched, running, last>>

\* An error is final, and may leave a session behind.
Fail ==
    /\ phase \in {"ready", "scanning", "closing"}
    /\ phase' = "err"
    /\ UNCHANGED <<matched, running, last>>

Next ==
    \/ \E s \in Sessions : Begin(s) \/ SessionEnds(s)
    \/ \E a \in Addrs, n \in Names : Tell(a, n)
    \/ Expire \/ Close \/ GiveUp \/ Fail

Spec == Init /\ [][Next]_searchVars
=============================================================================
