------------------------------- MODULE BleScan -------------------------------
(***************************************************************************)
(* ble.Scan and the window loop of ble.Find that calls it (lib/ble/ble.go),*)
(* the part every platform shares.  The calling goroutine ("main") and the *)
(* goroutine that runs the library's adapter.Scan share three channels     *)
(* that each call creates afresh, so they are indexed by the call's number.*)
(* The library's own Scan and StopScan differ per platform: ScanLinux adds *)
(* them.                                                                   *)
(***************************************************************************)
EXTENDS Naturals, Sequences

CONSTANTS
    Addrs,       \* device addresses
    Names,       \* advertised names
    NoName,      \* the empty name of an advertisement without one
    Prefixed,    \* the names that start with NamePrefix
    All,         \* the parameter all of Scan
    Targets,     \* the results for which found returns true (matches in Find)
    MaxScans,    \* bound: windows that fit Find's deadline
    ResultsCap   \* capacity of the results channel, 16 in the code

Founds == [addr : Addrs, name : Names]

Unseen == "unseen"   \* not reported yet

ASSUME BleScanAssumption ==
    /\ NoName \in Names /\ Unseen \notin Names
    /\ Prefixed \subseteq Names \ {NoName}
    /\ All \in BOOLEAN
    /\ Targets \subseteq Founds
    /\ MaxScans \in Nat \ {0}
    /\ ResultsCap \in Nat \ {0}

Scans == 1 .. MaxScans

VARIABLES
    main,      \* where the calling goroutine is
    cur,       \* the number of the latest Scan call, 0 before the first
    matched,   \* found has returned true (matched in Find)
    outcome,   \* what Find returned
    seen,      \* address -> name it was last reported with
    results,   \* results[s]: the buffered channel of call s
    stop,      \* stop[s]: the stop channel of call s is closed
    errCh      \* errCh[s]: what adapter.Scan of call s returned, once it has

bleVars == <<main, cur, matched, outcome, seen, results, stop, errCh>>

MainPcs  == {"ready", "loop", "stop", "close", "clear", "wait", "exited", "panicked"}
Outcomes == {"none", "found", "notfound", "err"}
Returns  == {"empty", "nil", "err", "errScanning"}

BleTypeOK ==
    /\ main \in MainPcs
    /\ cur \in 0 .. MaxScans
    /\ matched \in BOOLEAN
    /\ outcome \in Outcomes
    /\ seen \in [Addrs -> Names \cup {Unseen}]
    /\ results \in [Scans -> Seq(Founds)]
    /\ stop \in [Scans -> BOOLEAN]
    /\ errCh \in [Scans -> Returns]

BleInit ==
    /\ main = "ready"
    /\ cur = 0
    /\ matched = FALSE
    /\ outcome = "none"
    /\ seen = [a \in Addrs |-> Unseen]
    /\ results = [s \in Scans |-> <<>>]
    /\ stop = [s \in Scans |-> FALSE]
    /\ errCh = [s \in Scans |-> "empty"]

----------------------------------------------------------------------------
(* Find's loop head and the prologue of Scan *)

\* Defect: one window too many.
BeginOneMore ==
    /\ main = "ready" /\ cur <= MaxScans
    /\ main' = "loop"
    /\ cur' = cur + 1
    /\ seen' = [a \in Addrs |-> Unseen]
    /\ UNCHANGED <<matched, outcome, results, stop, errCh>>

BeginScan ==
    /\ main = "ready" /\ cur < MaxScans
    /\ main' = "loop"
    /\ cur' = cur + 1
    /\ seen' = [a \in Addrs |-> Unseen]
    /\ UNCHANGED <<matched, outcome, results, stop, errCh>>

\* Adapter's sync.Once keeps the first verdict, so only the first call can fail.
AdapterFails ==
    /\ main = "ready" /\ cur = 0
    /\ main' = "exited"
    /\ outcome' = "err"
    /\ UNCHANGED <<cur, matched, seen, results, stop, errCh>>

\* Less than findMinWindow is left before the deadline.
GiveUp ==
    /\ main = "ready"
    /\ main' = "exited"
    /\ outcome' = "notfound"
    /\ UNCHANGED <<cur, matched, seen, results, stop, errCh>>

\* Scan returns nil: Find leaves its loop with the match or tries again.
ReturnNil ==
    /\ main' = IF matched THEN "exited" ELSE "ready"
    /\ outcome' = IF matched THEN "found" ELSE "none"

ReturnErr ==
    /\ main' = "exited"
    /\ outcome' = "err"

----------------------------------------------------------------------------
(* The select loop of Scan *)

\* Defect: a nameless advertisement counts as a new name.
SameName(f) == seen[f.addr] # Unseen /\ f.name = seen[f.addr]

IsDuplicate(f) ==
    /\ seen[f.addr] # Unseen
    /\ f.name \in {NoName, seen[f.addr]}

SkipDuplicate ==
    /\ main = "loop" /\ results[cur] # <<>>
    /\ IsDuplicate(Head(results[cur]))
    /\ results' = [results EXCEPT ![cur] = Tail(@)]
    /\ UNCHANGED <<main, cur, matched, outcome, seen, stop, errCh>>

\* A new address or name goes to found, which may end the scan early.
Report ==
    /\ main = "loop" /\ results[cur] # <<>>
    /\ LET f == Head(results[cur]) IN
         /\ ~IsDuplicate(f)
         /\ seen' = [seen EXCEPT ![f.addr] = f.name]
         /\ IF f \in Targets
            THEN /\ matched' = TRUE
                 /\ main' = "stop"
                 /\ stop' = [stop EXCEPT ![cur] = TRUE]
            ELSE UNCHANGED <<main, matched, stop>>
    /\ results' = [results EXCEPT ![cur] = Tail(@)]
    /\ UNCHANGED <<cur, outcome, errCh>>

\* Defect: the deadline returns at once instead of stopping the scan.
TimerAborts ==
    /\ main = "loop"
    /\ ReturnErr
    /\ stop' = [stop EXCEPT ![cur] = TRUE]
    /\ UNCHANGED <<cur, matched, seen, results, errCh>>

TimerFires ==
    /\ main = "loop"
    /\ main' = "stop"
    /\ stop' = [stop EXCEPT ![cur] = TRUE]
    /\ UNCHANGED <<cur, matched, outcome, seen, results, errCh>>

\* adapter.Scan returned by itself: its error is the one Scan returns.
ScannerReturned ==
    /\ main = "loop" /\ errCh[cur] # "empty"
    /\ stop' = [stop EXCEPT ![cur] = TRUE]
    /\ IF errCh[cur] = "nil" THEN ReturnNil ELSE ReturnErr
    /\ UNCHANGED <<cur, matched, seen, results, errCh>>

\* Defect: Scan returns without the final receive from errCh.
ScannerNotJoined ==
    /\ main = "wait"
    /\ ReturnNil
    /\ UNCHANGED <<cur, matched, seen, results, stop, errCh>>

\* The final receive from errCh; the value received is dropped.
ScannerJoined ==
    /\ main = "wait" /\ errCh[cur] # "empty"
    /\ ReturnNil
    /\ UNCHANGED <<cur, matched, seen, results, stop, errCh>>

----------------------------------------------------------------------------
(* The callback Scan hands to the library, run by call s for result f *)

Filtered(f) == ~All /\ f.name \notin Prefixed

CallbackSends(s, f) ==
    /\ ~Filtered(f) /\ Len(results[s]) < ResultsCap
    /\ results' = [results EXCEPT ![s] = Append(@, f)]

CallbackReturns(s, f) ==
    /\ Filtered(f) \/ stop[s]
    /\ UNCHANGED results
=============================================================================
