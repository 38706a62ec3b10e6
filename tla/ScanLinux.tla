------------------------------ MODULE ScanLinux ------------------------------
(***************************************************************************)
(* ble.Scan over the BlueZ adapter (gap_linux.go): the calling goroutine,  *)
(* one scanner goroutine per call inside adapter.Scan, and BlueZ, which    *)
(* emits D-Bus signals.  adapter.Scan and adapter.StopScan share the field *)
(* scanCancelChan with no lock, so every read, close and write of it is a  *)
(* step of its own.                                                        *)
(***************************************************************************)
EXTENDS BleScan, FiniteSets

CONSTANT MaxPending   \* bound: undelivered signals of one call

Absent == "absent"   \* no device object

ASSUME ScanLinuxAssumption ==
    /\ MaxPending \in Nat \ {0}
    /\ Absent \notin Names

NoFound == [addr |-> Absent, name |-> Absent]

\* The last two concern the adapter and carry no device.
Signals == [kind : {"added", "changed"}, dev : Founds]
           \cup [kind : {"off", "stopped"}, dev : {NoFound}]

VARIABLES
    bluez,           \* BlueZ's device objects: address -> name or Absent
    scanner,         \* scanner[s]: where the goroutine of call s is
    scanCancelChan,  \* the adapter's field: 0 for nil, s for the channel of call s
    cancelled,       \* cancelled[s]: the cancelChan of call s is closed
    signal,          \* signal[s]: emitted and not yet received by call s
    devices,         \* devices[s]: the properties call s knows
    connected,       \* connected[s]: connected devices still to present
    starting,        \* calls whose StartDiscovery is unanswered
    cb,              \* cb[s]: the result the callback of call s holds
    returned         \* returned[s]: what adapter.Scan of call s returns, once it is decided

linuxVars == <<bluez, scanner, scanCancelChan, cancelled, signal, devices,
               connected, starting, cb, returned>>
vars == <<bleVars, linuxVars>>

ScannerPcs == {"unused", "new", "power", "filter", "objects", "present", "presenting",
               "presented", "top", "select", "callback", "close", "clear", "returning", "done"}

TypeOK ==
    /\ BleTypeOK
    /\ bluez \in [Addrs -> Names \cup {Absent}]
    /\ scanner \in [Scans -> ScannerPcs]
    /\ scanCancelChan \in 0 .. MaxScans
    /\ cancelled \in [Scans -> BOOLEAN]
    /\ signal \in [Scans -> SUBSET Signals]
    /\ devices \in [Scans -> [Addrs -> Names \cup {Absent}]]
    /\ connected \in [Scans -> SUBSET Addrs]
    /\ starting \in SUBSET Scans
    /\ cb \in [Scans -> Founds \cup {NoFound}]
    /\ returned \in [Scans -> Returns]

NoDevices == [a \in Addrs |-> Absent]

Init ==
    /\ BleInit
    /\ bluez \in [Addrs -> Names \cup {Absent}]
    /\ scanner = [s \in Scans |-> "unused"]
    /\ scanCancelChan = 0
    /\ cancelled = [s \in Scans |-> FALSE]
    /\ signal = [s \in Scans |-> {}]
    /\ devices = [s \in Scans |-> NoDevices]
    /\ connected = [s \in Scans |-> {}]
    /\ starting = {}
    /\ cb = [s \in Scans |-> NoFound]
    /\ returned = [s \in Scans |-> "empty"]

----------------------------------------------------------------------------
(* BlueZ.  godbus hands a signal that finds the unbuffered channel busy to a *)
(* goroutine of its own, so undelivered signals form a set, not a queue.     *)

Listening(s) == scanner[s] \notin {"unused", "new", "returning", "done"}

Emit(sig) ==
    LET to == {s \in Scans : Listening(s)} IN
    /\ \A s \in to : Cardinality(signal[s] \cup {sig}) <= MaxPending
    /\ signal' = [s \in Scans |-> IF s \in to THEN signal[s] \cup {sig} ELSE signal[s]]

\* A device object carries the name it was last advertised with.
DeviceAppears(a, n) ==
    /\ bluez[a] = Absent
    /\ bluez' = [bluez EXCEPT ![a] = n]
    /\ Emit([kind |-> "added", dev |-> [addr |-> a, name |-> n]])
    /\ UNCHANGED <<bleVars, scanner, scanCancelChan, cancelled, devices, connected, starting, cb, returned>>

\* Also a change of RSSI alone, when n is the name BlueZ already has.
DeviceChanges(a, n) ==
    /\ bluez[a] # Absent
    /\ bluez' = [bluez EXCEPT ![a] = n]
    /\ Emit([kind |-> "changed", dev |-> [addr |-> a, name |-> n]])
    /\ UNCHANGED <<bleVars, scanner, scanCancelChan, cancelled, devices, connected, starting, cb, returned>>

AdapterStops(k) ==
    /\ \E s \in Scans : Listening(s)
    /\ Emit([kind |-> k, dev |-> NoFound])
    /\ UNCHANGED <<bleVars, bluez, scanner, scanCancelChan, cancelled, devices, connected, starting, cb, returned>>

BlueZ ==
    \/ \E a \in Addrs, n \in Names : DeviceAppears(a, n) \/ DeviceChanges(a, n)
    \/ \E k \in {"off", "stopped"} : AdapterStops(k)

----------------------------------------------------------------------------
(* adapter.Scan, run by the goroutine of call s *)

Goto(s, pc) == scanner' = [scanner EXCEPT ![s] = pc]

\* adapter.Scan decides on v and goes through its deferred calls to BlueZ: nothing
\* receives its signals any more.
Return(s, v) ==
    /\ Goto(s, "returning")
    /\ returned' = [returned EXCEPT ![s] = v]
    /\ signal' = [signal EXCEPT ![s] = {}]
    /\ devices' = [devices EXCEPT ![s] = NoDevices]
    /\ connected' = [connected EXCEPT ![s] = {}]
    /\ starting' = starting \ {s}
    /\ UNCHANGED <<bleVars, bluez, cancelled, cb>>

\* adapter.Scan has returned, and its goroutine sends what it did to errCh.
SendErr(s) ==
    /\ scanner[s] = "returning"
    /\ Goto(s, "done")
    /\ errCh' = [errCh EXCEPT ![s] = returned[s]]
    /\ UNCHANGED <<main, cur, matched, outcome, seen, results, stop, bluez, scanCancelChan,
                   cancelled, signal, devices, connected, starting, cb, returned>>

\* The single-scan guard.
EnterScan(s) ==
    /\ scanner[s] = "new"
    /\ IF scanCancelChan # 0
       THEN Return(s, "errScanning")
       ELSE /\ Goto(s, "power")
            /\ UNCHANGED <<bleVars, bluez, cancelled, signal, devices, connected, starting, cb, returned>>
    /\ UNCHANGED scanCancelChan

\* The Powered property cannot be read, is false, the discovery filter is
\* refused or the object list fails.  The last two leave the field set.
SetupFails(s) ==
    /\ scanner[s] \in {"power", "filter", "objects"}
    /\ Return(s, "err")
    /\ UNCHANGED scanCancelChan

\* Defect: the channel is made but not kept in the adapter.
PublishNowhere(s) ==
    /\ scanner[s] = "power"
    /\ Goto(s, "filter")
    /\ UNCHANGED <<bleVars, bluez, scanCancelChan, cancelled, signal, devices, connected, starting, cb, returned>>

Publish(s) ==
    /\ scanner[s] = "power"
    /\ scanCancelChan' = s
    /\ Goto(s, "filter")
    /\ UNCHANGED <<bleVars, bluez, cancelled, signal, devices, connected, starting, cb, returned>>

SetFilter(s) ==
    /\ scanner[s] = "filter"
    /\ Goto(s, "objects")
    /\ UNCHANGED <<bleVars, bluez, scanCancelChan, cancelled, signal, devices, connected, starting, cb, returned>>

GetObjects(s) ==
    /\ scanner[s] = "objects"
    /\ Goto(s, "present")
    /\ devices' = [devices EXCEPT ![s] = bluez]
    /\ \E conn \in SUBSET {a \in Addrs : bluez[a] # Absent} :
         connected' = [connected EXCEPT ![s] = conn]
    /\ UNCHANGED <<bleVars, bluez, scanCancelChan, cancelled, signal, starting, cb, returned>>

Present(s, a) ==
    /\ scanner[s] = "present" /\ a \in connected[s]
    /\ connected' = [connected EXCEPT ![s] = @ \ {a}]
    /\ cb' = [cb EXCEPT ![s] = [addr |-> a, name |-> devices[s][a]]]
    /\ Goto(s, "presenting")
    /\ UNCHANGED <<bleVars, bluez, scanCancelChan, cancelled, signal, devices, starting, returned>>

\* The check after each connected device; nothing is discovering yet.
Presented(s) ==
    /\ scanner[s] = "presented"
    /\ IF cancelled[s]
       THEN Return(s, "nil")
       ELSE /\ Goto(s, "present")
            /\ UNCHANGED <<bleVars, bluez, cancelled, signal, devices, connected, starting, cb, returned>>
    /\ UNCHANGED scanCancelChan

StartDiscovery(s) ==
    /\ scanner[s] = "present" /\ connected[s] = {}
    /\ starting' = starting \cup {s}
    /\ Goto(s, "top")
    /\ UNCHANGED <<bleVars, bluez, scanCancelChan, cancelled, signal, devices, connected, cb, returned>>

\* StopDiscovery may fail.
Cancelled(s) ==
    /\ scanner[s] = "top" /\ cancelled[s]
    /\ \E v \in {"nil", "err"} : Return(s, v)
    /\ UNCHANGED scanCancelChan

NotCancelled(s) ==
    /\ scanner[s] = "top" /\ ~cancelled[s]
    /\ Goto(s, "select")
    /\ UNCHANGED <<bleVars, bluez, scanCancelChan, cancelled, signal, devices, connected, starting, cb, returned>>

StartAnswered(s) ==
    /\ scanner[s] = "select" /\ s \in starting
    /\ starting' = starting \ {s}
    /\ \/ Goto(s, "top")      \* discovering
       \/ Goto(s, "close")    \* refused
    /\ UNCHANGED <<bleVars, bluez, scanCancelChan, cancelled, signal, devices, connected, cb, returned>>

SeeCancel(s) ==
    /\ scanner[s] = "select" /\ cancelled[s]
    /\ Goto(s, "top")
    /\ UNCHANGED <<bleVars, bluez, scanCancelChan, cancelled, signal, devices, connected, starting, cb, returned>>

Receive(s, sig) ==
    /\ scanner[s] = "select" /\ sig \in signal[s]
    /\ signal' = [signal EXCEPT ![s] = @ \ {sig}]
    /\ UNCHANGED <<bleVars, bluez, scanCancelChan, cancelled, connected, starting, returned>>

Knows(s, a) == devices[s][a] # Absent

\* InterfacesAdded, or PropertiesChanged of a device that is known.
ReceiveDevice(s, sig) ==
    /\ sig.kind = "added" \/ (sig.kind = "changed" /\ Knows(s, sig.dev.addr))
    /\ Receive(s, sig)
    /\ devices' = [devices EXCEPT ![s][sig.dev.addr] = sig.dev.name]
    /\ cb' = [cb EXCEPT ![s] = sig.dev]
    /\ Goto(s, "callback")

\* PropertiesChanged of a device that is not known: dropped.
ReceiveUnknown(s, sig) ==
    /\ sig.kind = "changed" /\ ~Knows(s, sig.dev.addr)
    /\ Receive(s, sig)
    /\ Goto(s, "top")
    /\ UNCHANGED <<devices, cb>>

\* Powered or Discovering has become false.
ReceiveAdapter(s, sig) ==
    /\ sig.kind \in {"off", "stopped"}
    /\ Receive(s, sig)
    /\ Goto(s, "close")
    /\ UNCHANGED <<devices, cb>>

\* close(cancelChan) panics, and takes the process down, when it is closed already.
CloseOwn(s) ==
    /\ scanner[s] = "close"
    /\ IF cancelled[s]
       THEN /\ main' = "panicked"
            /\ UNCHANGED <<scanner, cancelled>>
       ELSE /\ cancelled' = [cancelled EXCEPT ![s] = TRUE]
            /\ Goto(s, "clear")
            /\ UNCHANGED main
    /\ UNCHANGED <<cur, matched, outcome, seen, results, stop, errCh, bluez, scanCancelChan,
                   signal, devices, connected, starting, cb, returned>>

ClearOwn(s) ==
    /\ scanner[s] = "clear"
    /\ scanCancelChan' = 0
    /\ Return(s, "err")

\* The callback of ble.Scan: blocks until the result is taken or stop is closed.
Callback(s) ==
    /\ scanner[s] \in {"presenting", "callback"}
    /\ CallbackSends(s, cb[s]) \/ CallbackReturns(s, cb[s])
    /\ cb' = [cb EXCEPT ![s] = NoFound]
    /\ Goto(s, IF scanner[s] = "presenting" THEN "presented" ELSE "top")
    /\ UNCHANGED <<main, cur, matched, outcome, seen, stop, errCh, bluez, scanCancelChan,
                   cancelled, signal, devices, connected, starting, returned>>

Scanner(s) ==
    \/ EnterScan(s) \/ SetupFails(s) \/ Publish(s) \/ SetFilter(s) \/ GetObjects(s)
    \/ \E a \in Addrs : Present(s, a)
    \/ Presented(s) \/ StartDiscovery(s)
    \/ Cancelled(s) \/ NotCancelled(s) \/ StartAnswered(s) \/ SeeCancel(s)
    \/ \E sig \in signal[s] : ReceiveDevice(s, sig) \/ ReceiveUnknown(s, sig) \/ ReceiveAdapter(s, sig)
    \/ CloseOwn(s) \/ ClearOwn(s) \/ SendErr(s) \/ Callback(s)

----------------------------------------------------------------------------
(* The calling goroutine: BleScan's steps and adapter.StopScan *)

Begin ==
    /\ BeginScan
    /\ Goto(cur + 1, "new")
    /\ UNCHANGED <<bluez, scanCancelChan, cancelled, signal, devices, connected, starting, cb, returned>>

\* StopScan finds the field nil (not set yet, or cleared by the scanner).
StopNotScanning ==
    /\ main = "stop" /\ scanCancelChan = 0
    /\ ReturnErr
    /\ UNCHANGED <<cur, matched, seen, results, stop, errCh, linuxVars>>

StopScanning ==
    /\ main = "stop" /\ scanCancelChan # 0
    /\ main' = "close"
    /\ UNCHANGED <<cur, matched, outcome, seen, results, stop, errCh, linuxVars>>

\* Defect: StopScan forgets to close the channel.
StopWithoutClose ==
    /\ main = "close"
    /\ main' = "clear"
    /\ UNCHANGED <<cur, matched, outcome, seen, results, stop, errCh, linuxVars>>

\* The field is read again; closing nil or a closed channel panics.
StopClose ==
    /\ main = "close"
    /\ IF scanCancelChan # 0 /\ ~cancelled[scanCancelChan]
       THEN /\ cancelled' = [cancelled EXCEPT ![scanCancelChan] = TRUE]
            /\ main' = "clear"
       ELSE /\ main' = "panicked"
            /\ UNCHANGED cancelled
    /\ UNCHANGED <<cur, matched, outcome, seen, results, stop, errCh, bluez, scanner,
                   scanCancelChan, signal, devices, connected, starting, cb, returned>>

StopClear ==
    /\ main = "clear"
    /\ scanCancelChan' = 0
    /\ main' = "wait"
    /\ UNCHANGED <<cur, matched, outcome, seen, results, stop, errCh, bluez, scanner,
                   cancelled, signal, devices, connected, starting, cb, returned>>

Caller ==
    \/ Begin \/ StopNotScanning \/ StopScanning \/ StopClose \/ StopClear
    \/ /\ AdapterFails \/ GiveUp \/ SkipDuplicate \/ Report \/ ScannerReturned \/ ScannerJoined
       /\ UNCHANGED linuxVars

Timer == TimerFires /\ UNCHANGED linuxVars

Next ==
    /\ main # "panicked"
    /\ Caller \/ Timer \/ BlueZ \/ \E s \in Scans : Scanner(s)

\* Goroutines that can run do, BlueZ answers method calls, and the timer channel
\* stays ready once it has fired while select picks among ready cases at random.
Fairness ==
    /\ WF_vars(main # "panicked" /\ Caller)
    /\ WF_vars(main # "panicked" /\ Timer)
    /\ \A s \in Scans : WF_vars(main # "panicked" /\ Scanner(s))

Spec == Init /\ [][Next]_vars /\ Fairness

----------------------------------------------------------------------------
(* Properties *)

Running(s) == scanner[s] \notin {"unused", "done"}

\* Scan waits for errCh "so a following Scan does not race the library's
\* single-scan guard" (ble.go:151): between two windows, and once Find has
\* ended without an error, no scanner goroutine runs and the adapter's field
\* is nil, although the field is set, closed and cleared by two goroutines.
QuietBetweenScans ==
    main = "ready" \/ outcome \in {"found", "notfound"} =>
        /\ scanCancelChan = 0
        /\ \A s \in Scans : ~Running(s)

\* No call ever meets the single-scan guard ("already calling Scan function").
NeverScanning == \A s \in Scans : returned[s] # "errScanning"

\* Find throws a device it has found away only when adapter.Scan itself has failed,
\* though it may still be returning: a result proves that the field was set, so
\* StopScan can only find it cleared by the scanner.
MatchIsKept == matched /\ outcome = "err" => returned[cur] = "err"

\* Find's error leaves no scanner behind that goes on, but for one which has not
\* set its field when the timer fires (StopScan: "not scanning"); one that is
\* returning has cleared it, and may still be at its deferred calls.
ErrorEndsScanner ==
    [][outcome # "err" /\ outcome' = "err" =>
          \A s \in Scans : scanner[s] \in {"unused", "new", "power", "returning", "done"}]_vars

\* Every Scan returns: main never waits on errCh for a scanner that cannot end.
ScanReturns == main = "loop" ~> main \in {"ready", "exited", "panicked"}

\* "If no scan is in progress, an error will be returned" (gap_linux.go:364):
\* StopScan answers, whatever the scanner does meanwhile.
StopScanAnswers == main # "panicked"

----------------------------------------------------------------------------
\* What the caller of Find can tell of the two goroutines.
Phase == CASE main = "ready" -> "ready"
           [] main = "loop" -> "scanning"
           [] main \in {"stop", "close", "clear", "wait"} -> "closing"
           [] main = "exited" -> outcome
           [] OTHER -> "err"

Search == INSTANCE DeviceSearch WITH
    phase    <- Phase,
    running  <- {s \in Scans : Running(s)},
    last     <- seen,
    Sessions <- Scans

\* The two goroutines implement the search promised to the caller.
RefinesSearch == Search!Spec
=============================================================================
