------------------------------ MODULE ScanDarwin ------------------------------
(***************************************************************************)
(* ble.Scan over the macOS adapter (gap_darwin.go, adapter_darwin.go): the *)
(* calling goroutine, one scanner goroutine per call inside adapter.Scan,  *)
(* and CoreBluetooth, which runs the adapter's delegate on a queue of its  *)
(* own.  The fields peripheralFoundHandler and scanChan are shared with no *)
(* lock; StopScan hands its signal over on an unbuffered channel.          *)
(***************************************************************************)
EXTENDS BleScan

CONSTANT MaxQueue   \* bound: discoveries on their way to the delegate

Absent == "absent"

ASSUME ScanDarwinAssumption == MaxQueue \in Nat \ {0} /\ Absent \notin Names

NoFound == [addr |-> Absent, name |-> Absent]

VARIABLES
    scanner,   \* scanner[s]: where the goroutine of call s is
    handler,   \* peripheralFoundHandler: the call whose callback it is, 0 for nil
    scanChan,  \* the adapter's field: 0 for nil, s for the channel of call s
    radio,     \* the call for which CoreBluetooth scans, or 0
    queue,     \* discoveries on their way to the delegate
    cbScan,    \* the call whose callback the delegate runs, 0 when it runs none
    cb         \* the result that callback holds

darwinVars == <<scanner, handler, scanChan, radio, queue, cbScan, cb>>
vars       == <<bleVars, darwinVars>>

ScannerPcs == {"unused", "new", "handler", "field", "scan", "select", "close", "clear", "done"}

TypeOK ==
    /\ BleTypeOK
    /\ scanner \in [Scans -> ScannerPcs]
    /\ handler \in 0 .. MaxScans /\ scanChan \in 0 .. MaxScans /\ radio \in 0 .. MaxScans
    /\ queue \in Seq(Founds)
    /\ cbScan \in 0 .. MaxScans
    /\ cb \in Founds \cup {NoFound}

Init ==
    /\ BleInit
    /\ scanner = [s \in Scans |-> "unused"]
    /\ handler = 0 /\ scanChan = 0 /\ radio = 0
    /\ queue = <<>> /\ cbScan = 0 /\ cb = NoFound

----------------------------------------------------------------------------
(* CoreBluetooth and the delegate *)

\* What is on its way when the scan is stopped still arrives.
Discovers(f) ==
    /\ radio # 0 /\ Len(queue) < MaxQueue
    /\ queue' = Append(queue, f)
    /\ UNCHANGED <<bleVars, scanner, handler, scanChan, radio, cbScan, cb>>

\* DidDiscoverPeripheral calls the handler there is now.
DidDiscover ==
    /\ queue # <<>> /\ cbScan = 0
    /\ queue' = Tail(queue)
    /\ cbScan' = handler
    /\ cb' = IF handler # 0 THEN Head(queue) ELSE NoFound
    /\ UNCHANGED <<bleVars, scanner, handler, scanChan, radio>>

\* The callback of ble.Scan: blocks until the result is taken or stop is closed.
Callback ==
    /\ cbScan # 0
    /\ CallbackSends(cbScan, cb) \/ CallbackReturns(cbScan, cb)
    /\ cbScan' = 0 /\ cb' = NoFound
    /\ UNCHANGED <<main, cur, matched, outcome, seen, stop, errCh,
                   scanner, handler, scanChan, radio, queue>>

Delegate == DidDiscover \/ Callback

----------------------------------------------------------------------------
(* adapter.Scan, run by the goroutine of call s *)

Goto(s, pc) == scanner' = [scanner EXCEPT ![s] = pc]

Return(s, v) ==
    /\ Goto(s, "done")
    /\ errCh' = [errCh EXCEPT ![s] = v]
    /\ UNCHANGED <<main, cur, matched, outcome, seen, results, stop, handler, radio, queue, cbScan, cb>>

\* The single-scan guard.
EnterScan(s) ==
    /\ scanner[s] = "new"
    /\ IF scanChan # 0
       THEN Return(s, "errScanning")
       ELSE /\ Goto(s, "handler")
            /\ UNCHANGED <<bleVars, handler, radio, queue, cbScan, cb>>
    /\ UNCHANGED scanChan

SetHandler(s) ==
    /\ scanner[s] = "handler"
    /\ handler' = s
    /\ Goto(s, "field")
    /\ UNCHANGED <<bleVars, scanChan, radio, queue, cbScan, cb>>

\* Defect: the channel is made but not kept in the adapter.
PublishNowhere(s) ==
    /\ scanner[s] = "field"
    /\ Goto(s, "scan")
    /\ UNCHANGED <<bleVars, handler, scanChan, radio, queue, cbScan, cb>>

Publish(s) ==
    /\ scanner[s] = "field"
    /\ scanChan' = s
    /\ Goto(s, "scan")
    /\ UNCHANGED <<bleVars, handler, radio, queue, cbScan, cb>>

StartRadio(s) ==
    /\ scanner[s] = "scan"
    /\ radio' = s
    /\ Goto(s, "select")
    /\ UNCHANGED <<bleVars, handler, scanChan, queue, cbScan, cb>>

\* close(a.scanChan) reads the field, which nobody else changes.
CloseOwn(s) ==
    /\ scanner[s] = "close"
    /\ Goto(s, "clear")
    /\ UNCHANGED <<bleVars, handler, scanChan, radio, queue, cbScan, cb>>

\* Defect: the field keeps the closed channel.
ReturnUncleared(s) ==
    /\ scanner[s] = "clear"
    /\ UNCHANGED scanChan
    /\ Return(s, "nil")

ClearOwn(s) ==
    /\ scanner[s] = "clear"
    /\ scanChan' = 0
    /\ Return(s, "nil")

Scanner(s) ==
    \/ EnterScan(s) \/ SetHandler(s) \/ Publish(s) \/ StartRadio(s)
    \/ CloseOwn(s) \/ ClearOwn(s)

----------------------------------------------------------------------------
(* The calling goroutine: BleScan's steps and adapter.StopScan.  StopScan goes *)
(* through "stop" (is a scan on?), "close" (the send) and "clear" (the radio). *)

Begin ==
    /\ BeginScan
    /\ Goto(cur + 1, "new")
    /\ UNCHANGED <<handler, scanChan, radio, queue, cbScan, cb>>

StopNotScanning ==
    /\ main = "stop" /\ scanChan = 0
    /\ ReturnErr
    /\ UNCHANGED <<cur, matched, seen, results, stop, errCh, darwinVars>>

StopScanning ==
    /\ main = "stop" /\ scanChan # 0
    /\ main' = "close"
    /\ UNCHANGED <<cur, matched, outcome, seen, results, stop, errCh, darwinVars>>

\* Defect: StopScan does not wait for the scanner to receive.
SendAndForget ==
    /\ main = "close"
    /\ main' = "clear"
    /\ UNCHANGED <<cur, matched, outcome, seen, results, stop, errCh, darwinVars>>

\* a.scanChan <- nil meets the scanner's receive.
StopSend ==
    /\ main = "close" /\ scanChan # 0 /\ scanner[scanChan] = "select"
    /\ main' = "clear"
    /\ Goto(scanChan, "close")
    /\ UNCHANGED <<cur, matched, outcome, seen, results, stop, errCh,
                   handler, scanChan, radio, queue, cbScan, cb>>

\* Defect: the radio goes on scanning.
StopLeavesRadio ==
    /\ main = "clear"
    /\ main' = "wait"
    /\ UNCHANGED <<cur, matched, outcome, seen, results, stop, errCh, darwinVars>>

StopRadio ==
    /\ main = "clear"
    /\ radio' = 0
    /\ main' = "wait"
    /\ UNCHANGED <<cur, matched, outcome, seen, results, stop, errCh,
                   scanner, handler, scanChan, queue, cbScan, cb>>

Caller ==
    \/ Begin \/ StopNotScanning \/ StopScanning \/ StopSend \/ StopRadio
    \/ /\ AdapterFails \/ GiveUp \/ SkipDuplicate \/ Report \/ ScannerReturned \/ ScannerJoined
       /\ UNCHANGED darwinVars

Timer == TimerFires /\ UNCHANGED darwinVars

Next ==
    \/ Caller \/ Timer \/ Delegate
    \/ \E f \in Founds : Discovers(f)
    \/ \E s \in Scans : Scanner(s)

\* Goroutines and the delegate's queue that can run do, and the timer channel
\* stays ready once it has fired while select picks among ready cases at random.
Fairness ==
    /\ WF_vars(Caller) /\ WF_vars(Timer) /\ WF_vars(Delegate)
    /\ \A s \in Scans : WF_vars(Scanner(s))

Spec == Init /\ [][Next]_vars /\ Fairness

----------------------------------------------------------------------------
(* Properties *)

\* A session is the goroutine of a call or the radio that scans for it.
Running(s) == scanner[s] \notin {"unused", "done"} \/ radio = s

\* Scan waits for errCh "so a following Scan does not race the library's
\* single-scan guard" (ble.go:151): between two windows, and once Find has ended
\* without an error, the field is nil, no scanner runs and the radio is quiet.
QuietBetweenScans ==
    main = "ready" \/ outcome \in {"found", "notfound"} =>
        scanChan = 0 /\ \A s \in Scans : ~Running(s)

\* Find fails only when StopScan comes before the scanner has set its field.  A
\* device that was found is thrown away like that only when it was news of the
\* window before, still on its way, and met the new handler before the new field.
FailsOnlyEarly ==
    [][outcome # "err" /\ outcome' = "err" /\ cur # 0 =>
          /\ scanner[cur] \in {"new", "handler", "field"}
          /\ matched => cur > 1 /\ scanner[cur] = "field"]_vars

\* Nothing lasts: neither StopScan's send, nor the wait for errCh, nor the callback
\* of a window that is over, which would hold up the queue Connect depends on.
NobodyIsStuck ==
    /\ main = "loop" ~> main \in {"ready", "exited"}
    /\ \A s \in Scans : cbScan = s ~> cbScan # s

----------------------------------------------------------------------------
Phase == CASE main = "ready" -> "ready"
           [] main = "loop" -> "scanning"
           [] main \in {"stop", "close", "clear", "wait"} -> "closing"
           [] main = "exited" -> outcome
           [] OTHER -> "err"

Search == INSTANCE DeviceSearch WITH
    phase    <- Phase,
    running  <- {s \in Scans : Running(s)},
    last     <- seen,
    Sessions <- Scans

\* The goroutines, the delegate and the radio implement the search promised to
\* the caller.
RefinesSearch == Search!Spec
=============================================================================
