--------------------------- MODULE ScanLinuxProofs ---------------------------
(* Theorems about ScanLinux for every value of its constants. *)
EXTENDS ScanLinux, TLAPS

----------------------------------------------------------------------------
(* The inductive invariant behind QuietBetweenScans, NeverScanning and       *)
(* MatchIsKept.                                                              *)

InScan == main \in {"loop", "stop", "close", "clear", "wait"}

\* Call cur is the only one that can be under way: later ones have not begun,
\* earlier ones are over; what one returns is decided when it begins to return, and
\* errCh holds it exactly when it is over.
Decided(s) ==
    /\ returned[s] # "empty" <=> scanner[s] \in {"returning", "done"}
    /\ errCh[s] = IF scanner[s] = "done" THEN returned[s] ELSE "empty"

OneCall ==
    /\ InScan => cur # 0
    /\ \A s \in Scans :
         /\ s > cur => scanner[s] = "unused" /\ ~cancelled[s] /\ results[s] = <<>>
         /\ s = cur => scanner[s] # "unused"
         /\ s < cur => scanner[s] = "done"
         /\ Decided(s)

\* The field is set once per call, by Publish.
FieldOwned ==
    /\ scanCancelChan \in {0, cur}
    /\ \A s \in Scans : scanner[s] \in {"new", "power"} => scanCancelChan = 0 /\ ~cancelled[s]
    /\ cur # 0 /\ main \in {"close", "clear", "wait"} => scanner[cur] \notin {"new", "power"}
    /\ main = "wait" => scanCancelChan = 0

\* Until StopScan closes the channel, only a failing scanner has closed it, and
\* the scanner cannot return nil; one that has cleared the field has failed, even
\* while errCh is still empty.
StopOwned ==
    cur # 0 /\ main \in {"loop", "stop", "close"} =>
        /\ returned[cur] # "nil"
        /\ cancelled[cur] => scanner[cur] \in {"clear", "returning", "done"}
        /\ scanCancelChan = 0 => scanner[cur] \in {"new", "power", "returning", "done"}

\* A result, and so a match, proves that the field was set.
ResultsProve ==
    /\ \A s \in Scans :
         /\ scanner[s] \in {"new", "power"} => results[s] = <<>>
         /\ scanner[s] \in {"presenting", "callback"} => cb[s] \in Founds
         /\ \A a \in connected[s] : Knows(s, a)
    /\ matched => cur # 0 /\ main \notin {"ready", "loop"}
    /\ cur # 0 /\ matched => scanner[cur] \notin {"new", "power"}

OutcomeWhenOver ==
    /\ main \notin {"exited", "panicked"} => outcome = "none"
    /\ main = "exited" => outcome # "none"

Protocol ==
    /\ TypeOK /\ OneCall /\ FieldOwned /\ StopOwned /\ ResultsProve /\ OutcomeWhenOver
    /\ QuietBetweenScans /\ NeverScanning /\ MatchIsKept

----------------------------------------------------------------------------

\* Before the first window nothing runs.
LEMMA InitProtocol == Init => Protocol
<1> SUFFICES ASSUME Init PROVE Protocol
  OBVIOUS
<1> USE BleScanAssumption DEF Init, BleInit, Scans
<1>1. TypeOK
  <2>1. BleTypeOK
    <3>1. main \in MainPcs /\ cur \in 0 .. MaxScans /\ outcome \in Outcomes
      BY DEF MainPcs, Outcomes
    <3>6. matched \in BOOLEAN
      OBVIOUS
    <3>2. seen \in [Addrs -> Names \cup {Unseen}]
      OBVIOUS
    <3>3. <<>> \in Seq(Founds)
      OBVIOUS
    <3>4. results \in [Scans -> Seq(Founds)]
      BY <3>3
    <3>5. stop \in [Scans -> BOOLEAN] /\ errCh \in [Scans -> Returns]
      BY DEF Returns
    <3> QED BY <3>1, <3>2, <3>4, <3>5, <3>6 DEF BleTypeOK
  <2>2. /\ bluez \in [Addrs -> Names \cup {Absent}]
        /\ scanner \in [Scans -> ScannerPcs]
        /\ scanCancelChan \in 0 .. MaxScans
        /\ cancelled \in [Scans -> BOOLEAN]
    BY DEF ScannerPcs
  <2>3. devices \in [Scans -> [Addrs -> Names \cup {Absent}]]
    BY DEF NoDevices
  <2>4. /\ signal \in [Scans -> SUBSET Signals]
        /\ connected \in [Scans -> SUBSET Addrs]
        /\ starting \in SUBSET Scans
        /\ cb \in [Scans -> Founds \cup {NoFound}]
        /\ returned \in [Scans -> Returns]
    BY DEF Returns
  <2> QED BY <2>1, <2>2, <2>3, <2>4 DEF TypeOK
<1>2. OneCall /\ FieldOwned /\ StopOwned /\ ResultsProve /\ OutcomeWhenOver
  BY DEF OneCall, Decided, FieldOwned, StopOwned, ResultsProve, OutcomeWhenOver, InScan
<1>3. QuietBetweenScans /\ NeverScanning /\ MatchIsKept
  BY DEF QuietBetweenScans, NeverScanning, MatchIsKept, Running
<1> QED BY <1>1, <1>2, <1>3 DEF Protocol

----------------------------------------------------------------------------
(* Type correctness, one step per action *)

\* The calling goroutine keeps the types.
LEMMA TypeCaller ==
  ASSUME Protocol, Caller \/ Timer
  PROVE  TypeOK'
<1> USE BleScanAssumption DEF Protocol, TypeOK, BleTypeOK, MainPcs, Outcomes, Scans
<1>1. CASE Begin
  BY <1>1 DEF Begin, BeginScan, Goto, ScannerPcs
<1>2. CASE StopNotScanning \/ StopScanning
  BY <1>2 DEF StopNotScanning, StopScanning, ReturnErr, linuxVars
<1>6. CASE StopClear
  BY <1>6 DEF StopClear
<1>7. CASE StopClose
  BY <1>7 DEF StopClose
<1>3. CASE (AdapterFails \/ GiveUp \/ ScannerReturned \/ ScannerJoined) /\ UNCHANGED linuxVars
  BY <1>3 DEF AdapterFails, GiveUp, ScannerReturned, ScannerJoined, ReturnNil, ReturnErr, linuxVars
<1>4. CASE (SkipDuplicate \/ Report) /\ UNCHANGED linuxVars
  <2>1. results[cur] \in Seq(Founds) /\ results[cur] # <<>>
    BY <1>4 DEF SkipDuplicate, Report, OneCall, InScan
  <2>2. Head(results[cur]) \in Founds /\ Tail(results[cur]) \in Seq(Founds)
    BY <2>1
  <2>3. results' \in [Scans -> Seq(Founds)]
    BY <1>4, <2>2 DEF SkipDuplicate, Report
  <2>4. seen' \in [Addrs -> Names \cup {Unseen}]
    BY <1>4, <2>2 DEF SkipDuplicate, Report, Founds
  <2> QED BY <1>4, <2>3, <2>4 DEF SkipDuplicate, Report, linuxVars
<1>5. CASE Timer
  BY <1>5 DEF Timer, TimerFires, linuxVars
<1> QED BY <1>1, <1>2, <1>3, <1>4, <1>5, <1>6, <1>7 DEF Caller

\* A scanner that returns keeps the types.
LEMMA ReturnType ==
  ASSUME TypeOK, NEW s \in Scans, NEW v \in Returns, Return(s, v), scanCancelChan' \in 0 .. MaxScans
  PROVE  TypeOK'
<1>1. signal' \in [Scans -> SUBSET Signals] /\ connected' \in [Scans -> SUBSET Addrs]
  BY DEF TypeOK, Return
<1>2. devices' \in [Scans -> [Addrs -> Names \cup {Absent}]]
  BY DEF TypeOK, Return, NoDevices
<1>3. scanner' \in [Scans -> ScannerPcs] /\ starting' \in SUBSET Scans /\ returned' \in [Scans -> Returns]
  BY DEF TypeOK, Return, Goto, ScannerPcs
<1>4. BleTypeOK'
  BY DEF TypeOK, BleTypeOK, Return, bleVars
<1> QED BY <1>1, <1>2, <1>3, <1>4 DEF TypeOK, Return

\* A scanner keeps the types.
LEMMA TypeScanner ==
  ASSUME Protocol, NEW s \in Scans, Scanner(s)
  PROVE  TypeOK'
<1> USE BleScanAssumption DEF Protocol
<1>1. CASE EnterScan(s)
  BY <1>1, ReturnType DEF EnterScan, TypeOK, BleTypeOK, bleVars, Goto, ScannerPcs, Returns
<1>2. CASE SetupFails(s)
  BY <1>2, ReturnType DEF SetupFails, TypeOK, Returns
<1>3. CASE SetFilter(s) \/ NotCancelled(s) \/ SeeCancel(s)
  BY <1>3 DEF SetFilter, NotCancelled, SeeCancel, TypeOK, BleTypeOK, bleVars, Goto, ScannerPcs
<1>14. CASE Publish(s)
  BY <1>14 DEF Publish, TypeOK, BleTypeOK, bleVars, Goto, ScannerPcs, Scans
<1>4. CASE GetObjects(s)
  BY <1>4 DEF GetObjects, TypeOK, BleTypeOK, bleVars, Goto, ScannerPcs
<1>5. ASSUME NEW a \in Addrs, Present(s, a) PROVE TypeOK'
  <2>1. devices[s][a] \in Names
    BY <1>5 DEF Present, ResultsProve, Knows, TypeOK
  <2>2. cb' \in [Scans -> Founds \cup {NoFound}]
    BY <1>5, <2>1 DEF Present, TypeOK, Founds
  <2>3. connected' \in [Scans -> SUBSET Addrs]
    BY <1>5 DEF Present, TypeOK
  <2> QED BY <1>5, <2>2, <2>3 DEF Present, TypeOK, BleTypeOK, bleVars, Goto, ScannerPcs
<1>6. CASE Presented(s)
  BY <1>6, ReturnType DEF Presented, TypeOK, BleTypeOK, bleVars, Goto, ScannerPcs, Returns
<1>7. CASE StartDiscovery(s) \/ StartAnswered(s)
  BY <1>7 DEF StartDiscovery, StartAnswered, TypeOK, BleTypeOK, bleVars, Goto, ScannerPcs
<1>8. CASE Cancelled(s)
  BY <1>8, ReturnType DEF Cancelled, TypeOK, Returns
<1>9. ASSUME NEW sig \in signal[s], ReceiveDevice(s, sig) PROVE TypeOK'
  <2>1. sig \in Signals /\ sig.dev \in Founds
    BY <1>9 DEF ReceiveDevice, TypeOK, Signals
  <2>2. sig.dev.addr \in Addrs /\ sig.dev.name \in Names
    BY <2>1 DEF Founds
  <2>3. devices' \in [Scans -> [Addrs -> Names \cup {Absent}]]
    BY <1>9, <2>2 DEF ReceiveDevice, TypeOK
  <2>4. cb' \in [Scans -> Founds \cup {NoFound}] /\ signal' \in [Scans -> SUBSET Signals]
    BY <1>9, <2>1 DEF ReceiveDevice, Receive, TypeOK
  <2> QED BY <1>9, <2>3, <2>4 DEF ReceiveDevice, Receive, TypeOK, BleTypeOK, bleVars, Goto, ScannerPcs
<1>10. ASSUME NEW sig \in signal[s], ReceiveUnknown(s, sig) \/ ReceiveAdapter(s, sig) PROVE TypeOK'
  <2>1. signal' \in [Scans -> SUBSET Signals]
    BY <1>10 DEF ReceiveUnknown, ReceiveAdapter, Receive, TypeOK
  <2> QED BY <1>10, <2>1 DEF ReceiveUnknown, ReceiveAdapter, Receive, TypeOK, BleTypeOK, bleVars, Goto, ScannerPcs
<1>11. CASE CloseOwn(s)
  BY <1>11 DEF CloseOwn, TypeOK, BleTypeOK, MainPcs, Goto, ScannerPcs
<1>12. CASE ClearOwn(s)
  BY <1>12, ReturnType DEF ClearOwn, TypeOK, Returns
<1>13. CASE Callback(s)
  <2>1. cb[s] \in Founds
    BY <1>13 DEF Callback, ResultsProve
  <2>2. results' \in [Scans -> Seq(Founds)]
    <3>1. results[s] \in Seq(Founds)
      BY DEF TypeOK, BleTypeOK
    <3>2. Append(results[s], cb[s]) \in Seq(Founds)
      BY <2>1, <3>1
    <3> QED BY <1>13, <3>2 DEF Callback, CallbackSends, CallbackReturns, TypeOK, BleTypeOK
  <2> QED BY <1>13, <2>2 DEF Callback, TypeOK, BleTypeOK, Goto, ScannerPcs
<1>15. CASE SendErr(s)
  BY <1>15 DEF SendErr, TypeOK, BleTypeOK, Goto, ScannerPcs
<1> QED BY <1>1, <1>2, <1>3, <1>4, <1>5, <1>6, <1>7, <1>8, <1>9, <1>10, <1>11, <1>12, <1>13, <1>14, <1>15
        DEF Scanner

\* BlueZ keeps the types.
LEMMA TypeBlueZ ==
  ASSUME Protocol, BlueZ
  PROVE  TypeOK'
<1>1. ASSUME NEW sig \in Signals, Emit(sig) PROVE signal' \in [Scans -> SUBSET Signals]
  BY <1>1 DEF Emit, Protocol, TypeOK
<1>2. ASSUME NEW a \in Addrs, NEW n \in Names, DeviceAppears(a, n) \/ DeviceChanges(a, n) PROVE TypeOK'
  <2>1. /\ [kind |-> "added", dev |-> [addr |-> a, name |-> n]] \in Signals
        /\ [kind |-> "changed", dev |-> [addr |-> a, name |-> n]] \in Signals
    BY DEF Signals, Founds
  <2>2. signal' \in [Scans -> SUBSET Signals]
    BY <1>1, <1>2, <2>1 DEF DeviceAppears, DeviceChanges
  <2> QED BY <1>2, <2>2 DEF DeviceAppears, DeviceChanges, Protocol, TypeOK, BleTypeOK, bleVars
<1>3. ASSUME NEW k \in {"off", "stopped"}, AdapterStops(k) PROVE TypeOK'
  <2>1. [kind |-> k, dev |-> NoFound] \in Signals
    BY DEF Signals
  <2>2. signal' \in [Scans -> SUBSET Signals]
    BY <1>1, <1>3, <2>1 DEF AdapterStops
  <2> QED BY <1>3, <2>2 DEF AdapterStops, Protocol, TypeOK, BleTypeOK, bleVars
<1> QED BY <1>2, <1>3 DEF BlueZ
----------------------------------------------------------------------------
(* Who runs: at most one call, and its errCh is filled when it is over *)

\* A new call begins only when the one before is over.
LEMMA OneCallCaller ==
  ASSUME Protocol, Caller \/ Timer
  PROVE  OneCall'
<1> USE DEF Protocol
<1>0. cur \in Nat /\ Scans \subseteq Nat
  BY BleScanAssumption DEF TypeOK, BleTypeOK, Scans
<1>1. CASE Begin
  <2>1. cur' = cur + 1 /\ scanner' = [scanner EXCEPT ![cur + 1] = "new"] /\ UNCHANGED <<cancelled, results, errCh, returned>>
    BY <1>1 DEF Begin, BeginScan, Goto
  <2>2. \A s \in Scans : scanner[s] \in {"unused", "done"}
    BY <1>1 DEF Begin, BeginScan, QuietBetweenScans, Running
  <2>3. ASSUME NEW s \in Scans
        PROVE  /\ s > cur' => scanner'[s] = "unused" /\ ~cancelled'[s] /\ results'[s] = <<>>
               /\ s = cur' => scanner'[s] # "unused"
               /\ s < cur' => scanner'[s] = "done"
               /\ Decided(s)'
    <3>1. s \in Nat /\ (s > cur' => s > cur) /\ (s < cur' => s < cur \/ s = cur) /\ (s = cur' => s > cur)
      BY <1>0, <2>1
    <3>2. s # cur' => scanner'[s] = scanner[s]
      BY <2>1
    <3>3. s = cur' => scanner'[s] = "new"
      BY <2>1 DEF TypeOK
    <3> QED BY <2>1, <2>2, <3>1, <3>2, <3>3 DEF OneCall, Decided
  <2>4. cur' # 0
    BY <1>0, <2>1
  <2> QED BY <2>3, <2>4 DEF OneCall
<1>2. CASE StopNotScanning \/ StopScanning \/ StopClear
  BY <1>2 DEF StopNotScanning, StopScanning, StopClear, ReturnErr, linuxVars, OneCall, Decided, InScan
<1>3. CASE StopClose
  <2>1. ASSUME NEW s \in Scans, s > cur PROVE cancelled'[s] = cancelled[s]
    BY <1>0, <1>3, <2>1 DEF StopClose, FieldOwned, TypeOK
  <2> QED BY <1>3, <2>1 DEF StopClose, OneCall, Decided, InScan
<1>4. CASE (AdapterFails \/ GiveUp \/ ScannerReturned \/ ScannerJoined) /\ UNCHANGED linuxVars
  BY <1>4 DEF AdapterFails, GiveUp, ScannerReturned, ScannerJoined, ReturnNil, ReturnErr, linuxVars, OneCall, Decided, InScan
<1>5. CASE (SkipDuplicate \/ Report) /\ UNCHANGED linuxVars
  <2>1. ASSUME NEW s \in Scans, s > cur PROVE results'[s] = results[s]
    BY <1>0, <1>5, <2>1 DEF SkipDuplicate, Report, TypeOK, BleTypeOK
  <2> QED BY <1>5, <2>1 DEF SkipDuplicate, Report, linuxVars, OneCall, Decided, InScan
<1>6. CASE Timer
  BY <1>6 DEF Timer, TimerFires, linuxVars, OneCall, Decided, InScan
<1> QED BY <1>1, <1>2, <1>3, <1>4, <1>5, <1>6 DEF Caller

\* What a step of the scanner of call s leaves alone, and where it ends up.
Frame(s) ==
    /\ UNCHANGED <<cur, matched, outcome, seen, stop>>
    /\ main' \in {main, "panicked"}
    /\ \A t \in Scans \ {s} :
         /\ scanner'[t] = scanner[t] /\ errCh'[t] = errCh[t] /\ returned'[t] = returned[t]
         /\ cancelled'[t] = cancelled[t]
         /\ results'[t] = results[t] /\ cb'[t] = cb[t] /\ connected'[t] = connected[t]
         /\ devices'[t] = devices[t]
    /\ scanner'[s] \notin {"unused", "new"}
    /\ Decided(s)'

\* Only the scanner of the current call takes steps.
LEMMA ScannerRuns ==
  ASSUME Protocol, NEW s \in Scans, Scanner(s)
  PROVE  Running(s) /\ s = cur /\ cur \in Nat
<1>1. Running(s)
  BY DEF Running, Scanner, EnterScan, SetupFails, Publish, SetFilter, GetObjects, Present, Presented,
     StartDiscovery, Cancelled, NotCancelled, StartAnswered, SeeCancel, ReceiveDevice,
     ReceiveUnknown, ReceiveAdapter, Receive, CloseOwn, ClearOwn, SendErr, Callback
<1> QED BY <1>1, BleScanAssumption DEF Protocol, TypeOK, BleTypeOK, OneCall, Running, Scans

\* A scanner changes no other call's variables.
LEMMA ScannerFrame ==
  ASSUME Protocol, NEW s \in Scans, Scanner(s)
  PROVE  Frame(s)
<1> USE DEF Protocol, TypeOK, BleTypeOK, OneCall, Decided, Goto, Frame
<1>1. Running(s)
  BY ScannerRuns
<1>2. CASE EnterScan(s)
  BY <1>1, <1>2 DEF EnterScan, Return, Running, bleVars
<1>3. CASE SetupFails(s) \/ Cancelled(s) \/ ClearOwn(s)
  BY <1>1, <1>3 DEF SetupFails, Cancelled, ClearOwn, Return, Returns, bleVars
<1>4. CASE Publish(s) \/ SetFilter(s) \/ NotCancelled(s) \/ SeeCancel(s)
  BY <1>1, <1>4 DEF Publish, SetFilter, NotCancelled, SeeCancel, Running, bleVars
<1>5. CASE GetObjects(s) \/ StartDiscovery(s) \/ StartAnswered(s)
  BY <1>1, <1>5 DEF GetObjects, StartDiscovery, StartAnswered, Running, bleVars
<1>6. ASSUME NEW a \in Addrs, Present(s, a) PROVE Frame(s)
  BY <1>1, <1>6 DEF Present, Running, bleVars
<1>7. CASE Presented(s)
  BY <1>1, <1>7 DEF Presented, Return, Running, bleVars
<1>8. ASSUME NEW sig \in signal[s], ReceiveDevice(s, sig) \/ ReceiveUnknown(s, sig) \/ ReceiveAdapter(s, sig)
      PROVE  Frame(s)
  BY <1>1, <1>8 DEF ReceiveDevice, ReceiveUnknown, ReceiveAdapter, Receive, Running, bleVars
<1>9. CASE CloseOwn(s)
  BY <1>1, <1>9 DEF CloseOwn, Running
<1>10. CASE Callback(s)
  BY <1>1, <1>10 DEF Callback, CallbackSends, CallbackReturns, Running
<1>11. CASE SendErr(s)
  BY <1>1, <1>11 DEF SendErr, Running
<1> QED BY <1>2, <1>3, <1>4, <1>5, <1>6, <1>7, <1>8, <1>9, <1>10, <1>11 DEF Scanner

\* A scanner that returns fills its own errCh.
LEMMA OneCallScanner ==
  ASSUME Protocol, NEW s \in Scans, Scanner(s)
  PROVE  OneCall'
<1>1. s = cur /\ cur \in Nat /\ Frame(s)
  BY ScannerRuns, ScannerFrame
<1>2. InScan' => InScan
  BY <1>1 DEF Frame, InScan
<1>3. ASSUME NEW t \in Scans
      PROVE  /\ t > cur' => scanner'[t] = "unused" /\ ~cancelled'[t] /\ results'[t] = <<>>
             /\ t = cur' => scanner'[t] # "unused"
             /\ t < cur' => scanner'[t] = "done"
             /\ Decided(t)'
  <2>1. CASE t = s
    BY <1>1, <2>1 DEF Frame
  <2>2. CASE t # s
    BY <1>1, <2>2 DEF Frame, Protocol, OneCall, Decided
  <2> QED BY <2>1, <2>2
<1> QED BY <1>1, <1>2, <1>3 DEF Frame, OneCall, Protocol

----------------------------------------------------------------------------
(* The adapter's field and the channel of the call under way *)

\* StopScan closes and clears the channel of its own call.
LEMMA FieldCaller ==
  ASSUME Protocol, Caller \/ Timer
  PROVE  FieldOwned' /\ StopOwned'
<1> USE DEF Protocol
<1>0. cur \in Nat /\ Scans \subseteq Nat /\ (cur # 0 => cur \in Scans)
  BY BleScanAssumption DEF TypeOK, BleTypeOK, Scans
<1>1. CASE Begin
  <2>1. /\ cur' = cur + 1 /\ scanner' = [scanner EXCEPT ![cur + 1] = "new"] /\ main' = "loop"
        /\ UNCHANGED <<cancelled, returned, scanCancelChan>>
    BY <1>1 DEF Begin, BeginScan, Goto
  <2>2. scanCancelChan = 0 /\ \A s \in Scans : scanner[s] \in {"unused", "done"}
    BY <1>1 DEF Begin, BeginScan, QuietBetweenScans, Running
  <2>3. cur + 1 \in Scans /\ cur + 1 > cur
    BY <1>0, <1>1, BleScanAssumption DEF Begin, BeginScan, Scans
  <2>4. returned[cur + 1] = "empty" /\ ~cancelled[cur + 1] /\ scanner'[cur + 1] = "new"
    BY <2>1, <2>3 DEF OneCall, Decided, TypeOK
  <2>5. \A s \in Scans : scanner'[s] \in {"new", "power"} => s = cur + 1
    BY <2>1, <2>2 DEF TypeOK
  <2> QED BY <2>1, <2>2, <2>4, <2>5 DEF FieldOwned, StopOwned
<1>2. CASE StopNotScanning \/ StopScanning
  BY <1>0, <1>2 DEF StopNotScanning, StopScanning, ReturnErr, linuxVars, FieldOwned, StopOwned
<1>3. CASE StopClose
  BY <1>0, <1>3 DEF StopClose, FieldOwned, StopOwned, TypeOK
<1>4. CASE StopClear
  BY <1>4 DEF StopClear, FieldOwned, StopOwned
<1>5. CASE (AdapterFails \/ GiveUp \/ ScannerReturned \/ ScannerJoined) /\ UNCHANGED linuxVars
  BY <1>5 DEF AdapterFails, GiveUp, ScannerReturned, ScannerJoined, ReturnNil, ReturnErr, linuxVars, FieldOwned, StopOwned
<1>6. CASE (SkipDuplicate \/ Report) /\ UNCHANGED linuxVars
  BY <1>6 DEF SkipDuplicate, Report, linuxVars, FieldOwned, StopOwned
<1>7. CASE Timer
  BY <1>7 DEF Timer, TimerFires, linuxVars, FieldOwned, StopOwned
<1> QED BY <1>1, <1>2, <1>3, <1>4, <1>5, <1>6, <1>7 DEF Caller

\* A scanner publishes its own channel once, and clears it only when it fails.
LEMMA FieldScanner ==
  ASSUME Protocol, NEW s \in Scans, Scanner(s)
  PROVE  FieldOwned' /\ StopOwned'
<1> USE DEF Protocol
<1>0. s = cur /\ cur # 0 /\ Frame(s)
  BY ScannerRuns, ScannerFrame, BleScanAssumption DEF Scans
<1>1. \A t \in Scans \ {s} : scanner'[t] \notin {"new", "power"}
  BY <1>0 DEF Frame, OneCall, TypeOK, BleTypeOK, Scans
<1> USE <1>0, <1>1 DEF FieldOwned, StopOwned, OneCall, Decided, TypeOK, BleTypeOK, Goto
<1>2. CASE EnterScan(s)
  BY <1>2 DEF EnterScan, Return, bleVars
<1>3. CASE SetupFails(s)
  BY <1>3 DEF SetupFails, Return, bleVars
<1>4. CASE Publish(s)
  BY <1>4 DEF Publish, bleVars
<1>5. CASE SetFilter(s) \/ NotCancelled(s) \/ SeeCancel(s)
  BY <1>5 DEF SetFilter, NotCancelled, SeeCancel, bleVars
<1>6. CASE GetObjects(s) \/ StartDiscovery(s) \/ StartAnswered(s)
  BY <1>6 DEF GetObjects, StartDiscovery, StartAnswered, bleVars
<1>7. ASSUME NEW a \in Addrs, Present(s, a) PROVE FieldOwned' /\ StopOwned'
  BY <1>7 DEF Present, bleVars
<1>8. CASE Presented(s)
  BY <1>8 DEF Presented, Return, bleVars
<1>9. CASE Cancelled(s)
  BY <1>9 DEF Cancelled, Return, bleVars
<1>10. ASSUME NEW sig \in signal[s], ReceiveDevice(s, sig) \/ ReceiveUnknown(s, sig) \/ ReceiveAdapter(s, sig)
       PROVE  FieldOwned' /\ StopOwned'
  BY <1>10 DEF ReceiveDevice, ReceiveUnknown, ReceiveAdapter, Receive, bleVars
<1>11. CASE CloseOwn(s)
  BY <1>11 DEF CloseOwn
<1>12. CASE ClearOwn(s)
  BY <1>12 DEF ClearOwn, Return, bleVars
<1>13. CASE Callback(s)
  BY <1>13 DEF Callback
<1>14. CASE SendErr(s)
  BY <1>14 DEF SendErr
<1> QED BY <1>2, <1>3, <1>4, <1>5, <1>6, <1>7, <1>8, <1>9, <1>10, <1>11, <1>12, <1>13, <1>14 DEF Scanner

----------------------------------------------------------------------------
(* A result proves that the field was set *)

\* The caller takes results, and a new call has none.
LEMMA ResultsCaller ==
  ASSUME Protocol, Caller \/ Timer
  PROVE  ResultsProve'
<1> USE DEF Protocol, ResultsProve, Knows
<1>0. cur \in Nat /\ Scans \subseteq Nat /\ (cur # 0 => cur \in Scans)
  BY BleScanAssumption DEF TypeOK, BleTypeOK, Scans
<1>1. CASE Begin
  <2>1. /\ cur' = cur + 1 /\ scanner' = [scanner EXCEPT ![cur + 1] = "new"] /\ main = "ready"
        /\ UNCHANGED <<matched, results, cb, connected, devices>>
    BY <1>1 DEF Begin, BeginScan, Goto
  <2>2. \A s \in Scans : scanner[s] \in {"unused", "done"}
    BY <1>1 DEF Begin, BeginScan, QuietBetweenScans, Running
  <2>3. cur + 1 \in Scans /\ cur + 1 > cur
    BY <1>0, <1>1, BleScanAssumption DEF Begin, BeginScan, Scans
  <2>4. results[cur + 1] = <<>> /\ ~matched
    BY <2>1, <2>3 DEF OneCall
  <2>5. \A s \in Scans : s # cur + 1 => scanner'[s] = scanner[s]
    BY <2>1
  <2>6. scanner'[cur + 1] = "new"
    BY <2>1, <2>3 DEF TypeOK
  <2> QED BY <2>1, <2>2, <2>4, <2>5, <2>6
<1>2. CASE StopNotScanning \/ StopScanning \/ StopClear \/ StopClose
  BY <1>2 DEF StopNotScanning, StopScanning, StopClear, StopClose, ReturnErr, linuxVars
<1>3. CASE (AdapterFails \/ GiveUp \/ ScannerReturned \/ ScannerJoined) /\ UNCHANGED linuxVars
  BY <1>3 DEF AdapterFails, GiveUp, ScannerReturned, ScannerJoined, ReturnNil, ReturnErr, linuxVars
<1>4. CASE (SkipDuplicate \/ Report) /\ UNCHANGED linuxVars
  <2>1. cur # 0 /\ cur \in Scans /\ results[cur] # <<>> /\ main = "loop"
    BY <1>0, <1>4 DEF SkipDuplicate, Report, OneCall, InScan
  <2>2. scanner[cur] \notin {"new", "power"}
    BY <2>1
  <2>3. \A s \in Scans : s # cur => results'[s] = results[s]
    BY <1>4 DEF SkipDuplicate, Report, TypeOK, BleTypeOK
  <2> QED BY <1>4, <2>1, <2>2, <2>3 DEF SkipDuplicate, Report, linuxVars
<1>5. CASE Timer
  BY <1>5 DEF Timer, TimerFires, linuxVars
<1> QED BY <1>1, <1>2, <1>3, <1>4, <1>5 DEF Caller

\* A result comes from a scanner that has published its channel.
LEMMA ResultsScanner ==
  ASSUME Protocol, NEW s \in Scans, Scanner(s)
  PROVE  ResultsProve'
<1> USE DEF Protocol
<1>0. s = cur /\ cur # 0 /\ Frame(s)
  BY ScannerRuns, ScannerFrame, BleScanAssumption DEF Scans
<1> SUFFICES /\ scanner'[s] = "power" => results'[s] = <<>> /\ scanner[s] = "new"
             /\ scanner'[s] \in {"presenting", "callback"} => cb'[s] \in Founds
             /\ \A a \in connected'[s] : devices'[s][a] # Absent
  BY <1>0 DEF Frame, ResultsProve, Knows
<1> USE <1>0 DEF ResultsProve, Knows, Goto, TypeOK, BleTypeOK
<1>1. CASE EnterScan(s)
  BY <1>1 DEF EnterScan, Return, bleVars
<1>2. CASE SetupFails(s) \/ Cancelled(s) \/ ClearOwn(s)
  BY <1>2 DEF SetupFails, Cancelled, ClearOwn, Return, bleVars
<1>3. CASE Publish(s) \/ SetFilter(s) \/ NotCancelled(s) \/ SeeCancel(s)
  BY <1>3 DEF Publish, SetFilter, NotCancelled, SeeCancel, bleVars
<1>4. CASE GetObjects(s)
  BY <1>4 DEF GetObjects, bleVars
<1>5. CASE StartDiscovery(s) \/ StartAnswered(s)
  BY <1>5 DEF StartDiscovery, StartAnswered, bleVars
<1>6. ASSUME NEW a \in Addrs, Present(s, a)
      PROVE  /\ scanner'[s] = "presenting" /\ cb'[s] \in Founds
             /\ \A b \in connected'[s] : devices'[s][b] # Absent
  <2>1. devices[s][a] \in Names
    BY <1>6 DEF Present
  <2> QED BY <1>6, <2>1 DEF Present, Founds
<1>7. CASE Presented(s)
  BY <1>7 DEF Presented, Return, bleVars
<1>8. ASSUME NEW sig \in signal[s], ReceiveDevice(s, sig)
      PROVE  /\ scanner'[s] = "callback" /\ cb'[s] \in Founds
             /\ \A b \in connected'[s] : devices'[s][b] # Absent
  <2>1. sig.dev \in Founds
    BY <1>8 DEF ReceiveDevice, Signals
  <2>2. sig.dev.addr \in Addrs /\ sig.dev.name # Absent
    BY <2>1, ScanLinuxAssumption DEF Founds
  <2> QED BY <1>8, <2>1, <2>2 DEF ReceiveDevice, Receive
<1>9. ASSUME NEW sig \in signal[s], ReceiveUnknown(s, sig) \/ ReceiveAdapter(s, sig)
      PROVE  /\ scanner'[s] \in {"top", "close"}
             /\ \A b \in connected'[s] : devices'[s][b] # Absent
  BY <1>9 DEF ReceiveUnknown, ReceiveAdapter, Receive
<1>10. CASE CloseOwn(s)
  BY <1>10 DEF CloseOwn
<1>11. CASE Callback(s)
  BY <1>11 DEF Callback
<1>12. CASE SendErr(s)
  BY <1>12 DEF SendErr
<1> QED BY <1>1, <1>2, <1>3, <1>4, <1>5, <1>6, <1>7, <1>8, <1>9, <1>10, <1>11, <1>12 DEF Scanner

----------------------------------------------------------------------------
(* The safety properties themselves *)

\* The caller keeps the outcome and the properties of its windows.
LEMMA SafeCaller ==
  ASSUME Protocol, Caller \/ Timer
  PROVE  OutcomeWhenOver' /\ QuietBetweenScans' /\ NeverScanning' /\ MatchIsKept'
<1> USE DEF Protocol, OutcomeWhenOver, QuietBetweenScans, NeverScanning, MatchIsKept, Running
<1>0. cur \in Nat /\ Scans \subseteq Nat /\ (cur # 0 => cur \in Scans)
  BY BleScanAssumption DEF TypeOK, BleTypeOK, Scans
<1>1. CASE Begin
  BY <1>1 DEF Begin, BeginScan
<1>2. CASE StopNotScanning
  <2>1. cur # 0 /\ cur \in Scans
    BY <1>0, <1>2 DEF StopNotScanning, OneCall, InScan
  <2>2. scanner[cur] \in {"new", "power", "returning", "done"} /\ returned[cur] # "nil"
    BY <1>2, <2>1 DEF StopNotScanning, StopOwned
  <2>3. matched => returned[cur] = "err"
    BY <2>1, <2>2 DEF ResultsProve, OneCall, Decided, TypeOK, Returns
  <2> QED BY <1>2, <2>3 DEF StopNotScanning, ReturnErr, linuxVars
<1>3. CASE StopScanning \/ StopClear \/ StopClose
  BY <1>3 DEF StopScanning, StopClear, StopClose, linuxVars
<1>4. CASE (AdapterFails \/ GiveUp) /\ UNCHANGED linuxVars
  BY <1>4 DEF AdapterFails, GiveUp, linuxVars, ResultsProve
<1>5. CASE ScannerReturned /\ UNCHANGED linuxVars
  <2>1. cur # 0 /\ cur \in Scans /\ errCh[cur] # "empty" /\ errCh[cur] = returned[cur]
    BY <1>0, <1>5 DEF ScannerReturned, OneCall, Decided, InScan
  <2>2. returned[cur] = "err" /\ errCh[cur] = "err"
    BY <1>5, <2>1 DEF ScannerReturned, StopOwned, TypeOK, Returns
  <2> QED BY <1>5, <2>2 DEF ScannerReturned, ReturnErr, linuxVars
<1>6. CASE ScannerJoined /\ UNCHANGED linuxVars
  <2>1. cur # 0 /\ cur \in Scans /\ errCh[cur] # "empty" /\ scanCancelChan = 0
    BY <1>0, <1>6 DEF ScannerJoined, OneCall, Decided, InScan, FieldOwned
  <2>2. ASSUME NEW s \in Scans PROVE scanner[s] \in {"unused", "done"}
    <3>1. s > cur \/ s = cur \/ s < cur
      BY <1>0
    <3> QED BY <2>1, <3>1 DEF OneCall, Decided
  <2> QED BY <1>6, <2>1, <2>2 DEF ScannerJoined, ReturnNil, linuxVars
<1>7. CASE (SkipDuplicate \/ Report) /\ UNCHANGED linuxVars
  BY <1>7 DEF SkipDuplicate, Report, linuxVars
<1>8. CASE Timer
  BY <1>8 DEF Timer, TimerFires, linuxVars
<1> QED BY <1>1, <1>2, <1>3, <1>4, <1>5, <1>6, <1>7, <1>8 DEF Caller

\* So does a scanner.
LEMMA SafeScanner ==
  ASSUME Protocol, NEW s \in Scans, Scanner(s)
  PROVE  OutcomeWhenOver' /\ QuietBetweenScans' /\ NeverScanning' /\ MatchIsKept'
<1> USE DEF Protocol
<1>0. s = cur /\ cur # 0 /\ Running(s) /\ Frame(s)
  BY ScannerRuns, ScannerFrame, BleScanAssumption DEF Scans
<1>1. OutcomeWhenOver'
  BY <1>0 DEF Frame, OutcomeWhenOver
<1>2. QuietBetweenScans'
  BY <1>0 DEF Frame, QuietBetweenScans
<1>3. MatchIsKept'
  <2>1. matched /\ outcome = "err" => scanner[s] = "returning"
    BY <1>0 DEF MatchIsKept, OneCall, Decided, Running
  <2>2. scanner[s] = "returning" => returned' = returned
    BY DEF Scanner, EnterScan, SetupFails, Publish, SetFilter, GetObjects, Present, Presented, StartDiscovery,
       Cancelled, NotCancelled, StartAnswered, SeeCancel, ReceiveDevice, ReceiveUnknown, ReceiveAdapter,
       Receive, CloseOwn, ClearOwn, SendErr, Callback
  <2> QED BY <1>0, <2>1, <2>2 DEF Frame, MatchIsKept
<1>4. returned'[s] # "errScanning"
  <2> USE <1>0 DEF TypeOK, BleTypeOK, Returns
  <2>1. CASE EnterScan(s)
    BY <2>1 DEF EnterScan, FieldOwned, NeverScanning, bleVars
  <2>2. CASE SetupFails(s) \/ Cancelled(s) \/ ClearOwn(s)
    BY <2>2 DEF SetupFails, Cancelled, ClearOwn, Return, bleVars
  <2>3. CASE Presented(s)
    BY <2>3 DEF Presented, Return, NeverScanning, bleVars
  <2>4. CASE Publish(s) \/ SetFilter(s) \/ NotCancelled(s) \/ SeeCancel(s)
    BY <2>4 DEF Publish, SetFilter, NotCancelled, SeeCancel, NeverScanning, bleVars
  <2>5. CASE GetObjects(s) \/ StartDiscovery(s) \/ StartAnswered(s)
    BY <2>5 DEF GetObjects, StartDiscovery, StartAnswered, NeverScanning, bleVars
  <2>6. ASSUME NEW a \in Addrs, Present(s, a) PROVE returned'[s] # "errScanning"
    BY <2>6 DEF Present, NeverScanning, bleVars
  <2>7. ASSUME NEW sig \in signal[s], ReceiveDevice(s, sig) \/ ReceiveUnknown(s, sig) \/ ReceiveAdapter(s, sig)
        PROVE  returned'[s] # "errScanning"
    BY <2>7 DEF ReceiveDevice, ReceiveUnknown, ReceiveAdapter, Receive, NeverScanning, bleVars
  <2>8. CASE CloseOwn(s) \/ SendErr(s) \/ Callback(s)
    BY <2>8 DEF CloseOwn, SendErr, Callback, NeverScanning
  <2> QED BY <2>1, <2>2, <2>3, <2>4, <2>5, <2>6, <2>7, <2>8 DEF Scanner
<1>5. NeverScanning'
  BY <1>0, <1>4 DEF Frame, NeverScanning
<1> QED BY <1>1, <1>2, <1>3, <1>5

\* BlueZ touches neither the goroutines nor the field.
LEMMA BlueZProtocol ==
  ASSUME Protocol, BlueZ
  PROVE  Protocol'
<1>1. UNCHANGED <<bleVars, scanner, scanCancelChan, cancelled, devices, connected, cb, returned>>
  BY DEF BlueZ, DeviceAppears, DeviceChanges, AdapterStops
<1>2. OneCall' /\ FieldOwned' /\ StopOwned' /\ ResultsProve' /\ OutcomeWhenOver'
  BY <1>1 DEF Protocol, OneCall, Decided, FieldOwned, StopOwned, ResultsProve, OutcomeWhenOver, InScan, Knows, bleVars
<1>3. QuietBetweenScans' /\ NeverScanning' /\ MatchIsKept'
  BY <1>1 DEF Protocol, QuietBetweenScans, NeverScanning, MatchIsKept, Running, bleVars
<1> QED BY <1>2, <1>3, TypeBlueZ DEF Protocol

----------------------------------------------------------------------------

\* The inductive step: every action keeps the two goroutines' protocol.
LEMMA NextProtocol == Protocol /\ [Next]_vars => Protocol'
<1> SUFFICES ASSUME Protocol, [Next]_vars PROVE Protocol'
  OBVIOUS
<1>1. CASE Caller \/ Timer
  BY <1>1, TypeCaller, OneCallCaller, FieldCaller, ResultsCaller, SafeCaller DEF Protocol
<1>2. CASE BlueZ
  BY <1>2, BlueZProtocol
<1>3. ASSUME NEW s \in Scans, Scanner(s) PROVE Protocol'
  BY <1>3, TypeScanner, OneCallScanner, FieldScanner, ResultsScanner, SafeScanner DEF Protocol
<1>4. CASE UNCHANGED vars
  <2>1. TypeOK' /\ OneCall' /\ FieldOwned' /\ StopOwned' /\ ResultsProve' /\ OutcomeWhenOver'
    BY <1>4 DEF Protocol, TypeOK, BleTypeOK, OneCall, Decided, FieldOwned, StopOwned, ResultsProve, OutcomeWhenOver,
       InScan, Knows, vars, bleVars, linuxVars
  <2>2. QuietBetweenScans' /\ NeverScanning' /\ MatchIsKept'
    BY <1>4 DEF Protocol, QuietBetweenScans, NeverScanning, MatchIsKept, Running, vars, bleVars, linuxVars
  <2> QED BY <2>1, <2>2 DEF Protocol
<1> QED BY <1>1, <1>2, <1>3, <1>4 DEF Next

\* The protocol between the goroutines of ble.Scan and adapter.Scan, with its
\* types, holds in every reachable state.
THEOREM ProtocolHolds == Spec => []Protocol
<1> QED BY InitProtocol, NextProtocol, PTL DEF Spec

\* Every variable of the Linux scan keeps its type.
THEOREM TypeHolds == Spec => []TypeOK
<1>1. Protocol => TypeOK
  BY DEF Protocol
<1> QED BY <1>1, ProtocolHolds, PTL

\* ble.go:151: between two windows no scanner runs and the adapter is free.
THEOREM QuietHolds == Spec => []QuietBetweenScans
<1>1. Protocol => QuietBetweenScans
  BY DEF Protocol
<1> QED BY <1>1, ProtocolHolds, PTL

\* No call meets the library's single-scan guard.
THEOREM NeverScanningHolds == Spec => []NeverScanning
<1>1. Protocol => NeverScanning
  BY DEF Protocol
<1> QED BY <1>1, ProtocolHolds, PTL

\* ble.go:147: only a failure of adapter.Scan can cost Find a match, one that has
\* been decided when StopScan finds the field cleared, whether or not errCh has it.
THEOREM MatchIsKeptHolds == Spec => []MatchIsKept
<1>1. Protocol => MatchIsKept
  BY DEF Protocol
<1> QED BY <1>1, ProtocolHolds, PTL

\* A search that fails leaves at most a scanner that is still starting, or returning.
LEMMA CallerFails ==
  ASSUME Protocol, Caller, outcome # "err", outcome' = "err", NEW s \in Scans
  PROVE  scanner[s] \in {"unused", "new", "power", "returning", "done"}
<1> USE DEF Protocol
<1>1. cur \in Nat /\ s \in Nat /\ (cur # 0 => cur \in Scans)
  BY BleScanAssumption DEF TypeOK, BleTypeOK, Scans
<1>2. s # cur => scanner[s] \in {"unused", "done"}
  BY <1>1 DEF OneCall
<1>3. CASE AdapterFails
  BY <1>1, <1>2, <1>3 DEF AdapterFails, Scans
<1>4. CASE StopNotScanning
  BY <1>1, <1>2, <1>4 DEF StopNotScanning, StopOwned, OneCall, InScan
<1>5. CASE ScannerReturned
  BY <1>1, <1>2, <1>5 DEF ScannerReturned, OneCall, Decided, InScan
<1> QED BY <1>3, <1>4, <1>5 DEF Caller, Begin, BeginScan, StopScanning, StopClose, StopClear, GiveUp,
        SkipDuplicate, Report, ScannerJoined, ReturnNil

\* ble.go:147: Find's error leaves no scanner behind that goes on scanning, but for one
\* that has not set the field yet; others are over or at their deferred calls.
THEOREM ErrorEndsScannerHolds == Spec => ErrorEndsScanner
<1> DEFINE Ended == outcome # "err" /\ outcome' = "err" =>
                      \A s \in Scans : scanner[s] \in {"unused", "new", "power", "returning", "done"}
<1>1. Protocol /\ [Next]_vars => [Ended]_vars
  <2> SUFFICES ASSUME Protocol, Next PROVE Ended
    OBVIOUS
  <2>1. CASE Caller
    BY <2>1, CallerFails
  <2>2. CASE Timer \/ BlueZ
    BY <2>2 DEF Timer, TimerFires, BlueZ, DeviceAppears, DeviceChanges, AdapterStops, bleVars
  <2>3. CASE \E s \in Scans : Scanner(s)
    BY <2>3, ScannerFrame DEF Frame
  <2> QED BY <2>1, <2>2, <2>3 DEF Next
<1> QED BY <1>1, ProtocolHolds, PTL DEF Spec, ErrorEndsScanner

----------------------------------------------------------------------------
(* ScanLinux implements DeviceSearch *)

\* The search starts where DeviceSearch does.
LEMMA InitRefines == Init => Search!Init
  BY DEF Init, BleInit, Search!Init, Phase, Running

\* Each step of the caller is one of DeviceSearch, or a stutter.
LEMMA CallerRefines ==
  ASSUME Protocol, Caller \/ Timer
  PROVE  [Search!Next]_(Search!searchVars)
<1> USE DEF Protocol, Phase, Running, Search!searchVars
<1>0. cur \in Nat /\ (cur # 0 => cur \in Scans)
  BY BleScanAssumption DEF TypeOK, BleTypeOK, Scans
<1>1. CASE Begin
  <2>1. cur + 1 \in Scans
    BY <1>0, <1>1, BleScanAssumption DEF Begin, BeginScan, Scans
  <2>2. \A s \in Scans : ~Running(s)
    BY <1>1 DEF Begin, BeginScan, QuietBetweenScans
  <2>3. {s \in Scans : Running(s)}' = {cur + 1}
    BY <1>1, <2>1, <2>2 DEF Begin, BeginScan, Goto, TypeOK
  <2>4. PICK s \in Scans : s = cur + 1
    BY <2>1
  <2>5. Search!Begin(s)
    BY <1>1, <2>2, <2>3, <2>4 DEF Begin, BeginScan, ResultsProve, Search!Begin
  <2> QED BY <2>5 DEF Search!Next
<1>2. CASE StopNotScanning
  <2>1. Search!Fail
    BY <1>2 DEF StopNotScanning, ReturnErr, linuxVars, Search!Fail
  <2> QED BY <2>1 DEF Search!Next
<1>3. CASE StopScanning \/ StopClear
  BY <1>3 DEF StopScanning, StopClear, linuxVars
<1>4. CASE StopClose
  <2>1. main' = "clear" => UNCHANGED Search!searchVars
    BY <1>4 DEF StopClose
  <2>2. main' = "panicked" => Search!Fail
    BY <1>4 DEF StopClose, Search!Fail
  <2> QED BY <1>4, <2>1, <2>2 DEF StopClose, Search!Next
<1>5. CASE AdapterFails /\ UNCHANGED linuxVars
  <2>1. Search!Fail
    BY <1>5 DEF AdapterFails, linuxVars, Search!Fail
  <2> QED BY <2>1 DEF Search!Next
<1>6. CASE GiveUp /\ UNCHANGED linuxVars
  <2>1. Search!GiveUp
    BY <1>6 DEF GiveUp, linuxVars, QuietBetweenScans, Search!GiveUp
  <2> QED BY <2>1 DEF Search!Next
<1>7. CASE ScannerReturned /\ UNCHANGED linuxVars
  <2>1. errCh[cur] # "nil"
    BY <1>0, <1>7 DEF ScannerReturned, OneCall, Decided, InScan, StopOwned
  <2>2. Search!Fail
    BY <1>7, <2>1 DEF ScannerReturned, ReturnErr, linuxVars, Search!Fail
  <2> QED BY <2>2 DEF Search!Next
<1>8. CASE ScannerJoined /\ UNCHANGED linuxVars
  <2>1. cur \in Scans /\ errCh[cur] # "empty"
    BY <1>0, <1>8 DEF ScannerJoined, OneCall, Decided, InScan
  <2>2. ASSUME NEW s \in Scans PROVE ~Running(s)
    <3>1. s > cur \/ s = cur \/ s < cur
      BY <1>0 DEF Scans
    <3> QED BY <2>1, <3>1 DEF OneCall, Decided
  <2>3. Search!Close
    BY <1>8, <2>2 DEF ScannerJoined, ReturnNil, linuxVars, Search!Close
  <2> QED BY <2>3 DEF Search!Next
<1>9. CASE SkipDuplicate /\ UNCHANGED linuxVars
  BY <1>9 DEF SkipDuplicate, linuxVars
<1>10. CASE Report /\ UNCHANGED linuxVars
  <2> DEFINE f == Head(results[cur])
  <2>1. cur \in Scans /\ results[cur] # <<>> /\ main = "loop" /\ ~matched
    BY <1>0, <1>10 DEF Report, OneCall, InScan, ResultsProve
  <2>2. f \in Founds
    BY <2>1 DEF TypeOK, BleTypeOK
  <2>3. f.addr \in Addrs /\ f.name \in Names /\ f = [addr |-> f.addr, name |-> f.name]
    BY <2>2 DEF Founds
  <2> HIDE DEF f
  <2>4. Search!Tell(f.addr, f.name)
    <3>1. /\ ~IsDuplicate(f) /\ seen' = [seen EXCEPT ![f.addr] = f.name]
          /\ IF f \in Targets THEN matched' = TRUE /\ main' = "stop" ELSE UNCHANGED <<main, matched>>
      BY <1>10 DEF Report, f
    <3> QED BY <1>10, <2>1, <2>3, <3>1 DEF Search!Tell, IsDuplicate, linuxVars
  <2> QED BY <2>3, <2>4 DEF Search!Next
<1>11. CASE Timer
  <2>1. Search!Expire
    BY <1>11 DEF Timer, TimerFires, linuxVars, Search!Expire
  <2> QED BY <2>1 DEF Search!Next
<1> QED BY <1>1, <1>2, <1>3, <1>4, <1>5, <1>6, <1>7, <1>8, <1>9, <1>10, <1>11 DEF Caller

\* Each step of a scanner is one of DeviceSearch, or a stutter.
LEMMA ScannerRefines ==
  ASSUME Protocol, NEW s \in Scans, Scanner(s)
  PROVE  [Search!Next]_(Search!searchVars)
<1>0. Running(s) /\ Frame(s)
  BY ScannerRuns, ScannerFrame
<1>1. main' = main => Phase' = Phase
  BY <1>0 DEF Frame, Phase
<1>2. CASE main' = main /\ scanner'[s] # "done"
  <2>1. {t \in Scans : Running(t)}' = {t \in Scans : Running(t)}
    BY <1>0, <1>2 DEF Frame, Running
  <2> QED BY <1>0, <1>1, <1>2, <2>1 DEF Frame, Search!searchVars
<1>3. CASE main' = main /\ scanner'[s] = "done"
  <2>1. {t \in Scans : Running(t)}' = {t \in Scans : Running(t)} \ {s}
    BY <1>0, <1>3 DEF Frame, Running
  <2>2. Search!SessionEnds(s)
    BY <1>0, <1>1, <1>3, <2>1 DEF Frame, Search!SessionEnds
  <2> QED BY <2>2 DEF Search!Next
<1>4. CASE main' # main
  <2>1. CloseOwn(s) /\ main' = "panicked" /\ UNCHANGED scanner
    BY <1>4 DEF Scanner, EnterScan, SetupFails, Publish, SetFilter, GetObjects, Present, Presented, StartDiscovery,
       Cancelled, NotCancelled, StartAnswered, SeeCancel, ReceiveDevice, ReceiveUnknown, ReceiveAdapter,
       Receive, CloseOwn, ClearOwn, SendErr, Callback, Return, bleVars
  <2>2. Phase' = "err" /\ UNCHANGED <<matched, seen>> /\ {t \in Scans : Running(t)}' = {t \in Scans : Running(t)}
    BY <1>0, <2>1 DEF Frame, Phase, Running
  <2>3. main # "ready" /\ outcome \notin {"found", "notfound"}
    BY <1>0 DEF Protocol, QuietBetweenScans
  <2>4. Phase \in {"ready", "scanning", "closing", "err"}
    <3>1. main = "exited" => outcome = "err"
      BY <2>3 DEF Protocol, OutcomeWhenOver, TypeOK, BleTypeOK, Outcomes
    <3> QED BY <3>1, <2>3 DEF Protocol, TypeOK, BleTypeOK, MainPcs, Phase
  <2> QED BY <2>2, <2>4 DEF Search!Next, Search!Fail, Search!searchVars
<1> QED BY <1>2, <1>3, <1>4

\* Each step of the goroutines and of BlueZ is a step of the search or a stutter.
LEMMA NextRefines == Protocol /\ [Next]_vars => [Search!Next]_(Search!searchVars)
<1> SUFFICES ASSUME Protocol, [Next]_vars PROVE [Search!Next]_(Search!searchVars)
  OBVIOUS
<1>1. CASE Caller \/ Timer
  BY <1>1, CallerRefines
<1>2. CASE BlueZ \/ UNCHANGED vars
  BY <1>2 DEF BlueZ, DeviceAppears, DeviceChanges, AdapterStops, vars, bleVars, linuxVars,
     Search!searchVars, Phase, Running
<1>3. ASSUME NEW s \in Scans, Scanner(s) PROVE [Search!Next]_(Search!searchVars)
  BY <1>3, ScannerRefines
<1> QED BY <1>1, <1>2, <1>3 DEF Next

\* ble.Find on Linux keeps the promises of DeviceSearch.
THEOREM Refinement == Spec => RefinesSearch
<1> QED BY InitRefines, NextRefines, ProtocolHolds, PTL DEF Spec, RefinesSearch, Search!Spec

----------------------------------------------------------------------------
(* What ScanReturns rests on: Scan waits for a scanner that has been told.   *)

\* From its deadline or its match on, Scan has closed the channel on which its
\* callback may be blocked, and from StopScan on the one its loop selects on.
WaitsForStopped ==
    /\ main \in {"stop", "close", "clear", "wait"} => stop[cur]
    /\ main \in {"clear", "wait"} => cancelled[cur]

\* Each step of the calling goroutine tells the scanner before it waits.
LEMMA CallerTells ==
  ASSUME Protocol, WaitsForStopped, Caller \/ Timer
  PROVE  WaitsForStopped'
<1>0. cur \in Nat /\ stop \in [Scans -> BOOLEAN] /\ cancelled \in [Scans -> BOOLEAN]
      /\ (InScan => cur \in Scans)
  BY BleScanAssumption DEF Protocol, TypeOK, BleTypeOK, OneCall, Scans
<1>1. CASE Begin \/ AdapterFails \/ GiveUp \/ SkipDuplicate \/ ScannerReturned \/ ScannerJoined \/ StopNotScanning
  BY <1>1 DEF WaitsForStopped, Begin, BeginScan, AdapterFails, GiveUp, SkipDuplicate, ScannerReturned,
     ScannerJoined, StopNotScanning, ReturnNil, ReturnErr
<1>2. CASE TimerFires \/ Report
  BY <1>0, <1>2 DEF WaitsForStopped, TimerFires, Report, InScan
<1>3. CASE StopScanning
  BY <1>3 DEF WaitsForStopped, StopScanning
<1>4. CASE StopClose
  <2>1. scanCancelChan # 0 => scanCancelChan = cur
    BY DEF Protocol, FieldOwned
  <2> QED BY <1>0, <1>4, <2>1 DEF WaitsForStopped, StopClose, InScan
<1>5. CASE StopClear
  BY <1>5 DEF WaitsForStopped, StopClear
<1> QED BY <1>1, <1>2, <1>3, <1>4, <1>5 DEF Caller, Timer

\* A channel that is closed stays closed, whatever a scanner does.
LEMMA ScannerLeavesTold ==
  ASSUME Protocol, WaitsForStopped, NEW s \in Scans, Scanner(s)
  PROVE  WaitsForStopped'
<1>0. cancelled \in [Scans -> BOOLEAN]
  BY DEF Protocol, TypeOK
<1>1. CASE CloseOwn(s)
  <2>1. main' \in {main, "panicked"} /\ cur' = cur /\ stop' = stop
        /\ \A r \in Scans : cancelled[r] => cancelled'[r]
    BY <1>0, <1>1 DEF CloseOwn
  <2>2. main \in {"clear", "wait"} => cur \in Scans
    BY BleScanAssumption DEF Protocol, TypeOK, BleTypeOK, OneCall, InScan, Scans
  <2> QED BY <2>1, <2>2 DEF WaitsForStopped
<1>2. CASE EnterScan(s) \/ SetupFails(s) \/ Publish(s) \/ SetFilter(s) \/ GetObjects(s)
           \/ (\E a \in Addrs : Present(s, a)) \/ Presented(s) \/ StartDiscovery(s)
           \/ Cancelled(s) \/ NotCancelled(s) \/ StartAnswered(s) \/ SeeCancel(s)
  BY <1>2 DEF WaitsForStopped, EnterScan, SetupFails, Publish, SetFilter, GetObjects, Present, Presented,
     StartDiscovery, Cancelled, NotCancelled, StartAnswered, SeeCancel, Return, bleVars
<1>3. CASE (\E sig \in signal[s] : ReceiveDevice(s, sig) \/ ReceiveUnknown(s, sig) \/ ReceiveAdapter(s, sig))
           \/ ClearOwn(s) \/ SendErr(s) \/ Callback(s)
  BY <1>3 DEF WaitsForStopped, ReceiveDevice, ReceiveUnknown, ReceiveAdapter, Receive, ClearOwn, SendErr,
     Callback, Return, bleVars
<1> QED BY <1>1, <1>2, <1>3 DEF Scanner

\* Scan never waits for a scanner that nobody told to stop: on the channel of its
\* loop, and on that of a callback that the full results channel holds up.
THEOREM WaitsForStoppedHolds == Spec => []WaitsForStopped
<1>1. Init => WaitsForStopped
  BY DEF Init, BleInit, WaitsForStopped
<1>2. Protocol /\ WaitsForStopped /\ [Next]_vars => WaitsForStopped'
  <2> SUFFICES ASSUME Protocol, WaitsForStopped, [Next]_vars
               PROVE  WaitsForStopped'
    OBVIOUS
  <2>1. CASE BlueZ
    BY <2>1 DEF BlueZ, DeviceAppears, DeviceChanges, AdapterStops, bleVars, WaitsForStopped
  <2>2. CASE UNCHANGED vars
    BY <2>2 DEF vars, bleVars, linuxVars, WaitsForStopped
  <2> QED BY <2>1, <2>2, CallerTells, ScannerLeavesTold DEF Next
<1> QED BY <1>1, <1>2, ProtocolHolds, PTL DEF Spec
=============================================================================
