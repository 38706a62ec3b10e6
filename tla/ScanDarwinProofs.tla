--------------------------- MODULE ScanDarwinProofs ---------------------------
(* Theorems about ScanDarwin for every value of its constants. *)
EXTENDS ScanDarwin, TLAPS

----------------------------------------------------------------------------
(* The inductive invariant behind QuietBetweenScans and FailsOnlyEarly *)

InScan == main \in {"loop", "stop", "close", "clear", "wait"}
Early  == {"new", "handler", "field"}

\* Call cur is the only one that can be under way.
OneCall ==
    /\ InScan => cur # 0
    /\ \A s \in Scans :
         /\ s > cur => scanner[s] = "unused"
         /\ s = cur => scanner[s] # "unused"
         /\ s < cur => scanner[s] = "done"
         /\ errCh[s] = (IF scanner[s] = "done" THEN "nil" ELSE "empty")

\* Only call cur holds the field and the radio, each from its own step on; the
\* scanner ends only when StopScan has sent, and StopScan when the radio is off.
StopOwned ==
    /\ scanChan \in {0, cur} /\ radio \in {0, cur}
    /\ cur # 0 =>
         /\ scanChan = cur <=> scanner[cur] \in {"scan", "select", "close", "clear"}
         /\ scanner[cur] \in Early \cup {"scan"} => radio = 0
         /\ main \in {"loop", "stop"} => scanner[cur] \in Early \cup {"scan", "select"}
         /\ main = "close" => scanner[cur] \in {"scan", "select"}
         /\ main \in {"clear", "wait"} => scanner[cur] \in {"close", "clear", "done"}
         /\ main = "wait" => radio = 0

\* A discovery proves that some radio has scanned, and a result of call cur that
\* its handler is set.
ResultsProve ==
    /\ handler <= cur /\ cbScan <= cur
    /\ cbScan # 0 => cb \in Founds
    /\ cur = 0 => queue = <<>>
    /\ cur = 1 /\ scanner[cur] \in Early \cup {"scan"} =>
         queue = <<>> /\ cbScan = 0 /\ results[cur] = <<>> /\ ~matched
    /\ cur # 0 /\ scanner[cur] \in {"new", "handler"} =>
         handler # cur /\ cbScan # cur /\ results[cur] = <<>> /\ ~matched
    /\ \A s \in Scans : s > cur => results[s] = <<>>
    /\ matched => cur # 0 /\ main \notin {"ready", "loop"}

OutcomeWhenOver ==
    /\ main # "exited" => outcome = "none"
    /\ main = "exited" => outcome # "none"

Protocol ==
    /\ TypeOK /\ OneCall /\ StopOwned /\ ResultsProve /\ OutcomeWhenOver
    /\ QuietBetweenScans

----------------------------------------------------------------------------

\* Before the first window nothing runs.
LEMMA InitProtocol == Init => Protocol
<1> SUFFICES ASSUME Init PROVE Protocol
  OBVIOUS
<1> USE BleScanAssumption, ScanDarwinAssumption DEF Init, BleInit, Scans
<1>1. BleTypeOK
  <2>1. main \in MainPcs /\ cur \in 0 .. MaxScans /\ outcome \in Outcomes
    BY DEF MainPcs, Outcomes
  <2>2. matched \in BOOLEAN
    OBVIOUS
  <2>3. seen \in [Addrs -> Names \cup {Unseen}]
    OBVIOUS
  <2>4. <<>> \in Seq(Founds)
    OBVIOUS
  <2>5. results \in [Scans -> Seq(Founds)]
    BY <2>4
  <2>6. stop \in [Scans -> BOOLEAN] /\ errCh \in [Scans -> Returns]
    BY DEF Returns
  <2> QED BY <2>1, <2>2, <2>3, <2>5, <2>6 DEF BleTypeOK
<1>2. TypeOK
  <2>1. scanner \in [Scans -> ScannerPcs]
    BY DEF ScannerPcs
  <2>2. handler \in 0 .. MaxScans /\ scanChan \in 0 .. MaxScans /\ radio \in 0 .. MaxScans /\ cbScan \in 0 .. MaxScans
    OBVIOUS
  <2>3. queue \in Seq(Founds) /\ cb \in Founds \cup {NoFound}
    OBVIOUS
  <2> QED BY <1>1, <2>1, <2>2, <2>3 DEF TypeOK
<1>3. OneCall /\ StopOwned /\ ResultsProve /\ OutcomeWhenOver
  BY DEF OneCall, StopOwned, ResultsProve, OutcomeWhenOver, InScan
<1>4. QuietBetweenScans
  BY DEF QuietBetweenScans, Running
<1> QED BY <1>2, <1>3, <1>4 DEF Protocol

----------------------------------------------------------------------------
(* Two facts every step uses *)

\* Calls are numbered, and the current one is a call.
LEMMA Numbers ==
  ASSUME Protocol
  PROVE  cur \in Nat /\ Scans \subseteq Nat /\ (cur # 0 => cur \in Scans)
BY BleScanAssumption DEF Protocol, TypeOK, BleTypeOK, Scans

\* Whoever runs is the scanner of call cur, and the field is nil when it begins.
LEMMA ScannerRuns ==
  ASSUME Protocol, NEW s \in Scans, Scanner(s)
  PROVE  /\ s = cur /\ cur # 0
         /\ scanner[s] = "new" => scanChan = 0
<1>1. scanner[s] \notin {"unused", "done"}
  BY DEF Scanner, EnterScan, SetHandler, Publish, StartRadio, CloseOwn, ClearOwn
<1>2. s \in Nat /\ cur \in Nat /\ s # 0
  BY Numbers DEF Scans
<1>3. s = cur
  BY <1>1, <1>2 DEF Protocol, OneCall
<1>4. scanner[s] = "new" => scanChan = 0
  BY <1>2, <1>3 DEF Protocol, StopOwned
<1> QED BY <1>2, <1>3, <1>4

----------------------------------------------------------------------------
(* Type correctness, one step per action *)

\* The calling goroutine keeps the types.
LEMMA TypeCaller ==
  ASSUME Protocol, Caller \/ Timer
  PROVE  TypeOK'
<1> USE BleScanAssumption DEF Protocol, TypeOK, BleTypeOK, MainPcs, Outcomes, Scans
<1>1. CASE Begin
  BY <1>1 DEF Begin, BeginScan, Goto, ScannerPcs
<1>2. CASE StopNotScanning \/ StopScanning
  BY <1>2 DEF StopNotScanning, StopScanning, ReturnErr, darwinVars
<1>3. CASE StopSend
  BY <1>3 DEF StopSend, Goto, ScannerPcs
<1>4. CASE StopRadio
  BY <1>4 DEF StopRadio
<1>5. CASE (AdapterFails \/ GiveUp \/ ScannerReturned \/ ScannerJoined) /\ UNCHANGED darwinVars
  BY <1>5 DEF AdapterFails, GiveUp, ScannerReturned, ScannerJoined, ReturnNil, ReturnErr, darwinVars
<1>6. CASE (SkipDuplicate \/ Report) /\ UNCHANGED darwinVars
  <2>1. results[cur] \in Seq(Founds) /\ results[cur] # <<>>
    BY <1>6 DEF SkipDuplicate, Report, OneCall, InScan
  <2>2. Head(results[cur]) \in Founds /\ Tail(results[cur]) \in Seq(Founds)
    BY <2>1
  <2>3. results' \in [Scans -> Seq(Founds)]
    BY <1>6, <2>2 DEF SkipDuplicate, Report
  <2>4. seen' \in [Addrs -> Names \cup {Unseen}]
    BY <1>6, <2>2 DEF SkipDuplicate, Report, Founds
  <2> QED BY <1>6, <2>3, <2>4 DEF SkipDuplicate, Report, darwinVars
<1>7. CASE Timer
  BY <1>7 DEF Timer, TimerFires, darwinVars
<1> QED BY <1>1, <1>2, <1>3, <1>4, <1>5, <1>6, <1>7 DEF Caller

\* A scanner keeps the types.
LEMMA TypeScanner ==
  ASSUME Protocol, NEW s \in Scans, Scanner(s)
  PROVE  TypeOK'
<1> USE BleScanAssumption DEF Protocol, TypeOK, BleTypeOK, bleVars, Goto, ScannerPcs
<1>1. CASE EnterScan(s)
  BY <1>1, ScannerRuns DEF EnterScan
<1>2. CASE SetHandler(s)
  BY <1>2 DEF SetHandler, Scans
<1>6. CASE StartRadio(s)
  BY <1>6 DEF StartRadio, Scans
<1>3. CASE Publish(s)
  BY <1>3 DEF Publish, Scans
<1>4. CASE CloseOwn(s)
  BY <1>4 DEF CloseOwn
<1>5. CASE ClearOwn(s)
  BY <1>5 DEF ClearOwn, Return, Returns
<1> QED BY <1>1, <1>2, <1>3, <1>4, <1>5, <1>6 DEF Scanner

\* Discoveries and the delegate keep the types.
LEMMA TypeDelegate ==
  ASSUME Protocol, Delegate \/ \E f \in Founds : Discovers(f)
  PROVE  TypeOK'
<1> USE BleScanAssumption DEF Protocol, TypeOK, BleTypeOK
<1>1. ASSUME NEW f \in Founds, Discovers(f) PROVE TypeOK'
  <2>1. queue' \in Seq(Founds)
    BY <1>1 DEF Discovers
  <2> QED BY <1>1, <2>1 DEF Discovers, bleVars
<1>2. CASE DidDiscover
  <2>1. Head(queue) \in Founds /\ Tail(queue) \in Seq(Founds)
    BY <1>2 DEF DidDiscover
  <2> QED BY <1>2, <2>1 DEF DidDiscover, bleVars
<1>3. CASE Callback
  <2>1. cb \in Founds /\ cbScan \in Scans
    BY <1>3 DEF Callback, ResultsProve, Scans
  <2>2. Append(results[cbScan], cb) \in Seq(Founds)
    <3>1. results[cbScan] \in Seq(Founds)
      BY <2>1
    <3> QED BY <2>1, <3>1
  <2>3. results' \in [Scans -> Seq(Founds)]
    BY <1>3, <2>2 DEF Callback, CallbackSends, CallbackReturns
  <2> QED BY <1>3, <2>3 DEF Callback
<1> QED BY <1>1, <1>2, <1>3 DEF Delegate
----------------------------------------------------------------------------
(* Who runs: at most one call, and its errCh is filled when it is over *)

\* A new call begins only when the one before is over.
LEMMA OneCallCaller ==
  ASSUME Protocol, Caller \/ Timer
  PROVE  OneCall'
<1> USE DEF Protocol
<1>0. cur \in Nat /\ Scans \subseteq Nat /\ (cur # 0 => cur \in Scans)
  BY Numbers
<1>1. CASE Begin
  <2>1. cur' = cur + 1 /\ scanner' = [scanner EXCEPT ![cur + 1] = "new"] /\ UNCHANGED errCh
    BY <1>1 DEF Begin, BeginScan, Goto
  <2>2. \A s \in Scans : scanner[s] \in {"unused", "done"}
    BY <1>1 DEF Begin, BeginScan, QuietBetweenScans, Running
  <2>3. ASSUME NEW s \in Scans
        PROVE  /\ s > cur' => scanner'[s] = "unused"
               /\ s = cur' => scanner'[s] # "unused"
               /\ s < cur' => scanner'[s] = "done"
               /\ errCh'[s] = (IF scanner'[s] = "done" THEN "nil" ELSE "empty")
    <3>1. s \in Nat /\ (s > cur' => s > cur) /\ (s < cur' => s < cur \/ s = cur) /\ (s = cur' => s > cur)
      BY <1>0, <2>1
    <3>2. s # cur' => scanner'[s] = scanner[s]
      BY <2>1
    <3>3. s = cur' => scanner'[s] = "new"
      BY <2>1 DEF TypeOK
    <3> QED BY <2>1, <2>2, <3>1, <3>2, <3>3 DEF OneCall
  <2>4. cur' # 0
    BY <1>0, <2>1
  <2> QED BY <2>3, <2>4 DEF OneCall
<1>2. CASE StopNotScanning \/ StopScanning \/ StopRadio
  BY <1>2 DEF StopNotScanning, StopScanning, StopRadio, ReturnErr, darwinVars, OneCall, InScan
<1>3. CASE StopSend
  <2>1. scanChan = cur /\ cur \in Scans /\ scanner[cur] = "select" /\ cur' = cur /\ errCh' = errCh
    BY <1>0, <1>3 DEF StopSend, StopOwned
  <2>2. scanner' = [scanner EXCEPT ![cur] = "close"]
    BY <1>3, <2>1 DEF StopSend, Goto
  <2> QED BY <1>3, <2>1, <2>2 DEF StopSend, OneCall, InScan, TypeOK
<1>4. CASE (AdapterFails \/ GiveUp \/ ScannerReturned \/ ScannerJoined) /\ UNCHANGED darwinVars
  BY <1>4 DEF AdapterFails, GiveUp, ScannerReturned, ScannerJoined, ReturnNil, ReturnErr, darwinVars, OneCall, InScan
<1>5. CASE (SkipDuplicate \/ Report) /\ UNCHANGED darwinVars
  BY <1>5 DEF SkipDuplicate, Report, darwinVars, OneCall, InScan
<1>6. CASE Timer
  BY <1>6 DEF Timer, TimerFires, darwinVars, OneCall, InScan
<1> QED BY <1>1, <1>2, <1>3, <1>4, <1>5, <1>6 DEF Caller

\* A scanner that returns fills its own errCh.
LEMMA OneCallScanner ==
  ASSUME Protocol, NEW s \in Scans, Scanner(s)
  PROVE  OneCall'
<1> USE DEF Protocol, OneCall, InScan, TypeOK, BleTypeOK, bleVars, Goto
<1>0. s = cur /\ cur # 0 /\ cur \in Nat /\ Scans \subseteq Nat /\ (scanner[s] = "new" => scanChan = 0)
  BY ScannerRuns, Numbers
<1>1. CASE EnterScan(s)
  BY <1>0, <1>1 DEF EnterScan
<1>2. CASE SetHandler(s) \/ Publish(s) \/ StartRadio(s) \/ CloseOwn(s)
  BY <1>0, <1>2 DEF SetHandler, Publish, StartRadio, CloseOwn
<1>3. CASE ClearOwn(s)
  BY <1>0, <1>3 DEF ClearOwn, Return
<1> QED BY <1>1, <1>2, <1>3 DEF Scanner

----------------------------------------------------------------------------
(* The adapter's field and the radio *)

\* The caller stops the scanner and the radio of its own call.
LEMMA OwnedCaller ==
  ASSUME Protocol, Caller \/ Timer
  PROVE  StopOwned'
<1> USE DEF Protocol
<1>0. cur \in Nat /\ Scans \subseteq Nat /\ (cur # 0 => cur \in Scans)
  BY Numbers
<1>1. CASE Begin
  <2>1. /\ cur' = cur + 1 /\ scanner' = [scanner EXCEPT ![cur + 1] = "new"] /\ main' = "loop"
        /\ UNCHANGED <<scanChan, radio>>
    BY <1>1 DEF Begin, BeginScan, Goto
  <2>2. cur + 1 \in Scans /\ cur + 1 # 0
    BY <1>0, <1>1, BleScanAssumption DEF Begin, BeginScan, Scans
  <2>3. scanChan = 0 /\ \A s \in Scans : radio # s
    BY <1>1 DEF Begin, BeginScan, QuietBetweenScans, Running
  <2>4. radio = 0
    BY <1>0, <2>3 DEF StopOwned
  <2>5. scanner'[cur'] = "new"
    BY <2>1, <2>2 DEF TypeOK
  <2> QED BY <2>1, <2>2, <2>3, <2>4, <2>5 DEF StopOwned, Early
<1>2. CASE StopNotScanning
  BY <1>2 DEF StopNotScanning, ReturnErr, darwinVars, StopOwned
<1>3. CASE StopScanning
  BY <1>3 DEF StopScanning, darwinVars, StopOwned, Early
<1>4. CASE StopSend
  <2>1. /\ scanChan = cur /\ cur \in Scans /\ cur # 0 /\ cur' = cur /\ scanChan' = scanChan /\ radio' = radio
        /\ main' = "clear"
    BY <1>0, <1>4 DEF StopSend, StopOwned
  <2>2. scanner'[cur] = "close"
    BY <1>4, <2>1 DEF StopSend, Goto, TypeOK
  <2> QED BY <2>1, <2>2 DEF StopOwned, Early
<1>5. CASE StopRadio
  BY <1>5 DEF StopRadio, StopOwned
<1>6. CASE (AdapterFails \/ GiveUp \/ ScannerReturned \/ ScannerJoined) /\ UNCHANGED darwinVars
  BY <1>6 DEF AdapterFails, GiveUp, ScannerReturned, ScannerJoined, ReturnNil, ReturnErr, darwinVars, StopOwned
<1>7. CASE (SkipDuplicate \/ Report) /\ UNCHANGED darwinVars
  BY <1>7 DEF SkipDuplicate, Report, darwinVars, StopOwned
<1>8. CASE Timer
  BY <1>8 DEF Timer, TimerFires, darwinVars, StopOwned
<1> QED BY <1>1, <1>2, <1>3, <1>4, <1>5, <1>6, <1>7, <1>8 DEF Caller

\* A scanner takes and gives back the field and the radio in turn.
LEMMA OwnedScanner ==
  ASSUME Protocol, NEW s \in Scans, Scanner(s)
  PROVE  StopOwned'
<1> USE DEF Protocol, StopOwned, Early, TypeOK, BleTypeOK, bleVars, Goto
<1>0. s = cur /\ cur # 0 /\ (scanner[s] = "new" => scanChan = 0)
  BY ScannerRuns
<1>1. CASE EnterScan(s)
  BY <1>0, <1>1 DEF EnterScan
<1>2. CASE SetHandler(s)
  BY <1>0, <1>2 DEF SetHandler
<1>3. CASE Publish(s)
  BY <1>0, <1>3 DEF Publish
<1>4. CASE StartRadio(s)
  BY <1>0, <1>4 DEF StartRadio
<1>5. CASE CloseOwn(s)
  BY <1>0, <1>5 DEF CloseOwn
<1>6. CASE ClearOwn(s)
  BY <1>0, <1>6 DEF ClearOwn, Return
<1> QED BY <1>1, <1>2, <1>3, <1>4, <1>5, <1>6 DEF Scanner

----------------------------------------------------------------------------
(* What a discovery and a result prove *)

\* The caller takes results, and a new call has none.
LEMMA ResultsCaller ==
  ASSUME Protocol, Caller \/ Timer
  PROVE  ResultsProve'
<1> USE DEF Protocol, ResultsProve, Early
<1>0. cur \in Nat /\ Scans \subseteq Nat /\ (cur # 0 => cur \in Scans)
  BY Numbers
<1>1. CASE Begin
  <2>1. /\ cur' = cur + 1 /\ main = "ready" /\ cur + 1 \in Scans
        /\ UNCHANGED <<matched, results, handler, queue, cbScan, cb>>
    BY <1>0, <1>1, BleScanAssumption DEF Begin, BeginScan, Scans
  <2>2. results[cur + 1] = <<>> /\ ~matched
    BY <1>0, <2>1
  <2>3. handler \in Nat /\ cbScan \in Nat
    BY BleScanAssumption DEF TypeOK
  <2>4. handler < cur + 1 /\ cbScan < cur + 1 /\ cur + 1 # 0
    BY <1>0, <2>3
  <2>5. cur' = 1 => queue = <<>> /\ cbScan = 0
    BY <1>0, <2>1, <2>3
  <2>6. \A s \in Scans : s > cur' => s > cur
    BY <1>0, <2>1
  <2>7. handler <= cur' /\ cbScan <= cur' /\ handler # cur' /\ cbScan # cur'
    BY <1>0, <2>1, <2>3, <2>4
  <2> QED BY <2>1, <2>2, <2>4, <2>5, <2>6, <2>7
<1>2. CASE StopNotScanning \/ StopScanning \/ StopRadio
  BY <1>2 DEF StopNotScanning, StopScanning, StopRadio, ReturnErr, darwinVars
<1>3. CASE StopSend
  <2>1. scanChan = cur /\ cur \in Scans /\ scanner'[cur] = "close"
    BY <1>0, <1>3 DEF StopSend, StopOwned, Goto, TypeOK
  <2> QED BY <1>3, <2>1 DEF StopSend
<1>4. CASE (AdapterFails \/ GiveUp \/ ScannerReturned \/ ScannerJoined) /\ UNCHANGED darwinVars
  BY <1>4 DEF AdapterFails, GiveUp, ScannerReturned, ScannerJoined, ReturnNil, ReturnErr, darwinVars
<1>5. CASE (SkipDuplicate \/ Report) /\ UNCHANGED darwinVars
  <2>1. cur # 0 /\ cur \in Scans /\ results[cur] # <<>> /\ main = "loop"
    BY <1>0, <1>5 DEF SkipDuplicate, Report, OneCall, InScan
  <2>2. scanner[cur] \notin {"new", "handler"} /\ (cur = 1 => scanner[cur] \notin Early \cup {"scan"})
    BY <2>1
  <2>3. \A s \in Scans : s # cur => results'[s] = results[s]
    BY <1>5 DEF SkipDuplicate, Report, TypeOK, BleTypeOK
  <2>4. \A s \in Scans : s > cur => s # cur
    BY <1>0
  <2> QED BY <1>5, <2>1, <2>2, <2>3, <2>4 DEF SkipDuplicate, Report, darwinVars
<1>6. CASE Timer
  BY <1>6 DEF Timer, TimerFires, darwinVars
<1> QED BY <1>1, <1>2, <1>3, <1>4, <1>5, <1>6 DEF Caller

\* A scanner sets its handler before the radio is on.
LEMMA ResultsScanner ==
  ASSUME Protocol, NEW s \in Scans, Scanner(s)
  PROVE  ResultsProve'
<1> USE DEF Protocol, ResultsProve, Early, TypeOK, bleVars, Goto
<1>0. s = cur /\ cur # 0 /\ cur \in Nat /\ (scanner[s] = "new" => scanChan = 0)
  BY ScannerRuns, Numbers
<1>1. CASE EnterScan(s)
  BY <1>0, <1>1 DEF EnterScan
<1>2. CASE SetHandler(s)
  BY <1>0, <1>2 DEF SetHandler
<1>3. CASE Publish(s) \/ StartRadio(s) \/ CloseOwn(s)
  BY <1>0, <1>3 DEF Publish, StartRadio, CloseOwn
<1>4. CASE ClearOwn(s)
  BY <1>0, <1>4 DEF ClearOwn, Return
<1> QED BY <1>1, <1>2, <1>3, <1>4 DEF Scanner

\* A discovery proves that a radio has scanned, and a result that its handler was set.
LEMMA ResultsDelegate ==
  ASSUME Protocol, Delegate \/ \E f \in Founds : Discovers(f)
  PROVE  ResultsProve'
<1> USE DEF Protocol, ResultsProve, Early
<1>0. cur \in Nat /\ (cur # 0 => cur \in Scans) /\ Scans \subseteq Nat
  BY Numbers
<1>1. ASSUME NEW f \in Founds, Discovers(f) PROVE ResultsProve'
  <2>1. cur # 0 /\ scanner[cur] \notin Early \cup {"scan"}
    BY <1>1 DEF Discovers, StopOwned
  <2> QED BY <1>1, <2>1 DEF Discovers, bleVars
<1>2. CASE DidDiscover
  <2>1. Head(queue) \in Founds
    BY <1>2 DEF DidDiscover, TypeOK
  <2>2. cur # 0 /\ (cur = 1 => scanner[cur] \notin Early \cup {"scan"})
    BY <1>2 DEF DidDiscover
  <2> QED BY <1>2, <2>1, <2>2 DEF DidDiscover, bleVars
<1>3. CASE Callback
  <2>1. cbScan \in Nat /\ cbScan # 0 /\ cur # 0
    <3>1. cbScan \in Nat /\ cbScan # 0 /\ cbScan <= cur
      BY <1>3, BleScanAssumption DEF Callback, TypeOK
    <3> QED BY <1>0, <3>1
  <2>2. ASSUME NEW t \in Scans, t # cbScan PROVE results'[t] = results[t]
    BY <1>3, <2>2 DEF Callback, CallbackSends, CallbackReturns, TypeOK, BleTypeOK
  <2>3. \A t \in Scans : t > cur => t # cbScan
    BY <1>0, <2>1
  <2>4. cur = 1 => scanner[cur] \notin Early \cup {"scan"}
    BY <2>1
  <2>5. scanner[cur] \in {"new", "handler"} => cbScan # cur
    BY <2>1
  <2>6. cbScan' = 0 /\ UNCHANGED <<main, cur, matched, scanner, handler, queue>>
    BY <1>3 DEF Callback
  <2> QED BY <1>0, <2>1, <2>2, <2>3, <2>4, <2>5, <2>6
<1> QED BY <1>1, <1>2, <1>3 DEF Delegate

----------------------------------------------------------------------------
(* The safety properties themselves *)

\* The caller has an outcome when it ends, and begins on a quiet radio.
LEMMA SafeCaller ==
  ASSUME Protocol, Caller \/ Timer
  PROVE  OutcomeWhenOver' /\ QuietBetweenScans'
<1> USE DEF Protocol, OutcomeWhenOver, QuietBetweenScans
<1>0. cur \in Nat /\ Scans \subseteq Nat /\ (cur # 0 => cur \in Scans)
  BY Numbers
<1>1. CASE Begin
  BY <1>1 DEF Begin, BeginScan
<1>2. CASE StopNotScanning
  BY <1>2 DEF StopNotScanning, ReturnErr, darwinVars
<1>3. CASE StopScanning \/ StopSend \/ StopRadio
  BY <1>3 DEF StopScanning, StopSend, StopRadio, darwinVars
<1>4. CASE (AdapterFails \/ GiveUp) /\ UNCHANGED darwinVars
  BY <1>4 DEF AdapterFails, GiveUp, Running, darwinVars
<1>5. CASE ScannerReturned /\ UNCHANGED darwinVars
  <2>1. cur # 0 /\ cur \in Scans /\ scanner[cur] = "done"
    BY <1>0, <1>5 DEF ScannerReturned, OneCall, InScan
  <2> QED BY <1>5, <2>1 DEF ScannerReturned, StopOwned, Early
<1>6. CASE ScannerJoined /\ UNCHANGED darwinVars
  <2>1. cur # 0 /\ cur \in Scans /\ scanner[cur] = "done" /\ main = "wait"
    BY <1>0, <1>6 DEF ScannerJoined, OneCall, InScan
  <2>2. scanChan = 0 /\ radio = 0
    BY <2>1 DEF StopOwned
  <2>3. ASSUME NEW s \in Scans PROVE ~Running(s)
    <3>1. (s > cur \/ s = cur \/ s < cur) /\ s # 0
      BY <1>0 DEF Scans
    <3> QED BY <2>1, <2>2, <3>1 DEF OneCall, Running
  <2>4. \A s \in Scans : ~Running(s)'
    BY <1>6, <2>3 DEF Running, darwinVars
  <2> QED BY <1>6, <2>2, <2>4 DEF ScannerJoined, ReturnNil, darwinVars
<1>7. CASE (SkipDuplicate \/ Report) /\ UNCHANGED darwinVars
  BY <1>7 DEF SkipDuplicate, Report, darwinVars
<1>8. CASE Timer
  BY <1>8 DEF Timer, TimerFires, darwinVars
<1> QED BY <1>1, <1>2, <1>3, <1>4, <1>5, <1>6, <1>7, <1>8 DEF Caller

\* What the scanner of call s changes is its own place, the field and the radio.
LEMMA ScannerFrame ==
  ASSUME Protocol, NEW s \in Scans, Scanner(s)
  PROVE  /\ UNCHANGED <<main, cur, matched, outcome, seen>>
         /\ \A t \in Scans \ {s} : scanner'[t] = scanner[t]
         /\ scanner[s] \notin {"unused", "done"} /\ scanner'[s] # "unused"
         /\ radio' \in {radio, s}
<1> USE DEF Protocol, TypeOK, bleVars, Goto
<1>1. CASE EnterScan(s)
  BY <1>1, ScannerRuns DEF EnterScan
<1>2. CASE SetHandler(s) \/ Publish(s) \/ StartRadio(s) \/ CloseOwn(s)
  BY <1>2 DEF SetHandler, Publish, StartRadio, CloseOwn
<1>3. CASE ClearOwn(s)
  BY <1>3 DEF ClearOwn, Return
<1> QED BY <1>1, <1>2, <1>3 DEF Scanner

\* Nobody else decides the outcome, the calls or the owner of the radio.
LEMMA SafeOthers ==
  ASSUME Protocol, Delegate \/ (\E f \in Founds : Discovers(f)) \/ UNCHANGED vars
  PROVE  OneCall' /\ StopOwned' /\ OutcomeWhenOver' /\ QuietBetweenScans'
<1>1. UNCHANGED <<main, cur, matched, outcome, seen, errCh, scanner, handler, scanChan, radio>>
  BY DEF Delegate, Discovers, DidDiscover, Callback, vars, bleVars, darwinVars
<1> QED BY <1>1 DEF Protocol, OneCall, StopOwned, OutcomeWhenOver, QuietBetweenScans, InScan, Running

\* The inductive step: every action keeps the protocol.
LEMMA NextProtocol == Protocol /\ [Next]_vars => Protocol'
<1> SUFFICES ASSUME Protocol, [Next]_vars PROVE Protocol'
  OBVIOUS
<1>1. CASE Caller \/ Timer
  BY <1>1, TypeCaller, OneCallCaller, OwnedCaller, ResultsCaller, SafeCaller DEF Protocol
<1>2. CASE Delegate \/ \E f \in Founds : Discovers(f)
  BY <1>2, TypeDelegate, ResultsDelegate, SafeOthers DEF Protocol
<1>3. ASSUME NEW s \in Scans, Scanner(s) PROVE Protocol'
  <2>1. OutcomeWhenOver'
    BY <1>3, ScannerFrame DEF Protocol, OutcomeWhenOver
  <2>2. QuietBetweenScans'
    BY <1>3, ScannerFrame DEF Protocol, QuietBetweenScans, Running
  <2> QED BY <1>3, <2>1, <2>2, TypeScanner, OneCallScanner, OwnedScanner, ResultsScanner DEF Protocol
<1>4. CASE UNCHANGED vars
  <2>1. TypeOK' /\ ResultsProve'
    BY <1>4 DEF Protocol, TypeOK, BleTypeOK, ResultsProve, vars, bleVars, darwinVars
  <2> QED BY <1>4, <2>1, SafeOthers DEF Protocol
<1> QED BY <1>1, <1>2, <1>3, <1>4 DEF Next

\* The protocol between the caller of ble.Scan, the scanner and the delegate, with
\* its types, holds in every reachable state.
THEOREM ProtocolHolds == Spec => []Protocol
<1> QED BY InitProtocol, NextProtocol, PTL DEF Spec

\* Every variable of the macOS scan keeps its type.
THEOREM TypeHolds == Spec => []TypeOK
<1>1. Protocol => TypeOK
  BY DEF Protocol
<1> QED BY <1>1, ProtocolHolds, PTL

\* ble.go:151 on macOS: between two windows the field is nil, no scanner runs and
\* the radio is off.
THEOREM QuietHolds == Spec => []QuietBetweenScans
<1>1. Protocol => QuietBetweenScans
  BY DEF Protocol
<1> QED BY <1>1, ProtocolHolds, PTL

----------------------------------------------------------------------------
(* Find fails only when StopScan comes early *)

\* A search that fails does so while its scanner is still starting.
LEMMA CallerFailsEarly ==
  ASSUME Protocol, Caller, outcome # "err", outcome' = "err", cur # 0
  PROVE  scanner[cur] \in Early /\ (matched => cur > 1 /\ scanner[cur] = "field")
<1> USE DEF Protocol
<1>1. StopNotScanning
  <2>1. ~(ScannerReturned /\ UNCHANGED darwinVars)
    <3>1. ASSUME ScannerReturned PROVE FALSE
      <4>1. cur \in Scans /\ scanner[cur] = "done"
        BY <3>1, Numbers DEF ScannerReturned, OneCall, InScan
      <4> QED BY <3>1, <4>1 DEF ScannerReturned, StopOwned, Early
    <3> QED BY <3>1
  <2> QED BY <2>1 DEF Caller, Begin, BeginScan, StopScanning, StopSend, StopRadio, AdapterFails, GiveUp,
          SkipDuplicate, Report, ScannerJoined, ReturnNil
<1>2. scanner[cur] \in Early
  BY <1>1 DEF StopNotScanning, StopOwned, Early
<1>3. matched => cur # 1 /\ scanner[cur] = "field"
  BY <1>2 DEF ResultsProve, Early
<1>4. cur \in Nat /\ cur # 1 => cur > 1
  OBVIOUS
<1> QED BY <1>2, <1>3, <1>4, Numbers

\* Every error of Find on macOS is StopScan overtaking the scanner, and a match is
\* lost to it only when it was news of the window before.
THEOREM FailsOnlyEarlyHolds == Spec => FailsOnlyEarly
<1> DEFINE OnlyEarly == outcome # "err" /\ outcome' = "err" /\ cur # 0 =>
                       /\ scanner[cur] \in {"new", "handler", "field"}
                       /\ matched => cur > 1 /\ scanner[cur] = "field"
<1>1. Protocol /\ [Next]_vars => [OnlyEarly]_vars
  <2> SUFFICES ASSUME Protocol, Next PROVE OnlyEarly
    OBVIOUS
  <2>1. CASE Caller
    BY <2>1, CallerFailsEarly DEF Early
  <2>2. CASE Timer \/ Delegate \/ \E f \in Founds : Discovers(f)
    BY <2>2 DEF Timer, TimerFires, Delegate, DidDiscover, Callback, Discovers, bleVars
  <2>3. CASE \E s \in Scans : Scanner(s)
    BY <2>3, ScannerFrame
  <2> QED BY <2>1, <2>2, <2>3 DEF Next
<1> QED BY <1>1, ProtocolHolds, PTL DEF Spec, FailsOnlyEarly

----------------------------------------------------------------------------
(* ScanDarwin implements DeviceSearch *)

\* The search starts where DeviceSearch does.
LEMMA InitRefines == Init => Search!Init
  BY DEF Init, BleInit, Search!Init, Phase, Running, Scans

\* Each step of the caller is one of DeviceSearch, or a stutter.
LEMMA CallerRefines ==
  ASSUME Protocol, Caller \/ Timer
  PROVE  [Search!Next]_(Search!searchVars)
<1> USE DEF Protocol, Phase, Running, Search!searchVars
<1>0. cur \in Nat /\ Scans \subseteq Nat /\ (cur # 0 => cur \in Scans)
  BY Numbers
<1>1. CASE Begin
  <2>1. cur + 1 \in Scans
    BY <1>0, <1>1, BleScanAssumption DEF Begin, BeginScan, Scans
  <2>2. \A s \in Scans : ~Running(s)
    BY <1>1 DEF Begin, BeginScan, QuietBetweenScans
  <2>3. {s \in Scans : Running(s)}' = {cur + 1}
    BY <1>1, <2>1, <2>2 DEF Begin, BeginScan, Goto, TypeOK
  <2>4. PICK s \in Scans : s = cur + 1
    BY <2>1
  <2>5. Search!Begin(s)
    BY <1>1, <2>2, <2>3, <2>4 DEF Begin, BeginScan, ResultsProve, Search!Begin
  <2> QED BY <2>5 DEF Search!Next
<1>2. CASE StopNotScanning
  <2>1. Search!Fail
    BY <1>2 DEF StopNotScanning, ReturnErr, darwinVars, Search!Fail
  <2> QED BY <2>1 DEF Search!Next
<1>3. CASE StopScanning
  BY <1>3 DEF StopScanning, darwinVars
<1>4. CASE StopSend
  <2>1. scanChan \in Scans /\ scanner[scanChan] = "select" /\ scanner' = [scanner EXCEPT ![scanChan] = "close"]
    BY <1>0, <1>4 DEF StopSend, StopOwned, Goto
  <2>2. {s \in Scans : Running(s)}' = {s \in Scans : Running(s)}
    BY <1>4, <2>1 DEF StopSend, TypeOK
  <2>3. UNCHANGED <<Phase, matched, seen>>
    BY <1>4 DEF StopSend
  <2> QED BY <2>2, <2>3
<1>5. CASE StopRadio
  <2>1. /\ cur # 0 /\ cur \in Scans /\ radio \in {0, cur}
        /\ radio' = 0 /\ UNCHANGED <<Phase, matched, seen, scanner>> /\ Phase = "closing"
    BY <1>0, <1>5 DEF StopRadio, OneCall, InScan, StopOwned
  <2>2. CASE radio = cur /\ scanner[cur] = "done"
    <3>1. {s \in Scans : Running(s)}' = {s \in Scans : Running(s)} \ {cur} /\ Running(cur)
      BY <1>0, <2>1, <2>2 DEF Scans
    <3>2. PICK s \in Scans : s = cur
      BY <2>1
    <3>3. Search!SessionEnds(s)
      BY <2>1, <3>1, <3>2 DEF Search!SessionEnds
    <3> QED BY <3>3 DEF Search!Next
  <2>3. CASE radio # cur \/ scanner[cur] # "done"
    <3>1. \A s \in Scans : radio = s => scanner[s] \notin {"unused", "done"}
      BY <2>1, <2>3 DEF OneCall, Scans
    <3>2. {s \in Scans : Running(s)}' = {s \in Scans : Running(s)}
      BY <2>1, <3>1 DEF Scans
    <3> QED BY <2>1, <3>2
  <2> QED BY <2>2, <2>3
<1>6. CASE AdapterFails /\ UNCHANGED darwinVars
  <2>1. Search!Fail
    BY <1>6 DEF AdapterFails, darwinVars, Search!Fail
  <2> QED BY <2>1 DEF Search!Next
<1>7. CASE GiveUp /\ UNCHANGED darwinVars
  <2>1. Search!GiveUp
    BY <1>7 DEF GiveUp, darwinVars, QuietBetweenScans, Search!GiveUp
  <2> QED BY <2>1 DEF Search!Next
<1>8. CASE ScannerReturned /\ UNCHANGED darwinVars
  <2>1. cur \in Scans /\ scanner[cur] = "done"
    BY <1>0, <1>8 DEF ScannerReturned, OneCall, InScan
  <2> QED BY <1>0, <1>8, <2>1 DEF ScannerReturned, StopOwned, Early, OneCall, InScan
<1>9. CASE ScannerJoined /\ UNCHANGED darwinVars
  <2>1. cur # 0 /\ cur \in Scans /\ scanner[cur] = "done" /\ main = "wait" /\ radio = 0
    BY <1>0, <1>9 DEF ScannerJoined, OneCall, InScan, StopOwned
  <2>2. ASSUME NEW s \in Scans PROVE ~Running(s)
    <3>1. (s > cur \/ s = cur \/ s < cur) /\ s # 0
      BY <1>0 DEF Scans
    <3> QED BY <2>1, <3>1 DEF OneCall
  <2>3. Search!Close
    BY <1>9, <2>2 DEF ScannerJoined, ReturnNil, darwinVars, Search!Close
  <2> QED BY <2>3 DEF Search!Next
<1>10. CASE SkipDuplicate /\ UNCHANGED darwinVars
  BY <1>10 DEF SkipDuplicate, darwinVars
<1>11. CASE Report /\ UNCHANGED darwinVars
  <2> DEFINE f == Head(results[cur])
  <2>1. cur \in Scans /\ results[cur] # <<>> /\ main = "loop" /\ ~matched
    BY <1>0, <1>11 DEF Report, OneCall, InScan, ResultsProve
  <2>2. f \in Founds
    BY <2>1 DEF TypeOK, BleTypeOK
  <2>3. f.addr \in Addrs /\ f.name \in Names /\ f = [addr |-> f.addr, name |-> f.name]
    BY <2>2 DEF Founds
  <2> HIDE DEF f
  <2>4. Search!Tell(f.addr, f.name)
    <3>1. /\ ~IsDuplicate(f) /\ seen' = [seen EXCEPT ![f.addr] = f.name]
          /\ IF f \in Targets THEN matched' = TRUE /\ main' = "stop" ELSE UNCHANGED <<main, matched>>
      BY <1>11 DEF Report, f
    <3> QED BY <1>11, <2>1, <2>3, <3>1 DEF Search!Tell, IsDuplicate, darwinVars
  <2> QED BY <2>3, <2>4 DEF Search!Next
<1>12. CASE Timer
  <2>1. Search!Expire
    BY <1>12 DEF Timer, TimerFires, darwinVars, Search!Expire
  <2> QED BY <2>1 DEF Search!Next
<1> QED BY <1>1, <1>2, <1>3, <1>4, <1>5, <1>6, <1>7, <1>8, <1>9, <1>10, <1>11, <1>12 DEF Caller

\* Each step of a scanner is one of DeviceSearch, or a stutter.
LEMMA ScannerRefines ==
  ASSUME Protocol, NEW s \in Scans, Scanner(s)
  PROVE  [Search!Next]_(Search!searchVars)
<1>0. UNCHANGED <<Phase, matched, seen>>
  BY ScannerFrame DEF Phase
<1>1. CASE scanner'[s] # "done" \/ radio' = s
  <2>1. {t \in Scans : Running(t)}' = {t \in Scans : Running(t)}
    <3>1. ASSUME NEW t \in Scans \ {s} PROVE Running(t)' = Running(t)
      BY ScannerFrame, ScannerRuns DEF Running, Scans, Protocol, StopOwned
    <3> QED BY <1>1, <3>1, ScannerFrame DEF Running
  <2> QED BY <1>0, <2>1 DEF Search!searchVars
<1>2. CASE scanner'[s] = "done" /\ radio' # s
  <2>1. {t \in Scans : Running(t)}' = {t \in Scans : Running(t)} \ {s}
    <3>1. radio' = radio
      BY <1>2, ScannerFrame
    <3> QED BY <1>2, <3>1, ScannerFrame DEF Running
  <2>2. Search!SessionEnds(s)
    BY <1>0, <2>1, ScannerFrame DEF Search!SessionEnds, Running
  <2> QED BY <2>2 DEF Search!Next
<1> QED BY <1>1, <1>2

\* Each step of the goroutines, the delegate and the radio is a step of the search
\* or a stutter.
LEMMA NextRefines == Protocol /\ [Next]_vars => [Search!Next]_(Search!searchVars)
<1> SUFFICES ASSUME Protocol, [Next]_vars PROVE [Search!Next]_(Search!searchVars)
  OBVIOUS
<1>1. CASE Caller \/ Timer
  BY <1>1, CallerRefines
<1>2. CASE Delegate \/ (\E f \in Founds : Discovers(f)) \/ UNCHANGED vars
  BY <1>2 DEF Delegate, DidDiscover, Callback, Discovers, vars, bleVars, darwinVars,
     Search!searchVars, Phase, Running
<1>3. ASSUME NEW s \in Scans, Scanner(s) PROVE [Search!Next]_(Search!searchVars)
  BY <1>3, ScannerRefines
<1> QED BY <1>1, <1>2, <1>3 DEF Next

\* ble.Find on macOS keeps the promises of DeviceSearch.
THEOREM Refinement == Spec => RefinesSearch
<1> QED BY InitRefines, NextRefines, ProtocolHolds, PTL DEF Spec, RefinesSearch, Search!Spec
=============================================================================
