# acornvfd in TLA+

`acornvfd` is a command line program that drives XGGF devices (a VFD clock,
spectrum lamps) over Bluetooth Low Energy. This directory models the parts of it
whose correctness depends on order: goroutines around one scan, a connection and
the library's own threads, invocations around one state file, the computer's time
around the packets that set a clock, and the packets themselves. TLC checks small
instances; TLAPS proves the invariants that matter most, and two refinements, for
every value of the constants.

    tlc -workers 2 -config ScanLinux_windows.cfg MCScanLinux.tla
    tlapm ScanLinuxProofs.tla

## 1. Inventory

| part | code | state | operations | here |
|---|---|---|---|---|
| discovery | `lib/ble/ble.go` `Scan`, `Find` | per call: results, stop and errCh channels, `seen`; per search: `match`, `matched`, the deadline | scan one window, report, stop, join; repeat until the deadline | `BleScan`, `DeviceSearch`; its time in `Session` |
| connection | `ble.go` `Open`, `Connect`, `resolve`, `Close`, `Dump` | `Conn` | connect, discover services up to six times, pick characteristics, dump, disconnect | `Conn` |
| notifications | `Conn.Listen`, `listen` command | probes, deadline, signal channel | subscribe, probe, wait | `Session` |
| BlueZ adapter | `vendor/tinygo.org/x/bluetooth/gap_linux.go`, `gattc_linux.go`, godbus delivery | `scanCancelChan` (shared, no lock), `devices`; per `Connect` a channel and a watcher | `Scan`, `StopScan`, `Connect`, calls on a `Device` | `ScanLinux`, `ConnLinux` |
| CoreBluetooth adapter | `gap_darwin.go`, `gattc_darwin.go`, `adapter_darwin.go` | `scanChan`, `peripheralFoundHandler`, `connectMap`, one channel per kind of answer | the same, and the delegates | `ScanDarwin`, `ConnDarwin` |
| WinRT adapter | `gap_windows.go`, `gattc_windows.go` | watcher | the same | not modelled |
| remembered device | `lib/state`, `BLEOptions`, `lampFlags`, `rememberDevice` | `device.json` | choose a device, load, remember, save | `DeviceMemory` |
| sending | `cli/send.go` `withSender`, `sender` | `sent`, the connection | connect, pause, write, close | `Session`, `ClockSync` |
| clock commands | `cli/clock.go` | none; the clock keeps its own time | `time`, `date`, the fixed packets | `ClockSync` (`time`, `date`), `Packets` |
| packets | `lib/xggf` | none | frame, checksum, parse, range checks, describe | `Packets` |
| lamp commands | `cli/lamp.go` | none | argument checks, one or two packets | `Packets`, `DeviceMemory` |
| scan, dump, raw | `cli/cmds.go` | none | argument checks, one of the above | `ScanLinux`, `Session`, `Packets` |
| flags, configuration, entry | `cli/flags.go`, `main.go` | viper's tables | merge flags, environment, file | not modelled |

How they meet: a command calls `GetFlags`, then `BLEOptions` (which reads the
state file), then `ble.Open` or `ble.Connect`, which calls `Find`, which calls
`Scan` once per window of at most four seconds; the library runs its own `Scan`
on another goroutine and calls back from there. `Open` then connects and discovers
the services, `Connect` also picks the characteristics. After connecting the
command writes the state file, sends packets or listens, and disconnects.

What is hard: the caller and the scanner goroutine both close and clear
`scanCancelChan`; signals from BlueZ arrive in any order; `select` chooses at
random; scans follow each other back to back; on macOS a delegate that sends to
nobody blocks all answers after it, and an answer that is late is taken for the
next one; on Linux a watcher outlives what it watches for; a link goes between two
questions; the state file is truncated before it is written, by processes that may
overlap or die; the date and the time are read, delayed and applied at different
instants; Ctrl-C means different things from one step to the next. `PROJECT.json`
lists each hazard at its line. What makes each part correct:

* discovery: every window ends, joins its scanner and leaves the adapter as it
  found it; what was found is returned; an address is reported again only with
  news; the search keeps its deadline and uses it;
* adapters: a scan and its stop agree on who ends what; a call and its answer meet;
* connection: a link that was made is closed exactly once on every path, and the
  service in use is the right one;
* notifications: `listen` listens as long as it was told to, and ends;
* remembered device: what is on file is a device the user really used for
  something other than a lamp command, and a broken file heals;
* sending and clock: the clock ends up right, late by the pause and one write only;
* packets: what is framed is valid, says what was asked, and a mistyped byte is noticed.

## 2. Modules

```
BleScan  <- ScanLinux, ScanDarwin     (EXTENDS; both implement DeviceSearch)
Conn     <- Session, ConnDarwin, ConnLinux
DeviceMemory, ClockSync, Packets
<M>Proofs EXTENDS <M>, MC<M> EXTENDS <M>
```

`MC...` modules only give values to constants. Operators marked "Defect:" are
plausible mistakes in the definition that follows them; nothing uses them in the
specifications. They record what each property is able to notice.

### Scanning

`BleScan` is the half of `Scan` and `Find` that all platforms share: the calling
goroutine (`main`), the callback, and the three channels, indexed by the number
of the call because each call makes its own. It has no `Next`: a platform module
adds the library.

`ScanLinux` adds `adapter.Scan` (one goroutine per call, `scanner[s]`),
`adapter.StopScan` and BlueZ. Because the field is shared without a lock each
read, close and write of it is a step: `StopScanning`, `StopClose`, `StopClear`
for the caller and `Publish`, `CloseOwn`, `ClearOwn` for the scanner. Closing a
closed or nil channel sets `main = "panicked"`, after which nothing moves. A scanner that
has decided what to return (`Return`, which keeps it in `returned`) is `"returning"` while
`adapter.Scan`'s deferred calls ask BlueZ to undo the filter and the match rules; only
then does its goroutine fill `errCh` (`SendErr`). In between the field may already be nil
and `errCh` still empty. Reads
of the field are taken to return the latest write; a reordering of these accesses
by the compiler or the processor is not modelled. A device's signals carry its
address and name. godbus gives every signal that finds the channel busy a
goroutine of its own, so what is undelivered is a set, and any member may be
received next. Two equal undelivered signals are one. BlueZ is external: devices
appear, change their name or only their RSSI, and the adapter may be switched off
or stop discovering at any time.

`ScanDarwin` adds the macOS library: two fields set one after the other
(`SetHandler`, `Publish`), a stop that hands its signal over on an unbuffered
channel (`StopSend`) and turns off the radio only then, and discoveries that are on
their way in a queue and meet whichever handler there is when they arrive.

| `BleScan` and both | code |
|---|---|
| `BeginScan`, `Begin` | `Find` calls `Scan`; `Scan` makes its channels and starts the goroutine |
| `SkipDuplicate`, `Report` | `case f := <-results` |
| `TimerFires`, `ScannerReturned` | the other two cases |
| `StopNotScanning` ... `StopClear` or `StopRadio` | `adapter.StopScan()` |
| `ScannerJoined` | `<-errCh` |
| `CallbackSends`, `CallbackReturns` | the callback's filter and `select` |
| `EnterScan` ... `StartDiscovery` or `StartRadio` | `adapter.Scan` up to its loop |
| `Cancelled` ... `ReceiveAdapter`; `DidDiscover`, `Callback` | one turn of its loop; the delegate |
| `CloseOwn`, `ClearOwn` | the exits that close and clear the channel |
| `Return`, `SendErr` (Linux) | the deferred calls of `adapter.Scan`; `errCh <-` |

`DeviceSearch` is the abstract specification: windows that begin on a quiet
radio, reports that are news, a session that ends before its window does, and a
search that ends found, not found, or failed. `Phase` and the set of running
sessions map the detailed specifications onto it; on macOS a session is the
goroutine or the radio. The abstract module says that a search which ends without
error has no session running and that nothing is reported once the match is made;
it lets an error leave a session behind, because the code does (section 4).

### Connections

`Conn` is one connection as the caller of the library sees it, for `dump`, the
sending commands (`send`) and `listen`. A call of the library is the step in which
it returns; which results are possible is left to the module that EXTENDS it.

| `Conn` | code |
|---|---|
| `Found`, `NotFound` | `Find`'s result in `Open` |
| `Connected`, `ConnectFails`, `Wake` | `adapter.Connect`, the 300 ms before each attempt |
| `Services`, `NoServices`, `ServicesFail` | the loop over `DiscoverServices`, with `Disconnect` on its error exits |
| `OptionsRefused`, `OptionsAccepted` | the checks of `resolveExplicit`, made with the link up |
| `SkipService`, `AskChars`, `Chars`, `CharsFail`, `NoServiceLeft` | the loops of `resolve`, `resolveExplicit` and `Dump` |
| `Read`, `AllRead` | `Dump`'s inner loop |
| `Written`, `WriteFails`, `AllSent` | the packets of `withSender` |
| `CloseConn` | the deferred `closeConn` |

`Session` runs `Conn` over a library whose calls may return anything the device
could make them return, or fail, and adds time: `Find`'s windows and deadline
(`ScanMatches`, `ScanEmpty`, `GiveUp`), and `listen` from `Subscribe` over `Arm`
(`signal.Notify` and the timer), the second's wait, `Build`, `Probe` and the final
`select` to `Unhook` (the deferred `signal.Stop`). `Interrupt` is Ctrl-C at any time:
it kills the program unless `listen` has its handler installed, and then waits in
a channel of one.

`ConnDarwin` runs it over the macOS library. CoreBluetooth has requests it has not
answered (`asked`), a queue of answers and events on their way (`queue`), and one
delegate at a time, which sends on an unbuffered channel (`delegate`) to the call that
waits (`awaits`). Each wait has a timer (`TimesOut`, `ConnectTimesOut`) that may fire at
any time. The channel of services and that of characteristics are the device's, so an
answer reaches whichever call of its kind is waiting (`Received`); those of reads and
writes are the characteristic's and are there only while the call waits
(`TakeValue`). The delegates find a service by its UUID in a map that keeps the last one
of each (`Mapped`), so the answers for the first of two services with one UUID reach
nobody. Connect returns whatever state the peripheral is in
(`ConnectReturns`), and `UseNil` is the panic that may follow. The state of the
peripheral, whether an answer comes and what it says are external.

`ConnLinux` runs it over the Linux library: `Connect` registers for signals, asks for
`Powered` and `Connected`, calls BlueZ, starts the watcher and waits for it (`Watch` ...
`Woken`); what it has decided to return (`at` is `"failed"` or `"made"`) it returns
after the deferred calls (`Unwatch`), during which the watcher goes on. The watcher closes
the channel at each change it sees (`Receive`, `CloseChan`). Signals are counted by kind
from the moment the channel is registered, and received in any order. The other calls ask BlueZ what it
knows now: `PollResolved` and `ListServices` are two questions, and `objects` may have
gone in between. That `AddMatchSignal` is accepted is assumed; the code drops
its error.

### Memory, time and packets

`DeviceMemory` has one record per invocation of the program (`Procs`): which
command line, which address `BLEOptions` chose, what it connected to and what it
is about to save. `device.json` is a document, or missing, truncated or garbled.
`os.WriteFile` is two steps, opening with truncation and writing at offset 0,
and the second over a longer document leaves a tail (`Overlay`); a document's
length is a function of the name (`NameLen`), since addresses have one length.
The write itself is one step. `remembered` and `overlapped` are history variables: the
devices that commands other than `lamp` connected to, and whether one invocation has opened
the file while another was about to write it.

`ClockSync` has the computer's time, in ticks of `TicksPerSecond` to a second and
`SecondsPerDay` to a day, and the clock's time as a difference (`skew`). A command
is a sequence of packets (`Plans`): a date or a time built inside `fn`, a date
built before the connection, or anything else. Time passes while connecting
(`Connect`), in the wait for the second boundary (`Build`), in the pause
(`Pause`) and while writing (`Write`); computing takes none. What the clock does with
a packet (`Apply`) is external: a date packet replaces the date, a time packet the
time of day with its seconds. Both clocks run at the same rate. Time zones and
daylight saving are left out. The link and its closing are `Session`'s.

`Packets` has packets as sequences of bytes and a request as a record of what a
command line asks for, its numbers unchecked. Builders return the packets or
refuse; the parsers' range checks are in the builder that follows them. Around them
is the one use in which packets pass through hands: `DryRun` prints the
packets of a request, `Retype` copies one into `raw` with or without its checksum,
`Mistype` spoils a byte of it, and `Raw` parses it (`RawUnframed` is
`raw --no-checksum`). Hex text, and the spellings of `on` and `off`, are abstracted.
`Describe` gives the label as a tuple of what it prints. The percentage is rounded
in integers; the code's floating point agrees, because only 50 % meets a half and it
does so exactly.

## 3. Runs and bounds

| run | checks | bounds |
|---|---|---|
| `ScanLinux_windows` | `TypeOK`, `QuietBetweenScans`, `MatchIsKept`, `ErrorEndsScanner`, `ScanReturns`, `RefinesSearch` | one device that goes by no name, the clock's or another, 2 windows, a results channel of 1, 2 undelivered signals per scan |
| `ScanLinux_stop` | `StopScanAnswers`: fails | 1 window |
| `ScanDarwin_windows` | `TypeOK`, `QuietBetweenScans`, `FailsOnlyEarly`, `NobodyIsStuck`, `RefinesSearch` | the same device, 2 windows, a results channel of 1, 2 discoveries on their way |
| `Session_commands` | `TypeOK`, `LinkIsReturned`, `ServiceIsRight`, `FindKeepsTime`, `ListensLongEnough`, `ProbeIsRecent`, `CommandEnds`, `SignalCloses` | 3 tables, 7 choices of options, 6 discoveries, timeouts 0.4, 4.5 and the default 15 s, durations 0, 0.5, 1.5 s, 0 or 2 probes, 2 packets, ticks of 100 ms, calls up to one tick late |
| `ConnDarwin_link` | `TypeOK`, `AnswersMeetCalls`, `OnlyLateIsMissed`, `LateIsReported`, `NoLinkLeft`, `CommandEnds` | `dump` and `send`, 2 tables (one with two UART services after another), 3 choices of options, 2 discoveries, 2 packets |
| `ConnDarwin_failed` | `FailedConnectIsReported`: fails | one command and table |
| `ConnLinux_link` | `TypeOK`, `WatcherIsRight`, `OnlyLostIsMissed`, `CommandEnds` | `dump` and `send`, 2 tables, 2 choices of options, 2 discoveries, 2 packets, 2 connections |
| `DeviceMemory_overlap` | `TypeOK`, `MemoryIsHonest`, `TornOnlyWhileSaving`, `TornIsReplaced` | 2 overlapping invocations, 6 command lines, a clock and a lamp, 2 faults |
| `DeviceMemory_bare` | `BareReachesClock`: fails | 1 invocation at a time, no faults |
| `ClockSync_commands` | `TypeOK`, `SecondsAreRight`, `WrongByOneDayAtMost` | a day of 3 seconds of 10 ticks, every start in a day, 6 clock errors, 5 commands, pause 1 tick, connecting and writing up to 2 ticks |
| `ClockSync_pause` | `SecondsLandOnTime`: fails | the same, one command |
| `Packets_raw` | `TypeOK`, `Framed`, `TypoIsCaught`, `LabelIsHonest` | every command, numbers at and one beyond each limit, every percentage, one wrong byte out of 4 at any place |

What they show, beyond their names:

* `QuietBetweenScans` with `RefinesSearch`: no window ever meets the library's
  single-scan guard, on either platform, and what a caller of `Find` can tell of the
  goroutines is `DeviceSearch`. `MatchIsKept` and `FailsOnlyEarly` say exactly when a
  device that was found is lost to an error; `ErrorEndsScanner`, which scanners an error of
  `Find` may leave behind.
* `LinkIsReturned`: counted over all error exits of `Open`, `Connect` and the commands.
  `NoLinkLeft` says the same of the peripheral itself on macOS, attempts that timed
  out included.
* `FindKeepsTime`: a search that gives up has scanned for all its time but a rest too
  short to scan in. `ListensLongEnough` bounds what the probes take from the listening.
* `AnswersMeetCalls`: without a timeout the unbuffered channels never block the queue.
  `OnlyLateIsMissed` and `LateIsReported` say how far a timeout reaches: a service can be
  taken for one without characteristics, but a send that waits for responses then fails,
  because the left-over answer blocks the answers to its writes.
* `WatcherIsRight`: `Connect` on Linux fails for its own power-off only, and panics only
  when more changed than one connection. `OnlyLostIsMissed`: only a link that has gone
  hides characteristics.
* `SecondsAreRight` is exact: the clock is late by the pause, if a date went before the time,
  and by the time packet's own way to it, and by nothing else. What the repository promises
  leaves out the pause (`SecondsLandOnTime`, section 4).
* `TornIsReplaced`, `CommandEnds`, `ScanReturns`, `NobodyIsStuck`, `SignalCloses`: what must
  happen in the end.

Why the bounds are enough. Two windows are enough for everything one window can
leave to the next, since what survives, the adapter's fields and a queue, has one
owner at a time (`FieldOwned`, `StopOwned`). The results channel holds one instead
of sixteen so that it is full early; full and not full are all the code tells apart.
Two undelivered signals are the least that can change places; the proofs have any
number. In
`Session_commands` a tick is 100 ms, the default `--gap`; 0.4 s is below the shortest
window, 4.5 s is one full window and a rest that is just not too short, 15 s is four
windows. The tables have a generic service, one with an RX characteristic, one without a
write characteristic, and two that would serve. The six discoveries of the code are
in `Session`; the platform modules have two, since what they add does not depend on the
number. Two connections are the least with which the Linux watcher can go
wrong. A day of three seconds has every relation of the start, the second boundary and
midnight. Deadlock is checked where the system never stops (`DeviceMemory`: another
invocation may always come); a scan or a command ends, so the others say
`CHECK_DEADLOCK FALSE`.

Fairness. In `ScanLinux` and `ScanDarwin` each goroutine is weakly fair, and so is the
delegate's queue, which the Go scheduler and CoreBluetooth justify and which
includes that D-Bus calls are answered; the timer is weakly fair because it stays
ready once it has fired and `select` picks among ready cases at random, so it is
not passed over for ever. The radio has no fairness: it may be silent.
`StopDiscovery` and `StartDiscovery` may be refused. `Session`: the command's steps, which
assumes that calls of the library return; the user need not press anything. There a
`listen` without `--duration` may wait for ever, and `CommandEnds` says so.
`ConnDarwin`: main with its timers and the delegates; of CoreBluetooth only that a link
being cancelled ends, since `Connect` waits for that without a limit. `ConnLinux`: main
and the watcher; BlueZ answers a method call, and may let the link come and go.
`DeviceMemory`: an invocation that is under way takes its steps, unless it dies, and no
one has to start another; `TornIsReplaced` assumes that devices go on being found.
`ClockSync` and `Packets` state no liveness.

## 4. What the failing runs show

1. `ScanLinux_stop`: while `StopScan` runs, the scanner may close and clear the same
   field because discovery stopped or the adapter was switched off. One of the two
   then closes a closed or a nil channel and the program panics
   (`gap_linux.go:370`), where its comment promises an error.
2. `ConnDarwin_failed`: a connection attempt that fails before its timeout makes
   `Connect` return an empty `Device` and no error (`gap_darwin.go:140`), although the
   delegate's comment promises "the appropriate error"; `Open` goes on and dereferences
   nil.
3. `DeviceMemory_bare`: `dump --name XGGF-8W30` remembers a lamp; the next bare
   `acornvfd time` connects to it.
4. `ClockSync_pause`: `time` waits for a second boundary and then, after the date packet,
   for the pause of `--gap` (`clock.go:83`, `send.go:54`), so its seconds land a pause late
   on top of the write, where `CHANGELOG.md:12` says "within Bluetooth latency" and
   `clock.go:79` "a few tens of ms after the boundary". `SecondsAreRight` shows that the pause
   is all there is to it; with `--time-only` there is none.

Also seen, and part of the models without a run of its own:

* When the deadline comes before the Linux scanner has set its field, `StopScan` reports
  "not scanning", `Find` fails and the scanner lives on. It does the same when a scanner
  that failed has cleared the field already and is still at its deferred D-Bus calls:
  `errCh` is empty, a match may be thrown away, and the error reported is not the one that
  ended the scan. `ErrorEndsScanner` says that an error leaves no other scanner behind,
  `MatchIsKept` that a match goes only with a scan that failed. On macOS the same error can
  throw away a match that came late from the window before (`FailsOnlyEarly`).
* "Discovering" turning false because the window before has ended may reach the scanner of
  the next one and end it with an error (`gap_linux.go:331`).
* A change of a device that is still unknown is received first, and dropped: the "This
  shouldn't happen" of `gap_linux.go:342`.
* The Linux watcher closes the channel of `Connect` at every connection or power-off
  (`gap_linux.go:502`, `:511`): a second one panics, even while packets are being sent.
* The Linux library leaves out a second service of the same UUID (`gattc_linux.go:117`),
  and lists no characteristics, with no error, once the objects have gone (`:169`).
* `--name` with the default value does not override the remembered address
  (`flags.go:139`, `:145`).
* A second service of the same UUID takes the first one's place in the macOS library's map
  (`gattc_darwin.go:95`): reads of the first, and writes to it with a response, time out.
* Midnight, the computer's or the clock's own, may pass between the date and the time
  packet, although `clock.go:31` says "sync date and time": the clock is then a day off, and
  `WrongByOneDayAtMost` shows that nothing worse happens. The date command reads the date
  before scanning.
* `listen` builds its date and time probes before the pause that precedes them
  (`cmds.go:256`), though `cmds.go:280` says "built at send time"; `ProbeIsRecent` is weaker,
  and bounds their age by the pause and one write.
* The state file may pair the name of one device with the address of another; the name
  is only printed.

## 5. Proofs

Each `...Proofs` module holds the theorems about one component, for all values of its
constants; every obligation is checked by `tlapm`. They rest only on the named
assumptions of the modules (bounds are naturals, marks such as `NoName`, `None` and
`Absent` are no names, a date built early is alone in its plan, tables are sequences of
services), which TLC evaluates in every run; one theorem has a hypothesis besides, `Quick`
below. Hardly a property is inductive as it stands; what strengthens it is stated in the
`...Proofs` module, ahead of its proof, and was an invariant of a TLC run before that.
All the safety properties of the passing runs are proved, and with them what
some of the liveness properties rest on (`AlwaysForward`, `WaitsForStopped`).

| module | proves | along |
|---|---|---|
| `ScanLinuxProofs` | `TypeOK`, `QuietBetweenScans`, `NeverScanning`, `MatchIsKept`, `ErrorEndsScanner`, `RefinesSearch`, `WaitsForStopped` | `Protocol` |
| `ScanDarwinProofs` | `TypeOK`, `QuietBetweenScans`, `FailsOnlyEarly`, `RefinesSearch` | `Protocol` |
| `SessionProofs` | `TypeOK`, `LinkIsReturned`, `ServiceIsRight`, `FindKeepsTime`, `ListensLongEnough`, `ProbeIsRecent`, `AlwaysForward` | `CommandInv`, `ListenInv` |
| `ConnDarwinProofs` | `TypeOK`, `AnswersMeetCalls`, `NoLinkLeft`, `LateIsReported`, `OnlyLateIsMissed` | `LinkInv`, `LateInv`, `AnswerInv`, `Passed` |
| `ConnLinuxProofs` | `TypeOK`, `WatcherIsRight`, `OnlyLostIsMissed` | `WatcherInv`, `CallInv` |
| `DeviceMemoryProofs` | `TypeOK`, `MemoryIsHonest`, `TornOnlyWhileSaving` | `HonestSaves`, `AloneWithEmpty` |
| `ClockSyncProofs` | `TypeOK`, `SecondsAreRight`, `WrongByOneDayAtMost` | `SyncInv`, `DateInv` |
| `PacketsProofs` | `TypeOK`, `Framed`, `TypoIsCaught`, `LabelIsHonest` | `Framing`, `Labelled` |

* `Protocol`, Linux: that the next window finds the field nil depends on who may have
  set it and when: `OneCall` (only the latest call can be under way, and `errCh` is
  filled exactly by the calls that are over), `FieldOwned` (the field is nil or the
  latest call's, and nil while its scanner has not set it), `StopOwned` (until
  `StopScan` closes the channel only a failing scanner has, and a scanner cannot return
  nil), `ResultsProve` (a result, and so a match, proves that the field was set). The
  refinement uses it: a window ends or begins only with no scanner running, and a report
  is news because `seen` is what the abstract module remembers.
* `Protocol`, macOS: the same division; here `StopOwned` follows the one signal that
  `StopScan` sends, and `ResultsProve` allows for discoveries of the window before, from the
  second window on.
* `CommandInv`: `Linked` (a link is held exactly from `Connected` to the one close),
  `Resolving` (what the loop has passed over would not have served), `Timed` (time in
  `Find` passes only by scans) and `Counted` (attempts and probes stay in their bounds).
* `ListenInv`: `Paced` bounds what each probe has taken of the listening, so that what is
  left of the timer is spent waiting; `Fresh` bounds how old the instant in hand is while
  the probe waits for its turn.
* `AlwaysForward`, the measure behind `CommandEnds`: every step of a command leads to a later
  stage (`Stage`), or to a later turn of the same one that does not exceed `MaxTurn`, or has
  one characteristic less to read. So a command that keeps taking steps is over some day;
  that it keeps taking them is fairness, and TLC's. Its bounds come from `CommandInv` and
  `ListenInv`.
* `LinkInv`: `OneAnswer` says that until a call times out one answer is under way at
  most, and follows it from `asked` through `queue` and `delegate` to the call; `Linking`
  says when there may be a link.
* `LateInv`: after a timeout a send that has not failed has one answer more under way
  than calls to take them (`OneTooMany`), and no answer to a write can pass it
  (`WritesWait`). So the first write gets no answer, and the command an error. The lemma
  for each step says where the surplus answer goes: it is left behind (`TimesOutLate`),
  survives the return of another (`ReturnsLate`) or moves on (`PendingMoves`); and if the
  link is lost instead, there is no answer at all.
* `AnswerInv`, `Passed`: `Told` says which service an answer under way is about, and
  `OneDiscovery` that there is one at most until a discovery has timed out; so a service
  seems empty only if its own was refused or timed out, or an earlier one timed out whose
  answer came instead (`Missed`). `Passed` carries that through the loops of `resolve` and
  `Dump`.
* `CallInv`: `Placed` is where a command is in its loops; `Held` says that from the list of
  services on BlueZ has the device's objects, until the link goes; and while it has not,
  `LookedUp` says what the loops have passed over and what `Dump` has shown.
* `WatcherInv`: each connection or power-off the watcher has taken is one close of the channel.
* `HonestSaves`: a document on its way to the file already names a device that counts;
  overlapping writes add nothing new, because a torn file names no device.
  `AloneWithEmpty`: while no two overlap, a writer is alone with an empty file.
* `SyncInv`: `InStep` ties the packet in hand to the plan, `Timely` the instant it means to
  the host's time, which is past it by the pause exactly (`PauseBy`); the clock's lateness
  stays what the time packet made it (`OnTime`), since no later one of another kind moves its
  time of day.
* `DateInv`: the clock's day is that of an instant of this command when the date was
  written, and how much time has passed since (`Dated`, `Elapsed`). At the end midnight lies
  in between once at most, the host's or the clock's own. This takes `Quick`: a day is
  no shorter than connecting and one write together, nor than the wait for a second, the
  pause and two writes; and a date goes alone or right before one time. `clock.go` builds
  no other plan, and its waits are seconds, whatever the day. A pause of a day is a
  `--gap` nobody means, with which the clock could be two days off.
* `Framing` counts: eight typed bytes are valid with no mistake and invalid with one
  (`OneByteBreaks`: two valid packets differ in more than one byte, since the sums would
  differ by less than 256).
* `Labelled`: what is shown is what the request encodes to. Then `LabelIsHonest` is a fact
  about each builder, one lemma each: which byte each argument ends in (`FieldsOfNew`), that
  what the builders accept fits there (`BytesAreKept`), that rounding a percentage gives a
  nearest level, and that two requests to the lamp with the same bytes are one
  (`LampIsInjective`: a hue is its two bytes, and no two sections share a command).
* `WaitsForStopped`: when `Scan` waits for its scanner it has closed both channels
  the scanner may be blocked on. It is why `ScanReturns` needs no reader on the
  results; on macOS `StopOwned` says as much of the one signal.

Only model-checked: liveness (`ScanReturns`, `NobodyIsStuck`, `CommandEnds`,
`SignalCloses`, `TornIsReplaced`), which is out of the prover's reach, as is `ENABLED`. The
refinements are proved for `DeviceSearch`'s safety, which is all it states.

## 6. Not modelled, and the plan

Left out:

* the WinRT adapter: what its `Scan` and `StopScan` do to each other rests on what
  WinRT's watcher does when it is stopped before it has started, or aborts while it is
  being stopped, which nothing in the repository says;
* of the other adapters `Enable`, `Reset`, `EnableNotifications` and advertising. `listen`
  is checked over `Session`'s library only; its callback does nothing but print;
* partial object sets in BlueZ: a device's services are there or are not;
* flags, environment and configuration file: one pass over values by cobra and viper;
* Ctrl-C outside `listen` in the modules other than `Session`, and `listen --dry-run`;
* logging and layout, RSSI, manufacturer data, reads of the state file that meet a
  half-made write inside one `write` call, and Go's memory model beyond interleaving.

Next, in this order:

1. The measure of `AlwaysForward` for `ConnDarwin` and `ConnLinux`; their lemmas on `Conn`'s steps
   would move to a module of their own, which both use.
2. An abstract link (asked, answered or timed out) that `ConnDarwin` and `ConnLinux` both
   implement, as both scans implement `DeviceSearch`.
3. `listen` over the two libraries, with `EnableNotifications` and late notifications.
