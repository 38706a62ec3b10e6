------------------------------- MODULE Session -------------------------------
(***************************************************************************)
(* A command from its search for the device to its end, in time: Conn over *)
(* a library whose calls return something, the windows of Find, and the    *)
(* listen command (cli/cmds.go), which subscribes, writes probes and waits *)
(* for its deadline or Ctrl-C.                                             *)
(***************************************************************************)
EXTENDS Conn, Integers

CONSTANTS
    FindWindow, FindMin,        \* findWindow and findMinWindow, in ticks
    DefaultTimeout,             \* DefaultScanTimeout
    Settle,                     \* the second before the first probe
    Gap,                        \* --gap
    Timeouts,                   \* values of --scan-timeout
    Durations,                  \* values of --duration
    ProbeLists,                 \* values of --send: sequences of Probes
    MaxLag                      \* bound: ticks a scan overruns, or a write takes

Probes == {"date", "time", "hex"}

ASSUME SessionAssumption ==
    /\ FindWindow \in Nat /\ FindMin \in Nat \ {0} /\ FindMin <= FindWindow
    /\ DefaultTimeout \in Nat \ {0}
    /\ Settle \in Nat /\ Gap \in Nat /\ MaxLag \in Nat
    /\ Timeouts \subseteq Int /\ Durations \subseteq Nat
    /\ ProbeLists \subseteq Seq(Probes)
    /\ \A l \in ProbeLists : Len(l) <= MaxPackets

VARIABLES
    now,          \* time since the command began
    timeout,      \* the --scan-timeout in force
    scanned,      \* how long the radio has scanned
    windows,      \* scans that ended with no match
    gaveUp,       \* Find returned "no device ... found"
    duration,     \* --duration
    todo,         \* probes still to build
    packet,       \* the latest probe: what it says and the instant it means
    since,        \* when notifications were enabled
    timer,        \* when the deadline fires, unless duration is 0
    written,      \* when the latest probe was written
    handler,      \* Ctrl-C: kills the program, or goes to the channel sig
    sig,          \* the channel sig holds an interrupt
    heeded        \* Ctrl-C has ended the listening

findVars   == <<timeout, scanned, windows, gaveUp>>
listenVars == <<duration, todo, packet, since, timer, written>>
sigVars    == <<handler, sig, heeded>>
vars       == <<connVars, now, findVars, listenVars, sigVars>>

NoPacket == [kind |-> "none", instant |-> 0]
Pcs == CallerPcs \cup {"arm", "settle", "build", "select", "stop", "killed"}

TypeOK ==
    /\ ConnTypeOK
    /\ pc \in Pcs
    /\ now \in Nat /\ timeout \in Nat /\ scanned \in Nat /\ windows \in Nat
    /\ gaveUp \in BOOLEAN
    /\ duration \in Durations \cup {0}
    /\ todo \in Seq(Probes)
    /\ cmd = "listen" => Len(todo) + sent <= MaxPackets
    /\ packet \in [kind : Probes \cup {"none"}, instant : Nat]
    /\ since \in Nat /\ timer \in Nat /\ written \in Nat
    /\ handler \in {"kill", "notify"}
    /\ sig \in BOOLEAN /\ heeded \in BOOLEAN

\* Options.scanTimeout
ScanTimeout(t) == IF t <= 0 THEN DefaultTimeout ELSE t

Init ==
    /\ ConnInit
    /\ now = 0 /\ scanned = 0 /\ windows = 0 /\ gaveUp = FALSE
    /\ timeout \in {ScanTimeout(t) : t \in Timeouts}
    /\ IF cmd = "listen"
       THEN duration \in Durations /\ todo \in ProbeLists
       ELSE duration = 0 /\ todo = <<>>
    /\ packet = NoPacket
    /\ since = 0 /\ timer = 0 /\ written = 0
    /\ handler = "kill" /\ sig = FALSE /\ heeded = FALSE

----------------------------------------------------------------------------
(* Find.  Its deadline is timeout, since time starts with it. *)

\* Defect: the window is not cut to what is left before the deadline.
UncutWindow == IF timeout - now > 0 THEN FindWindow ELSE 0

Window == IF timeout - now < FindWindow THEN timeout - now ELSE FindWindow

\* Scan matches after d ticks.
ScanMatches(d) ==
    /\ Window >= FindMin
    /\ Found
    /\ now' = now + d
    /\ scanned' = scanned + d
    /\ UNCHANGED <<timeout, windows, gaveUp, listenVars, sigVars>>

\* Scan ends with its window, lag ticks late, and Find tries again.
ScanEmpty(lag) ==
    /\ pc = "find" /\ Window >= FindMin
    /\ now' = now + Window + lag
    /\ scanned' = scanned + Window
    /\ windows' = windows + 1
    /\ UNCHANGED <<connVars, timeout, gaveUp, listenVars, sigVars>>

ScanFails ==
    /\ Window >= FindMin
    /\ NotFound
    /\ UNCHANGED <<now, findVars, listenVars, sigVars>>

\* Defect: with too little time left Find goes round without a scan.
GoRound ==
    /\ pc = "find" /\ Window < FindMin
    /\ UNCHANGED vars

GiveUp ==
    /\ Window < FindMin
    /\ NotFound
    /\ gaveUp' = TRUE
    /\ UNCHANGED <<now, timeout, scanned, windows, listenVars, sigVars>>

Find ==
    \/ \E d \in {1, Window} : ScanMatches(d)
    \/ \E lag \in 0 .. MaxLag : ScanEmpty(lag)
    \/ ScanFails \/ GiveUp

----------------------------------------------------------------------------
(* The library: any call may fail, and an answer is what the device offers.  *)
(* Time matters only to Find and to listen, and stands still here.           *)

Library ==
    \/ Connected \/ ConnectFails \/ Wake
    \/ ServicesFail \/ NoServices \/ Services
    \/ OptionsRefused \/ OptionsAccepted
    \/ SkipService \/ AskChars \/ NoServiceLeft \/ CharsFail
    \/ next <= Len(services) /\ Chars(services[next].chars)
    \/ \E c \in unread : Read(c)
    \/ AllRead \/ Written \/ WriteFails \/ AllSent \/ CloseConn

Call == Library /\ UNCHANGED <<now, findVars, listenVars, sigVars>>

----------------------------------------------------------------------------
(* The listen command, from Connect's return to closeConn *)

\* There is no notify characteristic, or the library refuses.
SubscribeFails ==
    /\ pc = "subscribe"
    /\ GotoWithError("close")
    /\ UNCHANGED <<now, findVars, listenVars, sigVars>>

Subscribe ==
    /\ pc = "subscribe" /\ Given(using.notify)
    /\ Goto("arm")
    /\ since' = now
    /\ UNCHANGED <<now, findVars, duration, todo, packet, timer, written, sigVars>>

\* Defect: the deadline counts from the start of the command.
ArmEarly ==
    /\ pc = "arm"
    /\ Goto("settle")
    /\ handler' = "notify"
    /\ timer' = duration
    /\ UNCHANGED <<now, findVars, duration, todo, packet, since, written, sig, heeded>>

\* signal.Notify and time.After
Arm ==
    /\ pc = "arm"
    /\ Goto("settle")
    /\ handler' = "notify"
    /\ timer' = now + duration
    /\ UNCHANGED <<now, findVars, duration, todo, packet, since, written, sig, heeded>>

SettleDown ==
    /\ pc = "settle"
    /\ Goto("build")
    /\ now' = IF todo # <<>> THEN now + Settle ELSE now
    /\ UNCHANGED <<findVars, listenVars, sigVars>>

\* Defect: all probes are built when the first one is.
BuildAllAtOnce ==
    /\ pc = "build" /\ todo # <<>>
    /\ Goto("write")
    /\ packet' = [kind |-> Head(todo), instant |-> since + Settle]
    /\ todo' = Tail(todo)
    /\ now' = IF sent > 0 THEN now + Gap ELSE now
    /\ UNCHANGED <<findVars, duration, since, timer, written, sigVars>>

\* The probe is built, and the pause before any but the first comes after that.
Build ==
    /\ pc = "build" /\ todo # <<>>
    /\ Goto("write")
    /\ packet' = [kind |-> Head(todo), instant |-> now]
    /\ todo' = Tail(todo)
    /\ now' = IF sent > 0 THEN now + Gap ELSE now
    /\ UNCHANGED <<findVars, duration, since, timer, written, sigVars>>

\* SetDate refuses the year, or the write fails.
ProbeFails ==
    /\ \/ pc = "build" /\ todo # <<>> /\ Head(todo) = "date"
       \/ pc = "write" /\ cmd = "listen"
    /\ GotoWithError("stop")
    /\ UNCHANGED <<now, findVars, listenVars, sigVars>>

Probe(lag) ==
    /\ pc = "write" /\ cmd = "listen"
    /\ pc' = "build"
    /\ sent' = sent + 1
    /\ now' = now + lag
    /\ written' = now'
    /\ UNCHANGED <<params, attempt, services, next, using, unread, failed, shown, opened, closes,
                   err, findVars, duration, todo, packet, since, timer, sigVars>>

\* Ctrl-C and the deadline are looked at only now.
Wait ==
    /\ pc = "build" /\ todo = <<>>
    /\ Goto("select")
    /\ UNCHANGED <<now, findVars, listenVars, sigVars>>

Tick ==
    /\ pc = "select" /\ duration > 0 /\ now < timer
    /\ now' = now + 1
    /\ UNCHANGED <<connVars, findVars, listenVars, sigVars>>

Elapsed ==
    /\ pc = "select" /\ duration > 0 /\ now >= timer
    /\ Goto("stop")
    /\ UNCHANGED <<now, findVars, listenVars, sigVars>>

\* Defect: Ctrl-C is taken from the channel, and the waiting goes on.
SignalSwallowed ==
    /\ pc = "select" /\ sig
    /\ Goto("select")
    /\ sig' = FALSE
    /\ heeded' = TRUE
    /\ UNCHANGED <<now, findVars, listenVars, handler>>

SignalReceived ==
    /\ pc = "select" /\ sig
    /\ Goto("stop")
    /\ sig' = FALSE
    /\ heeded' = TRUE
    /\ UNCHANGED <<now, findVars, listenVars, handler>>

\* The deferred signal.Stop, which comes before closeConn.
Unhook ==
    /\ pc = "stop"
    /\ Goto("close")
    /\ handler' = "kill"
    /\ UNCHANGED <<now, findVars, listenVars, sig, heeded>>

Listen ==
    \/ SubscribeFails \/ Subscribe \/ Arm \/ SettleDown \/ Build \/ ProbeFails
    \/ \E lag \in 0 .. MaxLag : Probe(lag)
    \/ Wait \/ Tick \/ Elapsed \/ SignalReceived \/ Unhook

\* The user.  A second interrupt finds the channel full and is dropped.
Interrupt ==
    /\ pc \notin {"done", "killed"}
    /\ IF handler = "notify"
       THEN sig' = TRUE /\ UNCHANGED connVars
       ELSE Goto("killed") /\ UNCHANGED sig
    /\ UNCHANGED <<now, findVars, listenVars, handler, heeded>>

Command == Find \/ Call \/ Listen
Next    == Command \/ Interrupt

\* The command takes its steps: every call of the library returns, as do sleeps
\* and timers; and select takes a case that stays ready.
Spec == Init /\ [][Next]_vars /\ WF_vars(Command)

----------------------------------------------------------------------------
(* Properties *)

\* Find ends by --scan-timeout, but for what its last scan overruns; and when it
\* gives up, the radio has scanned all that time but for less than findMinWindow
\* and what scans overran.
FindKeepsTime ==
    /\ ~opened => now <= timeout + MaxLag
    /\ gaveUp => scanned <= timeout /\ timeout < scanned + FindMin + windows * MaxLag

Listened == cmd = "listen" /\ pc \in {"stop", "close", "done"} /\ ~err

\* What the probes can take at most.
ProbeTime == Settle + sent * (Gap + MaxLag)

\* A listening that ends by itself has lasted --duration, and what the probes
\* left of it was spent waiting for the reply to the last one.
ListensLongEnough ==
    Listened /\ duration > 0 /\ ~heeded =>
        /\ now - since >= duration
        /\ sent > 0 => now - written >= duration - ProbeTime

TimePacket == packet.kind \in {"date", "time"}

\* A date or time probe means an instant no more than the pause and one write
\* before it was written.  This is weaker than "built at send time" (cmds.go:192,
\* :280): the pause of cmds.go:261 comes between building and writing.
ProbeIsRecent == TimePacket /\ pc = "build" => written - packet.instant <= Gap + MaxLag

Over == pc \in {"done", "killed"}

\* A command ends, but for a listen without --duration that nobody interrupts.
CommandEnds == <>(Over \/ [](pc = "select" /\ duration = 0 /\ ~sig))

\* A Ctrl-C that listen catches leads to the link being closed, unless a second
\* one comes between signal.Stop and closeConn.
SignalCloses == sig ~> closes = 1 \/ pc = "killed"
=============================================================================
