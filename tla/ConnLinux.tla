------------------------------ MODULE ConnLinux ------------------------------
(***************************************************************************)
(* Conn over the Linux library (gap_linux.go, gattc_linux.go).  Connect    *)
(* asks BlueZ to connect and then waits for a goroutine, the watcher, to   *)
(* see the property Connected change.  The library's other calls are       *)
(* method calls on D-Bus: they read what BlueZ knows when it answers, and  *)
(* the link may go at any time.                                            *)
(***************************************************************************)
EXTENDS Conn

CONSTANT MaxUps   \* bound: how often the device gets connected

ASSUME ConnLinuxAssumption == MaxUps \in Nat

\* Changes of Connected and Powered, as signals tell them.
Kinds == {"up", "down", "off"}

VARIABLES
    link,      \* Device1.Connected
    powered,   \* Adapter1.Powered
    resolved,  \* Device1.ServicesResolved
    objects,   \* BlueZ has objects for the device's services
    ups,       \* how often the device got connected
    at,        \* where Connect or DiscoverServices is
    watching,  \* Connect's channel is registered for signals
    emitted,   \* signals emitted since then, by kind
    taken,     \* those the watcher has received
    watcher,   \* where the watcher is
    woken,     \* connectChan is closed
    off,       \* the watcher has set err
    lost       \* the link has gone before the command gave it up

bluezVars   == <<link, powered, resolved, objects, ups, lost>>
watcherVars == <<watching, emitted, taken, watcher, woken, off>>
vars        == <<connVars, bluezVars, at, watcherVars>>

Ats == {"watch", "powered", "connected", "reply", "wait", "failed", "made", "poll", "list"}

TypeOK ==
    /\ ConnTypeOK
    /\ pc \in CallerPcs \cup {"panicked"}
    /\ {link, powered, resolved, objects, lost, watching, woken, off} \subseteq BOOLEAN
    /\ ups \in 0 .. MaxUps
    /\ at \in Ats
    /\ emitted \in [Kinds -> Nat] /\ taken \in [Kinds -> Nat]
    /\ \A k \in Kinds : taken[k] <= emitted[k]
    /\ watcher \in {"none", "range", "close"}

\* A second service with the UUID of one before it is left out by the library, so
\* table is what it lists.
Listable(t) == \A i, j \in 1 .. Len(t) : t[i].uuid = t[j].uuid => i = j

Init ==
    /\ ConnInit
    /\ Listable(table)
    /\ link = FALSE /\ powered \in BOOLEAN /\ resolved = FALSE /\ objects = FALSE
    /\ ups = 0 /\ lost = FALSE
    /\ at = "watch"
    /\ watching = FALSE /\ watcher = "none" /\ woken = FALSE /\ off = FALSE
    /\ emitted = [k \in Kinds |-> 0] /\ taken = [k \in Kinds |-> 0]

Running == pc \notin {"done", "panicked"}

----------------------------------------------------------------------------
(* BlueZ.  Other programs use it too: a device may be connected before Connect *)
(* asks for it.                                                                *)

Emit(ks) == emitted' = [k \in Kinds |-> IF watching /\ k \in ks THEN emitted[k] + 1 ELSE emitted[k]]

LinkUp ==
    /\ Running /\ ~link /\ powered /\ ups < MaxUps
    /\ link' = TRUE
    /\ ups' = ups + 1
    /\ Emit({"up"})
    /\ UNCHANGED <<connVars, powered, resolved, objects, lost, at, watching, taken, watcher, woken, off>>

Drop ==
    /\ link' = FALSE /\ resolved' = FALSE
    /\ objects' \in {objects, FALSE}
    /\ lost' = (lost \/ (link /\ opened /\ closes = 0))
    /\ UNCHANGED <<connVars, ups, at, watching, taken, watcher, woken, off>>

LinkDown == Running /\ link /\ Drop /\ Emit({"down"}) /\ UNCHANGED powered

PowerOff ==
    /\ Running /\ powered
    /\ powered' = FALSE
    /\ Drop
    /\ Emit(IF link THEN {"off", "down"} ELSE {"off"})

\* Some firmware shows no services at first.
Resolve ==
    /\ Running /\ link /\ ~(resolved /\ objects)
    /\ resolved' = TRUE
    /\ objects' \in {objects, TRUE}
    /\ UNCHANGED <<connVars, link, powered, ups, lost, at, watcherVars>>

BlueZ == LinkUp \/ LinkDown \/ PowerOff \/ Resolve

----------------------------------------------------------------------------
(* Connect *)

At(l) == at' = l

\* Defect: the channel is registered, but no match rule brings it any signals.
WatchNothing ==
    /\ pc = "connect" /\ at = "watch"
    /\ At("powered")
    /\ UNCHANGED <<connVars, bluezVars, watcherVars>>

\* The signals are watched before anything is asked.
Watch ==
    /\ pc = "connect" /\ at = "watch"
    /\ watching' = TRUE
    /\ At("powered")
    /\ UNCHANGED <<connVars, bluezVars, emitted, taken, watcher, woken, off>>

\* The adapter is not powered, or BlueZ answers with an error.
CallFails ==
    /\ pc = "connect" /\ at \in {"powered", "connected", "reply"}
    /\ At("failed")
    /\ UNCHANGED <<connVars, bluezVars, watcherVars>>

ReadPowered ==
    /\ pc = "connect" /\ at = "powered" /\ powered
    /\ At("connected")
    /\ UNCHANGED <<connVars, bluezVars, watcherVars>>

AlreadyConnected ==
    /\ pc = "connect" /\ at = "connected" /\ link
    /\ At("made")
    /\ UNCHANGED <<connVars, bluezVars, watcherVars>>

NotConnected ==
    /\ pc = "connect" /\ at = "connected" /\ ~link
    /\ At("reply")
    /\ UNCHANGED <<connVars, bluezVars, watcherVars>>

\* BlueZ answers Device1.Connect when the device is connected.
CallAnswered ==
    /\ pc = "connect" /\ at = "reply" /\ link
    /\ watcher' = "range"
    /\ At("wait")
    /\ UNCHANGED <<connVars, bluezVars, watching, emitted, taken, woken, off>>

\* err is read once connectChan is closed.
Woken ==
    /\ pc = "connect" /\ at = "wait" /\ woken
    /\ At(IF off THEN "failed" ELSE "made")
    /\ UNCHANGED <<connVars, bluezVars, watcherVars>>

\* Before Connect returns, the deferred RemoveMatchSignal asks the bus, while the
\* watcher goes on; RemoveSignal waits for signals under delivery, and drops them; and
\* the watcher's loop ends with the channel.
Unwatch ==
    /\ \/ at = "failed" /\ ConnectFails
       \/ at = "made" /\ Connected
    /\ watching' = FALSE
    /\ At("poll")
    /\ UNCHANGED <<bluezVars, emitted, taken, watcher, woken, off>>

ConnectCall ==
    \/ Watch \/ CallFails \/ ReadPowered \/ AlreadyConnected \/ NotConnected
    \/ CallAnswered \/ Woken \/ Unwatch

----------------------------------------------------------------------------
(* The watcher.  Each signal is delivered by a goroutine of its own, in any order. *)

\* Defect: a link that goes wakes Connect as well.
ReceiveAny(k) ==
    /\ watcher = "range" /\ watching /\ taken[k] < emitted[k]
    /\ taken' = [taken EXCEPT ![k] = @ + 1]
    /\ watcher' = "close"
    /\ off' = (off \/ k = "off")
    /\ UNCHANGED <<connVars, bluezVars, at, watching, emitted, woken>>

Receive(k) ==
    /\ watcher = "range" /\ watching /\ taken[k] < emitted[k]
    /\ taken' = [taken EXCEPT ![k] = @ + 1]
    /\ watcher' = IF k \in {"up", "off"} THEN "close" ELSE "range"
    /\ off' = (off \/ k = "off")
    /\ UNCHANGED <<connVars, bluezVars, at, watching, emitted, woken>>

\* Closing connectChan twice panics, wherever main is by then.
CloseChan ==
    /\ Running /\ watcher = "close"
    /\ IF woken THEN Goto("panicked") ELSE UNCHANGED connVars
    /\ woken' = TRUE
    /\ watcher' = "range"
    /\ UNCHANGED <<bluezVars, at, watching, emitted, taken, off>>

Watcher == CloseChan \/ \E k \in Kinds : Receive(k)

----------------------------------------------------------------------------
(* The calls on the Device, each a question to BlueZ *)

Asks == UNCHANGED <<bluezVars, watcherVars>>

\* DiscoverServices polls ServicesResolved, for ten seconds at most.
PollResolved ==
    /\ pc = "services" /\ at = "poll" /\ resolved
    /\ At("list")
    /\ Asks /\ UNCHANGED connVars

\* An error of the poll or the list, or the ten seconds are over.
DiscoveryFails == ServicesFail /\ Asks /\ UNCHANGED at

\* The objects are asked for after that, and may have gone.
ListServices ==
    /\ at = "list"
    /\ IF objects THEN Services ELSE NoServices
    /\ At("poll")
    /\ Asks

\* No objects are no characteristics, and no error.
Gatt ==
    /\ \/ next <= Len(services) /\ Chars(IF objects THEN services[next].chars ELSE {})
       \/ CharsFail
       \/ \E c \in unread : Read(c)
       \/ link /\ Written
       \/ WriteFails
    /\ Asks /\ UNCHANGED at

Alone ==
    /\ \/ Found \/ NotFound \/ Wake \/ OptionsRefused \/ OptionsAccepted
       \/ SkipService \/ AskChars \/ NoServiceLeft \/ AllRead \/ AllSent \/ CloseConn
    /\ Asks /\ UNCHANGED at

Main == ConnectCall \/ PollResolved \/ DiscoveryFails \/ ListServices \/ Gatt \/ Alone

Next == Main \/ Watcher \/ BlueZ

\* Go runs main and the watcher, and BlueZ answers what it is asked.
Spec == Init /\ [][Next]_vars /\ WF_vars(Main) /\ WF_vars(Watcher)

----------------------------------------------------------------------------
(* Properties *)

\* The command ends: in particular Connect never waits for a change of Connected
\* it has missed ("to avoid a race condition", gap_linux.go:455).
CommandEnds == <>(pc \in {"done", "panicked"})

\* A power-off the watcher has seen fails Connect, unless it saw a connection too.
\* The program panics only when there was more to watch than one connection: it
\* came up again, or the adapter was powered off as well.
WatcherIsRight ==
    /\ opened /\ off => taken["up"] > 0
    /\ pc = "panicked" => emitted["up"] + emitted["off"] >= 2

\* While the link holds, resolve picks and Dump shows what they should; once it has
\* gone, services seem to have no characteristics.
OnlyLostIsMissed == ~lost => ServiceIsRight /\ DumpIsComplete
=============================================================================
