----------------------------- MODULE ConnDarwin -----------------------------
(***************************************************************************)
(* Conn over the macOS library (gap_darwin.go, gattc_darwin.go,            *)
(* adapter_darwin.go).  CoreBluetooth calls the library's delegates one    *)
(* after the other on one queue.  Nearly every delegate sends on an        *)
(* unbuffered channel to the call that waits for it, so an answer nobody   *)
(* waits for holds up all that follow; and every wait has a timer.         *)
(***************************************************************************)
EXTENDS Conn

\* A call that waits for an answer: which one, and about what.  A write is told
\* from the next by its number, a read by its service and characteristic.
NoCall   == [kind |-> "none", of |-> <<>>]
Calls    == [kind : {"connect", "services"}, of : {<<>>}]
            \cup [kind : {"chars"}, of : Seq(Nat)]
            \cup [kind : {"write"}, of : Seq(Nat)]
            \cup [kind : {"read"}, of : Nat \X UUIDs]

VARIABLES
    cb,          \* the state of the peripheral, as State() gives it
    asked,       \* requests CoreBluetooth has not answered
    queue,       \* answers and events on their way to the delegates
    delegate,    \* what the delegate that runs is sending, or NoCall
    awaits,      \* the call main waits in, or NoCall
    connectMap,  \* the map has a channel for the peripheral
    timedOut,    \* connectionError is set
    dev,         \* the Device that Connect returned
    listed,      \* CoreBluetooth knows the services
    known,       \* services whose characteristics it knows
    refused,     \* services whose discovery it answered with an error
    late,        \* some call but Connect has timed out
    response     \* packets are written with a response: not --no-response

cbVars     == <<cb, asked, queue, listed, known, refused>>
darwinVars == <<cbVars, delegate, awaits, connectMap, timedOut, dev, late, response>>
vars       == <<connVars, darwinVars>>

TypeOK ==
    /\ ConnTypeOK
    /\ pc \in CallerPcs \cup {"panicked"}
    /\ cb \in {"disconnected", "connecting", "connected", "disconnecting"}
    /\ asked \in Seq(Calls) /\ queue \in Seq(Calls)
    /\ delegate \in Calls \cup {NoCall} /\ awaits \in Calls \cup {NoCall}
    /\ connectMap \in BOOLEAN /\ timedOut \in BOOLEAN
    /\ dev \in {"none", "real", "empty"}
    /\ listed \in BOOLEAN /\ late \in BOOLEAN /\ response \in BOOLEAN
    /\ known \subseteq 1 .. Len(table) /\ refused \subseteq 1 .. Len(table)

Init ==
    /\ ConnInit
    /\ cb = "disconnected" /\ asked = <<>> /\ queue = <<>>
    /\ delegate = NoCall /\ awaits = NoCall
    /\ connectMap = FALSE /\ timedOut = FALSE /\ dev = "none"
    /\ listed = FALSE /\ known = {} /\ refused = {} /\ late = FALSE
    /\ response \in IF cmd = "send" THEN BOOLEAN ELSE {TRUE}

Running == pc \notin {"done", "panicked"}

----------------------------------------------------------------------------
(* CoreBluetooth.  The delegates of a connection made, failed or ended do the *)
(* same with the peripheral, so one event stands for the three.               *)

ConnectEvent == [kind |-> "connect", of |-> <<>>]

\* Requests die with the link.
LinkChanges(from, to) ==
    /\ Running /\ cb \in from
    /\ cb' = to
    /\ queue' = Append(queue, ConnectEvent)
    /\ asked' = <<>>
    /\ UNCHANGED <<connVars, listed, known, refused, delegate, awaits, connectMap, timedOut, dev, late, response>>

LinkUp    == LinkChanges({"connecting"}, "connected")
LinkLost  == LinkChanges({"connecting", "connected"}, "disconnected")
Cancelled == LinkChanges({"disconnecting"}, "disconnected")

Answered ==
    /\ Running /\ asked # <<>>
    /\ asked' = Tail(asked)
    /\ queue' = Append(queue, Head(asked))
    /\ UNCHANGED <<connVars, cb, delegate, awaits, connectMap, timedOut, dev, late, response>>

\* The list of services may be empty, and still be complete the next time.
Answers ==
    /\ Answered
    /\ LET q == Head(asked) IN
         /\ listed' \in IF q.kind = "services" THEN {listed, TRUE} ELSE {listed}
         /\ known' = IF q.kind = "chars" THEN known \cup {q.of[1]} ELSE known
    /\ UNCHANGED refused

Refuses ==
    /\ Answered
    /\ Head(asked).kind = "chars"
    /\ refused' = refused \cup {Head(asked).of[1]}
    /\ UNCHANGED <<listed, known>>

CoreBluetooth == LinkUp \/ LinkLost \/ Cancelled \/ Answers \/ Refuses

----------------------------------------------------------------------------
(* The delegates *)

Taken ==
    /\ Running /\ delegate = NoCall /\ queue # <<>>
    /\ queue' = Tail(queue)
    /\ UNCHANGED <<connVars, cb, asked, listed, known, refused, awaits, timedOut, dev, late, response>>

\* DidConnect, DidFailToConnect and DidDisconnect send the peripheral to the
\* channel in the map, once.
TakeConnect ==
    /\ Taken
    /\ Head(queue).kind = "connect"
    /\ delegate' = IF connectMap THEN ConnectEvent ELSE NoCall
    /\ connectMap' = FALSE

\* The errors of these two are dropped.
TakeDiscovered ==
    /\ Taken
    /\ Head(queue).kind \in {"services", "chars"}
    /\ delegate' = Head(queue)
    /\ UNCHANGED connectMap

\* The delegates look a service up by its UUID, in a map that keeps the last of each.
Mapped(i) == \A j \in i + 1 .. Len(table) : table[j].uuid # table[i].uuid

\* The channel of a characteristic is there while its Read or Write waits.
Expected(q) ==
    /\ awaits.kind = q.kind
    /\ q.kind = "read" => awaits = q
    /\ Mapped(IF q.kind = "read" THEN q.of[1] ELSE using.service)

TakeValue ==
    /\ Taken
    /\ Head(queue).kind \in {"read", "write"}
    /\ delegate' = IF Expected(Head(queue)) THEN awaits ELSE NoCall
    /\ UNCHANGED connectMap

Delegate == TakeConnect \/ TakeDiscovered \/ TakeValue

----------------------------------------------------------------------------
(* Connect *)

\* Nothing is known by this address.
NoPeripheral == awaits = NoCall /\ ConnectFails /\ UNCHANGED darwinVars

AskConnect ==
    /\ pc = "connect" /\ awaits = NoCall
    /\ awaits' = ConnectEvent
    /\ connectMap' = TRUE
    /\ cb' = "connecting"
    /\ UNCHANGED <<connVars, asked, queue, listed, known, refused, delegate, timedOut, dev, late, response>>

\* CancelConnect, from the timer or from Disconnect.
Cancel == cb' = IF cb \in {"connecting", "connected"} THEN "disconnecting" ELSE cb

\* Defect: Connect waits on, but has not cancelled the attempt.
TimerForgets ==
    /\ pc = "connect" /\ awaits # NoCall /\ ~timedOut
    /\ timedOut' = TRUE
    /\ UNCHANGED <<connVars, cb, asked, queue, listed, known, refused, delegate, awaits, connectMap, dev, late, response>>

\* Defect: Connect returns its error at once, and leaves the attempt alone.
TimerReturns ==
    /\ awaits # NoCall /\ ~timedOut
    /\ ConnectFails
    /\ timedOut' = TRUE
    /\ awaits' = NoCall
    /\ connectMap' = FALSE
    /\ UNCHANGED <<cb, asked, queue, listed, known, refused, delegate, dev, late, response>>

\* The timer fires once, and Connect waits on for the end of the attempt.
ConnectTimesOut ==
    /\ pc = "connect" /\ awaits # NoCall /\ ~timedOut
    /\ timedOut' = TRUE
    /\ Cancel
    /\ UNCHANGED <<connVars, asked, queue, listed, known, refused, delegate, awaits, connectMap, dev, late, response>>

\* Connect receives the peripheral and looks at its state now.  One that is
\* disconnected gives an empty Device with the timer's error, which may be nil.
ConnectReturns ==
    /\ pc = "connect" /\ awaits # NoCall /\ delegate = ConnectEvent
    /\ IF cb # "disconnected"
       THEN Connected /\ dev' = "real"
       ELSE IF timedOut
            THEN ConnectFails /\ UNCHANGED dev
            ELSE Goto("pause") /\ dev' = "empty"
    /\ delegate' = NoCall /\ awaits' = NoCall /\ connectMap' = FALSE
    /\ UNCHANGED <<cbVars, timedOut, late, response>>

----------------------------------------------------------------------------
(* The calls on the Device *)

Disconnects == IF closes' # closes THEN Cancel ELSE UNCHANGED cb

\* Steps of the caller that call nothing but Disconnect.
Alone ==
    /\ awaits = NoCall
    /\ \/ Found \/ NotFound \/ Wake \/ OptionsRefused \/ OptionsAccepted
       \/ SkipService \/ AskChars \/ NoServiceLeft \/ AllRead \/ AllSent \/ CloseConn
    /\ Disconnects
    /\ UNCHANGED <<asked, queue, listed, known, refused, delegate, awaits, connectMap, timedOut, dev, late, response>>

\* DiscoverServices on the empty Device reads a field of a nil pointer.
UseNil ==
    /\ pc = "services" /\ dev = "empty"
    /\ Goto("panicked")
    /\ UNCHANGED darwinVars

\* CoreBluetooth answers nothing once the link is gone.
Ask(call) ==
    /\ awaits = NoCall
    /\ awaits' = call
    /\ asked' = IF cb = "connected" THEN Append(asked, call) ELSE asked
    /\ UNCHANGED <<connVars, cb, queue, listed, known, refused, delegate, connectMap, timedOut, dev, late, response>>

AskGatt ==
    \/ pc = "services" /\ dev = "real" /\ Ask([kind |-> "services", of |-> <<>>])
    \/ pc = "chars" /\ Ask([kind |-> "chars", of |-> <<next>>])
    \/ pc = "read" /\ \E c \in unread : Ask([kind |-> "read", of |-> <<next, c>>])
    \/ MorePackets /\ response /\ Ask([kind |-> "write", of |-> <<sent>>])

Received(kind) ==
    /\ awaits.kind = kind /\ delegate.kind = kind
    /\ kind \in {"read", "write"} => delegate = awaits
    /\ awaits' = NoCall /\ delegate' = NoCall
    /\ Disconnects
    /\ UNCHANGED <<asked, queue, listed, known, refused, connectMap, timedOut, dev, late, response>>

ServicesReturn == (IF listed THEN Services ELSE NoServices) /\ Received("services")

\* Defect: the characteristics are read without waiting for the answer.
CharsAtOnce ==
    /\ awaits.kind = "chars"
    /\ Chars(IF next \in known THEN services[next].chars ELSE {})
    /\ awaits' = NoCall
    /\ Disconnects
    /\ UNCHANGED <<asked, queue, listed, known, refused, delegate, connectMap, timedOut, dev, late, response>>

\* Whichever answer came, what is read is what is known of this service.
CharsReturn ==
    /\ Chars(IF next \in known THEN services[next].chars ELSE {})
    /\ Received("chars")

ReadReturns  == awaits.kind = "read" /\ Read(awaits.of[2]) /\ Received("read")
WriteReturns == (Written \/ WriteFails) /\ Received("write")

\* Without a response a write waits for room, ten seconds at most, and no delegate.
WriteCommand ==
    /\ ~response
    /\ Written \/ WriteFails
    /\ UNCHANGED darwinVars

\* Defect: a write that times out counts as written.
TimeoutIgnored ==
    /\ CASE awaits.kind = "services" -> ServicesFail
         [] awaits.kind = "chars"    -> CharsFail
         [] awaits.kind = "read"     -> Read(awaits.of[2])
         [] awaits.kind = "write"    -> Written
         [] OTHER                    -> FALSE
    /\ awaits' = NoCall
    /\ late' = TRUE
    /\ Disconnects
    /\ UNCHANGED <<asked, queue, listed, known, refused, delegate, connectMap, timedOut, dev, response>>

TimesOut ==
    /\ CASE awaits.kind = "services" -> ServicesFail
         [] awaits.kind = "chars"    -> CharsFail
         [] awaits.kind = "read"     -> Read(awaits.of[2])
         [] awaits.kind = "write"    -> WriteFails
         [] OTHER                    -> FALSE
    /\ awaits' = NoCall
    /\ late' = TRUE
    /\ Disconnects
    /\ UNCHANGED <<asked, queue, listed, known, refused, delegate, connectMap, timedOut, dev, response>>

Main ==
    \/ NoPeripheral \/ AskConnect \/ ConnectTimesOut \/ ConnectReturns
    \/ Alone \/ UseNil \/ AskGatt
    \/ ServicesReturn \/ CharsReturn \/ ReadReturns \/ WriteReturns
    \/ WriteCommand \/ TimesOut

Next == Main \/ Delegate \/ CoreBluetooth

\* Go runs main and its timers, and CoreBluetooth its queue; a link that is being
\* cancelled ends.  Nothing else has to be answered.
Spec == Init /\ [][Next]_vars /\ WF_vars(Main) /\ WF_vars(Delegate) /\ WF_vars(Cancelled)

----------------------------------------------------------------------------
(* Properties *)

Sends(d, call) == d.kind = call.kind /\ (d.kind \in {"read", "write"} => d = call)

\* While no call has timed out, a delegate that sends has someone to receive.
\* Connect is never left alone with it, timeout or not.
AnswersMeetCalls ==
    delegate # NoCall =>
        \/ Sends(delegate, awaits)
        \/ late /\ delegate.kind # "connect"

\* A service may be missed, its characteristics taken for none, when its own
\* discovery failed, or an earlier one timed out whose answer came instead.
Missed(i) == i \in failed \cup refused \/ \E j \in failed : j < i

\* Apart from those, resolve picks and Dump shows what they should.
OnlyLateIsMissed ==
    /\ Resolved /\ ~Explicit =>
           \A i \in 1 .. using.service - 1 :
               Missed(i) \/ table[i].uuid \in Generic \/ RX \notin table[i].chars
    /\ cmd = "dump" /\ pc = "done" /\ ~err =>
           \A i \in 1 .. Len(table) : Missed(i) \/ \A c \in table[i].chars : <<i, c>> \in shown

\* A send that met a timeout never claims success, although resolve goes on with
\* the next service: the late answer is taken for the next one, which is then left
\* over and holds up the answers to the writes.  Only --no-response escapes that.
LateIsReported == late /\ response /\ cmd = "send" /\ pc \in {"close", "done"} => err

\* The program leaves no link and no attempt to connect behind.
NoLinkLeft == pc = "done" => cb \in {"disconnected", "disconnecting"}

\* However the answers come, or fail to, the command ends.
CommandEnds == <>(pc \in {"done", "panicked"})

\* "Send the peripheral through so Connect can check its state and return the
\* appropriate error" (adapter_darwin.go:199)
FailedConnectIsReported == dev = "empty" => err
=============================================================================
