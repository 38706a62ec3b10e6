-------------------------------- MODULE Conn --------------------------------
(***************************************************************************)
(* One connection, as the caller of the Bluetooth library sees it: Open,   *)
(* Connect, resolve, Dump and Close (lib/ble/ble.go) and the commands that *)
(* use them (cli/send.go, cli/cmds.go).  A call of the library is the step *)
(* in which it returns; what it may return is left to the module that adds *)
(* the library: Session, ConnDarwin.                                       *)
(***************************************************************************)
EXTENDS Naturals, Sequences

CONSTANTS
    Commands,     \* what may be run: a subset of AllCommands
    UUIDs,        \* UUIDs of services and characteristics
    Generic,      \* the services the app skips (genericServices)
    RX, TX,       \* the Nordic UART characteristics
    None,         \* an option that is not given, a characteristic not found
    Options,      \* --service, --write-char and --notify-char as given
    Tables,       \* what devices offer: sequences of services
    MaxAttempts,  \* service discoveries before Open gives up, 6 in the code
    MaxPackets    \* bound: packets a send command sends

\* A command of "send" stands for all that go through withSender.
AllCommands == {"dump", "send", "listen"}

Service == [uuid : UUIDs, chars : SUBSET UUIDs]

ASSUME ConnAssumption ==
    /\ Commands \subseteq AllCommands
    /\ Generic \subseteq UUIDs /\ {RX, TX} \subseteq UUIDs
    /\ None \notin UUIDs
    /\ \A o \in Options : DOMAIN o = {"service", "write", "notify"}
    /\ Tables \subseteq Seq(Service) \ {<<>>}
    /\ MaxAttempts \in Nat \ {0} /\ MaxPackets \in Nat

VARIABLES
    pc,         \* where the command is
    cmd,        \* which command it is
    opts,       \* its options
    table,      \* what the device offers
    attempt,    \* service discoveries begun
    services,   \* Conn.Services
    next,       \* the service resolve or Dump is at
    using,      \* Conn.Service, write and notify, once resolved
    unread,     \* characteristics of that service Dump has still to read
    sent,       \* packets sent
    opened,     \* adapter.Connect returned a link
    closes,     \* calls of Disconnect
    err,        \* the command fails
    failed,     \* services whose characteristics could not be discovered
    shown       \* what Dump has printed: service number and characteristic

params   == <<cmd, opts, table>>
found    == <<attempt, services, next, using, unread, sent, failed, shown>>
connVars == <<pc, params, found, opened, closes, err>>

CallerPcs == {"find", "connect", "pause", "services", "resolve", "choose", "chars",
              "read", "write", "subscribe", "close", "done"}

Unresolved == [service |-> 0, write |-> None, notify |-> None]

ConnTypeOK ==
    /\ cmd \in Commands /\ opts \in Options /\ table \in Tables
    /\ attempt \in 0 .. MaxAttempts
    /\ services \in {<<>>, table}
    /\ next \in 1 .. Len(table) + 1
    /\ using \in [service : 0 .. Len(table), write : UUIDs \cup {None}, notify : UUIDs \cup {None}]
    /\ unread \subseteq UUIDs
    /\ sent \in 0 .. MaxPackets
    /\ opened \in BOOLEAN /\ closes \in Nat /\ err \in BOOLEAN
    /\ failed \subseteq 1 .. Len(table)
    /\ shown \subseteq (1 .. Len(table)) \X UUIDs

ConnInit ==
    /\ pc = "find"
    /\ cmd \in Commands /\ opts \in Options /\ table \in Tables
    /\ attempt = 0 /\ services = <<>> /\ next = 1
    /\ using = Unresolved /\ unread = {} /\ sent = 0
    /\ opened = FALSE /\ closes = 0 /\ err = FALSE
    /\ failed = {} /\ shown = {}

----------------------------------------------------------------------------
(* Open *)

Goto(l) == pc' = l /\ UNCHANGED <<params, found, opened, closes, err>>

\* The deferred calls run on an error as well.
GotoWithError(l) == pc' = l /\ err' = TRUE /\ UNCHANGED <<params, found, opened, closes>>

Fail == pc' = "done" /\ err' = TRUE

\* The link is given up on an error: Disconnect, whose own error is dropped.
Abandon == Fail /\ closes' = closes + 1

Found    == pc = "find" /\ pc' = "connect" /\ UNCHANGED <<params, found, opened, closes, err>>
NotFound == pc = "find" /\ Fail /\ UNCHANGED <<params, found, opened, closes>>

Connected ==
    /\ pc = "connect"
    /\ pc' = "pause"
    /\ opened' = TRUE
    /\ UNCHANGED <<params, found, closes, err>>

ConnectFails == pc = "connect" /\ Fail /\ UNCHANGED <<params, found, opened, closes>>

\* The 300 ms before each discovery are over.
Wake ==
    /\ pc = "pause"
    /\ pc' = "services"
    /\ attempt' = attempt + 1
    /\ UNCHANGED <<params, services, next, using, unread, sent, failed, shown, opened, closes, err>>

ServicesFail == pc = "services" /\ Abandon /\ UNCHANGED <<params, found, opened>>

\* Defect: one discovery more than the loop has room for.
NoServicesOnceMore ==
    /\ pc = "services"
    /\ IF attempt <= MaxAttempts
       THEN pc' = "pause" /\ UNCHANGED <<closes, err>>
       ELSE Abandon
    /\ UNCHANGED <<params, found, opened>>

\* Defect: Open returns the error without disconnecting.
NoServicesKept ==
    /\ pc = "services"
    /\ IF attempt < MaxAttempts THEN pc' = "pause" /\ UNCHANGED err ELSE Fail
    /\ UNCHANGED <<params, found, opened, closes>>

\* Some firmware answers an empty list right after connecting.
NoServices ==
    /\ pc = "services"
    /\ IF attempt < MaxAttempts
       THEN pc' = "pause" /\ UNCHANGED <<closes, err>>
       ELSE Abandon
    /\ UNCHANGED <<params, found, opened>>

\* Defect: the loops over the services begin with the second.
ServicesFromSecond ==
    /\ pc = "services"
    /\ services' = table /\ next' = 2
    /\ pc' = IF cmd = "dump" THEN "choose" ELSE "resolve"
    /\ UNCHANGED <<params, attempt, using, unread, sent, failed, shown, opened, closes, err>>

\* dump stops at Open, the other commands resolve.
Services ==
    /\ pc = "services"
    /\ services' = table
    /\ pc' = IF cmd = "dump" THEN "choose" ELSE "resolve"
    /\ UNCHANGED <<params, attempt, next, using, unread, sent, failed, shown, opened, closes, err>>

----------------------------------------------------------------------------
(* resolve and resolveExplicit, and the loop of Dump over the services *)

Given(o)   == o # None
Explicit   == Given(opts.service) \/ Given(opts.write) \/ Given(opts.notify)
Incomplete == ~Given(opts.service) \/ ~Given(opts.write)
Malformed  == \E o \in {opts.service, opts.write, opts.notify} : Given(o) /\ o \notin UUIDs

\* Seen only now: the link is up, and is given up.
OptionsRefused ==
    /\ pc = "resolve" /\ Explicit /\ (Incomplete \/ Malformed)
    /\ Abandon
    /\ UNCHANGED <<params, found, opened>>

OptionsAccepted ==
    /\ pc = "resolve" /\ (Explicit => ~Incomplete /\ ~Malformed)
    /\ pc' = "choose"
    /\ UNCHANGED <<params, found, opened, closes, err>>

Visits(s) ==
    CASE cmd = "dump" -> TRUE
      [] cmd # "dump" /\ Explicit  -> s.uuid = opts.service
      [] cmd # "dump" /\ ~Explicit -> s.uuid \notin Generic

NextService == next' = next + 1 /\ pc' = "choose"

SkipService ==
    /\ pc = "choose" /\ next <= Len(services) /\ ~Visits(services[next])
    /\ NextService
    /\ UNCHANGED <<params, attempt, services, using, unread, sent, failed, shown, opened, closes, err>>

AskChars ==
    /\ pc = "choose" /\ next <= Len(services) /\ Visits(services[next])
    /\ pc' = "chars"
    /\ UNCHANGED <<params, found, opened, closes, err>>

NoServiceLeft ==
    /\ pc = "choose" /\ next > Len(services)
    /\ IF cmd = "dump" THEN pc' = "close" /\ UNCHANGED <<closes, err>> ELSE Abandon
    /\ UNCHANGED <<params, found, opened>>

\* Defect: the first discovery that fails ends the loop.
CharsFailEnds ==
    /\ pc = "chars"
    /\ failed' = failed \cup {next}
    /\ IF cmd # "dump"
       THEN Abandon /\ UNCHANGED next
       ELSE next' = Len(services) + 1 /\ pc' = "choose" /\ UNCHANGED <<closes, err>>
    /\ UNCHANGED <<params, attempt, services, using, unread, sent, shown, opened>>

\* Only resolveExplicit takes this for its own failure.
CharsFail ==
    /\ pc = "chars"
    /\ failed' = failed \cup {next}
    /\ IF cmd # "dump" /\ Explicit
       THEN Abandon /\ UNCHANGED next
       ELSE NextService /\ UNCHANGED <<closes, err>>
    /\ UNCHANGED <<params, attempt, services, using, unread, sent, shown, opened>>

DumpChars(chars) ==
    /\ pc = "chars" /\ cmd = "dump"
    /\ unread' = chars
    /\ pc' = "read"
    /\ UNCHANGED <<params, attempt, services, next, using, sent, failed, shown, opened, closes, err>>

WriteChar  == IF Explicit THEN opts.write ELSE RX
NotifyChar == IF Explicit THEN opts.notify ELSE TX

Use(notify) ==
    /\ using' = [service |-> next, write |-> WriteChar, notify |-> notify]
    /\ pc' = IF cmd = "send" THEN "write" ELSE "subscribe"

\* Defect: a service without the write characteristic is kept for its notifications.
UseAnyService(chars) ==
    /\ pc = "chars" /\ cmd # "dump"
    /\ WriteChar \in chars \/ NotifyChar \in chars
    /\ Use(IF NotifyChar \in chars THEN NotifyChar ELSE None)
    /\ UNCHANGED <<params, attempt, services, next, unread, sent, failed, shown, opened, closes, err>>

\* The service has what is needed: Connect is done, and the command goes on.
UseService(chars) ==
    /\ pc = "chars" /\ cmd # "dump"
    /\ WriteChar \in chars
    /\ Explicit /\ Given(NotifyChar) => NotifyChar \in chars
    /\ Use(IF NotifyChar \in chars THEN NotifyChar ELSE None)
    /\ UNCHANGED <<params, attempt, services, next, unread, sent, failed, shown, opened, closes, err>>

PassService(chars) ==
    /\ pc = "chars" /\ cmd # "dump"
    /\ \/ WriteChar \notin chars
       \/ Explicit /\ Given(NotifyChar) /\ NotifyChar \notin chars
    /\ IF Explicit
       THEN Abandon /\ UNCHANGED next
       ELSE NextService /\ UNCHANGED <<closes, err>>
    /\ UNCHANGED <<params, attempt, services, using, unread, sent, failed, shown, opened>>

Chars(chars) == DumpChars(chars) \/ UseService(chars) \/ PassService(chars)

\* Dump prints a characteristic with its value or the error of reading it.
Read(c) ==
    /\ pc = "read" /\ c \in unread
    /\ unread' = unread \ {c}
    /\ shown' = shown \cup {<<next, c>>}
    /\ UNCHANGED <<pc, params, attempt, services, next, using, sent, failed, opened, closes, err>>

AllRead ==
    /\ pc = "read" /\ unread = {}
    /\ NextService
    /\ UNCHANGED <<params, attempt, services, using, unread, sent, failed, shown, opened, closes, err>>

----------------------------------------------------------------------------
(* withSender's packets, one write each, and the deferred closeConn *)

MorePackets == pc = "write" /\ cmd = "send" /\ sent < MaxPackets

Written ==
    /\ MorePackets
    /\ sent' = sent + 1
    /\ UNCHANGED <<pc, params, attempt, services, next, using, unread, failed, shown, opened, closes, err>>

WriteFails ==
    /\ MorePackets
    /\ pc' = "close" /\ err' = TRUE
    /\ UNCHANGED <<params, found, opened, closes>>

AllSent ==
    /\ pc = "write" /\ cmd = "send" /\ sent > 0
    /\ pc' = "close"
    /\ UNCHANGED <<params, found, opened, closes, err>>

\* closeConn only warns when Disconnect fails.
CloseConn ==
    /\ pc = "close"
    /\ closes' = closes + 1
    /\ pc' = "done"
    /\ UNCHANGED <<params, found, opened, err>>

----------------------------------------------------------------------------
(* Properties *)

\* A link that was made is closed once, on every path: by Open, by Connect or by
\* the command's deferred closeConn; and one that was not made never.
LinkIsReturned ==
    /\ closes <= IF opened THEN 1 ELSE 0
    /\ pc = "done" /\ opened => closes = 1

Resolved == using # Unresolved

\* What resolve uses: an explicit choice to the letter, or the first service that
\* is not generic and has the UART RX characteristic, its TX if it has one.  Only
\* a service whose discovery failed is passed over.
ServiceIsRight ==
    Resolved =>
        LET s == table[using.service] IN
        IF Explicit
        THEN /\ s.uuid = opts.service /\ using.write = opts.write /\ using.notify = opts.notify
             /\ {using.write, using.notify} \subseteq s.chars \cup {None}
        ELSE /\ s.uuid \notin Generic /\ using.write = RX /\ RX \in s.chars
             /\ using.notify = IF TX \in s.chars THEN TX ELSE None
             /\ \A i \in 1 .. using.service - 1 :
                    i \in failed \/ table[i].uuid \in Generic \/ RX \notin table[i].chars

\* A dump that ends shows every characteristic of every service but those whose
\* discovery failed.
DumpIsComplete ==
    cmd = "dump" /\ pc \in {"close", "done"} /\ ~err =>
        shown = UNION {{i} \X table[i].chars : i \in (1 .. Len(table)) \ failed}
=============================================================================
