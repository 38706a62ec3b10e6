--------------------------- MODULE ConnLinuxProofs ---------------------------
(* Theorems about ConnLinux, for every value of the constants. *)
EXTENDS ConnLinux, TLAPS

----------------------------------------------------------------------------
(* Why WatcherIsRight holds *)

Closings == (IF woken THEN 1 ELSE 0) + (IF watcher = "close" THEN 1 ELSE 0)

\* Every connection and power-off the watcher takes closes connectChan, once; err is
\* set by a power-off; and Connect makes a link before the watcher starts, or when
\* the watcher has woken it and no power-off was taken.
WatcherInv ==
    /\ emitted \in [Kinds -> Nat] /\ taken \in [Kinds -> Nat]
    /\ \A k \in Kinds : taken[k] <= emitted[k]
    /\ {watching, woken, off, opened} \subseteq BOOLEAN
    /\ watcher \in {"none", "range", "close"}
    /\ off <=> taken["off"] > 0
    /\ watcher = "none" => taken["up"] = 0 /\ taken["off"] = 0
    /\ watcher # "none" => pc # "find" /\ (pc = "connect" => at \in {"wait", "failed", "made"})
    /\ pc = "connect" /\ at = "made" => taken["up"] > 0 \/ watcher = "none"
    /\ pc # "panicked" => taken["up"] + taken["off"] = Closings
    /\ pc = "panicked" => taken["up"] + taken["off"] >= 2
    /\ opened => pc \notin {"find", "connect"} /\ (taken["up"] > 0 \/ watcher = "none")
    /\ WatcherIsRight

----------------------------------------------------------------------------

\* Before Connect nothing is emitted, nor taken.
LEMMA InitInv == Init => WatcherInv
<1> SUFFICES ASSUME Init PROVE WatcherInv
  OBVIOUS
<1>1. /\ emitted = [k \in Kinds |-> 0] /\ taken = [k \in Kinds |-> 0]
      /\ watching = FALSE /\ watcher = "none" /\ woken = FALSE /\ off = FALSE
      /\ pc = "find" /\ opened = FALSE
  BY DEF Init, ConnInit
<1>2. emitted \in [Kinds -> Nat] /\ taken \in [Kinds -> Nat] /\ \A k \in Kinds : taken[k] = 0 /\ emitted[k] = 0
  BY <1>1
<1>3. Closings = 0
  BY <1>1 DEF Closings
<1>4. {watching, woken, off, opened} \subseteq BOOLEAN
  BY <1>1
<1> QED BY <1>1, <1>2, <1>3, <1>4 DEF WatcherInv, WatcherIsRight, Closings, Kinds

\* The steps of the command that neither wait for the watcher nor are it: none
\* makes a link, panics, or comes back to Connect.
Elsewhere ==
    /\ UNCHANGED <<opened, watcherVars>>
    /\ pc # "panicked" /\ pc' # "panicked"
    /\ opened => pc' \notin {"find", "connect"}
    /\ pc' # "find" /\ (pc' = "connect" => pc = "find")

\* Steps that leave watcher and signals alone keep the invariant.
LEMMA ElsewhereInv ==
  ASSUME WatcherInv, Elsewhere
  PROVE  WatcherInv'
BY DEF WatcherInv, WatcherIsRight, Closings, Elsewhere, watcherVars

\* The calls on a Device are such steps.
LEMMA CallsAreElsewhere ==
  ASSUME WatcherInv, PollResolved \/ DiscoveryFails \/ ListServices \/ Gatt \/ Alone
  PROVE  Elsewhere
<1> USE DEF WatcherInv, Elsewhere, Asks, Goto, Fail, Abandon, params, found, connVars
<1>1. CASE PollResolved
  BY <1>1 DEF PollResolved
<1>2. CASE DiscoveryFails
  BY <1>2 DEF DiscoveryFails, ServicesFail
<1>3. CASE ListServices
  BY <1>3 DEF ListServices, Services, NoServices
<1>4. CASE Gatt
  <2>1. ASSUME NEW chars, Chars(chars), Asks PROVE Elsewhere
    BY <2>1 DEF Chars, DumpChars, UseService, PassService, Use, NextService
  <2>2. ASSUME CharsFail \/ (\E c \in unread : Read(c)), Asks PROVE Elsewhere
    BY <2>2 DEF CharsFail, Read, NextService
  <2>3. ASSUME Written \/ WriteFails, Asks PROVE Elsewhere
    BY <2>3 DEF Written, WriteFails, MorePackets
  <2> QED BY <1>4, <2>1, <2>2, <2>3 DEF Gatt
<1>5. CASE Alone
  <2>1. ASSUME Found \/ NotFound \/ Wake \/ OptionsRefused \/ OptionsAccepted, Asks PROVE Elsewhere
    BY <2>1 DEF Found, NotFound, Wake, OptionsRefused, OptionsAccepted
  <2>2. ASSUME SkipService \/ AskChars \/ NoServiceLeft \/ AllRead, Asks PROVE Elsewhere
    BY <2>2 DEF SkipService, AskChars, NoServiceLeft, AllRead, NextService
  <2>3. ASSUME AllSent \/ CloseConn, Asks PROVE Elsewhere
    BY <2>3 DEF AllSent, CloseConn
  <2> QED BY <1>5, <2>1, <2>2, <2>3 DEF Alone
<1> QED BY <1>1, <1>2, <1>3, <1>4, <1>5

\* Connect makes a link only without the watcher, or woken by it for a connection.
LEMMA ConnectInv ==
  ASSUME WatcherInv, ConnectCall
  PROVE  WatcherInv'
<1> USE DEF WatcherInv
<1>1. CASE Watch
  BY <1>1 DEF Watch, At, WatcherIsRight, Closings, connVars, found, params
<1>2. CASE CallFails \/ ReadPowered \/ AlreadyConnected \/ NotConnected
  <2>1. UNCHANGED <<pc, opened, watcherVars>> /\ watcher = "none"
    BY <1>2 DEF CallFails, ReadPowered, AlreadyConnected, NotConnected, connVars
  <2> QED BY <2>1 DEF WatcherIsRight, Closings, watcherVars
<1>3. CASE CallAnswered
  BY <1>3 DEF CallAnswered, At, WatcherIsRight, Closings, connVars, found, params
<1>4. CASE Woken
  <2>1. UNCHANGED <<pc, opened, watcherVars>> /\ pc = "connect" /\ woken /\ at' = (IF off THEN "failed" ELSE "made")
    BY <1>4 DEF Woken, At, connVars
  <2>2. ~off => taken["up"] > 0
    BY <2>1 DEF Closings, Kinds
  <2> QED BY <2>1, <2>2 DEF WatcherIsRight, Closings, watcherVars
<1>5. CASE Unwatch
  <2>1. CASE at = "failed" /\ ConnectFails
    BY <1>5, <2>1 DEF Unwatch, ConnectFails, Fail, WatcherIsRight, Closings
  <2>2. CASE at = "made" /\ Connected
    BY <1>5, <2>2 DEF Unwatch, Connected, WatcherIsRight, Closings
  <2> QED BY <1>5, <2>1, <2>2 DEF Unwatch
<1> QED BY <1>1, <1>2, <1>3, <1>4, <1>5 DEF ConnectCall

\* Each signal the watcher takes was emitted, and stands for one closing.
LEMMA WatcherStepInv ==
  ASSUME WatcherInv, Watcher
  PROVE  WatcherInv'
<1> USE DEF WatcherInv
<1>1. CASE CloseChan
  <2>1. CASE woken
    <3>1. taken["up"] + taken["off"] = 2 /\ pc' = "panicked"
      BY <1>1, <2>1 DEF CloseChan, Goto, Running, Closings
    <3>2. emitted["up"] + emitted["off"] >= 2
      BY <3>1 DEF Kinds
    <3> QED BY <1>1, <2>1, <3>1, <3>2 DEF CloseChan, Goto, WatcherIsRight
  <2>2. CASE ~woken
    BY <1>1, <2>2 DEF CloseChan, Running, Closings, WatcherIsRight, connVars, found, params
  <2> QED BY <2>1, <2>2
<1>2. ASSUME NEW k \in Kinds, Receive(k) PROVE WatcherInv'
  <2>1. /\ taken' = [taken EXCEPT ![k] = @ + 1] /\ taken[k] < emitted[k]
        /\ watcher = "range" /\ watcher' = (IF k \in {"up", "off"} THEN "close" ELSE "range")
        /\ off' = (off \/ k = "off")
        /\ UNCHANGED <<pc, opened, at, watching, emitted, woken>>
    BY <1>2 DEF Receive, connVars, found, params
  <2>2. /\ taken' \in [Kinds -> Nat] /\ \A l \in Kinds : taken'[l] <= emitted'[l]
        /\ \A l \in Kinds : taken'[l] = IF l = k THEN taken[l] + 1 ELSE taken[l]
    BY <2>1
  <2>3. {watching, woken, off, opened}' \subseteq BOOLEAN /\ watcher' \in {"none", "range", "close"}
    BY <2>1
  <2>4. off' <=> taken'["off"] > 0
    <3>1. CASE k = "off"
      <4>1. taken["off"] \in Nat /\ taken'["off"] = taken["off"] + 1
        BY <2>2, <3>1
      <4>2. taken'["off"] > 0
        BY <4>1
      <4>3. off'
        BY <2>1, <3>1
      <4> QED BY <4>2, <4>3
    <3>2. CASE k # "off"
      <4>1. taken'["off"] = taken["off"]
        BY <2>2, <3>2 DEF Kinds
      <4>2. off' <=> off
        BY <2>1, <3>2
      <4> QED BY <4>1, <4>2
    <3> QED BY <3>1, <3>2
  <2>5. pc' # "panicked" => taken'["up"] + taken'["off"] = Closings'
    BY <2>1, <2>2 DEF Kinds, Closings
  <2>6. /\ taken'["up"] >= taken["up"] /\ taken'["off"] >= taken["off"]
        /\ taken'["up"] \in Nat /\ taken'["off"] \in Nat /\ taken["up"] \in Nat /\ taken["off"] \in Nat
    <3>1. \A l \in Kinds : taken[l] \in Nat /\ taken'[l] \in Nat /\ taken'[l] >= taken[l]
      BY <2>2
    <3> QED BY <3>1 DEF Kinds
  <2>7. pc' = "panicked" => taken'["up"] + taken'["off"] >= 2
    BY <2>1, <2>6
  <2>8. opened' => pc' \notin {"find", "connect"} /\ taken'["up"] > 0
    BY <2>1, <2>6
  <2>9. WatcherIsRight'
    BY <2>1, <2>8 DEF WatcherIsRight
  <2> QED BY <2>1, <2>2, <2>3, <2>4, <2>5, <2>7, <2>8, <2>9
<1> QED BY <1>1, <1>2 DEF Watcher

\* A change of BlueZ is emitted at most, never taken.
LEMMA BlueZInv ==
  ASSUME WatcherInv, BlueZ
  PROVE  WatcherInv'
<1>1. /\ UNCHANGED <<pc, opened, watching, taken, watcher, woken, off>>
      /\ pc = "connect" => at' = at
      /\ emitted' = emitted \/ \E ks \in SUBSET Kinds : Emit(ks)
  BY DEF BlueZ, LinkUp, LinkDown, PowerOff, Resolve, Drop, Kinds, watcherVars, connVars, found, params
<1>2. emitted' \in [Kinds -> Nat] /\ \A k \in Kinds : emitted'[k] >= emitted[k]
  BY <1>1 DEF Emit, WatcherInv
<1>3. \A k \in Kinds : taken'[k] <= emitted'[k]
  BY <1>1, <1>2 DEF WatcherInv
<1>4. WatcherIsRight'
  <2>1. /\ emitted'["up"] >= emitted["up"] /\ emitted'["off"] >= emitted["off"]
        /\ {emitted["up"], emitted["off"], emitted'["up"], emitted'["off"]} \subseteq Nat
    BY <1>2 DEF Kinds, WatcherInv
  <2> QED BY <1>1, <2>1 DEF WatcherInv, WatcherIsRight
<1>5. Closings' = Closings
  BY <1>1 DEF Closings
<1> QED BY <1>1, <1>2, <1>3, <1>4, <1>5 DEF WatcherInv

\* How signals, the watcher and Connect's result belong together.
THEOREM WatcherInvHolds == Spec => []WatcherInv
<1>1. WatcherInv /\ [Next]_vars => WatcherInv'
  <2> SUFFICES ASSUME WatcherInv, [Next]_vars PROVE WatcherInv'
    OBVIOUS
  <2>1. CASE UNCHANGED vars
    BY <2>1 DEF vars, connVars, watcherVars, params, found, WatcherInv, WatcherIsRight, Closings
  <2>2. CASE Main
    <3>1. CASE ConnectCall
      BY <3>1, ConnectInv
    <3>2. CASE PollResolved \/ DiscoveryFails \/ ListServices \/ Gatt \/ Alone
      BY <3>2, CallsAreElsewhere, ElsewhereInv
    <3> QED BY <2>2, <3>1, <3>2 DEF Main
  <2> QED BY <2>1, <2>2, WatcherStepInv, BlueZInv DEF Next
<1> QED BY InitInv, <1>1, PTL DEF Spec

\* A power-off the watcher has seen fails Connect, unless it saw a connection too, and
\* the double close of connectChan takes a second connection or a power-off.
THEOREM WatcherIsRightHolds == Spec => []WatcherIsRight
<1>1. WatcherInv => WatcherIsRight
  BY DEF WatcherInv
<1> QED BY WatcherInvHolds, <1>1, PTL

----------------------------------------------------------------------------
(* Why TypeOK and OnlyLostIsMissed hold *)

\* Where the command is in its loops, and how long it has tried.
Placed ==
    /\ pc \in {"find", "connect"} => attempt = 0
    /\ pc = "pause" => attempt < MaxAttempts
    /\ pc \in {"resolve", "choose", "chars", "read"} => services = table
    /\ pc \in {"chars", "read"} => next <= Len(table)
    /\ pc = "read" => cmd = "dump"

\* From the list of services on, BlueZ has the device's objects until the link goes.
Held ==
    /\ resolved => link
    /\ pc = "pause" => at = "poll"
    /\ pc \in {"find", "connect"} => ~opened /\ closes = 0
    /\ pc \in CallerPcs \ {"find", "connect", "done"} => opened /\ closes = 0
    /\ ~lost /\ pc = "services" /\ at = "list" => link
    /\ ~lost /\ pc \in {"resolve", "choose", "chars", "read"} => link /\ objects

Useless(i) == i \in failed \/ table[i].uuid \in Generic \/ RX \notin table[i].chars

\* Dump has shown the services in s, but for those that failed.
ShownAre(s) ==
    \A i \in 1 .. Len(table), c \in UUIDs :
        <<i, c>> \in shown <=> i \in s /\ i \notin failed /\ c \in table[i].chars

\* What resolve and Dump have done while the link held.
LookedUp ==
    /\ pc # "done" => failed \subseteq 1 .. next - 1
    /\ pc \in {"find", "connect", "pause", "services", "resolve"} => next = 1 /\ shown = {}
    /\ pc = "chars" => Visits(table[next])
    /\ pc \in {"choose", "chars"} /\ cmd # "dump" /\ ~Explicit => \A i \in 1 .. next - 1 : Useless(i)
    /\ pc \in {"choose", "chars"} /\ cmd = "dump" => ShownAre(1 .. next - 1)
    /\ pc = "read" =>
           /\ next \notin failed /\ unread \subseteq table[next].chars
           /\ \A i \in 1 .. Len(table), c \in UUIDs :
                  <<i, c>> \in shown <=>
                      /\ i \in 1 .. next /\ i \notin failed /\ c \in table[i].chars
                      /\ ~(i = next /\ c \in unread)
    /\ pc \in {"close", "done"} /\ cmd = "dump" /\ ~err => ShownAre(1 .. Len(table))
    /\ ServiceIsRight

CallInv == TypeOK /\ Placed /\ Held /\ (~lost => LookedUp)

----------------------------------------------------------------------------
(* The steps of Conn but for Connect's *)

Caller ==
    \/ Found \/ NotFound \/ Wake \/ ServicesFail \/ NoServices \/ Services
    \/ OptionsRefused \/ OptionsAccepted \/ SkipService \/ AskChars \/ NoServiceLeft \/ CharsFail
    \/ \E chars \in SUBSET UUIDs : Chars(chars)
    \/ \E c \in unread : Read(c)
    \/ AllRead \/ Written \/ WriteFails \/ AllSent \/ CloseConn

\* What they leave, and where they lead.
CallerFrame ==
    /\ UNCHANGED params
    /\ closes' \in {closes, closes + 1} /\ err' \in {err, TRUE} /\ opened' = opened
    /\ pc \notin {"connect", "done", "panicked"} /\ pc' \in CallerPcs
    /\ pc' # "find" /\ (pc' = "connect" => pc = "find")
    /\ pc' = "done" => pc = "find" \/ closes' = closes + 1

\* Where each step of the command leads, and what it leaves.
LEMMA CallerLeads ==
  ASSUME Caller
  PROVE  CallerFrame
<1> USE DEF Fail, Abandon, found, params, CallerPcs, CallerFrame
<1>1. CASE Found \/ NotFound \/ Wake \/ ServicesFail \/ NoServices \/ Services
  BY <1>1 DEF Found, NotFound, Wake, ServicesFail, NoServices, Services
<1>2. CASE OptionsRefused \/ OptionsAccepted \/ SkipService \/ AskChars \/ NoServiceLeft \/ CharsFail
  BY <1>2 DEF OptionsRefused, OptionsAccepted, SkipService, AskChars, NoServiceLeft, CharsFail, NextService
<1>3. ASSUME NEW chars, Chars(chars) PROVE CallerFrame
  BY <1>3 DEF Chars, DumpChars, UseService, PassService, Use, NextService
<1>4. CASE (\E c \in unread : Read(c)) \/ AllRead \/ Written \/ WriteFails \/ AllSent \/ CloseConn
  BY <1>4 DEF Read, AllRead, NextService, Written, WriteFails, AllSent, CloseConn, MorePackets
<1> QED BY <1>1, <1>2, <1>3, <1>4 DEF Caller

\* A table has a service at least, and the loops a place in it.
LEMMA TablesHaveLengths ==
  ASSUME ConnTypeOK
  PROVE  /\ Len(table) \in Nat \ {0} /\ next \in Nat /\ next >= 1 /\ next <= Len(table) + 1
         /\ \A i \in 1 .. Len(table) : table[i].chars \subseteq UUIDs
<1>1. table \in Tables /\ table \in Seq(Service) \ {<<>>}
  BY ConnAssumption DEF ConnTypeOK
<1>2. Len(table) \in Nat \ {0}
  BY <1>1
<1>3. \A i \in 1 .. Len(table) : table[i] \in Service
  BY <1>1
<1> QED BY <1>1, <1>2, <1>3 DEF ConnTypeOK, Service

\* A step of the command keeps the types of what Conn keeps.
LEMMA CallerTypes ==
  ASSUME ConnTypeOK, Placed, Caller
  PROVE  ConnTypeOK'
<1> USE ConnAssumption DEF ConnTypeOK
<1>0. /\ Len(table) \in Nat \ {0} /\ next \in Nat /\ next >= 1 /\ next <= Len(table) + 1
      /\ \A i \in 1 .. Len(table) : table[i].chars \subseteq UUIDs
  BY TablesHaveLengths
<1>1. closes' \in Nat /\ err' \in BOOLEAN /\ opened' \in BOOLEAN
  <2>1. closes \in Nat /\ closes + 1 \in Nat /\ err \in BOOLEAN /\ opened \in BOOLEAN
    OBVIOUS
  <2> QED BY ONLY <2>1, CallerLeads, Caller, Zenon DEF CallerFrame
<1> DEFINE Rest == /\ cmd \in Commands /\ opts \in Options /\ table \in Tables
                   /\ attempt \in 0 .. MaxAttempts
                   /\ services \in {<<>>, table}
                   /\ next \in 1 .. Len(table) + 1
                   /\ using \in [service : 0 .. Len(table), write : UUIDs \cup {None}, notify : UUIDs \cup {None}]
                   /\ unread \subseteq UUIDs
                   /\ sent \in 0 .. MaxPackets
                   /\ failed \subseteq 1 .. Len(table)
                   /\ shown \subseteq (1 .. Len(table)) \X UUIDs
<1>2. SUFFICES Rest'
  BY <1>1
<1>3. CASE Found \/ NotFound \/ ServicesFail \/ NoServices
  BY <1>3 DEF Found, NotFound, ServicesFail, NoServices, params, found
<1>4. CASE Services
  BY <1>4 DEF Services, params
<1>5. CASE Wake
  <2>1. attempt' \in 0 .. MaxAttempts
    BY <1>5 DEF Wake, Placed
  <2> QED BY <1>5, <2>1 DEF Wake, params
<1>6. CASE OptionsRefused \/ OptionsAccepted \/ AskChars \/ NoServiceLeft
  BY <1>6 DEF OptionsRefused, OptionsAccepted, AskChars, NoServiceLeft, params, found
<1>7. CASE SkipService
  <2>1. next' \in 1 .. Len(table) + 1
    BY <1>0, <1>7 DEF SkipService, NextService, Placed
  <2> QED BY <1>7, <2>1 DEF SkipService, NextService, params
<1>8. CASE CharsFail
  <2>1. next \in 1 .. Len(table) /\ next + 1 \in 1 .. Len(table) + 1
    BY <1>0, <1>8 DEF CharsFail, Placed
  <2>2. failed' \subseteq 1 .. Len(table) /\ next' \in 1 .. Len(table) + 1
    BY <1>8, <2>1 DEF CharsFail, NextService
  <2> QED BY <1>8, <2>2 DEF CharsFail, NextService, params
<1>9. ASSUME NEW chars \in SUBSET UUIDs, Chars(chars) PROVE Rest'
  <2>1. pc = "chars" /\ next \in 1 .. Len(table) /\ next + 1 \in 1 .. Len(table) + 1
    BY <1>0, <1>9 DEF Chars, DumpChars, UseService, PassService, Placed
  <2>2. CASE DumpChars(chars)
    BY <2>2 DEF DumpChars, params
  <2>3. CASE UseService(chars)
    <3>1. using' = [service |-> next, write |-> WriteChar, notify |-> IF NotifyChar \in chars THEN NotifyChar ELSE None]
      BY <2>3 DEF UseService, Use
    <3>2. WriteChar \in UUIDs
      BY <2>3 DEF UseService
    <3>3. using' \in [service : 0 .. Len(table), write : UUIDs \cup {None}, notify : UUIDs \cup {None}]
      BY <1>0, <2>1, <3>1, <3>2
    <3> QED BY <2>3, <3>3 DEF UseService, Use, params
  <2>4. CASE PassService(chars)
    BY <2>1, <2>4 DEF PassService, NextService, params
  <2> QED BY <1>9, <2>2, <2>3, <2>4 DEF Chars
<1>10. ASSUME NEW c \in unread, Read(c) PROVE Rest'
  <2>1. next \in 1 .. Len(table) /\ c \in UUIDs
    BY <1>0, <1>10 DEF Read, Placed
  <2> QED BY <1>10, <2>1 DEF Read, params
<1>11. CASE AllRead
  <2>1. next' \in 1 .. Len(table) + 1
    BY <1>0, <1>11 DEF AllRead, NextService, Placed
  <2> QED BY <1>11, <2>1 DEF AllRead, NextService, params
<1>12. CASE Written
  BY <1>12 DEF Written, MorePackets, params
<1>13. CASE WriteFails \/ AllSent \/ CloseConn
  BY <1>13 DEF WriteFails, AllSent, CloseConn, MorePackets, params, found
<1> QED BY <1>3, <1>4, <1>5, <1>6, <1>7, <1>8, <1>9, <1>10, <1>11, <1>12, <1>13 DEF Caller

\* Every step of the command keeps its place in the loops.
LEMMA CallerPlaced ==
  ASSUME ConnTypeOK, Placed, Caller
  PROVE  Placed'
<1> USE ConnAssumption DEF ConnTypeOK, Placed, Fail, Abandon, params, found
<1>1. CASE Found \/ NotFound \/ Wake \/ ServicesFail \/ NoServices \/ Services
  BY <1>1 DEF Found, NotFound, Wake, ServicesFail, NoServices, Services
<1>2. CASE OptionsRefused \/ OptionsAccepted \/ SkipService \/ AskChars \/ NoServiceLeft \/ CharsFail
  BY <1>2 DEF OptionsRefused, OptionsAccepted, SkipService, AskChars, NoServiceLeft, CharsFail, NextService
<1>3. ASSUME NEW chars, Chars(chars) PROVE Placed'
  BY <1>3 DEF Chars, DumpChars, UseService, PassService, Use, NextService
<1>4. CASE (\E c \in unread : Read(c)) \/ AllRead \/ Written \/ WriteFails \/ AllSent \/ CloseConn
  BY <1>4 DEF Read, AllRead, NextService, Written, WriteFails, AllSent, CloseConn, MorePackets
<1> QED BY <1>1, <1>2, <1>3, <1>4 DEF Caller

----------------------------------------------------------------------------
(* The invariant, at first and over the steps of the command *)

\* A command that has not begun satisfies the invariant.
LEMMA CallInit == Init => CallInv
<1> SUFFICES ASSUME Init PROVE CallInv
  OBVIOUS
<1> USE ConnAssumption DEF Init, ConnInit
<1>1. ConnTypeOK
  <2>1. table \in Seq(Service) /\ Len(table) \in Nat \ {0}
    OBVIOUS
  <2>2. using \in [service : 0 .. Len(table), write : UUIDs \cup {None}, notify : UUIDs \cup {None}]
    BY <2>1 DEF Unresolved
  <2>3. next \in 1 .. Len(table) + 1 /\ sent \in 0 .. MaxPackets /\ attempt \in 0 .. MaxAttempts
    BY <2>1
  <2> QED BY <2>2, <2>3 DEF ConnTypeOK
<1>2. TypeOK
  <2>1. ups \in 0 .. MaxUps
    BY ConnLinuxAssumption
  <2>2. {link, powered, resolved, objects, lost, watching, woken, off} \subseteq BOOLEAN
    OBVIOUS
  <2>3. emitted \in [Kinds -> Nat] /\ taken \in [Kinds -> Nat] /\ \A k \in Kinds : taken[k] <= emitted[k]
    BY InitInv DEF WatcherInv
  <2> QED BY <1>1, <2>1, <2>2, <2>3 DEF TypeOK, CallerPcs, Ats
<1>3. Placed /\ Held
  BY DEF Placed, Held, CallerPcs
<1>4. LookedUp
  BY DEF LookedUp, ServiceIsRight, Resolved
<1> QED BY <1>2, <1>3, <1>4 DEF CallInv

\* Where the steps of the command come from and lead to.
LEMMA CallerLoops ==
  ASSUME Caller
  PROVE  /\ pc' \in {"resolve", "choose"} => pc \in {"services", "resolve", "choose", "chars", "read"}
         /\ pc' \in {"chars", "read"} => pc \in {"choose", "chars", "read"}
         /\ pc' = "services" => pc = "pause"
         /\ pc = "find" => pc' \in {"connect", "done"}
         /\ pc' # "done" => closes' = closes
<1> USE DEF Fail, Abandon, found, params
<1>1. CASE Found \/ NotFound \/ Wake \/ ServicesFail \/ NoServices \/ Services
  BY <1>1 DEF Found, NotFound, Wake, ServicesFail, NoServices, Services
<1>2. CASE OptionsRefused \/ OptionsAccepted \/ SkipService \/ AskChars \/ NoServiceLeft \/ CharsFail
  BY <1>2 DEF OptionsRefused, OptionsAccepted, SkipService, AskChars, NoServiceLeft, CharsFail, NextService
<1>3. CASE \E chars \in SUBSET UUIDs : Chars(chars)
  BY <1>3 DEF Chars, DumpChars, UseService, PassService, Use, NextService
<1>4. CASE (\E c \in unread : Read(c)) \/ AllRead \/ Written \/ WriteFails \/ AllSent \/ CloseConn
  BY <1>4 DEF Read, AllRead, NextService, Written, WriteFails, AllSent, CloseConn, MorePackets
<1> QED BY <1>1, <1>2, <1>3, <1>4 DEF Caller

\* A step of the command that asks BlueZ, and changes nothing there.
LEMMA AsksKeep ==
  ASSUME CallInv, Caller, Asks, at' \in Ats,
         pc' = "pause" => at' = "poll",
         pc = "pause" => at' = at,
         pc = "services" /\ pc' \in {"resolve", "choose"} => at = "list" /\ objects
  PROVE  TypeOK' /\ Placed' /\ Held'
<1> USE DEF CallInv
<1>1. CallerFrame /\ ConnTypeOK' /\ Placed'
  BY CallerLeads, CallerTypes, CallerPlaced DEF TypeOK
<1>2. UNCHANGED <<link, powered, resolved, objects, ups, lost, watching, emitted, taken, watcher, woken, off>>
  BY DEF Asks, bluezVars, watcherVars
<1>3. TypeOK'
  BY <1>1, <1>2 DEF CallerFrame, TypeOK
<1>4. closes' \in {closes, closes + 1} /\ closes \in Nat
  BY <1>1 DEF CallerFrame, TypeOK, ConnTypeOK
<1>5. Held'
  <2>1. (resolved' => link') /\ (pc' = "pause" => at' = "poll")
    BY <1>2 DEF Held
  <2>2. pc' \in {"find", "connect"} => ~opened' /\ closes' = 0
    BY <1>1, CallerLoops DEF CallerFrame, Held
  <2>3. pc' \in CallerPcs \ {"find", "connect", "done"} => opened' /\ closes' = 0
    BY <1>1, CallerLoops DEF CallerFrame, Held, TypeOK
  <2>4. ~lost /\ pc' = "services" => at' = "poll"
    BY CallerLoops DEF Held
  <2>5. ~lost /\ pc' \in {"resolve", "choose", "chars", "read"} => link /\ objects
    BY <1>1, CallerLoops DEF CallerFrame, Held
  <2> QED BY <1>2, <2>1, <2>2, <2>3, <2>4, <2>5 DEF Held
<1> QED BY <1>1, <1>3, <1>5

----------------------------------------------------------------------------
(* What resolve and Dump have done, over their steps *)

\* A choice once made stays right: only the set of failed services grows.
LEMMA ServiceKept ==
  ASSUME ServiceIsRight, UNCHANGED <<params, using>>, failed \subseteq failed'
  PROVE  ServiceIsRight'
BY DEF ServiceIsRight, Resolved, Explicit, Given, params

\* Steps that leave the loops where they are, or are outside them.
Aside ==
    \/ pc' = pc /\ err' = err
    \/ pc' \in {"write", "subscribe", "panicked"}
    \/ pc' \in {"close", "done"} /\ (err' = TRUE \/ cmd # "dump" \/ (pc = "close" /\ err' = err))
    \/ /\ pc \in {"find", "connect", "pause", "services", "resolve"}
       /\ pc' \in {"connect", "pause", "services", "resolve", "choose"}
    \/ pc = "choose" /\ pc' = "chars" /\ Visits(table[next])

\* A step aside of the loops keeps what they have looked at.
LEMMA LookedKept ==
  ASSUME LookedUp, UNCHANGED <<params, next, using, failed, shown, unread>>, Aside, pc = "done" => pc' = "done"
  PROVE  LookedUp'
<1>0. UNCHANGED <<cmd, table>> /\ Explicit' = Explicit
  BY DEF params, Explicit, Given
<1>1. ServiceIsRight'
  BY ServiceKept DEF LookedUp
<1>2. pc' # "done" => failed' \subseteq 1 .. next' - 1
  BY DEF LookedUp, Aside
<1>3. pc \in {"find", "connect", "pause", "services", "resolve"} => next = 1 /\ shown = {} /\ 1 .. next - 1 = {}
  BY DEF LookedUp
<1>4. pc' \in {"find", "connect", "pause", "services", "resolve"} => next' = 1 /\ shown' = {}
  BY <1>3 DEF Aside
<1>5. pc' = "chars" => Visits(table[next])'
  BY <1>0 DEF LookedUp, Aside, Visits, params
<1>6. pc' \in {"choose", "chars"} /\ cmd' # "dump" /\ ~Explicit' => \A i \in 1 .. next' - 1 : Useless(i)'
  BY <1>0, <1>3 DEF LookedUp, Aside, Useless
<1>7. pc' \in {"choose", "chars"} /\ cmd' = "dump" => ShownAre(1 .. next - 1)'
  BY <1>0, <1>3 DEF LookedUp, Aside, ShownAre
<1>8. pc' = "read" => pc = "read"
  BY DEF Aside
<1>9. pc' \in {"close", "done"} /\ cmd' = "dump" /\ ~err' => ShownAre(1 .. Len(table))'
  BY <1>0 DEF LookedUp, Aside, ShownAre
<1> QED BY <1>0, <1>1, <1>2, <1>4, <1>5, <1>6, <1>7, <1>8, <1>9 DEF LookedUp

\* Steps that end the visit of a service and go on to the next.
LEMMA LookedNext ==
  ASSUME CallInv, LookedUp, pc \in {"choose", "chars", "read"}, next' = next + 1, pc' = "choose",
         NEW n, n = next, UNCHANGED <<params, using, shown>>, failed \subseteq failed', failed' \subseteq failed \cup {next},
         cmd # "dump" /\ ~Explicit =>
             pc # "read" /\ (next \in failed' \/ table[next].uuid \in Generic \/ RX \notin table[next].chars),
         cmd = "dump" => ShownAre(1 .. n)'
  PROVE  LookedUp'
<1>0. UNCHANGED <<cmd, table>> /\ Explicit' = Explicit
  BY DEF params, Explicit, Given
<1>1. next \in Nat /\ next >= 1
  BY TablesHaveLengths DEF CallInv, TypeOK
<1>2. ServiceIsRight'
  BY ServiceKept DEF LookedUp
<1>3. failed' \subseteq 1 .. next' - 1
  BY <1>1 DEF LookedUp
<1>4. ASSUME cmd # "dump", ~Explicit, NEW i \in 1 .. next' - 1 PROVE Useless(i)'
  <2>1. CASE i = next
    BY <1>0, <1>4, <2>1 DEF Useless
  <2>2. CASE i \in 1 .. next - 1
    <3>1. Useless(i)
      BY <1>4, <2>2 DEF LookedUp
    <3> QED BY <1>0, <3>1 DEF Useless
  <2> QED BY <1>1, <2>1, <2>2
<1>5. cmd = "dump" => ShownAre(1 .. next - 1)'
  <2>1. next' - 1 = n
    BY <1>1
  <2> QED BY <2>1 DEF ShownAre
<1> QED BY <1>0, <1>2, <1>3, <1>4, <1>5 DEF LookedUp

\* The steps of the loops that ask nothing look at each service in turn.
LEMMA LoopsLooked ==
  ASSUME CallInv, LookedUp, SkipService \/ AskChars \/ NoServiceLeft \/ CharsFail \/ AllRead
  PROVE  LookedUp'
<1>0. UNCHANGED params /\ UNCHANGED <<cmd, table>> /\ services = table /\ pc \in {"choose", "chars", "read"}
  BY DEF SkipService, AskChars, NoServiceLeft, CharsFail, AllRead, params, CallInv, Placed
<1>1. next \in Nat /\ next >= 1 /\ Len(table) \in Nat /\ next <= Len(table) + 1
  BY TablesHaveLengths DEF CallInv, TypeOK
<1>2. PICK n : n = next
  OBVIOUS
<1>3. CASE SkipService
  <2>1. /\ next' = next + 1 /\ pc' = "choose" /\ UNCHANGED <<failed, using, shown, unread>> /\ ~Visits(table[next])
        /\ pc = "choose"
    BY <1>0, <1>3 DEF SkipService, NextService
  <2>2. cmd # "dump" /\ (~Explicit => table[next].uuid \in Generic)
    BY <2>1 DEF Visits
  <2> QED BY <1>0, <1>2, <2>1, <2>2, LookedNext
<1>4. CASE AskChars
  <2>1. /\ UNCHANGED <<next, using, failed, shown, unread>> /\ pc = "choose" /\ pc' = "chars"
        /\ Visits(table[next])
    BY <1>0, <1>4 DEF AskChars, found
  <2> QED BY <1>0, <2>1, LookedKept DEF Aside
<1>5. CASE NoServiceLeft
  <2>0. UNCHANGED <<next, using, failed, shown, unread>> /\ pc = "choose" /\ next > Len(table)
    BY <1>0, <1>5 DEF NoServiceLeft, found
  <2>1. CASE cmd # "dump"
    <3>1. pc' = "done" /\ err' = TRUE
      BY <1>5, <2>1 DEF NoServiceLeft, Abandon, Fail
    <3> QED BY <1>0, <2>0, <3>1, LookedKept DEF Aside
  <2>2. CASE cmd = "dump"
    <3>1. pc' = "close" /\ failed' \subseteq 1 .. next' - 1
      BY <1>5, <2>0, <2>2 DEF NoServiceLeft, LookedUp
    <3>2. next - 1 = Len(table)
      BY <1>1, <2>0
    <3>3. ShownAre(1 .. Len(table))
      BY <2>0, <2>2, <3>2 DEF LookedUp
    <3>4. ShownAre(1 .. Len(table))'
      BY <1>0, <2>0, <3>3 DEF ShownAre
    <3>5. ServiceIsRight'
      BY <1>0, <2>0, ServiceKept DEF LookedUp
    <3> QED BY <3>1, <3>4, <3>5 DEF LookedUp
  <2> QED BY <2>1, <2>2
<1>6. CASE CharsFail
  <2>0. failed' = failed \cup {next} /\ UNCHANGED <<using, shown, unread>> /\ pc = "chars"
    BY <1>6 DEF CharsFail
  <2>1. CASE cmd # "dump" /\ Explicit
    <3>1. pc' = "done" /\ err' = TRUE /\ next' = next
      BY <1>6, <2>1 DEF CharsFail, Abandon, Fail
    <3>2. ServiceIsRight'
      BY <1>0, <2>0, ServiceKept DEF LookedUp
    <3> QED BY <3>1, <3>2 DEF LookedUp
  <2>2. CASE ~(cmd # "dump" /\ Explicit)
    <3>1. next' = next + 1 /\ pc' = "choose"
      BY <1>6, <2>2 DEF CharsFail, NextService
    <3>2. ASSUME cmd = "dump" PROVE ShownAre(1 .. n)'
      <4>1. ShownAre(1 .. n - 1)
        BY <1>2, <2>0, <3>2 DEF LookedUp
      <4>2. table' = table /\ shown' = shown /\ failed' = failed \cup {n}
        BY <1>0, <1>2, <2>0
      <4>3. \A i \in 1 .. Len(table) : i \in 1 .. n /\ i \notin failed' <=> i \in 1 .. n - 1 /\ i \notin failed
        BY <1>1, <1>2, <4>2
      <4> QED BY <4>1, <4>2, <4>3 DEF ShownAre
    <3> QED BY <1>0, <1>2, <2>0, <3>1, <3>2, LookedNext
  <2> QED BY <2>1, <2>2
<1>7. CASE AllRead
  <2>1. /\ next' = next + 1 /\ pc' = "choose" /\ UNCHANGED <<failed, using, shown>> /\ pc = "read" /\ unread = {}
        /\ cmd = "dump"
    BY <1>7 DEF AllRead, NextService, CallInv, Placed
  <2>2. ShownAre(1 .. n)
    BY <1>2, <2>1 DEF LookedUp, ShownAre
  <2>3. ShownAre(1 .. n)'
    BY <1>0, <2>1, <2>2 DEF ShownAre
  <2> QED BY <1>0, <1>2, <2>1, <2>3, LookedNext
<1> QED BY <1>3, <1>4, <1>5, <1>6, <1>7

\* A characteristic that is read is shown.
LEMMA ReadLooked ==
  ASSUME CallInv, LookedUp, NEW c \in unread, Read(c)
  PROVE  LookedUp'
<1>1. /\ pc = "read" /\ pc' = "read" /\ UNCHANGED <<params, cmd, table, next, using, failed>>
      /\ unread' = unread \ {c} /\ shown' = shown \cup {<<next, c>>}
  BY DEF Read, params
<1>2. next \in 1 .. Len(table)
  BY <1>1, TablesHaveLengths DEF CallInv, TypeOK, Placed
<1>3. ServiceIsRight' /\ failed' \subseteq 1 .. next' - 1
  BY <1>1, ServiceKept DEF LookedUp
<1>4. next' \notin failed' /\ unread' \subseteq table'[next'].chars
  BY <1>1 DEF LookedUp
<1>5. ASSUME NEW i \in 1 .. Len(table), NEW d \in UUIDs
      PROVE  <<i, d>> \in shown' <=> i \in 1 .. next /\ i \notin failed /\ d \in table[i].chars /\ ~(i = next /\ d \in unread')
  <2>1. <<i, d>> \in shown <=> i \in 1 .. next /\ i \notin failed /\ d \in table[i].chars /\ ~(i = next /\ d \in unread)
    BY <1>1 DEF LookedUp
  <2>2. CASE i = next /\ d = c
    BY <1>1, <1>2, <2>2 DEF LookedUp
  <2>3. CASE ~(i = next /\ d = c)
    BY <1>1, <2>1, <2>3
  <2> QED BY <2>2, <2>3
<1> QED BY <1>1, <1>3, <1>4, <1>5 DEF LookedUp


\* A service whose characteristics are those of the table is looked at.
LEMMA CharsLooked ==
  ASSUME CallInv, LookedUp, NEW chars, Chars(chars), chars = table[next].chars
  PROVE  LookedUp'
<1>0. /\ UNCHANGED params /\ UNCHANGED <<cmd, opts, table, failed, shown>> /\ Explicit' = Explicit
      /\ pc = "chars" /\ Visits(table[next]) /\ failed \subseteq 1 .. next - 1
  BY DEF Chars, DumpChars, UseService, PassService, params, Explicit, Given, LookedUp
<1>1. next \in 1 .. Len(table) /\ next \in Nat /\ Len(table) \in Nat
  BY <1>0, TablesHaveLengths DEF CallInv, TypeOK, Placed
<1>2. CASE DumpChars(chars)
  <2>1. UNCHANGED <<next, using>> /\ pc' = "read" /\ unread' = chars /\ cmd = "dump"
    BY <1>2 DEF DumpChars
  <2>2. ServiceIsRight'
    BY <1>0, <2>1, ServiceKept DEF LookedUp
  <2>3. next' \notin failed' /\ unread' \subseteq table'[next'].chars /\ failed' \subseteq 1 .. next' - 1
    BY <1>0, <1>1, <2>1
  <2>4. ASSUME NEW i \in 1 .. Len(table), NEW c \in UUIDs
        PROVE  <<i, c>> \in shown' <=> i \in 1 .. next /\ i \notin failed /\ c \in table[i].chars /\ ~(i = next /\ c \in unread')
    <3>1. <<i, c>> \in shown <=> i \in 1 .. next - 1 /\ i \notin failed /\ c \in table[i].chars
      BY <1>0, <2>1 DEF LookedUp, ShownAre
    <3>2. i \in 1 .. next - 1 <=> i \in 1 .. next /\ i # next
      BY <1>1
    <3> QED BY <1>0, <2>1, <3>1, <3>2
  <2> QED BY <1>0, <2>1, <2>2, <2>3, <2>4 DEF LookedUp
<1>3. CASE UseService(chars)
  <2>1. /\ next' = next /\ pc' \in {"write", "subscribe"} /\ cmd # "dump"
        /\ using' = [service |-> next, write |-> WriteChar,
                     notify |-> IF NotifyChar \in table[next].chars THEN NotifyChar ELSE None]
        /\ WriteChar \in table[next].chars
        /\ Explicit /\ Given(NotifyChar) => NotifyChar \in table[next].chars
    BY <1>3 DEF UseService, Use
  <2>2. failed' \subseteq 1 .. next' - 1
    BY <1>0, <2>1
  <2>3. None \notin table[next].chars
    BY <1>1, TablesHaveLengths, ConnAssumption DEF CallInv, TypeOK
  <2>4. ServiceIsRight'
    <3>1. CASE Explicit
      <4>1. using'.notify = opts.notify
        BY <2>1, <2>3, <3>1 DEF NotifyChar, Given
      <4>2. table[next].uuid = opts.service
        BY <1>0, <2>1, <3>1 DEF Visits
      <4> QED BY <1>0, <2>1, <3>1, <4>1, <4>2 DEF ServiceIsRight, WriteChar
    <3>2. CASE ~Explicit
      <4>1. table[next].uuid \notin Generic
        BY <1>0, <2>1, <3>2 DEF Visits
      <4>2. \A i \in 1 .. next - 1 : i \in failed \/ table[i].uuid \in Generic \/ RX \notin table[i].chars
        BY <1>0, <2>1, <3>2 DEF LookedUp, Useless
      <4> QED BY <1>0, <2>1, <3>2, <4>1, <4>2 DEF ServiceIsRight, WriteChar, NotifyChar
    <3> QED BY <3>1, <3>2
  <2> QED BY <1>0, <2>1, <2>2, <2>4 DEF LookedUp
<1>4. CASE PassService(chars)
  <2>1. CASE Explicit
    <3>1. UNCHANGED <<next, using, unread>> /\ pc' = "done" /\ err' = TRUE
      BY <1>4, <2>1 DEF PassService, Abandon, Fail
    <3> QED BY <1>0, <3>1, LookedKept DEF Aside
  <2>2. CASE ~Explicit
    <3>1. next' = next + 1 /\ pc' = "choose" /\ using' = using /\ cmd # "dump" /\ RX \notin chars
      BY <1>4, <2>2 DEF PassService, NextService, WriteChar
    <3>2. PICK n : n = next
      OBVIOUS
    <3> QED BY <1>0, <3>1, <3>2, LookedNext
  <2> QED BY <2>1, <2>2
<1> QED BY <1>2, <1>3, <1>4 DEF Chars

\* The other steps of the command do not touch what resolve and Dump have done.
LEMMA RestLooked ==
  ASSUME LookedUp,
         \/ Found \/ NotFound \/ Wake \/ ServicesFail \/ NoServices \/ Services \/ OptionsRefused
         \/ OptionsAccepted \/ Written \/ WriteFails \/ AllSent \/ CloseConn
  PROVE  LookedUp'
<1>1. /\ UNCHANGED <<params, next, using, failed, shown, unread>> /\ pc # "done"
      /\ \/ pc' = pc /\ err' = err
         \/ pc' \in {"close", "done"} /\ (err' = TRUE \/ cmd # "dump" \/ (pc = "close" /\ err' = err))
         \/ /\ pc \in {"find", "connect", "pause", "services", "resolve"}
            /\ pc' \in {"connect", "pause", "services", "resolve", "choose"}
  BY DEF Found, NotFound, Wake, ServicesFail, NoServices, Services, OptionsRefused, OptionsAccepted,
     Written, WriteFails, AllSent, CloseConn, MorePackets, Fail, Abandon, found
<1> QED BY <1>1, LookedKept DEF Aside

----------------------------------------------------------------------------
(* The invariant over every step *)

\* What a call on a Device has to keep, for the invariant.
LEMMA AsksInv ==
  ASSUME CallInv, Caller, Asks, at' \in Ats,
         pc' = "pause" => at' = "poll",
         pc = "pause" => at' = at,
         pc = "services" /\ pc' \in {"resolve", "choose"} => at = "list" /\ objects,
         ~lost /\ LookedUp => LookedUp'
  PROVE  CallInv'
<1>1. lost' = lost
  BY DEF Asks, bluezVars
<1> QED BY <1>1, AsksKeep DEF CallInv

\* Each call on a Device keeps it.
LEMMA CallsInv ==
  ASSUME CallInv, PollResolved \/ DiscoveryFails \/ ListServices \/ Gatt \/ Alone
  PROVE  CallInv'
<1> USE DEF CallInv
<1>0. at \in Ats /\ (pc = "pause" => at = "poll")
  BY DEF TypeOK, Held
<1>1. CASE PollResolved
  <2>1. /\ UNCHANGED <<link, powered, resolved, objects, ups, lost, watching, emitted, taken, watcher, woken, off>>
        /\ UNCHANGED connVars /\ pc = "services" /\ resolved /\ at' = "list"
    BY <1>1 DEF PollResolved, Asks, At, bluezVars, watcherVars
  <2>2. /\ UNCHANGED <<params, next, using, failed, shown, unread, err, pc, attempt, services, sent, opened, closes>>
        /\ UNCHANGED <<cmd, opts, table>>
    BY <2>1 DEF connVars, found, params
  <2>3. TypeOK' /\ Placed'
    BY <2>1, <2>2 DEF TypeOK, ConnTypeOK, Ats, Placed
  <2>4. Held'
    BY <2>1, <2>2 DEF Held
  <2>5. ~lost => LookedUp'
    BY <2>1, <2>2, LookedKept DEF Aside
  <2> QED BY <2>1, <2>3, <2>4, <2>5
<1>2. CASE DiscoveryFails
  <2>1. ServicesFail /\ pc' = "done" /\ at' = at /\ Asks /\ pc = "services" /\ Caller
    BY <1>2 DEF DiscoveryFails, ServicesFail, Abandon, Fail, Caller
  <2> QED BY <1>0, <2>1, RestLooked, AsksInv
<1>3. CASE ListServices
  <2>1. at = "list" /\ at' = "poll" /\ Asks /\ pc = "services" /\ (NoServices \/ (Services /\ objects)) /\ Caller
    BY <1>3 DEF ListServices, At, NoServices, Services, Caller
  <2>2. pc' \in {"resolve", "choose"} => objects
    BY <2>1 DEF NoServices, Abandon, Fail
  <2> QED BY <2>1, <2>2, RestLooked, AsksInv DEF Ats
<1>4. CASE Gatt
  <2>0. Asks /\ at' = at
    BY <1>4 DEF Gatt
  <2>1. ASSUME next <= Len(services), Chars(IF objects THEN services[next].chars ELSE {}) PROVE CallInv'
    <3> DEFINE chars == IF objects THEN services[next].chars ELSE {}
    <3>1. pc = "chars" /\ services = table /\ Chars(chars)
      BY <2>1 DEF Chars, DumpChars, UseService, PassService, Placed
    <3>2. chars \in SUBSET UUIDs
      BY <3>1, <2>1, TablesHaveLengths DEF TypeOK
    <3>3. ~lost => chars = table[next].chars
      BY <3>1 DEF Held
    <3> HIDE DEF chars
    <3>4. Caller
      BY <3>1, <3>2 DEF Caller
    <3>5. pc' # "pause"
      BY <3>1 DEF Chars, DumpChars, UseService, PassService, Use, NextService, Abandon, Fail
    <3> QED BY <1>0, <2>0, <3>1, <3>3, <3>4, <3>5, CharsLooked, AsksInv
  <2>2. CASE CharsFail
    <3>1. pc = "chars" /\ pc' # "pause"
      BY <2>2 DEF CharsFail, NextService, Abandon, Fail
    <3> QED BY <1>0, <2>0, <2>2, <3>1, LoopsLooked, AsksInv DEF Caller
  <2>3. ASSUME NEW c \in unread, Read(c) PROVE CallInv'
    <3>1. pc = "read" /\ pc' # "pause"
      BY <2>3 DEF Read
    <3>2. Caller
      BY <2>3 DEF Caller
    <3> QED BY <1>0, <2>0, <2>3, <3>1, <3>2, ReadLooked, AsksInv
  <2>4. CASE Written \/ WriteFails
    <3>1. pc = "write" /\ pc' # "pause"
      BY <2>4 DEF Written, WriteFails, MorePackets
    <3> QED BY <1>0, <2>0, <2>4, <3>1, RestLooked, AsksInv DEF Caller
  <2> QED BY <1>4, <2>1, <2>2, <2>3, <2>4 DEF Gatt
<1>5. CASE Alone
  <2>0. Asks /\ at' = at
    BY <1>5 DEF Alone
  <2>1. CASE SkipService \/ AskChars \/ NoServiceLeft \/ AllRead
    <3>1. pc \in {"choose", "read"} /\ pc' # "pause"
      BY <2>1 DEF SkipService, AskChars, NoServiceLeft, AllRead, NextService, Abandon, Fail
    <3> QED BY <1>0, <2>0, <2>1, <3>1, LoopsLooked, AsksInv DEF Caller
  <2>2. CASE Found \/ NotFound \/ Wake \/ OptionsRefused \/ OptionsAccepted \/ AllSent \/ CloseConn
    <3>1. pc # "services" /\ pc' # "pause"
      BY <2>2 DEF Found, NotFound, Wake, OptionsRefused, OptionsAccepted, AllSent, CloseConn, Abandon, Fail
    <3> QED BY <1>0, <2>0, <2>2, <3>1, RestLooked, AsksInv DEF Caller
  <2> QED BY <1>5, <2>1, <2>2 DEF Alone
<1> QED BY <1>1, <1>2, <1>3, <1>4, <1>5

\* Steps of others, and those of Connect in which it does not return.
LEMMA QuietInv ==
  ASSUME CallInv, UNCHANGED connVars, lost => lost', TypeOK', Held'
  PROVE  CallInv'
<1>1. /\ UNCHANGED <<pc, params, next, using, failed, shown, unread, err, attempt, services>>
      /\ UNCHANGED <<cmd, opts, table>>
  BY DEF connVars, found, params
<1>2. Placed'
  BY <1>1 DEF CallInv, Placed
<1>3. ~lost => LookedUp'
  BY <1>1, LookedKept DEF Aside, CallInv
<1> QED BY <1>2, <1>3 DEF CallInv

\* A step that leaves the command alone keeps the types.
LEMMA QuietTypes ==
  ASSUME TypeOK, UNCHANGED connVars, WatcherInv', at' \in Ats, ups' \in 0 .. MaxUps,
         {link', powered', resolved', objects', lost'} \subseteq BOOLEAN
  PROVE  TypeOK'
<1>1. UNCHANGED <<pc, cmd, opts, table, attempt, services, next, using, unread, sent, opened, closes, err, failed, shown>>
  BY DEF connVars, found, params
<1>2. ConnTypeOK' /\ pc' \in CallerPcs \cup {"panicked"}
  BY <1>1 DEF TypeOK, ConnTypeOK
<1> QED BY <1>2 DEF TypeOK, WatcherInv

\* Each step of Connect keeps the invariant.
LEMMA ConnectCallInv ==
  ASSUME CallInv, WatcherInv', ConnectCall
  PROVE  CallInv'
<1> USE DEF CallInv
<1>0. /\ pc = "connect" /\ ~opened /\ closes = 0 /\ attempt = 0
      /\ UNCHANGED <<link, powered, resolved, objects, ups, lost>>
  BY DEF ConnectCall, Watch, CallFails, ReadPowered, AlreadyConnected, NotConnected, CallAnswered,
     Woken, ConnectFails, Connected, Unwatch, bluezVars, Held, Placed
<1>1. CASE Watch \/ CallFails \/ ReadPowered \/ AlreadyConnected \/ NotConnected \/ CallAnswered \/ Woken
  <2>1. UNCHANGED connVars /\ UNCHANGED <<pc, opened, closes>> /\ at' \in Ats
    BY <1>1 DEF Watch, CallFails, ReadPowered, AlreadyConnected, NotConnected, CallAnswered, Woken, At, Ats, connVars
  <2>2. TypeOK'
    BY <1>0, <2>1, QuietTypes DEF TypeOK
  <2>3. Held'
    BY <1>0, <2>1 DEF Held
  <2> QED BY <1>0, <2>1, <2>2, <2>3, QuietInv
<1>2. CASE Unwatch
  <2>1. /\ UNCHANGED <<params, found, closes>> /\ at' = "poll"
        /\ UNCHANGED <<cmd, opts, table, attempt, services, next, using, unread, sent, failed, shown>>
        /\ \/ pc' = "done" /\ err' = TRUE /\ opened' = opened
           \/ pc' = "pause" /\ opened' = TRUE /\ err' = err
    BY <1>2 DEF ConnectFails, Connected, Fail, Unwatch, At, params, found
  <2>2. ConnTypeOK' /\ pc' \in CallerPcs
    BY <2>1 DEF TypeOK, ConnTypeOK, CallerPcs
  <2>3. TypeOK'
    BY <1>0, <2>1, <2>2 DEF TypeOK, WatcherInv, Ats
  <2>4. Placed'
    BY <1>0, <2>1, ConnAssumption DEF Placed
  <2>5. Held'
    BY <1>0, <2>1 DEF Held
  <2>6. ~lost => LookedUp'
    BY <1>0, <2>1, LookedKept DEF Aside
  <2> QED BY <1>0, <2>3, <2>4, <2>5, <2>6
<1> QED BY <1>1, <1>2 DEF ConnectCall

\* Each step of the watcher keeps it.
LEMMA WatcherCallInv ==
  ASSUME CallInv, WatcherInv', Watcher
  PROVE  CallInv'
<1> USE DEF CallInv
<1>0. UNCHANGED <<link, powered, resolved, objects, ups, lost, at>>
  BY DEF Watcher, CloseChan, Receive, bluezVars
<1>1. CASE UNCHANGED connVars
  <2>1. TypeOK'
    BY <1>0, <1>1, QuietTypes DEF TypeOK
  <2>2. Held'
    BY <1>0, <1>1 DEF Held, connVars
  <2> QED BY <1>0, <1>1, <2>1, <2>2, QuietInv
<1>2. CASE ~(UNCHANGED connVars)
  <2>1. Goto("panicked") /\ pc # "done"
    BY <1>2 DEF Watcher, CloseChan, Receive, Running
  <2>2. /\ pc' = "panicked"
        /\ UNCHANGED <<params, cmd, opts, table, attempt, services, next, using, unread, sent, failed, shown, opened, closes, err>>
    BY <2>1 DEF Goto, params, found
  <2>3. TypeOK'
    BY <1>0, <2>2 DEF TypeOK, ConnTypeOK, WatcherInv
  <2>4. Placed' /\ Held'
    BY <1>0, <2>2 DEF Placed, Held, CallerPcs
  <2>5. ~lost => LookedUp'
    BY <2>1, <2>2, LookedKept DEF Aside
  <2> QED BY <1>0, <2>3, <2>4, <2>5
<1> QED BY <1>1, <1>2

\* While the command holds the link, losing it is what lost says.
LEMMA BlueZCallInv ==
  ASSUME CallInv, WatcherInv', BlueZ
  PROVE  CallInv'
<1> USE DEF CallInv
<1>0. UNCHANGED connVars /\ UNCHANGED <<pc, opened, closes, at>>
  BY DEF BlueZ, LinkUp, LinkDown, PowerOff, Drop, Resolve, connVars
<1>1. lost => lost'
  BY Zenon DEF BlueZ, LinkUp, LinkDown, PowerOff, Drop, Resolve
<1>2. TypeOK'
  <2>1. ups' \in 0 .. MaxUps
    <3>1. ups \in 0 .. MaxUps /\ MaxUps \in Nat
      BY ConnLinuxAssumption DEF TypeOK
    <3>2. UNCHANGED ups \/ (ups < MaxUps /\ ups' = ups + 1)
      BY DEF BlueZ, LinkUp, LinkDown, PowerOff, Drop, Resolve
    <3> QED BY <3>1, <3>2
  <2>2. {link', powered', resolved', objects', lost'} \subseteq BOOLEAN
    <3>1. CASE LinkUp
      BY <3>1 DEF LinkUp, TypeOK
    <3>2. CASE LinkDown \/ PowerOff
      BY <3>2 DEF LinkDown, PowerOff, Drop, TypeOK, ConnTypeOK
    <3>3. CASE Resolve
      BY <3>3 DEF Resolve, TypeOK
    <3> QED BY <3>1, <3>2, <3>3 DEF BlueZ
  <2>3. at' \in Ats
    BY <1>0 DEF TypeOK
  <2> QED BY <1>0, <2>1, <2>2, <2>3, QuietTypes
<1>3. Held'
  <2>1. CASE LinkUp
    BY <1>0, <2>1 DEF LinkUp, Held
  <2>2. CASE Drop
    <3>1. resolved' = FALSE /\ lost' = (lost \/ (link /\ opened /\ closes = 0))
      BY <2>2 DEF Drop
    <3>2. ~lost' => pc \notin {"services", "resolve", "choose", "chars", "read"} \/ ~link
      BY <3>1 DEF Held, CallerPcs
    <3> QED BY <1>0, <3>1, <3>2 DEF Held
  <2>3. CASE Resolve
    <3>1. /\ link' = link /\ lost' = lost /\ link /\ objects' \in {objects, TRUE}
      BY <2>3 DEF Resolve
    <3>2. objects => objects'
      BY <3>1, Zenon
    <3>3. lost' <=> lost
      BY <3>1, Zenon
    <3>4. link'
      BY <3>1, Zenon
    <3> QED BY <1>0, <3>2, <3>3, <3>4, Zenon DEF Held
  <2> QED BY <2>1, <2>2, <2>3 DEF BlueZ, LinkDown, PowerOff
<1> QED BY <1>0, <1>1, <1>2, <1>3, QuietInv

\* Where the command is, what it knows of BlueZ, and what resolve and Dump have done.
THEOREM CallInvHolds == Spec => []CallInv
<1>1. CallInv /\ WatcherInv' /\ [Next]_vars => CallInv'
  <2> SUFFICES ASSUME CallInv, WatcherInv', [Next]_vars PROVE CallInv'
    OBVIOUS
  <2>1. CASE UNCHANGED vars
    <3>1. UNCHANGED connVars /\ UNCHANGED <<pc, opened, closes, link, powered, resolved, objects, ups, lost, at>>
      BY <2>1 DEF vars, bluezVars, connVars
    <3>2. TypeOK'
      BY <3>1, QuietTypes DEF CallInv, TypeOK
    <3>3. Held'
      BY <3>1 DEF CallInv, Held
    <3> QED BY <3>1, <3>2, <3>3, QuietInv
  <2> QED BY <2>1, ConnectCallInv, CallsInv, WatcherCallInv, BlueZCallInv DEF Next, Main
<1> QED BY CallInit, WatcherInvHolds, <1>1, PTL DEF Spec

\* The states of the command, of BlueZ and of the watcher keep their types.
THEOREM TypeHolds == Spec => []TypeOK
<1>1. CallInv => TypeOK
  BY DEF CallInv
<1> QED BY CallInvHolds, <1>1, PTL

\* Once every service is looked at, the dump is complete.
LEMMA DumpShowsAll ==
  ASSUME TypeOK, ShownAre(1 .. Len(table))
  PROVE  shown = UNION {{i} \X table[i].chars : i \in (1 .. Len(table)) \ failed}
<1>1. shown \subseteq (1 .. Len(table)) \X UUIDs /\ \A i \in 1 .. Len(table) : table[i].chars \subseteq UUIDs
  BY TablesHaveLengths DEF TypeOK, ConnTypeOK
<1>2. \A i \in 1 .. Len(table), c \in UUIDs : <<i, c>> \in shown <=> i \notin failed /\ c \in table[i].chars
  BY DEF ShownAre
<1>3. ASSUME NEW x \in shown PROVE x \in UNION {{i} \X table[i].chars : i \in (1 .. Len(table)) \ failed}
  <2>1. PICK i \in 1 .. Len(table), c \in UUIDs : x = <<i, c>>
    BY <1>1
  <2> QED BY <1>2, <2>1
<1>4. ASSUME NEW i \in (1 .. Len(table)) \ failed, NEW x \in {i} \X table[i].chars PROVE x \in shown
  <2>1. PICK c \in table[i].chars : x = <<i, c>>
    OBVIOUS
  <2> QED BY <1>1, <1>2, <2>1
<1> QED BY <1>3, <1>4

\* ble.go:345-478, gattc_linux.go: while the link holds, resolve uses the first service
\* that serves or the one asked for, and Dump shows everything; for every table of
\* services, however long BlueZ takes to resolve them.
THEOREM OnlyLostIsMissedHolds == Spec => []OnlyLostIsMissed
<1>1. CallInv => OnlyLostIsMissed
  BY DumpShowsAll DEF CallInv, LookedUp, OnlyLostIsMissed, DumpIsComplete
<1> QED BY CallInvHolds, <1>1, PTL
=============================================================================
