-------------------------- MODULE ConnDarwinProofs --------------------------
(* Theorems about ConnDarwin, for every value of the constants. *)
EXTENDS ConnDarwin, TLAPS

----------------------------------------------------------------------------
(* Why AnswersMeetCalls and NoLinkLeft hold *)

\* Where the command is in its loops, and how long it has tried.
Placed ==
    /\ pc \in {"find", "connect"} => attempt = 0
    /\ pc = "pause" => attempt < MaxAttempts
    /\ pc \in {"resolve", "choose", "chars", "read"} => services = table
    /\ pc \in {"chars", "read"} => next <= Len(table)
    /\ pc = "read" => cmd = "dump"

\* There is a link, or an attempt to make one, only from AskConnect until the
\* command gives it up; and only Connect waits for it.
Linking ==
    /\ pc \in {"find", "connect"} => dev = "none" /\ awaits \in {NoCall, ConnectEvent}
    /\ pc = "find" => awaits = NoCall
    /\ pc \in {"find", "connect"} /\ awaits = NoCall => cb = "disconnected"
    /\ pc # "connect" => awaits.kind # "connect"
    /\ connectMap => awaits = ConnectEvent
    /\ delegate.kind = "connect" => delegate = awaits
    /\ dev = "empty" => cb = "disconnected"
    /\ NoLinkLeft

OnlyConnects == \A i \in 1 .. Len(queue) : queue[i].kind = "connect"

Sending == delegate.kind \notin {"none", "connect"}

\* Until a call times out there is one answer under way, at most, on its way from
\* CoreBluetooth through the queue and a delegate to the call that waits for it.
OneAnswer ==
    /\ \A i \in 1 .. Len(asked) : asked[i] = awaits
    /\ \A i \in 1 .. Len(queue) : queue[i] = awaits \/ queue[i].kind = "connect"
    /\ \A i, j \in 1 .. Len(queue) : queue[i].kind # "connect" /\ queue[j].kind # "connect" => i = j
    /\ Len(asked) <= 1
    /\ Sending => Sends(delegate, awaits)
    /\ Sending \/ asked # <<>> => OnlyConnects
    /\ ~(Sending /\ asked # <<>>)

Asked ==
    \A i \in 1 .. Len(asked) :
        asked[i].kind # "connect" /\ (asked[i].kind = "chars" => asked[i].of[1] \in 1 .. Len(table))

LinkInv == TypeOK /\ Placed /\ Linking /\ Asked /\ (~late => OneAnswer)

----------------------------------------------------------------------------
(* Why LateIsReported holds *)

CharsOf(n) == [kind |-> "chars", of |-> <<n>>]

Pending(call) ==
    \/ delegate = call
    \/ \E i \in 1 .. Len(queue) : queue[i] = call
    \/ \E i \in 1 .. Len(asked) : asked[i] = call

\* While there is a link, the answer to a discovery of characteristics is under
\* way until the call has returned.
Pended ==
    /\ cb = "connecting" => pc = "connect" /\ delegate = NoCall /\ queue = <<>> /\ asked = <<>>
    /\ pc \in {"find", "connect"} /\ awaits = NoCall => delegate = NoCall /\ queue = <<>> /\ asked = <<>>
    /\ awaits.kind = "chars" => pc = "chars" /\ awaits = CharsOf(next)
    /\ cmd = "send" /\ pc \notin {"write", "close", "done"} => sent = 0
    /\ ~late /\ cb = "connected" /\ awaits.kind = "chars" => Pending(awaits)

\* The answer to a write comes after one to a discovery, which nothing takes any more.
WritesWait ==
    /\ delegate.kind \in {"none", "chars"}
    /\ \A i \in 1 .. Len(queue) :
           \/ queue[i].kind \in {"connect", "chars"}
           \/ queue[i].kind = "write" /\ pc = "write"
              /\ (delegate.kind = "chars" \/ \E j \in 1 .. i - 1 : queue[j].kind = "chars")
    /\ \A i \in 1 .. Len(asked) :
           \/ asked[i].kind = "chars"
           \/ asked[i].kind = "write" /\ pc = "write"
              /\ \/ delegate.kind = "chars"
                 \/ \E j \in 1 .. Len(queue) : queue[j].kind = "chars"
                 \/ \E j \in 1 .. i - 1 : asked[j].kind = "chars"

\* After a timeout there is one answer more under way than there are calls.
OneTooMany ==
    cb = "connected" =>
        /\ \E n \in 1 .. Len(table) : Pending(CharsOf(n)) /\ (pc # "write" => n < next)
        /\ awaits.kind = "chars" => Pending(awaits)

LeftOver ==
    late /\ response /\ cmd = "send" /\ ~err =>
        pc \in {"choose", "chars", "write"} /\ sent = 0 /\ WritesWait /\ OneTooMany

LateInv == LinkInv /\ Pended /\ LeftOver

----------------------------------------------------------------------------

\* What Append returns, element by element.
LEMMA AppendFacts ==
  ASSUME NEW S, NEW s \in Seq(S), NEW e \in S
  PROVE  /\ Append(s, e) \in Seq(S)
         /\ Len(Append(s, e)) = Len(s) + 1 /\ Len(s) \in Nat
         /\ \A i \in 1 .. Len(s) : Append(s, e)[i] = s[i]
         /\ Append(s, e)[Len(s) + 1] = e
OBVIOUS

\* What Head and Tail return, element by element.
LEMMA TailFacts ==
  ASSUME NEW S, NEW s \in Seq(S), s # <<>>
  PROVE  /\ Tail(s) \in Seq(S) /\ Head(s) \in S /\ Head(s) = s[1]
         /\ Len(Tail(s)) = Len(s) - 1 /\ Len(s) \in Nat \ {0}
         /\ \A i \in 1 .. Len(s) - 1 : Tail(s)[i] = s[i + 1]
OBVIOUS

\* The kinds of the calls of the library, none of which is NoCall.
LEMMA KindsOfCalls ==
  /\ \A c \in Calls : c.kind \in {"connect", "services", "chars", "read", "write"}
  /\ NoCall.kind = "none" /\ NoCall \notin Calls
  /\ ConnectEvent \in Calls /\ ConnectEvent.kind = "connect"
  /\ \A c \in Calls : c.kind = "connect" => c = ConnectEvent
<1>1. \A c \in Calls : c.kind \in {"connect", "services", "chars", "read", "write"}
  BY DEF Calls
<1>2. NoCall.kind = "none" /\ ConnectEvent.kind = "connect"
  BY DEF NoCall, ConnectEvent
<1>3. ConnectEvent \in Calls
  BY DEF ConnectEvent, Calls
<1>4. \A c \in Calls : c.kind = "connect" => c = ConnectEvent
  BY DEF ConnectEvent, Calls
<1> QED BY <1>1, <1>2, <1>3, <1>4

----------------------------------------------------------------------------
(* The steps of Conn but for Connect's *)

Caller ==
    \/ Found \/ NotFound \/ Wake \/ ServicesFail \/ NoServices \/ Services
    \/ OptionsRefused \/ OptionsAccepted \/ SkipService \/ AskChars \/ NoServiceLeft \/ CharsFail
    \/ \E chars \in SUBSET UUIDs : Chars(chars)
    \/ \E c \in unread : Read(c)
    \/ AllRead \/ Written \/ WriteFails \/ AllSent \/ CloseConn

\* What they leave, and where they lead.
CallerFrame ==
    /\ UNCHANGED params
    /\ closes' \in {closes, closes + 1} /\ err' \in {err, TRUE} /\ opened' = opened
    /\ pc \notin {"connect", "done", "panicked"} /\ pc' \in CallerPcs
    /\ pc' # "find" /\ (pc' = "connect" => pc = "find")
    /\ pc' = "done" => pc = "find" \/ closes' = closes + 1

\* Where each step of the command leads, and what it leaves.
LEMMA CallerLeads ==
  ASSUME Caller
  PROVE  CallerFrame
<1> USE DEF Fail, Abandon, found, params, CallerPcs, CallerFrame
<1>1. CASE Found \/ NotFound \/ Wake \/ ServicesFail \/ NoServices \/ Services
  BY <1>1 DEF Found, NotFound, Wake, ServicesFail, NoServices, Services
<1>2. CASE OptionsRefused \/ OptionsAccepted \/ SkipService \/ AskChars \/ NoServiceLeft \/ CharsFail
  BY <1>2 DEF OptionsRefused, OptionsAccepted, SkipService, AskChars, NoServiceLeft, CharsFail, NextService
<1>3. ASSUME NEW chars, Chars(chars) PROVE CallerFrame
  BY <1>3 DEF Chars, DumpChars, UseService, PassService, Use, NextService
<1>4. CASE (\E c \in unread : Read(c)) \/ AllRead \/ Written \/ WriteFails \/ AllSent \/ CloseConn
  BY <1>4 DEF Read, AllRead, NextService, Written, WriteFails, AllSent, CloseConn, MorePackets
<1> QED BY <1>1, <1>2, <1>3, <1>4 DEF Caller

\* A table has a service at least, and the loops a place in it.
LEMMA TablesHaveLengths ==
  ASSUME ConnTypeOK
  PROVE  /\ Len(table) \in Nat \ {0} /\ next \in Nat /\ next >= 1 /\ next <= Len(table) + 1
         /\ \A i \in 1 .. Len(table) : table[i].chars \subseteq UUIDs
<1>1. table \in Tables /\ table \in Seq(Service) \ {<<>>}
  BY ConnAssumption DEF ConnTypeOK
<1>2. Len(table) \in Nat \ {0}
  BY <1>1
<1>3. \A i \in 1 .. Len(table) : table[i] \in Service
  BY <1>1
<1> QED BY <1>1, <1>2, <1>3 DEF ConnTypeOK, Service

\* A step of the command keeps the types of what Conn keeps.
LEMMA CallerTypes ==
  ASSUME ConnTypeOK, Placed, Caller
  PROVE  ConnTypeOK'
<1> USE ConnAssumption DEF ConnTypeOK
<1>0. /\ Len(table) \in Nat \ {0} /\ next \in Nat /\ next >= 1 /\ next <= Len(table) + 1
      /\ \A i \in 1 .. Len(table) : table[i].chars \subseteq UUIDs
  BY TablesHaveLengths
<1>1. closes' \in Nat /\ err' \in BOOLEAN /\ opened' \in BOOLEAN
  <2>1. closes \in Nat /\ closes + 1 \in Nat /\ err \in BOOLEAN /\ opened \in BOOLEAN
    OBVIOUS
  <2> QED BY ONLY <2>1, CallerLeads, Caller, Zenon DEF CallerFrame
<1> DEFINE Rest == /\ cmd \in Commands /\ opts \in Options /\ table \in Tables
                   /\ attempt \in 0 .. MaxAttempts
                   /\ services \in {<<>>, table}
                   /\ next \in 1 .. Len(table) + 1
                   /\ using \in [service : 0 .. Len(table), write : UUIDs \cup {None}, notify : UUIDs \cup {None}]
                   /\ unread \subseteq UUIDs
                   /\ sent \in 0 .. MaxPackets
                   /\ failed \subseteq 1 .. Len(table)
                   /\ shown \subseteq (1 .. Len(table)) \X UUIDs
<1>2. SUFFICES Rest'
  BY <1>1
<1>3. CASE Found \/ NotFound \/ ServicesFail \/ NoServices
  BY <1>3 DEF Found, NotFound, ServicesFail, NoServices, params, found
<1>4. CASE Services
  BY <1>4 DEF Services, params
<1>5. CASE Wake
  <2>1. attempt' \in 0 .. MaxAttempts
    BY <1>5 DEF Wake, Placed
  <2> QED BY <1>5, <2>1 DEF Wake, params
<1>6. CASE OptionsRefused \/ OptionsAccepted \/ AskChars \/ NoServiceLeft
  BY <1>6 DEF OptionsRefused, OptionsAccepted, AskChars, NoServiceLeft, params, found
<1>7. CASE SkipService
  <2>1. next' \in 1 .. Len(table) + 1
    BY <1>0, <1>7 DEF SkipService, NextService, Placed
  <2> QED BY <1>7, <2>1 DEF SkipService, NextService, params
<1>8. CASE CharsFail
  <2>1. next \in 1 .. Len(table) /\ next + 1 \in 1 .. Len(table) + 1
    BY <1>0, <1>8 DEF CharsFail, Placed
  <2>2. failed' \subseteq 1 .. Len(table) /\ next' \in 1 .. Len(table) + 1
    BY <1>8, <2>1 DEF CharsFail, NextService
  <2> QED BY <1>8, <2>2 DEF CharsFail, NextService, params
<1>9. ASSUME NEW chars \in SUBSET UUIDs, Chars(chars) PROVE Rest'
  <2>1. pc = "chars" /\ next \in 1 .. Len(table) /\ next + 1 \in 1 .. Len(table) + 1
    BY <1>0, <1>9 DEF Chars, DumpChars, UseService, PassService, Placed
  <2>2. CASE DumpChars(chars)
    BY <2>2 DEF DumpChars, params
  <2>3. CASE UseService(chars)
    <3>1. using' = [service |-> next, write |-> WriteChar, notify |-> IF NotifyChar \in chars THEN NotifyChar ELSE None]
      BY <2>3 DEF UseService, Use
    <3>2. WriteChar \in UUIDs
      BY <2>3 DEF UseService
    <3>3. using' \in [service : 0 .. Len(table), write : UUIDs \cup {None}, notify : UUIDs \cup {None}]
      BY <1>0, <2>1, <3>1, <3>2
    <3> QED BY <2>3, <3>3 DEF UseService, Use, params
  <2>4. CASE PassService(chars)
    BY <2>1, <2>4 DEF PassService, NextService, params
  <2> QED BY <1>9, <2>2, <2>3, <2>4 DEF Chars
<1>10. ASSUME NEW c \in unread, Read(c) PROVE Rest'
  <2>1. next \in 1 .. Len(table) /\ c \in UUIDs
    BY <1>0, <1>10 DEF Read, Placed
  <2> QED BY <1>10, <2>1 DEF Read, params
<1>11. CASE AllRead
  <2>1. next' \in 1 .. Len(table) + 1
    BY <1>0, <1>11 DEF AllRead, NextService, Placed
  <2> QED BY <1>11, <2>1 DEF AllRead, NextService, params
<1>12. CASE Written
  BY <1>12 DEF Written, MorePackets, params
<1>13. CASE WriteFails \/ AllSent \/ CloseConn
  BY <1>13 DEF WriteFails, AllSent, CloseConn, MorePackets, params, found
<1> QED BY <1>3, <1>4, <1>5, <1>6, <1>7, <1>8, <1>9, <1>10, <1>11, <1>12, <1>13 DEF Caller

\* Every step of the command keeps its place in the loops.
LEMMA CallerPlaced ==
  ASSUME ConnTypeOK, Placed, Caller
  PROVE  Placed'
<1> USE ConnAssumption DEF ConnTypeOK, Placed, Fail, Abandon, params, found
<1>1. CASE Found \/ NotFound \/ Wake \/ ServicesFail \/ NoServices \/ Services
  BY <1>1 DEF Found, NotFound, Wake, ServicesFail, NoServices, Services
<1>2. CASE OptionsRefused \/ OptionsAccepted \/ SkipService \/ AskChars \/ NoServiceLeft \/ CharsFail
  BY <1>2 DEF OptionsRefused, OptionsAccepted, SkipService, AskChars, NoServiceLeft, CharsFail, NextService
<1>3. ASSUME NEW chars, Chars(chars) PROVE Placed'
  BY <1>3 DEF Chars, DumpChars, UseService, PassService, Use, NextService
<1>4. CASE (\E c \in unread : Read(c)) \/ AllRead \/ Written \/ WriteFails \/ AllSent \/ CloseConn
  BY <1>4 DEF Read, AllRead, NextService, Written, WriteFails, AllSent, CloseConn, MorePackets
<1> QED BY <1>1, <1>2, <1>3, <1>4 DEF Caller

----------------------------------------------------------------------------
(* The invariant, at first and over the steps of the command *)

\* A command that has not begun satisfies the invariant.
LEMMA InitInv == Init => LinkInv
<1> SUFFICES ASSUME Init PROVE LinkInv
  OBVIOUS
<1> USE ConnAssumption DEF Init, ConnInit
<1>1. ConnTypeOK
  <2>1. table \in Seq(Service) /\ Len(table) \in Nat \ {0}
    OBVIOUS
  <2>2. using \in [service : 0 .. Len(table), write : UUIDs \cup {None}, notify : UUIDs \cup {None}]
    BY <2>1 DEF Unresolved
  <2>3. next \in 1 .. Len(table) + 1 /\ sent \in 0 .. MaxPackets /\ attempt \in 0 .. MaxAttempts
    BY <2>1
  <2> QED BY <2>2, <2>3 DEF ConnTypeOK
<1>2. asked \in Seq(Calls) /\ queue \in Seq(Calls) /\ asked = <<>> /\ queue = <<>> /\ Len(asked) = 0 /\ Len(queue) = 0
  OBVIOUS
<1>3. TypeOK
  BY <1>1, <1>2 DEF TypeOK, CallerPcs
<1>4. Placed /\ Linking
  BY KindsOfCalls DEF Placed, Linking, NoLinkLeft
<1>5. Asked /\ OneAnswer
  BY <1>2, KindsOfCalls DEF Asked, OneAnswer, Sending, OnlyConnects
<1> QED BY <1>3, <1>4, <1>5 DEF LinkInv

\* What a step of the command does to the library when it only disconnects, if
\* it does, and is done with the call it waits in, if it waits.
Leaves ==
    /\ Caller /\ Disconnects
    /\ awaits' \in {awaits, NoCall} /\ delegate' \in {delegate, NoCall}
    /\ UNCHANGED <<asked, queue, listed, known, refused, connectMap, timedOut, dev, response>>

\* A step that ends a call and makes none leaves the link as it may be.
LEMMA LeavesLinking ==
  ASSUME LinkInv, Leaves
  PROVE  Linking'
<1> USE DEF LinkInv, Linking, Leaves
<1>1. CallerFrame
  BY CallerLeads
<1>2. awaits.kind # "connect" /\ ~connectMap /\ delegate.kind # "connect"
  BY <1>1, KindsOfCalls DEF CallerFrame, TypeOK
<1>3. awaits'.kind # "connect" /\ delegate'.kind # "connect" /\ ~connectMap'
  BY <1>2, KindsOfCalls
<1>4. cb = "disconnected" => cb' = "disconnected"
  BY DEF Disconnects, Cancel
<1>5. pc = "find" => awaits' = NoCall /\ cb' = "disconnected" /\ dev' = "none"
  BY <1>4
<1>6. NoLinkLeft'
  <2>1. CASE pc = "find"
    BY <1>5, <2>1 DEF NoLinkLeft
  <2>2. CASE pc' = "done" /\ pc # "find"
    <3>1. closes \in Nat /\ closes' # closes
      BY <1>1, <2>2 DEF CallerFrame, TypeOK, ConnTypeOK
    <3> QED BY <3>1 DEF Disconnects, Cancel, NoLinkLeft, TypeOK
  <2> QED BY <2>1, <2>2 DEF NoLinkLeft
<1> QED BY <1>1, <1>3, <1>4, <1>5, <1>6 DEF CallerFrame

\* Such a step keeps types, place and requests.
LEMMA LeavesTypes ==
  ASSUME LinkInv, Leaves, late' \in BOOLEAN
  PROVE  TypeOK' /\ Placed' /\ Asked'
<1> USE DEF LinkInv
<1>1. CallerFrame /\ ConnTypeOK' /\ Placed'
  BY CallerLeads, CallerTypes, CallerPlaced DEF Leaves, TypeOK
<1>2. cb' \in {"disconnected", "connecting", "connected", "disconnecting"}
  BY DEF Leaves, Disconnects, Cancel, TypeOK
<1>3. table' = table
  BY <1>1 DEF CallerFrame, params
<1>4. Asked'
  BY <1>3 DEF Asked, Leaves
<1>5. pc' \in CallerPcs
  BY <1>1 DEF CallerFrame
<1> QED BY <1>1, <1>2, <1>3, <1>4, <1>5 DEF Leaves, TypeOK

\* The steps in which the command calls nothing keep the invariant.
LEMMA AloneInv ==
  ASSUME LinkInv, Alone
  PROVE  LinkInv'
<1>1. Leaves
  BY DEF Alone, Leaves, Caller
<1>2. UNCHANGED <<asked, queue, delegate, awaits, late>>
  BY DEF Alone
<1>3. late' \in BOOLEAN
  BY <1>2 DEF LinkInv, TypeOK
<1>4. OneAnswer => OneAnswer'
  BY <1>2 DEF OneAnswer, OnlyConnects, Sending
<1> QED BY <1>1, <1>2, <1>3, <1>4, LeavesLinking, LeavesTypes DEF LinkInv

\* A call that returns takes the one answer with it.
LEMMA ReceivedInv ==
  ASSUME LinkInv, Caller, NEW kind \in {"services", "chars", "read", "write"}, Received(kind)
  PROVE  LinkInv'
<1>1. Leaves
  BY DEF Received, Leaves
<1>2. late' = late /\ asked' = asked /\ queue' = queue /\ awaits' = NoCall /\ delegate' = NoCall
  BY DEF Received
<1>3. late' \in BOOLEAN
  BY <1>2 DEF LinkInv, TypeOK
<1>4. ASSUME OneAnswer PROVE OneAnswer'
  <2>1. Sending
    BY DEF Received, Sending
  <2>2. OnlyConnects /\ asked = <<>>
    BY <1>4, <2>1 DEF OneAnswer
  <2>3. Len(asked) = 0 /\ ~Sending'
    BY <1>2, <2>2, KindsOfCalls DEF Sending
  <2>4. OnlyConnects'
    BY <1>2, <2>2 DEF OnlyConnects
  <2> QED BY <1>2, <2>2, <2>3, <2>4 DEF OneAnswer, OnlyConnects
<1> QED BY <1>1, <1>2, <1>3, <1>4, LeavesLinking, LeavesTypes DEF LinkInv

\* A call that returns is a step of the command.
LEMMA ReturnsCall ==
  ASSUME LinkInv, ServicesReturn \/ CharsReturn \/ ReadReturns \/ WriteReturns
  PROVE  Caller
<1>1. CASE CharsReturn
  <2>1. (IF next \in known THEN services[next].chars ELSE {}) \in SUBSET UUIDs
    <3>1. pc = "chars"
      BY <1>1 DEF CharsReturn, Chars, DumpChars, UseService, PassService
    <3>2. services = table /\ next \in 1 .. Len(table)
      BY <3>1, TablesHaveLengths DEF LinkInv, Placed, TypeOK
    <3> QED BY <3>2, TablesHaveLengths DEF LinkInv, TypeOK
  <2> QED BY <1>1, <2>1 DEF CharsReturn, Caller
<1>2. CASE ReadReturns
  BY <1>2 DEF ReadReturns, Caller, Read
<1> QED BY <1>1, <1>2 DEF ServicesReturn, WriteReturns, Caller

\* A call that returns with its answer takes the only answer under way.
LEMMA ReturnsInv ==
  ASSUME LinkInv, ServicesReturn \/ CharsReturn \/ ReadReturns \/ WriteReturns
  PROVE  LinkInv'
BY ReturnsCall, ReceivedInv DEF ServicesReturn, CharsReturn, ReadReturns, WriteReturns

\* A call that times out is marked late, after which one answer is not promised.
LEMMA TimesOutInv ==
  ASSUME LinkInv, TimesOut
  PROVE  LinkInv'
<1>1. Caller
  BY DEF TimesOut, Caller, Read
<1>2. Leaves /\ late'
  BY <1>1 DEF TimesOut, Leaves
<1>3. late' \in BOOLEAN
  BY DEF TimesOut
<1> QED BY <1>2, <1>3, LeavesLinking, LeavesTypes DEF LinkInv

\* A write without response goes on at once, and nothing answers it.
LEMMA WriteCommandInv ==
  ASSUME LinkInv, WriteCommand
  PROVE  LinkInv'
<1>1. Leaves
  BY DEF WriteCommand, Leaves, Caller, Written, WriteFails, Disconnects, darwinVars, cbVars, found
<1>2. UNCHANGED <<asked, queue, delegate, awaits, late>>
  BY DEF WriteCommand, darwinVars, cbVars
<1>3. late' \in BOOLEAN
  BY <1>2 DEF LinkInv, TypeOK
<1>4. OneAnswer => OneAnswer'
  BY <1>2 DEF OneAnswer, OnlyConnects, Sending
<1> QED BY <1>1, <1>2, <1>3, <1>4, LeavesLinking, LeavesTypes DEF LinkInv

\* What Conn keeps, its place in the loops included, when nothing of it but the
\* program counter and the error changes.
LEMMA ConnKept ==
  ASSUME ConnTypeOK, Placed, Asked, UNCHANGED <<params, found, closes>>,
         err' = err \/ err' = TRUE, opened' = opened \/ opened' = TRUE,
         pc' \in {pc, "done", "panicked"} \/ (pc = "connect" /\ pc' = "pause")
  PROVE  ConnTypeOK' /\ Placed' /\ (asked' = asked => Asked')
<1> USE ConnAssumption DEF ConnTypeOK, params, found
<1>1. ConnTypeOK'
  OBVIOUS
<1>2. Placed'
  BY DEF Placed
<1> QED BY <1>1, <1>2 DEF Asked

\* A request is asked when nothing is under way.
LEMMA AskInv ==
  ASSUME LinkInv, AskGatt
  PROVE  LinkInv'
<1> USE DEF LinkInv
<1>1. PICK call \in Calls : Ask(call) /\ call.kind # "connect" /\ (call.kind = "chars" => call.of[1] \in 1 .. Len(table))
                            /\ pc \notin {"find", "connect"}
  <2>1. Len(table) \in Nat \ {0} /\ next \in Nat /\ next >= 1 /\ services \in {<<>>, table} /\ sent \in Nat
    BY TablesHaveLengths, ConnAssumption DEF TypeOK, ConnTypeOK
  <2>2. CASE pc = "services" /\ dev = "real" /\ Ask([kind |-> "services", of |-> <<>>])
    BY <2>2 DEF Calls
  <2>3. CASE pc = "chars" /\ Ask([kind |-> "chars", of |-> <<next>>])
    <3>1. <<next>> \in Seq(Nat) /\ <<next>>[1] \in 1 .. Len(table)
      BY <2>1, <2>3 DEF Placed
    <3> QED BY <2>3, <3>1 DEF Calls
  <2>4. CASE pc = "read" /\ \E c \in unread : Ask([kind |-> "read", of |-> <<next, c>>])
    <3>1. PICK c \in unread : Ask([kind |-> "read", of |-> <<next, c>>])
      BY <2>4
    <3>2. <<next, c>> \in Nat \X UUIDs
      BY <2>1 DEF TypeOK, ConnTypeOK
    <3> QED BY <2>4, <3>1, <3>2 DEF Calls
  <2>5. CASE MorePackets /\ response /\ Ask([kind |-> "write", of |-> <<sent>>])
    <3>1. <<sent>> \in Seq(Nat)
      BY <2>1
    <3> QED BY <2>5, <3>1 DEF Calls, MorePackets
  <2> QED BY <2>2, <2>3, <2>4, <2>5 DEF AskGatt
<1>2. /\ awaits = NoCall /\ awaits' = call
      /\ asked' = (IF cb = "connected" THEN Append(asked, call) ELSE asked)
      /\ UNCHANGED <<connVars, cb, queue, listed, known, refused, delegate, connectMap, timedOut, dev, late, response>>
  BY <1>1 DEF Ask
<1>3. UNCHANGED <<pc, params, found, closes, err, opened>>
  BY <1>2 DEF connVars
<1>4. ConnTypeOK' /\ Placed'
  BY <1>3, ConnKept DEF TypeOK
<1>5. asked \in Seq(Calls) /\ asked' \in Seq(Calls)
  BY <1>2, AppendFacts DEF TypeOK
<1>6. TypeOK'
  BY <1>1, <1>2, <1>3, <1>4, <1>5 DEF TypeOK, params
<1>7. ~connectMap /\ delegate.kind # "connect"
  BY <1>2, KindsOfCalls DEF Linking
<1>8. Linking'
  BY <1>1, <1>2, <1>3, <1>7 DEF Linking, NoLinkLeft
<1>9. Asked'
  BY <1>1, <1>2, <1>3, <1>5, AppendFacts DEF Asked, params
<1>10. ASSUME OneAnswer PROVE OneAnswer'
  <2>1. Len(asked) \in Nat /\ Len(queue) \in Nat /\ \A i \in 1 .. Len(asked) : asked[i] \in Calls
    BY <1>5 DEF TypeOK
  <2>2. asked = <<>> /\ Len(asked) = 0
    BY <1>2, <1>5, <1>10, <2>1, KindsOfCalls DEF OneAnswer
  <2>3. \A i \in 1 .. Len(queue) : queue[i] \in Calls
    BY DEF TypeOK
  <2>4. OnlyConnects
    BY <1>2, <1>10, <2>3, KindsOfCalls DEF OneAnswer, OnlyConnects
  <2>5. ~Sending
    BY <1>2, <1>10, KindsOfCalls DEF OneAnswer, Sending, Sends, TypeOK
  <2>6. Len(asked') <= 1 /\ \A i \in 1 .. Len(asked') : asked'[i] = call
    BY <1>2, <1>5, <2>2, AppendFacts
  <2> QED BY <1>2, <2>4, <2>5, <2>6 DEF OneAnswer, OnlyConnects, Sending
<1> QED BY <1>2, <1>4, <1>6, <1>8, <1>9, <1>10

\* Connect: nothing is under way but itself.
LEMMA ConnectInv ==
  ASSUME LinkInv, NoPeripheral \/ AskConnect \/ ConnectTimesOut \/ ConnectReturns \/ UseNil
  PROVE  LinkInv'
<1> USE DEF LinkInv
<1>0. awaits \in {NoCall, ConnectEvent} => (OneAnswer => asked = <<>> /\ OnlyConnects /\ ~Sending)
  <2> SUFFICES ASSUME awaits \in {NoCall, ConnectEvent}, OneAnswer PROVE asked = <<>> /\ OnlyConnects /\ ~Sending
    OBVIOUS
  <2>1. asked \in Seq(Calls) /\ queue \in Seq(Calls)
    BY DEF TypeOK
  <2>2. \A i \in 1 .. Len(asked) : asked[i] \in Calls /\ asked[i].kind # "connect"
    BY <2>1 DEF Asked
  <2>3. asked = <<>>
    BY <2>1, <2>2, KindsOfCalls DEF OneAnswer
  <2>4. OnlyConnects
    <3> SUFFICES ASSUME NEW i \in 1 .. Len(queue) PROVE queue[i].kind = "connect"
      BY DEF OnlyConnects
    <3>1. queue[i] \in Calls
      BY <2>1
    <3> QED BY <3>1, KindsOfCalls DEF OneAnswer
  <2>5. ~Sending
    BY KindsOfCalls DEF OneAnswer, Sending, Sends, TypeOK
  <2> QED BY <2>3, <2>4, <2>5
<1>1. CASE NoPeripheral
  <2>1. /\ UNCHANGED <<params, found, closes, opened, darwinVars, cbVars>> /\ pc = "connect" /\ pc' = "done"
        /\ err' = TRUE /\ awaits = NoCall /\ cb = "disconnected" /\ asked' = asked
    BY <1>1 DEF NoPeripheral, ConnectFails, Fail, Linking, darwinVars, cbVars
  <2>2. ConnTypeOK' /\ Placed' /\ Asked'
    BY <2>1, ConnKept DEF TypeOK
  <2> QED BY <2>1, <2>2, KindsOfCalls DEF TypeOK, CallerPcs, Linking, NoLinkLeft, OneAnswer, OnlyConnects, Sending, darwinVars,
            cbVars, params
<1>2. CASE AskConnect
  <2>1. UNCHANGED <<pc, params, found, closes, opened, err>> /\ pc = "connect" /\ awaits = NoCall /\ asked' = asked
    BY <1>2 DEF AskConnect, connVars
  <2>2. ConnTypeOK' /\ Placed' /\ Asked'
    BY <2>1, ConnKept DEF TypeOK
  <2>3. TypeOK'
    BY <1>2, <2>1, <2>2, KindsOfCalls DEF AskConnect, TypeOK, params
  <2>4. Linking'
    BY <1>2, <2>1, KindsOfCalls DEF AskConnect, Linking, NoLinkLeft
  <2>5. OneAnswer => OneAnswer'
    BY <1>0, <1>2, <2>1, KindsOfCalls DEF AskConnect, OneAnswer, OnlyConnects, Sending
  <2> QED BY <1>2, <2>2, <2>3, <2>4, <2>5 DEF AskConnect
<1>3. CASE ConnectTimesOut
  <2>1. UNCHANGED <<pc, params, found, closes, opened, err>> /\ pc = "connect" /\ awaits = ConnectEvent
    BY <1>3 DEF ConnectTimesOut, connVars, Linking
  <2>2. UNCHANGED <<asked, queue, listed, known, refused, delegate, awaits, connectMap, dev, late, response>> /\ timedOut'
    BY <1>3 DEF ConnectTimesOut
  <2>3. ConnTypeOK' /\ Placed' /\ Asked'
    BY <2>1, <2>2, ConnKept DEF TypeOK
  <2>4. cb' \in {"disconnected", "connecting", "connected", "disconnecting"} /\ timedOut' \in BOOLEAN
    BY <1>3 DEF ConnectTimesOut, Cancel, TypeOK
  <2>5. TypeOK'
    BY <2>1, <2>2, <2>3, <2>4 DEF TypeOK, params
  <2>6. Linking'
    BY <2>1, <2>2, KindsOfCalls DEF Linking, NoLinkLeft
  <2>7. OneAnswer => OneAnswer'
    BY <2>2 DEF OneAnswer, OnlyConnects, Sending
  <2> QED BY <2>2, <2>3, <2>5, <2>6, <2>7
<1>4. CASE ConnectReturns
  <2>1. /\ UNCHANGED <<params, found, closes, cbVars, timedOut, late, response>> /\ pc = "connect" /\ awaits = ConnectEvent
        /\ pc' \in {"pause", "done"} /\ (err' = err \/ err' = TRUE) /\ (opened' = opened \/ opened' = TRUE)
        /\ dev' \in {"real", "empty", dev} /\ asked' = asked
        /\ dev' = "empty" => cb = "disconnected"
        /\ pc' = "done" => cb = "disconnected"
        /\ delegate' = NoCall /\ awaits' = NoCall /\ connectMap' = FALSE
    BY <1>4 DEF ConnectReturns, Connected, ConnectFails, Fail, Goto, Linking, cbVars
  <2>2. ConnTypeOK' /\ Placed' /\ Asked'
    BY <2>1, ConnKept DEF TypeOK
  <2>3. TypeOK'
    BY <2>1, <2>2 DEF TypeOK, CallerPcs, cbVars, params
  <2>4. Linking'
    BY <2>1, KindsOfCalls DEF Linking, NoLinkLeft, cbVars
  <2>5. ASSUME OneAnswer PROVE OneAnswer'
    <3>1. asked' = <<>> /\ Len(asked') = 0 /\ OnlyConnects' /\ ~Sending'
      BY <1>0, <2>1, <2>5, KindsOfCalls DEF OnlyConnects, Sending, cbVars
    <3> QED BY <3>1 DEF OneAnswer, OnlyConnects
  <2> QED BY <2>1, <2>2, <2>3, <2>4, <2>5
<1>5. CASE UseNil
  <2>1. UNCHANGED <<params, found, closes, opened, err, darwinVars, cbVars>> /\ pc = "services" /\ pc' = "panicked"
        /\ asked' = asked
    BY <1>5 DEF UseNil, Goto, darwinVars, cbVars
  <2>2. ConnTypeOK' /\ Placed' /\ Asked'
    BY <2>1, ConnKept DEF TypeOK
  <2> QED BY <2>1, <2>2 DEF TypeOK, Linking, NoLinkLeft, OneAnswer, OnlyConnects, Sending, darwinVars, cbVars, params
<1> QED BY <1>1, <1>2, <1>3, <1>4, <1>5

\* Every step of the command keeps the invariant.
LEMMA MainInv ==
  ASSUME LinkInv, Main
  PROVE  LinkInv'
BY ConnectInv, AloneInv, AskInv, ReturnsInv, WriteCommandInv, TimesOutInv DEF Main

----------------------------------------------------------------------------
(* The invariant over the steps of CoreBluetooth and the delegates *)

\* A link that comes, goes or is cancelled keeps it.
LEMMA LinkChangesInv ==
  ASSUME LinkInv, LinkUp \/ LinkLost \/ Cancelled
  PROVE  LinkInv'
<1> USE DEF LinkInv
<1>1. /\ Running /\ cb # "disconnected" /\ cb' \in {"connected", "disconnected"}
      /\ queue' = Append(queue, ConnectEvent) /\ asked' = <<>>
      /\ UNCHANGED <<connVars, listed, known, refused, delegate, awaits, connectMap, timedOut, dev, late, response>>
  BY DEF LinkUp, LinkLost, Cancelled, LinkChanges
<1>2. UNCHANGED <<pc, params, found, closes, err, opened>>
  BY <1>1 DEF connVars
<1>3. ConnTypeOK' /\ Placed'
  BY <1>2, ConnKept DEF TypeOK
<1>4. /\ queue' \in Seq(Calls) /\ Len(queue') = Len(queue) + 1 /\ Len(queue) \in Nat
      /\ \A i \in 1 .. Len(queue) : queue'[i] = queue[i]
      /\ queue'[Len(queue) + 1] = ConnectEvent
  BY <1>1, AppendFacts, KindsOfCalls DEF TypeOK
<1>5. asked' \in Seq(Calls) /\ Len(asked') = 0
  BY <1>1
<1>6. TypeOK'
  BY <1>1, <1>2, <1>3, <1>4, <1>5 DEF TypeOK, params
<1>7. Linking'
  BY <1>1, <1>2 DEF Linking, NoLinkLeft, Running
<1>8. Asked'
  BY <1>5 DEF Asked
<1>9. ASSUME OneAnswer PROVE OneAnswer'
  <2>1. \A i \in 1 .. Len(queue') :
            queue'[i].kind = "connect" \/ (i \in 1 .. Len(queue) /\ queue'[i] = queue[i])
    BY <1>4, KindsOfCalls
  <2>2. Sending' <=> Sending
    BY <1>1 DEF Sending
  <2>3. Sending => OnlyConnects'
    BY <1>9, <2>1 DEF OneAnswer, OnlyConnects
  <2>4. \A i \in 1 .. Len(queue') : queue'[i] = awaits' \/ queue'[i].kind = "connect"
    BY <1>1, <1>9, <2>1 DEF OneAnswer
  <2>5. \A i, j \in 1 .. Len(queue') : queue'[i].kind # "connect" /\ queue'[j].kind # "connect" => i = j
    BY <1>9, <2>1 DEF OneAnswer
  <2>6. Sending' => Sends(delegate', awaits')
    BY <1>1, <1>9, <2>2 DEF OneAnswer
  <2> QED BY <1>1, <1>5, <2>2, <2>3, <2>4, <2>5, <2>6 DEF OneAnswer
<1> QED BY <1>1, <1>3, <1>6, <1>7, <1>8, <1>9

\* The answer goes from what is asked to the end of the queue.
LEMMA AnsweredInv ==
  ASSUME LinkInv, Answers \/ Refuses
  PROVE  LinkInv'
<1> USE DEF LinkInv
<1>1. /\ asked # <<>> /\ asked' = Tail(asked) /\ queue' = Append(queue, Head(asked))
      /\ UNCHANGED <<connVars, cb, delegate, awaits, connectMap, timedOut, dev, late, response>>
  BY DEF Answers, Refuses, Answered
<1>2. UNCHANGED <<pc, params, found, closes, err, opened>>
  BY <1>1 DEF connVars
<1>3. ConnTypeOK' /\ Placed'
  BY <1>2, ConnKept DEF TypeOK
<1>4. /\ asked' \in Seq(Calls) /\ Head(asked) \in Calls /\ Head(asked) = asked[1]
      /\ Len(asked') = Len(asked) - 1 /\ Len(asked) \in Nat \ {0}
      /\ \A i \in 1 .. Len(asked) - 1 : asked'[i] = asked[i + 1]
  BY <1>1, TailFacts DEF TypeOK
<1>5. /\ queue' \in Seq(Calls) /\ Len(queue') = Len(queue) + 1 /\ Len(queue) \in Nat
      /\ \A i \in 1 .. Len(queue) : queue'[i] = queue[i]
      /\ queue'[Len(queue) + 1] = Head(asked)
  BY <1>1, <1>4, AppendFacts DEF TypeOK
<1>6. listed' \in BOOLEAN /\ known' \subseteq 1 .. Len(table) /\ refused' \subseteq 1 .. Len(table)
  <2>1. asked[1].kind = "chars" => asked[1].of[1] \in 1 .. Len(table)
    BY <1>4 DEF Asked
  <2>2. CASE Answers
    BY <1>4, <2>1, <2>2 DEF Answers, TypeOK
  <2>3. CASE Refuses
    BY <1>4, <2>1, <2>3 DEF Refuses, TypeOK
  <2> QED BY <2>2, <2>3
<1>7. TypeOK'
  BY <1>1, <1>2, <1>3, <1>4, <1>5, <1>6 DEF TypeOK, params
<1>8. Linking'
  BY <1>1, <1>2 DEF Linking, NoLinkLeft
<1>9. Asked'
  BY <1>2, <1>4 DEF Asked, params
<1>10. ASSUME OneAnswer PROVE OneAnswer'
  <2>1. Len(asked) = 1 /\ Head(asked) = awaits /\ OnlyConnects /\ ~Sending
    BY <1>1, <1>4, <1>10 DEF OneAnswer
  <2>2. Len(asked') = 0 /\ asked' = <<>>
    BY <1>4, <2>1
  <2>3. \A i \in 1 .. Len(queue') : queue'[i].kind = "connect" \/ (i = Len(queue) + 1 /\ queue'[i] = awaits)
    BY <1>5, <2>1 DEF OnlyConnects
  <2>4. ~Sending'
    BY <1>1, <2>1 DEF Sending
  <2> QED BY <1>1, <2>2, <2>3, <2>4 DEF OneAnswer
<1> QED BY <1>1, <1>3, <1>7, <1>8, <1>9, <1>10

\* The answer goes from the head of the queue to the delegate that sends it.
LEMMA DelegateInv ==
  ASSUME LinkInv, Delegate
  PROVE  LinkInv'
<1> USE DEF LinkInv
<1>1. /\ delegate = NoCall /\ queue # <<>> /\ queue' = Tail(queue)
      /\ UNCHANGED <<connVars, cb, asked, listed, known, refused, awaits, timedOut, dev, late, response>>
  BY DEF Delegate, TakeConnect, TakeDiscovered, TakeValue, Taken
<1>2. UNCHANGED <<pc, params, found, closes, err, opened>>
  BY <1>1 DEF connVars
<1>3. ConnTypeOK' /\ Placed' /\ Asked'
  BY <1>1, <1>2, ConnKept DEF TypeOK
<1> DEFINE q == Head(queue)
<1>4. /\ queue' \in Seq(Calls) /\ q \in Calls /\ q = queue[1]
      /\ Len(queue') = Len(queue) - 1 /\ Len(queue) \in Nat \ {0}
      /\ \A i \in 1 .. Len(queue) - 1 : queue'[i] = queue[i + 1]
  BY <1>1, TailFacts DEF TypeOK
<1>5. /\ connectMap' \in {connectMap, FALSE}
      /\ \/ delegate' = NoCall
         \/ delegate' = ConnectEvent /\ connectMap /\ q.kind = "connect"
         \/ delegate' = q /\ q.kind \in {"services", "chars"}
         \/ delegate' = awaits /\ awaits.kind = q.kind /\ q.kind \in {"read", "write"}
  BY DEF Delegate, TakeConnect, TakeDiscovered, TakeValue, Expected
<1> HIDE DEF q
<1>6. TypeOK'
  <2>1. delegate' \in Calls \cup {NoCall} /\ connectMap' \in BOOLEAN
    BY <1>4, <1>5, KindsOfCalls DEF TypeOK
  <2> QED BY <1>1, <1>2, <1>3, <1>4, <2>1 DEF TypeOK, params
<1>7. Linking'
  <2>1. delegate'.kind = "connect" => delegate' = awaits'
    BY <1>1, <1>5, KindsOfCalls DEF Linking
  <2>2. connectMap' => awaits' = ConnectEvent
    BY <1>1, <1>5 DEF Linking
  <2> QED BY <1>1, <1>2, <2>1, <2>2 DEF Linking, NoLinkLeft
<1>8. ASSUME OneAnswer PROVE OneAnswer'
  <2>1. \A i \in 1 .. Len(queue') : queue'[i] = awaits' \/ queue'[i].kind = "connect"
    BY <1>1, <1>4, <1>8 DEF OneAnswer
  <2>2. \A i, j \in 1 .. Len(queue') : queue'[i].kind # "connect" /\ queue'[j].kind # "connect" => i = j
    <3> SUFFICES ASSUME NEW i \in 1 .. Len(queue'), NEW j \in 1 .. Len(queue'),
                        queue'[i].kind # "connect", queue'[j].kind # "connect"
                 PROVE  i = j
      OBVIOUS
    <3>1. queue'[i] = queue[i + 1] /\ queue'[j] = queue[j + 1] /\ i + 1 \in 1 .. Len(queue) /\ j + 1 \in 1 .. Len(queue)
      BY <1>4
    <3>2. i + 1 = j + 1
      BY <1>8, <3>1 DEF OneAnswer
    <3> QED BY <1>4, <3>2
  <2>3. OnlyConnects => OnlyConnects'
    BY <1>4 DEF OnlyConnects
  <2>4. q.kind # "connect" => OnlyConnects' /\ asked = <<>> /\ q = awaits
    <3> SUFFICES ASSUME q.kind # "connect" PROVE OnlyConnects' /\ asked = <<>> /\ q = awaits
      OBVIOUS
    <3>1. ~OnlyConnects /\ asked = <<>> /\ q = awaits
      BY <1>4, <1>8 DEF OneAnswer, OnlyConnects
    <3>2. ASSUME NEW i \in 1 .. Len(queue') PROVE queue'[i].kind = "connect"
      <4>1. queue'[i] = queue[i + 1] /\ i + 1 \in 1 .. Len(queue) /\ i + 1 # 1 /\ 1 \in 1 .. Len(queue)
        BY <1>4, <3>2
      <4> QED BY <1>4, <1>8, <4>1 DEF OneAnswer
    <3> QED BY <3>1, <3>2 DEF OnlyConnects
  <2>5. Sending' => q.kind # "connect" /\ delegate' = awaits
    BY <1>5, <2>4, KindsOfCalls DEF Sending
  <2>6. Sending' => Sends(delegate', awaits')
    BY <1>1, <2>5 DEF Sends
  <2>7. asked' # <<>> => OnlyConnects'
    BY <1>1, <1>8, <2>3 DEF OneAnswer
  <2> QED BY <1>1, <1>8, <2>1, <2>2, <2>4, <2>5, <2>6, <2>7 DEF OneAnswer
<1> QED BY <1>1, <1>3, <1>6, <1>7, <1>8

----------------------------------------------------------------------------
(* One answer too many: the invariant behind LateIsReported *)

\* Before a command begins nothing is pending, nor left over.
LEMMA LateInit == Init => Pended /\ LeftOver
BY KindsOfCalls DEF Init, ConnInit, Pended, LeftOver

\* An answer under way stays under way until a call receives it.
LEMMA PendingMoves ==
  ASSUME LinkInv, Answers \/ Refuses \/ Delegate, NEW n, Pending(CharsOf(n))
  PROVE  Pending(CharsOf(n))'
<1> DEFINE x == CharsOf(n)
<1>0. x.kind = "chars"
  BY DEF CharsOf
<1> HIDE DEF x
<1>1. CASE Answers \/ Refuses
  <2>1. /\ asked # <<>> /\ asked' = Tail(asked) /\ queue' = Append(queue, Head(asked)) /\ delegate' = delegate
    BY <1>1 DEF Answers, Refuses, Answered
  <2>2. /\ Head(asked) = asked[1] /\ Head(asked) \in Calls
        /\ Len(asked') = Len(asked) - 1 /\ Len(asked) \in Nat \ {0}
        /\ \A i \in 1 .. Len(asked) - 1 : asked'[i] = asked[i + 1]
    BY <2>1, TailFacts DEF LinkInv, TypeOK
  <2>3. /\ Len(queue') = Len(queue) + 1 /\ Len(queue) \in Nat
        /\ \A i \in 1 .. Len(queue) : queue'[i] = queue[i]
        /\ queue'[Len(queue) + 1] = asked[1]
    BY <2>1, <2>2, AppendFacts DEF LinkInv, TypeOK
  <2>4. CASE \E i \in 1 .. Len(asked) : asked[i] = x
    <3>1. PICK i \in 1 .. Len(asked) : asked[i] = x
      BY <2>4
    <3>2. CASE i = 1
      <4>1. Len(queue) + 1 \in 1 .. Len(queue') /\ queue'[Len(queue) + 1] = x
        BY <2>3, <3>1, <3>2
      <4> QED BY <4>1 DEF Pending, x
    <3>3. CASE i # 1
      <4>1. i - 1 \in 1 .. Len(asked') /\ asked'[i - 1] = x
        BY <2>2, <3>1, <3>3
      <4> QED BY <4>1 DEF Pending, x
    <3> QED BY <3>2, <3>3
  <2>5. CASE \E i \in 1 .. Len(queue) : queue[i] = x
    <3>1. PICK i \in 1 .. Len(queue) : queue[i] = x
      BY <2>5
    <3>2. i \in 1 .. Len(queue') /\ queue'[i] = x
      BY <2>3, <3>1
    <3> QED BY <3>2 DEF Pending, x
  <2> QED BY <2>1, <2>4, <2>5 DEF Pending, x
<1>2. CASE Delegate
  <2>1. delegate = NoCall /\ queue # <<>> /\ queue' = Tail(queue) /\ asked' = asked
    BY <1>2 DEF Delegate, TakeConnect, TakeDiscovered, TakeValue, Taken
  <2>2. /\ Head(queue) = queue[1]
        /\ Len(queue') = Len(queue) - 1 /\ Len(queue) \in Nat \ {0}
        /\ \A i \in 1 .. Len(queue) - 1 : queue'[i] = queue[i + 1]
    BY <2>1, TailFacts DEF LinkInv, TypeOK
  <2>3. queue[1] = x => delegate' = x
    BY <1>0, <1>2, <2>2 DEF Delegate, TakeConnect, TakeDiscovered, TakeValue, Expected
  <2>4. CASE \E i \in 1 .. Len(queue) : queue[i] = x
    <3>1. PICK i \in 1 .. Len(queue) : queue[i] = x
      BY <2>4
    <3>2. CASE i = 1
      BY <2>3, <3>1, <3>2 DEF Pending, x
    <3>3. CASE i # 1
      <4>1. i - 1 \in 1 .. Len(queue') /\ queue'[i - 1] = x
        BY <2>2, <3>1, <3>3
      <4> QED BY <4>1 DEF Pending, x
    <3> QED BY <3>2, <3>3
  <2>5. delegate # x
    BY <1>0, <2>1, KindsOfCalls
  <2> QED BY <2>1, <2>4, <2>5 DEF Pending, x
<1> QED BY <1>1, <1>2

\* What a step of the command does with the count of packets.
LEMMA CallerSends ==
  ASSUME Caller
  PROVE  /\ pc \in {"write", "close"} => pc' \in {"write", "close", "done"}
         /\ pc # "write" => sent' = sent
<1> USE DEF Fail, Abandon, found, params
<1> DEFINE P == /\ pc \in {"write", "close"} => pc' \in {"write", "close", "done"}
                /\ pc # "write" => sent' = sent
<1>1. CASE Found \/ NotFound \/ Wake \/ ServicesFail \/ NoServices \/ Services
  BY <1>1 DEF Found, NotFound, Wake, ServicesFail, NoServices, Services
<1>2. CASE OptionsRefused \/ OptionsAccepted \/ SkipService \/ AskChars \/ NoServiceLeft \/ CharsFail
  BY <1>2 DEF OptionsRefused, OptionsAccepted, SkipService, AskChars, NoServiceLeft, CharsFail, NextService
<1>3. ASSUME NEW chars, Chars(chars) PROVE P
  BY <1>3 DEF Chars, DumpChars, UseService, PassService, Use, NextService
<1>4. CASE (\E c \in unread : Read(c)) \/ AllRead \/ Written \/ WriteFails \/ AllSent \/ CloseConn
  BY <1>4 DEF Read, AllRead, NextService, Written, WriteFails, AllSent, CloseConn, MorePackets
<1> QED BY <1>1, <1>2, <1>3, <1>4 DEF Caller

\* The end of a call leaves nothing that waits for characteristics.
LEMMA LeavesPended ==
  ASSUME LinkInv, Pended, Leaves, awaits'.kind # "chars"
  PROVE  Pended'
<1> USE DEF Pended, Leaves
<1>1. CallerFrame
  BY CallerLeads
<1>2. cb' # "connecting"
  BY <1>1 DEF Disconnects, Cancel, CallerFrame
<1>3. pc' \in {"find", "connect"} => pc = "find" /\ awaits = NoCall
  BY <1>1 DEF CallerFrame, LinkInv, Linking
<1>4. cmd' = "send" /\ pc' \notin {"write", "close", "done"} => sent' = 0
  BY <1>1, CallerSends DEF CallerFrame, params
<1> QED BY <1>2, <1>3, <1>4

\* Where a step of the command cannot be taken: an answer too many is under way.
LEMMA WriteTakesNone ==
  ASSUME LeftOver, late, response, cmd = "send", ~err
  PROVE  /\ delegate.kind \in {"none", "chars"} /\ pc \in {"choose", "chars", "write"} /\ sent = 0
         /\ ~ServicesReturn /\ ~ReadReturns /\ ~WriteReturns /\ ~WriteCommand
BY DEF LeftOver, WritesWait, ServicesReturn, ReadReturns, WriteReturns, WriteCommand, Received, Services, NoServices, Read

\* The steps of the command that leave the answers alone.
LEMMA IdleLate ==
  ASSUME LateInv, Alone \/ WriteCommand
  PROVE  Pended' /\ LeftOver'
<1> USE DEF LateInv
<1>1. Leaves /\ Caller
  BY DEF Alone, WriteCommand, Leaves, Caller, Written, WriteFails, Disconnects, darwinVars, cbVars, found
<1>2. UNCHANGED <<asked, queue, delegate, awaits, late, response>>
  BY DEF Alone, WriteCommand, darwinVars, cbVars
<1>3. awaits.kind # "chars"
  <2>1. CASE Alone
    BY <2>1, KindsOfCalls DEF Alone
  <2>2. CASE WriteCommand
    BY <2>2 DEF WriteCommand, Written, WriteFails, MorePackets, Pended
  <2> QED BY <2>1, <2>2
<1>4. Pended'
  BY <1>1, <1>2, <1>3, LeavesPended
<1>5. ASSUME late, response, cmd' = "send", ~err' PROVE LeftOver'
  <2>1. CallerFrame
    BY <1>1, CallerLeads
  <2>2. cmd = "send" /\ ~err /\ table' = table
    <3>1. cmd' = cmd /\ table' = table /\ err' \in {err, TRUE}
      BY <2>1 DEF CallerFrame, params
    <3>2. ~err
      BY <1>5, <3>1, Zenon
    <3> QED BY <1>5, <3>1, <3>2
  <2>3. /\ ~WriteCommand /\ pc \in {"choose", "chars", "write"} /\ sent = 0 /\ WritesWait /\ OneTooMany
    BY <1>5, <2>2, WriteTakesNone DEF LeftOver
  <2>4. SkipService \/ AskChars
    <3>1. ~(Found \/ NotFound \/ Wake \/ OptionsRefused \/ OptionsAccepted \/ AllRead \/ CloseConn)
      BY <2>3 DEF Found, NotFound, Wake, OptionsRefused, OptionsAccepted, AllRead, CloseConn
    <3>2. ~AllSent
      BY <2>3 DEF AllSent
    <3>3. ~NoServiceLeft
      BY <1>5, <2>2 DEF NoServiceLeft, Abandon, Fail
    <3> QED BY <2>3, <3>1, <3>2, <3>3 DEF Alone
  <2>7. /\ pc = "choose" /\ pc' \in {"choose", "chars"} /\ next' \in {next, next + 1} /\ sent' = sent
    BY <2>4 DEF SkipService, AskChars, NextService, found
  <2>5. WritesWait'
    BY <1>2, <2>3, <2>7 DEF WritesWait
  <2>6. OneTooMany'
    <3> SUFFICES ASSUME cb' = "connected" PROVE OneTooMany'
      BY DEF OneTooMany
    <3>1. cb = "connected"
      BY <1>1 DEF Leaves, Disconnects, Cancel
    <3>2. PICK n \in 1 .. Len(table) : Pending(CharsOf(n)) /\ n < next
      BY <2>3, <2>7, <3>1 DEF OneTooMany
    <3>3. Pending(CharsOf(n))'
      BY <1>2, <3>2 DEF Pending, CharsOf
    <3>4. n < next'
      BY <2>7, <3>2 DEF LinkInv, TypeOK, ConnTypeOK
    <3> QED BY <1>2, <1>3, <2>2, <3>3, <3>4 DEF OneTooMany
  <2> QED BY <2>3, <2>5, <2>6, <2>7 DEF LeftOver
<1>6. LeftOver'
  BY <1>2, <1>5 DEF LeftOver
<1> QED BY <1>4, <1>6

\* A discovery that returns takes one answer of two.
LEMMA ReturnsLate ==
  ASSUME LateInv, ServicesReturn \/ CharsReturn \/ ReadReturns \/ WriteReturns
  PROVE  Pended' /\ LeftOver'
<1> USE DEF LateInv
<1>1. PICK kind \in {"services", "chars", "read", "write"} : Received(kind)
  BY DEF ServicesReturn, CharsReturn, ReadReturns, WriteReturns
<1>2. Caller
  BY ReturnsCall
<1>3. Leaves /\ awaits' = NoCall /\ delegate' = NoCall /\ UNCHANGED <<asked, queue, late, response>>
  BY <1>1, <1>2 DEF Received, Leaves
<1>4. Pended'
  BY <1>3, LeavesPended, KindsOfCalls
<1>5. ASSUME late, response, cmd' = "send", ~err' PROVE LeftOver'
  <2>1. CallerFrame
    BY <1>2, CallerLeads
  <2>2. cmd = "send" /\ ~err /\ table' = table
    <3>1. cmd' = cmd /\ table' = table /\ err' \in {err, TRUE}
      BY <2>1 DEF CallerFrame, params
    <3>2. ~err
      BY <1>5, <3>1, Zenon
    <3> QED BY <1>5, <3>1, <3>2
  <2>3. /\ CharsReturn /\ sent = 0 /\ WritesWait /\ OneTooMany
    BY <1>5, <2>2, WriteTakesNone DEF LeftOver
  <2>4. /\ pc = "chars" /\ awaits.kind = "chars" /\ sent' = sent
        /\ (pc' = "choose" /\ next' = next + 1) \/ pc' = "write"
    BY <1>5, <2>2, <2>3 DEF CharsReturn, Received, Chars, DumpChars, UseService, PassService, Use, NextService, Abandon, Fail
  <2>5. WritesWait'
    BY <1>3, <2>3, <2>4, KindsOfCalls DEF WritesWait
  <2>6. OneTooMany'
    <3> SUFFICES ASSUME cb' = "connected" PROVE OneTooMany'
      BY DEF OneTooMany
    <3>1. cb = "connected"
      BY <1>3 DEF Leaves, Disconnects, Cancel
    <3>2. PICK n \in 1 .. Len(table) : Pending(CharsOf(n)) /\ n < next
      BY <2>3, <2>4, <3>1 DEF OneTooMany
    <3>3. Pending(CharsOf(next)) /\ CharsOf(next) # CharsOf(n) /\ next \in 1 .. Len(table)
      <4>1. Pending(CharsOf(next))
        BY <2>3, <2>4, <3>1 DEF OneTooMany, Pended
      <4>2. next \in 1 .. Len(table)
        BY <2>4, TablesHaveLengths DEF LinkInv, Placed, TypeOK
      <4>3. <<next>> # <<n>>
        BY <3>2, <4>2
      <4> QED BY <4>1, <4>2, <4>3 DEF CharsOf
    <3>4. PICK m \in {n, next} : delegate # CharsOf(m) /\ Pending(CharsOf(m))
      BY <3>2, <3>3
    <3>5. Pending(CharsOf(m))'
      BY <1>3, <3>4 DEF Pending, CharsOf
    <3>6. m \in 1 .. Len(table) /\ (pc' # "write" => m < next')
      BY <2>4, <3>2, <3>3
    <3> QED BY <1>3, <2>2, <3>5, <3>6, KindsOfCalls DEF OneTooMany
  <2> QED BY <2>3, <2>4, <2>5, <2>6 DEF LeftOver
<1>6. LeftOver'
  BY <1>3, <1>5 DEF LeftOver
<1> QED BY <1>4, <1>6

\* A discovery that times out leaves its answer behind.
LEMMA TimesOutLate ==
  ASSUME LateInv, TimesOut
  PROVE  Pended' /\ LeftOver'
<1> USE DEF LateInv
<1>1. Caller
  BY DEF TimesOut, Caller, Read
<1>2. Leaves /\ awaits' = NoCall /\ UNCHANGED <<asked, queue, delegate, response>>
  BY <1>1 DEF TimesOut, Leaves
<1>3. Pended'
  BY <1>2, LeavesPended, KindsOfCalls
<1>4. ASSUME response, cmd' = "send", ~err' PROVE LeftOver'
  <2>1. CallerFrame
    BY <1>1, CallerLeads
  <2>2. cmd = "send" /\ ~err /\ table' = table
    <3>1. cmd' = cmd /\ table' = table /\ err' \in {err, TRUE}
      BY <2>1 DEF CallerFrame, params
    <3>2. ~err
      BY <1>4, <3>1, Zenon
    <3> QED BY <1>4, <3>1, <3>2
  <2>3. /\ awaits.kind = "chars" /\ pc = "chars" /\ pc' = "choose" /\ next' = next + 1 /\ sent' = sent
    <3>1. awaits.kind # "services" /\ awaits.kind # "write"
      BY <1>4 DEF TimesOut, ServicesFail, WriteFails, Abandon, Fail
    <3>2. awaits.kind # "read"
      BY <2>2 DEF TimesOut, Read, Placed, LinkInv
    <3>3. awaits.kind = "chars" /\ CharsFail
      BY <3>1, <3>2 DEF TimesOut
    <3>4. CASE Explicit
      BY <1>4, <2>2, <3>3, <3>4 DEF CharsFail, Abandon, Fail
    <3>5. CASE ~Explicit
      BY <3>3, <3>5 DEF CharsFail, NextService
    <3> QED BY <3>4, <3>5
  <2>4. /\ sent = 0 /\ WritesWait
        /\ cb = "connected" => Pending(awaits)
    <3>1. CASE late
      BY <1>4, <2>2, <2>3, <3>1, WriteTakesNone DEF LeftOver, OneTooMany
    <3>2. CASE ~late
      <4>1. OneAnswer /\ sent = 0 /\ (cb = "connected" => Pending(awaits))
        BY <2>2, <2>3, <3>2 DEF LinkInv, Pended
      <4>2. delegate.kind \in {"none", "chars"}
        BY <2>3, <4>1 DEF OneAnswer, Sending, Sends, LinkInv, Linking
      <4>3. WritesWait
        BY <2>3, <4>1, <4>2 DEF OneAnswer, WritesWait
      <4> QED BY <4>1, <4>3
    <3> QED BY <3>1, <3>2
  <2>5. WritesWait'
    BY <1>2, <2>3, <2>4 DEF WritesWait
  <2>6. OneTooMany'
    <3> SUFFICES ASSUME cb' = "connected" PROVE OneTooMany'
      BY DEF OneTooMany
    <3>1. cb = "connected"
      BY <1>2 DEF Leaves, Disconnects, Cancel
    <3>2. Pending(CharsOf(next)) /\ next \in 1 .. Len(table)
      BY <2>3, <2>4, <3>1, TablesHaveLengths DEF Pended, LinkInv, Placed, TypeOK
    <3>3. \A n \in 1 .. Len(table) : Pending(CharsOf(n)) => Pending(CharsOf(n))'
      BY <1>2 DEF Pending, CharsOf
    <3>4. next < next'
      BY <2>3, <3>2
    <3> QED BY <1>2, <2>2, <3>2, <3>3, <3>4, KindsOfCalls DEF OneTooMany
  <2> QED BY <2>3, <2>4, <2>5, <2>6 DEF LeftOver
<1>5. LeftOver'
  BY <1>2, <1>4 DEF LeftOver
<1> QED BY <1>3, <1>5

\* A call asked is behind what is under way already.
LEMMA AskLate ==
  ASSUME LateInv, AskGatt
  PROVE  Pended' /\ LeftOver'
<1> USE DEF LateInv
<1>1. PICK call : /\ Ask(call)
                  /\ \/ pc = "services" /\ call.kind = "services"
                     \/ pc = "chars" /\ call = CharsOf(next) /\ call.kind = "chars"
                     \/ pc = "read" /\ call.kind = "read"
                     \/ pc = "write" /\ call.kind = "write"
  <2>1. CASE pc = "services" /\ Ask([kind |-> "services", of |-> <<>>])
    BY <2>1
  <2>2. CASE pc = "chars" /\ Ask(CharsOf(next))
    <3>1. CharsOf(next).kind = "chars"
      BY DEF CharsOf
    <3> QED BY <2>2, <3>1
  <2>3. CASE pc = "read" /\ \E c \in unread : Ask([kind |-> "read", of |-> <<next, c>>])
    BY <2>3
  <2>4. CASE pc = "write" /\ Ask([kind |-> "write", of |-> <<sent>>])
    BY <2>4
  <2> QED BY <2>1, <2>2, <2>3, <2>4 DEF AskGatt, MorePackets, CharsOf
<1>2. /\ awaits = NoCall /\ awaits' = call
      /\ asked' = (IF cb = "connected" THEN Append(asked, call) ELSE asked)
      /\ UNCHANGED <<connVars, cb, queue, delegate, late, response>>
  BY <1>1 DEF Ask
<1>3. UNCHANGED <<pc, cmd, table, next, sent, err>>
  BY <1>2 DEF connVars, params, found
<1>4. call \in Calls /\ Len(asked) \in Nat
  <2>1. LinkInv'
    BY AskInv
  <2> QED BY <1>1, <1>2, <2>1, KindsOfCalls DEF LinkInv, TypeOK
<1>5. cb = "connected" =>
        /\ Len(asked') = Len(asked) + 1 /\ asked'[Len(asked) + 1] = call
        /\ \A i \in 1 .. Len(asked) : asked'[i] = asked[i]
  BY <1>2, <1>4, AppendFacts DEF LinkInv, TypeOK
<1>6. cb = "connected" => Pending(call)'
  <2>1. cb = "connected" => Len(asked) + 1 \in 1 .. Len(asked') /\ asked'[Len(asked) + 1] = call
    BY <1>4, <1>5
  <2> QED BY <2>1 DEF Pending
<1>7. Pended'
  BY <1>1, <1>2, <1>3, <1>6 DEF Pended, CharsOf
<1>8. ASSUME late, response, cmd = "send", ~err PROVE LeftOver'
  <2>1. pc \in {"chars", "write"} /\ sent = 0 /\ WritesWait /\ OneTooMany
    BY <1>1, <1>8 DEF LeftOver
  <2>2. CASE cb # "connected"
    <3>1. asked' = asked
      BY <1>2, <2>2
    <3> QED BY <1>2, <1>3, <2>1, <2>2, <3>1 DEF LeftOver, WritesWait, OneTooMany
  <2>3. CASE cb = "connected"
    <3>1. PICK n \in 1 .. Len(table) : Pending(CharsOf(n)) /\ (pc # "write" => n < next)
      BY <2>1, <2>3 DEF OneTooMany
    <3>2. Pending(CharsOf(n))'
      BY <1>2, <1>5, <2>3, <3>1, <1>4 DEF Pending, CharsOf
    <3>3. OneTooMany'
      BY <1>2, <1>3, <1>6, <2>3, <3>1, <3>2 DEF OneTooMany
    <3>4. \/ delegate.kind = "chars"
          \/ \E j \in 1 .. Len(queue) : queue[j].kind = "chars"
          \/ \E j \in 1 .. Len(asked) : asked[j].kind = "chars"
      BY <3>1 DEF Pending, CharsOf
    <3>5. WritesWait'
      <4>1. ASSUME NEW i \in 1 .. Len(asked')
            PROVE  \/ asked'[i].kind = "chars"
                   \/ asked'[i].kind = "write" /\ pc = "write"
                      /\ \/ delegate.kind = "chars"
                         \/ \E j \in 1 .. Len(queue) : queue[j].kind = "chars"
                         \/ \E j \in 1 .. i - 1 : asked'[j].kind = "chars"
        <5>1. CASE i \in 1 .. Len(asked)
          <6>1. \A j \in 1 .. i - 1 : asked'[j] = asked[j]
            BY <1>4, <1>5, <2>3, <5>1
          <6> QED BY <1>5, <2>1, <2>3, <5>1, <6>1 DEF WritesWait
        <5>2. CASE i \notin 1 .. Len(asked)
          <6>1. asked'[i] = call /\ i = Len(asked) + 1
            BY <1>4, <1>5, <2>3, <4>1, <5>2
          <6>2. i - 1 = Len(asked) /\ \A j \in 1 .. Len(asked) : asked'[j] = asked[j]
            BY <1>4, <1>5, <2>3, <6>1
          <6> QED BY <1>1, <2>1, <3>4, <6>1, <6>2
        <5> QED BY <5>1, <5>2
      <4> QED BY <1>2, <1>3, <2>1, <4>1 DEF WritesWait
    <3> QED BY <1>3, <2>1, <3>3, <3>5 DEF LeftOver
  <2> QED BY <2>2, <2>3
<1>9. LeftOver'
  BY <1>2, <1>3, <1>8 DEF LeftOver
<1> QED BY <1>7, <1>9

\* While Connect runs, and when it panics, no send is under way.
LEMMA ConnectLate ==
  ASSUME LateInv, NoPeripheral \/ AskConnect \/ ConnectTimesOut \/ ConnectReturns \/ UseNil
  PROVE  Pended' /\ LeftOver'
<1> USE DEF LateInv
<1>1. /\ pc \in {"connect", "services"}
      /\ UNCHANGED <<cmd, sent, next, table, late, response, asked, queue>>
      /\ pc' = pc \/ (pc' = "done" /\ err') \/ pc' = "pause" \/ (pc = "services" /\ pc' = "panicked")
      /\ err' = err \/ err' = TRUE
  BY DEF NoPeripheral, ConnectFails, AskConnect, ConnectTimesOut, ConnectReturns, Connected, UseNil, Goto, Fail,
         connVars, darwinVars, cbVars, params, found
<1>2. LeftOver'
  <2>1. ~late \/ ~response \/ cmd # "send" \/ err
    BY <1>1 DEF LeftOver
  <2>2. ~late' \/ ~response' \/ cmd' # "send" \/ err'
    <3>1. late' = late /\ response' = response /\ cmd' = cmd
      BY <1>1
    <3>2. err' = err \/ err' = TRUE
      BY <1>1
    <3> QED BY ONLY <2>1, <3>1, <3>2, Zenon
  <2> QED BY <2>2 DEF LeftOver
<1>3. pc = "connect" => awaits.kind # "chars"
  BY KindsOfCalls DEF LinkInv, Linking
<1>4. cmd' = "send" /\ pc' \notin {"write", "close", "done"} => sent' = 0
  BY <1>1 DEF Pended
<1>5. CASE NoPeripheral
  <2>1. pc' = "done" /\ pc = "connect" /\ UNCHANGED <<cb, awaits, delegate>> /\ cb # "connecting"
    BY <1>5 DEF NoPeripheral, ConnectFails, Fail, darwinVars, cbVars, LinkInv, Linking
  <2> QED BY <1>1, <1>2, <1>3, <1>4, <2>1 DEF Pended
<1>6. CASE AskConnect
  <2>1. pc' = "connect" /\ pc = "connect" /\ awaits = NoCall /\ awaits' = ConnectEvent /\ cb' = "connecting" /\ delegate' = delegate
    BY <1>6 DEF AskConnect, connVars
  <2>2. delegate = NoCall /\ queue = <<>> /\ asked = <<>>
    BY <2>1 DEF Pended
  <2> QED BY <1>1, <1>2, <1>4, <2>1, <2>2, KindsOfCalls DEF Pended
<1>7. CASE ConnectTimesOut
  <2>1. pc' = "connect" /\ pc = "connect" /\ awaits # NoCall /\ UNCHANGED <<awaits, delegate>> /\ cb' # "connecting"
    BY <1>7 DEF ConnectTimesOut, Cancel, connVars
  <2> QED BY <1>1, <1>2, <1>3, <1>4, <2>1 DEF Pended
<1>8. CASE ConnectReturns
  <2>1. pc' \in {"pause", "done"} /\ awaits' = NoCall /\ cb' = cb /\ delegate = ConnectEvent
    BY <1>8 DEF ConnectReturns, Connected, ConnectFails, Fail, Goto, cbVars
  <2>2. cb # "connecting"
    BY <2>1, KindsOfCalls DEF Pended
  <2> QED BY <1>2, <1>4, <2>1, <2>2, KindsOfCalls DEF Pended
<1>9. CASE UseNil
  <2>1. pc' = "panicked" /\ pc = "services" /\ UNCHANGED <<cb, awaits, delegate>>
    BY <1>9 DEF UseNil, Goto, darwinVars, cbVars
  <2>2. cb # "connecting" /\ awaits.kind # "chars"
    BY <2>1 DEF Pended
  <2> QED BY <1>2, <1>4, <2>1, <2>2 DEF Pended
<1> QED BY <1>5, <1>6, <1>7, <1>8, <1>9

\* With the link goes all that was asked.
LEMMA LinkChangesLate ==
  ASSUME LateInv, LinkUp \/ LinkLost \/ Cancelled
  PROVE  Pended' /\ LeftOver'
<1> USE DEF LateInv
<1>1. /\ cb # "disconnected" /\ cb' \in {"connected", "disconnected"}
      /\ cb' = "connected" => cb = "connecting"
      /\ queue' = Append(queue, ConnectEvent) /\ asked' = <<>>
      /\ UNCHANGED <<connVars, delegate, awaits, late, response>>
  BY DEF LinkUp, LinkLost, Cancelled, LinkChanges
<1>2. UNCHANGED <<pc, cmd, table, next, sent, err>>
  BY <1>1 DEF connVars, params, found
<1>3. /\ Len(queue') = Len(queue) + 1 /\ Len(queue) \in Nat
      /\ \A i \in 1 .. Len(queue) : queue'[i] = queue[i]
      /\ queue'[Len(queue) + 1] = ConnectEvent
  BY <1>1, AppendFacts, KindsOfCalls DEF LinkInv, TypeOK
<1>4. cb' = "connected" => pc = "connect" /\ awaits.kind # "chars"
  BY <1>1, KindsOfCalls DEF Pended
<1>5. ~(pc \in {"find", "connect"} /\ awaits = NoCall)
  BY <1>1 DEF LinkInv, Linking
<1>6. Pended'
  BY <1>1, <1>2, <1>4, <1>5 DEF Pended
<1>7. ASSUME late, response, cmd = "send", ~err PROVE LeftOver'
  <2>1. pc \in {"choose", "chars", "write"} /\ sent = 0 /\ WritesWait
    BY <1>7 DEF LeftOver
  <2>2. OneTooMany'
    BY <1>2, <1>4, <2>1 DEF OneTooMany
  <2>3. Len(asked') = 0
    BY <1>1
  <2>4. ASSUME NEW i \in 1 .. Len(queue')
        PROVE  \/ queue'[i].kind \in {"connect", "chars"}
               \/ queue'[i].kind = "write" /\ pc = "write"
                  /\ (delegate.kind = "chars" \/ \E j \in 1 .. i - 1 : queue'[j].kind = "chars")
    <3>1. CASE i \in 1 .. Len(queue)
      <4>1. \A j \in 1 .. i - 1 : queue'[j] = queue[j]
        BY <1>3, <3>1
      <4>2. queue'[i] = queue[i]
        BY <1>3, <3>1
      <4> QED BY <2>1, <3>1, <4>1, <4>2 DEF WritesWait
    <3>2. CASE i \notin 1 .. Len(queue)
      <4>1. i = Len(queue) + 1
        BY <1>3, <2>4, <3>2
      <4> QED BY <1>3, <4>1, KindsOfCalls
    <3> QED BY <3>1, <3>2
  <2>5. WritesWait'
    BY <1>1, <1>2, <2>1, <2>3, <2>4 DEF WritesWait
  <2> QED BY <1>2, <2>1, <2>2, <2>5 DEF LeftOver
<1>8. LeftOver'
  BY <1>1, <1>2, <1>7 DEF LeftOver
<1> QED BY <1>6, <1>8

\* What stays true of the answers while CoreBluetooth or a delegate moves one.
LEMMA MovesLate ==
  ASSUME LateInv, Answers \/ Refuses \/ Delegate,
         late /\ response /\ cmd = "send" /\ ~err => WritesWait'
  PROVE  Pended' /\ LeftOver'
<1> USE DEF LateInv
<1>1. /\ UNCHANGED <<connVars, cb, awaits, late, response>>
      /\ asked # <<>> \/ queue # <<>>
  BY DEF Answers, Refuses, Answered, Delegate, TakeConnect, TakeDiscovered, TakeValue, Taken
<1>2. UNCHANGED <<pc, cmd, table, next, sent, err>>
  BY <1>1 DEF connVars, params, found
<1>3. cb # "connecting" /\ ~(pc \in {"find", "connect"} /\ awaits = NoCall)
  BY <1>1 DEF Pended
<1>4. \A n : Pending(CharsOf(n)) => Pending(CharsOf(n))'
  BY PendingMoves
<1>5. awaits.kind = "chars" /\ Pending(awaits) => Pending(awaits)'
  <2> SUFFICES ASSUME awaits.kind = "chars", Pending(awaits) PROVE Pending(awaits)'
    OBVIOUS
  <2>1. awaits = CharsOf(next) /\ awaits' = CharsOf(next)
    BY <1>1 DEF Pended
  <2>2. Pending(CharsOf(next))
    BY <2>1
  <2>3. \E x : x = next /\ Pending(CharsOf(x))'
    BY <1>4, <2>2
  <2> QED BY <1>2, <2>1, <2>3 DEF Pending, CharsOf
<1>6. Pended'
  BY <1>1, <1>2, <1>3, <1>5 DEF Pended, CharsOf
<1>7. ASSUME late, response, cmd = "send", ~err PROVE LeftOver'
  <2>1. pc \in {"choose", "chars", "write"} /\ sent = 0 /\ OneTooMany /\ WritesWait'
    BY <1>7 DEF LeftOver
  <2>2. OneTooMany'
    <3> SUFFICES ASSUME cb = "connected" PROVE OneTooMany'
      BY <1>1 DEF OneTooMany
    <3>1. PICK n \in 1 .. Len(table) : Pending(CharsOf(n)) /\ (pc # "write" => n < next)
      BY <2>1 DEF OneTooMany
    <3>2. Pending(CharsOf(n))'
      BY <1>4, <3>1
    <3>3. awaits.kind = "chars" => Pending(awaits)'
      BY <1>5, <2>1 DEF OneTooMany
    <3> QED BY <1>1, <1>2, <3>1, <3>2, <3>3 DEF OneTooMany
  <2> QED BY <1>2, <2>1, <2>2 DEF LeftOver
<1>8. LeftOver'
  BY <1>1, <1>2, <1>7 DEF LeftOver
<1> QED BY <1>6, <1>8

\* An answer of CoreBluetooth moves from asked to queue and is not lost.
LEMMA AnsweredLate ==
  ASSUME LateInv, Answers \/ Refuses
  PROVE  Pended' /\ LeftOver'
<1>1. /\ asked # <<>> /\ asked' = Tail(asked) /\ queue' = Append(queue, Head(asked))
      /\ UNCHANGED <<connVars, delegate>>
  BY DEF Answers, Refuses, Answered
<1>2. pc' = pc
  BY <1>1 DEF connVars
<1>3. /\ Head(asked) = asked[1] /\ Head(asked) \in Calls
      /\ Len(asked') = Len(asked) - 1 /\ Len(asked) \in Nat \ {0}
      /\ \A i \in 1 .. Len(asked) - 1 : asked'[i] = asked[i + 1]
  BY <1>1, TailFacts DEF LateInv, LinkInv, TypeOK
<1>4. /\ Len(queue') = Len(queue) + 1 /\ Len(queue) \in Nat
      /\ \A i \in 1 .. Len(queue) : queue'[i] = queue[i]
      /\ queue'[Len(queue) + 1] = asked[1]
  BY <1>1, <1>3, AppendFacts DEF LateInv, LinkInv, TypeOK
<1>5. ASSUME WritesWait PROVE WritesWait'
  <2>1. \/ asked[1].kind = "chars"
        \/ asked[1].kind = "write" /\ pc = "write"
           /\ (delegate.kind = "chars" \/ \E j \in 1 .. Len(queue) : queue[j].kind = "chars")
    BY <1>3, <1>5 DEF WritesWait
  <2>2. ASSUME NEW i \in 1 .. Len(queue')
        PROVE  \/ queue'[i].kind \in {"connect", "chars"}
               \/ queue'[i].kind = "write" /\ pc = "write"
                  /\ (delegate.kind = "chars" \/ \E j \in 1 .. i - 1 : queue'[j].kind = "chars")
    <3>1. CASE i \in 1 .. Len(queue)
      <4>1. \A j \in 1 .. i - 1 : queue'[j] = queue[j]
        BY <1>4, <3>1
      <4>2. queue'[i] = queue[i]
        BY <1>4, <3>1
      <4> QED BY <1>5, <3>1, <4>1, <4>2 DEF WritesWait
    <3>2. CASE i \notin 1 .. Len(queue)
      <4>1. i = Len(queue) + 1 /\ i - 1 = Len(queue) /\ queue'[i] = asked[1]
        BY <1>4, <2>2, <3>2
      <4>2. \A j \in 1 .. i - 1 : queue'[j] = queue[j]
        BY <1>4, <4>1
      <4> QED BY <2>1, <4>1, <4>2
    <3> QED BY <3>1, <3>2
  <2>3. ASSUME NEW i \in 1 .. Len(asked')
        PROVE  \/ asked'[i].kind = "chars"
               \/ asked'[i].kind = "write" /\ pc = "write"
                  /\ \/ delegate.kind = "chars"
                     \/ \E j \in 1 .. Len(queue') : queue'[j].kind = "chars"
                     \/ \E j \in 1 .. i - 1 : asked'[j].kind = "chars"
    <3>1. i + 1 \in 1 .. Len(asked) /\ asked'[i] = asked[i + 1]
      BY <1>3, <2>3
    <3>2. ASSUME NEW j \in 1 .. i, asked[j].kind = "chars"
          PROVE  \/ \E k \in 1 .. Len(queue') : queue'[k].kind = "chars"
                 \/ \E k \in 1 .. i - 1 : asked'[k].kind = "chars"
      <4>1. CASE j = 1
        BY <1>4, <3>2, <4>1
      <4>2. CASE j # 1
        <5>1. j - 1 \in 1 .. i - 1 /\ asked'[j - 1] = asked[j]
          BY <1>3, <3>1, <3>2, <4>2
        <5> QED BY <3>2, <5>1
      <4> QED BY <4>1, <4>2
    <3>3. (\E j \in 1 .. Len(queue) : queue[j].kind = "chars") => \E j \in 1 .. Len(queue') : queue'[j].kind = "chars"
      BY <1>4
    <3>4. (i + 1) - 1 = i
      BY <2>3
    <3>5. \/ asked[i + 1].kind = "chars"
          \/ asked[i + 1].kind = "write" /\ pc = "write"
             /\ \/ delegate.kind = "chars"
                \/ \E j \in 1 .. Len(queue) : queue[j].kind = "chars"
                \/ \E j \in 1 .. i : asked[j].kind = "chars"
      BY <1>5, <3>1, <3>4 DEF WritesWait
    <3> QED BY <3>1, <3>2, <3>3, <3>5
  <2> QED BY <1>1, <1>2, <1>5, <2>2, <2>3 DEF WritesWait
<1> QED BY <1>5, MovesLate DEF LateInv, LeftOver

\* A delegate moves an answer on, or drops one nobody has a channel for.
LEMMA DelegateLate ==
  ASSUME LateInv, Delegate
  PROVE  Pended' /\ LeftOver'
<1>1. /\ delegate = NoCall /\ queue # <<>> /\ queue' = Tail(queue)
      /\ UNCHANGED <<connVars, asked, awaits>>
  BY DEF Delegate, TakeConnect, TakeDiscovered, TakeValue, Taken
<1>2. pc' = pc
  BY <1>1 DEF connVars
<1>3. /\ Head(queue) = queue[1] /\ Head(queue) \in Calls
      /\ Len(queue') = Len(queue) - 1 /\ Len(queue) \in Nat \ {0}
      /\ \A i \in 1 .. Len(queue) - 1 : queue'[i] = queue[i + 1]
  BY <1>1, TailFacts DEF LateInv, LinkInv, TypeOK
<1>4. ASSUME late, response, cmd = "send", ~err PROVE WritesWait'
  <2>1. WritesWait /\ pc \in {"choose", "chars", "write"}
    BY <1>4 DEF LateInv, LeftOver
  <2>2. queue[1].kind \in {"connect", "chars"}
    BY <1>1, <1>3, <2>1, KindsOfCalls DEF WritesWait
  <2>3. \/ queue[1].kind = "chars" /\ delegate'.kind = "chars"
        \/ queue[1].kind = "connect" /\ delegate' = NoCall
    <3>1. CASE queue[1].kind = "chars"
      BY <1>3, <3>1 DEF Delegate, TakeConnect, TakeDiscovered, TakeValue, Expected
    <3>2. CASE queue[1].kind = "connect"
      <4>1. ~connectMap
        BY <2>1, KindsOfCalls DEF LateInv, LinkInv, Linking
      <4> QED BY <1>3, <3>2, <4>1 DEF Delegate, TakeConnect, TakeDiscovered, TakeValue, Expected
    <3> QED BY <2>2, <3>1, <3>2
  <2>4. delegate'.kind \in {"none", "chars"}
    BY <2>3, KindsOfCalls
  <2>5. ASSUME NEW k, k \in 1 .. Len(queue), queue[k].kind = "chars"
        PROVE  \/ delegate'.kind = "chars"
               \/ k - 1 \in 1 .. Len(queue') /\ queue'[k - 1].kind = "chars"
    <3>1. CASE k = 1
      BY <2>3, <2>5, <3>1
    <3>2. CASE k # 1
      <4>1. k - 1 \in 1 .. Len(queue') /\ queue'[k - 1] = queue[k]
        BY <1>3, <2>5, <3>2
      <4> QED BY <2>5, <4>1
    <3> QED BY <3>1, <3>2
  <2>6. ASSUME NEW i \in 1 .. Len(queue')
        PROVE  \/ queue'[i].kind \in {"connect", "chars"}
               \/ queue'[i].kind = "write" /\ pc = "write"
                  /\ (delegate'.kind = "chars" \/ \E j \in 1 .. i - 1 : queue'[j].kind = "chars")
    <3>1. i + 1 \in 1 .. Len(queue) /\ queue'[i] = queue[i + 1] /\ (i + 1) - 1 = i
      BY <1>3, <2>6
    <3>2. \/ queue[i + 1].kind \in {"connect", "chars"}
          \/ queue[i + 1].kind = "write" /\ pc = "write" /\ \E j \in 1 .. i : queue[j].kind = "chars"
      BY <1>1, <2>1, <3>1, KindsOfCalls DEF WritesWait
    <3>3. ASSUME NEW j \in 1 .. i, queue[j].kind = "chars"
          PROVE  delegate'.kind = "chars" \/ \E k \in 1 .. i - 1 : queue'[k].kind = "chars"
      <4>1. j \in 1 .. Len(queue)
        BY <1>3, <3>1, <3>3
      <4>2. CASE j = 1
        BY <2>3, <3>3, <4>2
      <4>3. CASE j # 1
        <5>1. j - 1 \in 1 .. i - 1 /\ queue'[j - 1] = queue[j]
          BY <1>3, <3>1, <3>3, <4>1, <4>3
        <5> QED BY <3>3, <5>1
      <4> QED BY <4>2, <4>3
    <3> QED BY <3>1, <3>2, <3>3
  <2>7. ASSUME NEW i \in 1 .. Len(asked')
        PROVE  \/ asked'[i].kind = "chars"
               \/ asked'[i].kind = "write" /\ pc = "write"
                  /\ \/ delegate'.kind = "chars"
                     \/ \E j \in 1 .. Len(queue') : queue'[j].kind = "chars"
                     \/ \E j \in 1 .. i - 1 : asked'[j].kind = "chars"
    BY <1>1, <2>1, <2>5, <2>7, KindsOfCalls DEF WritesWait
  <2> QED BY <1>2, <2>4, <2>6, <2>7 DEF WritesWait
<1> QED BY <1>4, MovesLate

\* Every step of the command leaves the surplus answer where it blocks the writes.
LEMMA MainLate ==
  ASSUME LateInv, Main
  PROVE  Pended' /\ LeftOver'
BY ConnectLate, IdleLate, AskLate, ReturnsLate, TimesOutLate DEF Main

----------------------------------------------------------------------------

\* What the command, its call, the delegates and the link are to each other, in
\* every reachable state.
THEOREM LinkInvHolds == Spec => []LinkInv
<1>1. LinkInv /\ [Next]_vars => LinkInv'
  <2>1. ASSUME LinkInv, UNCHANGED vars PROVE LinkInv'
    <3> USE DEF LinkInv, vars, connVars, darwinVars, cbVars, params, found
    <3>1. TypeOK' /\ Placed' /\ Asked'
      BY <2>1 DEF TypeOK, ConnTypeOK, Placed, Asked
    <3>2. Linking' /\ (OneAnswer => OneAnswer')
      BY <2>1 DEF Linking, NoLinkLeft, OneAnswer, OnlyConnects, Sending
    <3> QED BY <2>1, <3>1, <3>2
  <2> QED BY <2>1, MainInv, LinkChangesInv, AnsweredInv, DelegateInv DEF Next, CoreBluetooth
<1> QED BY <1>1, InitInv, PTL DEF Spec

\* Every variable of a connection on macOS keeps its type.
THEOREM TypeHolds == Spec => []TypeOK
<1>1. LinkInv => TypeOK
  BY DEF LinkInv
<1> QED BY <1>1, LinkInvHolds, PTL

\* adapter_darwin.go, gattc_darwin.go: until a call has timed out, a delegate only
\* sends to the call that waits for it; and to Connect even after that.
THEOREM AnswersMeetCallsHolds == Spec => []AnswersMeetCalls
<1>1. LinkInv => AnswersMeetCalls
  <2> SUFFICES ASSUME LinkInv, delegate # NoCall, ~(late /\ delegate.kind # "connect") PROVE Sends(delegate, awaits)
    BY DEF AnswersMeetCalls
  <2>1. CASE delegate.kind = "connect"
    BY <2>1 DEF LinkInv, Linking, Sends
  <2>2. CASE delegate.kind # "connect"
    BY <2>2, KindsOfCalls DEF LinkInv, OneAnswer, Sending, TypeOK
  <2> QED BY <2>1, <2>2
<1> QED BY <1>1, LinkInvHolds, PTL

\* ble.go, gap_darwin.go: a command that has ended leaves no link behind, and no
\* attempt to make one, whatever failed or timed out.
THEOREM NoLinkLeftHolds == Spec => []NoLinkLeft
<1>1. LinkInv => NoLinkLeft
  BY DEF LinkInv, Linking
<1> QED BY <1>1, LinkInvHolds, PTL

\* Why a timeout is seen: with the invariant above, the answers under way and the
\* calls that wait for them.
THEOREM LateInvHolds == Spec => []LateInv
<1>1. Init => LateInv
  BY InitInv, LateInit DEF LateInv
<1>2. LateInv /\ [Next]_vars => Pended' /\ LeftOver'
  <2>1. ASSUME LateInv, UNCHANGED vars PROVE Pended' /\ LeftOver'
    <3>1. UNCHANGED <<pc, cmd, table, next, sent, err, cb, asked, queue, delegate, awaits, late, response>>
      BY <2>1 DEF vars, connVars, darwinVars, cbVars, params, found
    <3>2. Pended /\ LeftOver
      BY <2>1 DEF LateInv
    <3>3. Pended'
      BY <3>1, <3>2 DEF Pended, Pending, CharsOf
    <3>4. LeftOver'
      BY <3>1, <3>2 DEF LeftOver, WritesWait, OneTooMany, Pending, CharsOf
    <3> QED BY <3>3, <3>4
  <2> QED BY <2>1, MainLate, LinkChangesLate, AnsweredLate, DelegateLate DEF Next, CoreBluetooth
<1>3. LinkInv /\ LinkInv' /\ Pended' /\ LeftOver' => LateInv'
  BY DEF LateInv
<1>4. LateInv => LinkInv
  BY DEF LateInv
<1> QED BY <1>1, <1>2, <1>3, <1>4, LinkInvHolds, PTL DEF Spec

\* gattc_darwin.go, ble.go: a send that waits for responses and met a timeout does
\* not claim success, for any table of services and any number of packets.
THEOREM LateIsReportedHolds == Spec => []LateIsReported
<1>1. LateInv => LateIsReported
  BY DEF LateInv, LeftOver, LateIsReported
<1> QED BY <1>1, LateInvHolds, PTL

----------------------------------------------------------------------------
(* Why OnlyLateIsMissed holds *)

NoDiscovery(s) == \A i \in 1 .. Len(s) : s[i].kind # "chars"

Discovery(s) ==
    /\ \A i \in 1 .. Len(s) : s[i].kind = "chars" => s[i] = awaits
    /\ \A i, j \in 1 .. Len(s) : s[i].kind = "chars" /\ s[j].kind = "chars" => i = j

\* Until a discovery of characteristics fails, there is at most one answer to one
\* under way, and it is the one that is waited for.
OneDiscovery ==
    /\ Discovery(asked) /\ Discovery(queue)
    /\ delegate.kind = "chars" => delegate = awaits /\ NoDiscovery(queue)
    /\ NoDiscovery(asked) \/ (NoDiscovery(queue) /\ delegate.kind # "chars")

\* What CoreBluetooth has answered about, it knows or has refused.
Told ==
    /\ \A i \in 1 .. Len(queue) : queue[i].kind = "chars" => queue[i].of[1] \in known \cup refused
    /\ delegate.kind = "chars" => delegate.of[1] \in known \cup refused

Serves(i) == table[i].uuid \notin Generic /\ RX \in table[i].chars
Dumped(i) == \A c \in table[i].chars : <<i, c>> \in shown

\* What resolve and Dump have left behind them.
Passed ==
    /\ pc # "done" => failed \subseteq 1 .. next - 1
    /\ pc \in {"find", "connect", "pause", "services", "resolve"} => next = 1
    /\ pc \in {"choose", "chars"} /\ cmd # "dump" /\ ~Explicit =>
           \A i \in 1 .. next - 1 : Missed(i) \/ ~Serves(i)
    /\ pc \in {"choose", "chars", "read"} /\ cmd = "dump" => \A i \in 1 .. next - 1 : Missed(i) \/ Dumped(i)
    /\ pc = "read" =>
           Missed(next) \/ \A c \in table[next].chars : c \in unread \/ <<next, c>> \in shown
    /\ pc \in {"close", "done"} /\ cmd = "dump" /\ ~err =>
           \A i \in 1 .. Len(table) : Missed(i) \/ Dumped(i)
    /\ OnlyLateIsMissed

AnswerInv == Told /\ (failed = {} => OneDiscovery)

\* Before a command begins nothing is answered, nor passed over.
LEMMA MissInit == Init => AnswerInv /\ Passed
<1> SUFFICES ASSUME Init PROVE AnswerInv /\ Passed
  OBVIOUS
<1> USE DEF Init, ConnInit
<1>1. Len(asked) = 0 /\ Len(queue) = 0 /\ delegate.kind = "none"
  BY KindsOfCalls
<1>2. AnswerInv
  BY <1>1 DEF AnswerInv, Told, OneDiscovery, Discovery, NoDiscovery
<1>3. Passed
  BY DEF Passed, OnlyLateIsMissed, Resolved
<1> QED BY <1>2, <1>3

\* When no discovery is waited for, none is under way.
LEMMA NothingWaits ==
  ASSUME OneDiscovery, awaits.kind # "chars"
  PROVE  NoDiscovery(asked) /\ NoDiscovery(queue) /\ delegate.kind # "chars"
BY DEF OneDiscovery, Discovery, NoDiscovery

\* A step that neither asks nor answers keeps what the answers say.
LEMMA QuietAnswers ==
  ASSUME AnswerInv, failed \subseteq failed', UNCHANGED <<asked, queue, known, refused>>,
         delegate' \in {delegate, NoCall},
         failed' = {} =>
             \/ awaits' = awaits
             \/ NoDiscovery(asked) /\ NoDiscovery(queue) /\ delegate'.kind # "chars"
  PROVE  AnswerInv'
<1>1. delegate'.kind = "chars" => delegate' = delegate
  BY KindsOfCalls
<1>2. Told'
  BY <1>1 DEF AnswerInv, Told
<1>3. ASSUME failed' = {} PROVE OneDiscovery'
  <2>1. OneDiscovery
    BY <1>3 DEF AnswerInv
  <2>2. CASE awaits' = awaits
    BY <1>1, <2>1, <2>2 DEF OneDiscovery, Discovery, NoDiscovery
  <2>3. CASE NoDiscovery(asked) /\ NoDiscovery(queue) /\ delegate'.kind # "chars"
    BY <2>3 DEF OneDiscovery, Discovery, NoDiscovery
  <2> QED BY <1>3, <2>2, <2>3
<1> QED BY <1>2, <1>3 DEF AnswerInv

\* A request made says nothing yet.
LEMMA AskAnswers ==
  ASSUME LateInv, AnswerInv, AskGatt
  PROVE  AnswerInv'
<1>1. PICK call \in Calls : Ask(call)
  <2>1. asked \in Seq(Calls)
    BY DEF LateInv, LinkInv, TypeOK
  <2>2. next \in Nat /\ sent \in Nat /\ unread \subseteq UUIDs
    BY TablesHaveLengths, ConnAssumption DEF LateInv, LinkInv, TypeOK, ConnTypeOK
  <2>3. CASE pc = "services" /\ dev = "real" /\ Ask([kind |-> "services", of |-> <<>>])
    BY <2>3 DEF Calls
  <2>4. CASE pc = "chars" /\ Ask([kind |-> "chars", of |-> <<next>>])
    <3>1. <<next>> \in Seq(Nat)
      BY <2>2
    <3> QED BY <2>4, <3>1 DEF Calls
  <2>5. ASSUME NEW c \in unread, Ask([kind |-> "read", of |-> <<next, c>>])
        PROVE  \E call \in Calls : Ask(call)
    <3>1. <<next, c>> \in Nat \X UUIDs
      BY <2>2
    <3> QED BY <2>5, <3>1 DEF Calls
  <2>6. CASE MorePackets /\ response /\ Ask([kind |-> "write", of |-> <<sent>>])
    <3>1. <<sent>> \in Seq(Nat)
      BY <2>2
    <3> QED BY <2>6, <3>1 DEF Calls
  <2> QED BY <2>3, <2>4, <2>5, <2>6 DEF AskGatt
<1>2. /\ awaits = NoCall /\ awaits' = call
      /\ asked' = (IF cb = "connected" THEN Append(asked, call) ELSE asked)
      /\ UNCHANGED <<failed, queue, known, refused, delegate>>
  BY <1>1 DEF Ask, connVars, found
<1>3. Told'
  BY <1>2 DEF AnswerInv, Told
<1>4. ASSUME failed = {} PROVE OneDiscovery'
  <2>1. NoDiscovery(asked) /\ NoDiscovery(queue) /\ delegate.kind # "chars"
    BY <1>2, <1>4, NothingWaits, KindsOfCalls DEF AnswerInv
  <2>2. /\ Len(asked) \in Nat
        /\ \A i \in 1 .. Len(asked') :
               (i \in 1 .. Len(asked) /\ asked'[i] = asked[i]) \/ (i = Len(asked) + 1 /\ asked'[i] = call)
    <3>1. asked \in Seq(Calls)
      BY DEF LateInv, LinkInv, TypeOK
    <3>2. CASE cb = "connected"
      <4>1. asked' = Append(asked, call)
        BY <1>2, <3>2
      <4> QED BY <3>1, <4>1, AppendFacts
    <3>3. CASE cb # "connected"
      BY <1>2, <3>1, <3>3
    <3> QED BY <3>2, <3>3
  <2>3. Discovery(asked)'
    BY <1>2, <2>1, <2>2 DEF Discovery, NoDiscovery
  <2>4. Discovery(queue)' /\ NoDiscovery(queue)' /\ delegate'.kind # "chars"
    BY <1>2, <2>1 DEF Discovery, NoDiscovery
  <2> QED BY <2>3, <2>4 DEF OneDiscovery
<1> QED BY <1>2, <1>3, <1>4 DEF AnswerInv

\* No step of the command changes what an answer says.
LEMMA MainAnswers ==
  ASSUME LateInv, AnswerInv, Main
  PROVE  AnswerInv'
<1> DEFINE Idle == NoDiscovery(asked) /\ NoDiscovery(queue) /\ delegate.kind # "chars"
<1>0. failed = {} /\ awaits.kind # "chars" => Idle
  BY NothingWaits DEF AnswerInv
<1>1. CASE NoPeripheral \/ AskConnect \/ ConnectTimesOut \/ ConnectReturns \/ UseNil
  <2>1. /\ UNCHANGED <<failed, asked, queue, known, refused>> /\ delegate' \in {delegate, NoCall}
        /\ (awaits' = awaits \/ pc = "connect")
    BY <1>1 DEF NoPeripheral, ConnectFails, AskConnect, ConnectTimesOut, ConnectReturns, UseNil, Connected,
       Goto, darwinVars, cbVars, connVars, found
  <2>2. pc = "connect" => awaits.kind # "chars"
    BY KindsOfCalls DEF LateInv, LinkInv, Linking
  <2>3. NoCall.kind # "chars"
    BY KindsOfCalls
  <2> QED BY <1>0, <2>1, <2>2, <2>3, QuietAnswers
<1>2. CASE Alone \/ WriteCommand
  <2>1. UNCHANGED <<failed, asked, queue, known, refused, delegate, awaits>>
    BY <1>2 DEF Alone, Found, NotFound, Wake, OptionsRefused, OptionsAccepted, SkipService, AskChars,
       NoServiceLeft, AllRead, AllSent, CloseConn, WriteCommand, Written, WriteFails, darwinVars, cbVars, found
  <2> QED BY <2>1, QuietAnswers
<1>3. CASE ServicesReturn \/ CharsReturn \/ ReadReturns \/ WriteReturns
  <2>1. PICK kind : awaits.kind = kind /\ delegate.kind = kind
    BY <1>3 DEF ServicesReturn, CharsReturn, ReadReturns, WriteReturns, Received
  <2>2. UNCHANGED <<failed, asked, queue, known, refused>> /\ delegate' = NoCall
    BY <1>3 DEF ServicesReturn, CharsReturn, ReadReturns, WriteReturns, Received, Services, NoServices, Chars,
       DumpChars, UseService, PassService, Read, Written, WriteFails, found
  <2>3. failed = {} => NoDiscovery(asked) /\ NoDiscovery(queue)
    BY <1>0, <2>1 DEF AnswerInv, OneDiscovery
  <2> QED BY <2>2, <2>3, QuietAnswers, KindsOfCalls
<1>4. CASE TimesOut
  <2>1. UNCHANGED <<asked, queue, known, refused, delegate>> /\ failed \subseteq failed'
    BY <1>4 DEF TimesOut, ServicesFail, CharsFail, Read, WriteFails, found
  <2>2. failed' = {} => failed = {} /\ awaits.kind # "chars"
    BY <1>4 DEF TimesOut, CharsFail, ServicesFail, Read, WriteFails, found
  <2> QED BY <1>0, <2>1, <2>2, QuietAnswers
<1> QED BY <1>1, <1>2, <1>3, <1>4, AskAnswers DEF Main

\* Nor does the link.
LEMMA LinkChangesAnswers ==
  ASSUME LateInv, AnswerInv, LinkUp \/ LinkLost \/ Cancelled
  PROVE  AnswerInv'
<1>1. /\ queue' = Append(queue, ConnectEvent) /\ asked' = <<>>
      /\ UNCHANGED <<failed, known, refused, delegate, awaits>>
  BY DEF LinkUp, LinkLost, Cancelled, LinkChanges, connVars, found
<1>2. queue \in Seq(Calls)
  BY DEF LateInv, LinkInv, TypeOK
<1>3. /\ Len(queue) \in Nat
      /\ \A i \in 1 .. Len(queue') :
             queue'[i].kind = "chars" => i \in 1 .. Len(queue) /\ queue'[i] = queue[i]
  BY <1>1, <1>2, AppendFacts, KindsOfCalls
<1>4. Told'
  BY <1>1, <1>3 DEF AnswerInv, Told
<1>5. Len(asked') = 0
  BY <1>1
<1>6. OneDiscovery => OneDiscovery'
  BY <1>1, <1>3, <1>5 DEF OneDiscovery, Discovery, NoDiscovery
<1> QED BY <1>1, <1>4, <1>6 DEF AnswerInv

\* An answer says what the table says, or nothing when the request is refused.
LEMMA AnsweredAnswers ==
  ASSUME LateInv, AnswerInv, Answers \/ Refuses
  PROVE  AnswerInv'
<1>1. /\ asked # <<>> /\ asked' = Tail(asked) /\ queue' = Append(queue, Head(asked))
      /\ UNCHANGED <<failed, delegate, awaits>>
      /\ known \subseteq known' /\ refused \subseteq refused'
      /\ (Head(asked).kind = "chars" => Head(asked).of[1] \in known' \cup refused')
  BY DEF Answers, Refuses, Answered, connVars, found
<1>2. asked \in Seq(Calls) /\ queue \in Seq(Calls)
  BY DEF LateInv, LinkInv, TypeOK
<1>3. /\ Head(asked) = asked[1] /\ Head(asked) \in Calls /\ Len(asked) \in Nat \ {0}
      /\ Len(asked') = Len(asked) - 1
      /\ \A i \in 1 .. Len(asked') : asked'[i] = asked[i + 1] /\ i + 1 \in 1 .. Len(asked) /\ i + 1 # 1
  BY <1>1, <1>2, TailFacts
<1>4. /\ Len(queue) \in Nat /\ Len(queue') = Len(queue) + 1
      /\ \A i \in 1 .. Len(queue) : queue'[i] = queue[i]
      /\ queue'[Len(queue) + 1] = asked[1]
  BY <1>1, <1>2, <1>3, AppendFacts
<1>5. \A i \in 1 .. Len(queue') :
          (i \in 1 .. Len(queue) /\ queue'[i] = queue[i]) \/ (i = Len(queue) + 1 /\ queue'[i] = asked[1])
  BY <1>4
<1>6. Told'
  BY <1>1, <1>3, <1>5 DEF AnswerInv, Told
<1>7. ASSUME OneDiscovery PROVE OneDiscovery'
  <2>1. Discovery(asked)'
    BY <1>1, <1>3, <1>7 DEF OneDiscovery, Discovery
  <2>2. CASE asked[1].kind = "chars"
    <3>1. NoDiscovery(queue) /\ delegate.kind # "chars" /\ asked[1] = awaits
      BY <1>3, <1>7, <2>2 DEF OneDiscovery, Discovery, NoDiscovery
    <3>2. NoDiscovery(asked)'
      BY <1>3, <1>7, <2>2 DEF OneDiscovery, Discovery, NoDiscovery
    <3>3. Discovery(queue)'
      BY <1>1, <1>5, <3>1 DEF Discovery, NoDiscovery
    <3> QED BY <1>1, <2>1, <3>1, <3>2, <3>3 DEF OneDiscovery
  <2>3. CASE asked[1].kind # "chars"
    <3>1. Discovery(queue)' /\ (NoDiscovery(queue) => NoDiscovery(queue)')
      BY <1>1, <1>5, <1>7, <2>3 DEF OneDiscovery, Discovery, NoDiscovery
    <3>2. NoDiscovery(asked) => NoDiscovery(asked)'
      BY <1>3 DEF NoDiscovery
    <3> QED BY <1>1, <1>7, <2>1, <3>1, <3>2 DEF OneDiscovery
  <2> QED BY <2>2, <2>3
<1> QED BY <1>1, <1>6, <1>7 DEF AnswerInv

\* A delegate hands on what it was told.
LEMMA DelegateAnswers ==
  ASSUME LateInv, AnswerInv, Delegate
  PROVE  AnswerInv'
<1>1. /\ delegate = NoCall /\ queue # <<>> /\ queue' = Tail(queue)
      /\ UNCHANGED <<failed, asked, awaits, known, refused>>
  BY DEF Delegate, TakeConnect, TakeDiscovered, TakeValue, Taken, connVars, found
<1>2. delegate'.kind = "chars" => delegate' = Head(queue)
  <2>1. CASE TakeConnect
    BY <2>1, KindsOfCalls DEF TakeConnect
  <2>2. CASE TakeDiscovered
    BY <2>2 DEF TakeDiscovered
  <2>3. CASE TakeValue
    BY <2>3, KindsOfCalls DEF TakeValue, Expected
  <2> QED BY <2>1, <2>2, <2>3 DEF Delegate
<1>3. queue \in Seq(Calls)
  BY DEF LateInv, LinkInv, TypeOK
<1>4. /\ Head(queue) = queue[1] /\ Len(queue) \in Nat \ {0} /\ Len(queue') = Len(queue) - 1
      /\ \A i \in 1 .. Len(queue') : queue'[i] = queue[i + 1] /\ i + 1 \in 1 .. Len(queue) /\ i + 1 # 1
  BY <1>1, <1>3, TailFacts
<1>5. Told'
  BY <1>1, <1>2, <1>4 DEF AnswerInv, Told
<1>6. ASSUME OneDiscovery PROVE OneDiscovery'
  <2>1. Discovery(queue)' /\ (NoDiscovery(queue) => NoDiscovery(queue)')
    BY <1>1, <1>4, <1>6 DEF OneDiscovery, Discovery, NoDiscovery
  <2>2. Discovery(asked)' /\ (NoDiscovery(asked) => NoDiscovery(asked)')
    BY <1>1, <1>6 DEF OneDiscovery, Discovery, NoDiscovery
  <2>3. delegate'.kind = "chars" => queue[1].kind = "chars" /\ delegate' = awaits' /\ NoDiscovery(queue)'
    BY <1>1, <1>2, <1>4, <1>6 DEF OneDiscovery, Discovery, NoDiscovery
  <2>4. NoDiscovery(queue) => queue[1].kind # "chars"
    BY <1>4 DEF NoDiscovery
  <2> QED BY <1>1, <1>6, <2>1, <2>2, <2>3, <2>4 DEF OneDiscovery
<1> QED BY <1>1, <1>5, <1>6 DEF AnswerInv

\* What resolve has chosen and Dump has finished stays right.
LEMMA OnlyLateKept ==
  ASSUME OnlyLateIsMissed, UNCHANGED <<params, using>>, failed \subseteq failed', refused \subseteq refused',
         shown \subseteq shown',
         cmd = "dump" /\ pc' = "done" /\ ~err' =>
             \/ pc = "done" /\ ~err
             \/ \A i \in 1 .. Len(table) : Missed(i) \/ Dumped(i)
  PROVE  OnlyLateIsMissed'
<1>1. \A i : Missed(i) => Missed(i)'
  BY DEF Missed
<1>2. Explicit' = Explicit /\ Resolved' = Resolved /\ UNCHANGED <<cmd, table, using>>
  BY DEF Explicit, Given, Resolved, params
<1>3. Resolved' /\ ~Explicit' =>
          \A i \in 1 .. using'.service - 1 :
              Missed(i)' \/ table'[i].uuid \in Generic \/ RX \notin table'[i].chars
  BY <1>1, <1>2 DEF OnlyLateIsMissed
<1>4. ASSUME cmd = "dump", pc' = "done", ~err', NEW i \in 1 .. Len(table)
      PROVE  Missed(i)' \/ \A c \in table[i].chars : <<i, c>> \in shown'
  <2>1. CASE pc = "done" /\ ~err
    <3>1. Missed(i) \/ \A c \in table[i].chars : <<i, c>> \in shown
      BY <1>4, <2>1 DEF OnlyLateIsMissed
    <3> QED BY <1>1, <3>1
  <2>2. CASE \A j \in 1 .. Len(table) : Missed(j) \/ Dumped(j)
    <3>1. Missed(i) \/ Dumped(i)
      BY <2>2
    <3> QED BY <1>1, <3>1 DEF Dumped
  <2> QED BY <1>4, <2>1, <2>2
<1> QED BY <1>2, <1>3, <1>4 DEF OnlyLateIsMissed

\* Steps that leave the loops where they are, or are outside them.
Aside ==
    \/ pc' = pc /\ err' = err
    \/ pc' \in {"write", "subscribe", "panicked"}
    \/ pc' \in {"close", "done"} /\ (err' = TRUE \/ cmd # "dump" \/ (pc = "close" /\ err' = err))
    \/ /\ pc \in {"find", "connect", "pause", "services", "resolve"}
       /\ pc' \in {"connect", "pause", "services", "resolve", "choose"}
    \/ pc = "choose" /\ pc' = "chars"

\* A step aside of the loops keeps what they have passed over.
LEMMA PassedKept ==
  ASSUME Passed, UNCHANGED <<params, next, using, failed, shown, unread>>, refused \subseteq refused', Aside,
         pc = "done" => pc' = "done"
  PROVE  Passed'
<1>0. UNCHANGED <<cmd, table>> /\ Explicit' = Explicit
  BY DEF params, Explicit, Given
<1>1. /\ \A i : Missed(i) \/ ~Serves(i) => Missed(i)' \/ ~Serves(i)'
      /\ \A i : Missed(i) \/ Dumped(i) => Missed(i)' \/ Dumped(i)'
      /\ \A i : Missed(i) => Missed(i)'
  BY <1>0 DEF Missed, Serves, Dumped
<1>2. pc \in {"find", "connect", "pause", "services", "resolve"} => next = 1 /\ 1 .. next - 1 = {}
  BY DEF Passed
<1>3. OnlyLateIsMissed'
  BY OnlyLateKept DEF Passed, Aside
<1>4. pc' # "done" => failed' \subseteq 1 .. next' - 1
  BY DEF Passed, Aside
<1>5. pc' \in {"find", "connect", "pause", "services", "resolve"} => next' = 1
  BY DEF Passed, Aside
<1>6. pc' \in {"choose", "chars"} /\ cmd' # "dump" /\ ~Explicit' =>
           \A i \in 1 .. next' - 1 : Missed(i)' \/ ~Serves(i)'
  BY <1>0, <1>1, <1>2 DEF Passed, Aside
<1>7. pc' \in {"choose", "chars", "read"} /\ cmd' = "dump" => \A i \in 1 .. next' - 1 : Missed(i)' \/ Dumped(i)'
  BY <1>0, <1>1, <1>2 DEF Passed, Aside
<1>8. pc' = "read" =>
           Missed(next)' \/ \A c \in table'[next'].chars : c \in unread' \/ <<next', c>> \in shown'
  <2>1. pc' = "read" => pc = "read"
    BY DEF Aside
  <2>2. Missed(next) => Missed(next)'
    BY DEF Missed
  <2> QED BY <1>0, <2>1, <2>2 DEF Passed
<1>9. pc' \in {"close", "done"} /\ cmd' = "dump" /\ ~err' =>
           \A i \in 1 .. Len(table') : Missed(i)' \/ Dumped(i)'
  BY <1>0, <1>1 DEF Passed, Aside
<1> QED BY <1>3, <1>4, <1>5, <1>6, <1>7, <1>8, <1>9 DEF Passed

\* Steps that end the visit of a service and go on to the next, or give up.
LEMMA PassedNext ==
  ASSUME LateInv, Passed, NEW n, n = next, pc \in {"choose", "chars", "read"}, next' = next + 1, pc' = "choose",
         UNCHANGED <<params, using, refused, shown>>, failed \subseteq failed', failed' \subseteq failed \cup {next},
         cmd # "dump" /\ ~Explicit => Missed(n)' \/ ~Serves(n),
         cmd = "dump" => Missed(n)' \/ Dumped(n)
  PROVE  Passed'
<1>0. UNCHANGED <<cmd, table>> /\ Explicit' = Explicit
  BY DEF params, Explicit, Given
<1>1. next \in Nat /\ next >= 1
  BY TablesHaveLengths DEF LateInv, LinkInv, TypeOK
<1>2. \A i \in 1 .. next' - 1 : i \in 1 .. next - 1 \/ i = next
  BY <1>1
<1>3. \A i : Missed(i) => Missed(i)'
  BY DEF Missed
<1>4. OnlyLateIsMissed'
  BY OnlyLateKept DEF Passed
<1>5. failed' \subseteq 1 .. next' - 1
  BY <1>1 DEF Passed
<1>6. ASSUME cmd # "dump", ~Explicit, NEW i \in 1 .. next' - 1 PROVE Missed(i)' \/ ~Serves(i)'
  <2>1. pc # "read"
    BY <1>6 DEF LateInv, LinkInv, Placed
  <2>2. CASE i = next
    BY <1>0, <1>6, <2>2 DEF Serves, Missed
  <2>3. CASE i \in 1 .. next - 1
    <3>1. Missed(i) \/ ~Serves(i)
      BY <1>6, <2>1, <2>3 DEF Passed
    <3> QED BY <1>0, <1>3, <3>1 DEF Serves
  <2> QED BY <1>2, <1>6, <2>2, <2>3
<1>7. ASSUME cmd = "dump", NEW i \in 1 .. next' - 1 PROVE Missed(i)' \/ Dumped(i)'
  <2>1. CASE i = next
    BY <1>0, <1>7, <2>1 DEF Dumped, Missed
  <2>2. CASE i \in 1 .. next - 1
    <3>1. Missed(i) \/ Dumped(i)
      BY <1>7, <2>2 DEF Passed
    <3> QED BY <1>0, <1>3, <3>1 DEF Dumped
  <2> QED BY <1>2, <1>7, <2>1, <2>2
<1> QED BY <1>0, <1>4, <1>5, <1>6, <1>7 DEF Passed

\* A discovery that returns has the characteristics there are, or is missed.
LEMMA CharsReturned ==
  ASSUME LateInv, AnswerInv, Passed, CharsReturn
  PROVE  services = table /\ next \in 1 .. Len(table) /\ (next \in known \/ Missed(next))
<1>1. pc = "chars" /\ services = table
  BY DEF CharsReturn, Chars, DumpChars, UseService, PassService, LateInv, LinkInv, Placed
<1>0. next \in 1 .. Len(table)
  BY <1>1, TablesHaveLengths DEF LateInv, LinkInv, TypeOK, Placed
<1>2. awaits = CharsOf(next) /\ delegate.kind = "chars"
  BY DEF CharsReturn, Received, LateInv, Pended
<1>3. ASSUME next \notin known PROVE Missed(next)
  <2>1. CASE failed = {}
    <3>1. delegate = awaits
      BY <1>2, <2>1 DEF AnswerInv, OneDiscovery
    <3>2. delegate.of[1] = next
      BY <1>2, <3>1 DEF CharsOf
    <3>3. next \in refused
      BY <1>2, <1>3, <3>2 DEF AnswerInv, Told
    <3> QED BY <3>3 DEF Missed
  <2>2. CASE failed # {}
    <3>1. PICK j \in failed : j \in 1 .. next - 1
      BY <1>1, <2>2 DEF Passed
    <3>2. next \in Nat
      BY TablesHaveLengths DEF LateInv, LinkInv, TypeOK
    <3> QED BY <3>1, <3>2 DEF Missed
  <2> QED BY <2>1, <2>2
<1> QED BY <1>0, <1>1, <1>3

\* A service is passed over for what its answer says, or for want of an answer.
LEMMA CharsPassed ==
  ASSUME LateInv, Passed, UNCHANGED refused, NEW chars, Chars(chars), next \in 1 .. Len(table),
         chars = table[next].chars \/ (chars = {} /\ Missed(next))
  PROVE  Passed'
<1>0. UNCHANGED params /\ UNCHANGED <<cmd, table, failed, shown>> /\ Explicit' = Explicit /\ pc = "chars"
  BY DEF Chars, DumpChars, UseService, PassService, params, Explicit, Given
<1>1. \A i : Missed(i) => Missed(i)'
  BY <1>0 DEF Missed
<1>2. CASE DumpChars(chars)
  <2>1. UNCHANGED <<next, using>> /\ pc' = "read" /\ unread' = chars /\ cmd = "dump"
    BY <1>2 DEF DumpChars
  <2>2. OnlyLateIsMissed'
    BY <1>0, <2>1, OnlyLateKept DEF Passed
  <2>3. \A i \in 1 .. next - 1 : Missed(i)' \/ Dumped(i)'
    BY <1>0, <2>1 DEF Passed, Missed, Dumped
  <2>4. Missed(next)' \/ \A c \in table[next].chars : c \in unread'
    BY <1>1, <2>1
  <2> QED BY <1>0, <2>1, <2>2, <2>3, <2>4 DEF Passed
<1>3. CASE UseService(chars)
  <2>1. /\ next' = next /\ pc' \in {"write", "subscribe"} /\ using'.service = next /\ cmd # "dump"
    BY <1>3 DEF UseService, Use
  <2>2. ~Explicit => \A i \in 1 .. next - 1 : Missed(i)' \/ ~Serves(i)
    BY <1>0, <2>1 DEF Passed, Missed
  <2>3. OnlyLateIsMissed'
    BY <1>0, <2>1, <2>2 DEF OnlyLateIsMissed, Serves
  <2>4. failed' \subseteq 1 .. next' - 1
    BY <1>0, <2>1 DEF Passed
  <2> QED BY <2>1, <2>3, <2>4 DEF Passed
<1>4. CASE PassService(chars)
  <2>1. CASE Explicit
    <3>1. UNCHANGED <<next, using, unread>> /\ pc' = "done" /\ err' = TRUE
      BY <1>4, <2>1 DEF PassService, Abandon, Fail
    <3> QED BY <1>0, <3>1, PassedKept DEF Aside
  <2>2. CASE ~Explicit
    <3>1. next' = next + 1 /\ pc' = "choose" /\ using' = using /\ cmd # "dump" /\ RX \notin chars
      BY <1>4, <2>2 DEF PassService, NextService, WriteChar
    <3>2. PICK n : n = next
      OBVIOUS
    <3>3. Missed(n)' \/ ~Serves(n)
      BY <1>1, <3>1, <3>2 DEF Serves
    <3> QED BY <1>0, <3>1, <3>2, <3>3, PassedNext
  <2> QED BY <2>1, <2>2
<1> QED BY <1>2, <1>3, <1>4 DEF Chars

\* A characteristic that is read is shown.
LEMMA ReadPassed ==
  ASSUME LateInv, Passed, UNCHANGED refused, NEW c \in unread, Read(c)
  PROVE  Passed'
<1>0. /\ UNCHANGED params /\ UNCHANGED <<cmd, table, next, using, failed, pc, err>> /\ Explicit' = Explicit
      /\ pc = "read" /\ unread' = unread \ {c} /\ shown' = shown \cup {<<next, c>>}
  BY DEF Read, params, Explicit, Given
<1>1. \A i : Missed(i) => Missed(i)'
  BY <1>0 DEF Missed
<1>2. \A i : Dumped(i) => Dumped(i)'
  BY <1>0 DEF Dumped
<1>3. OnlyLateIsMissed'
  BY <1>0, OnlyLateKept DEF Passed
<1>4. Missed(next)' \/ \A d \in table[next].chars : d \in unread' \/ <<next, d>> \in shown'
  BY <1>0, <1>1 DEF Passed
<1>5. cmd = "dump" => \A i \in 1 .. next - 1 : Missed(i)' \/ Dumped(i)'
  BY <1>0, <1>1, <1>2 DEF Passed
<1> QED BY <1>0, <1>3, <1>4, <1>5 DEF Passed

\* The other steps of the loops pass over nothing that would have served.
LEMMA LoopsPassed ==
  ASSUME LateInv, Passed, UNCHANGED refused, SkipService \/ AskChars \/ NoServiceLeft \/ CharsFail \/ AllRead
  PROVE  Passed'
<1>0. UNCHANGED params /\ UNCHANGED <<cmd, table>> /\ services = table /\ pc \in {"choose", "chars", "read"}
  BY DEF SkipService, AskChars, NoServiceLeft, CharsFail, AllRead, params, LateInv, LinkInv, Placed
<1>1. PICK n : n = next
  OBVIOUS
<1>2. CASE SkipService
  <2>1. /\ next' = next + 1 /\ pc' = "choose" /\ UNCHANGED <<failed, using, shown, unread>> /\ ~Visits(table[next])
    BY <1>0, <1>2 DEF SkipService, NextService
  <2>2. cmd # "dump" /\ (~Explicit => table[next].uuid \in Generic)
    BY <2>1 DEF Visits
  <2> QED BY <1>0, <1>1, <2>1, <2>2, PassedNext DEF Serves
<1>3. CASE AskChars
  <2>1. UNCHANGED <<next, using, failed, shown, unread>> /\ Aside /\ pc # "done"
    BY <1>3 DEF AskChars, found, Aside
  <2> QED BY <1>0, <2>1, PassedKept
<1>4. CASE NoServiceLeft
  <2>0. UNCHANGED <<next, using, failed, shown, unread>> /\ pc = "choose" /\ next > Len(table)
    BY <1>0, <1>4 DEF NoServiceLeft, found
  <2>1. CASE cmd # "dump"
    <3>1. pc' = "done" /\ err' = TRUE
      BY <1>4, <2>1 DEF NoServiceLeft, Abandon, Fail
    <3> QED BY <1>0, <2>0, <3>1, PassedKept DEF Aside
  <2>2. CASE cmd = "dump"
    <3>1. pc' = "close" /\ failed' \subseteq 1 .. next' - 1
      BY <1>4, <2>0, <2>2 DEF NoServiceLeft, Passed
    <3>2. next - 1 = Len(table)
      BY <2>0, TablesHaveLengths DEF LateInv, LinkInv, TypeOK
    <3>3. \A i \in 1 .. Len(table) : Missed(i) \/ Dumped(i)
      BY <2>0, <2>2, <3>2 DEF Passed
    <3>4. \A i \in 1 .. Len(table) : Missed(i)' \/ Dumped(i)'
      BY <1>0, <2>0, <3>3 DEF Missed, Dumped
    <3>5. OnlyLateIsMissed'
      BY <1>0, <2>0, <3>1, OnlyLateKept DEF Passed
    <3> QED BY <1>0, <3>1, <3>4, <3>5 DEF Passed
  <2> QED BY <2>1, <2>2
<1>5. CASE CharsFail
  <2>0. failed' = failed \cup {next} /\ UNCHANGED <<using, shown, unread>> /\ pc = "chars"
    BY <1>5 DEF CharsFail
  <2>1. CASE cmd # "dump" /\ Explicit
    <3>1. pc' = "done" /\ err' = TRUE /\ next' = next
      BY <1>5, <2>1 DEF CharsFail, Abandon, Fail
    <3>2. OnlyLateIsMissed'
      BY <1>0, <2>0, <2>1, <3>1, OnlyLateKept DEF Passed
    <3> QED BY <2>1, <3>1, <3>2, <1>0 DEF Passed
  <2>2. CASE ~(cmd # "dump" /\ Explicit)
    <3>1. next' = next + 1 /\ pc' = "choose"
      BY <1>5, <2>2 DEF CharsFail, NextService
    <3>2. Missed(n)'
      BY <1>1, <2>0 DEF Missed
    <3> QED BY <1>0, <1>1, <2>0, <3>1, <3>2, PassedNext
  <2> QED BY <2>1, <2>2
<1>6. CASE AllRead
  <2>1. /\ next' = next + 1 /\ pc' = "choose" /\ UNCHANGED <<failed, using, shown>> /\ pc = "read" /\ unread = {}
    BY <1>6 DEF AllRead, NextService
  <2>2. cmd = "dump" /\ (Missed(next) \/ Dumped(next))
    BY <2>1 DEF Passed, Dumped, LateInv, LinkInv, Placed
  <2>3. Missed(n)' \/ Dumped(n)
    BY <1>1, <2>1, <2>2 DEF Missed
  <2> QED BY <1>0, <1>1, <2>1, <2>2, <2>3, PassedNext
<1> QED BY <1>2, <1>3, <1>4, <1>5, <1>6

\* Every step of the command keeps what the loops have passed over.
LEMMA MainPassed ==
  ASSUME LateInv, AnswerInv, Passed, Main
  PROVE  Passed'
<1>1. refused' = refused
  BY DEF Main, NoPeripheral, AskConnect, ConnectTimesOut, ConnectReturns, Alone, UseNil, AskGatt, Ask,
     ServicesReturn, CharsReturn, ReadReturns, WriteReturns, Received, WriteCommand, TimesOut, darwinVars, cbVars
<1>2. CASE CharsReturn
  <2> DEFINE chars == IF next \in known THEN services[next].chars ELSE {}
  <2>1. next \in 1 .. Len(table) /\ (chars = table[next].chars \/ (chars = {} /\ Missed(next)))
    BY <1>2, CharsReturned
  <2>2. Chars(chars)
    BY <1>2 DEF CharsReturn
  <2> HIDE DEF chars
  <2> QED BY <1>1, <2>1, <2>2, CharsPassed
<1>3. CASE SkipService \/ AskChars \/ NoServiceLeft \/ CharsFail \/ AllRead
  BY <1>1, <1>3, LoopsPassed
<1>4. CASE \E c \in unread : Read(c)
  BY <1>1, <1>4, ReadPassed
<1>5. ASSUME Found \/ NotFound \/ Wake \/ ServicesFail \/ NoServices \/ Services \/ OptionsRefused \/ OptionsAccepted
             \/ Written \/ WriteFails \/ AllSent \/ CloseConn
      PROVE  Passed'
  <2>1. /\ UNCHANGED <<params, next, using, failed, shown, unread>> /\ pc # "done"
        /\ \/ pc' = pc /\ err' = err
           \/ pc' \in {"close", "done"} /\ (err' = TRUE \/ cmd # "dump" \/ (pc = "close" /\ err' = err))
           \/ /\ pc \in {"find", "connect", "pause", "services", "resolve"}
              /\ pc' \in {"connect", "pause", "services", "resolve", "choose"}
    BY <1>5 DEF Found, NotFound, Wake, ServicesFail, NoServices, Services, OptionsRefused, OptionsAccepted,
       Written, WriteFails, AllSent, CloseConn, MorePackets, Fail, Abandon, found
  <2> QED BY <1>1, <2>1, PassedKept DEF Aside
<1>6. CASE NoPeripheral \/ AskConnect \/ ConnectTimesOut \/ ConnectReturns \/ UseNil \/ AskGatt
  <2>1. /\ UNCHANGED <<params, next, using, failed, shown, unread>> /\ pc # "done"
        /\ \/ pc' = pc /\ err' = err
           \/ pc' = "panicked"
           \/ pc' = "done" /\ err' = TRUE
           \/ pc = "connect" /\ pc' = "pause"
    BY <1>6 DEF NoPeripheral, AskConnect, ConnectTimesOut, ConnectReturns, UseNil, AskGatt, Ask, MorePackets,
       Connected, ConnectFails, Fail, Goto, connVars, found
  <2> QED BY <1>1, <2>1, PassedKept DEF Aside
<1>7. CASE Alone \/ ServicesReturn \/ ReadReturns \/ WriteReturns \/ WriteCommand
  <2>1. CASE ReadReturns
    <3>1. \E c \in unread : Read(c)
      BY <2>1 DEF ReadReturns, Read
    <3> QED BY <1>4, <3>1
  <2> QED BY <1>3, <1>5, <1>7, <2>1 DEF Alone, ServicesReturn, WriteReturns, WriteCommand
<1>8. CASE TimesOut
  <2>1. ServicesFail \/ CharsFail \/ WriteFails \/ \E c \in unread : Read(c)
    BY <1>8 DEF TimesOut, Read
  <2> QED BY <1>3, <1>4, <1>5, <2>1
<1> QED BY <1>2, <1>6, <1>7, <1>8 DEF Main

\* The library and the peripheral do not touch the loops.
LEMMA OthersPassed ==
  ASSUME Passed, LinkUp \/ LinkLost \/ Cancelled \/ Answers \/ Refuses \/ Delegate
  PROVE  Passed'
<1>1. UNCHANGED connVars /\ refused \subseteq refused'
  BY DEF LinkUp, LinkLost, Cancelled, LinkChanges, Answers, Refuses, Answered, Delegate, TakeConnect,
     TakeDiscovered, TakeValue, Taken
<1> QED BY <1>1, PassedKept DEF connVars, found, Aside

\* What resolve and Dump have passed over, and which answers are under way.
THEOREM MissInvHolds == Spec => [](AnswerInv /\ Passed)
<1>1. LateInv /\ AnswerInv /\ Passed /\ [Next]_vars => AnswerInv' /\ Passed'
  <2>1. ASSUME LateInv, AnswerInv, Passed, UNCHANGED vars PROVE AnswerInv' /\ Passed'
    <3>1. UNCHANGED connVars /\ UNCHANGED <<asked, queue, known, refused, delegate, awaits>>
      BY <2>1 DEF vars, darwinVars, cbVars
    <3> QED BY <2>1, <3>1, PassedKept, QuietAnswers DEF connVars, found, Aside
  <2> QED BY <2>1, MainAnswers, LinkChangesAnswers, AnsweredAnswers, DelegateAnswers, MainPassed, OthersPassed
          DEF Next, CoreBluetooth
<1> QED BY <1>1, MissInit, LateInvHolds, PTL DEF Spec

\* ble.go:345-478, gattc_darwin.go: resolve and Dump pass over a service only when it
\* does not serve, its own discovery failed, or one before it did; for every table of
\* services, in whatever order the late answers come.
THEOREM OnlyLateIsMissedHolds == Spec => []OnlyLateIsMissed
<1>1. Passed => OnlyLateIsMissed
  BY DEF Passed
<1> QED BY <1>1, MissInvHolds, PTL
=============================================================================
