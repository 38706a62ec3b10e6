---------------------------- MODULE SessionProofs ----------------------------
(* Theorems about Session, and the part of Conn it builds on, for every value *)
(* of their constants.                                                        *)
EXTENDS Session, TLAPS

----------------------------------------------------------------------------
(* The inductive invariant behind LinkIsReturned, ServiceIsRight, FindKeepsTime *)
(* and TypeOK.                                                                  *)

Linked ==
    /\ pc \in {"find", "connect"} => ~opened /\ closes = 0
    /\ pc \notin {"find", "connect", "done", "killed"} => opened /\ closes = 0
    /\ LinkIsReturned

\* The loop of resolve or Dump: what it has passed over, and where it is.
Resolving ==
    /\ pc \in {"find", "connect", "pause", "services", "resolve"} => next = 1
    /\ pc \in {"resolve", "choose", "chars", "read"} => services = table
    /\ pc \in {"chars", "read"} => next <= Len(table)
    /\ pc = "chars" => Visits(table[next])
    /\ pc \in {"choose", "chars"} /\ cmd # "dump" /\ ~Explicit =>
         \A i \in 1 .. next - 1 :
             i \in failed \/ table[i].uuid \in Generic \/ RX \notin table[i].chars
    /\ pc = "read" => cmd = "dump"
    /\ ServiceIsRight

\* Time passes in Find only by scans.
Timed ==
    /\ pc = "find" => ~gaveUp /\ scanned <= timeout /\ scanned <= now /\ now <= scanned + windows * MaxLag
    /\ gaveUp => pc = "done"
    /\ FindKeepsTime

Counted ==
    /\ pc \in {"find", "connect"} => attempt = 0
    /\ pc = "pause" => attempt < MaxAttempts
    /\ pc = "write" /\ cmd = "listen" => Len(todo) + sent < MaxPackets

CommandInv == TypeOK /\ Linked /\ Resolving /\ Timed /\ Counted

----------------------------------------------------------------------------

\* A command that has not begun satisfies the invariant.
LEMMA InitInv == Init => CommandInv
<1> SUFFICES ASSUME Init PROVE CommandInv
  OBVIOUS
<1> USE ConnAssumption, SessionAssumption DEF Init, ConnInit
<1>1. timeout \in Nat \ {0}
  <2>1. PICK t \in Timeouts : timeout = ScanTimeout(t)
    OBVIOUS
  <2> QED BY <2>1 DEF ScanTimeout
<1>2. table \in Seq(Service) /\ Len(table) \in Nat \ {0}
  OBVIOUS
<1>3. ConnTypeOK
  <2>1. using \in [service : 0 .. Len(table), write : UUIDs \cup {None}, notify : UUIDs \cup {None}]
    BY <1>2 DEF Unresolved
  <2>2. next \in 1 .. Len(table) + 1 /\ sent \in 0 .. MaxPackets /\ attempt \in 0 .. MaxAttempts
    BY <1>2
  <2> QED BY <2>1, <2>2 DEF ConnTypeOK
<1>4. todo \in Seq(Probes) /\ (cmd = "listen" => Len(todo) <= MaxPackets) /\ duration \in Durations \cup {0}
  <2>1. <<>> \in Seq(Probes)
    OBVIOUS
  <2>2. CASE cmd = "listen"
    <3>1. todo \in ProbeLists /\ duration \in Durations
      BY <2>2
    <3> QED BY <3>1
  <2>3. CASE cmd # "listen"
    BY <2>1, <2>3
  <2> QED BY <2>2, <2>3
<1>5. packet \in [kind : Probes \cup {"none"}, instant : Nat]
  BY DEF NoPacket
<1>6. TypeOK
  <2>1. cmd = "listen" => Len(todo) + sent <= MaxPackets
    BY <1>4
  <2> QED BY <1>1, <1>3, <1>4, <1>5, <2>1 DEF TypeOK, Pcs, CallerPcs
<1>7. Linked
  BY DEF Linked, LinkIsReturned
<1>8. Resolving
  BY DEF Resolving, ServiceIsRight, Resolved
<1>9. Timed
  <2>1. 0 <= timeout /\ 0 <= timeout + MaxLag /\ 0 <= 0 + 0 * MaxLag
    BY <1>1
  <2> QED BY <2>1 DEF Timed, FindKeepsTime
<1>10. Counted
  BY DEF Counted
<1> QED BY <1>6, <1>7, <1>8, <1>9, <1>10 DEF CommandInv

----------------------------------------------------------------------------
(* Every link that was made is given back *)

\* Every step keeps the link open or closed exactly once.
LEMMA NextLinked ==
  ASSUME CommandInv, Next
  PROVE  Linked'
<1> USE DEF CommandInv, Linked, LinkIsReturned, Goto, GotoWithError, Fail, Abandon, found, params, connVars
<1>1. CASE Find
  BY <1>1 DEF Find, ScanMatches, Found, ScanEmpty, ScanFails, GiveUp, NotFound
<1>2. CASE Connected \/ ConnectFails \/ Wake
  BY <1>2 DEF Connected, ConnectFails, Wake
<1>3. CASE ServicesFail \/ NoServices \/ Services
  BY <1>3 DEF ServicesFail, NoServices, Services
<1>4. CASE OptionsRefused \/ OptionsAccepted \/ SkipService \/ AskChars
  BY <1>4 DEF OptionsRefused, OptionsAccepted, SkipService, AskChars, NextService
<1>5. CASE NoServiceLeft \/ CharsFail
  BY <1>5 DEF NoServiceLeft, CharsFail, NextService
<1>6. ASSUME NEW chars, Chars(chars) PROVE Linked'
  BY <1>6 DEF Chars, DumpChars, UseService, PassService, Use, NextService
<1>7. CASE (\E c \in unread : Read(c)) \/ AllRead
  BY <1>7 DEF Read, AllRead, NextService
<1>8. CASE Written \/ WriteFails \/ AllSent \/ CloseConn
  BY <1>8 DEF Written, WriteFails, AllSent, CloseConn, MorePackets
<1>9. CASE SubscribeFails \/ Subscribe \/ Arm \/ SettleDown \/ Build \/ ProbeFails
  BY <1>9 DEF SubscribeFails, Subscribe, Arm, SettleDown, Build, ProbeFails
<1>10. CASE (\E lag \in 0 .. MaxLag : Probe(lag)) \/ Wait \/ Tick \/ Elapsed \/ SignalReceived \/ Unhook
  BY <1>10 DEF Probe, Wait, Tick, Elapsed, SignalReceived, Unhook
<1>11. CASE Interrupt
  BY <1>11 DEF Interrupt
<1> QED BY <1>1, <1>2, <1>3, <1>4, <1>5, <1>6, <1>7, <1>8, <1>9, <1>10, <1>11
        DEF Next, Command, Call, Library, Listen

----------------------------------------------------------------------------
(* Attempts and probes are counted within their bounds *)

\* Attempts and probes stay in their bounds.
LEMMA NextCounted ==
  ASSUME CommandInv, Next
  PROVE  Counted'
<1> USE ConnAssumption DEF CommandInv, Counted, TypeOK, ConnTypeOK, Goto, GotoWithError, Fail, Abandon, found, params, connVars
<1>1. CASE Find
  BY <1>1 DEF Find, ScanMatches, Found, ScanEmpty, ScanFails, GiveUp, NotFound, listenVars
<1>2. CASE Call
  <2>1. todo' = todo
    BY <1>2 DEF Call, listenVars
  <2>2. CASE Connected \/ ConnectFails \/ Wake \/ ServicesFail \/ NoServices \/ Services
    BY <2>1, <2>2 DEF Connected, ConnectFails, Wake, ServicesFail, NoServices, Services
  <2>3. CASE OptionsRefused \/ OptionsAccepted \/ SkipService \/ AskChars \/ NoServiceLeft \/ CharsFail
    BY <2>1, <2>3 DEF OptionsRefused, OptionsAccepted, SkipService, AskChars, NoServiceLeft, CharsFail, NextService
  <2>4. ASSUME NEW chars, Chars(chars) PROVE Counted'
    BY <2>1, <2>4 DEF Chars, DumpChars, UseService, PassService, Use, NextService
  <2>5. CASE (\E c \in unread : Read(c)) \/ AllRead \/ Written \/ WriteFails \/ AllSent \/ CloseConn
    BY <2>1, <2>5 DEF Read, AllRead, NextService, Written, WriteFails, AllSent, CloseConn, MorePackets
  <2> QED BY <1>2, <2>2, <2>3, <2>4, <2>5 DEF Call, Library
<1>3. CASE SubscribeFails \/ Subscribe \/ Arm \/ SettleDown \/ ProbeFails
  BY <1>3 DEF SubscribeFails, Subscribe, Arm, SettleDown, ProbeFails, listenVars
<1>4. CASE Build
  <2>1. Len(todo) \in Nat /\ todo # <<>> /\ Len(Tail(todo)) = Len(todo) - 1
    BY <1>4 DEF Build
  <2>2. ASSUME cmd = "listen" PROVE Len(todo') + sent' < MaxPackets
    BY <1>4, <2>1, <2>2 DEF Build
  <2> QED BY <1>4, <2>2 DEF Build
<1>5. CASE (\E lag \in 0 .. MaxLag : Probe(lag)) \/ Wait \/ Tick \/ Elapsed \/ SignalReceived \/ Unhook
  BY <1>5 DEF Probe, Wait, Tick, Elapsed, SignalReceived, Unhook, listenVars
<1>6. CASE Interrupt
  BY <1>6 DEF Interrupt, listenVars
<1> QED BY <1>1, <1>2, <1>3, <1>4, <1>5, <1>6 DEF Next, Command, Listen

----------------------------------------------------------------------------
(* Find keeps its time *)

\* The window never reaches past the deadline.
LEMMA WindowFits ==
  ASSUME TypeOK
  PROVE  /\ Window \in Int /\ Window <= timeout - now
         /\ Window >= FindMin => now + Window <= timeout /\ Window > 0
         /\ Window < FindMin => timeout - now < FindMin
BY SessionAssumption DEF Window, TypeOK

\* Only scans take time from a search.
LEMMA NextTimed ==
  ASSUME CommandInv, Next
  PROVE  Timed'
<1> USE DEF CommandInv
<1>0. /\ now \in Nat /\ timeout \in Nat /\ scanned \in Nat /\ windows \in Nat
      /\ MaxLag \in Nat /\ FindMin \in Nat
  BY SessionAssumption DEF TypeOK
<1>1. CASE Find
  <2>1. pc = "find" /\ ~opened
    BY <1>1 DEF Find, ScanMatches, Found, ScanEmpty, ScanFails, GiveUp, NotFound, Linked
  <2>2. ASSUME NEW d \in {1, Window}, ScanMatches(d) PROVE Timed'
    <3>1. now' <= timeout
      BY <1>0, <2>2, WindowFits DEF ScanMatches
    <3>2. pc' = "connect" /\ timeout' = timeout /\ gaveUp' = gaveUp /\ now' \in Int
      BY <1>0, <2>2, WindowFits DEF ScanMatches, Found
    <3>3. ~gaveUp /\ now' <= timeout + MaxLag
      BY <1>0, <2>1, <3>1, <3>2 DEF Timed
    <3> QED BY <3>2, <3>3 DEF Timed, FindKeepsTime
  <2>3. ASSUME NEW lag \in 0 .. MaxLag, ScanEmpty(lag) PROVE Timed'
    <3>1. Window \in Int /\ now + Window <= timeout /\ lag \in Nat /\ lag <= MaxLag
      BY <1>0, <2>3, WindowFits DEF ScanEmpty
    <3>2. /\ now' = now + Window + lag /\ scanned' = scanned + Window /\ windows' = windows + 1
          /\ UNCHANGED <<pc, timeout, gaveUp, opened>>
      BY <2>3 DEF ScanEmpty, connVars, found
    <3>3. scanned <= timeout /\ scanned <= now /\ now <= scanned + windows * MaxLag /\ ~gaveUp
      BY <2>1 DEF Timed
    <3>4. (windows + 1) * MaxLag = windows * MaxLag + MaxLag /\ windows * MaxLag \in Nat
      BY <1>0
    <3>5. scanned' <= timeout /\ scanned' <= now' /\ now' <= timeout + MaxLag
      BY <1>0, <3>1, <3>2, <3>3
    <3>6. now' <= scanned' + windows' * MaxLag
      <4> DEFINE w == windows * MaxLag
      <4>1. w \in Nat /\ now <= scanned + w /\ windows' * MaxLag = w + MaxLag
        BY <3>2, <3>3, <3>4
      <4> HIDE DEF w
      <4> QED BY <1>0, <3>1, <3>2, <4>1
    <3> QED BY <3>2, <3>3, <3>5, <3>6 DEF Timed, FindKeepsTime
  <2>4. CASE ScanFails
    BY <2>1, <2>4 DEF ScanFails, NotFound, Fail, findVars, found, Timed, FindKeepsTime
  <2>5. CASE GiveUp
    <3>1. timeout - now < FindMin
      BY <2>5, WindowFits DEF GiveUp
    <3>2. scanned <= timeout /\ now <= scanned + windows * MaxLag /\ now <= timeout + MaxLag
      BY <2>1 DEF Timed, FindKeepsTime
    <3>3. timeout < scanned + FindMin + windows * MaxLag
      <4> DEFINE w == windows * MaxLag
      <4>1. w \in Nat /\ now <= scanned + w
        BY <1>0, <3>2
      <4> HIDE DEF w
      <4>2. timeout < scanned + FindMin + w
        BY <1>0, <3>1, <4>1
      <4> QED BY <4>2 DEF w
    <3> QED BY <2>5, <3>2, <3>3 DEF GiveUp, NotFound, Fail, Timed, FindKeepsTime
  <2> QED BY <1>1, <2>2, <2>3, <2>4, <2>5 DEF Find
<1>2. CASE Call
  <2>1. UNCHANGED <<now, timeout, scanned, windows, gaveUp>>
    BY <1>2 DEF Call, findVars
  <2>2. pc \notin {"find", "done"} /\ pc' # "find" /\ (~opened' => ~opened)
    <3> USE DEF found, params, connVars
    <3>1. CASE Connected \/ ConnectFails \/ Wake \/ ServicesFail \/ NoServices \/ Services
      BY <3>1 DEF Connected, ConnectFails, Wake, ServicesFail, NoServices, Services, Fail, Abandon
    <3>2. CASE OptionsRefused \/ OptionsAccepted \/ SkipService \/ AskChars \/ NoServiceLeft \/ CharsFail
      BY <3>2 DEF OptionsRefused, OptionsAccepted, SkipService, AskChars, NoServiceLeft, CharsFail,
         NextService, Fail, Abandon
    <3>3. ASSUME NEW chars, Chars(chars) PROVE pc \notin {"find", "done"} /\ pc' # "find" /\ (~opened' => ~opened)
      BY <3>3 DEF Chars, DumpChars, UseService, PassService, Use, NextService, Fail, Abandon
    <3>4. CASE (\E c \in unread : Read(c)) \/ AllRead \/ Written \/ WriteFails \/ AllSent \/ CloseConn
      BY <3>4 DEF Read, AllRead, NextService, Written, WriteFails, AllSent, CloseConn, MorePackets
    <3> QED BY <1>2, <3>1, <3>2, <3>3, <3>4 DEF Call, Library
  <2> QED BY <2>1, <2>2 DEF Timed, FindKeepsTime
<1>3. CASE Listen
  <2>1. /\ pc \in {"subscribe", "arm", "settle", "build", "write", "select", "stop"}
        /\ UNCHANGED <<timeout, scanned, windows, gaveUp, opened>> /\ pc' # "find"
    BY <1>3 DEF Listen, SubscribeFails, Subscribe, Arm, SettleDown, Build, ProbeFails, Probe, Wait, Tick,
       Elapsed, SignalReceived, Unhook, Goto, GotoWithError, found, params, connVars, findVars
  <2>2. opened /\ ~gaveUp
    BY <2>1 DEF Linked, Timed
  <2> QED BY <2>1, <2>2 DEF Timed, FindKeepsTime
<1>4. CASE Interrupt
  BY <1>4 DEF Interrupt, Goto, connVars, findVars, found, params, Timed, FindKeepsTime
<1> QED BY <1>1, <1>2, <1>3, <1>4 DEF Next, Command

----------------------------------------------------------------------------
(* What resolve passes over, and what it uses *)

\* A choice once made stays right: only the set of failed services grows.
LEMMA ServiceKept ==
  ASSUME ServiceIsRight, UNCHANGED <<params, using>>, failed \subseteq failed'
  PROVE  ServiceIsRight'
BY DEF ServiceIsRight, Resolved, Explicit, Given, params

\* A table has a service at least, and the loops a place in it.
LEMMA TablesHaveLengths ==
  ASSUME TypeOK
  PROVE  /\ Len(table) \in Nat \ {0} /\ next \in Nat /\ next >= 1
         /\ table \in Seq(Service) /\ table \in Tables
         /\ \A i \in 1 .. Len(table) : table[i].chars \subseteq UUIDs
<1>1. table \in Tables /\ table \in Seq(Service) \ {<<>>}
  BY ConnAssumption DEF TypeOK, ConnTypeOK
<1>2. Len(table) \in Nat \ {0}
  BY <1>1
<1>3. \A i \in 1 .. Len(table) : table[i] \in Service
  BY <1>1
<1> QED BY <1>1, <1>2, <1>3 DEF TypeOK, ConnTypeOK, Service

\* The steps that touch neither the loop nor the choice.
LEMMA ResolvingKept ==
  ASSUME CommandInv, UNCHANGED <<params, services, next, using, failed>>,
         \/ pc' = pc
         \/ pc \in {"find", "connect", "pause", "services"} /\ pc' \in {"connect", "pause", "services"}
         \/ pc' \notin {"find", "connect", "pause", "services", "resolve", "choose", "chars", "read"}
  PROVE  Resolving'
<1>1. ServiceIsRight'
  BY ServiceKept DEF CommandInv, Resolving
<1> QED BY <1>1 DEF CommandInv, Resolving, Visits, Explicit, Given, params

\* A service passed over would not have served.
LEMMA StepRight ==
  ASSUME CommandInv, pc \in {"choose", "chars"}, next' = next + 1, UNCHANGED params, failed \subseteq failed',
         cmd # "dump" /\ ~Explicit =>
             next \in failed' \/ table[next].uuid \in Generic \/ RX \notin table[next].chars
  PROVE  cmd' # "dump" /\ ~Explicit' =>
             \A i \in 1 .. next' - 1 :
                 i \in failed' \/ table'[i].uuid \in Generic \/ RX \notin table'[i].chars
<1> SUFFICES ASSUME cmd # "dump", ~Explicit, NEW i \in 1 .. next
             PROVE  i \in failed' \/ table[i].uuid \in Generic \/ RX \notin table[i].chars
  BY TablesHaveLengths DEF params, Explicit, Given, CommandInv
<1>1. i = next \/ i \in 1 .. next - 1
  BY TablesHaveLengths DEF CommandInv
<1> QED BY <1>1 DEF CommandInv, Resolving

\* The steps of a call keep what the loops have passed over.
LEMMA CallResolving ==
  ASSUME CommandInv, Call
  PROVE  Resolving'
<1> USE DEF CommandInv
<1>0. UNCHANGED params
  BY DEF Call, Library, Connected, ConnectFails, Wake, ServicesFail, NoServices, Services, OptionsRefused,
     OptionsAccepted, SkipService, AskChars, NoServiceLeft, CharsFail, Chars, DumpChars, UseService,
     PassService, Read, AllRead, Written, WriteFails, AllSent, CloseConn
<1>1. CASE Connected \/ ConnectFails \/ Wake \/ ServicesFail \/ NoServices
  BY <1>1, ResolvingKept DEF Connected, ConnectFails, Wake, ServicesFail, NoServices, Fail, Abandon, found
<1>2. CASE Services
  <2>1. services' = table /\ next' = next /\ next = 1 /\ pc' \in {"choose", "resolve"} /\ UNCHANGED <<using, failed>>
    BY <1>2 DEF Services, Resolving
  <2>2. ServiceIsRight'
    BY <1>0, <2>1, ServiceKept DEF Resolving
  <2>3. 1 .. next' - 1 = {}
    BY <2>1
  <2> QED BY <1>0, <2>1, <2>2, <2>3, <1>2 DEF Services, Resolving, params
<1>3. CASE OptionsRefused
  BY <1>0, <1>3, ResolvingKept DEF OptionsRefused, Abandon, Fail, found
<1>4. CASE OptionsAccepted
  <2>1. services' = table /\ next' = next /\ next = 1 /\ pc' = "choose" /\ UNCHANGED <<using, failed>>
    BY <1>4 DEF OptionsAccepted, found, Resolving
  <2>2. ServiceIsRight'
    BY <1>0, <2>1, ServiceKept DEF Resolving
  <2>3. 1 .. next' - 1 = {}
    BY <2>1
  <2> QED BY <1>0, <2>1, <2>2, <2>3 DEF Resolving, params
<1>5. CASE SkipService
  <2>1. /\ next' = next + 1 /\ pc' = "choose" /\ pc = "choose" /\ UNCHANGED <<services, using, failed>>
        /\ services = table /\ next <= Len(table) /\ ~Visits(table[next])
    BY <1>5 DEF SkipService, NextService, Resolving
  <2>2. ServiceIsRight'
    BY <1>0, <2>1, ServiceKept DEF Resolving
  <2>3. cmd # "dump" /\ ~Explicit => table[next].uuid \in Generic
    BY <2>1 DEF Visits
  <2> QED BY <1>0, <2>1, <2>2, <2>3, StepRight DEF Resolving, params
<1>6. CASE AskChars
  <2>1. pc = "choose" /\ pc' = "chars" /\ next <= Len(table) /\ Visits(table[next])
        /\ UNCHANGED <<services, next, using, failed>>
    BY <1>6 DEF AskChars, found, Resolving
  <2>2. ServiceIsRight'
    BY <1>0, <2>1, ServiceKept DEF Resolving
  <2>3. Visits(table[next])'
    BY <1>0, <2>1 DEF Visits, Explicit, Given, params
  <2> QED BY <1>0, <2>1, <2>2, <2>3 DEF Resolving, params, Explicit, Given
<1>7. CASE NoServiceLeft
  BY <1>0, <1>7, ResolvingKept DEF NoServiceLeft, Abandon, Fail, found
<1>8. CASE CharsFail
  <2>1. pc = "chars" /\ failed' = failed \cup {next} /\ UNCHANGED <<services, using>> /\ services = table
    BY <1>8 DEF CharsFail, Resolving
  <2>2. ServiceIsRight'
    BY <1>0, <2>1, ServiceKept DEF Resolving
  <2>3. CASE pc' = "done"
    BY <2>2, <2>3 DEF Resolving
  <2>4. CASE pc' # "done"
    <3>1. next' = next + 1 /\ pc' = "choose"
      BY <1>8, <2>4 DEF CharsFail, NextService, Abandon, Fail
    <3> QED BY <1>0, <2>1, <2>2, <3>1, StepRight DEF Resolving, params
  <2> QED BY <2>3, <2>4
<1>9. CASE next <= Len(services) /\ Chars(services[next].chars)
  <2> DEFINE chars == table[next].chars
  <2>1. pc = "chars" /\ services = table /\ services' = services /\ UNCHANGED failed /\ Chars(chars)
    BY <1>9 DEF Chars, DumpChars, UseService, PassService, Resolving
  <2>2. CASE DumpChars(chars)
    <3>1. ServiceIsRight'
      BY <1>0, <2>1, <2>2, ServiceKept DEF DumpChars, Resolving
    <3> QED BY <1>0, <2>1, <2>2, <3>1 DEF DumpChars, Resolving, params
  <2>3. CASE UseService(chars)
    <3>1. /\ cmd # "dump" /\ WriteChar \in chars
          /\ Explicit /\ Given(NotifyChar) => NotifyChar \in chars
          /\ using' = [service |-> next, write |-> WriteChar,
                       notify |-> IF NotifyChar \in chars THEN NotifyChar ELSE None]
          /\ pc' \in {"write", "subscribe"}
      BY <2>3 DEF UseService, Use
    <3>2. CASE Explicit
      <4>1. table[next].uuid = opts.service
        BY <2>1, <3>1, <3>2 DEF Resolving, Visits
      <4>2. using'.write = opts.write /\ using'.notify = opts.notify
        BY <3>1, <3>2 DEF WriteChar, NotifyChar, Given
      <4>3. {using'.write, using'.notify} \subseteq chars \cup {None} /\ using'.service = next
        BY <3>1
      <4>4. ServiceIsRight'
        BY <1>0, <3>2, <4>1, <4>2, <4>3 DEF ServiceIsRight, Explicit, Given, params
      <4> QED BY <3>1, <4>4 DEF Resolving
    <3>3. CASE ~Explicit
      <4>1. table[next].uuid \notin Generic
        BY <2>1, <3>1, <3>3 DEF Resolving, Visits
      <4>2. using'.write = RX /\ RX \in chars /\ using'.notify = (IF TX \in chars THEN TX ELSE None)
        BY <3>1, <3>3 DEF WriteChar, NotifyChar
      <4>3. using'.service = next /\ failed' = failed
        BY <2>1, <3>1
      <4>4. \A i \in 1 .. next - 1 : i \in failed \/ table[i].uuid \in Generic \/ RX \notin table[i].chars
        BY <2>1, <3>1, <3>3 DEF Resolving
      <4>5. ServiceIsRight'
        BY <1>0, <3>3, <4>1, <4>2, <4>3, <4>4 DEF ServiceIsRight, Explicit, Given, params
      <4> QED BY <3>1, <4>5 DEF Resolving
    <3> QED BY <3>2, <3>3
  <2>4. CASE PassService(chars)
    <3>1. ServiceIsRight'
      BY <1>0, <2>1, <2>4, ServiceKept DEF PassService, Resolving
    <3>2. CASE pc' = "done"
      BY <3>1, <3>2 DEF Resolving
    <3>3. CASE pc' # "done"
      <4>1. next' = next + 1 /\ pc' = "choose" /\ ~Explicit /\ WriteChar \notin chars
        BY <2>4, <3>3 DEF PassService, NextService, Abandon, Fail
      <4>2. RX \notin chars
        BY <4>1 DEF WriteChar
      <4> QED BY <1>0, <2>1, <3>1, <4>1, <4>2, StepRight DEF Resolving, params
    <3> QED BY <3>2, <3>3
  <2> QED BY <2>1, <2>2, <2>3, <2>4 DEF Chars
<1>10. CASE \E c \in unread : Read(c)
  BY <1>0, <1>10, ResolvingKept DEF Read
<1>11. CASE AllRead
  <2>1. /\ pc = "read" /\ cmd = "dump" /\ next' = next + 1 /\ pc' = "choose" /\ UNCHANGED <<services, using, failed>>
    BY <1>11 DEF AllRead, NextService, Resolving
  <2>2. ServiceIsRight'
    BY <1>0, <2>1, ServiceKept DEF Resolving
  <2> QED BY <1>0, <2>1, <2>2 DEF Resolving, params
<1>12. CASE Written \/ WriteFails \/ AllSent \/ CloseConn
  BY <1>0, <1>12, ResolvingKept DEF Written, WriteFails, AllSent, CloseConn, MorePackets, found
<1> QED BY <1>1, <1>2, <1>3, <1>4, <1>5, <1>6, <1>7, <1>8, <1>9, <1>10, <1>11, <1>12 DEF Call, Library

\* Every step keeps it.
LEMMA NextResolving ==
  ASSUME CommandInv, Next
  PROVE  Resolving'
<1>1. CASE Find
  BY <1>1, ResolvingKept DEF Find, ScanMatches, Found, ScanEmpty, ScanFails, GiveUp, NotFound, Fail, connVars, found
<1>2. CASE Listen
  BY <1>2, ResolvingKept DEF Listen, SubscribeFails, Subscribe, Arm, SettleDown, Build, ProbeFails, Probe, Wait,
     Tick, Elapsed, SignalReceived, Unhook, Goto, GotoWithError, connVars, found
<1>3. CASE Interrupt
  BY <1>3, ResolvingKept DEF Interrupt, Goto, connVars, found
<1> QED BY <1>1, <1>2, <1>3, CallResolving DEF Next, Command

----------------------------------------------------------------------------
(* Type correctness *)

\* A call ends with one close more at most.
LEMMA CallEnds ==
  ASSUME CommandInv, Call
  PROVE  closes' \in {closes, closes + 1} /\ err' \in {err, TRUE} /\ opened' \in {opened, TRUE} /\ pc' \in CallerPcs
<1> USE DEF Fail, Abandon, found, params, connVars, CallerPcs
<1>1. CASE Connected \/ ConnectFails \/ Wake \/ ServicesFail \/ NoServices \/ Services
  BY <1>1 DEF Connected, ConnectFails, Wake, ServicesFail, NoServices, Services
<1>2. CASE OptionsRefused \/ OptionsAccepted \/ SkipService \/ AskChars \/ NoServiceLeft \/ CharsFail
  BY <1>2 DEF OptionsRefused, OptionsAccepted, SkipService, AskChars, NoServiceLeft, CharsFail, NextService
<1>3. ASSUME NEW chars, Chars(chars)
      PROVE  closes' \in {closes, closes + 1} /\ err' \in {err, TRUE} /\ opened' \in {opened, TRUE} /\ pc' \in CallerPcs
  BY <1>3 DEF Chars, DumpChars, UseService, PassService, Use, NextService
<1>4. CASE (\E c \in unread : Read(c)) \/ AllRead \/ Written \/ WriteFails \/ AllSent \/ CloseConn
  BY <1>4 DEF Read, AllRead, NextService, Written, WriteFails, AllSent, CloseConn, MorePackets
<1> QED BY <1>1, <1>2, <1>3, <1>4 DEF Call, Library

\* The steps of a call keep the types.
LEMMA CallTypes ==
  ASSUME CommandInv, Call
  PROVE  ConnTypeOK' /\ pc' \in Pcs
<1> USE ConnAssumption DEF CommandInv, TypeOK, ConnTypeOK, Pcs, CallerPcs
<1>0. /\ Len(table) \in Nat \ {0} /\ next \in Nat /\ next >= 1 /\ next <= Len(table) + 1
      /\ \A i \in 1 .. Len(table) : table[i].chars \subseteq UUIDs
  BY TablesHaveLengths
<1>11. closes' \in Nat /\ err' \in BOOLEAN /\ opened' \in BOOLEAN /\ pc' \in Pcs
  <2>1. closes' \in Nat
    <3>1. closes' = closes \/ closes' = closes + 1
      BY CallEnds
    <3>2. closes \in Nat
      OBVIOUS
    <3>3. closes + 1 \in Nat
      BY ONLY <3>2
    <3> QED BY <3>1, <3>2, <3>3, Zenon
  <2>2. err' \in BOOLEAN
    BY CallEnds
  <2>3. opened' \in BOOLEAN
    BY CallEnds
  <2> QED BY <2>1, <2>2, <2>3, CallEnds
<1> DEFINE Rest == /\ cmd \in Commands /\ opts \in Options /\ table \in Tables
                   /\ attempt \in 0 .. MaxAttempts
                   /\ services \in {<<>>, table}
                   /\ next \in 1 .. Len(table) + 1
                   /\ using \in [service : 0 .. Len(table), write : UUIDs \cup {None}, notify : UUIDs \cup {None}]
                   /\ unread \subseteq UUIDs
                   /\ sent \in 0 .. MaxPackets
                   /\ failed \subseteq 1 .. Len(table)
                   /\ shown \subseteq (1 .. Len(table)) \X UUIDs
<1>12. SUFFICES Rest'
  BY <1>11
<1>1. CASE Connected \/ ConnectFails \/ ServicesFail \/ NoServices
  BY <1>1 DEF Connected, ConnectFails, ServicesFail, NoServices, params, found
<1>13. CASE Services
  BY <1>13 DEF Services, params
<1>2. CASE Wake
  <2>1. attempt' \in 0 .. MaxAttempts
    BY <1>2 DEF Wake, Counted
  <2> QED BY <1>2, <2>1 DEF Wake, params
<1>3. CASE OptionsRefused \/ OptionsAccepted \/ AskChars \/ NoServiceLeft
  BY <1>3 DEF OptionsRefused, OptionsAccepted, AskChars, NoServiceLeft, params, found
<1>4. CASE SkipService
  <2>1. next' \in 1 .. Len(table) + 1
    BY <1>0, <1>4 DEF SkipService, NextService, Resolving
  <2> QED BY <1>4, <2>1 DEF SkipService, NextService, params
<1>5. CASE CharsFail
  <2>1. next \in 1 .. Len(table) /\ next + 1 \in 1 .. Len(table) + 1
    BY <1>0, <1>5 DEF CharsFail, Resolving
  <2>2. failed' \subseteq 1 .. Len(table) /\ next' \in 1 .. Len(table) + 1
    BY <1>5, <2>1 DEF CharsFail, NextService
  <2> QED BY <1>5, <2>2 DEF CharsFail, NextService, params
<1>6. CASE next <= Len(services) /\ Chars(services[next].chars)
  <2> DEFINE chars == table[next].chars
  <2>1. pc = "chars" /\ next \in 1 .. Len(table) /\ next + 1 \in 1 .. Len(table) + 1 /\ Chars(chars)
    BY <1>0, <1>6 DEF Chars, DumpChars, UseService, PassService, Resolving
  <2>2. chars \subseteq UUIDs
    BY <1>0, <2>1
  <2> HIDE DEF chars
  <2>3. CASE DumpChars(chars)
    BY <2>2, <2>3 DEF DumpChars, params
  <2>4. CASE UseService(chars)
    <3>1. using' = [service |-> next, write |-> WriteChar, notify |-> IF NotifyChar \in chars THEN NotifyChar ELSE None]
      BY <2>4 DEF UseService, Use
    <3>2. WriteChar \in UUIDs
      BY <2>2, <2>4 DEF UseService
    <3>3. using' \in [service : 0 .. Len(table), write : UUIDs \cup {None}, notify : UUIDs \cup {None}]
      BY <1>0, <2>1, <2>2, <3>1, <3>2
    <3> QED BY <2>4, <3>3 DEF UseService, Use, params
  <2>5. CASE PassService(chars)
    BY <2>1, <2>5 DEF PassService, NextService, params
  <2> QED BY <2>1, <2>3, <2>4, <2>5 DEF Chars
<1>7. ASSUME NEW c \in unread, Read(c) PROVE Rest'
  <2>1. next \in 1 .. Len(table) /\ c \in UUIDs
    BY <1>0, <1>7 DEF Read, Resolving
  <2> QED BY <1>7, <2>1 DEF Read, params
<1>8. CASE AllRead
  <2>1. next' \in 1 .. Len(table) + 1
    BY <1>0, <1>8 DEF AllRead, NextService, Resolving
  <2> QED BY <1>8, <2>1 DEF AllRead, NextService, params
<1>9. CASE Written
  BY <1>9 DEF Written, MorePackets, params
<1>10. CASE WriteFails \/ AllSent \/ CloseConn
  BY <1>10 DEF WriteFails, AllSent, CloseConn, MorePackets, params, found
<1> QED BY <1>1, <1>2, <1>3, <1>4, <1>5, <1>6, <1>7, <1>8, <1>9, <1>10, <1>13 DEF Call, Library

\* What the steps of Find, of listen and of the user leave of Conn's state.
LEMMA OtherTypes ==
  ASSUME CommandInv, UNCHANGED <<params, attempt, services, next, using, unread, failed, shown>>,
         sent' \in 0 .. MaxPackets, opened' = opened, closes' = closes, err' \in BOOLEAN
  PROVE  ConnTypeOK'
BY DEF CommandInv, TypeOK, ConnTypeOK, params

\* The steps of a search keep the types.
LEMMA FindTypes ==
  ASSUME CommandInv, Find
  PROVE  TypeOK'
<1> USE SessionAssumption DEF CommandInv, TypeOK, Pcs, CallerPcs
<1>1. pc' \in Pcs /\ UNCHANGED <<params, found, opened, closes>> /\ err' \in BOOLEAN
  BY DEF Find, ScanMatches, Found, ScanEmpty, ScanFails, GiveUp, NotFound, Fail, connVars, ConnTypeOK
<1>2. ConnTypeOK'
  <2>1. sent' \in 0 .. MaxPackets
    BY <1>1 DEF found, ConnTypeOK
  <2> QED BY <1>1, <2>1, OtherTypes DEF found
<1>3. now' \in Nat /\ scanned' \in Nat /\ windows' \in Nat
  <2>1. ASSUME NEW d \in {1, Window}, ScanMatches(d) PROVE now' \in Nat /\ scanned' \in Nat /\ windows' \in Nat
    BY <2>1, WindowFits DEF ScanMatches
  <2>2. ASSUME NEW lag \in 0 .. MaxLag, ScanEmpty(lag) PROVE now' \in Nat /\ scanned' \in Nat /\ windows' \in Nat
    <3>1. Window \in Nat /\ lag \in Nat
      BY <2>2, WindowFits DEF ScanEmpty
    <3> QED BY <2>2, <3>1 DEF ScanEmpty
  <2>3. CASE ScanFails \/ GiveUp
    BY <2>3 DEF ScanFails, GiveUp, findVars
  <2> QED BY <2>1, <2>2, <2>3 DEF Find
<1>4. timeout' \in Nat /\ gaveUp' \in BOOLEAN /\ UNCHANGED <<listenVars, sigVars>>
  BY DEF Find, ScanMatches, ScanEmpty, ScanFails, GiveUp, findVars
<1>5. todo' = todo /\ sent' = sent /\ cmd' = cmd
  BY <1>1, <1>4 DEF found, params, listenVars
<1> QED BY <1>1, <1>2, <1>3, <1>4, <1>5 DEF listenVars, sigVars

\* The steps of listening keep the types.
LEMMA ListenTypes ==
  ASSUME CommandInv, Listen
  PROVE  TypeOK'
<1> USE SessionAssumption DEF CommandInv, TypeOK, Pcs, CallerPcs
<1>1. /\ pc' \in Pcs /\ opened' = opened /\ closes' = closes /\ err' \in BOOLEAN
      /\ UNCHANGED <<params, attempt, services, next, using, unread, failed, shown, findVars, duration>>
  BY DEF Listen, SubscribeFails, Subscribe, Arm, SettleDown, Build, ProbeFails, Probe, Wait, Tick, Elapsed,
     SignalReceived, Unhook, Goto, GotoWithError, connVars, found, listenVars, ConnTypeOK
<1>2. sent \in Nat /\ sent <= MaxPackets /\ MaxPackets \in Nat /\ duration \in Nat
  BY ConnAssumption DEF ConnTypeOK
<1>3. CASE SubscribeFails \/ Subscribe \/ Arm \/ SettleDown \/ ProbeFails \/ Wait \/ Tick \/ Elapsed
           \/ SignalReceived \/ Unhook
  <2>1. sent' = sent /\ todo' = todo /\ packet' = packet
    BY <1>3 DEF SubscribeFails, Subscribe, Arm, SettleDown, ProbeFails, Wait, Tick, Elapsed, SignalReceived,
       Unhook, Goto, GotoWithError, connVars, found, listenVars
  <2>2. ConnTypeOK'
    BY <1>1, <1>2, <2>1, OtherTypes DEF ConnTypeOK
  <2>3. now' \in Nat /\ since' \in Nat /\ timer' \in Nat /\ written' \in Nat
    BY <1>2, <1>3 DEF SubscribeFails, Subscribe, Arm, SettleDown, ProbeFails, Wait, Tick, Elapsed,
       SignalReceived, Unhook, listenVars
  <2>4. handler' \in {"kill", "notify"} /\ sig' \in BOOLEAN /\ heeded' \in BOOLEAN
    BY <1>3 DEF SubscribeFails, Subscribe, Arm, SettleDown, ProbeFails, Wait, Tick, Elapsed,
       SignalReceived, Unhook, sigVars
  <2> QED BY <1>1, <2>1, <2>2, <2>3, <2>4 DEF findVars, params
<1>4. CASE Build
  <2>1. Head(todo) \in Probes /\ Tail(todo) \in Seq(Probes) /\ Len(Tail(todo)) = Len(todo) - 1 /\ Len(todo) \in Nat
    BY <1>4 DEF Build
  <2>2. sent' = sent /\ packet' = [kind |-> Head(todo), instant |-> now] /\ todo' = Tail(todo)
    BY <1>4 DEF Build, Goto, found
  <2>3. packet' \in [kind : Probes \cup {"none"}, instant : Nat] /\ todo' \in Seq(Probes)
    BY <2>1, <2>2
  <2>4. cmd' = "listen" => Len(todo') + sent' <= MaxPackets
    BY <1>1, <1>2, <2>1, <2>2 DEF params
  <2>5. ConnTypeOK'
    BY <1>1, <1>2, <2>2, OtherTypes DEF ConnTypeOK
  <2>6. now' \in Nat /\ UNCHANGED <<since, timer, written, sigVars>>
    BY <1>4 DEF Build
  <2> QED BY <1>1, <2>3, <2>4, <2>5, <2>6 DEF findVars, sigVars
<1>5. ASSUME NEW lag \in 0 .. MaxLag, Probe(lag) PROVE TypeOK'
  <2>1. /\ sent' = sent + 1 /\ now' = now + lag /\ written' = now' /\ cmd = "listen" /\ pc = "write"
        /\ UNCHANGED <<todo, packet, since, timer, sigVars>>
    BY <1>5 DEF Probe
  <2>2. now' \in Nat /\ Len(todo) \in Nat
    BY <2>1
  <2>3. Len(todo) + sent' <= MaxPackets /\ sent' \in 0 .. MaxPackets
    BY <1>2, <2>1, <2>2 DEF Counted
  <2>4. ConnTypeOK'
    BY <1>1, <2>3, OtherTypes
  <2> QED BY <1>1, <2>1, <2>2, <2>3, <2>4 DEF findVars, sigVars
<1> QED BY <1>3, <1>4, <1>5 DEF Listen

\* Every step keeps the types.
LEMMA NextTypes ==
  ASSUME CommandInv, Next
  PROVE  TypeOK'
<1>1. CASE Call
  <2>1. UNCHANGED <<now, findVars, listenVars, sigVars>>
    BY <1>1 DEF Call
  <2>2. cmd' = "listen" => cmd = "listen" /\ sent' = sent
    BY <1>1 DEF Call, Library, Connected, ConnectFails, Wake, ServicesFail, NoServices, Services, OptionsRefused,
       OptionsAccepted, SkipService, AskChars, NoServiceLeft, CharsFail, Chars, DumpChars, UseService,
       PassService, Read, AllRead, Written, WriteFails, AllSent, CloseConn, MorePackets, params, found
  <2> QED BY <1>1, <2>1, <2>2, CallTypes DEF CommandInv, TypeOK, findVars, listenVars, sigVars
<1>2. CASE Interrupt
  <2>1. sent' = sent /\ cmd' = cmd /\ pc' \in Pcs /\ sig' \in BOOLEAN
    BY <1>2 DEF Interrupt, Goto, connVars, found, params, CommandInv, TypeOK, Pcs
  <2>2. ConnTypeOK'
    BY <1>2, OtherTypes DEF Interrupt, Goto, connVars, found, CommandInv, TypeOK, ConnTypeOK
  <2> QED BY <1>2, <2>1, <2>2 DEF Interrupt, CommandInv, TypeOK, findVars, listenVars
<1> QED BY <1>1, <1>2, FindTypes, ListenTypes DEF Next, Command

----------------------------------------------------------------------------

\* So does a step that changes nothing.
LEMMA Stutter == CommandInv /\ UNCHANGED vars => CommandInv'
<1> SUFFICES ASSUME CommandInv, UNCHANGED vars PROVE CommandInv'
  OBVIOUS
<1> USE DEF CommandInv, vars, connVars, params, found
<1>1. TypeOK'
  BY DEF TypeOK, ConnTypeOK, findVars, listenVars, sigVars
<1>2. Linked' /\ Counted'
  BY DEF Linked, LinkIsReturned, Counted, listenVars
<1>3. Resolving'
  BY ResolvingKept
<1>4. Timed'
  BY DEF Timed, FindKeepsTime, findVars
<1> QED BY <1>1, <1>2, <1>3, <1>4

\* How a command holds its link, its place in the device's table and its time, in
\* every reachable state.
THEOREM CommandInvHolds == Spec => []CommandInv
<1>1. CommandInv /\ [Next]_vars => CommandInv'
  BY NextTypes, NextLinked, NextResolving, NextTimed, NextCounted, Stutter DEF CommandInv
<1> QED BY <1>1, InitInv, PTL DEF Spec

\* Every variable of a command keeps its type.
THEOREM TypeHolds == Spec => []TypeOK
<1>1. CommandInv => TypeOK
  BY DEF CommandInv
<1> QED BY <1>1, CommandInvHolds, PTL

\* ble.go: the link is closed exactly once on every path of Open, Connect, Dump and
\* the commands, whatever the library answers and whenever Ctrl-C comes.
THEOREM LinkIsReturnedHolds == Spec => []LinkIsReturned
<1>1. CommandInv => LinkIsReturned
  BY DEF CommandInv, Linked
<1> QED BY <1>1, CommandInvHolds, PTL

\* ble.go:383-457: resolve uses what was asked for, or the first service that serves.
THEOREM ServiceIsRightHolds == Spec => []ServiceIsRight
<1>1. CommandInv => ServiceIsRight
  BY DEF CommandInv, Resolving
<1> QED BY <1>1, CommandInvHolds, PTL

\* ble.go:178-220: Find keeps its deadline and uses all of it.
THEOREM FindKeepsTimeHolds == Spec => []FindKeepsTime
<1>1. CommandInv => FindKeepsTime
  BY DEF CommandInv, Timed
<1> QED BY <1>1, CommandInvHolds, PTL
----------------------------------------------------------------------------
(* The time that listen keeps *)

Writing == pc = "write" /\ cmd = "listen"

\* The pace of listen: the deadline lies duration after the subscription or later,
\* and what has passed since it was set is what the probes take.
Paced ==
    /\ pc = "arm" => since <= now
    /\ pc = "settle" => now + duration = timer
    /\ pc \in {"settle", "build", "select"} \/ Writing => since + duration <= timer
    /\ pc = "build" => now + duration <= timer + ProbeTime
    /\ Writing => now + duration <= timer + ProbeTime + Gap
    /\ sent > 0 /\ (pc \in {"build", "select"} \/ Writing) => written + duration <= timer + ProbeTime
    /\ ListensLongEnough

\* Nothing is built or written before the subscription; a packet in hand is fresh.
Fresh ==
    /\ pc \in {"subscribe", "arm", "settle", "build", "select", "stop"} => cmd = "listen"
    /\ cmd = "listen" /\ pc \notin {"build", "write", "select", "stop", "close", "done", "killed"} =>
         sent = 0 /\ packet = NoPacket
    /\ cmd # "listen" => packet = NoPacket
    /\ Writing => now <= packet.instant + Gap
    /\ ProbeIsRecent

ListenInv == CommandInv /\ Paced /\ Fresh

\* Before a command begins it has neither listened nor built a probe.
LEMMA ListenInitInv == Init => Paced /\ Fresh
BY DEF Init, ConnInit, Paced, Fresh, Writing, ListensLongEnough, Listened, ProbeIsRecent, NoPacket, TimePacket

\* The numbers the pace is counted in.
LEMMA Times ==
  ASSUME TypeOK
  PROVE  /\ now \in Nat /\ duration \in Nat /\ since \in Nat /\ timer \in Nat /\ written \in Nat
         /\ Gap \in Nat /\ MaxLag \in Nat /\ Settle \in Nat /\ sent \in Nat
         /\ packet.instant \in Nat /\ ProbeTime \in Nat
         /\ sent = 0 => ProbeTime = Settle
         /\ sent' = sent + 1 => ProbeTime' = ProbeTime + Gap + MaxLag
         /\ sent' = sent => ProbeTime' = ProbeTime
<1> USE SessionAssumption, ConnAssumption DEF TypeOK
<1>1. /\ now \in Nat /\ duration \in Nat /\ since \in Nat /\ timer \in Nat /\ written \in Nat
      /\ Gap \in Nat /\ MaxLag \in Nat /\ Settle \in Nat /\ packet.instant \in Nat
  OBVIOUS
<1>2. sent \in Nat
  BY DEF ConnTypeOK
<1>3. sent * (Gap + MaxLag) \in Nat /\ 0 * (Gap + MaxLag) = 0
      /\ (sent + 1) * (Gap + MaxLag) = sent * (Gap + MaxLag) + Gap + MaxLag
  BY <1>1, <1>2
<1>4. ProbeTime \in Nat /\ (sent = 0 => ProbeTime = Settle)
  BY <1>1, <1>2, <1>3 DEF ProbeTime
<1>5. ASSUME sent' = sent + 1 PROVE ProbeTime' = ProbeTime + Gap + MaxLag
  <2> DEFINE p == sent * (Gap + MaxLag)
  <2>1. p \in Nat /\ ProbeTime = Settle + p /\ ProbeTime' = Settle + (p + Gap + MaxLag)
    BY <1>3, <1>5 DEF ProbeTime
  <2> HIDE DEF p
  <2> QED BY <1>1, <2>1
<1>6. sent' = sent => ProbeTime' = ProbeTime
  BY DEF ProbeTime
<1> QED BY <1>1, <1>2, <1>4, <1>5, <1>6

\* The steps of Conn leave the time alone, and send listen no packet.
LEMMA CallPaced ==
  ASSUME ListenInv, Call
  PROVE  /\ UNCHANGED <<cmd, now, duration, packet, since, timer, written, heeded>>
         /\ cmd = "listen" => sent' = sent
         /\ pc' \notin {"arm", "settle", "build", "select", "stop"}
         /\ pc' = "write" => cmd = "send"
         /\ pc' = "subscribe" => cmd = "listen"
         /\ pc' \in {"close", "done"} =>
              err' = TRUE \/ cmd # "listen" \/ (pc = "close" /\ err' = err)
         /\ cmd = "listen" /\ pc \in {"write", "select", "build", "stop", "close", "done", "killed"} => pc' = "done"
<1> USE DEF Fail, Abandon, found, params
<1>1. UNCHANGED <<now, duration, packet, since, timer, written, heeded>>
  BY DEF Call, listenVars, sigVars
<1> DEFINE Kept == /\ cmd' = cmd /\ (cmd = "listen" => sent' = sent)
                   /\ pc' \notin {"arm", "settle", "build", "select", "stop"}
                   /\ pc' = "write" => cmd = "send"
                   /\ pc' = "subscribe" => cmd = "listen"
                   /\ pc' \in {"close", "done"} =>
                        err' = TRUE \/ cmd # "listen" \/ (pc = "close" /\ err' = err)
                   /\ cmd = "listen" /\ pc \in {"write", "select", "build", "stop", "close", "done", "killed"} => pc' = "done"
<1> SUFFICES Kept
  BY <1>1
<1>2. CASE Connected \/ ConnectFails \/ Wake \/ ServicesFail \/ NoServices \/ Services
  BY <1>2 DEF Connected, ConnectFails, Wake, ServicesFail, NoServices, Services
<1>3. CASE OptionsRefused \/ OptionsAccepted \/ SkipService \/ AskChars \/ NoServiceLeft \/ CharsFail
  BY <1>3 DEF OptionsRefused, OptionsAccepted, SkipService, AskChars, NoServiceLeft, CharsFail, NextService
<1>4. ASSUME NEW chars, Chars(chars) PROVE Kept
  <2>1. cmd \in AllCommands
    BY ConnAssumption DEF ListenInv, CommandInv, TypeOK, ConnTypeOK
  <2> QED BY <1>4, <2>1 DEF Chars, DumpChars, UseService, PassService, Use, NextService, AllCommands
<1>5. CASE (\E c \in unread : Read(c)) \/ AllRead \/ Written \/ WriteFails \/ AllSent \/ CloseConn
  <2>1. pc = "read" => cmd = "dump"
    BY DEF ListenInv, CommandInv, Resolving
  <2> QED BY <1>5, <2>1 DEF Read, AllRead, NextService, Written, WriteFails, AllSent, CloseConn, MorePackets
<1> QED BY <1>2, <1>3, <1>4, <1>5 DEF Call, Library

\* A probe is built at the time it says, and waits for its pause only.
LEMMA NextFresh ==
  ASSUME ListenInv, Next
  PROVE  Fresh'
<1> USE Times DEF ListenInv, CommandInv, Fresh, Writing, ProbeIsRecent, TimePacket
<1>1. CASE Call
  <2>1. /\ cmd' = cmd /\ packet' = packet /\ pc' \notin {"arm", "settle", "build", "select", "stop"}
        /\ (cmd = "listen" => sent' = sent) /\ (pc' = "write" => cmd = "send")
        /\ (pc' = "subscribe" => cmd = "listen")
        /\ (cmd = "listen" /\ pc \in {"write", "select", "build", "stop", "close", "done", "killed"} => pc' = "done")
    BY <1>1, CallPaced
  <2> QED BY <2>1
<1>2. CASE Find \/ Interrupt
  <2>1. /\ UNCHANGED <<cmd, sent, packet, written>>
        /\ \/ pc = "find" /\ pc' \in {"find", "connect", "done"}
           \/ pc' = pc /\ now' = now
           \/ pc' = "killed"
    BY <1>2 DEF Find, ScanMatches, Found, ScanEmpty, ScanFails, GiveUp, NotFound, Fail, Interrupt, Goto,
       connVars, found, params, listenVars
  <2> QED BY <2>1
<1>3. CASE SubscribeFails \/ Subscribe \/ Arm \/ SettleDown
  BY <1>3 DEF SubscribeFails, Subscribe, Arm, SettleDown, Goto, GotoWithError, found, params, listenVars, NoPacket
<1>4. CASE Build
  <2>1. /\ pc = "build" /\ pc' = "write" /\ cmd' = cmd /\ packet'.instant = now
        /\ now' \in {now, now + Gap}
    BY <1>4 DEF Build, Goto, params
  <2> QED BY <2>1
<1>5. ASSUME NEW lag \in 0 .. MaxLag, Probe(lag) PROVE Fresh'
  <2>1. /\ Writing /\ pc' = "build" /\ cmd' = cmd /\ packet' = packet
        /\ written' = now + lag /\ lag \in Nat /\ lag <= MaxLag
    BY <1>5 DEF Probe, params
  <2>2. written' - packet.instant <= Gap + MaxLag
    BY <2>1
  <2> QED BY <2>1, <2>2
<1>6. CASE ProbeFails \/ Wait \/ Tick \/ Elapsed \/ SignalReceived \/ Unhook
  <2>1. /\ UNCHANGED <<cmd, sent, packet, written>> /\ pc \in {"build", "write", "select", "stop"}
        /\ cmd = "listen"
        /\ pc' \in {"select", "stop", "close"}
    BY <1>6 DEF ProbeFails, Wait, Tick, Elapsed, SignalReceived, Unhook, Goto, GotoWithError, connVars, found,
       params, listenVars
  <2> QED BY <2>1
<1> QED BY <1>1, <1>2, <1>3, <1>4, <1>5, <1>6 DEF Next, Command, Listen

\* A listening that has ended stays as it was.
LEMMA ListenedKept ==
  ASSUME ListenInv, UNCHANGED <<cmd, now, duration, since, written, heeded, sent>>, Listened' => Listened
  PROVE  ListensLongEnough'
BY DEF ListenInv, Paced, ListensLongEnough, ProbeTime

\* One that its deadline ends was long enough.
LEMMA ElapsedPaced ==
  ASSUME ListenInv, Elapsed
  PROVE  ListensLongEnough'
<1>1. pc = "select" /\ now >= timer /\ UNCHANGED <<now, duration, since, timer, written, sent, heeded>>
  BY DEF Elapsed, Goto, found, listenVars, sigVars
<1>2. since + duration <= timer /\ (sent > 0 => written + duration <= timer + ProbeTime)
  BY <1>1 DEF ListenInv, Paced
<1>3. TypeOK /\ ProbeTime' = ProbeTime
  BY <1>1 DEF ListenInv, CommandInv, ProbeTime
<1>4. now - since >= duration /\ (sent > 0 => now - written >= duration - ProbeTime)
  BY <1>1, <1>2, <1>3, Times
<1> QED BY <1>1, <1>3, <1>4 DEF ListensLongEnough

\* Listening lasts for its time but for the probes.
LEMMA NextPaced ==
  ASSUME ListenInv, Next
  PROVE  Paced'
<1>0. TypeOK /\ Fresh /\ Paced
  BY DEF ListenInv, CommandInv
<1> DEFINE Waiting == pc \in {"settle", "build", "select"} \/ Writing
<1>1. CASE Call
  <2>1. /\ UNCHANGED <<cmd, now, duration, since, timer, written, heeded>>
        /\ pc' \notin {"arm", "settle", "build", "select", "stop"}
        /\ (cmd = "listen" => sent' = sent) /\ (pc' = "write" => cmd = "send")
        /\ (pc' \in {"close", "done"} =>
              err' = TRUE \/ cmd # "listen" \/ (pc = "close" /\ err' = err))
    BY <1>1, CallPaced
  <2>2. Listened' => Listened /\ sent' = sent
    BY <2>1 DEF Listened
  <2>3. ListensLongEnough'
    <3>1. CASE Listened'
      BY <2>1, <2>2, <3>1, ListenedKept
    <3>2. CASE ~Listened'
      BY <3>2 DEF ListensLongEnough
    <3> QED BY <3>1, <3>2
  <2> QED BY <2>1, <2>3 DEF Paced, Writing
<1>2. CASE Find
  <2>1. pc' \in {"find", "connect", "done"} /\ (pc' = "done" => err' = TRUE)
    BY <1>2 DEF Find, ScanMatches, Found, ScanEmpty, ScanFails, GiveUp, NotFound, Fail, connVars
  <2> QED BY <2>1 DEF Paced, Writing, ListensLongEnough, Listened
<1>3. CASE Interrupt
  <2>1. /\ UNCHANGED <<cmd, now, duration, since, timer, written, heeded, sent, err>>
        /\ pc' = pc \/ pc' = "killed"
    BY <1>3 DEF Interrupt, Goto, connVars, found, params, listenVars
  <2>2. ListensLongEnough'
    BY <2>1, ListenedKept DEF Listened
  <2>3. ProbeTime' = ProbeTime
    BY <2>1 DEF ProbeTime
  <2> QED BY <1>0, <2>1, <2>2, <2>3 DEF Paced, Writing
<1>4. CASE SubscribeFails
  BY <1>4 DEF SubscribeFails, GotoWithError, Paced, Writing, ListensLongEnough, Listened
<1>5. CASE Subscribe \/ Arm \/ SettleDown
  <2>1. /\ UNCHANGED <<cmd, duration, sent>>
        /\ \/ pc' = "arm" /\ since' = now /\ now' = now
           \/ pc = "arm" /\ pc' = "settle" /\ UNCHANGED <<now, since>> /\ timer' = now + duration
           \/ pc = "settle" /\ pc' = "build" /\ UNCHANGED <<since, timer>> /\ now' \in {now, now + Settle}
    BY <1>5 DEF Subscribe, Arm, SettleDown, Goto, found, params, listenVars
  <2>2. (pc \in {"subscribe", "arm", "settle"} => sent = 0) /\ (pc' = "arm" => pc = "subscribe")
    BY <1>0, <1>5 DEF Fresh, Subscribe, Arm, SettleDown, Goto
  <2>3. ProbeTime' = ProbeTime /\ (sent = 0 => ProbeTime = Settle)
    BY <1>0, <2>1, Times
  <2> QED BY <1>0, <2>1, <2>2, <2>3, Times DEF Paced, Writing, ListensLongEnough, Listened
<1>6. CASE Build
  <2>1. /\ pc = "build" /\ pc' = "write" /\ UNCHANGED <<cmd, duration, since, timer, written, sent>>
        /\ now' \in {now, now + Gap}
    BY <1>6 DEF Build, Goto, found, params
  <2>2. ProbeTime' = ProbeTime
    BY <2>1 DEF ProbeTime
  <2> QED BY <1>0, <2>1, <2>2, Times DEF Paced, Writing, ListensLongEnough, Listened
<1>7. ASSUME NEW lag \in 0 .. MaxLag, Probe(lag) PROVE Paced'
  <2>1. /\ Writing /\ pc' = "build" /\ UNCHANGED <<cmd, duration, since, timer>> /\ sent' = sent + 1
        /\ now' = now + lag /\ written' = now + lag /\ lag \in Nat /\ lag <= MaxLag
    BY <1>7 DEF Probe, Writing, params
  <2>2. ProbeTime' = ProbeTime + Gap + MaxLag
    BY <1>0, <2>1, Times
  <2>3. now + duration <= timer + ProbeTime + Gap /\ since + duration <= timer
    BY <1>0, <2>1 DEF Paced
  <2>4. now' + duration <= timer + ProbeTime'
    BY <1>0, <2>1, <2>2, <2>3, Times
  <2> QED BY <2>1, <2>3, <2>4 DEF Paced, Writing, ListensLongEnough, Listened
<1>8. CASE ProbeFails
  BY <1>8 DEF ProbeFails, GotoWithError, Paced, Writing, ListensLongEnough, Listened
<1>9. CASE Wait \/ Tick
  <2>1. /\ UNCHANGED <<cmd, duration, since, timer, written, sent>> /\ pc' = "select" /\ pc \in {"build", "select"}
    BY <1>9 DEF Wait, Tick, Goto, connVars, found, params, listenVars
  <2>2. ProbeTime' = ProbeTime
    BY <2>1 DEF ProbeTime
  <2> QED BY <1>0, <2>1, <2>2 DEF Paced, Writing, ListensLongEnough, Listened
<1>10. CASE Elapsed
  <2>1. pc' = "stop"
    BY <1>10 DEF Elapsed, Goto
  <2> QED BY <1>10, <2>1, ElapsedPaced DEF Paced, Writing
<1>11. CASE SignalReceived
  BY <1>11 DEF SignalReceived, Goto, Paced, Writing, ListensLongEnough
<1>12. CASE Unhook
  <2>1. /\ UNCHANGED <<cmd, now, duration, since, written, heeded, sent, err>> /\ pc = "stop" /\ pc' = "close"
    BY <1>12 DEF Unhook, Goto, found, params, listenVars
  <2>2. ListensLongEnough'
    BY <2>1, ListenedKept DEF Listened
  <2> QED BY <2>1, <2>2 DEF Paced, Writing
<1> QED BY <1>1, <1>2, <1>3, <1>4, <1>5, <1>6, <1>7, <1>8, <1>9, <1>10, <1>11, <1>12
        DEF Next, Command, Listen

\* A step that changes nothing keeps both.
LEMMA ListenStutter == ListenInv /\ UNCHANGED vars => Paced' /\ Fresh'
BY DEF ListenInv, Paced, Fresh, Writing, ListensLongEnough, Listened, ProbeTime, ProbeIsRecent, TimePacket,
   vars, connVars, params, found, listenVars, sigVars

\* The times of listen hold in every state.
LEMMA ListenInvHolds == Spec => []ListenInv
<1>1. Init => ListenInv
  BY InitInv, ListenInitInv DEF ListenInv
<1>2. ListenInv /\ [Next]_vars => ListenInv'
  BY NextTypes, NextLinked, NextResolving, NextTimed, NextCounted, Stutter, NextPaced, NextFresh, ListenStutter
     DEF ListenInv, CommandInv
<1> QED BY <1>1, <1>2, PTL DEF Spec

\* cmds.go:236-276: a listening nobody interrupts lasts --duration from the subscription
\* on, and waits for the reply to its last probe as long as the probes leave time.
THEOREM ListensLongEnoughHolds == Spec => []ListensLongEnough
<1>1. ListenInv => ListensLongEnough
  BY DEF ListenInv, Paced
<1> QED BY <1>1, ListenInvHolds, PTL

\* cmds.go:251-268: a date or time probe is built after the probe before it was
\* written, and is at most the pause and one write old when it leaves.
THEOREM ProbeIsRecentHolds == Spec => []ProbeIsRecent
<1>1. ListenInv => ProbeIsRecent
  BY DEF ListenInv, Fresh
<1> QED BY <1>1, ListenInvHolds, PTL

----------------------------------------------------------------------------
(* A command moves forward: the measure behind CommandEnds.  Liveness itself *)
(* is TLC's; what is proved is that no step of a command can be taken for ever. *)

Stage(l) ==
    CASE l = "find"                       -> 0
      [] l = "connect"                    -> 1
      [] l \in {"pause", "services"}      -> 2
      [] l = "resolve"                    -> 3
      [] l \in {"choose", "chars", "read"} -> 4
      [] l = "subscribe"                  -> 5
      [] l = "arm"                        -> 6
      [] l = "settle"                     -> 7
      [] l \in {"build", "write"}         -> 8
      [] l = "select"                     -> 9
      [] l = "stop"                       -> 10
      [] l = "close"                      -> 11
      [] OTHER                            -> 12

One(b) == IF b THEN 1 ELSE 0

Place(l) == CASE l = "choose" -> 0 [] l = "chars" -> 1 [] OTHER -> 2

\* How far the loop of a stage is, and how far it can go.
Turn ==
    CASE Stage(pc) \in {0, 9} -> now
      [] Stage(pc) = 2        -> 2 * attempt + One(pc = "pause")
      [] Stage(pc) = 4        -> 3 * next + Place(pc)
      [] Stage(pc) = 8        -> 2 * sent + One(pc = "write" /\ cmd = "listen")
      [] OTHER                -> 0

MaxTurn ==
    CASE Stage(pc) = 0 -> timeout + MaxLag
      [] Stage(pc) = 9 -> timer
      [] Stage(pc) = 2 -> 2 * MaxAttempts + 1
      [] Stage(pc) = 4 -> 3 * Len(table) + 5
      [] Stage(pc) = 8 -> 2 * MaxPackets + 1
      [] OTHER         -> 0

\* A later stage, a later turn of the same stage, within its bound, or one
\* characteristic less to read.
Forward ==
    \/ Stage(pc') > Stage(pc)
    \/ Stage(pc') = Stage(pc) /\ Turn' > Turn /\ Turn' <= MaxTurn'
    \/ pc = "read" /\ UNCHANGED <<pc, next>> /\ unread' \subseteq unread /\ unread' # unread

AlwaysForward == [][Command => Forward]_vars

\* The stages, one by one.
LEMMA Stages ==
  /\ Stage("find") = 0 /\ Stage("connect") = 1 /\ Stage("pause") = 2 /\ Stage("services") = 2
  /\ Stage("resolve") = 3 /\ Stage("choose") = 4 /\ Stage("chars") = 4 /\ Stage("read") = 4
  /\ Stage("subscribe") = 5 /\ Stage("arm") = 6 /\ Stage("settle") = 7
  /\ Stage("build") = 8 /\ Stage("write") = 8 /\ Stage("select") = 9
  /\ Stage("stop") = 10 /\ Stage("close") = 11 /\ Stage("done") = 12
BY DEF Stage

\* A search goes forward: each window takes time, and the deadline bounds it.
LEMMA FindForward ==
  ASSUME CommandInv, Find, FindKeepsTime'
  PROVE  Forward
<1>1. pc = "find" /\ now \in Nat /\ timeout \in Nat /\ MaxLag \in Nat /\ FindMin \in Nat \ {0}
  BY SessionAssumption DEF CommandInv, TypeOK, Find, ScanMatches, Found, ScanEmpty, ScanFails, GiveUp, NotFound
<1>2. ASSUME NEW lag \in 0 .. MaxLag, ScanEmpty(lag) PROVE Forward
  <2>1. pc' = "find" /\ now' = now + Window + lag /\ Window >= FindMin /\ opened' = opened /\ timeout' = timeout
    BY <1>2 DEF ScanEmpty, connVars, found
  <2>2. Window \in Int /\ lag \in Nat
    BY <1>1, <1>2, WindowFits DEF CommandInv
  <2>3. now' > now
    BY <1>1, <2>1, <2>2
  <2>4. now' <= timeout' + MaxLag
    BY <1>1, <2>1 DEF FindKeepsTime, CommandInv, Linked
  <2> QED BY <1>1, <2>1, <2>3, <2>4, Stages DEF Forward, Turn, MaxTurn
<1>3. CASE (\E d \in {1, Window} : ScanMatches(d)) \/ ScanFails \/ GiveUp
  <2>1. pc' \in {"connect", "done"}
    BY <1>3 DEF ScanMatches, Found, ScanFails, GiveUp, NotFound, Fail
  <2> QED BY <1>1, <2>1, Stages DEF Forward
<1> QED BY <1>2, <1>3 DEF Find

\* A step of the loops over the services goes to a later place in them.
LEMMA LoopForward ==
  ASSUME CommandInv, CommandInv', pc \in {"choose", "chars", "read"}, UNCHANGED table,
         \/ next' = next + 1 /\ pc' = "choose"
         \/ next' = next /\ pc = "choose" /\ pc' = "chars"
         \/ next' = next /\ pc = "chars" /\ pc' = "read"
  PROVE  Forward
<1>1. next \in Nat /\ next' \in Nat /\ Len(table) \in Nat
  <2>1. next \in Nat /\ Len(table) \in Nat
    BY TablesHaveLengths DEF CommandInv
  <2> QED BY <2>1
<1>2. next' <= Len(table) + 1
  BY DEF CommandInv, TypeOK, ConnTypeOK
<1>3. pc' \in {"choose", "chars", "read"} /\ Len(table') = Len(table)
  OBVIOUS
<1>4. Turn = 3 * next + Place(pc) /\ Turn' = 3 * next' + Place(pc') /\ MaxTurn' = 3 * Len(table) + 5
  BY <1>3, Stages DEF Turn, MaxTurn
<1>5. /\ Place(pc) \in 0 .. 2 /\ Place(pc') \in 0 .. 2
      /\ next' = next + 1 \/ (next' = next /\ Place(pc') = Place(pc) + 1)
  BY DEF Place
<1>6. Turn' > Turn /\ Turn' <= MaxTurn'
  BY <1>1, <1>2, <1>4, <1>5
<1>7. Stage(pc') = Stage(pc)
  BY <1>3, Stages
<1> QED BY <1>6, <1>7 DEF Forward

\* Every step of a call goes forward.
LEMMA CallForward ==
  ASSUME CommandInv, CommandInv', Call
  PROVE  Forward
<1> USE DEF found, params, connVars
<1>1. CASE Connected \/ ConnectFails \/ ServicesFail \/ Services \/ OptionsRefused \/ OptionsAccepted
           \/ NoServiceLeft \/ WriteFails \/ AllSent \/ CloseConn
  <2>1. \/ pc = "connect"  /\ pc' \in {"pause", "done"}
        \/ pc = "services" /\ pc' \in {"done", "resolve", "choose"}
        \/ pc = "resolve"  /\ pc' \in {"done", "choose"}
        \/ pc = "choose"   /\ pc' \in {"close", "done"}
        \/ pc = "write"    /\ pc' = "close"
        \/ pc = "close"    /\ pc' = "done"
    BY <1>1 DEF Connected, ConnectFails, ServicesFail, Services, OptionsRefused, OptionsAccepted,
       NoServiceLeft, WriteFails, AllSent, CloseConn, MorePackets, Fail, Abandon
  <2> QED BY <2>1, Stages DEF Forward
<1>2. CASE Wake \/ (NoServices /\ pc' = "pause")
  <2>1. \/ pc = "pause" /\ pc' = "services" /\ attempt' = attempt + 1
        \/ pc = "services" /\ pc' = "pause" /\ attempt' = attempt /\ attempt < MaxAttempts
    BY <1>2 DEF Wake, NoServices, Abandon, Fail
  <2>2. attempt \in Nat /\ attempt' \in 0 .. MaxAttempts /\ MaxAttempts \in Nat
    BY ConnAssumption DEF CommandInv, TypeOK, ConnTypeOK
  <2>3. CASE pc = "pause"
    <3>1. Turn = 2 * attempt + 1 /\ Turn' = 2 * attempt' + 0 /\ MaxTurn' = 2 * MaxAttempts + 1
      BY <2>1, <2>3, Stages DEF Turn, MaxTurn, One
    <3> QED BY <2>1, <2>2, <2>3, <3>1, Stages DEF Forward
  <2>4. CASE pc = "services"
    <3>1. Turn = 2 * attempt + 0 /\ Turn' = 2 * attempt' + 1 /\ MaxTurn' = 2 * MaxAttempts + 1
      BY <2>1, <2>4, Stages DEF Turn, MaxTurn, One
    <3> QED BY <2>1, <2>2, <2>4, <3>1, Stages DEF Forward
  <2> QED BY <2>1, <2>3, <2>4
<1>3. CASE NoServices /\ pc' # "pause"
  <2>1. pc = "services" /\ pc' = "done"
    BY <1>3 DEF NoServices, Abandon, Fail
  <2> QED BY <2>1, Stages DEF Forward
<1>4. CASE SkipService \/ AskChars \/ AllRead
  <2>1. /\ pc \in {"choose", "read"} /\ UNCHANGED table
        /\ \/ next' = next + 1 /\ pc' = "choose"
           \/ next' = next /\ pc = "choose" /\ pc' = "chars"
    BY <1>4 DEF SkipService, AskChars, AllRead, NextService
  <2> QED BY <2>1, LoopForward
<1>5. ASSUME NEW chars, CharsFail \/ Chars(chars) PROVE Forward
  <2>1. /\ pc = "chars" /\ UNCHANGED table
        /\ \/ next' = next + 1 /\ pc' = "choose"
           \/ next' = next /\ pc' = "read"
           \/ pc' \in {"done", "write", "subscribe"}
    BY <1>5 DEF CharsFail, Chars, DumpChars, UseService, PassService, Use, NextService, Abandon, Fail
  <2>2. CASE pc' \in {"done", "write", "subscribe"}
    BY <2>1, <2>2, Stages DEF Forward
  <2> QED BY <2>1, <2>2, LoopForward
<1>6. ASSUME NEW c \in unread, Read(c) PROVE Forward
  BY <1>6 DEF Read, Forward
<1>7. CASE Written
  <2>1. pc = "write" /\ pc' = "write" /\ cmd = "send" /\ cmd' = "send" /\ sent' = sent + 1
    BY <1>7 DEF Written, MorePackets
  <2>2. sent \in Nat /\ sent' \in 0 .. MaxPackets /\ MaxPackets \in Nat
    BY ConnAssumption DEF CommandInv, TypeOK, ConnTypeOK
  <2>3. Turn = 2 * sent + 0 /\ Turn' = 2 * sent' + 0 /\ MaxTurn' = 2 * MaxPackets + 1
    BY <2>1, Stages DEF Turn, MaxTurn, One
  <2> QED BY <2>1, <2>2, <2>3, Stages DEF Forward
<1>8. Library
  BY DEF Call
<1> QED BY <1>1, <1>2, <1>3, <1>4, <1>5, <1>6, <1>7, <1>8 DEF Library

\* Every step of listening goes forward.
LEMMA ListenForward ==
  ASSUME ListenInv, CommandInv', Listen
  PROVE  Forward
<1> USE DEF found, params, connVars
<1>1. CASE SubscribeFails \/ Subscribe \/ Arm \/ SettleDown \/ ProbeFails \/ Wait \/ Elapsed
           \/ SignalReceived \/ Unhook
  <2>1. \/ pc = "subscribe" /\ pc' \in {"close", "arm"}
        \/ pc = "arm"       /\ pc' = "settle"
        \/ pc = "settle"    /\ pc' = "build"
        \/ pc \in {"build", "write"} /\ pc' \in {"stop", "select"}
        \/ pc = "select"    /\ pc' = "stop"
        \/ pc = "stop"      /\ pc' = "close"
    BY <1>1 DEF SubscribeFails, Subscribe, Arm, SettleDown, ProbeFails, Wait, Elapsed,
       SignalReceived, Unhook, Goto, GotoWithError
  <2> QED BY <2>1, Stages DEF Forward
<1>2. CASE Build \/ \E lag \in 0 .. MaxLag : Probe(lag)
  <2>1. sent \in Nat /\ sent' \in 0 .. MaxPackets /\ MaxPackets \in Nat
    BY ConnAssumption DEF ListenInv, CommandInv, TypeOK, ConnTypeOK
  <2>2. CASE Build
    <3>1. pc = "build" /\ pc' = "write" /\ sent' = sent
      BY <2>2 DEF Build, Goto
    <3>2. Turn = 2 * sent + 0 /\ Turn' \in {2 * sent' + 0, 2 * sent' + 1} /\ MaxTurn' = 2 * MaxPackets + 1
      BY <3>1, Stages DEF Turn, MaxTurn, One
    <3>3. Turn' = 2 * sent' + 1
      <4>1. cmd' = "listen"
        BY <2>2 DEF Build, Goto, ListenInv, Fresh
      <4> QED BY <3>1, <4>1, Stages DEF Turn, One
    <3> QED BY <2>1, <3>1, <3>2, <3>3, Stages DEF Forward
  <2>3. CASE \E lag \in 0 .. MaxLag : Probe(lag)
    <3>1. pc = "write" /\ pc' = "build" /\ cmd = "listen" /\ sent' = sent + 1
      BY <2>3 DEF Probe
    <3>2. Turn = 2 * sent + 1 /\ Turn' = 2 * sent' + 0 /\ MaxTurn' = 2 * MaxPackets + 1
      BY <3>1, Stages DEF Turn, MaxTurn, One
    <3> QED BY <2>1, <3>1, <3>2, Stages DEF Forward
  <2> QED BY <1>2, <2>2, <2>3
<1>3. CASE Tick
  <2>1. pc = "select" /\ pc' = "select" /\ now' = now + 1 /\ now < timer /\ timer' = timer
    BY <1>3 DEF Tick, listenVars
  <2>2. now \in Nat /\ timer \in Nat
    BY DEF ListenInv, CommandInv, TypeOK
  <2>3. Turn = now /\ Turn' = now' /\ MaxTurn' = timer'
    BY <2>1, Stages DEF Turn, MaxTurn
  <2> QED BY <2>1, <2>2, <2>3, Stages DEF Forward
<1> QED BY <1>1, <1>2, <1>3 DEF Listen

\* No step of a command can be taken for ever: each leads to a later stage, a later
\* turn of a loop whose turns are bounded, or leaves less to read.
THEOREM AlwaysForwardHolds == Spec => AlwaysForward
<1>1. ListenInv /\ CommandInv' /\ [Next]_vars => [Command => Forward]_vars
  BY FindForward, CallForward, ListenForward DEF Command, ListenInv, CommandInv, Timed
<1> QED BY <1>1, ListenInvHolds, CommandInvHolds, PTL DEF Spec, AlwaysForward
=============================================================================
