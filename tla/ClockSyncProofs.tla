--------------------------- MODULE ClockSyncProofs ---------------------------
(* Theorems about ClockSync for every value of its constants. *)
EXTENDS ClockSync, TLAPS

----------------------------------------------------------------------------
(* The inductive invariant behind SecondsAreRight *)

Taken == IF pc \in {"gap", "write"} THEN sent + 1 ELSE sent

\* What fn has still to send, and what it is sending, are the plan's.
InStep ==
    /\ pc \in {"start", "connect"} => sent = 0
    /\ pc = "build" => todo # <<>>
    /\ pc # "done" =>
         /\ Len(todo) + Taken = Len(plan)
         /\ \A i \in 1 .. Len(todo) : todo[i] = plan[Taken + i]
    /\ pc \in {"connect", "build"} /\ plan[1] = "early_date" => packet.kind = "early_date"
    /\ pc \in {"gap", "write"} => packet.kind = plan[sent + 1]
    /\ pc = "done" /\ ~err => sent = Len(plan)

\* A time packet means a whole second, and the host is past it by the pause, if there
\* was one, and by nothing else.
Timely ==
    pc \in {"gap", "write"} /\ packet.kind = "time" /\ ~dry =>
        /\ packet.instant % TicksPerSecond = 0
        /\ host = packet.instant + (IF pc = "gap" \/ sent = 0 THEN 0 ELSE Gap)

Written(k) == \E i \in 1 .. sent : plan[i] = k

OnTime == Written("time") /\ ~dry => (-skew - PauseBy(sent)) % TicksPerDay \in 0 .. MaxLag

SyncInv == TypeOK /\ InStep /\ Timely /\ OnTime

----------------------------------------------------------------------------
(* Remainders *)

\* Division with remainder, for a positive divisor.
LEMMA Division ==
  ASSUME NEW a \in Nat \ {0}, NEW x \in Int
  PROVE  x = a * (x \div a) + (x % a) /\ x \div a \in Int /\ x % a \in 0 .. a - 1
OBVIOUS

\* A number has one remainder.
LEMMA OneRemainder ==
  ASSUME NEW a \in Nat \ {0}, NEW k \in Int, NEW m \in Int,
         NEW r \in 0 .. a - 1, NEW s \in 0 .. a - 1, a * k + r = a * m + s
  PROVE  r = s
<1>1. a * (k - m) = s - r
  OBVIOUS
<1>2. CASE k > m
  <2>1. k - m >= 1 /\ k - m \in Int
    BY <1>2
  <2>2. a * (k - m) >= a
    BY <2>1
  <2> QED BY <1>1, <2>2
<1>3. CASE k < m
  <2>1. k - m <= -1 /\ k - m \in Int
    BY <1>3
  <2>2. a * (k - m) <= -a
    BY <2>1
  <2> QED BY <1>1, <2>2
<1> QED BY <1>1, <1>2, <1>3

\* Multiples of the divisor do not change a remainder.
LEMMA WholeTurns ==
  ASSUME NEW a \in Nat \ {0}, NEW x \in Int, NEW k \in Int
  PROVE  (x + a * k) % a = x % a
<1> DEFINE y == x + a * k
<1>1. y \in Int /\ a * k \in Int
  OBVIOUS
<1>2. x = a * (x \div a) + (x % a) /\ x \div a \in Int /\ x % a \in 0 .. a - 1
  BY Division
<1>3. y = a * (y \div a) + (y % a) /\ y \div a \in Int /\ y % a \in 0 .. a - 1
  <2> HIDE DEF y
  <2> QED BY <1>1, Division
<1>4. a * (x \div a + k) = a * (x \div a) + a * k
  BY <1>2
<1>5. a * (y \div a) + (y % a) = a * (x \div a + k) + (x % a)
  BY <1>2, <1>3, <1>4
<1>6. x \div a + k \in Int
  BY <1>2
<1> HIDE DEF y
<1>7. y % a = x % a
  BY <1>2, <1>3, <1>5, <1>6, OneRemainder
<1> QED BY <1>7 DEF y

\* Whole multiples of the divisor do not change a remainder.
LEMMA SameRemainder ==
  ASSUME NEW a \in Nat \ {0}, NEW x \in Int, NEW y \in Int, NEW k \in Int, y = x + a * k
  PROVE  y % a = x % a
BY WholeTurns

\* A remainder of a small number is no larger.
LEMMA SmallRemainder ==
  ASSUME NEW a \in Nat \ {0}, NEW x \in Nat
  PROVE  x % a \in 0 .. x
<1>1. x = a * (x \div a) + (x % a) /\ x \div a \in Int /\ x % a \in 0 .. a - 1
  BY Division
<1>2. CASE x \div a >= 0
  <2>1. a * (x \div a) >= 0
    BY <1>1, <1>2
  <2> QED BY <1>1, <2>1
<1>3. CASE x \div a < 0
  <2>1. x \div a <= -1
    BY <1>1, <1>3
  <2>2. a * (x \div a) <= -a
    BY <1>1, <2>1
  <2> QED BY <1>1, <2>2
<1> QED BY <1>1, <1>2, <1>3

\* Seconds and days have a positive length.
LEMMA Days == TicksPerSecond \in Nat \ {0} /\ SecondsPerDay \in Nat \ {0} /\ TicksPerDay \in Nat \ {0}
<1>1. ASSUME NEW a \in Nat \ {0}, NEW b \in Nat \ {0} PROVE a * b \in Nat \ {0}
  BY <1>1
<1> QED BY <1>1, ClockSyncAssumption DEF TicksPerDay

\* The pause and the delays are numbers of ticks.
LEMMA Delays == Gap \in Nat /\ MaxLag \in Nat /\ Lag \in Nat
<1>1. Gap \in Nat /\ MaxLag \in Nat
  BY ClockSyncAssumption
<1> QED BY <1>1 DEF Lag

\* NextSecond is the next whole second.
LEMMA NextSecondIsWhole ==
  ASSUME NEW t \in Nat
  PROVE  NextSecond(t) \in Nat /\ NextSecond(t) % TicksPerSecond = 0
<1> DEFINE q == t \div TicksPerSecond
<1>1. q \in Nat
  BY Days
<1> HIDE DEF q
<1>2. ASSUME NEW a \in Nat \ {0} PROVE a * (q + 1) \in Nat /\ (q + 1) * a = 0 + a * (q + 1) /\ 0 % a = 0
  BY <1>1, <1>2
<1>3. (0 + TicksPerSecond * (q + 1)) % TicksPerSecond = 0 % TicksPerSecond
  BY <1>1, Days, WholeTurns
<1> QED BY <1>2, <1>3, Days DEF NextSecond, q

----------------------------------------------------------------------------
(* What a packet does to the clock's error *)

\* A packet that means the whole second i sets the time of day to i's.
LEMMA TimeOfDay ==
  ASSUME NEW i \in Nat, i % TicksPerSecond = 0
  PROVE  \E k \in Int : SecondOf(i) * TicksPerSecond = i + TicksPerDay * k
<1> DEFINE q == i \div TicksPerSecond
           d == q \div SecondsPerDay
<1>1. q \in Int /\ i = TicksPerSecond * q
  BY Days, Division
<1> HIDE DEF q
<1>2. q = SecondsPerDay * d + (q % SecondsPerDay) /\ d \in Int /\ q % SecondsPerDay \in Int
  BY <1>1, Days, Division
<1>3. SecondOf(i) = q % SecondsPerDay
  BY DEF SecondOf, q
<1> HIDE DEF d
<1>4. ASSUME NEW a \in Int, NEW b \in Int, NEW e \in Int, NEW r \in Int
      PROVE  r * a = a * (b * e + r) + (a * b) * (-e)
  OBVIOUS
<1>5. (q % SecondsPerDay) * TicksPerSecond
        = TicksPerSecond * (SecondsPerDay * d + (q % SecondsPerDay)) + (TicksPerSecond * SecondsPerDay) * (-d)
  BY <1>2, <1>4, Days
<1>6. SecondOf(i) * TicksPerSecond = i + TicksPerDay * (-d)
  BY <1>1, <1>2, <1>3, <1>5 DEF TicksPerDay
<1> QED BY <1>2, <1>6

\* After a time packet the clock's time of day is behind by the packet's delay: by
\* its pause p, and by the write.
LEMMA TimeSets ==
  ASSUME NEW t \in Nat, NEW i \in Nat, i % TicksPerSecond = 0, NEW p \in Nat, i + p <= t, t <= i + p + MaxLag,
         NEW c \in Int, NEW new \in Int, new = Day(c) * TicksPerDay + SecondOf(i) * TicksPerSecond - t
  PROVE  (-new - p) % TicksPerDay \in 0 .. MaxLag
<1>1. PICK k \in Int : SecondOf(i) * TicksPerSecond = i + TicksPerDay * k
  BY TimeOfDay
<1>2. Day(c) \in Int
  BY Days, Division DEF Day
<1>3. ASSUME NEW a \in Int, NEW e \in Int PROVE t - (i + a * k) - e * a - p = (t - i - p) + a * (-k - e)
  BY <1>3
<1>4. -new - p = (t - i - p) + TicksPerDay * (-k - Day(c))
  <2>1. t - (i + TicksPerDay * k) - Day(c) * TicksPerDay - p = (t - i - p) + TicksPerDay * (-k - Day(c))
    BY <1>2, <1>3, Days
  <2>2. -new - p = t - (i + TicksPerDay * k) - Day(c) * TicksPerDay - p
    <3> DEFINE x == Day(c) * TicksPerDay
               y == TicksPerDay * k
    <3>1. x \in Int /\ y \in Int
      BY <1>2, Days
    <3>2. new = x + (i + y) - t
      BY <1>1
    <3> HIDE DEF x, y
    <3>3. -new - p = t - (i + y) - x - p
      BY <3>1, <3>2
    <3> QED BY <3>3 DEF x, y
  <2> QED BY <2>1, <2>2
<1>5. t - i - p \in Nat /\ t - i - p <= MaxLag /\ MaxLag \in Nat /\ -k - Day(c) \in Int
  BY <1>2, Delays
<1>6. (-new - p) % TicksPerDay = (t - i - p) % TicksPerDay
  <2>1. -new - p \in Int /\ t - i - p \in Int
    OBVIOUS
  <2> QED BY <1>4, <1>5, <2>1, Days, SameRemainder
<1>7. (t - i - p) % TicksPerDay \in 0 .. t - i - p
  BY <1>5, Days, SmallRemainder
<1> QED BY <1>5, <1>6, <1>7

\* A date packet leaves the time of day alone.
LEMMA DateKeeps ==
  ASSUME NEW t \in Nat, NEW i \in Nat, NEW old \in Int, NEW p \in Nat,
         NEW new \in Int, new = Day(i) * TicksPerDay + ((t + old) % TicksPerDay) - t
  PROVE  (-new - p) % TicksPerDay = (-old - p) % TicksPerDay
<1> DEFINE c == t + old
           n == c \div TicksPerDay
<1>1. c \in Int
  OBVIOUS
<1>2. c = TicksPerDay * n + (c % TicksPerDay) /\ n \in Int /\ c % TicksPerDay \in Int
  <2> HIDE DEF c
  <2> QED BY <1>1, Days, Division
<1>3. Day(i) \in Int
  BY Days, Division DEF Day
<1> HIDE DEF n
<1>4. ASSUME NEW a \in Int, NEW e \in Int PROVE a * (n - e) = a * n - e * a
  BY <1>2, <1>4
<1>5. TicksPerDay * (n - Day(i)) = TicksPerDay * n - Day(i) * TicksPerDay
  BY <1>3, <1>4, Days
<1>6. -new = -old + TicksPerDay * (n - Day(i))
  <2> DEFINE x == Day(i) * TicksPerDay
             y == TicksPerDay * n
  <2>1. x \in Int /\ y \in Int
    BY <1>2, <1>3, Days
  <2>2. c % TicksPerDay = t + old - y
    BY <1>2, <2>1
  <2>3. TicksPerDay * (n - Day(i)) = y - x
    BY <1>5
  <2>4. new = x + (c % TicksPerDay) - t
    OBVIOUS
  <2> HIDE DEF x, y, c
  <2>5. -new = -old + (y - x)
    BY <2>1, <2>2, <2>4
  <2> QED BY <2>3, <2>5
<1>7. n - Day(i) \in Int
  BY <1>2, <1>3
<1>8. -new - p \in Int /\ -old - p \in Int /\ TicksPerDay * (n - Day(i)) \in Int
  BY <1>7, Days
<1>9. -new - p = (-old - p) + TicksPerDay * (n - Day(i))
  BY <1>6, <1>8
<1> QED BY <1>7, <1>8, <1>9, Days, SameRemainder

----------------------------------------------------------------------------
(* Steps *)

\* A plan has something to send.
LEMMA PlanType == ASSUME TypeOK PROVE plan \in Seq(Kinds) /\ plan # <<>> /\ Len(plan) \in Nat \ {0}
<1>1. plan \in Seq(Kinds) /\ plan # <<>>
  BY ClockSyncAssumption DEF TypeOK
<1> QED BY <1>1

\* A command that has not begun satisfies the invariant.
LEMMA InitInv == Init => SyncInv
<1> SUFFICES ASSUME Init PROVE SyncInv
  OBVIOUS
<1>1. TypeOK
  <2>1. host \in Nat /\ skew \in Int
    BY ClockSyncAssumption DEF Init
  <2>2. plan \in Plans /\ todo = plan
    BY DEF Init
  <2>3. todo \in Seq(Kinds)
    BY <2>2, ClockSyncAssumption
  <2>4. Len(plan) \in Nat
    BY <2>2, <2>3
  <2>5. sent \in 0 .. Len(plan)
    BY <2>4 DEF Init
  <2>6. packet \in [kind : Kinds \cup {"none"}, instant : Nat]
    BY DEF Init, NoPacket
  <2> QED BY <2>1, <2>2, <2>3, <2>5, <2>6 DEF Init, TypeOK, Steps
<1>2. InStep
  <2>1. Len(plan) \in Nat
    BY <1>1, PlanType
  <2> QED BY <2>1 DEF Init, InStep, Taken
<1>3. Timely /\ OnTime
  BY DEF Init, Timely, OnTime, Written
<1> QED BY <1>1, <1>2, <1>3 DEF SyncInv

\* fn's next packet is the plan's next.
LEMMA NextOfPlan ==
  ASSUME SyncInv, pc = "build"
  PROVE  /\ todo # <<>> /\ Len(todo) \in Nat /\ Len(Tail(todo)) = Len(todo) - 1 /\ Tail(todo) \in Seq(Kinds)
         /\ Head(todo) = plan[sent + 1] /\ Head(todo) \in Kinds
         /\ sent + 1 <= Len(plan) /\ sent \in Nat
         /\ \A i \in 1 .. Len(Tail(todo)) : Tail(todo)[i] = plan[sent + 1 + i]
<1> USE DEF SyncInv
<1>1. todo \in Seq(Kinds) /\ todo # <<>> /\ Len(todo) \in Nat \ {0} /\ sent \in Nat
  <2>1. todo \in Seq(Kinds) /\ todo # <<>>
    BY DEF TypeOK, InStep
  <2>2. sent \in Nat
    BY PlanType DEF TypeOK
  <2> QED BY <2>1, <2>2
<1>2. Len(todo) + sent = Len(plan) /\ \A i \in 1 .. Len(todo) : todo[i] = plan[sent + i]
  BY DEF InStep, Taken
<1>3. Len(Tail(todo)) = Len(todo) - 1 /\ Tail(todo) \in Seq(Kinds) /\ Head(todo) = todo[1] /\ Head(todo) \in Kinds
  BY <1>1
<1>4. Head(todo) = plan[sent + 1] /\ sent + 1 <= Len(plan)
  <2>1. 1 \in 1 .. Len(todo) /\ Len(plan) \in Nat
    BY <1>1, PlanType
  <2> QED BY <1>1, <1>2, <1>3, <2>1
<1>5. ASSUME NEW i \in 1 .. Len(Tail(todo)) PROVE Tail(todo)[i] = plan[sent + 1 + i]
  <2>1. i + 1 \in 1 .. Len(todo) /\ Tail(todo)[i] = todo[i + 1]
    BY <1>1, <1>3
  <2>2. todo[i + 1] = plan[sent + (i + 1)] /\ sent + (i + 1) = sent + 1 + i
    BY <1>1, <1>2, <2>1
  <2> QED BY <2>1, <2>2
<1> QED BY <1>1, <1>3, <1>4, <1>5

\* A date read before the scan is all that its command sends.
LEMMA EarlyIsAlone ==
  ASSUME SyncInv, pc = "build", Head(todo) = "early_date"
  PROVE  sent = 0 /\ packet.kind = "early_date"
<1> DEFINE n == Len(plan)
<1>1. sent \in Nat /\ n \in Nat /\ sent + 1 <= n
  BY NextOfPlan, PlanType DEF SyncInv
<1>2. plan[sent + 1] = "early_date" /\ plan \in Plans
  BY NextOfPlan DEF SyncInv, TypeOK
<1> HIDE DEF n
<1>3. sent + 1 \in 1 .. n
  BY ONLY <1>1
<1>4. n = 1
  BY <1>2, <1>3, ClockSyncAssumption DEF n
<1>5. sent = 0 /\ sent + 1 = 1
  BY ONLY <1>1, <1>4
<1> QED BY <1>2, <1>5 DEF SyncInv, InStep

\* Every step keeps the types.
LEMMA NextTypes ==
  ASSUME SyncInv, Next
  PROVE  TypeOK'
<1> USE DEF SyncInv, TypeOK, Steps
<1>1. CASE Start
  <2>1. packet' \in [kind : Kinds \cup {"none"}, instant : Nat]
    BY <1>1 DEF Start, Kinds
  <2> QED BY <1>1, <2>1 DEF Start
<1>2. CASE DateRefused \/ ConnectFails \/ WriteFails
  BY <1>2 DEF DateRefused, ConnectFails, WriteFails
<1>3. ASSUME NEW d \in 0 .. MaxConnect, Connect(d) PROVE TypeOK'
  <2>1. host' \in Nat
    BY <1>3 DEF Connect
  <2> QED BY <1>3, <2>1 DEF Connect
<1>4. CASE Build
  <2>1. host' \in Nat
    BY <1>4, NextSecondIsWhole DEF Build
  <2>2. packet' \in [kind : Kinds \cup {"none"}, instant : Nat] /\ todo' \in Seq(Kinds)
    BY <1>4, <2>1, NextOfPlan DEF Build
  <2> QED BY <1>4, <2>1, <2>2 DEF Build
<1>5. CASE Pause
  <2>1. host' \in Nat
    BY <1>5, Delays DEF Pause
  <2> QED BY <1>5, <2>1 DEF Pause
<1>6. ASSUME pc = "write" PROVE sent + 1 \in 0 .. Len(plan)
  <2>1. Len(todo) + (sent + 1) = Len(plan) /\ Len(todo) \in Nat /\ sent \in Nat /\ Len(plan) \in Nat
    BY <1>6, PlanType DEF InStep, Taken
  <2> QED BY <2>1
<1>7. ASSUME NEW d \in 0 .. MaxLag, Write(d) PROVE TypeOK'
  <2>1. host' \in Nat
    BY <1>7 DEF Write
  <2>2. skew' \in Int
    <3>1. host' + skew \in Int /\ packet.instant \in Nat
      BY <2>1
    <3>2. Day(packet.instant) \in Int /\ Day(host' + skew) \in Int /\ (host' + skew) % TicksPerDay \in Int
      <4>1. ASSUME NEW x \in Int PROVE Day(x) \in Int /\ x % TicksPerDay \in Int
        BY Days, Division DEF Day
      <4> QED BY <3>1, <4>1
    <3>3. SecondOf(packet.instant) \in Int
      <4>1. packet.instant \div TicksPerSecond \in Int
        BY <3>1, Days, Division
      <4> QED BY <4>1, Days, Division DEF SecondOf
    <3>4. /\ Day(packet.instant) * TicksPerDay + ((host' + skew) % TicksPerDay) - host' \in Int
          /\ Day(host' + skew) * TicksPerDay + SecondOf(packet.instant) * TicksPerSecond - host' \in Int
      <4>1. Day(packet.instant) * TicksPerDay \in Int /\ Day(host' + skew) * TicksPerDay \in Int
            /\ SecondOf(packet.instant) * TicksPerSecond \in Int
        BY <3>2, <3>3, Days
      <4> QED BY <2>1, <3>2, <4>1
    <3>5. Apply(host')
      BY <1>7 DEF Write
    <3> QED BY <3>4, <3>5 DEF Apply
  <2>3. pc' \in Steps /\ sent' \in 0 .. Len(plan)
    BY <1>6, <1>7 DEF Write, Sent
  <2> QED BY <1>7, <2>1, <2>2, <2>3 DEF Write
<1>8. CASE DryWrite
  <2>1. pc' \in Steps /\ sent' \in 0 .. Len(plan)
    BY <1>6, <1>8 DEF DryWrite, Sent
  <2> QED BY <1>8, <2>1 DEF DryWrite
<1> QED BY <1>1, <1>2, <1>3, <1>4, <1>5, <1>7, <1>8 DEF Next

\* Connecting, building, pausing and writing keep what is sent in step with the plan.
LEMMA NextInStep ==
  ASSUME SyncInv, Next
  PROVE  InStep'
<1> USE DEF SyncInv
<1>0. Len(plan) \in Nat \ {0} /\ sent \in Nat /\ Len(todo) \in Nat /\ plan' = plan
  <2>1. plan' = plan
    BY DEF Next, Start, DateRefused, ConnectFails, Connect, Build, Pause, Write, WriteFails, DryWrite
  <2> QED BY <2>1, PlanType DEF TypeOK
<1>1. CASE Start
  <2>1. todo[1] = plan[1] /\ todo # <<>> /\ Head(todo) = todo[1]
    <3>1. sent = 0 /\ Len(todo) = Len(plan) /\ 1 \in 1 .. Len(todo) /\ \A i \in 1 .. Len(todo) : todo[i] = plan[i]
      <4>1. sent = 0 /\ Len(todo) + 0 = Len(plan) /\ \A i \in 1 .. Len(todo) : todo[i] = plan[0 + i]
        BY <1>1 DEF Start, InStep, Taken
      <4> QED BY <1>0, <4>1
    <3>2. todo \in Seq(Kinds)
      BY DEF TypeOK
    <3> QED BY <3>1, <3>2
  <2> QED BY <1>0, <1>1, <2>1 DEF Start, InStep, Taken, Early
<1>2. CASE DateRefused \/ ConnectFails \/ WriteFails
  BY <1>2 DEF DateRefused, ConnectFails, WriteFails, InStep, Taken
<1>3. ASSUME NEW d \in 0 .. MaxConnect, Connect(d) PROVE InStep'
  <2>1. Len(todo) + 0 = Len(plan)
    BY <1>3 DEF Connect, InStep, Taken
  <2>2. Len(todo) # 0
    BY <1>0, <2>1
  <2>3. todo # <<>>
    BY <2>2
  <2> QED BY <1>3, <2>3 DEF Connect, InStep, Taken
<1>4. CASE Build
  <2>1. /\ pc = "build" /\ pc' = "gap" /\ todo' = Tail(todo) /\ UNCHANGED <<sent, plan, err>>
        /\ packet' = IF Early THEN packet ELSE [kind |-> Head(todo), instant |-> host']
    BY <1>4 DEF Build
  <2>2. packet'.kind = plan[sent + 1]
    BY <2>1, NextOfPlan, EarlyIsAlone DEF Early
  <2>3. Len(todo') + (sent + 1) = Len(plan)
    <3>1. Len(todo) + sent = Len(plan)
      BY <2>1 DEF InStep, Taken
    <3>2. Len(todo') = Len(todo) - 1
      BY <2>1, NextOfPlan
    <3> QED BY <1>0, <3>1, <3>2
  <2> QED BY <2>1, <2>2, <2>3, NextOfPlan DEF InStep, Taken
<1>5. CASE Pause
  BY <1>5 DEF Pause, InStep, Taken
<1>6. ASSUME pc = "write", Sent, UNCHANGED <<todo, packet, err>> PROVE InStep'
  <2>1. /\ Len(todo) + (sent + 1) = Len(plan) /\ sent' = sent + 1
        /\ \A i \in 1 .. Len(todo) : todo[i] = plan[sent + 1 + i]
    BY <1>6 DEF InStep, Taken, Sent
  <2>2. CASE todo = <<>>
    <3>1. Len(todo) = 0
      BY <2>2
    <3> QED BY <1>0, <1>6, <2>1, <2>2, <3>1 DEF InStep, Sent, Taken
  <2>3. CASE todo # <<>>
    <3>1. pc' = "build" /\ Len(plan) # 1
      <4>1. Len(todo) # 0
        BY <2>3 DEF TypeOK
      <4> QED BY <1>0, <1>6, <2>1, <2>3, <4>1 DEF Sent
    <3>2. plan[1] # "early_date"
      <4>1. plan \in Plans /\ 1 \in 1 .. Len(plan)
        BY <1>0 DEF TypeOK
      <4> QED BY <3>1, <4>1, ClockSyncAssumption
    <3> QED BY <1>0, <1>6, <2>1, <2>3, <3>1, <3>2 DEF InStep, Taken
  <2> QED BY <2>2, <2>3
<1>7. ASSUME NEW d \in 0 .. MaxLag, Write(d) PROVE InStep'
  BY <1>6, <1>7 DEF Write
<1>8. CASE DryWrite
  BY <1>6, <1>8 DEF DryWrite
<1> QED BY <1>1, <1>2, <1>3, <1>4, <1>5, <1>7, <1>8 DEF Next

\* A time packet is built for a second boundary, and only the pause ages it.
LEMMA NextTimely ==
  ASSUME SyncInv, Next
  PROVE  Timely'
<1> USE DEF SyncInv
<1>1. CASE Start \/ DateRefused \/ ConnectFails \/ WriteFails \/ (\E d \in 0 .. MaxConnect : Connect(d))
           \/ (\E d \in 0 .. MaxLag : Write(d)) \/ DryWrite
  <2>1. pc' \notin {"gap", "write"}
    BY <1>1 DEF Start, DateRefused, ConnectFails, WriteFails, Connect, Write, DryWrite, Sent
  <2> QED BY <2>1 DEF Timely
<1>2. CASE Build
  <2>1. SUFFICES ASSUME packet'.kind = "time", ~dry
                 PROVE  packet'.instant % TicksPerSecond = 0 /\ packet'.instant = host' /\ host' \in Nat /\ pc' = "gap"
    BY <1>2 DEF Timely, Build
  <2>2. Head(todo) = "time"
    BY <1>2, <2>1, EarlyIsAlone DEF Build, Early
  <2>3. host' = NextSecond(host) /\ packet' = [kind |-> "time", instant |-> host'] /\ pc' = "gap"
    BY <1>2, <2>1, <2>2 DEF Build, Early
  <2> QED BY <2>3, NextSecondIsWhole DEF TypeOK
<1>3. CASE Pause
  <2>1. SUFFICES ASSUME packet.kind = "time", ~dry
                 PROVE  /\ packet.instant % TicksPerSecond = 0
                        /\ host' = packet.instant + (IF sent = 0 THEN 0 ELSE Gap)
    BY <1>3 DEF Timely, Pause
  <2>2. packet.instant % TicksPerSecond = 0 /\ host = packet.instant + 0
    BY <1>3, <2>1 DEF Timely, Pause
  <2>3. packet.instant \in Nat /\ host \in Nat /\ sent \in Nat /\ host' = IF sent > 0 THEN host + Gap ELSE host
    BY <1>3, PlanType DEF Pause, TypeOK
  <2> QED BY <2>2, <2>3, Delays
<1> QED BY <1>1, <1>2, <1>3 DEF Next

\* Once it is written the time of day is late by the pause and the write, and no later
\* packet of another kind moves it.
LEMMA NextOnTime ==
  ASSUME SyncInv, Next
  PROVE  OnTime'
<1> USE DEF SyncInv
<1>1. CASE Start \/ DateRefused \/ ConnectFails \/ WriteFails \/ (\E d \in 0 .. MaxConnect : Connect(d)) \/ Build \/ Pause
  BY <1>1 DEF Start, DateRefused, ConnectFails, WriteFails, Connect, Build, Pause, OnTime, Written, PauseBy
<1>2. CASE DryWrite
  BY <1>2 DEF DryWrite, OnTime
<1>3. ASSUME NEW d \in 0 .. MaxLag, Write(d) PROVE OnTime'
  <2>1. /\ ~dry /\ host' = host + d /\ sent' = sent + 1 /\ plan' = plan /\ sent \in Nat /\ d \in Nat /\ d <= MaxLag
        /\ packet.kind = plan[sent + 1] /\ packet.kind \in Kinds /\ packet.instant \in Nat /\ host' \in Nat
        /\ skew \in Int /\ skew' \in Int
    <3>1. ~dry /\ host' = host + d /\ sent' = sent + 1 /\ plan' = plan /\ pc = "write"
      BY <1>3 DEF Write, Sent
    <3>2. sent \in Nat /\ d \in Nat /\ d <= MaxLag /\ packet.instant \in Nat /\ host' \in Nat /\ skew \in Int
      BY <3>1, Delays DEF TypeOK
    <3>3. packet.kind = plan[sent + 1]
      BY <3>1 DEF InStep
    <3>4. skew' \in Int
      BY NextTypes DEF TypeOK
    <3>5. sent + 1 \in 1 .. Len(plan)
      <4>1. Len(todo) + (sent + 1) = Len(plan) /\ Len(todo) \in Nat
        BY <3>1 DEF InStep, Taken, TypeOK
      <4> QED BY <3>2, <4>1
    <3>6. plan[sent + 1] \in Kinds
      BY <3>5, PlanType
    <3> QED BY <3>1, <3>2, <3>3, <3>4, <3>6
  <2>2. ASSUME Written("time")', packet.kind # "time" PROVE Written("time")
    <3>1. PICK j \in 1 .. sent + 1 : plan[j] = "time"
      BY <2>1, <2>2 DEF Written
    <3>2. j # sent + 1
      BY <2>1, <2>2, <3>1
    <3>3. j \in 1 .. sent
      BY <2>1, <3>1, <3>2
    <3> QED BY <3>1, <3>3 DEF Written
  <2>3. CASE packet.kind = "time"
    <3> DEFINE p == IF sent = 0 THEN 0 ELSE Gap
    <3>1. packet.instant % TicksPerSecond = 0 /\ host = packet.instant + p
      BY <1>3, <2>1, <2>3 DEF Write, Timely
    <3>2. p \in Nat /\ packet.instant + p <= host' /\ host' <= packet.instant + p + MaxLag
      BY <2>1, <3>1, Delays
    <3>3. skew' = Day(host' + skew) * TicksPerDay + SecondOf(packet.instant) * TicksPerSecond - host'
      BY <1>3, <2>3 DEF Write, Apply
    <3>4. PauseBy(sent)' = p
      <4>1. CASE sent = 0
        BY <2>1, <4>1 DEF PauseBy
      <4>2. CASE sent # 0
        <5>1. sent + 1 \in 2 .. sent + 1
          BY <2>1, <4>2
        <5> QED BY <2>1, <2>3, <4>2, <5>1 DEF PauseBy
      <4> QED BY <4>1, <4>2
    <3> HIDE DEF p
    <3>5. (-skew' - p) % TicksPerDay \in 0 .. MaxLag
      <4>1. host' + skew \in Int
        BY <2>1
      <4> QED BY <2>1, <3>1, <3>2, <3>3, <4>1, TimeSets
    <3> QED BY <3>4, <3>5 DEF OnTime
  <2>4. ASSUME packet.kind # "time" PROVE PauseBy(sent)' = PauseBy(sent) /\ PauseBy(sent) \in Nat
    <3>1. ASSUME NEW j \in 2 .. sent + 1, plan[j] = "time" PROVE j \in 2 .. sent
      BY <2>1, <2>4, <3>1
    <3>2. (\E j \in 2 .. sent + 1 : plan[j] = "time") <=> (\E j \in 2 .. sent : plan[j] = "time")
      BY <2>1, <3>1
    <3> QED BY <2>1, <3>2, Delays DEF PauseBy
  <2>5. CASE packet.kind \in {"date", "early_date"}
    <3>1. skew' = Day(packet.instant) * TicksPerDay + ((host' + skew) % TicksPerDay) - host'
      BY <1>3, <2>5 DEF Write, Apply
    <3>2. (-skew' - PauseBy(sent)) % TicksPerDay = (-skew - PauseBy(sent)) % TicksPerDay
      <4>1. PICK p \in Nat : p = PauseBy(sent)
        BY <2>4, <2>5
      <4>2. (-skew' - p) % TicksPerDay = (-skew - p) % TicksPerDay
        BY <2>1, <3>1, DateKeeps
      <4> QED BY <4>1, <4>2
    <3> QED BY <2>1, <2>2, <2>4, <2>5, <3>2 DEF OnTime
  <2>6. CASE packet.kind = "other"
    <3>1. skew' = skew
      BY <1>3, <2>6 DEF Write, Apply
    <3> QED BY <2>1, <2>2, <2>4, <2>6, <3>1 DEF OnTime
  <2> QED BY <2>1, <2>3, <2>5, <2>6 DEF Kinds
<1> QED BY <1>1, <1>2, <1>3 DEF Next

----------------------------------------------------------------------------

\* What a command has sent, how late its time packet is and what the clock has
\* made of it, in every reachable state.
THEOREM SyncInvHolds == Spec => []SyncInv
<1>1. SyncInv /\ [Next]_vars => SyncInv'
  <2> SUFFICES ASSUME SyncInv, [Next]_vars PROVE SyncInv'
    OBVIOUS
  <2>1. CASE Next
    BY <2>1, NextTypes, NextInStep, NextTimely, NextOnTime DEF SyncInv
  <2>2. CASE UNCHANGED vars
    BY <2>2 DEF vars, SyncInv, TypeOK, InStep, Taken, Timely, OnTime, Written, PauseBy
  <2> QED BY <2>1, <2>2
<1> QED BY <1>1, InitInv, PTL DEF Spec

\* Every variable of a sending command keeps its type.
THEOREM TypeHolds == Spec => []TypeOK
<1>1. SyncInv => TypeOK
  BY DEF SyncInv
<1> QED BY <1>1, SyncInvHolds, PTL

\* clock.go:77, send.go:54: after a sync the clock's seconds are late by the pause, when
\* a date was sent first, and by one write, for any length of the day, the tick and the
\* pause.
THEOREM SecondsAreRightHolds == Spec => []SecondsAreRight
<1>1. SyncInv => SecondsAreRight
  <2> SUFFICES ASSUME SyncInv, Synced, Has("time") PROVE (-skew - PauseBy(Len(plan))) % TicksPerDay \in 0 .. MaxLag
    BY DEF SecondsAreRight
  <2>1. sent = Len(plan) /\ ~dry
    BY DEF Synced, SyncInv, InStep
  <2>2. Written("time")
    BY <2>1 DEF Has, Written
  <2> QED BY <2>1, <2>2 DEF SyncInv, OnTime
<1> QED BY <1>1, SyncInvHolds, PTL

----------------------------------------------------------------------------
(* Why WrongByOneDayAtMost holds: what has passed since the date was read.  It holds *)
(* of commands that take less than a day, and read the date first.                  *)

\* clock.go:67-92, 115-127: the time command sends a date and a time, the date
\* command a date; and connecting, the second to wait for, the pause and the writes
\* take a day at most.
Quick ==
    /\ MaxConnect + MaxLag <= TicksPerDay
    /\ TicksPerSecond + Gap + MaxLag + MaxLag <= TicksPerDay
    /\ \A p \in Plans : \A i \in 1 .. Len(p) : p[i] = "date" => i = 1 /\ p \in {<<"date">>, <<"date", "time">>}

\* Ticks that can have passed since the date was written.
Elapsed ==
    CASE pc = "build" -> 0
      [] pc = "gap"   -> TicksPerSecond
      [] OTHER        -> TicksPerSecond + Gap

\* The clock's day was that of instant x when the date was written, e ticks ago.
Dated(x, e) ==
    /\ x + e <= host /\ host <= x + e + MaxLag
    /\ Day(host + skew - e) = Day(x)
    /\ pc \in {"gap", "write"} => x <= packet.instant

DateInv ==
    /\ pc = "start" => packet = NoPacket
    /\ pc = "connect" /\ packet.kind = "early_date" => packet.instant = host
    /\ pc \in {"build", "gap", "write"} /\ packet.kind = "early_date" =>
           packet.instant <= host /\ host <= packet.instant + MaxConnect
    /\ pc \in {"gap", "write"} /\ packet.kind = "date" => packet.instant = host
    /\ pc # "done" /\ ~dry /\ Written("date") =>
           \E x, e \in Nat : e <= Elapsed /\ Dated(x, e)
    /\ WrongByOneDayAtMost

\* One multiple more is one divisor more, at least.
LEMMA Steeper ==
  ASSUME NEW a \in Nat \ {0}, NEW k \in Int, NEW m \in Int, m < k
  PROVE  m * a + a <= k * a
<1>1. k - m - 1 \in Nat
  OBVIOUS
<1>2. a * (k - m - 1) >= 0
  BY <1>1
<1>3. a * (k - m - 1) = k * a - m * a - a
  OBVIOUS
<1> QED BY <1>2, <1>3

\* An instant is its day and its time of day.
LEMMA DayOf ==
  ASSUME NEW t \in Int
  PROVE  /\ Day(t) \in Int /\ Day(t) * TicksPerDay \in Int /\ TicksPerDay \in Nat \ {0}
         /\ t = Day(t) * TicksPerDay + (t % TicksPerDay) /\ t % TicksPerDay \in 0 .. TicksPerDay - 1
<1>1. t = TicksPerDay * Day(t) + (t % TicksPerDay) /\ Day(t) \in Int /\ t % TicksPerDay \in 0 .. TicksPerDay - 1
  BY Days, Division DEF Day
<1>2. TicksPerDay * Day(t) = Day(t) * TicksPerDay /\ Day(t) * TicksPerDay \in Int
  BY <1>1, Days
<1> QED BY <1>1, <1>2, Days

\* An instant within a day is of that day.
LEMMA DayIs ==
  ASSUME NEW t \in Int, NEW q \in Int, q * TicksPerDay <= t, t < q * TicksPerDay + TicksPerDay
  PROVE  Day(t) = q
<1>1. /\ Day(t) \in Int /\ Day(t) * TicksPerDay \in Int /\ TicksPerDay \in Nat \ {0}
      /\ Day(t) * TicksPerDay <= t /\ t < Day(t) * TicksPerDay + TicksPerDay
  <2>1. /\ Day(t) \in Int /\ Day(t) * TicksPerDay \in Int /\ TicksPerDay \in Nat \ {0}
        /\ t = Day(t) * TicksPerDay + (t % TicksPerDay) /\ t % TicksPerDay \in 0 .. TicksPerDay - 1
    BY DayOf
  <2> DEFINE d == Day(t) * TicksPerDay
             r == t % TicksPerDay
  <2> HIDE DEF d, r
  <2>2. d \in Int /\ t = d + r /\ r \in 0 .. TicksPerDay - 1 /\ TicksPerDay \in Nat
    BY <2>1 DEF d, r
  <2>3. d <= t /\ t < d + TicksPerDay
    BY <2>2
  <2> QED BY <2>1, <2>3 DEF d
<1>2. q * TicksPerDay \in Int
  BY <1>1
<1>3. CASE Day(t) < q
  <2>1. Day(t) * TicksPerDay + TicksPerDay <= q * TicksPerDay
    BY <1>1, <1>3, Steeper
  <2> QED BY <1>1, <1>2, <2>1
<1>4. CASE q < Day(t)
  <2>1. q * TicksPerDay + TicksPerDay <= Day(t) * TicksPerDay
    BY <1>1, <1>4, Steeper
  <2> QED BY <1>1, <1>2, <2>1
<1> QED BY <1>1, <1>3, <1>4

\* Within a day it is the same day, or the next.
LEMMA Later ==
  ASSUME NEW t \in Int, NEW u \in Int, t <= u, u <= t + TicksPerDay
  PROVE  Day(u) \in {Day(t), Day(t) + 1}
<1> DEFINE d == Day(t) * TicksPerDay
           r == t % TicksPerDay
<1>1. /\ Day(t) \in Int /\ d \in Int /\ TicksPerDay \in Nat \ {0} /\ t = d + r /\ r \in 0 .. TicksPerDay - 1
  BY DayOf
<1>2. (Day(t) + 1) * TicksPerDay = d + TicksPerDay
  BY <1>1
<1> HIDE DEF r, d
<1>3. CASE u < d + TicksPerDay
  <2>1. d <= u
    BY <1>1
  <2> QED BY <1>1, <1>3, <2>1, DayIs DEF d
<1>4. CASE u >= d + TicksPerDay
  <2>1. u < (d + TicksPerDay) + TicksPerDay
    BY <1>1
  <2>2. Day(t) + 1 \in Int
    BY <1>1
  <2> QED BY <1>2, <1>4, <2>1, <2>2, DayIs
<1> QED BY <1>1, <1>3, <1>4

\* A date packet that means instant i makes it i's day on the clock.
LEMMA DateSets ==
  ASSUME NEW t \in Nat, NEW i \in Nat, NEW old \in Int,
         NEW new \in Int, new = Day(i) * TicksPerDay + ((t + old) % TicksPerDay) - t
  PROVE  Day(t + new) = Day(i)
<1> DEFINE d == Day(i) * TicksPerDay
           c == t + old
           r == c % TicksPerDay
<1>1. Day(i) \in Int /\ d \in Int /\ TicksPerDay \in Nat \ {0}
  BY DayOf
<1>2. r \in 0 .. TicksPerDay - 1
  <2>1. c \in Int
    OBVIOUS
  <2> HIDE DEF c
  <2> QED BY <2>1, DayOf
<1>3. new = d + r - t
  OBVIOUS
<1> HIDE DEF r, d, c
<1>4. d <= t + new /\ t + new < d + TicksPerDay /\ t + new \in Int
  BY <1>1, <1>2, <1>3
<1> QED BY <1>1, <1>4, DayIs DEF d

\* A whole second, as a time of its day.
LEMMA SecondOfDay ==
  ASSUME NEW i \in Nat, i % TicksPerSecond = 0
  PROVE  /\ SecondOf(i) * TicksPerSecond = i - Day(i) * TicksPerDay
         /\ SecondOf(i) * TicksPerSecond \in 0 .. TicksPerDay - 1
<1>1. SecondOf(i) \in 0 .. SecondsPerDay - 1 /\ SecondsPerDay \in Nat \ {0} /\ TicksPerSecond \in Nat \ {0}
  <2>1. i \div TicksPerSecond \in Int
    BY Days, Division
  <2> QED BY <2>1, Days, Division DEF SecondOf
<1> DEFINE s == SecondOf(i)
<1>2. s * TicksPerSecond >= 0 /\ s * TicksPerSecond <= TicksPerDay - TicksPerSecond /\ s * TicksPerSecond \in Int
  <2>1. ASSUME NEW a \in Nat \ {0}, NEW b \in Nat \ {0}, NEW n \in 0 .. b - 1
        PROVE  n * a >= 0 /\ n * a + a <= b * a /\ n * a \in Int /\ b * a = a * b
    <3>1. n * a + a <= b * a
      BY Steeper
    <3> QED BY <3>1
  <2> HIDE DEF s
  <2>2. s \in 0 .. SecondsPerDay - 1
    BY <1>1 DEF s
  <2>3. s * TicksPerSecond >= 0 /\ s * TicksPerSecond + TicksPerSecond <= TicksPerDay /\ s * TicksPerSecond \in Int
    BY <1>1, <2>1, <2>2 DEF TicksPerDay
  <2> DEFINE w == s * TicksPerSecond
  <2> HIDE DEF w
  <2>4. w >= 0 /\ w + TicksPerSecond <= TicksPerDay /\ w \in Int
    BY <2>3 DEF w
  <2>5. w <= TicksPerDay - TicksPerSecond
    BY <1>1, <2>4, Days
  <2> QED BY <2>4, <2>5 DEF w
<1> DEFINE w == s * TicksPerSecond
<1>3. PICK k \in Int : w = i + TicksPerDay * k
  BY TimeOfDay
<1>4. w \in Int /\ 0 <= w /\ w < TicksPerDay
  <2> HIDE DEF w
  <2>1. w >= 0 /\ w <= TicksPerDay - TicksPerSecond /\ w \in Int
    BY <1>2 DEF w
  <2> QED BY <1>1, <2>1, Days
<1> HIDE DEF s, w
<1>5. TicksPerDay * k \in Int /\ (-k) * TicksPerDay = -(TicksPerDay * k) /\ TicksPerDay \in Nat
  BY Days
<1>6. (-k) * TicksPerDay = i - w /\ (-k) * TicksPerDay \in Int /\ -k \in Int
  BY <1>3, <1>4, <1>5
<1>7. (-k) * TicksPerDay <= i /\ i < (-k) * TicksPerDay + TicksPerDay
  BY <1>4, <1>5, <1>6
<1>8. Day(i) = -k
  BY <1>6, <1>7, DayIs
<1>9. w = i - Day(i) * TicksPerDay /\ w \in 0 .. TicksPerDay - 1
  BY <1>4, <1>5, <1>6, <1>8
<1> QED BY <1>9 DEF w, s

\* After a date and a time, the clock is right or wrong by one day.
LEMMA TimeAfterDate ==
  ASSUME Quick, NEW x \in Nat, NEW e \in Nat,
         host \in Nat, host' \in Nat, packet.instant \in Nat, skew \in Int, skew' \in Int,
         x + e <= host, host <= x + e + MaxLag, e <= TicksPerSecond + Gap, Day(host + skew - e) = Day(x),
         host <= host', host' <= host + MaxLag, packet.instant % TicksPerSecond = 0,
         x <= packet.instant, packet.instant <= host', host' <= packet.instant + Lag,
         skew' = Day(host' + skew) * TicksPerDay + SecondOf(packet.instant) * TicksPerSecond - host'
  PROVE  /\ Day(host' + skew') - Day(host') \in {-1, 0, 1}
         /\ \E k \in {-1, 0, 1} : -(skew' + k * TicksPerDay) \in 0 .. Lag
<1>1. PICK h \in Nat, t \in Nat, i \in Nat, old \in Int, new \in Int :
          h = host /\ t = host' /\ i = packet.instant /\ old = skew /\ new = skew'
  OBVIOUS
<1>2. /\ x + e <= h /\ h <= x + e + MaxLag /\ e <= TicksPerSecond + Gap /\ Day(h + old - e) = Day(x)
      /\ h <= t /\ t <= h + MaxLag /\ i % TicksPerSecond = 0 /\ x <= i /\ i <= t /\ t <= i + Lag
      /\ new = Day(t + old) * TicksPerDay + SecondOf(i) * TicksPerSecond - t
  BY <1>1
<1>3. Gap \in Nat /\ MaxLag \in Nat /\ Lag \in Nat /\ TicksPerSecond \in Nat \ {0} /\ TicksPerDay \in Nat \ {0}
  BY Delays, Days
<1>4. TicksPerSecond + Gap + MaxLag + MaxLag <= TicksPerDay
  BY DEF Quick
<1>5. x + e <= h /\ h <= x + e + MaxLag /\ e <= TicksPerSecond + Gap /\ h <= t /\ t <= h + MaxLag /\ i <= t
  BY <1>2
<1>6. /\ x \in Nat /\ e \in Nat /\ h \in Nat /\ t \in Nat /\ i \in Nat /\ old \in Int
       /\ Gap \in Nat /\ MaxLag \in Nat /\ TicksPerSecond \in Nat /\ TicksPerDay \in Nat
  BY <1>3
<1>7. t <= x + TicksPerDay /\ x <= t /\ i <= x + TicksPerDay
  BY ONLY <1>4, <1>5, <1>6
<1>8. h + old - e \in Int /\ h + old - e <= t + old /\ t + old <= (h + old - e) + TicksPerDay /\ t + old \in Int
  BY ONLY <1>4, <1>5, <1>6
<1>9. /\ Day(t) \in {Day(x), Day(x) + 1} /\ Day(i) \in {Day(x), Day(x) + 1}
      /\ Day(t + old) \in {Day(x), Day(x) + 1}
  <2>1. Day(t) \in {Day(x), Day(x) + 1}
    BY <1>7, Later
  <2>2. Day(i) \in {Day(x), Day(x) + 1}
    BY <1>2, <1>7, Later
  <2>3. Day(t + old) \in {Day(h + old - e), Day(h + old - e) + 1}
    BY <1>8, Later
  <2> QED BY <1>2, <2>1, <2>2, <2>3
<1>10. Day(x) \in Int /\ Day(i) \in Int /\ Day(t + old) \in Int
  BY <1>8, DayOf
<1>11. /\ SecondOf(i) * TicksPerSecond = i - Day(i) * TicksPerDay
      /\ SecondOf(i) * TicksPerSecond \in 0 .. TicksPerDay - 1
  BY <1>2, SecondOfDay
<1> DEFINE q == Day(t + old)
           s == SecondOf(i) * TicksPerSecond
<1>12. Day(t + new) = q
  <2> DEFINE w == q * TicksPerDay
  <2>1. w \in Int /\ q \in Int
    BY <1>8, DayOf
  <2>2. new = w + s - t
    BY <1>2
  <2>3. s \in 0 .. TicksPerDay - 1
    BY <1>11
  <2> HIDE DEF w, q, s
  <2>4. t + new \in Int /\ w <= t + new /\ t + new < w + TicksPerDay
    BY <1>3, <2>1, <2>2, <2>3
  <2> QED BY <2>1, <2>4, DayIs DEF w
<1>13. Day(t + new) - Day(t) \in {-1, 0, 1}
  BY <1>9, <1>10, <1>12
<1>14. \E k \in {-1, 0, 1} : k = Day(i) - q
  BY <1>9, <1>10
<1>15. PICK k \in {-1, 0, 1} : k = Day(i) - q
  BY <1>14
<1>16. k * TicksPerDay = Day(i) * TicksPerDay - q * TicksPerDay
  <2>1. ASSUME NEW a \in Int, NEW b \in Int, NEW n \in Nat PROVE (a - b) * n = a * n - b * n
    OBVIOUS
  <2> QED BY <1>3, <1>10, <1>15, <2>1
<1>17. new + k * TicksPerDay = i - t
  <2> DEFINE w == q * TicksPerDay
             v == Day(i) * TicksPerDay
             u == k * TicksPerDay
  <2>1. w \in Int /\ v \in Int /\ new = w + s - t /\ s = i - v /\ u = v - w
    BY <1>2, <1>8, <1>11, <1>16, DayOf
  <2> HIDE DEF w, v, u, s
  <2>2. new + u = i - t
    BY <2>1
  <2> QED BY <2>2 DEF u
<1>18. -(new + k * TicksPerDay) \in 0 .. Lag
  BY <1>2, <1>3, <1>17
<1> QED BY <1>1, <1>13, <1>15, <1>18

\* The wait for a second boundary takes a second at most.
LEMMA NextSecondIsSoon ==
  ASSUME NEW t \in Nat
  PROVE  \E f \in Nat : f <= TicksPerSecond /\ NextSecond(t) = t + f
<1> DEFINE q == t \div TicksPerSecond
           r == t % TicksPerSecond
<1>1. t = TicksPerSecond * q + r /\ q \in Int /\ r \in 0 .. TicksPerSecond - 1 /\ TicksPerSecond \in Nat \ {0}
  BY Days, Division
<1>2. NextSecond(t) = (q + 1) * TicksPerSecond
  BY DEF NextSecond
<1> HIDE DEF q, r
<1>3. (q + 1) * TicksPerSecond = TicksPerSecond * q + TicksPerSecond /\ TicksPerSecond * q \in Int
  BY <1>1
<1>4. TicksPerSecond - r \in Nat /\ TicksPerSecond - r <= TicksPerSecond
  BY <1>1
<1>5. NextSecond(t) = t + (TicksPerSecond - r)
  BY <1>1, <1>2, <1>3
<1> QED BY <1>4, <1>5

\* The packet in hand is the one the plan has next.
LEMMA Sending ==
  ASSUME SyncInv, pc \in {"gap", "write"}
  PROVE  /\ sent \in Nat /\ Len(plan) \in Nat /\ sent + 1 \in 1 .. Len(plan)
         /\ packet.kind = plan[sent + 1] /\ packet.kind \in Kinds /\ packet.instant \in Nat
         /\ todo = <<>> <=> sent + 1 = Len(plan)
         /\ packet.kind = "early_date" => Len(plan) = 1 /\ sent = 0
<1>1. /\ Len(plan) \in Nat \ {0} /\ sent \in Nat /\ Len(todo) \in Nat /\ todo \in Seq(Kinds) /\ plan \in Plans
      /\ packet.instant \in Nat
  BY PlanType DEF SyncInv, TypeOK
<1>2. Len(todo) + (sent + 1) = Len(plan) /\ packet.kind = plan[sent + 1]
  BY DEF SyncInv, InStep, Taken
<1>3. sent + 1 \in 1 .. Len(plan)
  BY <1>1, <1>2
<1>4. packet.kind \in Kinds
  BY <1>2, <1>3, PlanType DEF SyncInv
<1>5. todo = <<>> <=> Len(todo) = 0
  BY <1>1
<1>6. packet.kind = "early_date" => Len(plan) = 1
  BY <1>1, <1>2, <1>3, ClockSyncAssumption
<1>7. Len(todo) = 0 <=> sent + 1 = Len(plan)
  BY ONLY <1>1, <1>2
<1>8. Len(plan) = 1 => sent = 0
  BY ONLY <1>1, <1>3
<1> QED BY <1>1, <1>2, <1>3, <1>4, <1>5, <1>6, <1>7, <1>8

\* Among quick plans a date comes first, and nothing but a time after it.
LEMMA DateIsFirst ==
  ASSUME Quick, TypeOK, NEW j \in 1 .. Len(plan), plan[j] = "date"
  PROVE  j = 1 /\ (plan = <<"date">> \/ plan = <<"date", "time">>)
BY DEF Quick, TypeOK

\* Before a command begins no date is written.
LEMMA DateInit == Init => DateInv
<1> SUFFICES ASSUME Init PROVE DateInv
  OBVIOUS
<1>1. pc = "start" /\ packet = NoPacket /\ sent = 0
  BY DEF Init
<1>2. ~Written("date") /\ ~Synced
  BY <1>1 DEF Written, Synced
<1> QED BY <1>1, <1>2 DEF DateInv, WrongByOneDayAtMost

\* Up to the next packet that is written.
LEMMA DateWaits ==
  ASSUME Quick, SyncInv, DateInv,
         Start \/ DateRefused \/ ConnectFails \/ WriteFails \/ (\E d \in 0 .. MaxConnect : Connect(d)) \/ Build \/ Pause
  PROVE  DateInv'
<1> USE DEF SyncInv
<1>0. host \in Nat /\ skew \in Int /\ Gap \in Nat /\ MaxLag \in Nat /\ TicksPerSecond \in Nat /\ MaxConnect \in Nat
  BY Delays, Days, ClockSyncAssumption DEF TypeOK
<1>1. CASE Start
  <2>1. pc = "start" /\ sent' = sent /\ pc' \in {"build", "connect"} /\ host' = host
    BY <1>1 DEF Start
  <2>2. sent = 0 /\ packet = NoPacket
    BY <2>1 DEF InStep, DateInv
  <2>3. packet' = [kind |-> "early_date", instant |-> host] \/ packet' = NoPacket
    BY <1>1, <2>2 DEF Start
  <2>4. packet'.kind = "early_date" => packet'.instant = host /\ host <= host + MaxConnect
    BY <1>0, <2>3 DEF NoPacket
  <2>5. ~Written("date")' /\ ~Synced'
    BY <2>1, <2>2 DEF Written, Synced
  <2>6. packet'.kind = "early_date" => packet'.instant <= host' /\ host' <= packet'.instant + MaxConnect
    BY <1>0, <2>1, <2>4
  <2> QED BY <2>1, <2>4, <2>5, <2>6 DEF DateInv, WrongByOneDayAtMost
<1>2. CASE DateRefused \/ ConnectFails \/ WriteFails
  <2>1. pc' = "done" /\ err' = TRUE
    BY <1>2 DEF DateRefused, ConnectFails, WriteFails
  <2> QED BY <2>1 DEF DateInv, WrongByOneDayAtMost, Synced
<1>3. ASSUME NEW d \in 0 .. MaxConnect, Connect(d) PROVE DateInv'
  <2>1. /\ pc = "connect" /\ sent' = sent /\ pc' = "build" /\ host' = host + d /\ packet' = packet
        /\ d \in Nat /\ d <= MaxConnect
    BY <1>0, <1>3 DEF Connect
  <2>2. sent = 0 /\ (packet.kind = "early_date" => packet.instant = host)
    BY <2>1 DEF InStep, DateInv
  <2>3. packet'.kind = "early_date" => packet'.instant <= host' /\ host' <= packet'.instant + MaxConnect
    BY <1>0, <2>1, <2>2
  <2>4. ~Written("date")' /\ ~Synced'
    BY <2>1, <2>2 DEF Written, Synced
  <2> QED BY <2>1, <2>3, <2>4 DEF DateInv, WrongByOneDayAtMost
<1>4. CASE Build
  <2>1. /\ pc = "build" /\ pc' = "gap" /\ UNCHANGED <<dry, sent, skew, plan>>
        /\ host' = (IF Head(todo) = "time" /\ ~dry THEN NextSecond(host) ELSE host)
        /\ packet' = (IF Early THEN packet ELSE [kind |-> Head(todo), instant |-> host'])
    BY <1>4 DEF Build
  <2>2. PICK f \in Nat : f <= TicksPerSecond /\ host' = host + f
    BY <1>0, <2>1, NextSecondIsSoon
  <2>3. Early => sent = 0 /\ packet.kind = "early_date" /\ host' = host
    BY <2>1, EarlyIsAlone DEF Early
  <2>4. packet'.kind = "early_date" => packet'.instant <= host' /\ host' <= packet'.instant + MaxConnect
    BY <2>1, <2>3 DEF DateInv, Early
  <2>5. packet'.kind = "date" => packet'.instant = host'
    BY <2>1, <2>3
  <2>6. ASSUME ~dry, Written("date") PROVE \E x, e \in Nat : e <= Elapsed' /\ Dated(x, e)'
    <3>1. PICK x \in Nat, e \in Nat : e <= 0 /\ x + e <= host /\ host <= x + e + MaxLag /\ Day(host + skew - e) = Day(x)
      BY <2>1, <2>6 DEF DateInv, Dated, Elapsed
    <3>2. ~Early
      BY <2>3, <2>6 DEF Written
    <3>3. Elapsed' = TicksPerSecond
      BY <2>1 DEF Elapsed
    <3>4. host' + skew' - f = host + skew - e
      BY <1>0, <2>1, <2>2, <3>1
    <3>5. x + f <= host' /\ host' <= x + f + MaxLag /\ x <= packet'.instant
      BY <1>0, <2>1, <2>2, <3>1, <3>2
    <3>6. Day(host' + skew' - f) = Day(x)
      BY <3>1, <3>4
    <3> QED BY <2>2, <3>3, <3>5, <3>6 DEF Dated
  <2>7. Written("date")' <=> Written("date")
    BY <2>1 DEF Written
  <2> QED BY <2>1, <2>4, <2>5, <2>6, <2>7 DEF DateInv, WrongByOneDayAtMost, Synced
<1>5. CASE Pause
  <2>1. /\ pc = "gap" /\ pc' = "write" /\ UNCHANGED <<dry, sent, skew, plan, packet>>
        /\ host' = (IF sent > 0 THEN host + Gap ELSE host)
    BY <1>5 DEF Pause
  <2>2. packet.kind = "early_date" \/ packet.kind = "date" => host' = host
    <3>1. packet.kind = "early_date" => sent = 0
      BY <2>1, Sending
    <3>2. packet.kind = "date" => sent + 1 = 1 /\ sent \in Nat
      BY <2>1, Sending, DateIsFirst
    <3> QED BY <2>1, <3>1, <3>2
  <2>3. ASSUME ~dry, Written("date") PROVE \E x, e \in Nat : e <= Elapsed' /\ Dated(x, e)'
    <3>1. PICK x \in Nat, e \in Nat : /\ e <= TicksPerSecond /\ x + e <= host /\ host <= x + e + MaxLag
                                      /\ Day(host + skew - e) = Day(x) /\ x <= packet.instant
      BY <2>1, <2>3 DEF DateInv, Dated, Elapsed
    <3>2. PICK f \in Nat : f <= Gap /\ host' = host + f
      BY <1>0, <2>1
    <3>3. Elapsed' = TicksPerSecond + Gap
      BY <2>1 DEF Elapsed
    <3>4. host' + skew' - (e + f) = host + skew - e
      BY <1>0, <2>1, <3>1, <3>2
    <3>5. x + (e + f) <= host' /\ host' <= x + (e + f) + MaxLag /\ e + f \in Nat /\ e + f <= TicksPerSecond + Gap
      BY <1>0, <3>1, <3>2
    <3> DEFINE g == e + f
    <3>6. g \in Nat /\ Day(host' + skew' - g) = Day(x) /\ x + g <= host' /\ host' <= x + g + MaxLag /\ g <= Elapsed'
      BY <3>1, <3>3, <3>4, <3>5
    <3> HIDE DEF g
    <3> QED BY <2>1, <3>1, <3>6 DEF Dated
  <2>4. Written("date")' <=> Written("date")
    BY <2>1 DEF Written
  <2> QED BY <2>1, <2>2, <2>3, <2>4 DEF DateInv, WrongByOneDayAtMost, Synced
<1> QED BY <1>1, <1>2, <1>3, <1>4, <1>5

\* A packet of another kind than a date leaves no date to be written.
LEMMA WrittenNext ==
  ASSUME Quick, SyncInv, pc = "write", sent' = sent + 1, plan' = plan, Written("date")', todo # <<>>
  PROVE  packet.kind = "date"
<1>1. PICK i \in 1 .. sent + 1 : plan[i] = "date"
  BY DEF Written
<1>2. /\ sent \in Nat /\ Len(plan) \in Nat /\ sent + 1 \in 1 .. Len(plan) /\ packet.kind = plan[sent + 1]
      /\ sent + 1 # Len(plan)
  BY Sending
<1>3. i \in 1 .. Len(plan)
  BY <1>2
<1>4. i = 1 /\ Len(plan) \in {1, 2}
  BY <1>1, <1>3, DateIsFirst DEF SyncInv
<1>5. sent + 1 = 1
  <2> DEFINE n == Len(plan)
  <2>1. sent \in Nat /\ sent + 1 \in 1 .. n /\ sent + 1 # n /\ n \in {1, 2}
    BY <1>2, <1>4
  <2> HIDE DEF n
  <2> QED BY ONLY <2>1
<1> QED BY <1>1, <1>2, <1>4, <1>5

\* What a date packet does, and a time packet after it.
LEMMA DateWrites ==
  ASSUME Quick, SyncInv, DateInv, NEW d \in 0 .. MaxLag, Write(d)
  PROVE  DateInv'
<1> USE DEF SyncInv
<1>1. /\ host \in Nat /\ skew \in Int /\ Gap \in Nat /\ MaxLag \in Nat /\ TicksPerSecond \in Nat /\ MaxConnect \in Nat
      /\ TicksPerDay \in Nat /\ skew' \in Int
  <2>1. skew' \in Int
    BY NextTypes DEF Next, TypeOK
  <2> QED BY <2>1, Delays, Days, ClockSyncAssumption DEF TypeOK
<1>2. /\ pc = "write" /\ ~dry /\ ~dry' /\ host' = host + d /\ sent' = sent + 1
      /\ UNCHANGED <<todo, packet, err, plan>>
      /\ pc' = (IF todo = <<>> THEN "done" ELSE "build") /\ Apply(host')
  BY DEF Write, Sent
<1>3. /\ sent \in Nat /\ Len(plan) \in Nat /\ sent + 1 \in 1 .. Len(plan)
      /\ packet.kind = plan[sent + 1] /\ packet.kind \in Kinds /\ packet.instant \in Nat
      /\ todo = <<>> <=> sent + 1 = Len(plan)
      /\ packet.kind = "early_date" => Len(plan) = 1 /\ sent = 0
  BY <1>2, Sending
<1>4. host' \in Nat /\ d \in Nat /\ d <= MaxLag
  BY <1>1, <1>2
<1>5. packet.kind \in {"date", "early_date"} => Day(host' + skew') = Day(packet.instant)
  <2>1. CASE packet.kind \in {"date", "early_date"}
    <3>1. skew' = Day(packet.instant) * TicksPerDay + ((host' + skew) % TicksPerDay) - host'
      BY <1>2, <2>1 DEF Apply
    <3> QED BY <1>1, <1>3, <1>4, <3>1, DateSets
  <2> QED BY <2>1
<1>6. CASE todo # <<>>
  <2>1. pc' = "build" /\ packet'.kind # "early_date" /\ ~Synced'
    <3>1. pc' = "build" /\ packet' = packet
      BY <1>2, <1>6
    <3>2. sent + 1 # Len(plan)
      BY <1>3, <1>6
    <3>3. packet.kind # "early_date"
      <4> DEFINE n == Len(plan)
      <4>1. (packet.kind = "early_date" => n = 1 /\ sent = 0) /\ sent + 1 # n
        BY <1>3, <3>2
      <4> HIDE DEF n
      <4> QED BY ONLY <4>1
    <3>4. packet'.kind # "early_date"
      BY <3>1, <3>3
    <3>5. ~Synced'
      BY <3>1 DEF Synced
    <3> QED BY <3>1, <3>4, <3>5
  <2>2. ASSUME Written("date")' PROVE \E x, e \in Nat : e <= Elapsed' /\ Dated(x, e)'
    <3>1. packet.kind = "date" /\ packet.instant = host
      BY <1>2, <1>6, <2>2, WrittenNext DEF DateInv
    <3>2. PICK x \in Nat : x = packet.instant
      BY <1>3
    <3>3. host' + skew' - 0 = host' + skew'
      BY <1>1, <1>4
    <3>4. x + 0 <= host' /\ host' <= x + 0 + MaxLag /\ Day(host' + skew' - 0) = Day(x) /\ 0 <= Elapsed'
      BY <1>1, <1>2, <1>4, <1>5, <2>1, <3>1, <3>2, <3>3 DEF Elapsed
    <3>5. Dated(x, 0)'
      BY <2>1, <3>4 DEF Dated
    <3> QED BY <3>4, <3>5
  <2> QED BY <2>1, <2>2 DEF DateInv, WrongByOneDayAtMost
<1>7. CASE todo = <<>>
  <2>1. pc' = "done" /\ sent + 1 = Len(plan)
    BY <1>2, <1>3, <1>7
  <2>2. SUFFICES ASSUME Has("date") \/ Has("early_date")
                 PROVE  /\ Day(host' + skew') - Day(host') \in {-1, 0, 1}
                        /\ Has("time") => \E k \in {-1, 0, 1} : -(skew' + k * TicksPerDay) \in 0 .. Lag
    BY <1>2, <2>1 DEF DateInv, WrongByOneDayAtMost, Has
  <2>3. CASE packet.kind \in {"date", "early_date"}
    <3>1. Len(plan) = 1 /\ plan[1] # "time"
      <4>1. CASE packet.kind = "date"
        <5>1. sent + 1 = 1
          BY <1>3, <4>1, DateIsFirst
        <5> QED BY <1>3, <2>1, <4>1, <5>1
      <4>2. CASE packet.kind = "early_date"
        <5>1. Len(plan) = 1 /\ sent + 1 = 1
          BY <1>3, <4>2
        <5> QED BY <1>3, <4>2, <5>1
      <4> QED BY <2>3, <4>1, <4>2
    <3>2. packet.instant <= host /\ host <= packet.instant + MaxConnect
      BY <1>1, <1>2, <2>3 DEF DateInv
    <3>3. packet.instant <= host' /\ host' <= packet.instant + TicksPerDay
      BY <1>1, <1>2, <1>3, <1>4, <3>2 DEF Quick
    <3>4. Day(host') \in {Day(packet.instant), Day(packet.instant) + 1} /\ Day(packet.instant) \in Int
      <4>1. packet.instant \in Int /\ host' \in Int
        BY <1>3, <1>4
      <4> QED BY ONLY <3>3, <4>1, Later, DayOf
    <3>5. ~Has("time")
      BY <3>1 DEF Has
    <3> QED BY <1>5, <2>3, <3>4, <3>5
  <2>4. CASE packet.kind \notin {"date", "early_date"}
    <3>1. PICK j \in 1 .. Len(plan) : plan[j] \in {"date", "early_date"}
      BY <2>2 DEF Has
    <3>2. plan[j] = "early_date" => Len(plan) = 1
      BY ClockSyncAssumption DEF TypeOK
    <3>3. plan[j] # "early_date"
      <4>1. Len(plan) = 1 => j = sent + 1
        BY ONLY <1>3, <2>1, j \in 1 .. Len(plan)
      <4> QED BY <1>3, <2>4, <3>2, <4>1
    <3>4. j = 1 /\ (plan = <<"date">> \/ plan = <<"date", "time">>)
      BY <3>1, <3>3, DateIsFirst
    <3>5. plan = <<"date", "time">> /\ sent = 1 /\ packet.kind = "time"
      BY <1>3, <2>1, <2>4, <3>4
    <3>6. Written("date")
      BY <3>5 DEF Written
    <3>7. PICK x \in Nat, e \in Nat : /\ e <= TicksPerSecond + Gap /\ x + e <= host /\ host <= x + e + MaxLag
                                      /\ Day(host + skew - e) = Day(x) /\ x <= packet.instant
      BY <1>2, <3>6 DEF DateInv, Dated, Elapsed
    <3>8. packet.instant % TicksPerSecond = 0 /\ packet.instant <= host /\ host <= packet.instant + Gap
      BY <1>1, <1>2, <1>3, <3>5 DEF Timely
    <3>9. host <= host' /\ host' <= host + MaxLag /\ packet.instant <= host' /\ host' <= packet.instant + Lag
      BY <1>1, <1>2, <1>3, <1>4, <3>8 DEF Lag
    <3>10. skew' = Day(host' + skew) * TicksPerDay + SecondOf(packet.instant) * TicksPerSecond - host'
      BY <1>2, <3>5 DEF Apply
    <3> QED BY ONLY Quick, <1>1, <1>3, <1>4, <3>7, <3>8, <3>9, <3>10, TimeAfterDate
  <2> QED BY <2>3, <2>4
<1> QED BY <1>6, <1>7

\* A dry run writes nothing.
LEMMA DateDry ==
  ASSUME SyncInv, DateInv, DryWrite
  PROVE  DateInv'
<1>1. /\ pc = "write" /\ dry /\ dry' = dry /\ UNCHANGED <<packet, todo>>
      /\ pc' = (IF todo = <<>> THEN "done" ELSE "build")
  BY DEF DryWrite, Sent
<1>2. pc' = "build" => packet'.kind # "early_date"
  <2>1. /\ sent \in Nat /\ Len(plan) \in Nat /\ (todo = <<>> <=> sent + 1 = Len(plan))
        /\ packet.kind = "early_date" => Len(plan) = 1 /\ sent = 0
    BY <1>1, Sending
  <2> QED BY <1>1, <2>1
<1> QED BY <1>1, <1>2 DEF DateInv, WrongByOneDayAtMost, Synced

\* What has passed since the date was read, in every reachable state.
THEOREM DateInvHolds == ASSUME Quick PROVE Spec => []DateInv
<1>1. SyncInv /\ DateInv /\ [Next]_vars => DateInv'
  <2> SUFFICES ASSUME SyncInv, DateInv, [Next]_vars PROVE DateInv'
    OBVIOUS
  <2>1. CASE Next
    BY <2>1, DateWaits, DateWrites, DateDry DEF Next
  <2>2. CASE UNCHANGED vars
    BY <2>2 DEF vars, DateInv, WrongByOneDayAtMost, Elapsed, Dated, Written, Synced, Has, Lag
  <2> QED BY <2>1, <2>2
<1> QED BY <1>1, DateInit, SyncInvHolds, PTL DEF Spec

\* clock.go:67-127: after a date packet the clock's day is the host's or a neighbour of
\* it, and after a full sync it is right or wrong by exactly one day; for every length
\* of the day, the second and the pause, when a command takes less than a day.
THEOREM WrongByOneDayAtMostHolds == ASSUME Quick PROVE Spec => []WrongByOneDayAtMost
<1>1. DateInv => WrongByOneDayAtMost
  BY DEF DateInv
<1> QED BY <1>1, DateInvHolds, PTL
=============================================================================
