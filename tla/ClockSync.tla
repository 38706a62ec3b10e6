------------------------------ MODULE ClockSync ------------------------------
(***************************************************************************)
(* Sending packets (cli/send.go: withSender, sender.Bytes, sendPackets) and *)
(* what the time and date commands send (cli/clock.go).  Host time passes   *)
(* while the program connects, sleeps and writes; the clock keeps time of   *)
(* its own, which the packets set.  The link itself, and its closing, are   *)
(* Session's.                                                               *)
(***************************************************************************)
EXTENDS Integers, Sequences

CONSTANTS
    TicksPerSecond,
    SecondsPerDay,
    Gap,          \* --gap, in ticks
    MaxConnect,   \* bound: ticks Find and Connect take
    MaxLag,       \* bound: ticks a write takes to reach the device
    Starts,       \* host times at which a command may start
    Skews,        \* how far ahead of the host the clock may be before
    Plans         \* what commands send: sequences of Kinds

\* A date or time packet built inside fn, a date packet built before
\* withSender, or a packet that has nothing to do with time.
Kinds == {"date", "time", "early_date", "other"}

ASSUME ClockSyncAssumption ==
    /\ TicksPerSecond \in Nat \ {0} /\ SecondsPerDay \in Nat \ {0}
    /\ Gap \in Nat /\ MaxConnect \in Nat /\ MaxLag \in Nat
    /\ Starts \subseteq Nat /\ Skews \subseteq Int
    /\ Plans \subseteq Seq(Kinds)
    /\ \A p \in Plans : p # <<>>
    /\ \A p \in Plans : \A i \in 1 .. Len(p) : p[i] = "early_date" => Len(p) = 1

TicksPerDay == TicksPerSecond * SecondsPerDay

Day(t)        == t \div TicksPerDay
SecondOf(t)   == (t \div TicksPerSecond) % SecondsPerDay
NextSecond(t) == (t \div TicksPerSecond + 1) * TicksPerSecond

VARIABLES
    pc,         \* where the command is
    dry,        \* --dry-run
    host,       \* the computer's time
    todo,       \* what fn still has to send
    packet,     \* the packet being sent: what it says and the instant it means
    sent,       \* sender.sent
    err,        \* fn failed, or connect did
    skew,       \* clock time minus host time
    plan        \* all that fn sends

vars == <<pc, dry, host, todo, packet, sent, err, skew, plan>>

NoPacket == [kind |-> "none", instant |-> 0]
Steps    == {"start", "connect", "build", "gap", "write", "done"}

TypeOK ==
    /\ pc \in Steps
    /\ dry \in BOOLEAN
    /\ host \in Nat
    /\ todo \in Seq(Kinds)
    /\ packet \in [kind : Kinds \cup {"none"}, instant : Nat]
    /\ sent \in 0 .. Len(plan)
    /\ err \in BOOLEAN
    /\ skew \in Int
    /\ plan \in Plans

Init ==
    /\ pc = "start"
    /\ dry \in BOOLEAN
    /\ host \in Starts
    /\ todo \in Plans
    /\ packet = NoPacket
    /\ sent = 0
    /\ err = FALSE
    /\ skew \in Skews
    /\ plan = todo

----------------------------------------------------------------------------

Early == Head(todo) = "early_date"

\* Defect: the time command goes on without the date.
DateSkipped ==
    /\ pc = "build" /\ Head(todo) = "date"
    /\ todo' = Tail(todo)
    /\ pc' = IF todo' = <<>> THEN "done" ELSE "build"
    /\ UNCHANGED <<dry, host, packet, sent, err, skew, plan>>

\* SetDate refuses a year it cannot encode: before withSender in the date
\* command, inside fn in the time command.
DateRefused ==
    /\ \/ pc = "start" /\ Early /\ pc' = "done"
       \/ pc = "build" /\ Head(todo) = "date" /\ pc' = "done"
    /\ err' = TRUE
    /\ UNCHANGED <<dry, host, todo, packet, sent, skew, plan>>

\* The date command reads the clock before withSender.
Start ==
    /\ pc = "start"
    /\ packet' = IF Early THEN [kind |-> "early_date", instant |-> host] ELSE packet
    /\ pc' = IF dry THEN "build" ELSE "connect"
    /\ UNCHANGED <<dry, host, todo, sent, err, skew, plan>>

Connect(d) ==
    /\ pc = "connect"
    /\ host' = host + d
    /\ pc' = "build"
    /\ UNCHANGED <<dry, todo, packet, sent, err, skew, plan>>

ConnectFails ==
    /\ pc = "connect"
    /\ err' = TRUE
    /\ pc' = "done"
    /\ UNCHANGED <<dry, host, todo, packet, sent, skew, plan>>

\* Defect: the packet sent stays first in line.
BuildAgain ==
    /\ pc = "build" /\ todo # <<>>
    /\ packet' = [kind |-> Head(todo), instant |-> host]
    /\ pc' = "gap"
    /\ UNCHANGED <<dry, host, todo, sent, err, skew, plan>>

\* Defect: the time is sent without waiting for the second it means.
BuildAtOnce ==
    /\ pc = "build" /\ todo # <<>>
    /\ packet' = IF Early THEN packet ELSE [kind |-> Head(todo), instant |-> host]
    /\ todo' = Tail(todo)
    /\ pc' = "gap"
    /\ UNCHANGED <<dry, host, sent, err, skew, plan>>

\* fn makes its next packet.  The time packet is made for the next whole second,
\* which is waited for unless nothing is sent.
Build ==
    /\ pc = "build" /\ todo # <<>>
    /\ LET k    == Head(todo)
           wait == k = "time" /\ ~dry
       IN /\ host' = IF wait THEN NextSecond(host) ELSE host
          /\ packet' = IF Early THEN packet ELSE [kind |-> k, instant |-> host']
    /\ todo' = Tail(todo)
    /\ pc' = "gap"
    /\ UNCHANGED <<dry, sent, err, skew, plan>>

\* sender.Bytes pauses after any previous packet, here between the second
\* boundary and the write.
Pause ==
    /\ pc = "gap"
    /\ host' = IF sent > 0 THEN host + Gap ELSE host
    /\ pc' = "write"
    /\ UNCHANGED <<dry, todo, packet, sent, err, skew, plan>>

\* What the clock does with a packet that reaches it at host time t: a date
\* leaves its time of day alone, a time leaves its date alone.
Apply(t) ==
    LET clock == t + skew IN
    CASE packet.kind \in {"date", "early_date"} ->
           skew' = Day(packet.instant) * TicksPerDay + (clock % TicksPerDay) - t
      [] packet.kind = "time" ->
           skew' = Day(clock) * TicksPerDay + SecondOf(packet.instant) * TicksPerSecond - t
      [] OTHER -> UNCHANGED skew

Sent ==
    /\ sent' = sent + 1
    /\ pc' = IF todo = <<>> THEN "done" ELSE "build"

Write(d) ==
    /\ pc = "write" /\ ~dry
    /\ host' = host + d
    /\ Apply(host')
    /\ Sent
    /\ UNCHANGED <<dry, todo, packet, err, plan>>

WriteFails ==
    /\ pc = "write" /\ ~dry
    /\ err' = TRUE
    /\ pc' = "done"
    /\ UNCHANGED <<dry, host, todo, packet, sent, skew, plan>>

DryWrite ==
    /\ pc = "write" /\ dry
    /\ Sent
    /\ UNCHANGED <<dry, host, todo, packet, err, skew, plan>>

Next ==
    \/ Start \/ DateRefused \/ ConnectFails \/ Build \/ Pause \/ WriteFails \/ DryWrite
    \/ \E d \in 0 .. MaxConnect : Connect(d)
    \/ \E d \in 0 .. MaxLag : Write(d)

Spec == Init /\ [][Next]_vars

----------------------------------------------------------------------------
(* Properties *)

Synced == pc = "done" /\ ~err /\ ~dry
Has(k) == \E i \in 1 .. Len(plan) : plan[i] = k

\* How late the time packet can be: the pause and one write.
Lag == Gap + MaxLag

\* The pause among the first n packets that the last time packet waits out between
\* its second boundary and its write: none when it is the first.
PauseBy(n) == IF \E i \in 2 .. n : plan[i] = "time" THEN Gap ELSE 0

\* After a sync of the time, the clock's time of day is behind the host's by the whole
\* pause, when a date went before, and by the time of one write, and by nothing else:
\* neither the connection, nor the second waited for, nor the date packet counts.
SecondsAreRight ==
    Synced /\ Has("time") => (-skew - PauseBy(Len(plan))) % TicksPerDay \in 0 .. MaxLag

\* After a date packet the clock's day is the host's or a neighbour of it, even
\* when the date was read before the scan; and after a full sync the clock is right
\* or wrong by exactly one day: midnight, the host's or the clock's own, can come
\* between the two packets.
WrongByOneDayAtMost ==
    Synced /\ (Has("date") \/ Has("early_date")) =>
        /\ Day(host + skew) - Day(host) \in {-1, 0, 1}
        /\ Has("time") => \E k \in {-1, 0, 1} : -(skew + k * TicksPerDay) \in 0 .. Lag

----------------------------------------------------------------------------
\* "`time` sends the time packet on a second boundary, so the clock's seconds land
\* within Bluetooth latency of the computer's" (CHANGELOG.md:12), "the write then lands
\* a few tens of ms after the boundary" (clock.go:78-79): MaxLag is that latency.
SecondsLandOnTime == Synced /\ Has("time") => (-skew) % TicksPerDay \in 0 .. MaxLag
=============================================================================
