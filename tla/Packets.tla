------------------------------- MODULE Packets -------------------------------
(***************************************************************************)
(* The packets of lib/xggf and the requests of cli/clock.go and cli/lamp.go *)
(* they are built from, followed the way the raw command invites: a command *)
(* is run with --dry-run, the bytes it prints are typed into raw, with or   *)
(* without their checksum and perhaps with a mistake, and raw frames them.  *)
(***************************************************************************)
EXTENDS Integers, Sequences

CONSTANTS
    Requests,   \* what users ask for
    Typos,      \* bytes typed by mistake
    MaxTypos    \* bound: mistakes in one packet

Byte   == 0 .. 255
Header == 255

YearMin == 2000
YearMax == YearMin + 255

\* Toggles carry their flag in the command byte of a group, or as the first
\* parameter of a command of the display group.
InCommand   == [alarm |-> 4, auto_brightness |-> 5]
InParameter == [display |-> 3, tick |-> 4, transition |-> 5, auto_sync |-> 6]

\* Lamp sections: the values that select one, pick a mode, move a slider (0: none).
Sections == [spectrum |-> [select |-> 0, mode |-> 1, slider |-> 2],
             ambient  |-> [select |-> 1, mode |-> 4, slider |-> 5],
             effect   |-> [select |-> 2, mode |-> 6, slider |-> 0]]

RequestTypes ==
         [cmd : {"date"}, year : Int, month : 1 .. 12, day : 1 .. 31]
    \cup [cmd : {"time"}, parts : Seq(Int)]
    \cup [cmd : {"alarm_set"}, parts : Seq(Int), index : Int, repeat : Int]
    \cup [cmd : {"level", "percent"}, value : Int]
    \cup [cmd : DOMAIN InCommand \cup DOMAIN InParameter \cup {"lamp_power"}, on : BOOLEAN]
    \cup [cmd : {"lamp_mode"}, section : DOMAIN Sections, index : Int]
    \cup [cmd : {"lamp_colour"}, section : DOMAIN Sections, hue : Int, brightness : Int, update : {1, 2}]

ASSUME PacketsAssumption ==
    /\ Requests \subseteq RequestTypes
    /\ Typos \subseteq Byte
    /\ MaxTypos \in Nat

----------------------------------------------------------------------------
(* packet.go *)

Refused == <<>>

Sum7(b) == b[1] + b[2] + b[3] + b[4] + b[5] + b[6] + b[7]

\* Defect: the sum instead of its complement.
PlainSum(body) == Sum7(body) % 256

Checksum(body) == (-Sum7(body)) % 256

New(group, cmd, p1, p2, p3, p4) ==
    <<Header, group, cmd, p1, p2, p3, p4,
      Checksum(<<Header, group, cmd, p1, p2, p3, p4>>)>>

Valid(p) == p[1] = Header /\ (Sum7(p) + p[8]) % 256 = 0

\* Defect: eight bytes are taken as they are.
ParseTrusting(raw) ==
    CASE Len(raw) = 7 /\ raw[1] = Header -> Append(raw, Checksum(raw))
      [] Len(raw) = 8 /\ raw[1] = Header -> raw
      [] OTHER                           -> Refused

\* Defect: every packet gets a checksum appended.
ParseAppending(raw) ==
    IF Len(raw) \in 7 .. 8 /\ raw[1] = Header THEN Append(raw, Checksum(raw)) ELSE Refused

ParseHex(raw) ==
    CASE Len(raw) = 7 /\ raw[1] = Header -> Append(raw, Checksum(raw))
      [] Len(raw) = 8 /\ Valid(raw)      -> raw
      [] OTHER                           -> Refused

ToByte(n) == n % 256    \* Go's byte(n)
Flag(on)  == IF on THEN 1 ELSE 0

----------------------------------------------------------------------------
(* clock.go, and the parsers of cli/clock.go.  A builder returns a sequence *)
(* of packets, none when it refuses.                                        *)

\* Defect: the app's own encoding, which wraps.
SetDateWrapped(r) == <<New(1, 0, ToByte(r.year - YearMin), r.month, r.day, 0)>>

SetDate(r) ==
    IF r.year \in YearMin .. YearMax
    THEN <<New(1, 0, ToByte(r.year - YearMin), r.month, r.day, 0)>>
    ELSE Refused

\* parseClockTime: HH:MM, or HH:MM:SS where seconds are allowed.
IsClockTime(parts, allowSeconds) ==
    /\ Len(parts) = 2 \/ (Len(parts) = 3 /\ allowSeconds)
    /\ parts[1] \in 0 .. 23 /\ parts[2] \in 0 .. 59
    /\ Len(parts) = 3 => parts[3] \in 0 .. 59

Second(parts) == IF Len(parts) = 3 THEN parts[3] ELSE 0

SetTime(r) ==
    IF IsClockTime(r.parts, TRUE)
    THEN <<New(1, 1, ToByte(r.parts[1]), ToByte(r.parts[2]), ToByte(Second(r.parts)), 0)>>
    ELSE Refused

AlarmSet(r) ==
    IF IsClockTime(r.parts, FALSE) /\ r.index \in Byte /\ r.repeat \in Byte
    THEN <<New(4, 2, ToByte(r.index), ToByte(r.parts[1]), ToByte(r.parts[2]), ToByte(r.repeat))>>
    ELSE Refused

Brightness(level) ==
    IF level \in 0 .. 7 THEN <<New(5, 2, ToByte(level), 0, 0, 0)>> ELSE Refused

\* math.Round goes up at a half, which only 50 % meets, exactly.
BrightnessFromPercent(pct) ==
    IF pct \in 0 .. 100 THEN Brightness((14 * pct + 100) \div 200) ELSE Refused

Toggle(r) ==
    IF r.cmd \in DOMAIN InCommand
    THEN <<New(InCommand[r.cmd], Flag(r.on), 0, 0, 0, 0)>>
    ELSE <<New(5, InParameter[r.cmd], Flag(r.on), 0, 0, 0)>>

----------------------------------------------------------------------------
(* lamp.go *)

LampPower(r) == <<New(224, 255, Flag(r.on), 0, 0, 0)>>

\* The mode command sends the section first, each in a packet of its own.
LampMode(r) ==
    IF r.index \in Byte
    THEN LET s == Sections[r.section] IN
         <<New(224, 0, s.select, 0, 0, 0), New(224, s.mode, ToByte(r.index), 0, 0, 0)>>
    ELSE Refused

LampSlider(r) ==
    IF Sections[r.section].slider # 0 /\ r.hue \in 0 .. 360 /\ r.brightness \in 0 .. 200
    THEN <<New(224, Sections[r.section].slider, ToByte(r.hue \div 256), ToByte(r.hue),
               ToByte(r.brightness), r.update)>>
    ELSE Refused

Encode(r) ==
    CASE r.cmd = "date"        -> SetDate(r)
      [] r.cmd = "time"        -> SetTime(r)
      [] r.cmd = "alarm_set"   -> AlarmSet(r)
      [] r.cmd = "level"       -> Brightness(r.value)
      [] r.cmd = "percent"     -> BrightnessFromPercent(r.value)
      [] r.cmd = "lamp_power"  -> LampPower(r)
      [] r.cmd = "lamp_mode"   -> LampMode(r)
      [] r.cmd = "lamp_colour" -> LampSlider(r)
      [] OTHER                 -> Toggle(r)

\* The label of a packet: what Describe says it does.
Describe(p) ==
    LET group == p[2]
        cmd   == p[3]
    IN CASE group = 1 /\ cmd = 0 -> <<"date", YearMin + p[4], p[5], p[6]>>
         [] group = 1 /\ cmd = 1 -> <<"time", p[4], p[5], p[6]>>
         [] group = 4 /\ cmd = 2 -> <<"alarm_set", p[5], p[6], p[4], p[7]>>
         [] group = 5 /\ cmd = 2 -> <<"level", p[4]>>
         [] group = 4 /\ cmd \in {0, 1} -> <<"alarm", cmd = 1>>
         [] group = 5 /\ cmd \in {0, 1} -> <<"auto_brightness", cmd = 1>>
         [] group = 5 /\ cmd \in 3 .. 6 ->
              <<CHOOSE t \in DOMAIN InParameter : InParameter[t] = cmd, p[4] = 1>>
         [] OTHER -> <<"unknown">>

----------------------------------------------------------------------------
(* dry run, retype, raw *)

VARIABLES
    pc,        \* "asked", "shown", "typed", "sent", "unframed" or "refused"
    request,
    shown,     \* the packets --dry-run prints
    typed,     \* the bytes typed into raw
    typos,     \* how many of them are wrong
    sent       \* what raw writes

vars == <<pc, request, shown, typed, typos, sent>>

Packet == [1 .. 8 -> Byte]
Body   == [1 .. 7 -> Byte]

TypeOK ==
    /\ pc \in {"asked", "shown", "typed", "sent", "unframed", "refused"}
    /\ request \in Requests
    /\ shown \in Seq(Packet)
    /\ typed \in Packet \cup Body \cup {Refused}
    /\ typos \in 0 .. MaxTypos
    /\ sent \in Packet \cup Body \cup {Refused}

Init ==
    /\ pc = "asked"
    /\ request \in Requests
    /\ shown = Refused /\ typed = Refused /\ sent = Refused
    /\ typos = 0

DryRun ==
    /\ pc = "asked"
    /\ shown' = Encode(request)
    /\ pc' = IF shown' = Refused THEN "refused" ELSE "shown"
    /\ UNCHANGED <<request, typed, typos, sent>>

Retype(i, n) ==
    /\ pc = "shown" /\ i \in 1 .. Len(shown)
    /\ typed' = [j \in 1 .. n |-> shown[i][j]]
    /\ pc' = "typed"
    /\ UNCHANGED <<request, shown, typos, sent>>

Mistype(i, b) ==
    /\ pc = "typed" /\ typos < MaxTypos
    /\ i \in 1 .. Len(typed) /\ typed[i] # b
    /\ typed' = [typed EXCEPT ![i] = b]
    /\ typos' = typos + 1
    /\ UNCHANGED <<pc, request, shown, sent>>

Raw ==
    /\ pc = "typed"
    /\ sent' = ParseHex(typed)
    /\ pc' = IF sent' = Refused THEN "refused" ELSE "sent"
    /\ UNCHANGED <<request, shown, typed, typos>>

\* raw --no-checksum
RawUnframed ==
    /\ pc = "typed"
    /\ sent' = typed
    /\ pc' = "unframed"
    /\ UNCHANGED <<request, shown, typed, typos>>

Next ==
    \/ DryRun \/ Raw \/ RawUnframed
    \/ \E i \in 1 .. 2, n \in 7 .. 8 : Retype(i, n)
    \/ \E i \in 1 .. 8, b \in Typos : Mistype(i, b)

Spec == Init /\ [][Next]_vars

----------------------------------------------------------------------------
(* Properties *)

\* Whatever raw sends framed is a valid packet, and so is all that commands send.
Framed ==
    /\ pc = "sent" => sent \in Packet /\ Valid(sent)
    /\ \A i \in 1 .. Len(shown) : shown[i] \in Packet /\ Valid(shown[i])

\* "eight bytes must carry a correct one" (packet.go:64): one wrong byte among
\* eight is never sent.
TypoIsCaught ==
    pc = "sent" /\ typos = 1 => Len(typed) = 7

\* What a request to the clock means, in the terms of Describe.
Asked(r) ==
    CASE r.cmd = "date"      -> <<"date", r.year, r.month, r.day>>
      [] r.cmd = "time"      -> <<"time", r.parts[1], r.parts[2], Second(r.parts)>>
      [] r.cmd = "alarm_set" -> <<"alarm_set", r.parts[1], r.parts[2], r.index, r.repeat>>
      [] r.cmd = "level"     -> <<"level", r.value>>
      [] OTHER               -> <<r.cmd, r.on>>

ToLamp(r) == r.cmd \in {"lamp_power", "lamp_mode", "lamp_colour"}

\* A level nearest to a percentage.
Nearest(level, pct) ==
    LET Distance(l) == LET d == 100 * l - 7 * pct IN IF d < 0 THEN -d ELSE d
    IN \A other \in 0 .. 7 : Distance(level) <= Distance(other)

\* The label says what was asked for: no value wraps, no two requests to the clock
\* share a packet, and a percentage becomes a level nearest to it.  No packet for
\* the lamp means anything to the clock, or anything else to the lamp: the bytes
\* determine the section, the hue and the brightness.
LabelIsHonest ==
    pc = "shown" =>
        CASE ToLamp(request) ->
               /\ \A i \in 1 .. Len(shown) : Describe(shown[i]) = <<"unknown">>
               /\ \A r \in Requests : Encode(r) = shown => r = request
          [] request.cmd = "percent" ->
               \E level \in 0 .. 7 :
                   Describe(shown[1]) = <<"level", level>> /\ Nearest(level, request.value)
          [] OTHER -> Describe(shown[1]) = Asked(request)
=============================================================================
