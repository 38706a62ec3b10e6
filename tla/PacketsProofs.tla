---------------------------- MODULE PacketsProofs ----------------------------
(* Framing and labels: whatever is sent framed is valid, one wrong byte is  *)
(* noticed, and the bytes say what was asked for.                           *)
EXTENDS Packets, TLAPS, SequenceTheorems

\* A sum of bytes is a number.
LEMMA SumIsNumber ==
    ASSUME NEW b, \A j \in 1 .. 7 : b[j] \in Byte
    PROVE  Sum7(b) \in Int
  <1>1. b[1] \in Int /\ b[2] \in Int /\ b[3] \in Int /\ b[4] \in Int
        /\ b[5] \in Int /\ b[6] \in Int /\ b[7] \in Int
    BY DEF Byte
  <1> QED BY <1>1 DEF Sum7

\* Whatever seven bytes sum to, the checksum is a byte.
LEMMA ChecksumIsByte ==
    ASSUME NEW b, \A j \in 1 .. 7 : b[j] \in Byte
    PROVE  Checksum(b) \in Byte
  <1>1. ASSUME NEW n \in Int PROVE (-n) % 256 \in 0 .. 255
    OBVIOUS
  <1>2. Sum7(b) \in Int
    BY SumIsNumber
  <1> QED BY <1>1, <1>2 DEF Checksum, Byte

\* New frames: for all byte arguments the result is a valid packet.
LEMMA NewIsValid ==
    ASSUME NEW g \in Byte, NEW c \in Byte,
           NEW p1 \in Byte, NEW p2 \in Byte, NEW p3 \in Byte, NEW p4 \in Byte
    PROVE  New(g, c, p1, p2, p3, p4) \in Packet /\ Valid(New(g, c, p1, p2, p3, p4))
  <1> DEFINE body == <<Header, g, c, p1, p2, p3, p4>>
             p == New(g, c, p1, p2, p3, p4)
  <1>1. body \in Body
    BY DEF Body, Byte, Header
  <1>2. Checksum(body) \in Byte
    BY <1>1, ChecksumIsByte DEF Body
  <1>3. p = <<Header, g, c, p1, p2, p3, p4, Checksum(body)>>
    BY DEF New
  <1>4. p \in Packet
    BY <1>2, <1>3 DEF Packet, Byte, Header
  <1>5. Sum7(p) = Sum7(body)
    BY <1>3 DEF Sum7
  <1>6. (Sum7(p) + p[8]) % 256 = 0
    <2>1. p[8] = (-Sum7(body)) % 256
      BY <1>3 DEF Checksum
    <2>2. Sum7(body) \in Int
      BY <1>1 DEF Body, Byte, Sum7
    <2> QED BY <1>5, <2>1, <2>2, SMT
  <1> QED BY <1>3, <1>4, <1>6 DEF Valid

\* Two sums that differ by less than 256 are not both multiples of 256.
LEMMA ApartModulo ==
    ASSUME NEW s \in Int, NEW t \in Int, s % 256 = 0, s - t \in -255 .. 255, s # t
    PROVE  t % 256 # 0
  BY SMT

\* No valid packet differs from a valid packet in one byte.
LEMMA OneByteBreaks ==
    ASSUME NEW p \in Packet, Valid(p), NEW i \in 1 .. 8, NEW b \in Byte, p[i] # b
    PROVE  ~Valid([p EXCEPT ![i] = b])
  <1> DEFINE q == [p EXCEPT ![i] = b]
  <1>1. q \in Packet /\ q[i] = b /\ \A j \in 1 .. 8 : j # i => q[j] = p[j]
    BY DEF Packet
  <1> SUFFICES ~Valid(q)
    OBVIOUS
  <1> HIDE DEF q
  <1>2. \A j \in 1 .. 8 : p[j] \in Byte /\ q[j] \in Byte
    BY <1>1 DEF Packet
  <1>3. CASE i = 1
    <2>1. p[1] = Header
      BY DEF Valid
    <2> QED BY <1>1, <1>3, <2>1 DEF Valid
  <1>4. CASE i # 1
    <2> DEFINE x == Sum7(p) + p[8]
               y == Sum7(q) + q[8]
    <2>1. Sum7(p) \in Int /\ Sum7(q) \in Int /\ p[8] \in Int /\ q[8] \in Int
      BY <1>2, SumIsNumber DEF Byte
    <2>2. x - y = p[i] - b
      <3>1. p[1] \in Int /\ p[2] \in Int /\ p[3] \in Int /\ p[4] \in Int
            /\ p[5] \in Int /\ p[6] \in Int /\ p[7] \in Int /\ p[8] \in Int /\ b \in Int
        BY <1>2 DEF Byte
      <3>2. \A j \in 1 .. 8 : q[j] = IF j = i THEN b ELSE p[j]
        BY <1>1
      <3>3. i \in {2, 3, 4, 5, 6, 7, 8}
        BY <1>4
      <3> QED BY <3>1, <3>2, <3>3, SMTT(60) DEF Sum7
    <2>3. p[i] - b \in -255 .. 255 /\ p[i] - b # 0
      <3>1. p[i] \in Byte /\ p[i] # b
        BY <1>2
      <3>2. ASSUME NEW c \in Byte, NEW d \in Byte, c # d
            PROVE  c - d \in -255 .. 255 /\ c - d # 0
        BY <3>2 DEF Byte
      <3> QED BY <3>1, <3>2
    <2>4. x % 256 = 0
      BY DEF Valid
    <2>5. x \in Int /\ y \in Int
      BY <2>1
    <2> HIDE DEF x, y
    <2>6. y % 256 # 0
      BY <2>2, <2>3, <2>4, <2>5, ApartModulo
    <2> QED BY <2>6 DEF Valid, y
  <1> QED BY <1>3, <1>4

----------------------------------------------------------------------------
(* What commands print is framed. *)

Frames == {p \in Packet : Valid(p)}

\* A flag is a byte.
LEMMA FlagIsByte ==
    ASSUME NEW on \in BOOLEAN
    PROVE  Flag(on) \in Byte
  BY DEF Flag, Byte

\* Go's byte(n) is a byte.
LEMMA ToByteIsByte ==
    ASSUME NEW n \in Int
    PROVE  ToByte(n) \in Byte
  BY DEF ToByte, Byte

\* New, as membership in Frames.
LEMMA NewIsFrame ==
    ASSUME NEW g \in Byte, NEW c \in Byte,
           NEW p1 \in Byte, NEW p2 \in Byte, NEW p3 \in Byte, NEW p4 \in Byte
    PROVE  New(g, c, p1, p2, p3, p4) \in Frames
  BY NewIsValid DEF Frames

\* What builders return: nothing, one frame or two.
LEMMA FramesAreASequence ==
    /\ Refused \in Seq(Frames)
    /\ \A f \in Frames : <<f>> \in Seq(Frames)
    /\ \A f, g \in Frames : <<f, g>> \in Seq(Frames)
  BY DEF Refused

\* A clock time is made of numbers.
LEMMA ClockTimeIsNumbers ==
    ASSUME NEW parts, NEW allowSeconds \in BOOLEAN, IsClockTime(parts, allowSeconds)
    PROVE  parts[1] \in Int /\ parts[2] \in Int /\ Second(parts) \in Int
  BY DEF IsClockTime, Second

\* Every builder frames what it is asked for, or refuses.
LEMMA EncodeFrames ==
    ASSUME NEW r \in RequestTypes
    PROVE  Encode(r) \in Seq(Frames)
  <1>0. 0 \in Byte /\ 1 \in Byte /\ 2 \in Byte /\ 4 \in Byte /\ 5 \in Byte
        /\ 224 \in Byte /\ 255 \in Byte
    BY DEF Byte
  <1>1. ASSUME r.cmd = "date"
        PROVE  SetDate(r) \in Seq(Frames)
    <2>1. r.year \in Int /\ r.month \in Byte /\ r.day \in Byte
      <3>1. r \in [cmd : {"date"}, year : Int, month : 1 .. 12, day : 1 .. 31]
        BY <1>1 DEF RequestTypes, InCommand, InParameter
      <3>2. r.year \in Int /\ r.month \in 1 .. 12 /\ r.day \in 1 .. 31
        BY <3>1
      <3> QED BY <3>2 DEF Byte
    <2>2. ToByte(r.year - YearMin) \in Byte
      BY <2>1, ToByteIsByte DEF YearMin
    <2>3. New(1, 0, ToByte(r.year - YearMin), r.month, r.day, 0) \in Frames
      BY <2>1, <2>2, <1>0, NewIsFrame
    <2> QED BY <2>3, FramesAreASequence DEF SetDate
  <1>2. ASSUME r.cmd = "time"
        PROVE  SetTime(r) \in Seq(Frames)
    <2>1. CASE IsClockTime(r.parts, TRUE)
      <3>1. ToByte(r.parts[1]) \in Byte /\ ToByte(r.parts[2]) \in Byte
            /\ ToByte(Second(r.parts)) \in Byte
        BY <2>1, ClockTimeIsNumbers, ToByteIsByte
      <3>2. New(1, 1, ToByte(r.parts[1]), ToByte(r.parts[2]), ToByte(Second(r.parts)), 0) \in Frames
        BY <3>1, <1>0, NewIsFrame
      <3> QED BY <2>1, <3>2, FramesAreASequence DEF SetTime
    <2> QED BY <2>1, FramesAreASequence DEF SetTime
  <1>3. ASSUME r.cmd = "alarm_set"
        PROVE  AlarmSet(r) \in Seq(Frames)
    <2>1. CASE IsClockTime(r.parts, FALSE) /\ r.index \in Byte /\ r.repeat \in Byte
      <3>1. ToByte(r.parts[1]) \in Byte /\ ToByte(r.parts[2]) \in Byte
        BY <2>1, ClockTimeIsNumbers, ToByteIsByte
      <3>2. ToByte(r.index) \in Byte /\ ToByte(r.repeat) \in Byte
        <4>1. r.index \in Int /\ r.repeat \in Int
          BY <2>1 DEF Byte
        <4> QED BY <4>1, ToByteIsByte
      <3>3. New(4, 2, ToByte(r.index), ToByte(r.parts[1]), ToByte(r.parts[2]), ToByte(r.repeat)) \in Frames
        BY <3>1, <3>2, <1>0, NewIsFrame
      <3> QED BY <2>1, <3>3, FramesAreASequence DEF AlarmSet
    <2> QED BY <2>1, FramesAreASequence DEF AlarmSet
  <1>4. ASSUME NEW level \in Int
        PROVE  Brightness(level) \in Seq(Frames)
    <2>1. New(5, 2, ToByte(level), 0, 0, 0) \in Frames
      BY ToByteIsByte, <1>0, NewIsFrame
    <2> QED BY <2>1, FramesAreASequence DEF Brightness
  <1>5. ASSUME NEW pct \in Int
        PROVE  BrightnessFromPercent(pct) \in Seq(Frames)
    <2>1. (14 * pct + 100) \div 200 \in Int
      OBVIOUS
    <2> QED BY <1>4, <2>1, FramesAreASequence DEF BrightnessFromPercent
  <1>6. ASSUME r.on \in BOOLEAN
        PROVE  LampPower(r) \in Seq(Frames)
    <2>1. New(224, 255, Flag(r.on), 0, 0, 0) \in Frames
      BY <1>6, FlagIsByte, <1>0, NewIsFrame
    <2> QED BY <2>1, FramesAreASequence DEF LampPower
  <1>7. ASSUME r.section \in DOMAIN Sections
        PROVE  LampMode(r) \in Seq(Frames)
    <2>1. Sections[r.section].select \in Byte /\ Sections[r.section].mode \in Byte
      BY <1>7 DEF Sections, Byte
    <2>2. CASE r.index \in Byte
      <3>1. ToByte(r.index) \in Byte
        <4>1. r.index \in Int
          BY <2>2 DEF Byte
        <4> QED BY <4>1, ToByteIsByte
      <3>2. New(224, 0, Sections[r.section].select, 0, 0, 0) \in Frames
            /\ New(224, Sections[r.section].mode, ToByte(r.index), 0, 0, 0) \in Frames
        BY <2>1, <3>1, <1>0, NewIsFrame
      <3> QED BY <2>2, <3>2, FramesAreASequence DEF LampMode
    <2> QED BY <2>2, FramesAreASequence DEF LampMode
  <1>8. ASSUME r.cmd = "lamp_colour"
        PROVE  LampSlider(r) \in Seq(Frames)
    <2>1. r.section \in DOMAIN Sections /\ r.update \in Byte /\ r.hue \in Int /\ r.brightness \in Int
      <3>1. r \in [cmd : {"lamp_colour"}, section : DOMAIN Sections, hue : Int,
                   brightness : Int, update : {1, 2}]
        BY <1>8 DEF RequestTypes, InCommand, InParameter
      <3> QED BY <3>1, <1>0
    <2>2. Sections[r.section].slider \in Byte
      BY <2>1 DEF Sections, Byte
    <2>3. r.hue \div 256 \in Int
      BY <2>1
    <2>4. ToByte(r.hue \div 256) \in Byte /\ ToByte(r.hue) \in Byte /\ ToByte(r.brightness) \in Byte
      BY <2>1, <2>3, ToByteIsByte
    <2>5. New(224, Sections[r.section].slider, ToByte(r.hue \div 256), ToByte(r.hue),
               ToByte(r.brightness), r.update) \in Frames
      BY <2>1, <2>2, <2>4, <1>0, NewIsFrame
    <2> QED BY <2>5, FramesAreASequence DEF LampSlider
  <1>9. ASSUME r.on \in BOOLEAN, r.cmd \in DOMAIN InCommand \cup DOMAIN InParameter
        PROVE  Toggle(r) \in Seq(Frames)
    <2>1. r.cmd \in DOMAIN InCommand => InCommand[r.cmd] \in Byte
      BY DEF InCommand, Byte
    <2>2. r.cmd \in DOMAIN InParameter => InParameter[r.cmd] \in Byte
      BY DEF InParameter, Byte
    <2>3. Flag(r.on) \in Byte
      BY <1>9, FlagIsByte
    <2>4. CASE r.cmd \in DOMAIN InCommand
      <3>1. New(InCommand[r.cmd], Flag(r.on), 0, 0, 0, 0) \in Frames
        BY <2>1, <2>3, <2>4, <1>0, NewIsFrame
      <3> QED BY <2>4, <3>1, FramesAreASequence DEF Toggle
    <2>5. CASE r.cmd \notin DOMAIN InCommand
      <3>1. New(5, InParameter[r.cmd], Flag(r.on), 0, 0, 0) \in Frames
        BY <1>9, <2>2, <2>3, <2>5, <1>0, NewIsFrame
      <3> QED BY <2>5, <3>1, FramesAreASequence DEF Toggle
    <2> QED BY <2>4, <2>5
  <1>10. /\ r.cmd \in {"level", "percent"} => r.value \in Int
         /\ r.cmd = "lamp_power" => r.on \in BOOLEAN
         /\ r.cmd = "lamp_mode" => r.section \in DOMAIN Sections
         /\ r.cmd \in DOMAIN InCommand \cup DOMAIN InParameter => r.on \in BOOLEAN
    BY DEF RequestTypes, InCommand, InParameter
  <1>11. r.cmd \in {"date", "time", "alarm_set", "level", "percent", "lamp_power", "lamp_mode", "lamp_colour"}
                   \cup DOMAIN InCommand \cup DOMAIN InParameter
    BY DEF RequestTypes
  <1> QED BY <1>1, <1>2, <1>3, <1>4, <1>5, <1>6, <1>7, <1>8, <1>9, <1>10, <1>11 DEF Encode

----------------------------------------------------------------------------
(* Lengths of what is typed. *)

\* The lengths of what may be typed.
LEMMA Lengths ==
    /\ \A b \in Body : b \in Seq(Byte) /\ Len(b) = 7
    /\ \A p \in Packet : p \in Seq(Byte) /\ Len(p) = 8
    /\ Len(Refused) = 0
  <1>1. ASSUME NEW n \in Nat, NEW b \in [1 .. n -> Byte]
        PROVE  b \in Seq(Byte) /\ Len(b) = n
    BY <1>1
  <1> QED BY <1>1 DEF Body, Packet, Refused

\* ParseHex gives a valid packet or refuses, and eight bytes as they are.
LEMMA ParseHexFrames ==
    ASSUME NEW t \in Packet \cup Body \cup {Refused}
    PROVE  /\ ParseHex(t) # Refused => ParseHex(t) \in Frames
           /\ Len(t) = 8 /\ ParseHex(t) # Refused => Valid(t)
  <1>1. CASE t \in Body /\ t[1] = Header
    <2>1. Checksum(t) \in Byte
      BY <1>1, ChecksumIsByte DEF Body
    <2>2. Len(t) = 7 /\ t \in Seq(Byte)
      BY <1>1, Lengths
    <2> DEFINE p == Append(t, Checksum(t))
    <2>3. p \in Packet /\ p[8] = Checksum(t) /\ \A j \in 1 .. 7 : p[j] = t[j]
      <3>1. p \in Seq(Byte) /\ Len(p) = 8 /\ p[8] = Checksum(t) /\ \A j \in 1 .. 7 : p[j] = t[j]
        <4>1. /\ p \in Seq(Byte) /\ Len(p) = Len(t) + 1 /\ p[Len(t) + 1] = Checksum(t)
              /\ \A j \in 1 .. Len(t) : p[j] = t[j]
          <5>1. ASSUME NEW e \in Byte, NEW u \in Seq(Byte)
                PROVE  /\ Append(u, e) \in Seq(Byte) /\ Len(Append(u, e)) = Len(u) + 1
                       /\ Append(u, e)[Len(u) + 1] = e
                       /\ \A j \in 1 .. Len(u) : Append(u, e)[j] = u[j]
            BY AppendProperties
          <5> QED BY <2>1, <2>2, <5>1
        <4> QED BY <2>2, <4>1
      <3>2. p \in [1 .. Len(p) -> Byte]
        BY <3>1, LenProperties
      <3> QED BY <3>1, <3>2 DEF Packet
    <2>4. ParseHex(t) = p
      BY <1>1, <2>2 DEF ParseHex
    <2> HIDE DEF p
    <2>5. Sum7(p) = Sum7(t)
      BY <2>3 DEF Sum7
    <2>6. Sum7(t) \in Int
      BY <1>1, SumIsNumber DEF Body
    <2>7. (Sum7(p) + p[8]) % 256 = 0
      BY <2>3, <2>5, <2>6 DEF Checksum
    <2>8. Valid(p)
      BY <1>1, <2>3, <2>7 DEF Valid
    <2> QED BY <2>2, <2>3, <2>4, <2>8 DEF Frames
  <1>2. CASE t \in Packet
    <2>1. Len(t) = 8
      BY <1>2, Lengths
    <2> QED BY <1>2, <2>1 DEF ParseHex, Frames
  <1>3. CASE t = Refused \/ (t \in Body /\ t[1] # Header)
    <2>1. Len(t) # 8 /\ ~(Len(t) = 7 /\ t[1] = Header)
      <3>1. CASE t = Refused
        BY <3>1, Lengths
      <3>2. CASE t \in Body /\ t[1] # Header
        <4>1. Len(t) = 7
          BY <3>2, Lengths
        <4> QED BY <3>2, <4>1
      <3> QED BY <1>3, <3>1, <3>2
    <2> QED BY <2>1 DEF ParseHex
  <1> QED BY <1>1, <1>2, <1>3

----------------------------------------------------------------------------
(* The inductive invariant. *)

\* What is typed is right until a byte is mistaken, and wrong with one byte mistaken.
TypedAsCounted ==
    /\ pc \in {"asked", "shown"} => typos = 0
    /\ Len(typed) = 8 => /\ typos = 0 => Valid(typed)
                         /\ typos = 1 => ~Valid(typed)

SentAsParsed == pc = "sent" => sent # Refused /\ sent = ParseHex(typed)

Framing == TypeOK /\ shown \in Seq(Frames) /\ TypedAsCounted /\ SentAsParsed

\* The invariant implies the two properties.
LEMMA FramingFrames ==
    ASSUME Framing
    PROVE  Framed /\ TypoIsCaught
  <1>1. typed \in Packet \cup Body \cup {Refused}
    BY DEF Framing, TypeOK
  <1>2. pc = "sent" => sent \in Frames /\ (Len(typed) = 8 => Valid(typed))
    BY <1>1, ParseHexFrames DEF Framing, SentAsParsed
  <1>3. \A i \in 1 .. Len(shown) : shown[i] \in Frames
    BY ElementOfSeq DEF Framing
  <1>4. pc = "sent" => Len(typed) \in {7, 8}
    <2>1. pc = "sent" => typed # Refused
      BY Lengths DEF Framing, SentAsParsed, ParseHex
    <2> QED BY <1>1, <2>1, Lengths
  <1> QED BY <1>2, <1>3, <1>4 DEF Framed, TypoIsCaught, Framing, TypedAsCounted, Frames

\* It holds before anything is asked.
LEMMA InitFraming ==
    ASSUME Init
    PROVE  Framing
  <1>1. shown \in Seq(Packet) /\ shown \in Seq(Frames) /\ Len(typed) = 0
    BY Lengths DEF Init, Refused
  <1>2. 0 \in 0 .. MaxTypos
    BY PacketsAssumption DEF PacketsAssumption
  <1> QED BY <1>1, <1>2 DEF Init, Framing, TypeOK, TypedAsCounted, SentAsParsed

\* Every step of asking, typing and sending keeps it.
LEMMA NextFraming ==
    ASSUME Framing, [Next]_vars
    PROVE  Framing'
  <1> USE DEF Framing
  <1>1. CASE DryRun
    <2>1. shown' \in Seq(Frames)
      BY <1>1, EncodeFrames, PacketsAssumption DEF DryRun, TypeOK, PacketsAssumption
    <2>2. shown' \in Seq(Packet)
      BY <2>1, SeqMonotonic DEF Frames
    <2>3. pc' \in {"shown", "refused"} /\ UNCHANGED <<request, typed, typos, sent>> /\ typos = 0
      BY <1>1 DEF DryRun, TypedAsCounted
    <2>4. TypeOK'
      BY <2>2, <2>3 DEF TypeOK
    <2>5. TypedAsCounted' /\ SentAsParsed'
      BY <2>3 DEF TypedAsCounted, SentAsParsed
    <2> QED BY <2>1, <2>4, <2>5
  <1>2. ASSUME NEW i \in 1 .. 2, NEW n \in 7 .. 8, Retype(i, n)
        PROVE  Framing'
    <2>1. shown[i] \in Packet /\ Valid(shown[i])
      BY <1>2, ElementOfSeq DEF Retype, Frames
    <2>2. n = 7 => typed' \in Body
      BY <1>2, <2>1 DEF Retype, Packet, Body
    <2>3. n = 8 => typed' = shown[i]
      BY <1>2, <2>1 DEF Retype, Packet
    <2>4. typed' \in Packet \cup Body /\ (Len(typed') = 8 => Valid(typed'))
      <3>1. CASE n = 7
        <4>1. typed' \in Body /\ Len(typed') = 7
          BY <2>2, <3>1, Lengths
        <4> QED BY <4>1
      <3>2. CASE n = 8
        BY <2>1, <2>3, <3>2
      <3> QED BY <3>1, <3>2
    <2>5. pc' = "typed" /\ UNCHANGED <<request, shown, typos, sent>> /\ typos = 0
      BY <1>2 DEF Retype, TypedAsCounted
    <2>6. TypeOK'
      BY <2>4, <2>5 DEF TypeOK
    <2>7. TypedAsCounted' /\ SentAsParsed' /\ shown' \in Seq(Frames)
      BY <2>4, <2>5 DEF TypedAsCounted, SentAsParsed
    <2> QED BY <2>6, <2>7
  <1>3. ASSUME NEW i \in 1 .. 8, NEW b \in Typos, Mistype(i, b)
        PROVE  Framing'
    <2>1. b \in Byte
      BY PacketsAssumption DEF PacketsAssumption
    <2>2. typos' = typos + 1 /\ typos \in Nat /\ typos' \in 0 .. MaxTypos
          /\ pc' = "typed" /\ UNCHANGED <<request, shown, sent>>
      BY <1>3, PacketsAssumption DEF Mistype, TypeOK, PacketsAssumption
    <2>3. CASE typed \in Packet
      <3>1. Len(typed) = 8
        BY <2>3, Lengths
      <3>2. typed' = [typed EXCEPT ![i] = b] /\ typed[i] # b /\ typed' \in Packet
        BY <1>3, <2>1, <2>3 DEF Mistype, Packet
      <3>3. typos' = 1 => ~Valid(typed')
        <4>1. typos' = 1 => typos = 0
          BY <2>2
        <4>2. typos = 0 => Valid(typed)
          BY <3>1 DEF TypedAsCounted
        <4>3. Valid(typed) => ~Valid([typed EXCEPT ![i] = b])
          BY <2>1, <2>3, <3>2, OneByteBreaks
        <4> QED BY <3>2, <4>1, <4>2, <4>3
      <3>4. TypedAsCounted'
        BY <2>2, <3>3 DEF TypedAsCounted
      <3> QED BY <2>2, <3>2, <3>4 DEF TypeOK, SentAsParsed
    <2>4. CASE typed \in Body
      <3>1. typed' \in Body
        BY <1>3, <2>1, <2>4 DEF Mistype, Body
      <3>2. Len(typed') = 7
        BY <3>1, Lengths
      <3> QED BY <2>2, <3>1, <3>2 DEF TypeOK, SentAsParsed, TypedAsCounted
    <2>5. typed # Refused
      BY <1>3, Lengths DEF Mistype
    <2> QED BY <2>3, <2>4, <2>5 DEF TypeOK
  <1>4. CASE Raw
    <2>1. sent' = ParseHex(typed) /\ UNCHANGED <<request, shown, typed, typos>>
          /\ pc' = IF sent' = Refused THEN "refused" ELSE "sent"
      BY <1>4 DEF Raw
    <2>2. sent' \in Packet \cup {Refused}
      BY <2>1, ParseHexFrames DEF TypeOK, Frames
    <2>3. TypeOK'
      BY <2>1, <2>2 DEF TypeOK
    <2>4. TypedAsCounted' /\ SentAsParsed' /\ shown' \in Seq(Frames)
      BY <2>1 DEF TypedAsCounted, SentAsParsed
    <2> QED BY <2>3, <2>4
  <1>5. CASE RawUnframed
    <2>1. sent' = typed /\ pc' = "unframed" /\ UNCHANGED <<request, shown, typed, typos>>
      BY <1>5 DEF RawUnframed
    <2> QED BY <2>1 DEF TypeOK, TypedAsCounted, SentAsParsed
  <1>6. CASE UNCHANGED vars
    BY <1>6 DEF vars, TypeOK, TypedAsCounted, SentAsParsed
  <1> QED BY <1>1, <1>2, <1>3, <1>4, <1>5, <1>6 DEF Next

\* Every state of raw has its type, whatever is asked for and mistyped.
THEOREM TypeHolds == Spec => []TypeOK
  <1>1. Framing => TypeOK
    BY DEF Framing
  <1> QED BY InitFraming, NextFraming, <1>1, PTL DEF Spec

\* Whatever commands print and raw sends framed is a valid packet.
THEOREM FramedHolds == Spec => []Framed
  BY InitFraming, NextFraming, FramingFrames, PTL DEF Spec

\* One wrong byte among eight is never sent.
THEOREM TypoIsCaughtHolds == Spec => []TypoIsCaught
  BY InitFraming, NextFraming, FramingFrames, PTL DEF Spec

----------------------------------------------------------------------------
(* Labels: the bytes of a packet say what was asked for. *)

\* Where New puts its arguments.
LEMMA FieldsOfNew ==
    ASSUME NEW g, NEW c, NEW p1, NEW p2, NEW p3, NEW p4
    PROVE  LET p == New(g, c, p1, p2, p3, p4)
           IN p[2] = g /\ p[3] = c /\ p[4] = p1 /\ p[5] = p2 /\ p[6] = p3 /\ p[7] = p4
  BY DEF New

\* A builder that returns one packet returns it first.
LEMMA FirstOfOne ==
    ASSUME NEW p
    PROVE  <<p>>[1] = p /\ Len(<<p>>) = 1 /\ <<p>> # Refused
  BY DEF Refused

\* Go's byte(n) keeps a number that is a byte.
LEMMA BytesAreKept ==
    ASSUME NEW n \in Byte
    PROVE  ToByte(n) = n
  BY DEF ToByte, Byte

\* A date on the wire reads back as the date asked for.
LEMMA DateIsHonest ==
    ASSUME NEW r \in RequestTypes, r.cmd = "date", SetDate(r) # Refused
    PROVE  Describe(SetDate(r)[1]) = Asked(r)
  <1>1. r.year \in YearMin .. YearMax
    BY DEF SetDate
  <1>2. r.year - YearMin \in Byte /\ r.year = YearMin + (r.year - YearMin)
    BY <1>1 DEF YearMin, YearMax, Byte
  <1>3. ToByte(r.year - YearMin) = r.year - YearMin
    BY <1>2, BytesAreKept
  <1> DEFINE p == New(1, 0, r.year - YearMin, r.month, r.day, 0)
  <1>4. SetDate(r)[1] = p
    BY <1>1, <1>3, FirstOfOne DEF SetDate
  <1>5. p[2] = 1 /\ p[3] = 0 /\ p[4] = r.year - YearMin /\ p[5] = r.month /\ p[6] = r.day
    BY FieldsOfNew
  <1> HIDE DEF p
  <1>6. Describe(p) = <<"date", YearMin + p[4], p[5], p[6]>>
    BY <1>5 DEF Describe
  <1> QED BY <1>2, <1>4, <1>5, <1>6 DEF Asked

\* A clock time is made of bytes.
LEMMA ClockTimeIsBytes ==
    ASSUME NEW parts, NEW allowSeconds \in BOOLEAN, IsClockTime(parts, allowSeconds)
    PROVE  parts[1] \in Byte /\ parts[2] \in Byte /\ Second(parts) \in Byte
  BY DEF IsClockTime, Second, Byte

\* A time on the wire reads back as the time asked for.
LEMMA TimeIsHonest ==
    ASSUME NEW r, r.cmd = "time", SetTime(r) # Refused
    PROVE  Describe(SetTime(r)[1]) = Asked(r)
  <1>1. IsClockTime(r.parts, TRUE)
    BY DEF SetTime
  <1> DEFINE p == New(1, 1, r.parts[1], r.parts[2], Second(r.parts), 0)
  <1>2. SetTime(r)[1] = p
    <2>1. ToByte(r.parts[1]) = r.parts[1] /\ ToByte(r.parts[2]) = r.parts[2]
          /\ ToByte(Second(r.parts)) = Second(r.parts)
      BY <1>1, ClockTimeIsBytes, BytesAreKept
    <2>2. SetTime(r) = <<p>>
      BY <1>1, <2>1 DEF SetTime
    <2> QED BY <2>2, FirstOfOne
  <1>3. p[2] = 1 /\ p[3] = 1 /\ p[4] = r.parts[1] /\ p[5] = r.parts[2] /\ p[6] = Second(r.parts)
    BY FieldsOfNew
  <1> HIDE DEF p
  <1>4. Describe(p) = <<"time", p[4], p[5], p[6]>>
    BY <1>3 DEF Describe
  <1> QED BY <1>2, <1>3, <1>4 DEF Asked

\* An alarm on the wire reads back as the alarm asked for.
LEMMA AlarmIsHonest ==
    ASSUME NEW r, r.cmd = "alarm_set", AlarmSet(r) # Refused
    PROVE  Describe(AlarmSet(r)[1]) = Asked(r)
  <1>1. IsClockTime(r.parts, FALSE) /\ r.index \in Byte /\ r.repeat \in Byte
    BY DEF AlarmSet
  <1> DEFINE p == New(4, 2, r.index, r.parts[1], r.parts[2], r.repeat)
  <1>2. AlarmSet(r)[1] = p
    <2>1. ToByte(r.parts[1]) = r.parts[1] /\ ToByte(r.parts[2]) = r.parts[2]
          /\ ToByte(r.index) = r.index /\ ToByte(r.repeat) = r.repeat
      BY <1>1, ClockTimeIsBytes, BytesAreKept
    <2>2. AlarmSet(r) = <<p>>
      BY <1>1, <2>1 DEF AlarmSet
    <2> QED BY <2>2, FirstOfOne
  <1>3. p[2] = 4 /\ p[3] = 2 /\ p[4] = r.index /\ p[5] = r.parts[1] /\ p[6] = r.parts[2]
        /\ p[7] = r.repeat
    BY FieldsOfNew
  <1> HIDE DEF p
  <1>4. Describe(p) = <<"alarm_set", p[5], p[6], p[4], p[7]>>
    BY <1>3 DEF Describe
  <1> QED BY <1>2, <1>3, <1>4 DEF Asked

\* A brightness level on the wire reads back as it is.
LEMMA LevelIsHonest ==
    ASSUME NEW level, Brightness(level) # Refused
    PROVE  level \in 0 .. 7 /\ Describe(Brightness(level)[1]) = <<"level", level>>
  <1>1. level \in 0 .. 7
    BY DEF Brightness
  <1>2. level \in Byte
    BY <1>1 DEF Byte
  <1> DEFINE p == New(5, 2, level, 0, 0, 0)
  <1>3. Brightness(level)[1] = p
    BY <1>1, <1>2, BytesAreKept, FirstOfOne DEF Brightness
  <1>4. p[2] = 5 /\ p[3] = 2 /\ p[4] = level
    BY FieldsOfNew
  <1> HIDE DEF p
  <1>5. Describe(p) = <<"level", p[4]>>
    BY <1>4 DEF Describe
  <1> QED BY <1>1, <1>3, <1>4, <1>5

\* Fourteen times a percentage, rounded by BrightnessFromPercent, is seven percent
\* of a level at most half a level away, so no other level is nearer.
LEMMA RoundingIsNearest ==
    ASSUME NEW pct \in 0 .. 100
    PROVE  LET level == (14 * pct + 100) \div 200
           IN level \in 0 .. 7 /\ Nearest(level, pct)
  <1> DEFINE level == (14 * pct + 100) \div 200
  <1>1. level \in Int /\ 200 * level <= 14 * pct + 100 /\ 14 * pct + 100 < 200 * level + 200
    OBVIOUS
  <1> HIDE DEF level
  <1>2. level \in 0 .. 7
    BY <1>1
  <1>3. 100 * level - 7 * pct \in -50 .. 50
    BY <1>1
  <1>4. ASSUME NEW other \in 0 .. 7, other # level
        PROVE  100 * other - 7 * pct >= 50 \/ 100 * other - 7 * pct <= -50
    BY <1>2, <1>3, <1>4
  <1>5. Nearest(level, pct)
    BY <1>2, <1>3, <1>4 DEF Nearest
  <1> QED BY <1>2, <1>5 DEF level

\* A percentage becomes a level nearest to it.
LEMMA PercentIsHonest ==
    ASSUME NEW pct, BrightnessFromPercent(pct) # Refused
    PROVE  \E level \in 0 .. 7 :
               /\ Describe(BrightnessFromPercent(pct)[1]) = <<"level", level>>
               /\ Nearest(level, pct)
  <1>1. pct \in 0 .. 100
    BY DEF BrightnessFromPercent
  <1> DEFINE level == (14 * pct + 100) \div 200
  <1>2. level \in 0 .. 7 /\ Nearest(level, pct)
    BY <1>1, RoundingIsNearest
  <1>3. BrightnessFromPercent(pct) = Brightness(level)
    BY <1>1 DEF BrightnessFromPercent
  <1> HIDE DEF level
  <1>4. Describe(Brightness(level)[1]) = <<"level", level>>
    BY <1>3, LevelIsHonest
  <1> QED BY <1>2, <1>3, <1>4

\* The commands of the display group have a parameter each.
LEMMA ParametersDiffer ==
    ASSUME NEW t \in DOMAIN InParameter
    PROVE  /\ InParameter[t] \in 3 .. 6
           /\ (CHOOSE u \in DOMAIN InParameter : InParameter[u] = InParameter[t]) = t
  <1>1. \A u \in DOMAIN InParameter : InParameter[u] = InParameter[t] => u = t
    BY DEF InParameter
  <1>2. InParameter[t] \in 3 .. 6
    BY DEF InParameter
  <1> QED BY <1>1, <1>2

\* A toggle on the wire reads back as the toggle asked for.
LEMMA ToggleIsHonest ==
    ASSUME NEW r, r.cmd \in DOMAIN InCommand \cup DOMAIN InParameter, r.on \in BOOLEAN
    PROVE  Describe(Toggle(r)[1]) = <<r.cmd, r.on>>
  <1>1. Flag(r.on) \in {0, 1} /\ (Flag(r.on) = 1) = r.on
    BY DEF Flag
  <1>2. CASE r.cmd \in DOMAIN InCommand
    <2> DEFINE p == New(InCommand[r.cmd], Flag(r.on), 0, 0, 0, 0)
    <2>1. Toggle(r)[1] = p
      BY <1>2, FirstOfOne DEF Toggle
    <2>2. p[2] = InCommand[r.cmd] /\ p[3] = Flag(r.on)
      BY FieldsOfNew
    <2> HIDE DEF p
    <2>3. (r.cmd = "alarm" /\ p[2] = 4) \/ (r.cmd = "auto_brightness" /\ p[2] = 5)
      <3>1. r.cmd \in {"alarm", "auto_brightness"}
        BY <1>2 DEF InCommand
      <3> QED BY <2>2, <3>1 DEF InCommand
    <2>4. Describe(p) = <<r.cmd, p[3] = 1>>
      BY <1>1, <2>2, <2>3 DEF Describe
    <2> QED BY <1>1, <2>1, <2>2, <2>4
  <1>3. CASE r.cmd \notin DOMAIN InCommand
    <2> DEFINE p == New(5, InParameter[r.cmd], Flag(r.on), 0, 0, 0)
    <2>1. Toggle(r)[1] = p
      BY <1>3, FirstOfOne DEF Toggle
    <2>2. p[2] = 5 /\ p[3] = InParameter[r.cmd] /\ p[4] = Flag(r.on)
      BY FieldsOfNew
    <2> HIDE DEF p
    <2>3. p[3] \in 3 .. 6 /\ (CHOOSE t \in DOMAIN InParameter : InParameter[t] = p[3]) = r.cmd
      BY <1>3, <2>2, ParametersDiffer
    <2>4. Describe(p) = <<CHOOSE t \in DOMAIN InParameter : InParameter[t] = p[3], p[4] = 1>>
      BY <2>2, <2>3 DEF Describe
    <2> QED BY <1>1, <2>1, <2>2, <2>3, <2>4
  <1> QED BY <1>2, <1>3

\* Nothing in the lamp's group means anything to the clock.
LEMMA LampIsUnknown ==
    ASSUME NEW c, NEW p1, NEW p2, NEW p3, NEW p4
    PROVE  Describe(New(224, c, p1, p2, p3, p4)) = <<"unknown">>
  <1> DEFINE p == New(224, c, p1, p2, p3, p4)
  <1>1. p[2] = 224
    BY FieldsOfNew
  <1> HIDE DEF p
  <1>2. Describe(p) = <<"unknown">>
    BY <1>1 DEF Describe
  <1> QED BY <1>2 DEF p

\* The group of a packet tells the clock from the lamp.
LEMMA GroupOf ==
    ASSUME NEW r \in RequestTypes, Encode(r) # Refused
    PROVE  (Encode(r)[1][2] = 224) <=> ToLamp(r)
  <1>1. CASE ToLamp(r)
    <2>1. Encode(r)[1][2] = 224
      <3>1. CASE r.cmd = "lamp_power"
        BY <3>1, FieldsOfNew DEF Encode, LampPower
      <3>2. CASE r.cmd = "lamp_mode"
        BY <3>2, FieldsOfNew DEF Encode, LampMode
      <3>3. CASE r.cmd = "lamp_colour"
        BY <3>3, FieldsOfNew DEF Encode, LampSlider
      <3> QED BY <1>1, <3>1, <3>2, <3>3 DEF ToLamp
    <2> QED BY <1>1, <2>1
  <1>2. CASE ~ToLamp(r)
    <2>1. Encode(r)[1][2] # 224
      <3>1. CASE r.cmd = "date"
        BY <3>1, FieldsOfNew DEF Encode, SetDate
      <3>2. CASE r.cmd = "time"
        <4> DEFINE p == New(1, 1, ToByte(r.parts[1]), ToByte(r.parts[2]), ToByte(Second(r.parts)), 0)
        <4>1. Encode(r) = <<p>>
          BY <3>2 DEF Encode, SetTime
        <4>2. p[2] = 1
          BY FieldsOfNew
        <4> QED BY <4>1, <4>2, FirstOfOne
      <3>3. CASE r.cmd = "alarm_set"
        <4> DEFINE p == New(4, 2, ToByte(r.index), ToByte(r.parts[1]), ToByte(r.parts[2]), ToByte(r.repeat))
        <4>1. Encode(r) = <<p>>
          BY <3>3 DEF Encode, AlarmSet
        <4>2. p[2] = 4
          BY FieldsOfNew
        <4> QED BY <4>1, <4>2, FirstOfOne
      <3>4. CASE r.cmd \in {"level", "percent"}
        BY <3>4, FieldsOfNew DEF Encode, BrightnessFromPercent, Brightness
      <3>5. CASE r.cmd \in DOMAIN InCommand \cup DOMAIN InParameter
        <4>1. r.cmd \in DOMAIN InCommand => InCommand[r.cmd] # 224
          BY DEF InCommand
        <4>2. Encode(r) = Toggle(r)
          BY <3>5 DEF Encode, InCommand, InParameter
        <4> QED BY <4>1, <4>2, FieldsOfNew DEF Toggle
      <3>6. r.cmd \in {"date", "time", "alarm_set", "level", "percent"}
                      \cup DOMAIN InCommand \cup DOMAIN InParameter
        BY <1>2 DEF RequestTypes, ToLamp
      <3> QED BY <3>1, <3>2, <3>3, <3>4, <3>5, <3>6
    <2> QED BY <1>2, <2>1
  <1> QED BY <1>1, <1>2

\* The packet that switches the lamp, byte by byte.
LEMMA PowerFields ==
    ASSUME NEW r, r.cmd = "lamp_power"
    PROVE  /\ Len(Encode(r)) = 1
           /\ Encode(r)[1][3] = 255 /\ Encode(r)[1][4] = Flag(r.on)
           /\ Describe(Encode(r)[1]) = <<"unknown">>
  <1> DEFINE p == New(224, 255, Flag(r.on), 0, 0, 0)
  <1>1. Encode(r) = <<p>>
    BY DEF Encode, LampPower
  <1>2. p[3] = 255 /\ p[4] = Flag(r.on) /\ Describe(p) = <<"unknown">>
    BY FieldsOfNew, LampIsUnknown
  <1> HIDE DEF p
  <1> QED BY <1>1, <1>2, FirstOfOne

\* The two packets that select a section of the lamp and a mode of it.
LEMMA ModeFields ==
    ASSUME NEW r, r.cmd = "lamp_mode", Encode(r) # Refused
    PROVE  /\ Len(Encode(r)) = 2
           /\ Encode(r)[1][4] = Sections[r.section].select /\ Encode(r)[2][4] = r.index
           /\ \A i \in 1 .. 2 : Describe(Encode(r)[i]) = <<"unknown">>
  <1> DEFINE s == Sections[r.section]
             p == New(224, 0, s.select, 0, 0, 0)
             q == New(224, s.mode, r.index, 0, 0, 0)
  <1>1. r.index \in Byte
    BY DEF Encode, LampMode
  <1>2. Encode(r) = <<p, q>>
    BY <1>1, BytesAreKept DEF Encode, LampMode
  <1>3. p[4] = s.select /\ q[4] = r.index
    BY FieldsOfNew
  <1>4. Describe(p) = <<"unknown">> /\ Describe(q) = <<"unknown">>
    BY LampIsUnknown
  <1> HIDE DEF p, q
  <1> QED BY <1>2, <1>3, <1>4

\* The packet that moves a slider of the lamp: the hue takes two bytes.
LEMMA SliderFields ==
    ASSUME NEW r \in RequestTypes, r.cmd = "lamp_colour", Encode(r) # Refused
    PROVE  /\ Len(Encode(r)) = 1
           /\ Encode(r)[1][3] = Sections[r.section].slider
           /\ Encode(r)[1][4] = r.hue \div 256 /\ Encode(r)[1][5] = r.hue % 256
           /\ Encode(r)[1][6] = r.brightness /\ Encode(r)[1][7] = r.update
           /\ Describe(Encode(r)[1]) = <<"unknown">>
           /\ r.hue \in 0 .. 360 /\ Sections[r.section].slider \in {2, 5}
  <1>1. r.hue \in 0 .. 360 /\ r.brightness \in 0 .. 200 /\ Sections[r.section].slider # 0
    BY DEF Encode, LampSlider
  <1>2. r.section \in DOMAIN Sections
    BY DEF RequestTypes, InCommand, InParameter
  <1>3. Sections[r.section].slider \in {2, 5}
    BY <1>1, <1>2 DEF Sections
  <1>4. r.hue \div 256 \in Byte /\ r.brightness \in Byte
    BY <1>1 DEF Byte
  <1>5. ToByte(r.hue \div 256) = r.hue \div 256 /\ ToByte(r.brightness) = r.brightness
        /\ ToByte(r.hue) = r.hue % 256
    BY <1>4, BytesAreKept DEF ToByte
  <1> DEFINE p == New(224, Sections[r.section].slider, r.hue \div 256, r.hue % 256, r.brightness, r.update)
  <1>6. Encode(r) = <<p>>
    BY <1>1, <1>5 DEF Encode, LampSlider
  <1>7. /\ p[3] = Sections[r.section].slider /\ p[4] = r.hue \div 256 /\ p[5] = r.hue % 256
        /\ p[6] = r.brightness /\ p[7] = r.update /\ Describe(p) = <<"unknown">>
    BY FieldsOfNew, LampIsUnknown
  <1> HIDE DEF p
  <1> QED BY <1>1, <1>3, <1>6, <1>7, FirstOfOne

\* A section of the lamp is known by the value that selects it, and by its slider.
LEMMA SectionsDiffer ==
    ASSUME NEW s \in DOMAIN Sections, NEW t \in DOMAIN Sections
    PROVE  /\ Sections[s].select = Sections[t].select => s = t
           /\ Sections[s].slider = Sections[t].slider => s = t
  BY DEF Sections

\* Records of requests to the lamp have these fields and no other.
LEMMA LampRecords ==
    ASSUME NEW r \in RequestTypes
    PROVE  /\ r.cmd = "lamp_power" =>
                r.on \in BOOLEAN /\ r = [cmd |-> "lamp_power", on |-> r.on]
           /\ r.cmd = "lamp_mode" =>
                /\ r.section \in DOMAIN Sections
                /\ r = [cmd |-> "lamp_mode", section |-> r.section, index |-> r.index]
           /\ r.cmd = "lamp_colour" =>
                /\ r.section \in DOMAIN Sections
                /\ r = [cmd |-> "lamp_colour", section |-> r.section, hue |-> r.hue,
                        brightness |-> r.brightness, update |-> r.update]
  <1>1. ASSUME r.cmd = "lamp_power"
        PROVE  r.on \in BOOLEAN /\ r = [cmd |-> "lamp_power", on |-> r.on]
    <2>1. r \in [cmd : DOMAIN InCommand \cup DOMAIN InParameter \cup {"lamp_power"}, on : BOOLEAN]
      BY <1>1 DEF RequestTypes
    <2> QED BY <1>1, <2>1
  <1>2. ASSUME r.cmd = "lamp_mode"
        PROVE  /\ r.section \in DOMAIN Sections
               /\ r = [cmd |-> "lamp_mode", section |-> r.section, index |-> r.index]
    <2>1. r \in [cmd : {"lamp_mode"}, section : DOMAIN Sections, index : Int]
      BY <1>2 DEF RequestTypes, InCommand, InParameter
    <2> QED BY <2>1
  <1>3. ASSUME r.cmd = "lamp_colour"
        PROVE  /\ r.section \in DOMAIN Sections
               /\ r = [cmd |-> "lamp_colour", section |-> r.section, hue |-> r.hue,
                       brightness |-> r.brightness, update |-> r.update]
    <2>1. r \in [cmd : {"lamp_colour"}, section : DOMAIN Sections, hue : Int,
                 brightness : Int, update : {1, 2}]
      BY <1>3 DEF RequestTypes, InCommand, InParameter
    <2> QED BY <2>1
  <1> QED BY <1>1, <1>2, <1>3

\* A flag tells on from off.
LEMMA FlagsDiffer ==
    ASSUME NEW a \in BOOLEAN, NEW b \in BOOLEAN, Flag(a) = Flag(b)
    PROVE  a = b
  <1>1. \A on \in BOOLEAN : (on => Flag(on) = 1) /\ (~on => Flag(on) = 0)
    BY DEF Flag
  <1>2. Flag(a) = 1 <=> a
    BY <1>1, 1 # 0
  <1>3. Flag(b) = 1 <=> b
    BY <1>1, 1 # 0
  <1>4. a <=> b
    BY <1>2, <1>3
  <1> QED BY <1>4

\* The two bytes of a hue determine it.
LEMMA HighAndLow ==
    ASSUME NEW m \in Int, NEW n \in Int, m \div 256 = n \div 256, m % 256 = n % 256
    PROVE  m = n
  BY SMT

\* The packets for the lamp determine the request they are for.
LEMMA LampIsInjective ==
    ASSUME NEW r \in RequestTypes, ToLamp(r), Encode(r) # Refused,
           NEW q \in RequestTypes, Encode(q) = Encode(r)
    PROVE  q = r
  <1>1. ToLamp(q)
    BY GroupOf
  <1>2. q.cmd = r.cmd
    <2>1. \A x \in {q, r} :
            /\ x.cmd = "lamp_power"  => Len(Encode(r)) = 1 /\ Encode(r)[1][3] = 255
            /\ x.cmd = "lamp_mode"   => Len(Encode(r)) = 2
            /\ x.cmd = "lamp_colour" => Len(Encode(r)) = 1 /\ Encode(r)[1][3] \in {2, 5}
      BY PowerFields, ModeFields, SliderFields
    <2> QED BY <1>1, <2>1 DEF ToLamp
  <1>3. CASE r.cmd = "lamp_power"
    <2>1. Flag(q.on) = Flag(r.on)
      BY <1>2, <1>3, PowerFields
    <2>2. q.on = r.on
      <3>1. q.on \in BOOLEAN /\ r.on \in BOOLEAN
        BY <1>2, <1>3, LampRecords
      <3> QED BY <2>1, <3>1, FlagsDiffer
    <2> QED BY <1>2, <1>3, <2>2, LampRecords
  <1>4. CASE r.cmd = "lamp_mode"
    <2>1. Sections[q.section].select = Sections[r.section].select /\ q.index = r.index
      BY <1>2, <1>4, ModeFields
    <2>2. q.section = r.section
      BY <1>2, <1>4, <2>1, LampRecords, SectionsDiffer
    <2> QED BY <1>2, <1>4, <2>1, <2>2, LampRecords
  <1>5. CASE r.cmd = "lamp_colour"
    <2>1. /\ Sections[q.section].slider = Sections[r.section].slider
          /\ q.hue \div 256 = r.hue \div 256 /\ q.hue % 256 = r.hue % 256
          /\ q.brightness = r.brightness /\ q.update = r.update
          /\ q.hue \in 0 .. 360 /\ r.hue \in 0 .. 360
      BY <1>2, <1>5, SliderFields
    <2>2. q.section = r.section
      BY <1>2, <1>5, <2>1, LampRecords, SectionsDiffer
    <2>3. q.hue = r.hue
      <3>1. q.hue \in Int /\ r.hue \in Int
        BY <2>1
      <3> QED BY <2>1, <3>1, HighAndLow
    <2> QED BY <1>2, <1>5, <2>1, <2>2, <2>3, LampRecords
  <1> QED BY <1>3, <1>4, <1>5 DEF ToLamp

\* What is shown is what the request became.
Labelled == pc = "shown" => shown = Encode(request) /\ shown # Refused

\* Nothing is shown before it is asked for.
LEMMA InitLabelled ==
    ASSUME Init
    PROVE  Labelled
  BY DEF Init, Labelled

\* Only DryRun shows packets, and they stay with their request.
LEMMA NextLabelled ==
    ASSUME Labelled, [Next]_vars
    PROVE  Labelled'
  <1>1. CASE DryRun
    BY <1>1 DEF DryRun, Labelled
  <1>2. ASSUME NEW i \in 1 .. 2, NEW n \in 7 .. 8, Retype(i, n)
        PROVE  Labelled'
    BY <1>2 DEF Retype, Labelled
  <1>3. ASSUME NEW i \in 1 .. 8, NEW b \in Typos, Mistype(i, b)
        PROVE  Labelled'
    BY <1>3 DEF Mistype, Labelled
  <1>4. CASE Raw
    BY <1>4 DEF Raw, Labelled
  <1>5. CASE RawUnframed
    BY <1>5 DEF RawUnframed, Labelled
  <1>6. CASE UNCHANGED vars
    BY <1>6 DEF vars, Labelled
  <1> QED BY <1>1, <1>2, <1>3, <1>4, <1>5, <1>6 DEF Next

\* Every request a command takes is labelled as it was asked.
LEMMA LabelledIsHonest ==
    ASSUME TypeOK, Labelled
    PROVE  LabelIsHonest
  <1> SUFFICES ASSUME pc = "shown"
               PROVE  CASE ToLamp(request) ->
                             /\ \A i \in 1 .. Len(shown) : Describe(shown[i]) = <<"unknown">>
                             /\ \A r \in Requests : Encode(r) = shown => r = request
                        [] request.cmd = "percent" ->
                             \E level \in 0 .. 7 :
                                 Describe(shown[1]) = <<"level", level>> /\ Nearest(level, request.value)
                        [] OTHER -> Describe(shown[1]) = Asked(request)
    BY DEF LabelIsHonest
  <1>1. shown = Encode(request) /\ Encode(request) # Refused
    BY DEF Labelled
  <1>2. request \in RequestTypes /\ Requests \subseteq RequestTypes
    BY PacketsAssumption DEF TypeOK, PacketsAssumption
  <1>3. CASE ToLamp(request)
    <2>1. \A i \in 1 .. Len(shown) : Describe(shown[i]) = <<"unknown">>
      <3>1. CASE request.cmd = "lamp_power"
        BY <1>1, <3>1, PowerFields
      <3>2. CASE request.cmd = "lamp_mode"
        BY <1>1, <3>2, ModeFields
      <3>3. CASE request.cmd = "lamp_colour"
        BY <1>1, <1>2, <3>3, SliderFields
      <3> QED BY <1>3, <3>1, <3>2, <3>3 DEF ToLamp
    <2>2. \A r \in Requests : Encode(r) = shown => r = request
      BY <1>1, <1>2, <1>3, LampIsInjective
    <2>3. request.cmd # "percent"
      BY <1>3 DEF ToLamp
    <2> QED BY <1>3, <2>1, <2>2, <2>3
  <1>4. CASE request.cmd = "percent"
    <2>1. shown = BrightnessFromPercent(request.value)
      BY <1>1, <1>4 DEF Encode
    <2>2. ~ToLamp(request)
      BY <1>4 DEF ToLamp
    <2>3. \E level \in 0 .. 7 :
            Describe(shown[1]) = <<"level", level>> /\ Nearest(level, request.value)
      BY <1>1, <2>1, PercentIsHonest
    <2> QED BY <1>4, <2>2, <2>3
  <1>5. CASE ~ToLamp(request) /\ request.cmd # "percent"
    <2>1. Describe(shown[1]) = Asked(request)
      <3>1. CASE request.cmd = "date"
        BY <1>1, <1>2, <3>1, DateIsHonest DEF Encode
      <3>2. CASE request.cmd = "time"
        BY <1>1, <3>2, TimeIsHonest DEF Encode
      <3>3. CASE request.cmd = "alarm_set"
        BY <1>1, <3>3, AlarmIsHonest DEF Encode
      <3>4. CASE request.cmd = "level"
        BY <1>1, <3>4, LevelIsHonest DEF Encode, Asked
      <3>5. CASE request.cmd \in DOMAIN InCommand \cup DOMAIN InParameter
        <4>1. request.on \in BOOLEAN
          BY <1>2, <3>5 DEF RequestTypes, InCommand, InParameter
        <4>2. Encode(request) = Toggle(request) /\ Asked(request) = <<request.cmd, request.on>>
          BY <3>5 DEF Encode, Asked, InCommand, InParameter
        <4> QED BY <1>1, <3>5, <4>1, <4>2, ToggleIsHonest
      <3>6. request.cmd \in {"date", "time", "alarm_set", "level"}
                            \cup DOMAIN InCommand \cup DOMAIN InParameter
        BY <1>2, <1>5 DEF RequestTypes, ToLamp
      <3> QED BY <3>1, <3>2, <3>3, <3>4, <3>5, <3>6
    <2> QED BY <1>5, <2>1
  <1> QED BY <1>3, <1>4, <1>5

\* A label says what was asked for, for every request of the types a command parses.
THEOREM LabelIsHonestHolds == Spec => []LabelIsHonest
  <1>1. Framing /\ Labelled => LabelIsHonest
    BY LabelledIsHonest DEF Framing
  <1> QED BY InitFraming, NextFraming, InitLabelled, NextLabelled, <1>1, PTL DEF Spec
=============================================================================
