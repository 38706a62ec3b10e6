--------------------------- MODULE MCDeviceMemory ---------------------------
(* Instances of DeviceMemory for TLC: a clock and a lamp. *)
EXTENDS DeviceMemory

MCTrueName == [d \in {"clock", "lamp"} |-> IF d = "clock" THEN "XGGF-1V48" ELSE "XGGF-8W30-PRO"]

MCNameLen == [n \in {"", "XGGF-1V48", "XGGF-8W30-PRO"} |->
                CASE n = "" -> 0 [] n = "XGGF-1V48" -> 9 [] OTHER -> 13]

MCCovers == [w \in {"XGGF-1V48", "XGGF-", "XGGF-8W30-PRO"} |->
               IF w = "XGGF-" THEN {"XGGF-1V48", "XGGF-8W30-PRO"} ELSE {w}]

Line(lamp, named, want, addr) == [lamp |-> lamp, named |-> named, want |-> want, address |-> addr]

\* acornvfd time; lamp power on; time --address; dump --name of the lamp; lamp
\* power on --address; time --name of the clock
SomeCommands ==
    {Line(FALSE, FALSE, "XGGF-1V48", "none"), Line(TRUE, FALSE, "XGGF-1V48", "none"),
     Line(FALSE, FALSE, "XGGF-1V48", "clock"), Line(FALSE, TRUE, "XGGF-8W30-PRO", "none"),
     Line(TRUE, FALSE, "XGGF-1V48", "lamp"), Line(FALSE, TRUE, "XGGF-1V48", "none")}

\* every command line
AllCommands == {c \in CommandLines : ~c.named => c.want = DefaultName}
=============================================================================
