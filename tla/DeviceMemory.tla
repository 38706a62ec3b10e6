---------------------------- MODULE DeviceMemory ----------------------------
(***************************************************************************)
(* The remembered device: cli/flags.go and cli/lamp.go choose the device a *)
(* command looks for, lib/state keeps the last one in device.json, and     *)
(* cli/send.go updates it after every connection.  Invocations of acornvfd *)
(* overlap and are interrupted, and the file is truncated and then written.*)
(***************************************************************************)
EXTENDS Naturals

CONSTANTS
    Procs,        \* invocations that may overlap
    Devices,      \* devices, which stand for their addresses too
    Clocks,       \* those that are clocks
    Names,        \* advertised names
    NoName,       \* no name
    TrueName,     \* device -> the name it advertises when it advertises one
    NameLen,      \* name -> length of the document that records it
    Wants,        \* values of --name
    DefaultName,  \* its default
    LampName,     \* "XGGF-", the default of the lamp commands
    Covers,       \* value of --name -> the names it is a prefix of
    Commands,     \* the command lines considered
    MaxFaults     \* bound: interrupted invocations and failed writes

None == "none"    \* no address

CommandLines == [lamp : BOOLEAN, named : BOOLEAN, want : Wants, address : Devices \cup {None}]

ASSUME DeviceMemoryAssumption ==
    /\ Clocks \subseteq Devices /\ None \notin Devices
    /\ NoName \in Names
    /\ TrueName \in [Devices -> Names \ {NoName}]
    /\ NameLen \in [Names -> Nat]
    /\ {DefaultName, LampName} \subseteq Wants
    /\ Covers \in [Wants -> SUBSET (Names \ {NoName})]
    /\ Commands \subseteq CommandLines
    /\ \A c \in Commands : ~c.named => c.want = DefaultName
    /\ MaxFaults \in Nat

VARIABLES
    file,        \* device.json
    pc, cmd,     \* per invocation: where it is, its command line
    address,     \* per invocation: ble.Options.Address
    found,       \* per invocation: the device it connected to
    doc,         \* per invocation: the State it is about to save
    faults,
    remembered,  \* history: devices a command other than lamp connected to
    overlapped   \* history: one invocation opened the file while another wrote

history == <<remembered, overlapped>>
vars    == <<file, pc, cmd, address, found, doc, faults, history>>

Documents == [kind : {"document"}, name : Names, address : Devices]
Blank(k)  == [kind |-> k, name |-> NoName, address |-> None]
Empty     == Blank("missing")   \* New
Idle      == [lamp |-> FALSE, named |-> FALSE, want |-> DefaultName, address |-> None]
Nothing   == [name |-> NoName, device |-> None]

\* A garbled file has content that does not parse.
Files == Documents \cup {Blank(k) : k \in {"missing", "truncated", "garbled"}}

Steps == {"idle", "options", "find", "remember", "save", "write"}

TypeOK ==
    /\ file \in Files
    /\ pc \in [Procs -> Steps]
    /\ cmd \in [Procs -> Commands \cup {Idle}]
    /\ address \in [Procs -> Devices \cup {None}]
    /\ found \in [Procs -> [name : Names, device : Devices] \cup {Nothing}]
    /\ doc \in [Procs -> Documents \cup {Empty}]
    /\ faults \in 0 .. MaxFaults
    /\ remembered \in SUBSET Devices /\ overlapped \in BOOLEAN

Init ==
    /\ file = Empty
    /\ pc = [p \in Procs |-> "idle"]
    /\ cmd = [p \in Procs |-> Idle]
    /\ address = [p \in Procs |-> None]
    /\ found = [p \in Procs |-> Nothing]
    /\ doc = [p \in Procs |-> Empty]
    /\ faults = 0
    /\ remembered = {} /\ overlapped = FALSE

Goto(p, step) == pc' = [pc EXCEPT ![p] = step]

\* The invocation ends, by returning or by dying.
End(p) ==
    /\ Goto(p, "idle")
    /\ cmd' = [cmd EXCEPT ![p] = Idle]
    /\ address' = [address EXCEPT ![p] = None]
    /\ found' = [found EXCEPT ![p] = Nothing]
    /\ doc' = [doc EXCEPT ![p] = Empty]

\* state.Load: a missing file is an empty State.  A file that does not parse is
\* an error, for which both callers go on as with an empty State.
Loaded == IF file.kind = "document" THEN file ELSE Empty

\* lampFlags widens the name the user did not choose.
Want(c) == IF c.lamp /\ c.want = DefaultName /\ c.address = None THEN LampName ELSE c.want

----------------------------------------------------------------------------

Invoke(p, c) ==
    /\ pc[p] = "idle"
    /\ Goto(p, "options")
    /\ cmd' = [cmd EXCEPT ![p] = c]
    /\ UNCHANGED <<file, address, found, doc, faults, history>>

\* BLEOptions: the remembered address stands in for an address and a name that
\* are both at their defaults; an unreadable file only costs a warning.
BLEOptions(p) ==
    /\ pc[p] = "options"
    /\ LET c == cmd[p]
           bare == c.address = None /\ Want(c) = DefaultName
       IN address' = [address EXCEPT ![p] =
                        IF bare THEN Loaded.address ELSE c.address]
    /\ Goto(p, "find")
    /\ UNCHANGED <<file, cmd, found, doc, faults, history>>

\* matches: an address decides alone, otherwise the name's prefix does.
Matches(p, d, n) == IF address[p] # None THEN d = address[p] ELSE n \in Covers[Want(cmd[p])]

\* Find and Connect succeed; d was seen with name n, possibly none.
Connect(p, d, n) ==
    /\ pc[p] = "find" /\ n \in {NoName, TrueName[d]} /\ Matches(p, d, n)
    /\ found' = [found EXCEPT ![p] = [name |-> n, device |-> d]]
    /\ Goto(p, "remember")
    /\ remembered' = IF cmd[p].lamp THEN remembered ELSE remembered \cup {d}
    /\ UNCHANGED <<file, cmd, address, doc, faults, overlapped>>

ConnectFails(p) ==
    /\ pc[p] = "find"
    /\ End(p)
    /\ UNCHANGED <<file, faults, history>>

\* connected: lamp commands leave the file alone.
NoRemember(p) ==
    /\ pc[p] = "remember" /\ cmd[p].lamp
    /\ End(p)
    /\ UNCHANGED <<file, faults, history>>

\* Defect: lamp commands are remembered too.
RememberAll(p) ==
    /\ pc[p] = "remember"
    /\ LET n == found[p].name IN
         doc' = [doc EXCEPT ![p] = [kind    |-> "document",
                                    name    |-> IF n # NoName THEN n ELSE Loaded.name,
                                    address |-> found[p].device]]
    /\ Goto(p, "save")
    /\ UNCHANGED <<file, cmd, address, found, faults, history>>

\* Defect: Remember keeps the old address along with the old name.
RememberNameOnly(p) ==
    /\ pc[p] = "remember" /\ ~cmd[p].lamp
    /\ LET n == found[p].name IN
         doc' = [doc EXCEPT ![p] = [kind    |-> "document",
                                    name    |-> IF n # NoName THEN n ELSE Loaded.name,
                                    address |-> Loaded.address]]
    /\ Goto(p, "save")
    /\ UNCHANGED <<file, cmd, address, found, faults, history>>

\* Defect: rememberDevice gives up on a file it cannot read.
RememberIfReadable(p) ==
    /\ pc[p] = "remember" /\ ~cmd[p].lamp
    /\ IF file.kind \in {"missing", "document"}
       THEN /\ doc' = [doc EXCEPT ![p] = [kind    |-> "document",
                                          name    |-> found[p].name,
                                          address |-> found[p].device]]
            /\ Goto(p, "save")
            /\ UNCHANGED <<cmd, address, found>>
       ELSE End(p)
    /\ UNCHANGED <<file, faults, history>>

\* rememberDevice loads the file again (New when it cannot) and updates it.
Remember(p) ==
    /\ pc[p] = "remember" /\ ~cmd[p].lamp
    /\ LET n == found[p].name IN
         doc' = [doc EXCEPT ![p] = [kind    |-> "document",
                                    name    |-> IF n # NoName THEN n ELSE Loaded.name,
                                    address |-> found[p].device]]
    /\ Goto(p, "save")
    /\ UNCHANGED <<file, cmd, address, found, faults, history>>

\* Defect: the file is opened without O_TRUNC.
OpenInPlace(p) ==
    /\ pc[p] = "save"
    /\ Goto(p, "write")
    /\ overlapped' = (overlapped \/ \E q \in Procs : pc[q] = "write")
    /\ UNCHANGED <<file, cmd, address, found, doc, faults, remembered>>

\* os.WriteFile opens with O_TRUNC and writes afterwards.
Truncate(p) ==
    /\ pc[p] = "save"
    /\ file' = Blank("truncated")
    /\ Goto(p, "write")
    /\ overlapped' = (overlapped \/ \E q \in Procs : pc[q] = "write")
    /\ UNCHANGED <<cmd, address, found, doc, faults, remembered>>

\* The write starts at offset 0: over a longer document of another invocation
\* it leaves that document's tail.
Overlay(d) ==
    CASE file.kind = "document" -> {IF NameLen[file.name] > NameLen[d.name] THEN Blank("garbled") ELSE d}
      [] file.kind = "garbled"  -> {d, Blank("garbled")}
      [] OTHER                  -> {d}

Write(p) ==
    /\ pc[p] = "write"
    /\ file' \in Overlay(doc[p])
    /\ End(p)
    /\ UNCHANGED <<faults, history>>

\* The process dies, or the save fails, which only costs a warning.
Fault(p) ==
    /\ pc[p] # "idle" /\ faults < MaxFaults
    /\ faults' = faults + 1
    /\ End(p)
    /\ UNCHANGED <<file, history>>

Step(p) ==
    \/ BLEOptions(p) \/ NoRemember(p) \/ Remember(p) \/ Truncate(p) \/ Write(p)
    \/ \E d \in Devices, n \in Names : Connect(p, d, n)

Next == \E p \in Procs :
    \/ \E c \in Commands : Invoke(p, c)
    \/ Step(p) \/ ConnectFails(p) \/ Fault(p)

\* An invocation under way takes its steps; nobody has to run another.
Fairness == \A p \in Procs : WF_vars(Step(p))

Spec == Init /\ [][Next]_vars /\ Fairness

----------------------------------------------------------------------------
(* Properties *)

Connected(p) == pc[p] \in {"remember", "save", "write"}

\* Whatever invocations overlap, die or fail to write, the address on file is
\* that of a device a command other than lamp has connected to.
MemoryIsHonest == file.kind = "document" => file.address \in remembered

\* An empty file is one somebody is about to write, until an invocation is
\* interrupted or cannot write; and a garbled one takes two writers at a time.
TornOnlyWhileSaving ==
    /\ faults = 0 /\ file.kind = "truncated" => \E p \in Procs : pc[p] = "write"
    /\ file.kind = "garbled" => overlapped

\* "Lamp commands never remember: a bare `acornvfd time` would otherwise
\* reconnect to the lamp" (send.go:109).
BareReachesClock ==
    \A p \in Procs :
        /\ Connected(p) /\ ~cmd[p].lamp /\ ~cmd[p].named /\ cmd[p].address = None
        => found[p].device \in Clocks

\* "An unreadable state file is replaced rather than left broken forever"
\* (send.go:126), as long as devices keep being found for commands that remember.
TornIsReplaced ==
    ([]<>(\E p \in Procs : pc[p] = "remember" /\ ~cmd[p].lamp))
        => (file.kind = "truncated" ~> file.kind = "document")
=============================================================================
