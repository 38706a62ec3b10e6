------------------------- MODULE DeviceMemoryProofs -------------------------
(* Theorems about DeviceMemory for every value of its constants. *)
EXTENDS DeviceMemory, TLAPS

----------------------------------------------------------------------------
(* The inductive invariants behind MemoryIsHonest and TornOnlyWhileSaving *)

\* Every document on its way to the file names a device that counts.
HonestSaves ==
    \A p \in Procs :
        /\ pc[p] = "remember" /\ ~cmd[p].lamp => found[p].device \in remembered
        /\ pc[p] \in {"save", "write"} => doc[p] \in Documents /\ doc[p].address \in remembered
        /\ pc[p] = "remember" => found[p].name \in Names /\ found[p].device \in Devices

\* While no two overlap, a writer is alone with an empty file.
AloneWithEmpty ==
    /\ ~overlapped => \A p, q \in Procs : pc[p] = "write" /\ pc[q] = "write" => p = q
    /\ ~overlapped => \A p \in Procs : pc[p] = "write" => file.kind = "truncated"

Honest == TypeOK /\ MemoryIsHonest /\ HonestSaves

\* Before any invocation nothing is on file, nor on its way.
LEMMA InitHonest == Init => Honest
<1> SUFFICES ASSUME Init PROVE Honest
  OBVIOUS
<1> USE DeviceMemoryAssumption DEF Init
<1>1. TypeOK
  <2>1. remembered \in SUBSET Devices /\ overlapped \in BOOLEAN
    OBVIOUS
  <2> QED BY <2>1 DEF TypeOK, Files, Empty, Blank, Steps, Idle, Nothing
<1>2. MemoryIsHonest /\ HonestSaves
  BY DEF MemoryIsHonest, HonestSaves, Empty, Blank
<1> QED BY <1>1, <1>2 DEF Honest

\* An invocation that ends leaves no trace in its own variables.
LEMMA EndHonest ==
  ASSUME Honest, NEW p \in Procs, End(p), file' \in Files, MemoryIsHonest',
         faults' \in 0 .. MaxFaults, UNCHANGED history
  PROVE  Honest'
<1>1. TypeOK'
  BY DEF Honest, TypeOK, End, Goto, Steps, Idle, Nothing, Empty, history
<1>2. HonestSaves'
  BY DEF Honest, TypeOK, HonestSaves, End, Goto, history
<1> QED BY <1>1, <1>2 DEF Honest

\* One step per action: no document but an honest one reaches the file.
LEMMA NextHonest == Honest /\ [Next]_vars => Honest'
<1> SUFFICES ASSUME Honest, [Next]_vars PROVE Honest'
  OBVIOUS
<1> USE DeviceMemoryAssumption DEF Honest, TypeOK, MemoryIsHonest, HonestSaves, history
<1>1. ASSUME NEW p \in Procs, NEW c \in Commands, Invoke(p, c) PROVE Honest'
  BY <1>1 DEF Invoke, Goto, Steps
<1>2. ASSUME NEW p \in Procs, BLEOptions(p) PROVE Honest'
  <2>1. address' \in [Procs -> Devices \cup {None}]
    <3>1. Loaded.address \in Devices \cup {None}
      BY DEF Loaded, Files, Documents, Empty, Blank
    <3>2. cmd[p].address \in Devices \cup {None}
      BY DEF CommandLines, Idle
    <3> QED BY <1>2, <3>1, <3>2 DEF BLEOptions
  <2> QED BY <1>2, <2>1 DEF BLEOptions, Goto, Steps
<1>3. ASSUME NEW p \in Procs, NEW d \in Devices, NEW n \in Names, Connect(p, d, n) PROVE Honest'
  BY <1>3 DEF Connect, Goto, Steps
<1>4. ASSUME NEW p \in Procs, ConnectFails(p) \/ NoRemember(p) PROVE Honest'
  BY <1>4, EndHonest DEF ConnectFails, NoRemember
<1>5. ASSUME NEW p \in Procs, Remember(p) PROVE Honest'
  <2>1. Loaded.name \in Names
    BY DEF Loaded, Files, Documents, Empty, Blank
  <2>2. doc'[p] \in Documents /\ doc'[p].address = found[p].device
    BY <1>5, <2>1 DEF Remember, Documents
  <2>3. doc' \in [Procs -> Documents \cup {Empty}] /\ \A q \in Procs \ {p} : doc'[q] = doc[q]
    BY <1>5, <2>2 DEF Remember
  <2> QED BY <1>5, <2>2, <2>3 DEF Remember, Goto, Steps
<1>6. ASSUME NEW p \in Procs, Truncate(p) PROVE Honest'
  <2>1. overlapped' \in BOOLEAN
    BY <1>6 DEF Truncate
  <2> QED BY <1>6, <2>1 DEF Truncate, Goto, Steps, Files, Blank
<1>7. ASSUME NEW p \in Procs, Write(p) PROVE Honest'
  <2>1. file' \in {doc[p], Blank("garbled")} /\ doc[p] \in Documents /\ doc[p].address \in remembered
    BY <1>7 DEF Write, Overlay
  <2>2. file' \in Files /\ MemoryIsHonest'
    BY <1>7, <2>1 DEF Write, Files, Blank
  <2> QED BY <1>7, <2>2, EndHonest DEF Write
<1>8. ASSUME NEW p \in Procs, Fault(p) PROVE Honest'
  BY <1>8, EndHonest DEF Fault
<1>9. CASE UNCHANGED vars
  BY <1>9 DEF vars
<1> QED BY <1>1, <1>2, <1>3, <1>4, <1>5, <1>6, <1>7, <1>8, <1>9 DEF Next, Step

\* The address on file is always one that a command other than lamp reached,
\* however many invocations overlap and whatever interrupts them.
THEOREM MemoryHolds == Spec => []MemoryIsHonest
<1>1. Honest => MemoryIsHonest
  BY DEF Honest
<1> QED BY <1>1, InitHonest, NextHonest, PTL DEF Spec

\* Type correctness, for every value of the constants.
THEOREM TypeHolds == Spec => []TypeOK
<1>1. Honest => TypeOK
  BY DEF Honest
<1> QED BY <1>1, InitHonest, NextHonest, PTL DEF Spec

Torn == TornOnlyWhileSaving /\ AloneWithEmpty

\* No file is torn before an invocation.
LEMMA InitTorn == Init => Torn
BY DEF Init, Torn, TornOnlyWhileSaving, AloneWithEmpty, Empty, Blank

\* A step that leaves the file alone and moves an invocation that is not writing
\* to a place where it does not write.
LEMMA ElsewhereTorn ==
  ASSUME TypeOK, Torn, NEW p \in Procs, NEW step \in Steps \ {"write"},
         pc[p] # "write", Goto(p, step), UNCHANGED <<file, overlapped>>,
         faults' = 0 => faults = 0
  PROVE  Torn'
<1>1. \A q \in Procs : pc'[q] = "write" <=> pc[q] = "write"
  BY DEF TypeOK, Goto
<1> QED BY <1>1 DEF Torn, TornOnlyWhileSaving, AloneWithEmpty

\* No step tears a file but a fault or an overlapping writer.
LEMMA NextTorn == TypeOK /\ Honest /\ Torn /\ [Next]_vars => Torn'
<1> SUFFICES ASSUME TypeOK, Honest, Torn, [Next]_vars PROVE Torn'
  OBVIOUS
<1> USE DEF history, Steps
<1>1. ASSUME NEW p \in Procs, NEW c \in Commands, Invoke(p, c) PROVE Torn'
  BY <1>1, ElsewhereTorn DEF Invoke
<1>2. ASSUME NEW p \in Procs, BLEOptions(p) PROVE Torn'
  BY <1>2, ElsewhereTorn DEF BLEOptions
<1>3. ASSUME NEW p \in Procs, NEW d \in Devices, NEW n \in Names, Connect(p, d, n) PROVE Torn'
  BY <1>3, ElsewhereTorn DEF Connect
<1>4. ASSUME NEW p \in Procs, ConnectFails(p) \/ NoRemember(p) PROVE Torn'
  BY <1>4, ElsewhereTorn DEF ConnectFails, NoRemember, End
<1>5. ASSUME NEW p \in Procs, Remember(p) PROVE Torn'
  BY <1>5, ElsewhereTorn DEF Remember
<1>6. ASSUME NEW p \in Procs, Truncate(p) PROVE Torn'
  <2>1. /\ pc'[p] = "write" /\ file'.kind = "truncated"
        /\ \A q \in Procs \ {p} : pc'[q] = pc[q]
        /\ overlapped' = (overlapped \/ \E q \in Procs : pc[q] = "write")
    BY <1>6 DEF Truncate, Goto, TypeOK, Blank
  <2> QED BY <2>1 DEF Torn, TornOnlyWhileSaving, AloneWithEmpty
\* Over an empty file the write leaves the document; over any other it has company.
<1>7. ASSUME NEW p \in Procs, Write(p) PROVE Torn'
  <2>1. /\ pc[p] = "write" /\ pc'[p] = "idle"
        /\ \A q \in Procs \ {p} : pc'[q] = pc[q]
        /\ overlapped' = overlapped /\ file' \in Overlay(doc[p])
    BY <1>7 DEF Write, End, Goto, TypeOK
  <2>2. doc[p].kind = "document"
    BY <2>1 DEF Honest, HonestSaves, Documents
  <2>3. file'.kind \in {"document", "garbled"}
    BY <2>1, <2>2 DEF Overlay, Blank
  <2>4. ~overlapped => file'.kind = "document"
    BY <2>1, <2>2 DEF Torn, AloneWithEmpty, Overlay
  <2>5. ~overlapped => \A q \in Procs : pc'[q] # "write"
    BY <2>1 DEF Torn, AloneWithEmpty
  <2> QED BY <2>1, <2>3, <2>4, <2>5 DEF Torn, TornOnlyWhileSaving, AloneWithEmpty
<1>8. ASSUME NEW p \in Procs, Fault(p) PROVE Torn'
  <2>1. faults' # 0 /\ UNCHANGED <<file, overlapped>>
    BY <1>8, DeviceMemoryAssumption DEF Fault, TypeOK
  <2>2. \A q \in Procs : pc'[q] = "write" => pc[q] = "write"
    BY <1>8 DEF Fault, End, Goto, TypeOK
  <2> QED BY <2>1, <2>2 DEF Torn, TornOnlyWhileSaving, AloneWithEmpty
<1>9. CASE UNCHANGED vars
  BY <1>9 DEF vars, Torn, TornOnlyWhileSaving, AloneWithEmpty
<1> QED BY <1>1, <1>2, <1>3, <1>4, <1>5, <1>6, <1>7, <1>8, <1>9 DEF Next, Step

\* However many invocations there are, without a fault an empty state file is one
\* being written, and a garbled one has had two writers at a time.
THEOREM TornHolds == Spec => []TornOnlyWhileSaving
<1>1. Torn => TornOnlyWhileSaving
  BY DEF Torn
<1>2. Honest => TypeOK
  BY DEF Honest
<1> QED BY <1>1, <1>2, InitHonest, NextHonest, InitTorn, NextTorn, PTL DEF Spec
=============================================================================
