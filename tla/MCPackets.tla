------------------------------ MODULE MCPackets ------------------------------
(* Instances of Packets for TLC: requests with values at and beyond every limit. *)
EXTENDS Packets

Times == {<<h, m>> : h \in {-1, 0, 23, 24}, m \in {-1, 0, 59, 60}}
             \cup {<<23, m, s>> : m \in {0, 59}, s \in {-1, 0, 59, 60}}
             \cup {<<7>>, <<1, 2, 3, 4>>}

MCRequests ==
         [cmd : {"date"}, year : {1999, 2000, 2026, 2255, 2256, 2555}, month : {1, 12}, day : {1, 31}]
    \cup [cmd : {"time"}, parts : Times]
    \cup [cmd : {"alarm_set"}, parts : Times, index : {-1, 0, 256}, repeat : {0, 255, 256}]
    \cup [cmd : {"level"}, value : -1 .. 8]
    \cup [cmd : {"percent"}, value : -1 .. 101]
    \cup [cmd : DOMAIN InCommand \cup DOMAIN InParameter \cup {"lamp_power"}, on : BOOLEAN]
    \cup [cmd : {"lamp_mode"}, section : DOMAIN Sections, index : {-1, 0, 9, 255, 256}]
    \cup [cmd : {"lamp_colour"}, section : DOMAIN Sections, hue : {-1, 0, 104, 255, 256, 360, 361},
          brightness : {-1, 0, 200, 201}, update : {1, 2}]
=============================================================================
