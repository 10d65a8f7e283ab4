--------------------------- MODULE MCLinuxEmulator ---------------------------
(* Instances of LinuxEmulator for TLC.                                       *)
EXTENDS LinuxEmulator

CONSTANTS p1, p2, p3, p4, h1, h2, r1

MCPkts == {p1, p2, p3}
FourPkts == {p1, p2, p3, p4}
MCHops == {h1, h2, r1}
MCRemote == {r1}
\* 100 and 50 bytes per tick, the second too slow for the per-tick arithmetic: a
\* packet of 60 bytes takes 0 or 1 tick on h1 and 1 on h2, one of 150 bytes 1 or
\* 2 and 3.
MCLink == [h \in Hops |->
             IF h = h1 THEN [KBps |-> 100, delay |-> 1, plr |-> 0, qsize |-> 2]
             ELSE [KBps |-> 50, delay |-> 0, plr |-> 1, qsize |-> 1]]
MCPktLen == [p \in Pkts |-> IF p = p2 THEN 150 ELSE 60]
\* Two packets over the same two hops, and one that joins them at the second and
\* goes on to another emulator.
TwoHops == [p \in Pkts |-> IF p = p3 THEN <<h2, r1>> ELSE <<h1, h2>>]
\* Two packets over one hop, one whose path begins on another emulator, and one
\* with an empty path.
OneHop == [p \in Pkts |-> IF p = p3 THEN <<r1, h1>>
                            ELSE IF p = p4 THEN << >> ELSE <<h1>>]
\* OnCalendarWhenDue and LinkFifo presuppose it.
ASSUME NoOverrunAssumption == NoOverrun
=============================================================================
