---------------------------- MODULE MCXcpRouter ----------------------------
(***************************************************************************)
(* Three mixes of packets, on a hop with and on one without a limit of      *)
(* bandwidth: the traffic of a near and a far flow, with packets of less    *)
(* than a kilobyte and acknowledgements; flows with a window below a        *)
(* kilobyte and with a round trip of less than a tick; and one whose round  *)
(* trip is longer than the calendar.                                        *)
(***************************************************************************)
EXTENDS XcpRouter

Packet(len, cwnd, rtt) == [len |-> len, cwnd |-> cwnd, rtt |-> rtt]

Far == Packet(1500, 2000, 5)
MCMixes == {{Far, Packet(500, 0, 0), Packet(500, 4000, 3), Packet(1500, 4000, 3)},
            {Far, Packet(1500, 500, 5), Packet(1500, 4000, 1)},
            {Far, Packet(1500, 64000, 66)}}
MCFdbks == {-100, 100, 3000}
MCBandwidths == {0, 10}
=============================================================================
