----------------------------- MODULE MCHopQueue -----------------------------
(* Instances of HopQueue for TLC: a bandwidth-limited link of 100 bytes per  *)
(* tick at HZ = 1000, and one without a limit.                               *)
EXTENDS HopQueue

FastLink == [KBps |-> 100, delay |-> 2, plr |-> 1, qsize |-> 3]
NoLimitLink == [KBps |-> 0, delay |-> 2, plr |-> 0, qsize |-> 2]
MCLens == {60, 150, 200}
\* 60 and 40 bytes fill a tick of the fast link exactly.
FittingLens == {40, 60}
=============================================================================
