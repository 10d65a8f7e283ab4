------------------------------ MODULE FifoLink ------------------------------
(***************************************************************************)
(* What an emulated link promises, with no ring and no lazy bookkeeping:    *)
(* a FIFO of the exit ticks of the packets still being transmitted.  A      *)
(* packet is accepted when fewer than Capacity packets are in transmission  *)
(* and starts when its predecessor ends; a packet leaves the backlog by     *)
(* itself as soon as its exit tick is over.                                 *)
(***************************************************************************)
EXTENDS Integers, Sequences

CONSTANTS Capacity,   \* packets the link holds at a time
          MaxCharge   \* the longest transmission time, in ticks

VARIABLES now, backlog, verdict

vars == <<now, backlog, verdict>>

Verdicts == {"none", "accepted", "overflow", "lost"}

Init == now \in Nat /\ backlog = << >> /\ verdict = "none"

\* Time passes, and with it every transmission that is over.
Pass == /\ now' = now + 1
        /\ \E k \in 0..Len(backlog) :
              /\ \A i \in 1..k : backlog[i] < now'
              /\ \A i \in (k + 1)..Len(backlog) : now' <= backlog[i]
              /\ backlog' = SubSeq(backlog, k + 1, Len(backlog))
        /\ verdict' = "none"

Accept == /\ Len(backlog) < Capacity
          /\ \E c \in 0..MaxCharge :
                backlog' = Append(backlog,
                             c + IF backlog = << >> THEN now ELSE backlog[Len(backlog)])
          /\ verdict' = "accepted"
          /\ UNCHANGED now

Overflow == /\ Len(backlog) >= Capacity
            /\ verdict' = "overflow"
            /\ UNCHANGED <<now, backlog>>

Lose == /\ verdict' = "lost"
        /\ UNCHANGED <<now, backlog>>

Next == Pass \/ Accept \/ Overflow \/ Lose

Spec == Init /\ [][Next]_vars
=============================================================================
