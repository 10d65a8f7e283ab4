----------------------------- MODULE XcpRouter -----------------------------
(***************************************************************************)
(* The XCP router of one FreeBSD hop (mn_xcp.c): the accounting of arriving *)
(* packets, the feedback written into leaving ones, and the two timers that *)
(* recompute the estimates, all in the integer arithmetic of the code.      *)
(*                                                                          *)
(* Only the subtractions from BTA_ and BTF_ can leave the range of a        *)
(* u_int64_t, so these alone are taken modulo 2^Width.  When the timers     *)
(* fire is left open, and so is how much of the ring update_bwq finds       *)
(* transmitted when a packet arrives: BwQueue has both in detail.           *)
(*                                                                          *)
(* A division by zero is the end of the kernel, and so is an interval of    *)
(* zero ticks: hopclock (ip_modelnet.c 483-488) puts the timer back into    *)
(* the slot that it empties.  Nothing happens after either.                 *)
(***************************************************************************)
EXTENDS Integers, Sequences, SequencesExt

CONSTANTS hz, Width,
          Bandwidths,    \* KBps the hop may have, 0 for no limit
          qsize,
          Mixes,         \* the traffic there may be, each a set of packets [len: bytes,
                         \* and from the header cwnd: bytes, 0 in an acknowledgement,
                         \* rtt: 2^-FP_SHIFT seconds]
          Fdbks,         \* feedback a packet arrives with, bytes
          SCHEDLEN,      \* ticks in a turn of the hop calendar
          MaxFlight,     \* bound: packets crossing the hop
          MaxArrivals    \* bound: packets arriving between two Te_timeouts

MULTI_FAC == 1000
FP_SHIFT == 10
FP_EXTRA == 1
MN_MTU == 1500
FP == 2^FP_SHIFT
Shl(x) == x * FP
Shr(x) == x \div FP

\* xcp_init asks for hz >= 1000.  The calendar is longer than the first interval.
ASSUME XcpAssumption ==
    /\ {hz, Width, qsize, SCHEDLEN, MaxFlight, MaxArrivals} \subseteq Nat \ {0}
    /\ hz >= 1000 /\ SCHEDLEN > hz \div 20
    /\ Bandwidths \subseteq Nat /\ Fdbks \subseteq Int
    /\ \A mix \in Mixes : mix \subseteq [len : Nat \ {0}, cwnd : Nat, rtt : Nat]

VARIABLES p,        \* the xcp_pipe_t of the hop
          mix,      \* the packets that cross the hop, of Mixes
          ring,     \* lengths of the packets in the virtual queue
          flight,   \* packets crossing the hop
          arrivals, \* packets that arrived since the last Te_timeout
          fault,    \* history: what was divided by zero, "none" for nothing
          hurried,  \* history: since the last Te_timeout feedback went to a packet whose
                    \* round trip is shorter than the control interval
          allotted, \* history: BTA_ at the start of the interval
          granted   \* history: what the feedback given since then amounts to, as BTA_

hist == <<hurried, allotted, granted>>
vars == <<p, ring, flight, arrivals, mix, fault, hist>>

alpha_g_ == 409
beta_g_  == 231
gamma_g_ == 102
C1D1     == 1126
CD6      == 614

INITIAL_Te_VALUE == hz \div 20
INITIAL_RTT_ESTIMATE == hz \div 1000
TICKS_CD002 == hz \div 500

XCP_MAX(a, b) == IF a > b THEN a ELSE b
XCP_MIN(a, b) == IF a < b THEN a ELSE b
ABSOLUTE(a) == IF a >= 0 THEN a ELSE -a
u64(x) == x % 2^Width

slotdepth == Len(ring)
bytedepth == FoldLeft(LAMBDA s, l : s + l, 0, ring)

\* Neither a panic nor a hopclock that never ends.
Running == fault = "none" /\ 0 \notin {p.Te_, p.Tq_}

\* xcp_alloc_pipe, without the timers' first delays.
xcp_alloc_pipe(KBps) ==
    [link_capacity_Kbytes_ |-> KBps * (1000 \div MULTI_FAC),
     avg_rtt_ |-> INITIAL_Te_VALUE, Te_ |-> INITIAL_Te_VALUE, Tq_ |-> INITIAL_Te_VALUE,
     xi_pos_ |-> 1, xi_neg_ |-> 0,
     BTA_ |-> XCP_MIN((qsize * (MN_MTU \div MULTI_FAC)) \div 2,
                      Shr(alpha_g_ * KBps * (1000 \div MULTI_FAC) * INITIAL_Te_VALUE) \div hz),
     BTF_ |-> 0, Queue_Kbytes_ |-> 0, running_min_queue_Kbytes_ |-> 0,
     input_traffic_Kbytes_ |-> 0, num_Kbytes_in_Te_ |-> 0,
     sum_rtt_by_cwnd_ |-> 0, sum_rtt_square_by_cwnd_ |-> 0]

Init == /\ \E KBps \in Bandwidths : p = xcp_alloc_pipe(KBps)
        /\ ring = <<>> /\ flight = <<>>
        /\ arrivals = 0
        /\ mix \in Mixes
        /\ fault = "none" /\ hurried = FALSE
        /\ allotted = p.BTA_ /\ granted = 0
-----------------------------------------------------------------------------
(* A packet arrives.                                                         *)

KB(pkt) == pkt.len \div MULTI_FAC

\* The round trip over the window, per byte of the packet.
inv_rate(pkt) == (Shl(pkt.rtt * KB(pkt)) * 2^FP_EXTRA) \div (pkt.cwnd \div MULTI_FAC)

\* The round trip in ticks.
rtt_ticks(pkt) == Shr(pkt.rtt * hz)

\* What a data packet adds to the sums: nothing if its window is small.
counted(q, pkt) ==
    LET known == rtt_ticks(pkt) # INITIAL_RTT_ESTIMATE /\ pkt.cwnd >= MULTI_FAC
        inv   == IF known THEN inv_rate(pkt) ELSE 0
    IN  [q EXCEPT !.num_Kbytes_in_Te_ = @ + KB(pkt),
                  !.sum_rtt_by_cwnd_ = @ + inv,
                  !.sum_rtt_square_by_cwnd_ = @ + pkt.rtt * inv]

xcp_enqueue(q, pkt) ==
    LET q1 == [q EXCEPT !.input_traffic_Kbytes_ = @ + KB(pkt)]
    IN  IF pkt.cwnd > 0 THEN counted(q1, pkt) ELSE q1

\* emulate_hop: the first n packets of the ring have been transmitted.  Without a
\* limit of bandwidth update_bwq is not called and qsize is no limit in the code
\* either: there it is a bound of the model.
emulate_hop(pkt, n) ==
    LET left == SubSeq(ring, n + 1, Len(ring))
    IN  /\ Running
        /\ Len(flight) < MaxFlight /\ arrivals < MaxArrivals
        /\ n <= Len(ring) /\ Len(left) < qsize
        /\ n > 0 => p.link_capacity_Kbytes_ > 0
        /\ ring' = Append(left, pkt.len)
        /\ flight' = Append(flight, pkt)
        /\ p' = xcp_enqueue(p, pkt)
        /\ arrivals' = arrivals + 1
        /\ UNCHANGED <<mix, fault, hist>>
-----------------------------------------------------------------------------
(* A packet leaves.                                                          *)

\* TE_BY_RTT
Interval(q) == Shl(q.Te_) \div hz
TE_BY_RTT(q, v, rtt) == (v * Interval(q)) \div rtt

\* C's division, which rounds towards 0.
Quotient(a, b) == IF a >= 0 THEN a \div b ELSE -((-a) \div b)

\* (x * y) >> FP_SHIFT, with factors of x that TLC's integers can hold.
ShrProduct(x, y) == (x \div FP) * y + Shr((x % FP) * y)

pos_feedback(q, pkt) ==
    XCP_MIN(q.BTA_, Shr(ShrProduct(q.xi_pos_, inv_rate(pkt) * pkt.rtt)) \div 2^FP_EXTRA)
neg_feedback(q, pkt) == XCP_MIN(q.BTF_, Shr(q.xi_neg_ * pkt.rtt * KB(pkt)))
feedback_bytes(q, pkt) == Shr((pos_feedback(q, pkt) - neg_feedback(q, pkt)) * MULTI_FAC)

\* This router decides: the two budgets are charged, without a test for 0.  The
\* faulty variant does not charge for increases.
charged_not(q, pkt) ==
    [q EXCEPT !.BTF_ = u64(@ - TE_BY_RTT(q, neg_feedback(q, pkt), pkt.rtt))]
charged(q, pkt) ==
    [q EXCEPT !.BTA_ = u64(@ - TE_BY_RTT(q, pos_feedback(q, pkt), pkt.rtt)),
              !.BTF_ = u64(@ - TE_BY_RTT(q, neg_feedback(q, pkt), pkt.rtt))]

\* A router before this one decides: src is less than this router would give.
spread(q, pkt, src) ==
    LET fwd  == Quotient(Shl(src), MULTI_FAC)
        diff == pos_feedback(q, pkt) - neg_feedback(q, pkt)
        T(v) == TE_BY_RTT(q, v, pkt.rtt)
        q1   == [q EXCEPT !.BTF_ = @ - XCP_MIN(T(-fwd), @)]
    IN  IF fwd > 0
        THEN [q EXCEPT !.BTA_ = @ - XCP_MIN(T(fwd), @),
                       !.BTF_ = @ - XCP_MIN(@, T(diff - fwd))]
        ELSE IF diff > 0 THEN [q1 EXCEPT !.BTF_ = @ - XCP_MIN(T(diff), @)]
        ELSE q1

\* Where fill_in_feedback does anything.
Fills(pkt) == pkt.cwnd > 0 /\ pkt.rtt > 0

fill_in_feedback(q, pkt, src) ==
    IF ~Fills(pkt) THEN q
    ELSE IF src >= feedback_bytes(q, pkt) THEN charged(q, pkt)
    ELSE spread(q, pkt, src)

\* The feedback the packet leaves with.
src_fdbk(q, pkt, src) ==
    IF ~Fills(pkt) THEN 0 ELSE XCP_MIN(src, feedback_bytes(q, pkt))

\* xcp_dequeue of the oldest packet, which arrived with feedback src.
xcp_dequeue(src) ==
    LET pkt == Head(flight)
        q   == [p EXCEPT !.running_min_queue_Kbytes_ = XCP_MIN(bytedepth \div MULTI_FAC, @)]
        bad == Fills(pkt) /\ pkt.cwnd \div MULTI_FAC = 0
        up  == XCP_MAX(0, Quotient(Shl(src_fdbk(q, pkt, src)), MULTI_FAC))
    IN  /\ Running
        /\ flight # <<>>
        /\ flight' = IF bad THEN flight ELSE Tail(flight)
        /\ fault' = IF bad THEN "window" ELSE "none"
        /\ p' = IF bad THEN q ELSE fill_in_feedback(q, pkt, src)
        /\ hurried' = (hurried \/ (Fills(pkt) /\ pkt.rtt < Interval(q)))
        /\ granted' = IF bad \/ ~Fills(pkt) THEN granted
                      ELSE granted + TE_BY_RTT(q, up, pkt.rtt)
        /\ UNCHANGED <<ring, arrivals, mix, allotted>>
-----------------------------------------------------------------------------
(* The timers.                                                               *)

\* The faulty variant lets the queue shorten the interval without limit.
Tq_of_long(q) == (q.avg_rtt_ - (bytedepth * hz) \div (MULTI_FAC * q.link_capacity_Kbytes_)) \div 2
Tq_of(q) ==
    XCP_MAX(TICKS_CD002,
            Quotient(q.avg_rtt_ - (bytedepth * hz) \div (MULTI_FAC * q.link_capacity_Kbytes_), 2))

Tq_timeout ==
    LET bad == p.link_capacity_Kbytes_ = 0
    IN  /\ Running
        /\ p' = [p EXCEPT !.Queue_Kbytes_ = p.running_min_queue_Kbytes_,
                          !.running_min_queue_Kbytes_ = bytedepth \div MULTI_FAC,
                          !.Tq_ = IF bad THEN @ ELSE Tq_of(p)]
        /\ fault' = IF bad THEN "bandwidth" ELSE "none"
        /\ UNCHANGED <<ring, flight, arrivals, mix, hist>>

\* The mean round trip, weighted with the packets' shares.
mean_rtt(q) == q.sum_rtt_square_by_cwnd_ \div q.sum_rtt_by_cwnd_

rate_diff(q) == q.link_capacity_Kbytes_ - (q.input_traffic_Kbytes_ * hz) \div q.Te_
phi(q) == rate_diff(q) * Shr(alpha_g_ * mean_rtt(q)) - beta_g_ * q.Queue_Kbytes_

shuffled(q) == XCP_MAX(0, gamma_g_ * q.input_traffic_Kbytes_ - ABSOLUTE(phi(q)))

\* The largest increase the queue has room for.  A negative limit is a huge
\* u_int64_t in the comparison, so that it does not limit anything.
limit == Shl((Shr(CD6 * qsize) - slotdepth) * (MN_MTU \div MULTI_FAC))
limited(bta) == IF limit >= 0 /\ bta > limit THEN limit ELSE bta

\* Te_timeout when packets with a round trip have come in.  (xi_neg_ is shifted to
\* the left before its division and back after it, which changes nothing.)
estimated(q) ==
    LET avg == mean_rtt(q)
        BTA == limited(XCP_MAX(0, phi(q)) + shuffled(q))
        BTF == XCP_MAX(0, -phi(q)) + shuffled(q)
    IN  [q EXCEPT !.BTA_ = BTA, !.BTF_ = BTF,
                  !.xi_pos_ = (Shl(C1D1 * BTA) * 2^FP_EXTRA) \div (q.sum_rtt_by_cwnd_ * avg),
                  !.xi_neg_ = (C1D1 * BTF) \div (avg * q.num_Kbytes_in_Te_),
                  !.avg_rtt_ = Shr(avg * hz)]

\* A new interval; the faulty variant keeps a sum.
restarted_sum(q) ==
    [q EXCEPT !.input_traffic_Kbytes_ = 0, !.num_Kbytes_in_Te_ = 0,
              !.sum_rtt_square_by_cwnd_ = 0, !.Te_ = q.avg_rtt_]
restarted(q) ==
    [q EXCEPT !.input_traffic_Kbytes_ = 0, !.num_Kbytes_in_Te_ = 0, !.sum_rtt_by_cwnd_ = 0,
              !.sum_rtt_square_by_cwnd_ = 0, !.Te_ = q.avg_rtt_]

Te_timeout ==
    LET some == p.sum_rtt_by_cwnd_ > 0
        bad  == some /\ 0 \in {p.Te_, mean_rtt(p), p.num_Kbytes_in_Te_}
    IN  /\ Running
        /\ fault' = IF bad THEN "interval" ELSE "none"
        /\ p' = restarted(IF some /\ ~bad THEN estimated(p) ELSE p)
        /\ arrivals' = 0
        /\ hurried' = FALSE
        /\ allotted' = p'.BTA_
        /\ granted' = 0
        /\ UNCHANGED <<ring, flight, mix>>

Next == \/ \E pkt \in mix, n \in 0..qsize : emulate_hop(pkt, n)
        \/ \E src \in Fdbks : xcp_dequeue(src)
        \/ Tq_timeout
        \/ Te_timeout

Spec == Init /\ [][Next]_vars
-----------------------------------------------------------------------------
\* Type.
TypeOK ==
    /\ \A f \in DOMAIN p : p[f] \in Nat
    /\ Len(ring) <= qsize
    /\ fault \in {"none", "window", "bandwidth", "interval"}
    /\ hurried \in BOOLEAN

\* What is divided by zero is known.  Te_timeout never does it: whenever the sum of
\* the round trips is not 0, so is the number of kilobytes, and the mean round trip
\* is at least 1, whatever packets without a window, a round trip or a kilobyte came
\* in between.  fill_in_feedback does it only for a window below a kilobyte,
\* Tq_timeout only on a hop without a limit of bandwidth.
NoFault ==
    /\ fault # "interval"
    /\ fault = "window" => Head(flight).cwnd \in 1..(MULTI_FAC - 1)
    /\ fault = "bandwidth" => p.link_capacity_Kbytes_ = 0

\* Both timers are put into a slot ahead of the clock, less than a turn of the
\* calendar away: otherwise hopclock would never end, or the timer come early.  The
\* exceptions are traffic with a round trip of less than a tick, for Te_timeout
\* alone, and traffic with one longer than the calendar.
TimersAdvance ==
    LET trips == {rtt_ticks(pkt) : pkt \in {pkt \in mix : Fills(pkt)}}
    IN  /\ p.Tq_ > 0
        /\ p.Te_ = 0 => 0 \in trips
        /\ \A t \in {p.Te_, p.Tq_} : t < SCHEDLEN \/ \E r \in trips : r >= SCHEDLEN

\* As long as no packet's round trip is shorter than the control interval, the
\* increases handed out in an interval stay within what Te_timeout has allotted.
BudgetKept == ~hurried => granted + p.BTA_ <= allotted

\* The budgets are never negative: a charge never wraps them around.  (mn_xcp.h says
\* of xi_pos_, xi_neg_, BTA_ and BTF_ that they cannot be.)
NeverNegative == p.BTA_ <= allotted
=============================================================================
