--------------------------- MODULE HopQueueProofs ---------------------------
(***************************************************************************)
(* The invariants of one emulated link, for every ring size, rate, delay,   *)
(* packet lengths and stretch of time, on both kernels.                     *)
(***************************************************************************)
EXTENDS HopQueue, BwQueueProofs, SequenceTheorems

\* The inductive invariant: the law of the queue at the current tick, the
\* range of fragment, and the bounds on the exit just computed.
Inv == /\ tick \in Nat
       /\ QueueLaw(queue, TheLink, tick, MaxCharge)
       /\ queue.fragment \in Fragments
       /\ verdict \in {"none", "accepted", "overflow", "lost"}
       /\ exit \in Nat
       /\ ExitWithinHorizon

\* What the assumptions on the link say in the form the proofs cite.
LEMMA LinkFacts ==
    /\ IsLink(TheLink) /\ TheLink.KBps \in Nat /\ TheLink.qsize \in Nat \ {0}
    /\ BytesPerTick(TheLink) \in Nat
    /\ 0 \in Fragments
<1>1. /\ TheLink.KBps \in Nat /\ TheLink.qsize \in Nat \ {0} /\ TheLink.delay \in Nat
    BY LinkAssumption
<1>2. BytesPerTick(TheLink) \in Nat
    BY <1>1, HZAssumption DEF BytesPerTick
<1> QED
    BY <1>1, <1>2 DEF IsLink, Fragments

\* charge leaves a fragment that charge can start from again.
LEMMA FragmentsClosed ==
    ASSUME NEW len \in Lens, NEW extra \in BOOLEAN, NEW f \in Fragments
    PROVE  charge(TheLink, f, len, extra).fragment \in Fragments
<1>1. len \in Nat \ {0} /\ BytesPerTick(TheLink) \in Nat
    BY LensAssumption, LinkFacts
<1>2. CASE System = "linux"
  <2>1. f = 0 /\ Fragments = {0}
      BY <1>2 DEF Fragments
  <2> QED
      BY <1>1, <1>2, <2>1 DEF charge
<1>3. CASE System # "linux"
  <2> DEFINE bpt == BytesPerTick(TheLink)
             rest == IF f > len THEN 0 ELSE len - f
  <2>1. f \in 0..bpt /\ Fragments = 0..bpt
      BY <1>3 DEF Fragments
  <2>2. rest \in Nat
      BY <1>1, <2>1
  <2>3. bpt > 50 => rest % bpt \in 0..(bpt - 1)
      BY <1>1, <2>2
  <2>4. charge(TheLink, f, len, extra).fragment
          = IF rest # 0 /\ bpt > 50 /\ rest % bpt # 0 THEN bpt - (rest % bpt)
            ELSE IF f > len THEN f - len ELSE 0
      BY <1>3 DEF charge, SlowLink
  <2> HIDE DEF rest, bpt
  <2>5. bpt \in Nat
      BY <1>1 DEF bpt
  <2> QED
      BY <1>1, <2>1, <2>2, <2>3, <2>4, <2>5
<1> QED
    BY <1>2, <1>3

\* The link starts with an empty, clean ring.
LEMMA InitInv == Init => Inv
<1> SUFFICES ASSUME Init PROVE Inv
    OBVIOUS
<1>1. /\ queue.headslot = 0 /\ queue.slotdepth = 0 /\ queue.fragment = 0
      /\ queue.exittick = [s \in Ring(TheLink) |-> 0]
      /\ queue.slotlen = [s \in Ring(TheLink) |-> 0]
    BY DEF Init, InitQueue
<1>2. WellFormed(queue, TheLink)
    BY <1>1, LinkFacts DEF WellFormed, Ring
<1>3. InOrder(queue, TheLink, MaxCharge) /\ HeadDue(queue, TheLink, tick, MaxCharge)
    BY <1>1 DEF InOrder, HeadDue
<1> QED
    BY <1>1, <1>2, <1>3, LinkFacts, TickAssumption
       DEF Init, Inv, QueueLaw, ExitWithinHorizon

\* Time passing keeps the invariant: nothing moves, the head gets older.
LEMMA TickInv == Inv /\ Tick => Inv'
<1> SUFFICES ASSUME Inv, Tick PROVE Inv'
    OBVIOUS
<1>1. tick' \in Nat /\ tick <= tick' /\ queue' = queue /\ verdict' = "none" /\ exit' = 0
    BY DEF Inv, Tick
<1>2. QueueLaw(queue, TheLink, tick', MaxCharge)
    BY <1>1, LinkFacts, MaxChargeAssumption, TickKeepsLaw DEF Inv
<1> QED
    BY <1>1, <1>2 DEF Inv, ExitWithinHorizon

\* So does an arriving packet, whatever the random draws decide.
LEMMA ArriveInv ==
    ASSUME BandwidthLimited, Inv,
           NEW len \in Lens, NEW lost \in BOOLEAN, NEW extra \in BOOLEAN,
           Arrive(len, lost, extra)
    PROVE  Inv'
<1> DEFINE r == emulate_hop(queue, TheLink, tick, len, lost, extra)
<1>1. /\ tick' = tick /\ queue' = r.queue /\ exit' = r.exit
      /\ verdict' = IF lost THEN "lost"
                    ELSE IF r.dropped THEN "overflow" ELSE "accepted"
    BY DEF Arrive
<1>2. /\ QueueLaw(r.queue, TheLink, tick, MaxCharge)
      /\ r.queue.fragment \in Fragments
      /\ r.exit \in Nat
      /\ r.dropped \in BOOLEAN
      /\ ~r.dropped => /\ tick + TheLink.delay <= r.exit
                      /\ r.exit <= tick + TheLink.qsize * MaxCharge + TheLink.delay
  <2>1. \A f \in Fragments : charge(TheLink, f, len, extra).bwdelay \in 0..MaxCharge
      BY MaxChargeAssumption DEF BandwidthLimited
  <2>2. \A f \in Fragments : charge(TheLink, f, len, extra).fragment \in Fragments
      BY FragmentsClosed
  <2>3. len \in Nat
      BY LensAssumption
  <2> QED
      BY <2>1, <2>2, <2>3, LinkFacts, MaxChargeAssumption, EmulateHopKeepsLaw
         DEF Inv, BandwidthLimited
<1> HIDE DEF r
<1>3. verdict' \in {"none", "accepted", "overflow", "lost"}
    BY <1>1
<1>4. verdict' = "accepted" => ~r.dropped
    BY <1>1
<1>5. ExitWithinHorizon'
  <2>1. ASSUME verdict' = "accepted"
        PROVE  /\ tick' + TheLink.delay <= exit'
               /\ exit' <= tick' + TheLink.qsize * MaxCharge + TheLink.delay
      BY <1>1, <1>2, <1>4, <2>1
  <2> QED
      BY <2>1 DEF ExitWithinHorizon
<1>6. QueueLaw(queue', TheLink, tick', MaxCharge) /\ queue'.fragment \in Fragments
    BY <1>1, <1>2
<1>7. exit' \in Nat /\ tick' \in Nat
    BY <1>1, <1>2 DEF Inv
<1> QED
    BY <1>3, <1>5, <1>6, <1>7 DEF Inv

\* Inv is inductive on a link with a bandwidth limit.
LEMMA NextInv == BandwidthLimited /\ Inv /\ [Next]_vars => Inv'
<1> SUFFICES ASSUME BandwidthLimited, Inv, [Next]_vars PROVE Inv'
    OBVIOUS
<1>1. CASE Tick
    BY <1>1, TickInv
<1>2. CASE \E len \in Lens, lost, extra \in BOOLEAN : Arrive(len, lost, extra)
    BY <1>2, ArriveInv
<1>3. CASE UNCHANGED vars
    BY <1>3 DEF vars, Inv, ExitWithinHorizon
<1> QED
    BY <1>1, <1>2, <1>3 DEF Next

\* Inv holds in every reachable state of a link with a bandwidth limit.
LEMMA SpecInv == ASSUME BandwidthLimited PROVE Spec => []Inv
<1>1. Init => Inv
    BY InitInv
<1>2. Inv /\ [Next]_vars => Inv'
    BY NextInv
<1> QED
    BY <1>1, <1>2, PTL DEF Spec

\* The ring indices never leave the arrays and the queue never holds more than
\* qsize packets.
THEOREM TypeCorrect == ASSUME BandwidthLimited PROVE Spec => []TypeOK
<1>1. Inv => TypeOK
    BY DEF Inv, TypeOK, QueueLaw
<1>2. Spec => []Inv
    BY SpecInv
<1> QED
    BY <1>1, <1>2, PTL

\* Packets leave a link in the order they entered it, each within one
\* transmission of the one ahead.
THEOREM OrderCorrect == ASSUME BandwidthLimited PROVE Spec => [](ExitsInOrder /\ HeadIsDue)
<1>1. Inv => ExitsInOrder /\ HeadIsDue
    BY DEF Inv, QueueLaw, ExitsInOrder, HeadIsDue
<1>2. Spec => []Inv
    BY SpecInv
<1> QED
    BY <1>1, <1>2, PTL

\* The charge of the packet that is enqueued behind what update_bwq leaves.
LEMMA ChargeAfterUpdate ==
    ASSUME BandwidthLimited, Inv, NEW len \in Lens, NEW extra \in BOOLEAN
    PROVE  LET u == update_bwq(queue, TheLink, tick)
           IN  charge(TheLink, IF u.slotdepth = 0 THEN 0 ELSE u.fragment, len, extra).bwdelay \in Nat
<1> DEFINE u == update_bwq(queue, TheLink, tick)
           f == IF u.slotdepth = 0 THEN 0 ELSE u.fragment
<1>1. u.fragment = queue.fragment
    BY DEF update_bwq
<1>2. f \in Fragments
    BY <1>1, LinkFacts DEF Inv
<1> HIDE DEF f
<1>3. charge(TheLink, f, len, extra).bwdelay \in Nat
    BY <1>2, MaxChargeAssumption DEF BandwidthLimited
<1> QED
    BY <1>3 DEF f

\* An arriving packet leaves the ring clean: update_bwq clears what it frees and takes its
\* bytes off bytedepth, and the new packet's bytes are added once.
LEMMA ArriveClean ==
    ASSUME BandwidthLimited, Inv, RingIsClean,
           NEW len \in Lens, NEW lost \in BOOLEAN, NEW extra \in BOOLEAN,
           Arrive(len, lost, extra)
    PROVE  RingIsClean'
<1> DEFINE r == emulate_hop(queue, TheLink, tick, len, lost, extra)
<1>1. queue' = r.queue
    BY DEF Arrive
<1>2. /\ IsLink(TheLink) /\ TheLink.KBps # 0 /\ tick \in Nat /\ len \in Nat
      /\ WellFormed(queue, TheLink)
    BY LinkFacts, LensAssumption DEF Inv, QueueLaw, BandwidthLimited
<1>3. FreeSlotsClear(queue, TheLink) /\ BytesExact(queue, TheLink)
    BY DEF RingIsClean, BytesExact
<1>4. FreeSlotsClear(r.queue, TheLink)
    BY <1>2, <1>3, EmulateHopKeepsClear
<1>5. LET u == update_bwq(queue, TheLink, tick)
      IN  charge(TheLink, IF u.slotdepth = 0 THEN 0 ELSE u.fragment, len, extra).bwdelay \in Nat
    BY ChargeAfterUpdate
<1>6. BytesExact(r.queue, TheLink)
    BY <1>2, <1>3, <1>5, EmulateHopKeepsBytes
<1> HIDE DEF r
<1> QED
    BY <1>1, <1>4, <1>6 DEF RingIsClean, BytesExact

\* Free slots hold no stale entry and bytedepth is the sum of the lengths of the queued
\* packets, after any number of arrivals, losses, overflows and ticks.
THEOREM RingStaysClean == ASSUME BandwidthLimited PROVE Spec => []RingIsClean
<1>1. Init => RingIsClean
  <2> SUFFICES ASSUME Init PROVE RingIsClean
      OBVIOUS
  <2>1. /\ queue.headslot = 0 /\ queue.slotdepth = 0 /\ queue.bytedepth = 0
        /\ queue.exittick = [s \in Ring(TheLink) |-> 0]
        /\ queue.slotlen = [s \in Ring(TheLink) |-> 0]
      BY DEF Init, InitQueue
  <2>2. FreeSlotsClear(queue, TheLink)
      BY <2>1 DEF FreeSlotsClear
  <2>3. BytesAhead(queue, TheLink)[0] = 0
      BY LinkFacts, BytesAheadRec
  <2> QED
      BY <2>1, <2>2, <2>3 DEF RingIsClean, QueuedBytes
<1>2. Inv /\ RingIsClean /\ [Next]_vars => RingIsClean'
  <2> SUFFICES ASSUME Inv, RingIsClean, [Next]_vars PROVE RingIsClean'
      OBVIOUS
  <2>1. CASE Tick \/ UNCHANGED vars
    <3>1. queue' = queue
        BY <2>1 DEF Tick, vars
    <3> QED
        BY <3>1 DEF RingIsClean
  <2>2. CASE \E len \in Lens, lost, extra \in BOOLEAN : Arrive(len, lost, extra)
      BY <2>2, ArriveClean
  <2> QED
      BY <2>1, <2>2 DEF Next
<1>3. Spec => []Inv
    BY SpecInv
<1> QED
    BY <1>1, <1>2, <1>3, PTL DEF Spec

\* The exit emulate_hop computes is never in the past and never further ahead
\* than a full queue explains.
THEOREM HorizonCorrect == ASSUME BandwidthLimited PROVE Spec => []ExitWithinHorizon
<1>1. Inv => ExitWithinHorizon
    BY DEF Inv
<1>2. Spec => []Inv
    BY SpecInv
<1> QED
    BY <1>1, <1>2, PTL
-----------------------------------------------------------------------------
(* The refinement of FifoLink.                                               *)

\* A queue whose head is in transmission has nothing to remove.
LEMMA NothingDeparted ==
    ASSUME NEW q, WellFormed(q, TheLink), NEW t \in Nat,
           q.slotdepth > 0 => t <= ExitAt(q, TheLink, 0)
    PROVE  Departed(q, TheLink, t) = 0
<1> DEFINE n == Departed(q, TheLink, t)
<1>1. /\ n \in 0..q.slotdepth
      /\ \A i \in 0..(n - 1) : ExitAt(q, TheLink, i) < t
    BY LinkFacts, DepartedPrefix
<1>2. q.slotdepth \in Nat
    BY LinkFacts DEF WellFormed
<1>3. \A i \in 0..(q.slotdepth - 1) : ExitAt(q, TheLink, i) \in Nat
    BY LinkFacts, ExitsAreNat
<1> HIDE DEF n
<1>4. ASSUME n # 0 PROVE FALSE
  <2>1. 0 \in 0..(n - 1) /\ q.slotdepth > 0 /\ 0 \in 0..(q.slotdepth - 1)
      BY <1>1, <1>2, <1>4
  <2> QED
      BY <1>1, <1>3, <2>1
<1> QED
    BY <1>4 DEF n

\* update_bwq does not change the backlog, it only forgets what is no longer
\* part of it.
LEMMA UpdateKeepsBacklog ==
    ASSUME NEW q, NEW t \in Nat, QueueLaw(q, TheLink, t, MaxCharge)
    PROVE  LET u == update_bwq(q, TheLink, t)
           IN  /\ BacklogOf(u, t) = BacklogOf(q, t)
               /\ BacklogOf(u, t) = [i \in 1..u.slotdepth |-> ExitAt(u, TheLink, i - 1)]
<1> DEFINE u == update_bwq(q, TheLink, t)
           n == Departed(q, TheLink, t)
<1>0. MaxCharge \in Nat
    BY MaxChargeAssumption
<1>1. /\ QueueLaw(u, TheLink, t, MaxCharge)
      /\ u.slotdepth > 0 => t <= ExitAt(u, TheLink, 0)
    BY <1>0, LinkFacts, UpdateKeepsLaw
<1>2. /\ u.slotdepth = q.slotdepth - n
      /\ \A i \in 0..(u.slotdepth - 1) :
            ExitAt(u, TheLink, i) = ExitAt(q, TheLink, n + i)
    BY LinkFacts, UpdateBwq DEF QueueLaw
<1>3. n \in Nat /\ u.slotdepth \in Nat
    BY <1>1, LinkFacts, DepartedPrefix DEF QueueLaw, WellFormed
<1> HIDE DEF u, n
<1>4. Departed(u, TheLink, t) = 0
    BY <1>1, NothingDeparted DEF QueueLaw
<1>5. BacklogOf(u, t) = [i \in 1..u.slotdepth |-> ExitAt(u, TheLink, i - 1)]
  <2>1. u.slotdepth - 0 = u.slotdepth /\ \A i \in 1..u.slotdepth : 0 + i - 1 = i - 1
      BY <1>3
  <2> QED
      BY <1>4, <2>1 DEF BacklogOf
<1>6. BacklogOf(q, t) = [i \in 1..u.slotdepth |-> ExitAt(q, TheLink, n + i - 1)]
    BY <1>2 DEF BacklogOf, n
<1>7. ASSUME NEW i \in 1..u.slotdepth
      PROVE  ExitAt(u, TheLink, i - 1) = ExitAt(q, TheLink, n + i - 1)
  <2>1. i - 1 \in 0..(u.slotdepth - 1) /\ n + (i - 1) = n + i - 1
      BY <1>3
  <2> QED
      BY <1>2, <2>1
<1> QED
    BY <1>5, <1>6, <1>7 DEF u

\* The backlog is a sequence of ticks.
LEMMA BacklogType ==
    ASSUME NEW q, NEW t \in Nat, QueueLaw(q, TheLink, t, MaxCharge)
    PROVE  LET n == Departed(q, TheLink, t)
           IN  /\ n \in Nat /\ q.slotdepth \in Nat /\ n <= q.slotdepth
               /\ BacklogOf(q, t) \in Seq(Nat)
               /\ Len(BacklogOf(q, t)) = q.slotdepth - n
               /\ \A i \in 1..(q.slotdepth - n) :
                     BacklogOf(q, t)[i] = ExitAt(q, TheLink, n + i - 1)
<1> DEFINE n == Departed(q, TheLink, t)
<1>1. n \in Nat /\ q.slotdepth \in Nat /\ n <= q.slotdepth
    BY LinkFacts, DepartedPrefix DEF QueueLaw, WellFormed
<1> HIDE DEF n
<1>2. ASSUME NEW i \in 1..(q.slotdepth - n)
      PROVE  ExitAt(q, TheLink, n + i - 1) \in Nat
  <2>1. n + i - 1 \in 0..(q.slotdepth - 1)
      BY <1>1
  <2> QED
      BY <2>1, LinkFacts, ExitsAreNat DEF QueueLaw
<1>3. BacklogOf(q, t) = [i \in 1..(q.slotdepth - n) |-> ExitAt(q, TheLink, n + i - 1)]
    BY DEF BacklogOf, n
<1>4. q.slotdepth - n \in Nat
    BY <1>1
<1>5. BacklogOf(q, t) \in Seq(Nat) /\ Len(BacklogOf(q, t)) = q.slotdepth - n
    BY <1>2, <1>3, <1>4
<1> QED
    BY <1>1, <1>3, <1>5 DEF n

\* A tick of the clock is a Pass of the abstract link: the transmissions that
\* end are a prefix of the backlog.
LEMMA TickRefines == Inv /\ Tick => Abstract!Pass
<1> SUFFICES ASSUME Inv, Tick PROVE Abstract!Pass
    OBVIOUS
<1> DEFINE q == queue
           n == Departed(q, TheLink, tick)
           m == Departed(q, TheLink, tick')
           k == m - n
<1>1. /\ tick \in Nat /\ tick' = tick + 1 /\ queue' = queue /\ verdict' = "none"
      /\ MaxCharge \in Nat
    BY MaxChargeAssumption DEF Inv, Tick
<1>2. QueueLaw(q, TheLink, tick, MaxCharge) /\ QueueLaw(q, TheLink, tick', MaxCharge)
    BY <1>1, LinkFacts, TickKeepsLaw DEF Inv
<1>3. WellFormed(q, TheLink) /\ InOrder(q, TheLink, MaxCharge) /\ q.slotdepth \in Nat
    BY <1>2, LinkFacts DEF QueueLaw, WellFormed
<1>4. \A i \in 0..(q.slotdepth - 1) : ExitAt(q, TheLink, i) \in Nat
    BY <1>3, LinkFacts, ExitsAreNat
<1>5. /\ n \in 0..q.slotdepth
      /\ \A i \in 0..(n - 1) : ExitAt(q, TheLink, i) < tick
    BY <1>1, <1>3, LinkFacts, DepartedPrefix
<1>6. /\ m \in 0..q.slotdepth
      /\ \A i \in 0..(m - 1) : ExitAt(q, TheLink, i) < tick'
      /\ m < q.slotdepth => tick' <= ExitAt(q, TheLink, m)
  <2>1. tick' \in Nat
      BY <1>1
  <2> QED
      BY <1>3, <2>1, LinkFacts, DepartedPrefix
<1>7. /\ Backlog \in Seq(Nat) /\ Len(Backlog) = q.slotdepth - n
      /\ \A i \in 1..(q.slotdepth - n) : Backlog[i] = ExitAt(q, TheLink, n + i - 1)
    BY <1>1, <1>2, BacklogType DEF Backlog
<1>8. /\ Backlog' \in Seq(Nat) /\ Len(Backlog') = q.slotdepth - m
      /\ \A i \in 1..(q.slotdepth - m) : Backlog'[i] = ExitAt(q, TheLink, m + i - 1)
  <2>1. Backlog' = BacklogOf(q, tick')
      BY <1>1 DEF Backlog
  <2>2. tick' \in Nat
      BY <1>1
  <2> QED
      BY <1>2, <2>1, <2>2, BacklogType
<1> HIDE DEF n, m, q
<1>9. k \in 0..(q.slotdepth - n)
  <2>1. n <= m
    <3> SUFFICES ASSUME m < n PROVE FALSE
        BY <1>5, <1>6
    <3>1. m \in 0..(n - 1) /\ m \in 0..(q.slotdepth - 1) /\ m < q.slotdepth
        BY <1>3, <1>5, <1>6
    <3> QED
        BY <1>1, <1>4, <1>5, <1>6, <3>1
  <2> QED
      BY <1>3, <1>5, <1>6, <2>1
<1>10. ASSUME NEW i \in 1..k PROVE Backlog[i] < tick'
  <2>1. n + i - 1 \in 0..(m - 1) /\ i \in 1..(q.slotdepth - n)
      BY <1>3, <1>5, <1>6, <1>9
  <2> QED
      BY <1>6, <1>7, <2>1
<1>11. ASSUME NEW i \in (k + 1)..(q.slotdepth - n) PROVE tick' <= Backlog[i]
  <2>1. /\ n + i - 1 \in 0..(q.slotdepth - 1) /\ m \in 0..(q.slotdepth - 1)
        /\ m <= n + i - 1 /\ i \in 1..(q.slotdepth - n) /\ m < q.slotdepth
      BY <1>3, <1>5, <1>6, <1>9
  <2>2. 0 <= ExitAt(q, TheLink, n + i - 1) - ExitAt(q, TheLink, m)
      BY <1>3, <2>1 DEF InOrder
  <2> QED
      BY <1>1, <1>4, <1>6, <1>7, <2>1, <2>2
<1>12. Backlog' = SubSeq(Backlog, k + 1, Len(Backlog))
  <2> DEFINE s == SubSeq(Backlog, k + 1, q.slotdepth - n)
  <2>1. /\ s \in Seq(Nat) /\ Len(s) = q.slotdepth - m
        /\ \A i \in 1..(q.slotdepth - m) : s[i] = Backlog[k + i]
    <3>1. /\ k + 1 \in Int /\ q.slotdepth - n \in Int
          /\ (q.slotdepth - n) - (k + 1) + 1 = q.slotdepth - m
          /\ q.slotdepth - m >= 0
          /\ (k + 1 <= q.slotdepth - n) <=> (q.slotdepth - m >= 1)
          /\ \A i \in 1..(q.slotdepth - m) : (k + 1) + i - 1 = k + i
        BY <1>3, <1>5, <1>6, <1>9
    <3>2. \A i \in (k + 1)..(q.slotdepth - n) : Backlog[i] \in Nat
      <4> SUFFICES ASSUME NEW i \in (k + 1)..(q.slotdepth - n) PROVE Backlog[i] \in Nat
          OBVIOUS
      <4>1. i \in 1..Len(Backlog)
          BY <1>3, <1>5, <1>6, <1>7, <1>9
      <4> QED
          BY <1>7, <4>1
    <3> HIDE DEF k
    <3>3. /\ s \in Seq(Nat)
          /\ Len(s) = IF k + 1 <= q.slotdepth - n
                      THEN (q.slotdepth - n) - (k + 1) + 1 ELSE 0
          /\ \A i \in 1..((q.slotdepth - n) - (k + 1) + 1) : s[i] = Backlog[(k + 1) + i - 1]
        BY <3>1, <3>2, SubSeqProperties
    <3> HIDE DEF s
    <3>4. Len(s) = q.slotdepth - m
        BY <1>3, <1>6, <3>1, <3>3
    <3> QED
        BY <3>1, <3>3, <3>4
  <2>2. ASSUME NEW i \in 1..(q.slotdepth - m) PROVE Backlog'[i] = s[i]
    <3>1. k + i \in 1..(q.slotdepth - n) /\ n + (k + i) - 1 = m + i - 1
        BY <1>3, <1>5, <1>6, <1>9
    <3> HIDE DEF s
    <3> QED
        BY <1>7, <1>8, <2>1, <3>1
  <2> HIDE DEF s
  <2>3. Backlog' = s
      BY <1>8, <2>1, <2>2, SeqEqual
  <2> QED
      BY <1>7, <2>3 DEF s
<1> QED
  <2> HIDE DEF k
  <2> QED
      BY <1>1, <1>7, <1>9, <1>10, <1>11, <1>12 DEF Abstract!Pass

\* What emulate_hop does with a packet is what the abstract link does: it
\* overflows only when Capacity transmissions are pending, and an accepted
\* packet starts when the last of them ends.
LEMMA ArriveRefines ==
    ASSUME BandwidthLimited, Inv,
           NEW len \in Lens, NEW lost \in BOOLEAN, NEW extra \in BOOLEAN,
           Arrive(len, lost, extra)
    PROVE  Abstract!Next
<1> DEFINE q == queue
           u == update_bwq(q, TheLink, tick)
           e == enqueue(u, TheLink, tick, len, extra)
           r == emulate_hop(q, TheLink, tick, len, lost, extra)
           f == IF u.slotdepth = 0 THEN 0 ELSE u.fragment
           d == charge(TheLink, f, len, extra).bwdelay
           start == IF u.slotdepth = 0 THEN tick ELSE ExitAt(u, TheLink, u.slotdepth - 1)
<1>1. /\ tick \in Nat /\ tick' = tick /\ queue' = r.queue
      /\ verdict' = IF lost THEN "lost"
                    ELSE IF r.dropped THEN "overflow" ELSE "accepted"
      /\ MaxCharge \in Nat /\ len \in Nat
      /\ QueueLaw(q, TheLink, tick, MaxCharge) /\ q.fragment \in Fragments
    BY MaxChargeAssumption, LensAssumption DEF Inv, Arrive
<1>2. /\ QueueLaw(u, TheLink, tick, MaxCharge) /\ u.fragment = q.fragment
      /\ u.slotdepth > 0 => tick <= ExitAt(u, TheLink, 0)
    BY <1>1, LinkFacts, UpdateKeepsLaw
<1>3. settled(q, TheLink, tick) = u
    BY DEF settled, BandwidthLimited
<1>4. /\ BacklogOf(u, tick) = Backlog
      /\ BacklogOf(u, tick) = [i \in 1..u.slotdepth |-> ExitAt(u, TheLink, i - 1)]
    BY <1>1, UpdateKeepsBacklog DEF Backlog
<1> HIDE DEF u
<1>5. u.slotdepth \in Nat /\ u.slotdepth <= TheLink.qsize /\ WellFormed(u, TheLink)
    BY <1>2, LinkFacts DEF QueueLaw, WellFormed
<1>6. /\ Backlog \in Seq(Nat) /\ Len(Backlog) = u.slotdepth
      /\ \A i \in 1..u.slotdepth : Backlog[i] = ExitAt(u, TheLink, i - 1)
  <2>1. \A i \in 1..u.slotdepth : i - 1 \in 0..(u.slotdepth - 1)
      BY <1>5
  <2>2. \A i \in 1..u.slotdepth : ExitAt(u, TheLink, i - 1) \in Nat
      BY <1>5, <2>1, LinkFacts, ExitsAreNat
  <2> QED
      BY <1>4, <1>5, <2>2
<1>7. CASE lost \/ overflows(q, TheLink, tick)
  <2>1. r.queue = q \/ r.queue = u
      BY <1>3, <1>7 DEF emulate_hop
  <2>2. r.dropped = TRUE
      BY <1>7 DEF emulate_hop
  <2>3. Backlog' = Backlog
    <3>1. Backlog' = BacklogOf(r.queue, tick)
        BY <1>1 DEF Backlog
    <3> HIDE DEF r
    <3> QED
        BY <1>4, <2>1, <3>1 DEF Backlog
  <2> HIDE DEF r
  <2>4. CASE lost
    <3>1. verdict' = "lost"
        BY <1>1, <2>4
    <3> QED
        BY <1>1, <2>3, <3>1 DEF Abstract!Next, Abstract!Lose
  <2>5. CASE ~lost
    <3>1. verdict' = "overflow"
        BY <1>1, <2>2, <2>5
    <3>2. Len(Backlog) >= TheLink.qsize
        BY <1>3, <1>6, <1>7, <2>5 DEF overflows
    <3> QED
        BY <1>1, <2>3, <3>1, <3>2 DEF Abstract!Next, Abstract!Overflow
  <2> QED
      BY <2>4, <2>5
<1>8. CASE ~(lost \/ overflows(q, TheLink, tick))
  <2>1. r.dropped = FALSE /\ r.queue = e
      BY <1>3, <1>8 DEF emulate_hop
  <2>2. u.slotdepth < TheLink.qsize
      BY <1>3, <1>5, <1>8, LinkFacts DEF overflows, BandwidthLimited
  <2>3. f \in Fragments
      BY <1>1, <1>2, LinkFacts
  <2>4. d \in 0..MaxCharge
    <3> HIDE DEF f
    <3> QED
        BY <2>3, MaxChargeAssumption DEF BandwidthLimited
  <2>5. d \in Nat /\ d <= MaxCharge
      BY <1>1, <2>4
  <2>6. /\ WellFormed(e, TheLink)
        /\ e.slotdepth = u.slotdepth + 1
        /\ \A i \in 0..(u.slotdepth - 1) : ExitAt(e, TheLink, i) = ExitAt(u, TheLink, i)
        /\ ExitAt(e, TheLink, u.slotdepth) = start + d
    <3> HIDE DEF d
    <3> QED
        BY <1>1, <1>5, <2>2, <2>5, LinkFacts, Enqueue DEF BandwidthLimited, d
  <2> HIDE DEF e, d, f, r
  <2>7. start \in Nat /\ tick <= start
    <3>1. CASE u.slotdepth = 0
        BY <1>1, <3>1
    <3>2. CASE u.slotdepth # 0
      <4>1. /\ u.slotdepth - 1 \in 0..(u.slotdepth - 1) /\ 0 \in 0..(u.slotdepth - 1)
            /\ 0 <= u.slotdepth - 1
          BY <1>5, <3>2
      <4>2. ExitAt(u, TheLink, 0) \in Nat /\ ExitAt(u, TheLink, u.slotdepth - 1) \in Nat
          BY <1>5, <4>1, LinkFacts, ExitsAreNat
      <4>3. 0 <= ExitAt(u, TheLink, u.slotdepth - 1) - ExitAt(u, TheLink, 0)
          BY <1>2, <4>1 DEF QueueLaw, InOrder
      <4> QED
          BY <1>1, <1>2, <1>5, <3>2, <4>2, <4>3
    <3> QED
        BY <3>1, <3>2
  <2>8. start = IF Backlog = << >> THEN tick ELSE Backlog[Len(Backlog)]
    <3>1. CASE u.slotdepth = 0
        BY <1>6, <3>1
    <3>2. CASE u.slotdepth # 0
      <4>1. u.slotdepth \in 1..u.slotdepth /\ Backlog # << >>
          BY <1>5, <1>6, <3>2
      <4> QED
          BY <1>6, <3>2, <4>1
    <3> QED
        BY <3>1, <3>2
  <2> HIDE DEF start
  <2>9. Departed(e, TheLink, tick) = 0
    <3>1. tick <= ExitAt(e, TheLink, 0)
      <4>1. CASE u.slotdepth = 0
          BY <1>1, <2>5, <2>6, <2>7, <4>1
      <4>2. CASE u.slotdepth # 0
        <5>1. 0 \in 0..(u.slotdepth - 1) /\ u.slotdepth > 0
            BY <1>5, <4>2
        <5> QED
            BY <1>2, <2>6, <5>1
      <4> QED
          BY <4>1, <4>2
    <3> QED
        BY <1>1, <2>6, <3>1, NothingDeparted
  <2>10. Backlog' = [i \in 1..(u.slotdepth + 1) |-> ExitAt(e, TheLink, i - 1)]
    <3>1. Backlog' = BacklogOf(e, tick)
        BY <1>1, <2>1 DEF Backlog
    <3>2. /\ (u.slotdepth + 1) - 0 = u.slotdepth + 1
          /\ \A i \in 1..(u.slotdepth + 1) : 0 + i - 1 = i - 1
        BY <1>5
    <3> QED
        BY <2>6, <2>9, <3>1, <3>2 DEF BacklogOf
  <2>11. Backlog' = Append(Backlog, d + start)
    <3> DEFINE a == Append(Backlog, d + start)
    <3>1. d + start \in Nat /\ d + start = start + d
        BY <2>5, <2>7
    <3>2. /\ a \in Seq(Nat) /\ Len(a) = u.slotdepth + 1
          /\ \A i \in 1..u.slotdepth : a[i] = Backlog[i]
          /\ a[u.slotdepth + 1] = d + start
        BY <1>6, <3>1, AppendProperties
    <3> HIDE DEF a
    <3>3. ASSUME NEW i \in 1..(u.slotdepth + 1)
          PROVE  ExitAt(e, TheLink, i - 1) = a[i] /\ ExitAt(e, TheLink, i - 1) \in Nat
      <4>1. CASE i = u.slotdepth + 1
        <5>1. i - 1 = u.slotdepth
            BY <1>5, <4>1
        <5> QED
            BY <2>6, <3>1, <3>2, <4>1, <5>1
      <4>2. CASE i # u.slotdepth + 1
        <5>1. i \in 1..u.slotdepth /\ i - 1 \in 0..(u.slotdepth - 1)
            BY <1>5, <4>2
        <5>2. a[i] \in Nat
            BY <1>5, <3>2
        <5> QED
            BY <1>6, <2>6, <3>2, <5>1, <5>2
      <4> QED
          BY <4>1, <4>2
    <3>4. u.slotdepth + 1 \in Nat
        BY <1>5
    <3>5. Backlog' \in Seq(Nat) /\ Len(Backlog') = u.slotdepth + 1
        BY <2>10, <3>3, <3>4
    <3>6. \A i \in 1..Len(Backlog') : Backlog'[i] = a[i]
        BY <2>10, <3>3, <3>5
    <3>7. Backlog' = a
        BY <3>2, <3>5, <3>6, SeqEqual
    <3> QED
        BY <3>7 DEF a
  <2>12. verdict' = "accepted"
      BY <1>1, <1>8, <2>1
  <2>13. Len(Backlog) < TheLink.qsize
      BY <1>6, <2>2
  <2>14. Backlog' = Append(Backlog,
                      d + IF Backlog = << >> THEN tick ELSE Backlog[Len(Backlog)])
      BY <2>8, <2>11
  <2> QED
      BY <1>1, <2>4, <2>12, <2>13, <2>14 DEF Abstract!Next, Abstract!Accept
<1> QED
    BY <1>7, <1>8

\* The ring that update_bwq cleans lazily behaves like the abstract FIFO link,
\* for every ring size, rate and packet length, on both kernels.
THEOREM Refinement == ASSUME BandwidthLimited PROVE Spec => ImplementsFifoLink
<1>1. Init => Abstract!Init
  <2> SUFFICES ASSUME Init PROVE Abstract!Init
      OBVIOUS
  <2>1. Inv /\ queue.slotdepth = 0
      BY InitInv DEF Init, InitQueue
  <2>2. QueueLaw(queue, TheLink, tick, MaxCharge) /\ tick \in Nat
      BY <2>1 DEF Inv
  <2>3. Backlog \in Seq(Nat) /\ Len(Backlog) = 0
      BY <2>1, <2>2, BacklogType DEF Backlog
  <2>4. Backlog = << >>
      BY <2>3
  <2> QED
      BY <2>2, <2>4 DEF Init, Abstract!Init
<1>2. Inv /\ [Next]_vars => [Abstract!Next]_(Abstract!vars)
  <2> SUFFICES ASSUME Inv, [Next]_vars
               PROVE  Abstract!Next \/ UNCHANGED Abstract!vars
      OBVIOUS
  <2>1. CASE Tick
      BY <2>1, TickRefines DEF Abstract!Next
  <2>2. CASE \E len \in Lens, lost, extra \in BOOLEAN : Arrive(len, lost, extra)
      BY <2>2, ArriveRefines
  <2>3. CASE UNCHANGED vars
      BY <2>3 DEF vars, Abstract!vars, Backlog
  <2> QED
      BY <2>1, <2>2, <2>3 DEF Next
<1>3. Spec => []Inv
    BY SpecInv
<1> QED
    BY <1>1, <1>2, <1>3, PTL DEF Spec, ImplementsFifoLink, Abstract!Spec
=============================================================================
