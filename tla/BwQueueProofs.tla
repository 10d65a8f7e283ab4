---------------------------- MODULE BwQueueProofs ----------------------------
(***************************************************************************)
(* What update_bwq and enqueue do to the virtual bandwidth queue of a link  *)
(* with a bandwidth limit, for every ring size, every tick and every        *)
(* charge.  The specifications that use BwQueue cite these lemmas.          *)
(***************************************************************************)
EXTENDS BwQueue, TLAPS, WellFoundedInduction

\* The links the lemmas are about.
IsLink(link) == link.qsize \in Nat \ {0} /\ link.delay \in Nat

\* The length recorded for the i-th packet of the queue.
LenAt(q, link, i) == q.slotlen[Slot(q, link, i)]

\* Pairs related by < on the naturals, in the form the library uses.
LEMMA LessInRel ==
    ASSUME NEW a \in Nat, NEW b \in Nat, a < b
    PROVE  <<a, b>> \in OpToRel(<, Nat)
<1>1. <<a, b>> \in Nat \X Nat
    OBVIOUS
<1>2. <<a, b>>[1] < <<a, b>>[2]
    OBVIOUS
<1> QED
    BY <1>1, <1>2, Zenon DEF OpToRel

\* Min returns the least element of a non-empty set of naturals.
LEMMA MinIsLeast ==
    ASSUME NEW S, S \subseteq Nat, S # {}
    PROVE  Min(S) \in S /\ \A k \in S : Min(S) <= k
<1>1. \E x \in S : \A y \in S : ~(<<y, x>> \in OpToRel(<, Nat))
    BY NatLessThanWellFounded, WFMin
<1>2. \E x \in S : \A y \in S : ~(y < x)
  <2>1. PICK x \in S : \A y \in S : ~(<<y, x>> \in OpToRel(<, Nat))
      BY <1>1
  <2>2. ASSUME NEW y \in S PROVE ~(y < x)
      BY <2>1, LessInRel, Zenon
  <2> QED
      BY <2>2
<1>3. \E x \in S : \A y \in S : x <= y
    BY <1>2
<1> QED
    BY <1>3 DEF Min

\* The remainder that places the i-th packet of the queue wraps at most once.
LEMMA WrapOnce ==
    ASSUME NEW n \in Nat \ {0}, NEW a \in 0..(n - 1), NEW i \in 0..n
    PROVE  (a + i) % n = IF a + i < n THEN a + i ELSE a + i - n
<1>1. CASE a + i < n
    BY <1>1
<1>2. CASE a + i >= n
    BY <1>2
<1> QED
    BY <1>1, <1>2

\* The slot of the i-th packet, without the remainder.
LEMMA SlotValue ==
    ASSUME NEW link, IsLink(link), NEW q, q.headslot \in Ring(link),
           NEW i \in 0..link.qsize
    PROVE  Slot(q, link, i) = IF q.headslot + i < link.qsize
                              THEN q.headslot + i
                              ELSE q.headslot + i - link.qsize
<1>1. link.qsize \in Nat \ {0} /\ q.headslot \in 0..(link.qsize - 1)
    BY DEF IsLink, Ring
<1> QED
    BY <1>1, WrapOnce DEF Slot

\* Every packet has a slot of the ring, and two packets never share one.
LEMMA SlotsDistinct ==
    ASSUME NEW link, IsLink(link), NEW q, WellFormed(q, link)
    PROVE  /\ \A i \in 0..link.qsize : Slot(q, link, i) \in Ring(link)
           /\ \A i, j \in 0..(link.qsize - 1) :
                 Slot(q, link, i) = Slot(q, link, j) => i = j
<1>0. link.qsize \in Nat \ {0} /\ q.headslot \in 0..(link.qsize - 1)
    BY DEF IsLink, WellFormed, Ring
<1>1. \A i \in 0..link.qsize :
         Slot(q, link, i) = IF q.headslot + i < link.qsize
                            THEN q.headslot + i ELSE q.headslot + i - link.qsize
    BY SlotValue DEF WellFormed
<1>2. ASSUME NEW i \in 0..link.qsize PROVE Slot(q, link, i) \in Ring(link)
    BY <1>0, <1>1 DEF Ring
<1>3. ASSUME NEW i \in 0..(link.qsize - 1), NEW j \in 0..(link.qsize - 1),
             Slot(q, link, i) = Slot(q, link, j)
      PROVE  i = j
    BY <1>0, <1>1, <1>3
<1> QED
    BY <1>2, <1>3

\* update_bwq removes the packets at the head whose exit tick is past, and
\* stops at one that is still in transmission.
LEMMA DepartedPrefix ==
    ASSUME NEW link, IsLink(link), NEW q, WellFormed(q, link), NEW tick \in Nat
    PROVE  LET n == Departed(q, link, tick)
           IN  /\ n \in 0..q.slotdepth
               /\ \A i \in 0..(n - 1) : ExitAt(q, link, i) < tick
               /\ n < q.slotdepth => tick <= ExitAt(q, link, n)
<1> DEFINE S == {k \in 0..q.slotdepth :
                    k = q.slotdepth \/ ~(ExitAt(q, link, k) < tick)}
           n == Min(S)
<1>0. q.slotdepth \in Nat /\ q.slotdepth <= link.qsize
    BY DEF WellFormed, IsLink
<1>1. n \in S /\ \A k \in S : n <= k
  <2>1. S \subseteq Nat
      BY <1>0
  <2>2. q.slotdepth \in S
      BY <1>0
  <2> HIDE DEF S
  <2> QED
      BY <2>1, <2>2, MinIsLeast
<1>2. \A i \in 0..q.slotdepth : i < q.slotdepth => ExitAt(q, link, i) \in Nat
    BY <1>0, SlotsDistinct DEF ExitAt, WellFormed, IsLink
<1>3. n \in 0..q.slotdepth
    BY <1>1
<1>4. ASSUME NEW i \in 0..(n - 1) PROVE ExitAt(q, link, i) < tick
  <2>1. i \notin S
      BY <1>0, <1>1, <1>3
  <2> QED
      BY <1>0, <1>3, <2>1
<1>5. ASSUME n < q.slotdepth PROVE tick <= ExitAt(q, link, n)
  <2>1. ~(ExitAt(q, link, n) < tick)
      BY <1>0, <1>1, <1>5
  <2> QED
      BY <1>0, <1>2, <1>3, <1>5, <2>1
<1>6. Departed(q, link, tick) = n
    BY DEF Departed
<1> HIDE DEF n
<1> QED
    BY <1>3, <1>4, <1>5, <1>6

\* update_bwq moves the head past the departed packets and leaves the others
\* where they are, in the same order and with the same exit ticks.
LEMMA UpdateBwq ==
    ASSUME NEW link, IsLink(link), NEW q, WellFormed(q, link), NEW tick \in Nat
    PROVE  LET n == Departed(q, link, tick)
               u == update_bwq(q, link, tick)
           IN  /\ WellFormed(u, link)
               /\ u.slotdepth = q.slotdepth - n
               /\ u.fragment = q.fragment
               /\ \A i \in 0..(u.slotdepth - 1) :
                     ExitAt(u, link, i) = ExitAt(q, link, n + i)
               /\ \A i \in 0..(u.slotdepth - 1) :
                     LenAt(u, link, i) = LenAt(q, link, n + i)
               /\ u.bytedepth = q.bytedepth - BytesAhead(q, link)[n]
<1> DEFINE n == Departed(q, link, tick)
           u == update_bwq(q, link, tick)
           gone == {Slot(q, link, i) : i \in 0..(n - 1)}
<1>0. /\ link.qsize \in Nat \ {0}
      /\ q.headslot \in Ring(link)
      /\ q.slotdepth \in Nat /\ q.slotdepth <= link.qsize
      /\ q.exittick \in [Ring(link) -> Nat] /\ q.slotlen \in [Ring(link) -> Nat]
    BY DEF IsLink, WellFormed
<1>1. n \in 0..q.slotdepth
    BY DepartedPrefix
<1> HIDE DEF n
<1>2. /\ u.headslot = Slot(q, link, n)
      /\ u.slotdepth = q.slotdepth - n
      /\ u.fragment = q.fragment
      /\ u.bytedepth = q.bytedepth - BytesAhead(q, link)[n]
      /\ u.exittick = [s \in Ring(link) |-> IF s \in gone THEN 0 ELSE q.exittick[s]]
      /\ u.slotlen = [s \in Ring(link) |-> IF s \in gone THEN 0 ELSE q.slotlen[s]]
    BY DEF update_bwq, n
<1> HIDE DEF u
<1>3. WellFormed(u, link)
  <2>1. u.headslot \in Ring(link)
      BY <1>0, <1>1, <1>2, SlotsDistinct
  <2>2. u.slotdepth \in 0..link.qsize
      BY <1>0, <1>1, <1>2
  <2>3. u.exittick \in [Ring(link) -> Nat] /\ u.slotlen \in [Ring(link) -> Nat]
      BY <1>0, <1>2
  <2> QED
      BY <2>1, <2>2, <2>3 DEF WellFormed
<1>4. ASSUME NEW i \in 0..(u.slotdepth - 1)
      PROVE  /\ ExitAt(u, link, i) = ExitAt(q, link, n + i)
             /\ LenAt(u, link, i) = LenAt(q, link, n + i)
  <2>1. n + i \in 0..(q.slotdepth - 1) /\ n + i \in 0..(link.qsize - 1)
      BY <1>0, <1>1, <1>2
  <2>2. Slot(u, link, i) = Slot(q, link, n + i)
    <3>1. /\ q.headslot \in 0..(link.qsize - 1) /\ n \in 0..link.qsize
          /\ i \in 0..link.qsize /\ u.headslot \in 0..(link.qsize - 1)
      <4>1. q.headslot \in 0..(link.qsize - 1) /\ u.headslot \in 0..(link.qsize - 1)
          BY <1>0, <1>3 DEF Ring, WellFormed
      <4>2. n \in 0..link.qsize /\ i \in 0..link.qsize
          BY <1>0, <1>1, <2>1
      <4> QED
          BY <4>1, <4>2
    <3>2. u.headslot = IF q.headslot + n < link.qsize
                       THEN q.headslot + n ELSE q.headslot + n - link.qsize
        BY <1>0, <1>2, <3>1, SlotValue
    <3>3. Slot(u, link, i) = IF u.headslot + i < link.qsize
                             THEN u.headslot + i ELSE u.headslot + i - link.qsize
        BY <1>3, <3>1, SlotValue DEF WellFormed
    <3>4. Slot(q, link, n + i) = IF q.headslot + (n + i) < link.qsize
                                 THEN q.headslot + (n + i)
                                 ELSE q.headslot + (n + i) - link.qsize
      <4>1. n + i \in 0..link.qsize
          BY <1>0, <2>1
      <4> HIDE DEF gone
      <4> QED
          BY <1>0, <4>1, SlotValue
    <3> QED
        BY <1>0, <2>1, <3>1, <3>2, <3>3, <3>4
  <2>3. Slot(q, link, n + i) \notin gone
    <3>1. \A k \in 0..(n - 1) : k \in 0..(link.qsize - 1) /\ k # n + i
        BY <1>0, <1>1, <2>1
    <3> QED
        BY <2>1, <3>1, SlotsDistinct
  <2>4. Slot(q, link, n + i) \in Ring(link)
      BY <1>0, <2>1, SlotsDistinct
  <2> HIDE DEF gone
  <2> QED
      BY <1>2, <2>2, <2>3, <2>4 DEF ExitAt, LenAt
<1> QED
    BY <1>2, <1>3, <1>4 DEF n, u

\* The new packet's entry goes to the slot behind the tail; the entries of the
\* packets ahead of it do not change.
LEMMA Enqueue ==
    ASSUME NEW link, IsLink(link), NEW q, WellFormed(q, link),
           q.slotdepth < link.qsize,
           NEW tick \in Nat, NEW len \in Nat, NEW extra,
           NEW c \in Nat,
           link.KBps # 0,
           charge(link, IF q.slotdepth = 0 THEN 0 ELSE q.fragment, len, extra).bwdelay = c
    PROVE  LET e == enqueue(q, link, tick, len, extra)
               start == IF q.slotdepth = 0 THEN tick
                        ELSE ExitAt(q, link, q.slotdepth - 1)
           IN  /\ WellFormed(e, link)
               /\ e.slotdepth = q.slotdepth + 1
               /\ e.fragment = charge(link, IF q.slotdepth = 0 THEN 0 ELSE q.fragment,
                                      len, extra).fragment
               /\ \A i \in 0..(q.slotdepth - 1) :
                     ExitAt(e, link, i) = ExitAt(q, link, i)
               /\ ExitAt(e, link, q.slotdepth) = start + c
               /\ \A i \in 0..(q.slotdepth - 1) : LenAt(e, link, i) = LenAt(q, link, i)
               /\ LenAt(e, link, q.slotdepth) = len
               /\ e.bytedepth = q.bytedepth + len
<1> DEFINE e == enqueue(q, link, tick, len, extra)
           start == IF q.slotdepth = 0 THEN tick
                    ELSE ExitAt(q, link, q.slotdepth - 1)
           frag == IF q.slotdepth = 0 THEN 0 ELSE q.fragment
           newslot == Slot(q, link, q.slotdepth)
<1>0. /\ link.qsize \in Nat \ {0}
      /\ q.headslot \in Ring(link)
      /\ q.slotdepth \in Nat /\ q.slotdepth \in 0..(link.qsize - 1)
      /\ q.exittick \in [Ring(link) -> Nat] /\ q.slotlen \in [Ring(link) -> Nat]
    BY DEF IsLink, WellFormed
<1>1. newslot \in Ring(link)
    BY <1>0, SlotsDistinct
<1>2. start \in Nat
  <2>1. ASSUME q.slotdepth # 0 PROVE Slot(q, link, q.slotdepth - 1) \in Ring(link)
      BY <1>0, <2>1, SlotsDistinct
  <2> QED
      BY <1>0, <2>1 DEF ExitAt
<1>3. /\ e.headslot = q.headslot
      /\ e.slotdepth = q.slotdepth + 1
      /\ e.fragment = charge(link, frag, len, extra).fragment
      /\ e.exittick = [q.exittick EXCEPT ![newslot] = start + c]
      /\ e.slotlen = [q.slotlen EXCEPT ![newslot] = len]
      /\ e.bytedepth = q.bytedepth + len
    BY DEF enqueue
<1> HIDE DEF e, start, newslot
<1>4. WellFormed(e, link)
    BY <1>0, <1>1, <1>2, <1>3 DEF WellFormed
<1>5. \A i \in 0..q.slotdepth : Slot(e, link, i) = Slot(q, link, i)
    BY <1>3 DEF Slot
<1>6. ASSUME NEW i \in 0..(q.slotdepth - 1)
      PROVE  ExitAt(e, link, i) = ExitAt(q, link, i) /\ LenAt(e, link, i) = LenAt(q, link, i)
  <2>1. i \in 0..(link.qsize - 1) /\ i # q.slotdepth /\ i \in 0..q.slotdepth
      BY <1>0
  <2>2. Slot(q, link, i) # newslot /\ Slot(q, link, i) \in Ring(link)
      BY <1>0, <2>1, SlotsDistinct DEF newslot
  <2> QED
      BY <1>0, <1>3, <1>5, <2>1, <2>2 DEF ExitAt, LenAt
<1>7. ExitAt(e, link, q.slotdepth) = start + c /\ LenAt(e, link, q.slotdepth) = len
    BY <1>0, <1>1, <1>3, <1>5 DEF ExitAt, LenAt, newslot
<1> QED
    BY <1>3, <1>4, <1>6, <1>7 DEF e, start
-----------------------------------------------------------------------------
(* The law of the queue, and that every operation keeps it.                  *)

QueueLaw(q, link, tick, c) ==
    WellFormed(q, link) /\ InOrder(q, link, c) /\ HeadDue(q, link, tick, c)

\* One packet more in a queue takes one transmission more.
LEMMA TimesSucc ==
    ASSUME NEW k \in Nat, NEW c \in Nat
    PROVE  (k + 1) * c = k * c + c /\ k * c \in Nat
OBVIOUS

\* A longer queue takes no less time than a shorter one.
LEMMA TimesMonotone ==
    ASSUME NEW k \in Nat, NEW m \in Nat, NEW c \in Nat, k <= m
    PROVE  k * c <= m * c
OBVIOUS

\* The exit ticks recorded in the ring are naturals.
LEMMA ExitsAreNat ==
    ASSUME NEW link, IsLink(link), NEW q, WellFormed(q, link)
    PROVE  \A i \in 0..(q.slotdepth - 1) : ExitAt(q, link, i) \in Nat
<1> SUFFICES ASSUME NEW i \in 0..(q.slotdepth - 1)
             PROVE  ExitAt(q, link, i) \in Nat
    OBVIOUS
<1>1. i \in 0..link.qsize
    BY DEF WellFormed, IsLink
<1> QED
    BY <1>1, SlotsDistinct DEF ExitAt, WellFormed

\* Time passing does not break the law: the head only gets more overdue.
LEMMA TickKeepsLaw ==
    ASSUME NEW link, IsLink(link), NEW q, NEW tick \in Nat, NEW c \in Nat,
           QueueLaw(q, link, tick, c), NEW later \in Nat, tick <= later
    PROVE  QueueLaw(q, link, later, c)
<1>1. q.slotdepth > 0 => ExitAt(q, link, 0) \in Nat
    BY ExitsAreNat DEF QueueLaw, WellFormed, IsLink
<1> QED
    BY <1>1 DEF QueueLaw, HeadDue

\* After update_bwq the law still holds, and what is left is in transmission:
\* the head exits at tick or later.  The tick may have been read before the lock
\* was taken, so it is now or earlier.
LEMMA UpdateKeepsLaw ==
    ASSUME NEW link, IsLink(link), NEW q, NEW tick \in Nat, NEW now \in Nat, tick <= now,
           NEW c \in Nat, QueueLaw(q, link, now, c)
    PROVE  LET u == update_bwq(q, link, tick)
           IN  /\ QueueLaw(u, link, now, c)
               /\ u.fragment = q.fragment
               /\ u.slotdepth > 0 => tick <= ExitAt(u, link, 0)
<1> DEFINE u == update_bwq(q, link, tick)
           n == Departed(q, link, tick)
<1>0. WellFormed(q, link) /\ InOrder(q, link, c) /\ HeadDue(q, link, now, c)
    BY DEF QueueLaw
<1>1. /\ n \in 0..q.slotdepth /\ q.slotdepth \in Nat
      /\ \A i \in 0..(n - 1) : ExitAt(q, link, i) < tick
      /\ n < q.slotdepth => tick <= ExitAt(q, link, n)
    BY <1>0, DepartedPrefix DEF WellFormed, IsLink
<1>2. /\ WellFormed(u, link)
      /\ u.slotdepth = q.slotdepth - n
      /\ u.fragment = q.fragment
      /\ \A i \in 0..(u.slotdepth - 1) : ExitAt(u, link, i) = ExitAt(q, link, n + i)
    BY <1>0, UpdateBwq
<1>3. \A i \in 0..(q.slotdepth - 1) : ExitAt(q, link, i) \in Nat
    BY <1>0, ExitsAreNat
<1> HIDE DEF u, n
<1>4. InOrder(u, link, c)
  <2> SUFFICES ASSUME NEW i \in 0..(u.slotdepth - 1), NEW j \in 0..(u.slotdepth - 1),
                      i <= j
               PROVE  /\ 0 <= ExitAt(u, link, j) - ExitAt(u, link, i)
                      /\ ExitAt(u, link, j) - ExitAt(u, link, i) <= (j - i) * c
      BY DEF InOrder
  <2>1. /\ n + i \in 0..(q.slotdepth - 1) /\ n + j \in 0..(q.slotdepth - 1)
        /\ n + i <= n + j /\ (n + j) - (n + i) = j - i
      BY <1>1, <1>2
  <2>2. /\ 0 <= ExitAt(q, link, n + j) - ExitAt(q, link, n + i)
        /\ ExitAt(q, link, n + j) - ExitAt(q, link, n + i)
             <= ((n + j) - (n + i)) * c
      BY <1>0, <2>1 DEF InOrder
  <2> QED
      BY <1>2, <2>1, <2>2
<1>5. HeadDue(u, link, now, c) /\ (u.slotdepth > 0 => tick <= ExitAt(u, link, 0))
  <2> SUFFICES ASSUME u.slotdepth > 0
               PROVE  ExitAt(u, link, 0) <= now + c /\ tick <= ExitAt(u, link, 0)
      BY DEF HeadDue
  <2>1. n < q.slotdepth /\ ExitAt(u, link, 0) = ExitAt(q, link, n)
      BY <1>1, <1>2
  <2>2. ExitAt(q, link, n) <= now + c
    <3>1. CASE n = 0
        BY <1>0, <2>1, <3>1 DEF HeadDue
    <3>2. CASE n > 0
      <4>1. n - 1 \in 0..(q.slotdepth - 1) /\ n \in 0..(q.slotdepth - 1)
            /\ n - 1 <= n /\ n - (n - 1) = 1 /\ n - 1 \in 0..(n - 1)
          BY <1>1, <2>1, <3>2
      <4>2. ExitAt(q, link, n) - ExitAt(q, link, n - 1) <= (n - (n - 1)) * c
          BY <1>0, <4>1 DEF InOrder
      <4>3. ExitAt(q, link, n) - ExitAt(q, link, n - 1) <= c
          BY <4>1, <4>2
      <4>4. ExitAt(q, link, n - 1) < tick
          BY <1>1, <4>1
      <4> QED
          BY <1>3, <4>1, <4>3, <4>4
    <3> QED
        BY <1>1, <3>1, <3>2
  <2> QED
      BY <1>1, <2>1, <2>2
<1> QED
    BY <1>2, <1>4, <1>5 DEF QueueLaw, u

\* Enqueueing on an up-to-date queue that has room keeps the law, and bounds
\* the exit tick of the new packet from both sides.
LEMMA EnqueueKeepsLaw ==
    ASSUME NEW link, IsLink(link), link.KBps # 0,
           NEW q, NEW tick \in Nat, NEW now \in Nat, tick <= now, NEW c \in Nat,
           QueueLaw(q, link, now, c), q.slotdepth < link.qsize,
           q.slotdepth > 0 => tick <= ExitAt(q, link, 0),
           NEW len \in Nat, NEW extra,
           charge(link, IF q.slotdepth = 0 THEN 0 ELSE q.fragment, len, extra).bwdelay
               \in 0..c
    PROVE  LET e == enqueue(q, link, tick, len, extra)
               x == ExitAt(e, link, e.slotdepth - 1)
           IN  /\ QueueLaw(e, link, now, c)
               /\ e.fragment = charge(link, IF q.slotdepth = 0 THEN 0 ELSE q.fragment,
                                      len, extra).fragment
               /\ x \in Nat /\ tick <= x /\ x <= now + link.qsize * c
<1> DEFINE e == enqueue(q, link, tick, len, extra)
           d == charge(link, IF q.slotdepth = 0 THEN 0 ELSE q.fragment, len, extra).bwdelay
           m == q.slotdepth
           start == IF m = 0 THEN tick ELSE ExitAt(q, link, m - 1)
<1>0. WellFormed(q, link) /\ InOrder(q, link, c) /\ HeadDue(q, link, now, c)
    BY DEF QueueLaw
<1>1. d \in Nat /\ d <= c /\ m \in Nat /\ m < link.qsize /\ link.qsize \in Nat
    BY <1>0 DEF WellFormed, IsLink
<1>2. /\ WellFormed(e, link)
      /\ e.slotdepth = m + 1
      /\ e.fragment = charge(link, IF q.slotdepth = 0 THEN 0 ELSE q.fragment,
                             len, extra).fragment
      /\ \A i \in 0..(m - 1) : ExitAt(e, link, i) = ExitAt(q, link, i)
      /\ ExitAt(e, link, m) = start + d
  <2> HIDE DEF d
  <2> QED
      BY <1>0, <1>1, Enqueue DEF d
<1>3. \A i \in 0..(m - 1) : ExitAt(q, link, i) \in Nat
    BY <1>0, ExitsAreNat
<1> HIDE DEF e, d, m
<1>4. ASSUME NEW i \in 0..(m - 1)
      PROVE  /\ 0 <= start - ExitAt(q, link, i)
             /\ start - ExitAt(q, link, i) + c <= (m - i) * c
  <2>1. m - 1 \in 0..(m - 1) /\ m # 0 /\ i <= m - 1 /\ (m - 1) - i \in Nat
      BY <1>1
  <2>2. /\ 0 <= ExitAt(q, link, m - 1) - ExitAt(q, link, i)
        /\ ExitAt(q, link, m - 1) - ExitAt(q, link, i) <= ((m - 1) - i) * c
      BY <1>0, <2>1 DEF InOrder, m
  <2>3. (m - i) * c = ((m - 1) - i) * c + c
    <3>1. m - i = ((m - 1) - i) + 1
        BY <1>1, <2>1
    <3> QED
        BY <2>1, <3>1, TimesSucc
  <2>4. ((m - 1) - i) * c \in Nat
      BY <2>1, TimesSucc
  <2> QED
      BY <1>3, <2>1, <2>2, <2>3, <2>4
<1>5. start \in Nat /\ tick <= start /\ start + c <= now + (m + 1) * c
  <2>1. CASE m = 0
      BY <2>1
  <2>2. CASE m # 0
    <3>1. 0 \in 0..(m - 1) /\ m - 1 \in 0..(m - 1) /\ q.slotdepth > 0
        BY <1>1, <2>2 DEF m
    <3>2. 0 <= start - ExitAt(q, link, 0) /\ start - ExitAt(q, link, 0) + c <= (m - 0) * c
        BY <1>4, <3>1
    <3>3. tick <= ExitAt(q, link, 0) /\ ExitAt(q, link, 0) <= now + c
        BY <1>0, <3>1 DEF HeadDue
    <3>4. (m + 1) * c = m * c + c /\ m * c \in Nat /\ m - 0 = m
        BY <1>1, TimesSucc
    <3>5. start \in Nat
        BY <1>3, <2>2, <3>1
    <3> QED
        BY <1>3, <3>1, <3>2, <3>3, <3>4, <3>5
  <2> QED
      BY <2>1, <2>2
<1> HIDE DEF start
<1>6. InOrder(e, link, c)
  <2> SUFFICES ASSUME NEW i \in 0..m, NEW j \in 0..m, i <= j
               PROVE  /\ 0 <= ExitAt(e, link, j) - ExitAt(e, link, i)
                      /\ ExitAt(e, link, j) - ExitAt(e, link, i) <= (j - i) * c
      BY <1>1, <1>2 DEF InOrder
  <2>1. CASE j < m
    <3>1. i \in 0..(m - 1) /\ j \in 0..(m - 1)
        BY <1>1, <2>1
    <3> QED
        BY <1>0, <1>2, <3>1 DEF InOrder, m
  <2>2. CASE j = m /\ i < m
    <3>1. i \in 0..(m - 1)
        BY <1>1, <2>2
    <3> QED
        BY <1>1, <1>2, <1>3, <1>4, <1>5, <2>2, <3>1
  <2>3. CASE j = m /\ i = m
    <3>1. (j - i) * c = 0
        BY <1>1, <2>3
    <3> QED
        BY <1>1, <1>2, <1>5, <2>3, <3>1
  <2> QED
      BY <1>1, <2>1, <2>2, <2>3
<1>7. HeadDue(e, link, now, c)
  <2>1. CASE m = 0
      BY <1>1, <1>2, <2>1 DEF HeadDue, start
  <2>2. CASE m # 0
    <3>1. 0 \in 0..(m - 1) /\ q.slotdepth > 0
        BY <1>1, <2>2 DEF m
    <3> QED
        BY <1>0, <1>2, <3>1 DEF HeadDue
  <2> QED
      BY <2>1, <2>2
<1>8. (m + 1) * c <= link.qsize * c
    BY <1>1, TimesMonotone
<1>9. LET x == ExitAt(e, link, e.slotdepth - 1)
      IN  x \in Nat /\ tick <= x /\ x <= now + link.qsize * c
  <2>1. e.slotdepth - 1 = m
      BY <1>1, <1>2
  <2>2. link.qsize * c \in Nat /\ (m + 1) * c \in Nat
      BY <1>1, TimesSucc
  <2> QED
      BY <1>1, <1>2, <1>5, <1>8, <2>1, <2>2
<1> QED
    BY <1>2, <1>6, <1>7, <1>9 DEF QueueLaw, e

\* A packet that meets emulate_hop on a link with a bandwidth limit, dropped or
\* not, leaves the queue lawful; if it is accepted its exit lies between tick
\* and a full queue from now, where now is tick or, when tick was read before the
\* hop's lock was taken, later.  Both kernels.
LEMMA EmulateHopKeepsLaw ==
    ASSUME NEW link, IsLink(link), link.KBps # 0,
           NEW q, NEW tick \in Nat, NEW now \in Nat, tick <= now, NEW c \in Nat,
           QueueLaw(q, link, now, c),
           NEW F, 0 \in F, q.fragment \in F,
           NEW len \in Nat, NEW lost \in BOOLEAN, NEW extra \in BOOLEAN,
           \A f \in F : charge(link, f, len, extra).bwdelay \in 0..c,
           \A f \in F : charge(link, f, len, extra).fragment \in F
    PROVE  LET r == emulate_hop(q, link, tick, len, lost, extra)
           IN  /\ QueueLaw(r.queue, link, now, c)
               /\ r.queue.fragment \in F
               /\ r.exit \in Nat
               /\ r.dropped \in BOOLEAN
               /\ ~r.dropped => /\ tick + link.delay <= r.exit
                               /\ r.exit <= now + link.qsize * c + link.delay
<1> DEFINE r == emulate_hop(q, link, tick, len, lost, extra)
           u == update_bwq(q, link, tick)
           e == enqueue(u, link, tick, len, extra)
<1>1. /\ QueueLaw(u, link, now, c)
      /\ u.fragment = q.fragment
      /\ u.slotdepth > 0 => tick <= ExitAt(u, link, 0)
    BY UpdateKeepsLaw
<1>2. settled(q, link, tick) = u
    BY DEF settled
<1> HIDE DEF u
<1>3. CASE lost \/ overflows(q, link, tick)
  <2>1. r.queue = q \/ r.queue = u
      BY <1>2, <1>3 DEF emulate_hop
  <2>2. r.dropped = TRUE /\ r.exit = 0
      BY <1>3 DEF emulate_hop
  <2> HIDE DEF r
  <2>3. QueueLaw(r.queue, link, now, c) /\ r.queue.fragment \in F
      BY <1>1, <2>1
  <2>4. r.exit \in Nat
      BY <2>2
  <2> QED
      BY <2>2, <2>3, <2>4, Zenon DEF r
<1>4. CASE ~(lost \/ overflows(q, link, tick))
  <2>1. u.slotdepth < link.qsize
      BY <1>1, <1>2, <1>4 DEF overflows, QueueLaw, WellFormed, IsLink
  <2> DEFINE f == IF u.slotdepth = 0 THEN 0 ELSE u.fragment
  <2>2. f \in F
      BY <1>1
  <2>3. LET x == ExitAt(e, link, e.slotdepth - 1)
        IN  /\ QueueLaw(e, link, now, c)
            /\ e.fragment = charge(link, f, len, extra).fragment
            /\ x \in Nat /\ tick <= x /\ x <= now + link.qsize * c
    <3>1. charge(link, f, len, extra).bwdelay \in 0..c
        BY <2>2
    <3> QED
        BY <1>1, <2>1, <3>1, EnqueueKeepsLaw
  <2>4. /\ r.dropped = FALSE /\ r.queue = e
        /\ r.exit = ExitAt(e, link, e.slotdepth - 1) + link.delay
      BY <1>2, <1>4 DEF emulate_hop
  <2>5. link.delay \in Nat /\ link.qsize * c \in Nat
      BY TimesSucc DEF IsLink
  <2>6. e.fragment \in F
    <3> HIDE DEF f, e
    <3> QED
        BY <2>2, <2>3
  <2> HIDE DEF e, f, r
  <2>7. QueueLaw(r.queue, link, now, c) /\ r.queue.fragment \in F
      BY <2>3, <2>4, <2>6
  <2>8. /\ r.exit \in Nat
        /\ tick + link.delay <= r.exit
        /\ r.exit <= now + link.qsize * c + link.delay
      BY <2>3, <2>4, <2>5
  <2> QED
      BY <2>4, <2>7, <2>8, Zenon DEF r
<1> QED
    BY <1>3, <1>4
-----------------------------------------------------------------------------
(* Free slots stay clear.                                                    *)

\* The slots update_bwq frees are cleared, and the others are still occupied.
LEMMA UpdateKeepsClear ==
    ASSUME NEW link, IsLink(link), NEW q, WellFormed(q, link), NEW tick \in Nat,
           FreeSlotsClear(q, link)
    PROVE  FreeSlotsClear(update_bwq(q, link, tick), link)
<1> DEFINE n == Departed(q, link, tick)
           u == update_bwq(q, link, tick)
           gone == {Slot(q, link, i) : i \in 0..(n - 1)}
<1>0. /\ link.qsize \in Nat \ {0}
      /\ q.headslot \in Ring(link)
      /\ q.slotdepth \in Nat /\ q.slotdepth <= link.qsize
    BY DEF IsLink, WellFormed
<1>1. n \in 0..q.slotdepth
    BY DepartedPrefix
<1>2. WellFormed(u, link)
    BY UpdateBwq
<1> HIDE DEF n
<1>3. /\ u.headslot = Slot(q, link, n)
      /\ u.slotdepth = q.slotdepth - n
      /\ u.exittick = [s \in Ring(link) |-> IF s \in gone THEN 0 ELSE q.exittick[s]]
      /\ u.slotlen = [s \in Ring(link) |-> IF s \in gone THEN 0 ELSE q.slotlen[s]]
    BY DEF update_bwq, n
<1> HIDE DEF u
<1>4. ASSUME NEW k \in n..(q.slotdepth - 1) PROVE Slot(q, link, k) = Slot(u, link, k - n)
  <2>1. /\ q.headslot \in 0..(link.qsize - 1) /\ u.headslot \in 0..(link.qsize - 1)
        /\ n \in 0..link.qsize /\ k \in 0..link.qsize /\ k - n \in 0..link.qsize
    <3>1. n \in 0..link.qsize /\ k \in 0..link.qsize /\ k - n \in 0..link.qsize
        BY <1>0, <1>1
    <3> QED
        BY <1>0, <1>2, <3>1 DEF Ring, WellFormed
  <2>2. /\ u.headslot = IF q.headslot + n < link.qsize
                        THEN q.headslot + n ELSE q.headslot + n - link.qsize
        /\ Slot(q, link, k) = IF q.headslot + k < link.qsize
                              THEN q.headslot + k ELSE q.headslot + k - link.qsize
    <3> HIDE DEF gone
    <3> QED
        BY <1>0, <1>3, <2>1, SlotValue
  <2>3. Slot(u, link, k - n) = IF u.headslot + (k - n) < link.qsize
                               THEN u.headslot + (k - n)
                               ELSE u.headslot + (k - n) - link.qsize
      BY <1>2, <2>1, SlotValue DEF WellFormed
  <2> QED
      BY <1>0, <2>1, <2>2, <2>3
<1>5. ASSUME NEW s \in Ring(link), s \notin Occupied(u, link), s \notin gone
      PROVE  s \notin Occupied(q, link)
  <2> SUFFICES ASSUME NEW k \in 0..(q.slotdepth - 1), s = Slot(q, link, k) PROVE FALSE
      BY DEF Occupied
  <2>1. k \in n..(q.slotdepth - 1)
      BY <1>0, <1>1, <1>5
  <2>2. k - n \in 0..(u.slotdepth - 1) /\ s = Slot(u, link, k - n)
      BY <1>0, <1>1, <1>3, <1>4, <2>1
  <2> QED
      BY <1>5, <2>2 DEF Occupied
<1> HIDE DEF gone
<1>6. ASSUME NEW s \in Ring(link) \ Occupied(u, link) PROVE u.exittick[s] = 0 /\ u.slotlen[s] = 0
  <2>1. CASE s \in gone
      BY <1>3, <2>1
  <2>2. CASE s \notin gone
      BY <1>3, <1>5, <2>2 DEF FreeSlotsClear
  <2> QED
      BY <2>1, <2>2
<1> QED
    BY <1>6 DEF FreeSlotsClear, u

\* enqueue writes to the slot it occupies.
LEMMA EnqueueKeepsClear ==
    ASSUME NEW link, IsLink(link), NEW q, WellFormed(q, link), FreeSlotsClear(q, link),
           NEW tick, NEW len, NEW extra
    PROVE  FreeSlotsClear(enqueue(q, link, tick, len, extra), link)
<1> DEFINE e == enqueue(q, link, tick, len, extra)
           newslot == Slot(q, link, q.slotdepth)
<1>0. q.slotdepth \in Nat
    BY DEF IsLink, WellFormed
<1>1. /\ e.headslot = q.headslot /\ e.slotdepth = q.slotdepth + 1
      /\ \E x : e.exittick = [q.exittick EXCEPT ![newslot] = x]
      /\ \E x : e.slotlen = [q.slotlen EXCEPT ![newslot] = x]
    BY DEF enqueue
<1> HIDE DEF e
<1>2. newslot \in Occupied(e, link) /\ Occupied(q, link) \subseteq Occupied(e, link)
    BY <1>0, <1>1 DEF Occupied, Slot
<1> HIDE DEF newslot
<1>3. ASSUME NEW s \in Ring(link) \ Occupied(e, link) PROVE e.exittick[s] = 0 /\ e.slotlen[s] = 0
  <2>1. s # newslot /\ s \in Ring(link) \ Occupied(q, link)
      BY <1>2
  <2>2. q.exittick[s] = 0 /\ q.slotlen[s] = 0
      BY <2>1 DEF FreeSlotsClear
  <2> QED
      BY <1>1, <2>1, <2>2 DEF WellFormed
<1> QED
    BY <1>3 DEF FreeSlotsClear, e

\* No packet that meets emulate_hop leaves a stale entry in a free slot.
LEMMA EmulateHopKeepsClear ==
    ASSUME NEW link, IsLink(link), NEW q, WellFormed(q, link), FreeSlotsClear(q, link),
           NEW tick \in Nat, NEW len, NEW lost, NEW extra
    PROVE  FreeSlotsClear(emulate_hop(q, link, tick, len, lost, extra).queue, link)
<1> DEFINE u == settled(q, link, tick)
<1>1. FreeSlotsClear(u, link) /\ WellFormed(u, link)
    BY UpdateKeepsClear, UpdateBwq DEF settled
<1>2. FreeSlotsClear(enqueue(u, link, tick, len, extra), link)
    BY <1>1, EnqueueKeepsClear
<1> HIDE DEF u
<1>3. LET r == emulate_hop(q, link, tick, len, lost, extra)
      IN  r.queue \in {q, u, enqueue(u, link, tick, len, extra)}
    BY DEF emulate_hop, u
<1> QED
    BY <1>1, <1>2, <1>3
-----------------------------------------------------------------------------
(* bytedepth is the sum of the lengths of the queued packets.                *)

\* The sums of the first i lengths from the head are defined for every ring size.
LEMMA SumsExist ==
    ASSUME NEW q, NEW link, NEW m \in Nat
    PROVE  \E sum : sum = [i \in 0..m |-> IF i = 0 THEN 0
                                          ELSE sum[i - 1] + q.slotlen[Slot(q, link, i - 1)]]
<1> DEFINE Is(sum, k) == sum = [i \in 0..k |-> IF i = 0 THEN 0
                                    ELSE sum[i - 1] + q.slotlen[Slot(q, link, i - 1)]]
           Bad == {k \in Nat : ~(\E sum : Is(sum, k))}
<1>1. SUFFICES ASSUME Bad # {} PROVE FALSE
    OBVIOUS
<1>2. PICK k \in Bad : \A j \in Bad : k <= j
  <2>1. Bad \subseteq Nat
      OBVIOUS
  <2> HIDE DEF Bad
  <2> QED
      BY <1>1, <2>1, MinIsLeast
<1>3. k \in Nat /\ ~(\E sum : Is(sum, k))
    OBVIOUS
<1>4. CASE k = 0
  <2> DEFINE z == [i \in 0..0 |-> 0]
  <2>1. Is(z, 0)
      OBVIOUS
  <2> QED
      BY <1>3, <1>4, <2>1
<1>5. CASE k # 0
  <2>1. k - 1 \in Nat /\ k - 1 \notin Bad
      BY <1>2, <1>3, <1>5
  <2>2. PICK s : Is(s, k - 1)
      BY <2>1
  <2> DEFINE t == [i \in 0..k |-> IF i = k THEN s[k - 1] + q.slotlen[Slot(q, link, k - 1)]
                                  ELSE s[i]]
  <2>3. ASSUME NEW i \in 0..k
        PROVE  t[i] = IF i = 0 THEN 0 ELSE t[i - 1] + q.slotlen[Slot(q, link, i - 1)]
    <3>1. CASE i = k
      <4>1. k - 1 \in 0..k /\ k - 1 # k /\ i - 1 = k - 1
          BY <1>3, <1>5, <3>1
      <4> QED
          BY <1>3, <1>5, <3>1, <4>1
    <3>2. CASE i # k
      <4>1. i \in 0..(k - 1) /\ (i # 0 => i - 1 \in 0..k /\ i - 1 # k)
          BY <1>3, <3>2
      <4>2. s[i] = IF i = 0 THEN 0 ELSE s[i - 1] + q.slotlen[Slot(q, link, i - 1)]
          BY <2>2, <4>1
      <4> QED
          BY <3>2, <4>1, <4>2
    <3> QED
        BY <3>1, <3>2
  <2>4. t = [i \in 0..k |-> t[i]]
      OBVIOUS
  <2> HIDE DEF t
  <2>5. Is(t, k)
      BY <2>3, <2>4
  <2> QED
      BY <1>3, <2>5
<1> QED
    BY <1>4, <1>5

\* BytesAhead satisfies its recursive definition.
LEMMA BytesAheadRec ==
    ASSUME NEW link, IsLink(link), NEW q
    PROVE  /\ BytesAhead(q, link)[0] = 0
           /\ \A i \in 0..(link.qsize - 1) :
                 BytesAhead(q, link)[i + 1] = BytesAhead(q, link)[i] + LenAt(q, link, i)
<1> DEFINE Is(sum) == sum = [i \in 0..link.qsize |-> IF i = 0 THEN 0
                                    ELSE sum[i - 1] + q.slotlen[Slot(q, link, i - 1)]]
           B == BytesAhead(q, link)
<1>0. link.qsize \in Nat
    BY DEF IsLink
<1>1. \E sum : Is(sum)
    BY <1>0, SumsExist, Zenon
<1>2. B = CHOOSE sum : Is(sum)
    BY DEF BytesAhead
<1>3. Is(B)
    BY <1>1, <1>2
<1> HIDE DEF B
<1>4. \A i \in 0..link.qsize : B[i] = IF i = 0 THEN 0
                                   ELSE B[i - 1] + q.slotlen[Slot(q, link, i - 1)]
    BY <1>3
<1>5. 0 \in 0..link.qsize
    BY <1>0
<1>6. B[0] = 0
    BY <1>4, <1>5
<1>7. ASSUME NEW i \in 0..(link.qsize - 1) PROVE B[i + 1] = B[i] + LenAt(q, link, i)
  <2>1. i + 1 \in 0..link.qsize /\ i + 1 # 0 /\ (i + 1) - 1 = i
      BY <1>0
  <2> QED
      BY <1>4, <2>1 DEF LenAt
<1> QED
    BY <1>6, <1>7 DEF B

\* The d packets of queue u are those of q behind the first n.
Continues(u, q, link, n, d) ==
    /\ n + d <= link.qsize
    /\ \A i \in 0..(n + d - 1) : LenAt(q, link, i) \in Nat
    /\ \A i \in 0..(d - 1) : LenAt(u, link, i) = LenAt(q, link, n + i)

\* Then their bytes are those of q up to n + d, less the first n.
LEMMA BytesShift ==
    ASSUME NEW link, IsLink(link), NEW q, NEW u, NEW n \in Nat, NEW d \in Nat,
           Continues(u, q, link, n, d)
    PROVE  /\ BytesAhead(q, link)[n] \in Nat /\ BytesAhead(q, link)[n + d] \in Nat
           /\ BytesAhead(u, link)[d] = BytesAhead(q, link)[n + d] - BytesAhead(q, link)[n]
<1> DEFINE B == BytesAhead(q, link)
           C == BytesAhead(u, link)
           top == n + d
<1>0. /\ link.qsize \in Nat /\ top \in Nat /\ top <= link.qsize
      /\ \A i \in 0..(top - 1) : LenAt(q, link, i) \in Nat
      /\ \A i \in 0..(d - 1) : LenAt(u, link, i) = LenAt(q, link, n + i)
    BY DEF IsLink, Continues
<1>1. B[0] = 0 /\ \A i \in 0..(link.qsize - 1) : B[i + 1] = B[i] + LenAt(q, link, i)
    BY BytesAheadRec
<1>2. C[0] = 0 /\ \A i \in 0..(link.qsize - 1) : C[i + 1] = C[i] + LenAt(u, link, i)
    BY BytesAheadRec
<1> HIDE DEF B, C
<1>3. \A k \in 0..top : B[k] \in Nat
  <2> DEFINE Bad == {k \in 0..top : B[k] \notin Nat}
  <2>1. SUFFICES ASSUME Bad # {} PROVE FALSE
      OBVIOUS
  <2>2. PICK k \in Bad : \A j \in Bad : k <= j
    <3>1. Bad \subseteq Nat
        BY <1>0
    <3> HIDE DEF Bad
    <3> QED
        BY <2>1, <3>1, MinIsLeast
  <2>3. k \in 0..top /\ B[k] \notin Nat
      OBVIOUS
  <2>4. k # 0
      BY <1>1, <2>3
  <2>5. k - 1 \in 0..top /\ k - 1 \in 0..(link.qsize - 1) /\ k - 1 \in 0..(top - 1) /\ (k - 1) + 1 = k
      BY <1>0, <2>3, <2>4
  <2>6. B[k - 1] \in Nat
      BY <2>2, <2>5
  <2> HIDE DEF Bad
  <2>7. B[k] = B[k - 1] + LenAt(q, link, k - 1) /\ LenAt(q, link, k - 1) \in Nat
      BY <1>0, <1>1, <2>5
  <2> QED
      BY <2>3, <2>6, <2>7
<1>4. \A k \in 0..d : C[k] = B[n + k] - B[n]
  <2> DEFINE Bad == {k \in 0..d : C[k] # B[n + k] - B[n]}
  <2>1. SUFFICES ASSUME Bad # {} PROVE FALSE
      OBVIOUS
  <2>2. PICK k \in Bad : \A j \in Bad : k <= j
    <3>1. Bad \subseteq Nat
        OBVIOUS
    <3> HIDE DEF Bad
    <3> QED
        BY <2>1, <3>1, MinIsLeast
  <2>3. k \in 0..d /\ C[k] # B[n + k] - B[n]
      OBVIOUS
  <2>4. k # 0
    <3>1. n + 0 = n /\ n \in 0..top
        BY <1>0
    <3>2. B[n] \in Nat
        BY <1>3, <3>1
    <3>3. B[n] - B[n] = 0
        BY <3>2
    <3> QED
        BY <1>2, <2>3, <3>1, <3>3
  <2>5. /\ k - 1 \in 0..d /\ k - 1 \in 0..(link.qsize - 1) /\ k - 1 \in 0..(d - 1)
        /\ (k - 1) + 1 = k /\ n + (k - 1) \in 0..(link.qsize - 1) /\ (n + (k - 1)) + 1 = n + k
        /\ n + (k - 1) \in 0..(top - 1) /\ {n, n + k, n + (k - 1)} \subseteq 0..top
      BY <1>0, <2>3, <2>4
  <2>6. C[k - 1] = B[n + (k - 1)] - B[n]
      BY <2>2, <2>5
  <2> HIDE DEF Bad
  <2>7. C[k] = C[k - 1] + LenAt(q, link, n + (k - 1))
      BY <1>0, <1>2, <2>5
  <2>8. B[n + k] = B[n + (k - 1)] + LenAt(q, link, n + (k - 1))
      BY <1>1, <2>5
  <2>9. LenAt(q, link, n + (k - 1)) \in Nat /\ B[n + (k - 1)] \in Nat /\ B[n] \in Nat
      BY <1>0, <1>3, <2>5
  <2> QED
      BY <2>3, <2>6, <2>7, <2>8, <2>9
<1>5. n \in 0..top /\ top \in 0..top /\ d \in 0..d
    BY <1>0
<1> QED
    BY <1>3, <1>4, <1>5 DEF B, C

\* The recorded lengths are naturals.
LEMMA LengthsAreNat ==
    ASSUME NEW link, IsLink(link), NEW q, WellFormed(q, link)
    PROVE  \A i \in 0..(link.qsize - 1) : LenAt(q, link, i) \in Nat
<1> SUFFICES ASSUME NEW i \in 0..(link.qsize - 1) PROVE LenAt(q, link, i) \in Nat
    OBVIOUS
<1>1. i \in 0..link.qsize
    BY DEF IsLink
<1> QED
    BY <1>1, SlotsDistinct DEF LenAt, WellFormed

BytesExact(q, link) == q.bytedepth = QueuedBytes(q, link)

\* update_bwq takes the bytes of the packets it removes off bytedepth, and enqueue adds
\* those of the new packet; so emulate_hop keeps bytedepth exact, lost or not.
LEMMA EmulateHopKeepsBytes ==
    ASSUME NEW link, IsLink(link), link.KBps # 0, NEW q, WellFormed(q, link), BytesExact(q, link),
           NEW tick \in Nat, NEW len \in Nat, NEW lost, NEW extra,
           LET u == update_bwq(q, link, tick)
           IN  charge(link, IF u.slotdepth = 0 THEN 0 ELSE u.fragment, len, extra).bwdelay \in Nat
    PROVE  BytesExact(emulate_hop(q, link, tick, len, lost, extra).queue, link)
<1> DEFINE u == update_bwq(q, link, tick)
           n == Departed(q, link, tick)
           e == enqueue(u, link, tick, len, extra)
           r == emulate_hop(q, link, tick, len, lost, extra)
<1>0. q.slotdepth \in Nat /\ q.slotdepth <= link.qsize /\ link.qsize \in Nat
    BY DEF WellFormed, IsLink
<1>1. n \in 0..q.slotdepth
    BY DepartedPrefix
<1>2. /\ WellFormed(u, link) /\ u.slotdepth = q.slotdepth - n
      /\ \A i \in 0..(u.slotdepth - 1) : LenAt(u, link, i) = LenAt(q, link, n + i)
      /\ u.bytedepth = q.bytedepth - BytesAhead(q, link)[n]
    BY UpdateBwq
<1>3. settled(q, link, tick) = u
    BY DEF settled
<1>4. charge(link, IF u.slotdepth = 0 THEN 0 ELSE u.fragment, len, extra).bwdelay \in Nat
    OBVIOUS
<1> HIDE DEF u, n
<1>5. BytesExact(u, link)
  <2>1. PICK k \in Nat, d \in Nat : k = n /\ d = u.slotdepth
      BY <1>0, <1>1, <1>2
  <2>2. k + d = q.slotdepth /\ k + d <= link.qsize
      BY <1>0, <1>2, <2>1
  <2>3. Continues(u, q, link, k, d)
    <3>1. \A i \in 0..(k + d - 1) : i \in 0..(link.qsize - 1)
        BY <1>0, <2>2
    <3> QED
        BY <1>2, <2>1, <2>2, <3>1, LengthsAreNat DEF Continues
  <2>4. BytesAhead(u, link)[d] = BytesAhead(q, link)[k + d] - BytesAhead(q, link)[k]
      BY <2>3, BytesShift
  <2> QED
      BY <1>2, <2>1, <2>2, <2>4 DEF BytesExact, QueuedBytes
<1>6. CASE lost \/ overflows(q, link, tick)
  <2>1. r.queue \in {q, u}
      BY <1>3, <1>6 DEF emulate_hop
  <2> HIDE DEF r
  <2> QED
      BY <1>5, <2>1 DEF r
<1>7. CASE ~(lost \/ overflows(q, link, tick))
  <2>1. u.slotdepth < link.qsize /\ u.slotdepth \in Nat
      BY <1>2, <1>3, <1>7 DEF overflows, WellFormed, IsLink
  <2>2. r.queue = e
      BY <1>3, <1>7 DEF emulate_hop
  <2>3. /\ WellFormed(e, link) /\ e.slotdepth = u.slotdepth + 1
        /\ \A i \in 0..(u.slotdepth - 1) : LenAt(e, link, i) = LenAt(u, link, i)
        /\ LenAt(e, link, u.slotdepth) = len
        /\ e.bytedepth = u.bytedepth + len
      BY <1>2, <1>4, <2>1, Enqueue
  <2> HIDE DEF e, r
  <2>0. PICK m \in Nat : m = u.slotdepth
      BY <2>1
  <2>4. BytesAhead(e, link)[m] = BytesAhead(u, link)[m] /\ BytesAhead(u, link)[m] \in Nat
    <3>1. PICK z \in Nat : z = 0
        OBVIOUS
    <3>2. Continues(e, u, link, z, m)
      <4>1. \A i \in 0..(m - 1) : i \in 0..(link.qsize - 1) /\ z + i = i
          BY <1>0, <2>0, <2>1, <3>1
      <4>2. \A i \in 0..(m - 1) : LenAt(u, link, i) \in Nat
          BY <1>2, <4>1, LengthsAreNat
      <4>3. z + m = m /\ m <= link.qsize
          BY <1>0, <2>0, <2>1, <3>1
      <4> QED
          BY <2>0, <2>3, <4>1, <4>2, <4>3 DEF Continues
    <3>3. /\ BytesAhead(u, link)[z] \in Nat /\ BytesAhead(u, link)[z + m] \in Nat
          /\ BytesAhead(e, link)[m] = BytesAhead(u, link)[z + m] - BytesAhead(u, link)[z]
        BY <3>2, BytesShift
    <3>4. BytesAhead(u, link)[0] = 0 /\ z + m = m
        BY <3>1, BytesAheadRec
    <3> QED
        BY <3>1, <3>3, <3>4
  <2>5. m \in 0..(link.qsize - 1)
      BY <1>0, <2>0, <2>1
  <2>6. BytesAhead(e, link)[m + 1] = BytesAhead(e, link)[m] + LenAt(e, link, m)
      BY <2>5, BytesAheadRec
  <2>7. BytesExact(e, link)
      BY <1>5, <2>0, <2>3, <2>4, <2>6 DEF BytesExact, QueuedBytes
  <2> QED
      BY <2>2, <2>7 DEF r
<1> QED
    BY <1>6, <1>7
-----------------------------------------------------------------------------
(* A packet that enters a link leaves it no earlier than those ahead of it.  *)

\* The transmission of a packet that enters now ends no earlier than tick b.
NotBefore(q, link, tick, b) ==
    \/ b <= tick
    \/ q.slotdepth > 0 /\ b <= ExitAt(q, link, q.slotdepth - 1)

\* What holds of the queue before the packet holds after it, and the packet that is
\* accepted is the last.
InTurn(r, q, link, tick) ==
    /\ \A b \in Int : NotBefore(q, link, tick, b) =>
         NotBefore(r.queue, link, tick, b) /\ (~r.dropped => b + link.delay <= r.exit)
    /\ ~r.dropped => NotBefore(r.queue, link, tick, r.exit - link.delay)

\* emulate_hop puts the packet behind all that are in transmission; the entries that
\* update_bwq removes have exited before.
LEMMA EmulateHopInTurn ==
    ASSUME NEW link, IsLink(link), link.KBps # 0,
           NEW q, NEW tick \in Nat, NEW now \in Nat, tick <= now, NEW most \in Nat,
           QueueLaw(q, link, now, most), NEW len \in Nat, NEW lost \in BOOLEAN, NEW extra,
           LET u == update_bwq(q, link, tick)
           IN  charge(link, IF u.slotdepth = 0 THEN 0 ELSE u.fragment, len, extra).bwdelay \in Nat
    PROVE  InTurn(emulate_hop(q, link, tick, len, lost, extra), q, link, tick)
<1> DEFINE u == update_bwq(q, link, tick)
           n == Departed(q, link, tick)
           c == charge(link, IF u.slotdepth = 0 THEN 0 ELSE u.fragment, len, extra).bwdelay
           e == enqueue(u, link, tick, len, extra)
           r == emulate_hop(q, link, tick, len, lost, extra)
<1>0. /\ WellFormed(q, link) /\ q.slotdepth \in Nat /\ link.delay \in Nat
      /\ \A i \in 0..(q.slotdepth - 1) : ExitAt(q, link, i) \in Nat
    BY ExitsAreNat DEF QueueLaw, WellFormed, IsLink
<1>1. /\ n \in 0..q.slotdepth /\ \A i \in 0..(n - 1) : ExitAt(q, link, i) < tick
    BY <1>0, DepartedPrefix
<1>2. /\ WellFormed(u, link) /\ u.slotdepth = q.slotdepth - n
      /\ \A i \in 0..(u.slotdepth - 1) : ExitAt(u, link, i) = ExitAt(q, link, n + i)
      /\ InOrder(u, link, most) /\ (u.slotdepth > 0 => tick <= ExitAt(u, link, 0))
  <2>0. WellFormed(q, link)
      BY DEF QueueLaw
  <2>1. /\ WellFormed(u, link) /\ u.slotdepth = q.slotdepth - n
        /\ \A i \in 0..(u.slotdepth - 1) : ExitAt(u, link, i) = ExitAt(q, link, n + i)
      BY <2>0, UpdateBwq
  <2>2. QueueLaw(u, link, now, most) /\ (u.slotdepth > 0 => tick <= ExitAt(u, link, 0))
      BY UpdateKeepsLaw
  <2> QED
      BY <2>1, <2>2 DEF QueueLaw
<1>3. settled(q, link, tick) = u /\ c \in Nat
    BY DEF settled
<1> HIDE DEF u, n, c
<1>4. ASSUME NEW b \in Int, NotBefore(q, link, tick, b) PROVE NotBefore(u, link, tick, b)
  <2>1. CASE b <= tick
      BY <2>1 DEF NotBefore
  <2>2. CASE q.slotdepth > 0 /\ b <= ExitAt(q, link, q.slotdepth - 1)
    <3>1. q.slotdepth - 1 \in 0..(q.slotdepth - 1)
        BY <1>0, <2>2
    <3>2. CASE u.slotdepth = 0
      <4>1. q.slotdepth - 1 \in 0..(n - 1)
          BY <1>0, <1>1, <1>2, <2>2, <3>2
      <4>2. ExitAt(q, link, q.slotdepth - 1) < tick
          BY <1>1, <4>1
      <4> QED
          BY <1>0, <2>2, <3>1, <4>2 DEF NotBefore
    <3>3. CASE u.slotdepth # 0
      <4>1. /\ u.slotdepth > 0 /\ u.slotdepth - 1 \in 0..(u.slotdepth - 1)
            /\ n + (u.slotdepth - 1) = q.slotdepth - 1
          BY <1>0, <1>1, <1>2, <3>3
      <4> QED
          BY <1>2, <2>2, <4>1 DEF NotBefore
    <3> QED
        BY <3>2, <3>3
  <2> QED
      BY <1>4, <2>1, <2>2 DEF NotBefore
<1>5. CASE lost \/ overflows(q, link, tick)
  <2>1. r.queue \in {q, u} /\ r.dropped = TRUE
      BY <1>3, <1>5 DEF emulate_hop
  <2> HIDE DEF r
  <2> QED
      BY <1>4, <2>1 DEF InTurn, r
<1>6. CASE ~(lost \/ overflows(q, link, tick))
  <2>1. u.slotdepth < link.qsize /\ u.slotdepth \in Nat
      BY <1>2, <1>3, <1>6 DEF overflows, WellFormed, IsLink
  <2>2. /\ r.queue = e /\ r.dropped = FALSE
        /\ r.exit = ExitAt(e, link, e.slotdepth - 1) + link.delay
      BY <1>3, <1>6 DEF emulate_hop
  <2> DEFINE start == IF u.slotdepth = 0 THEN tick ELSE ExitAt(u, link, u.slotdepth - 1)
  <2>3. /\ e.slotdepth = u.slotdepth + 1 /\ ExitAt(e, link, u.slotdepth) = start + c
      BY <1>2, <1>3, <2>1, Enqueue DEF c
  <2> HIDE DEF e, r
  <2>4. start \in Nat /\ tick <= start
    <3>1. CASE u.slotdepth = 0
        BY <3>1
    <3>2. CASE u.slotdepth # 0
      <4>1. u.slotdepth > 0 /\ {0, u.slotdepth - 1} \subseteq 0..(u.slotdepth - 1) /\ 0 <= u.slotdepth - 1
          BY <2>1, <3>2
      <4>2. ExitAt(u, link, 0) \in Nat /\ ExitAt(u, link, u.slotdepth - 1) \in Nat
          BY <1>2, <4>1, ExitsAreNat
      <4>3. 0 <= ExitAt(u, link, u.slotdepth - 1) - ExitAt(u, link, 0)
          BY <1>2, <4>1 DEF InOrder
      <4> QED
          BY <1>2, <3>2, <4>1, <4>2, <4>3
    <3> QED
        BY <3>1, <3>2
  <2>5. ASSUME NEW b \in Int, NotBefore(u, link, tick, b) PROVE b <= start
      BY <2>1, <2>4, <2>5 DEF NotBefore
  <2> HIDE DEF start
  <2>6. e.slotdepth > 0 /\ e.slotdepth - 1 = u.slotdepth
      BY <2>1, <2>3
  <2>7. r.exit = start + c + link.delay
      BY <2>2, <2>3, <2>6
  <2>8. ASSUME NEW b \in Int, b <= start + c PROVE NotBefore(r.queue, link, tick, b)
      BY <2>2, <2>3, <2>6, <2>8 DEF NotBefore
  <2>9. ASSUME NEW b \in Int, NotBefore(q, link, tick, b)
        PROVE  NotBefore(r.queue, link, tick, b) /\ b + link.delay <= r.exit
    <3>1. b <= start
        BY <1>4, <2>5, <2>9
    <3>2. b <= start + c
        BY <1>3, <2>4, <3>1
    <3> QED
        BY <1>0, <1>3, <2>4, <2>7, <2>8, <3>2
  <2>10. NotBefore(r.queue, link, tick, r.exit - link.delay)
    <3>1. r.exit - link.delay \in Int /\ r.exit - link.delay <= start + c
        BY <1>0, <1>3, <2>4, <2>7
    <3> QED
        BY <2>8, <3>1
  <2> QED
      BY <2>9, <2>10 DEF InTurn, r
<1> QED
    BY <1>5, <1>6
-----------------------------------------------------------------------------
(* A link with no bandwidth limit: its ring is filled and never drained, and *)
(* nothing but the ranges of the indices is left of the law.                 *)

InRange(q, link) ==
    /\ q.headslot \in Ring(link) /\ q.slotdepth \in Nat
    /\ q.exittick \in [Ring(link) -> Nat]

\* emulate_hop keeps the indices in range and computes a tick.
LEMMA EmulateHopUnlimited ==
    ASSUME NEW link, IsLink(link), link.KBps = 0, NEW q, InRange(q, link),
           NEW tick \in Nat, NEW len, NEW lost \in BOOLEAN, NEW extra
    PROVE  LET r == emulate_hop(q, link, tick, len, lost, extra)
           IN  /\ InRange(r.queue, link) /\ r.exit \in Nat /\ r.dropped \in BOOLEAN
               /\ r.queue.fragment \in {0, q.fragment}
<1> DEFINE r == emulate_hop(q, link, tick, len, lost, extra)
           e == enqueue(q, link, tick, len, extra)
           new == Slot(q, link, q.slotdepth)
           x == ExitAt(e, link, e.slotdepth - 1)
<1>1. settled(q, link, tick) = q /\ ~overflows(q, link, tick)
    BY DEF settled, overflows
<1>2. /\ link.qsize \in Nat \ {0} /\ link.delay \in Nat /\ q.headslot \in Nat
      /\ q.slotdepth \in Nat
    BY DEF IsLink, InRange, Ring
<1>3. \A i \in Nat : (q.headslot + i) % link.qsize \in 0..(link.qsize - 1)
    BY <1>2
<1>4. \A i \in Nat : Slot(q, link, i) \in Ring(link)
    BY <1>3 DEF Slot, Ring
<1> DEFINE start == IF q.slotdepth = 0 THEN tick ELSE ExitAt(q, link, q.slotdepth - 1)
<1>5. start \in Nat
  <2>1. q.slotdepth # 0 => q.slotdepth - 1 \in Nat
      BY <1>2
  <2> QED
      BY <1>4, <2>1 DEF ExitAt, InRange
<1>6. /\ e.headslot = q.headslot /\ e.slotdepth = q.slotdepth + 1
      /\ e.exittick = [q.exittick EXCEPT ![new] = start + 0]
      /\ e.fragment \in {0, q.fragment}
    BY DEF enqueue
<1> HIDE DEF start, e
<1>7. InRange(e, link) /\ x \in Nat
  <2>1. new \in Ring(link)
      BY <1>2, <1>4
  <2>2. InRange(e, link)
      BY <1>2, <1>5, <1>6, <2>1 DEF InRange
  <2>3. Slot(e, link, e.slotdepth - 1) \in Ring(link)
    <3>1. e.slotdepth - 1 = q.slotdepth
        BY <1>2, <1>6
    <3> QED
        BY <1>6, <2>1, <3>1 DEF Slot
  <2> QED
      BY <2>2, <2>3 DEF ExitAt, InRange
<1> HIDE DEF x
<1>8. CASE lost
  <2>1. r.dropped = TRUE /\ r.queue = q /\ r.exit = 0
      BY <1>1, <1>8 DEF emulate_hop
  <2> HIDE DEF r
  <2>2. InRange(r.queue, link) /\ r.exit \in Nat /\ r.queue.fragment \in {0, q.fragment}
      BY <2>1
  <2> QED
      BY <2>1, <2>2, Zenon DEF r
<1>9. CASE ~lost
  <2>1. r.dropped = FALSE /\ r.queue = e /\ r.exit = x + link.delay
      BY <1>1, <1>9 DEF emulate_hop, e, x
  <2> HIDE DEF r
  <2>2. InRange(r.queue, link) /\ r.exit \in Nat /\ r.queue.fragment \in {0, q.fragment}
      BY <1>2, <1>6, <1>7, <2>1
  <2> QED
      BY <2>1, <2>2, Zenon DEF r
<1> QED
    BY <1>8, <1>9
=============================================================================
