------------------------------- MODULE BwQueue -------------------------------
(***************************************************************************)
(* The virtual bandwidth queue of one hop (struct hop): the ring of exit    *)
(* ticks that update_bwq and emulate_hop keep, as operators on a record.    *)
(* The packet itself never sits in this queue; the ring only remembers when *)
(* each packet will have been transmitted.                                  *)
(*                                                                          *)
(* A link is the configured part of struct hop, [KBps, delay, plr, qsize];  *)
(* a queue is its mutable part.  The ring's slots are 0..qsize-1.           *)
(* Ticks are natural numbers: the wrap-around of the tick counter is not    *)
(* part of this module.                                                     *)
(***************************************************************************)
EXTENDS Integers, FiniteSetsExt

CONSTANTS HZ,      \* scheduler ticks per second
          System   \* which kernel module: "linux" or "freebsd"

ASSUME HZAssumption == HZ \in Nat \ {0}
ASSUME SystemAssumption == System \in {"linux", "freebsd"}

\* bytespertick, computed once when the hop table is loaded.
BytesPerTick(link) == (link.KBps * 1000) \div HZ

\* Below this many bytes per tick the per-tick arithmetic is not used.
SlowLink == 50

Ring(link) == 0..(link.qsize - 1)

\* A queue as the hop-table handler initialises it.
InitQueue(link) ==
    [headslot  |-> 0,
     slotdepth |-> 0,
     bytedepth |-> 0,
     fragment  |-> 0,
     exittick  |-> [s \in Ring(link) |-> 0],
     slotlen   |-> [s \in Ring(link) |-> 0]]

\* The ring slot of the i-th queued packet; i = slotdepth is the free slot
\* the next packet takes.
Slot(q, link, i) == (q.headslot + i) % link.qsize

ExitAt(q, link, i) == q.exittick[Slot(q, link, i)]

\* The bytes of the first i packets of the queue, counted from the head.
BytesAhead(q, link) ==
    LET sum[i \in 0..link.qsize] ==
            IF i = 0 THEN 0 ELSE sum[i - 1] + q.slotlen[Slot(q, link, i - 1)]
    IN  sum

\* Variants of Departed with a fault: the loop tests the slot headslot has just
\* left, and it tests with <=.
Departed_stale(q, link, tick) ==
    Min({n \in 0..q.slotdepth :
            n = q.slotdepth \/ ~(ExitAt(q, link, IF n = 0 THEN 0 ELSE n - 1) < tick)})
Departed_early(q, link, tick) ==
    Min({n \in 0..q.slotdepth : n = q.slotdepth \/ ~(ExitAt(q, link, n) <= tick)})

\* How many entries update_bwq removes from the head at time tick: it stops
\* at the first one that has not exited, or when the queue is empty.
Departed(q, link, tick) ==
    Min({n \in 0..q.slotdepth : n = q.slotdepth \/ ~(ExitAt(q, link, n) < tick)})

\* Variant with a fault: the freed slots are not cleared.
update_bwq_dirty(q, link, tick) ==
    LET n == Departed(q, link, tick)
    IN  [q EXCEPT !.headslot = Slot(q, link, n), !.slotdepth = @ - n]

update_bwq(q, link, tick) ==
    LET n    == Departed(q, link, tick)
        gone == {Slot(q, link, i) : i \in 0..(n - 1)}
    IN  [headslot  |-> Slot(q, link, n),
         slotdepth |-> q.slotdepth - n,
         bytedepth |-> q.bytedepth - BytesAhead(q, link)[n],
         fragment  |-> q.fragment,
         exittick  |-> [s \in Ring(link) |-> IF s \in gone THEN 0 ELSE q.exittick[s]],
         slotlen   |-> [s \in Ring(link) |-> IF s \in gone THEN 0 ELSE q.slotlen[s]]]

(***************************************************************************)
(* The bandwidth charge of one packet: the ticks it adds to the tail's exit *)
(* time and the bytes left over for its successor.  First the fragment left *)
(* by the predecessor pays for part of the packet; then Linux rounds the    *)
(* remainder up or down at random (extra is the outcome), and FreeBSD       *)
(* carries it over in fragment.                                             *)
(***************************************************************************)
charge(link, fragment, pktlen, extra) ==
    LET bpt      == BytesPerTick(link)
        covered  == fragment > pktlen
        len      == IF covered THEN 0 ELSE pktlen - fragment
        fragused == IF ~covered /\ fragment # 0 THEN 1 ELSE 0
        leftover == IF covered THEN fragment - pktlen ELSE 0
    IN  IF len # 0 /\ bpt > SlowLink
        THEN IF System = "linux"
             THEN [bwdelay  |-> (len \div bpt) + fragused
                                + (IF extra /\ len % bpt # 0 THEN 1 ELSE 0),
                   fragment |-> leftover]
             ELSE [bwdelay  |-> (len \div bpt) + fragused,
                   fragment |-> IF len % bpt # 0 THEN bpt - (len % bpt) ELSE leftover]
        ELSE [bwdelay  |-> (len * HZ) \div (1000 * link.KBps),
              fragment |-> leftover]

\* Variant with a fault: every transmission starts now, even behind others.
enqueue_now(q, link, tick, len, extra) ==
    LET newslot == Slot(q, link, q.slotdepth)
        cost    == charge(link, q.fragment, len, extra)
    IN  [q EXCEPT !.slotdepth = @ + 1, !.bytedepth = @ + len,
                  !.fragment = cost.fragment,
                  !.exittick[newslot] = tick + cost.bwdelay,
                  !.slotlen[newslot] = len]

\* What a packet that is not dropped does to the queue at time tick.
enqueue(q, link, tick, len, extra) ==
    LET newslot == Slot(q, link, q.slotdepth)
        empty   == q.slotdepth = 0
        start   == IF empty THEN tick ELSE ExitAt(q, link, q.slotdepth - 1)
        frag    == IF empty THEN 0 ELSE q.fragment
        cost    == IF link.KBps # 0
                   THEN charge(link, frag, len, extra)
                   ELSE [bwdelay |-> 0, fragment |-> frag]
    IN  [headslot  |-> q.headslot,
         slotdepth |-> q.slotdepth + 1,
         bytedepth |-> q.bytedepth + len,
         fragment  |-> cost.fragment,
         exittick  |-> [q.exittick EXCEPT ![newslot] = start + cost.bwdelay],
         slotlen   |-> [q.slotlen EXCEPT ![newslot] = len]]

\* Variants with a fault: the queue is not brought up to date, and the overflow
\* test is off by one, either way.
settled_never(q, link, tick) == q
overflows_late(q, link, tick) ==
    link.KBps # 0 /\ update_bwq(q, link, tick).slotdepth > link.qsize
overflows_early(q, link, tick) ==
    link.KBps # 0 /\ update_bwq(q, link, tick).slotdepth >= link.qsize - 1

\* Which queue emulate_hop's overflow test sees, and whether it drops.
settled(q, link, tick) == IF link.KBps # 0 THEN update_bwq(q, link, tick) ELSE q
overflows(q, link, tick) ==
    link.KBps # 0 /\ settled(q, link, tick).slotdepth >= link.qsize

(***************************************************************************)
(* emulate_hop up to the insertion into the calendar.  lost is the outcome  *)
(* of the loss draw: it can only be TRUE on a link with plr # 0.  FreeBSD   *)
(* returns on a loss before it looks at the queue; Linux first brings the   *)
(* queue up to date.  exit is the tick the packet leaves the link.          *)
(***************************************************************************)
emulate_hop(q, link, tick, len, lost, extra) ==
    IF lost \/ overflows(q, link, tick)
    THEN [dropped |-> TRUE,
          queue   |-> IF lost /\ System = "freebsd" THEN q ELSE settled(q, link, tick),
          exit    |-> 0]
    ELSE LET after == enqueue(settled(q, link, tick), link, tick, len, extra)
         IN  [dropped |-> FALSE,
              queue   |-> after,
              exit    |-> ExitAt(after, link, after.slotdepth - 1) + link.delay]
-----------------------------------------------------------------------------
(* What the operations preserve on a link with a bandwidth limit.            *)

\* The packets the queue holds, by ring slot.
Occupied(q, link) == {Slot(q, link, i) : i \in 0..(q.slotdepth - 1)}

\* The indices stay inside the two arrays.
WellFormed(q, link) ==
    /\ q.headslot \in Ring(link)
    /\ q.slotdepth \in 0..link.qsize
    /\ q.exittick \in [Ring(link) -> Nat]
    /\ q.slotlen \in [Ring(link) -> Nat]

\* From the head, no packet exits before the one ahead of it, and each takes
\* at most c ticks longer.
InOrder(q, link, c) ==
    \A i, j \in 0..(q.slotdepth - 1) :
        i <= j => LET gap == ExitAt(q, link, j) - ExitAt(q, link, i)
                  IN  0 <= gap /\ gap <= (j - i) * c

\* The packet at the head is in transmission, or done.
HeadDue(q, link, tick, c) ==
    q.slotdepth > 0 => ExitAt(q, link, 0) <= tick + c

\* Free slots hold no stale length or exit time.
FreeSlotsClear(q, link) ==
    \A s \in Ring(link) \ Occupied(q, link) : q.exittick[s] = 0 /\ q.slotlen[s] = 0

\* The bytes of the packets the queue holds.
QueuedBytes(q, link) == BytesAhead(q, link)[q.slotdepth]
=============================================================================
