------------------------------ MODULE HopQueue ------------------------------
(***************************************************************************)
(* One emulated link over time: the calendar tick advances, and packets     *)
(* enter the hop through emulate_hop.  The modules that compose hops into   *)
(* paths use the same operators of BwQueue.                                 *)
(***************************************************************************)
EXTENDS BwQueue, Sequences

CONSTANTS TheLink,    \* the link's configuration
          Lens,       \* the packet lengths that arrive, in bytes
          FirstTick,  \* calendar_tick when the module is loaded
          MaxTick,    \* bound on time, for model checking
          MaxCharge,  \* the longest transmission of one packet, in ticks
          MaxDepth    \* bound on slotdepth, which only a link without a
                      \* bandwidth limit can reach

ASSUME LinkAssumption ==
    TheLink \in [KBps : Nat, delay : Nat, plr : Nat, qsize : Nat \ {0}]
ASSUME LensAssumption == Lens \subseteq Nat \ {0}
ASSUME TickAssumption == FirstTick \in Nat /\ MaxTick \in Nat
ASSUME MaxDepthAssumption == MaxDepth \in Nat /\ MaxDepth > TheLink.qsize

\* The values fragment can take: Linux clears it and never sets it.
Fragments == IF System = "linux" THEN {0} ELSE 0..BytesPerTick(TheLink)

ASSUME MaxChargeAssumption ==
    /\ MaxCharge \in Nat
    /\ \A len \in Lens, f \in Fragments, extra \in BOOLEAN :
          TheLink.KBps # 0 =>
              charge(TheLink, f, len, extra).bwdelay \in 0..MaxCharge

\* What the invariants below are about: a link with a bandwidth limit.
BandwidthLimited == TheLink.KBps # 0

VARIABLES tick,     \* calendar_tick
          queue,    \* the hop's virtual bandwidth queue
          verdict,  \* what emulate_hop did with the packet that came last,
                    \* "none" once time has passed since
          exit      \* the tick that packet leaves the hop, if accepted

vars == <<tick, queue, verdict, exit>>

Init == /\ tick = FirstTick
        /\ queue = InitQueue(TheLink)
        /\ verdict = "none"
        /\ exit = 0

\* hopclock has finished a tick.
Tick == /\ tick < MaxTick
        /\ tick' = tick + 1
        /\ verdict' = "none"
        /\ exit' = 0
        /\ UNCHANGED queue

\* A packet enters the hop.  lost and extra are the outcomes of the two
\* random draws; a loss needs a link with a loss rate.
Arrive(len, lost, extra) ==
    LET r == emulate_hop(queue, TheLink, tick, len, lost, extra)
    IN  /\ queue.slotdepth < MaxDepth
        /\ lost => TheLink.plr # 0
        /\ queue' = r.queue
        /\ verdict' = IF lost THEN "lost"
                      ELSE IF r.dropped THEN "overflow" ELSE "accepted"
        /\ exit' = r.exit
        /\ UNCHANGED tick

Next == \/ Tick
        \/ \E len \in Lens, lost, extra \in BOOLEAN : Arrive(len, lost, extra)

Spec == Init /\ [][Next]_vars
-----------------------------------------------------------------------------
\* Type: the indices of the ring stay inside the two arrays, whatever the
\* order of arrivals, ticks and losses.
TypeOK ==
    /\ tick \in Nat
    /\ WellFormed(queue, TheLink)
    /\ queue.fragment \in Fragments
    /\ verdict \in {"none", "accepted", "overflow", "lost"}
    /\ exit \in Nat

\* A link transmits in order: along the ring from headslot, no packet exits
\* before the one ahead of it, and each takes at most MaxCharge ticks longer.
\* update_bwq stops at the first entry that has not exited, so it relies on
\* this order.
ExitsInOrder == InOrder(queue, TheLink, MaxCharge)

\* update_bwq is called on arrivals only, so the head may be long gone when the
\* next packet comes; but it is never more than one transmission ahead of the
\* clock.
HeadIsDue == HeadDue(queue, TheLink, tick, MaxCharge)

\* Slots that update_bwq has freed hold no stale length or exit time, and
\* bytedepth, which only it decrements, is exactly the bytes of the others.
RingIsClean ==
    /\ FreeSlotsClear(queue, TheLink)
    /\ queue.bytedepth = QueuedBytes(queue, TheLink)

\* An accepted packet leaves neither before now plus the propagation delay nor
\* later than a full queue and its own transmission explain.  This is what
\* lets the calendar index its slots by the low bits of the tick.
ExitWithinHorizon ==
    verdict = "accepted" =>
        /\ tick + TheLink.delay <= exit
        /\ exit <= tick + TheLink.qsize * MaxCharge + TheLink.delay

\* The comment "bw delay of 0 means no bw limit": a packet that such a link
\* accepts is only delayed by the propagation delay.
NoLimitMeansNoQueueing ==
    TheLink.KBps = 0 /\ verdict = "accepted" => exit = tick + TheLink.delay

\* The comment on fragment, "how many bytes went unused in the final tick.
\* These bytes can be used by the next packet": the remainder is carried over
\* and nothing else, so between two exits the link moves less than the ticks
\* from the first to the second inclusive can carry.
NoFasterThanLine ==
    \A i, j \in 0..(queue.slotdepth - 1) :
        i < j => LET bytes == BytesAhead(queue, TheLink)
                     ticks == ExitAt(queue, TheLink, j) - ExitAt(queue, TheLink, i) + 1
                 IN  bytes[j + 1] - bytes[i + 1] < ticks * BytesPerTick(TheLink)
-----------------------------------------------------------------------------
\* The packets of a queue that are still in transmission at tick t.
BacklogOf(q, t) ==
    LET n == Departed(q, TheLink, t)
    IN  [i \in 1..(q.slotdepth - n) |-> ExitAt(q, TheLink, n + i - 1)]

Backlog == BacklogOf(queue, tick)

Abstract == INSTANCE FifoLink
    WITH Capacity <- TheLink.qsize, now <- tick, backlog <- Backlog

\* The lazily cleaned ring behaves like the FIFO of FifoLink: it drops for lack of
\* room exactly when qsize packets are still in transmission, and never
\* reorders.
ImplementsFifoLink == Abstract!Spec
=============================================================================
