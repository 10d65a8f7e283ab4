---------------------------- MODULE LinuxEmulator ----------------------------
(***************************************************************************)
(* The packet path of the Linux kernel module (ip_modelnet.c): packets      *)
(* enter through the netfilter hook (filter_ipinput), are put on the        *)
(* calendar hop by hop, and leave through forward_packet.                   *)
(*                                                                          *)
(* Two kinds of actor share the calendar and the hops: the netfilter        *)
(* contexts (one per CPU, in softirq) and the hopclock work item.  hopclock *)
(* holds calendar_lock for its whole run.  A netfilter context takes the    *)
(* lock twice, once to read calendar_tick and once to insert the packet,    *)
(* and advances the packet's path pointer after the second unlock.          *)
(*                                                                          *)
(* On a uniprocessor kernel spin_lock_bh keeps softirqs out while hopclock  *)
(* runs, and a softirq is not preempted by the worker thread, so the        *)
(* contexts exclude each other.  On a multiprocessor they interleave.       *)
(***************************************************************************)
EXTENDS BwQueue, Sequences, SequencesExt

CONSTANTS Pkts,          \* packets
          Hops,          \* hop ids
          CPUs,          \* netfilter contexts
          Uniprocessor,  \* which kernel
          Link,          \* hop -> configured link
          Remote,        \* the hops another emulator owns
          Path,          \* packet -> what lookup_path finds for it
          NoPath,        \* lookup_path's NULL
          PktLen,        \* packet -> bytes
          SCHEDLEN,      \* slots of the calendar
          MaxCharge,     \* the longest transmission on any hop, in ticks
          FirstTick,     \* jiffies when the module is loaded
          LastArrival,   \* bound: no packet arrives after this tick
          MaxJiffies     \* bound on time

ASSUME EmulatorAssumption ==
    /\ System = "linux"
    /\ Uniprocessor \in BOOLEAN
    /\ Link \in [Hops -> [KBps : Nat, delay : Nat, plr : Nat, qsize : Nat \ {0}]]
    /\ Remote \subseteq Hops
    /\ NoPath \notin Seq(Hops) /\ \A p \in Pkts : Path[p] \in Seq(Hops) \cup {NoPath}
    /\ PktLen \in [Pkts -> Nat \ {0}]
    /\ SCHEDLEN \in Nat \ {0}
    /\ {FirstTick, LastArrival, MaxJiffies, MaxCharge} \subseteq Nat
    /\ \A h \in Hops, p \in Pkts, extra \in BOOLEAN :
          Link[h].KBps # 0 =>
              charge(Link[h], 0, PktLen[p], extra).bwdelay \in 0..MaxCharge

VARIABLES
    jiffies,          \* the kernel's tick counter
    calendar_tick,    \* the tick hopclock has reached
    packet_calendar,  \* slot -> the packets waiting in it, in order
    calendar_lock,    \* "free" or "hopclock": the other holders are one step
    hop,              \* hop -> its virtual bandwidth queue
    nf,               \* netfilter context -> where it is in emulate_path
    where,            \* packet -> its fate so far
    pathpos,          \* packet -> how far its path pointer has moved
    due,              \* packet -> the tick it was last scheduled for
    crossed,          \* packet -> the hops that accepted it, in order (history)
    inflight          \* hop -> the packets it accepted that hopclock has not
                      \* released since, in order (history)

vars == <<jiffies, calendar_tick, packet_calendar, calendar_lock, hop, nf,
          where, pathpos, due, crossed, inflight>>

\* "new": not arrived.  "emulated": struct packet allocated and in use.
\* "passed": NF_ACCEPT, the stack keeps it.  "forwarded", "dropped": freed.
\* "wild": taken from the calendar with its path pointer past the array.
Fates == {"new", "emulated", "passed", "forwarded", "dropped", "wild"}
Idle == [pc |-> "idle"]
Slots == 0..(SCHEDLEN - 1)

Init == /\ jiffies = FirstTick
        /\ calendar_tick = FirstTick
        /\ packet_calendar = [s \in Slots |-> << >>]
        /\ calendar_lock = "free"
        /\ hop = [h \in Hops |-> InitQueue(Link[h])]
        /\ nf = [c \in CPUs |-> Idle]
        /\ where = [p \in Pkts |-> "new"]
        /\ pathpos = [p \in Pkts |-> 0]
        /\ due = [p \in Pkts |-> 0]
        /\ crossed = [p \in Pkts |-> << >>]
        /\ inflight = [h \in Hops |-> << >>]
-----------------------------------------------------------------------------
\* The hop *pkt->path points to; the array ends with a NULL.
AtEnd(p) == pathpos[p] = Len(Path[p])
CurHop(p) == Path[p][pathpos[p] + 1]

\* Variants with a fault: list_add, at the head of the slot, and an insertion that
\* unlinks what is there.
Calendared_head(cal, p, t) == [cal EXCEPT ![t % SCHEDLEN] = <<p>> \o @]
Calendared_alone(cal, p, t) == [cal EXCEPT ![t % SCHEDLEN] = <<p>>]

\* list_add_tail on the slot of tick t.
Calendared(cal, p, t) == [cal EXCEPT ![t % SCHEDLEN] = Append(@, p)]

\* A netfilter context may run: on a uniprocessor nobody else is in between.
MayRun(c) ==
    Uniprocessor => /\ calendar_lock = "free"
                    /\ \A d \in CPUs \ {c} : nf[d] = Idle

\* The random outcomes of one pass through emulate_hop on hop h.
LossDraws(h) == IF Link[h].plr # 0 THEN BOOLEAN ELSE {FALSE}
-----------------------------------------------------------------------------
(* The netfilter hook.                                                       *)

\* filter_ipinput gives the packet back to the stack: kmalloc failed, or
\* lookup_path found nothing.
Arriving(c, p) == /\ nf[c] = Idle /\ MayRun(c)
                  /\ where[p] = "new" /\ jiffies <= LastArrival

filter_ipinput_accept(c, p) ==
    /\ Arriving(c, p)
    /\ where' = [where EXCEPT ![p] = "passed"]
    /\ UNCHANGED <<jiffies, calendar_tick, packet_calendar, calendar_lock, hop, nf,
                   pathpos, due, crossed, inflight>>

\* It steals the packet and emulate_path starts emulate_nexthop, which forwards
\* at once on an empty path, drops on a remote first hop (remote_hop is not
\* implemented) and otherwise calls emulate_hop.
filter_ipinput_steal(c, p) ==
    /\ Arriving(c, p) /\ Path[p] # NoPath
    /\ \/ /\ AtEnd(p)
          /\ where' = [where EXCEPT ![p] = "forwarded"]
          /\ UNCHANGED <<nf, pathpos>>
       \/ /\ ~AtEnd(p) /\ CurHop(p) \in Remote
          /\ where' = [where EXCEPT ![p] = "dropped"]
          /\ pathpos' = [pathpos EXCEPT ![p] = @ + 1]
          /\ UNCHANGED nf
       \/ /\ ~AtEnd(p) /\ CurHop(p) \notin Remote
          /\ where' = [where EXCEPT ![p] = "emulated"]
          /\ nf' = [nf EXCEPT ![c] = [pc |-> "tick", pkt |-> p]]
          /\ UNCHANGED pathpos
    /\ UNCHANGED <<jiffies, calendar_tick, packet_calendar, calendar_lock, hop,
                   due, crossed, inflight>>

\* emulate_hop reads calendar_tick under the lock, and lets go of the lock.
nf_read_tick(c) ==
    /\ nf[c].pc = "tick" /\ MayRun(c) /\ calendar_lock = "free"
    /\ nf' = [nf EXCEPT ![c] = [pc |-> "hop", pkt |-> nf[c].pkt,
                                curtick |-> calendar_tick]]
    /\ UNCHANGED <<jiffies, calendar_tick, packet_calendar, calendar_lock, hop,
                   where, pathpos, due, crossed, inflight>>

\* The section under hop->lock, with the tick read before.  A dropped packet is
\* still this context's own, so its pointer moves and it is freed at once.
nf_hop(c) ==
    /\ nf[c].pc = "hop" /\ MayRun(c)
    /\ LET p == nf[c].pkt
           h == CurHop(p)
       IN  \E lost \in LossDraws(h), extra \in BOOLEAN :
             \E r \in {emulate_hop(hop[h], Link[h], nf[c].curtick, PktLen[p], lost, extra)} :
                 /\ hop' = [hop EXCEPT ![h] = r.queue]
                 /\ IF r.dropped
                    THEN /\ nf' = [nf EXCEPT ![c] = Idle]
                         /\ where' = [where EXCEPT ![p] = "dropped"]
                         /\ pathpos' = [pathpos EXCEPT ![p] = @ + 1]
                         /\ UNCHANGED <<due, crossed, inflight>>
                    ELSE /\ nf' = [nf EXCEPT ![c] = [pc |-> "insert", pkt |-> p]]
                         /\ due' = [due EXCEPT ![p] = r.exit]
                         /\ crossed' = [crossed EXCEPT ![p] = Append(@, h)]
                         /\ inflight' = [inflight EXCEPT ![h] = Append(@, p)]
                         /\ UNCHANGED <<where, pathpos>>
    /\ UNCHANGED <<jiffies, calendar_tick, packet_calendar, calendar_lock>>

\* Variant with a fault: the insertion is repeated.
nf_insert_again(c) ==
    /\ nf[c].pc = "insert" /\ MayRun(c) /\ calendar_lock = "free"
    /\ packet_calendar' = Calendared(packet_calendar, nf[c].pkt, due[nf[c].pkt])
    /\ UNCHANGED <<jiffies, calendar_tick, calendar_lock, hop, nf, where, pathpos, due,
                   crossed, inflight>>

\* emulate_hop takes the lock again and puts the packet on the calendar.
nf_insert(c) ==
    /\ nf[c].pc = "insert" /\ MayRun(c) /\ calendar_lock = "free"
    /\ LET p == nf[c].pkt
       IN  /\ packet_calendar' = Calendared(packet_calendar, p, due[p])
           /\ nf' = [nf EXCEPT ![c] = [pc |-> "load", pkt |-> p]]
    /\ UNCHANGED <<jiffies, calendar_tick, calendar_lock, hop, where, pathpos, due,
                   crossed, inflight>>

\* Back in emulate_nexthop: ++pkt->path, a load and a store under no lock.
nf_load_path(c) ==
    /\ nf[c].pc = "load" /\ MayRun(c)
    /\ nf' = [nf EXCEPT ![c] = [pc |-> "store", pkt |-> nf[c].pkt,
                                path |-> pathpos[nf[c].pkt]]]
    /\ UNCHANGED <<jiffies, calendar_tick, packet_calendar, calendar_lock, hop,
                   where, pathpos, due, crossed, inflight>>

\* Variant with a fault: the pointer stays where it is.
nf_store_path_not(c) ==
    /\ nf[c].pc = "store" /\ MayRun(c)
    /\ nf' = [nf EXCEPT ![c] = Idle]
    /\ UNCHANGED <<jiffies, calendar_tick, packet_calendar, calendar_lock, hop,
                   where, pathpos, due, crossed, inflight>>

nf_store_path(c) ==
    /\ nf[c].pc = "store" /\ MayRun(c)
    /\ pathpos' = [pathpos EXCEPT ![nf[c].pkt] = nf[c].path + 1]
    /\ nf' = [nf EXCEPT ![c] = Idle]
    /\ UNCHANGED <<jiffies, calendar_tick, packet_calendar, calendar_lock, hop,
                   where, due, crossed, inflight>>
-----------------------------------------------------------------------------
(* The clock.                                                                *)

\* The timer interrupt.
jiffy == /\ jiffies < MaxJiffies
         /\ jiffies' = jiffies + 1
         /\ UNCHANGED <<calendar_tick, packet_calendar, calendar_lock, hop, nf,
                        where, pathpos, due, crossed, inflight>>

\* Variant with a fault: hopclock called from the timer interrupt, which does not
\* wait for a softirq to end.
hopclock_start_irq ==
    /\ calendar_lock = "free" /\ calendar_tick < jiffies
    /\ calendar_lock' = "hopclock"
    /\ UNCHANGED <<jiffies, calendar_tick, packet_calendar, hop, nf,
                   where, pathpos, due, crossed, inflight>>

\* The delayed work fires, a tick or more after the last run ended.
hopclock_start ==
    /\ calendar_lock = "free" /\ calendar_tick < jiffies
    /\ Uniprocessor => \A c \in CPUs : nf[c] = Idle
    /\ calendar_lock' = "hopclock"
    /\ UNCHANGED <<jiffies, calendar_tick, packet_calendar, hop, nf,
                   where, pathpos, due, crossed, inflight>>

\* The history of the packets in flight once hopclock has released p.
Without(s, p) == IF p \in Range(s) THEN RemoveAt(s, CHOOSE i \in DOMAIN s : s[i] = p) ELSE s
WithoutPacket(p) == [h \in Hops |-> Without(inflight[h], p)]

\* The first packet of the slot hopclock has reached, and the calendar without it.
NowSlot == calendar_tick % SCHEDLEN
First == Head(packet_calendar[NowSlot])
Rest == [packet_calendar EXCEPT ![NowSlot] = Tail(@)]

\* emulate_nexthop frees it, or puts it on the calendar again.
Gone(fate) == /\ where' = [where EXCEPT ![First] = fate]
              /\ packet_calendar' = Rest
              /\ inflight' = WithoutPacket(First)
              /\ UNCHANGED <<due, crossed>>

Rescheduled(h, t) == /\ due' = [due EXCEPT ![First] = t]
                     /\ packet_calendar' = Calendared(Rest, First, t)
                     /\ crossed' = [crossed EXCEPT ![First] = Append(@, h)]
                     /\ inflight' = [WithoutPacket(First) EXCEPT ![h] = Append(@, First)]
                     /\ UNCHANGED where

\* Take the first packet of the slot and give it to emulate_nexthop, which
\* inserts it again without giving up the lock.
hopclock_packet ==
    /\ calendar_lock = "hopclock" /\ calendar_tick < jiffies
    /\ packet_calendar[NowSlot] # << >>
    /\ \/ AtEnd(First) /\ Gone("forwarded") /\ UNCHANGED <<hop, pathpos>>
       \/ pathpos[First] > Len(Path[First]) /\ Gone("wild") /\ UNCHANGED <<hop, pathpos>>
       \/ /\ pathpos[First] < Len(Path[First]) /\ CurHop(First) \in Remote
          /\ Gone("dropped")
          /\ pathpos' = [pathpos EXCEPT ![First] = @ + 1]
          /\ UNCHANGED hop
       \/ /\ pathpos[First] < Len(Path[First]) /\ CurHop(First) \notin Remote
          /\ pathpos' = [pathpos EXCEPT ![First] = @ + 1]
          /\ LET h == CurHop(First)
             IN  \E lost \in LossDraws(h), extra \in BOOLEAN :
                   \E r \in {emulate_hop(hop[h], Link[h], calendar_tick, PktLen[First],
                                         lost, extra)} :
                       /\ hop' = [hop EXCEPT ![h] = r.queue]
                       /\ IF r.dropped THEN Gone("dropped") ELSE Rescheduled(h, r.exit)
    /\ UNCHANGED <<jiffies, calendar_tick, calendar_lock, nf>>

\* Variants with a fault: the loop does not look at jiffies, and it leaves a slot
\* that is not empty yet.
hopclock_advance_on ==
    /\ calendar_lock = "hopclock" /\ calendar_tick <= jiffies
    /\ packet_calendar[NowSlot] = << >>
    /\ calendar_tick' = calendar_tick + 1
    /\ UNCHANGED <<jiffies, packet_calendar, calendar_lock, hop, nf,
                   where, pathpos, due, crossed, inflight>>
hopclock_advance_past ==
    /\ calendar_lock = "hopclock" /\ calendar_tick < jiffies
    /\ calendar_tick' = calendar_tick + 1
    /\ UNCHANGED <<jiffies, packet_calendar, calendar_lock, hop, nf,
                   where, pathpos, due, crossed, inflight>>

\* The slot is empty: ++calendar_tick.
hopclock_advance ==
    /\ calendar_lock = "hopclock" /\ calendar_tick < jiffies
    /\ packet_calendar[NowSlot] = << >>
    /\ calendar_tick' = calendar_tick + 1
    /\ UNCHANGED <<jiffies, packet_calendar, calendar_lock, hop, nf,
                   where, pathpos, due, crossed, inflight>>

\* Caught up: unlock, and queue the work for the next tick.
hopclock_end ==
    /\ calendar_lock = "hopclock" /\ ~(calendar_tick < jiffies)
    /\ calendar_lock' = "free"
    /\ UNCHANGED <<jiffies, calendar_tick, packet_calendar, hop, nf,
                   where, pathpos, due, crossed, inflight>>

NetfilterStep(c) == \/ nf_read_tick(c) \/ nf_hop(c) \/ nf_insert(c)
                    \/ nf_load_path(c) \/ nf_store_path(c)
HopclockStep == hopclock_packet \/ hopclock_advance \/ hopclock_end

Next == \/ \E c \in CPUs, p \in Pkts :
              filter_ipinput_accept(c, p) \/ filter_ipinput_steal(c, p)
        \/ \E c \in CPUs : NetfilterStep(c)
        \/ jiffy \/ hopclock_start \/ HopclockStep

Spec == Init /\ [][Next]_vars

\* The timer keeps interrupting, and a processor that has a softirq or the work
\* item to run does not stay idle.  Packets need not arrive.
Fairness == /\ WF_vars(jiffy)
            /\ WF_vars(hopclock_start \/ HopclockStep \/ \E c \in CPUs : NetfilterStep(c))

FairSpec == Spec /\ Fairness
-----------------------------------------------------------------------------
OnCalendar(p) == {s \in Slots : p \in Range(packet_calendar[s])}
Holds(c, p) == nf[c] # Idle /\ nf[c].pkt = p

\* Types, and hopclock never overtakes the clock it follows: its loop ends when
\* calendar_tick has reached jiffies.
TypeOK ==
    /\ FirstTick <= calendar_tick /\ calendar_tick <= jiffies /\ jiffies \in Nat
    /\ packet_calendar \in [Slots -> Seq(Pkts)]
    /\ calendar_lock \in {"free", "hopclock"}
    /\ where \in [Pkts -> Fates]
    /\ pathpos \in [Pkts -> Nat] /\ due \in [Pkts -> Nat]
    /\ \A c \in CPUs : nf[c].pc \in {"idle", "tick", "hop", "insert", "load", "store"}

\* The ring of every hop stays lawful although netfilter contexts enter it with
\* a tick they read before they had the hop's lock: indices in range, at most
\* qsize packets, exits in order, free slots clear ...
RingLawful(h) ==
    /\ WellFormed(hop[h], Link[h])
    /\ InOrder(hop[h], Link[h], MaxCharge)
    /\ HeadDue(hop[h], Link[h], calendar_tick, MaxCharge)
    /\ FreeSlotsClear(hop[h], Link[h])

\* ... and bytedepth exact.
HopsLawful ==
    \A h \in Hops : RingLawful(h) /\ hop[h].bytedepth = QueuedBytes(hop[h], Link[h])

\* A configuration the calendar is long enough for: every hop emulated here has a
\* bandwidth limit, and one revolution covers its full queue plus its delay.
NoOverrun ==
    \A h \in Hops \ Remote :
        Link[h].KBps # 0 /\ Link[h].qsize * MaxCharge + Link[h].delay < SCHEDLEN

\* A calendar of SCHEDLEN slots stands for all of time: a packet in it is in
\* the slot of the tick it is due, and that tick is neither over nor a whole
\* revolution away.  So hopclock releases every packet in exactly the tick
\* emulate_hop computed for it.
OnCalendarWhenDue ==
    \A s \in Slots : \A p \in Range(packet_calendar[s]) :
        /\ due[p] % SCHEDLEN = s
        /\ calendar_tick <= due[p]
        /\ due[p] < calendar_tick + SCHEDLEN

\* The places of packet p on the calendar, and the netfilter contexts that have it
\* and have not inserted it yet.
Places(p) == UNION {{s} \X {i \in DOMAIN packet_calendar[s] : packet_calendar[s][i] = p} : s \in Slots}
Owners(p) == {c \in CPUs : Holds(c, p) /\ nf[c].pc \in {"tick", "hop", "insert"}}

\* struct packet has one owner: the calendar, in one place, or the netfilter
\* context that has not inserted it yet; a packet that is gone has none.
OneOwner ==
    \A p \in Pkts :
        LET owners == Places(p) \cup Owners(p)
        IN  IF where[p] = "emulated" THEN \E o \in owners : owners = {o} ELSE owners = {}

\* The comment in emulate_nexthop where it goes on using the packet after
\* emulate_hop: "if it was a local hop, then it's on the delay queue or
\* dropped".  A context that has not yet moved the path pointer of a packet
\* finds the packet still on the calendar, not forwarded and freed.
StillQueued ==
    \A c \in CPUs : nf[c].pc \in {"load", "store"} => OnCalendar(nf[c].pkt) # {}

\* A packet crosses the hops of its path, each once and in order, and one that
\* is forwarded has crossed them all.
CrossesPath ==
    \A p \in Pkts :
        /\ crossed[p] # << >> => IsPrefix(crossed[p], Path[p])
        /\ where[p] = "forwarded" => crossed[p] = Path[p]

\* A link does not reorder: hopclock releases the packets a hop accepted in the
\* order it accepted them.
LinkFifo ==
    [][\A h \in Hops :
         LET rest == IF inflight[h] = << >> THEN << >> ELSE Tail(inflight[h])
         IN  \/ inflight'[h] \in {inflight[h], rest}
             \/ \E p \in Pkts : inflight'[h] \in {Append(inflight[h], p), Append(rest, p)}]_vars

\* Every packet the emulator takes is eventually forwarded or dropped: once it
\* holds packets, and as arrivals end, there comes a time when it holds none.
EventuallyGone ==
    (\E p \in Pkts : where[p] = "emulated")
        ~> (\A p \in Pkts : where[p] \notin {"emulated", "wild"})
=============================================================================
