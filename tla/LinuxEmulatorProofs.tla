------------------------- MODULE LinuxEmulatorProofs -------------------------
(***************************************************************************)
(* The packet path of the Linux kernel module, for any number of packets,   *)
(* hops and netfilter contexts.  On every kernel the rings of the hops stay *)
(* lawful and a packet has one owner.  On a uniprocessor kernel a packet is *)
(* still queued when emulate_nexthop moves its path pointer, crosses the    *)
(* hops of its path in order, is released in the tick it is due, and does   *)
(* not overtake another packet of the same hop.                             *)
(***************************************************************************)
EXTENDS LinuxEmulator, BwQueueProofs, SequenceTheorems

\* A netfilter context between two of its steps.
Contexts == {Idle}
            \cup [pc : {"tick", "insert", "load"}, pkt : Pkts]
            \cup [pc : {"hop"}, pkt : Pkts, curtick : Nat]
            \cup [pc : {"store"}, pkt : Pkts, path : Nat]

Calendars == [Slots -> Seq(Pkts)]

TypeInv ==
    /\ jiffies \in Nat /\ calendar_tick \in Nat
    /\ FirstTick <= calendar_tick /\ calendar_tick <= jiffies
    /\ packet_calendar \in Calendars
    /\ calendar_lock \in {"free", "hopclock"}
    /\ nf \in [CPUs -> Contexts]
    /\ where \in [Pkts -> Fates]
    /\ pathpos \in [Pkts -> Nat] /\ due \in [Pkts -> Nat]
    /\ crossed \in [Pkts -> Seq(Hops)]
    /\ \A c \in CPUs : nf[c].pc = "hop" => nf[c].curtick <= calendar_tick

\* On Linux no fragment is carried over.  A hop without a bandwidth limit keeps its
\* indices in range only.
RingInv ==
    /\ DOMAIN hop = Hops /\ hop = [h \in Hops |-> hop[h]]
    /\ \A h \in Hops :
         /\ hop[h].fragment = 0 /\ InRange(hop[h], Link[h])
         /\ Link[h].KBps # 0 => RingLawful(h) /\ BytesExact(hop[h], Link[h])

InSlot(cal, s, p) == \E i \in 1..Len(cal[s]) : cal[s][i] = p
On(cal, p) == \E s \in Slots : InSlot(cal, s, p)

\* No packet is twice on the calendar.
OnceOnly(cal) ==
    \A s, t \in Slots : \A i \in 1..Len(cal[s]), j \in 1..Len(cal[t]) :
        cal[s][i] = cal[t][j] => s = t /\ i = j

\* A context with its packet not yet on the calendar.
Outside == {"tick", "hop", "insert"}

\* Who has a packet.  What is on the calendar is being emulated; a context is the
\* only one ever to hold its packet; until it has inserted it, the packet is at the
\* start of its path and not on the calendar; and nothing being emulated is forgotten.
CalendarLive == \A p \in Pkts : On(packet_calendar, p) => where[p] = "emulated" /\ Path[p] \in Seq(Hops)
HeldIsKnown == \A c \in CPUs : nf[c].pc # "idle" => where[nf[c].pkt] # "new"
SoleHolder == \A c, d \in CPUs :
    nf[c].pc # "idle" /\ nf[d].pc # "idle" /\ nf[c].pkt = nf[d].pkt => c = d
OutsideFresh == \A c \in CPUs : nf[c].pc \in Outside =>
    LET p == nf[c].pkt
    IN  /\ where[p] = "emulated" /\ ~On(packet_calendar, p)
        /\ Path[p] \in Seq(Hops) /\ pathpos[p] = 0 /\ Len(Path[p]) > 0
        /\ Path[p][1] \notin Remote
NoneForgotten == \A p \in Pkts : where[p] = "emulated" =>
    On(packet_calendar, p) \/ \E c \in CPUs : nf[c].pc \in Outside /\ nf[c].pkt = p
NewAtStart == \A p \in Pkts : where[p] = "new" => pathpos[p] = 0

OwnerInv == /\ OnceOnly(packet_calendar) /\ CalendarLive /\ HeldIsKnown /\ SoleHolder
            /\ OutsideFresh /\ NoneForgotten /\ NewAtStart

\* The inductive invariant of every kernel.
EmuInv == TypeInv /\ RingInv /\ OwnerInv

\* The contexts of a uniprocessor exclude each other.
ExclusionInv ==
    /\ \A c, d \in CPUs : nf[c].pc # "idle" /\ nf[d].pc # "idle" => c = d
    /\ calendar_lock = "hopclock" => \A c \in CPUs : nf[c].pc = "idle"

\* p has crossed the first n hops of its path.
HasCrossed(p, n) ==
    /\ Len(crossed[p]) = n
    /\ n # 0 => n <= Len(Path[p]) /\ \A i \in 1..n : crossed[p][i] = Path[p][i]

\* Where a packet is on its path, on a uniprocessor: between the insertion and the
\* store of the path pointer its context has crossed the first hop and still has the
\* pointer at the start; afterwards pointer and hops crossed agree.
ContextPath ==
    \A c \in CPUs :
        LET p == nf[c].pkt
        IN  /\ nf[c].pc \in {"tick", "hop"} => HasCrossed(p, 0)
            /\ nf[c].pc \in {"insert", "load", "store"} =>
                 HasCrossed(p, 1) /\ pathpos[p] = 0 /\ Path[p] \in Seq(Hops)
            /\ nf[c].pc = "store" => nf[c].path = 0
            /\ nf[c].pc \in {"load", "store"} => On(packet_calendar, p)
Held(p) == \E c \in CPUs : nf[c].pc # "idle" /\ nf[c].pkt = p
PacketPath(p) ==
    /\ where[p] \in {"new", "passed"} => HasCrossed(p, 0)
    /\ where[p] = "dropped" => \E n \in Nat : HasCrossed(p, n) /\ Path[p] \in Seq(Hops)
    /\ where[p] = "forwarded" => HasCrossed(p, Len(Path[p])) /\ Path[p] \in Seq(Hops)
    /\ where[p] # "wild"
    /\ On(packet_calendar, p) /\ ~Held(p) =>
         HasCrossed(p, pathpos[p]) /\ pathpos[p] <= Len(Path[p])
PathInv == ContextPath /\ \A p \in Pkts : PacketPath(p)

\* The inductive invariant of a uniprocessor kernel.
UpInv == ExclusionInv /\ PathInv

\* t is a tick the calendar has a slot for.
InReach(t) == calendar_tick <= t /\ t < calendar_tick + SCHEDLEN

\* What a uniprocessor adds when the calendar is longer than the longest stay on a hop.
SlotsDue == \A s \in Slots, p \in Pkts :
    InSlot(packet_calendar, s, p) => due[p] % SCHEDLEN = s /\ InReach(due[p])
ContextsDue == \A c \in CPUs :
    /\ nf[c].pc = "hop" => nf[c].curtick = calendar_tick
    /\ nf[c].pc = "insert" => InReach(due[nf[c].pkt])
DueInv == SlotsDue /\ ContextsDue
-----------------------------------------------------------------------------
(* The calendar.                                                             *)

\* The slot of a tick is one of the calendar's.
LEMMA SlotOfTick == \A t \in Nat : t % SCHEDLEN \in Slots
BY EmulatorAssumption DEF EmulatorAssumption, Slots

\* A packet appended to the slot of its tick is on the calendar, once.
LEMMA CalendarInsert ==
    ASSUME NEW cal \in Calendars, OnceOnly(cal), NEW p \in Pkts, ~On(cal, p), NEW t \in Nat
    PROVE  LET new == Calendared(cal, p, t)
           IN  /\ new \in Calendars /\ OnceOnly(new)
               /\ \A s \in Slots, q \in Pkts :
                    InSlot(new, s, q) <=> InSlot(cal, s, q) \/ (q = p /\ s = t % SCHEDLEN)
               /\ \A q \in Pkts : On(new, q) <=> On(cal, q) \/ q = p
<1> DEFINE k == t % SCHEDLEN
           new == Calendared(cal, p, t)
<1>1. k \in Slots
  BY SlotOfTick
<1> HIDE DEF k
<1>2. new = [cal EXCEPT ![k] = Append(cal[k], p)]
  BY DEF Calendared, k
<1>3. \A s \in Slots : cal[s] \in Seq(Pkts)
  BY DEF Calendars
<1>4. new \in Calendars
  BY <1>1, <1>2, <1>3 DEF Calendars
<1>5. /\ \A s \in Slots \ {k} : new[s] = cal[s]
      /\ new[k] = Append(cal[k], p)
  BY <1>1, <1>2 DEF Calendars
<1> HIDE DEF new
<1>6. /\ Len(new[k]) = Len(cal[k]) + 1 /\ Len(cal[k]) \in Nat /\ new[k][Len(cal[k]) + 1] = p
      /\ \A i \in 1..Len(cal[k]) : new[k][i] = cal[k][i]
  BY <1>1, <1>3, <1>5
<1>7. \A s \in Slots : \A i \in 1..Len(cal[s]) : cal[s][i] # p
  BY DEF On, InSlot
<1>8. OnceOnly(new)
  <2> SUFFICES ASSUME NEW s \in Slots, NEW u \in Slots,
                      NEW i \in 1..Len(new[s]), NEW j \in 1..Len(new[u]), new[s][i] = new[u][j]
               PROVE  s = u /\ i = j
    BY DEF OnceOnly
  <2>0. ASSUME NEW v \in Slots, NEW l \in 1..Len(new[v])
        PROVE  \/ l \in 1..Len(cal[v]) /\ new[v][l] = cal[v][l]
               \/ v = k /\ l = Len(cal[k]) + 1 /\ new[v][l] = p
    <3>1. CASE v # k
      BY <1>5, <3>1
    <3>2. CASE v = k /\ l = Len(cal[k]) + 1
      BY <1>6, <3>2
    <3>3. CASE v = k /\ l # Len(cal[k]) + 1
      <4>1. l \in 1..(Len(cal[k]) + 1)
        BY <1>6, <3>3
      <4>2. l \in 1..Len(cal[k])
        BY <1>6, <3>3, <4>1
      <4>3. QED
        BY <1>6, <3>3, <4>2
    <3>4. QED
      BY <3>1, <3>2, <3>3
  <2>1. (i \in 1..Len(cal[s]) /\ new[s][i] = cal[s][i]) \/ (s = k /\ i = Len(cal[k]) + 1 /\ new[s][i] = p)
    BY <2>0
  <2>2. (j \in 1..Len(cal[u]) /\ new[u][j] = cal[u][j]) \/ (u = k /\ j = Len(cal[k]) + 1 /\ new[u][j] = p)
    BY <2>0
  <2>3. QED
    BY <1>7, <2>1, <2>2 DEF OnceOnly
<1>9. ASSUME NEW s \in Slots, NEW q \in Pkts
      PROVE  InSlot(new, s, q) <=> InSlot(cal, s, q) \/ (q = p /\ s = k)
  <2>1. CASE s # k
    BY <1>5, <2>1 DEF InSlot
  <2>2. CASE s = k
    <3> DEFINE n == Len(cal[k])
    <3>1. n \in Nat /\ Len(new[k]) = n + 1 /\ new[k][n + 1] = p
          /\ \A i \in 1..n : new[k][i] = cal[k][i]
      BY <1>6
    <3> HIDE DEF n
    <3>2. \A i \in 1..(n + 1) : i \in 1..n \/ i = n + 1
      BY <3>1
    <3>3. (\E i \in 1..(n + 1) : new[k][i] = q) <=> (\E i \in 1..n : cal[k][i] = q) \/ q = p
      BY <3>1, <3>2
    <3>4. QED
      BY <2>2, <3>1, <3>3 DEF InSlot, n
  <2>3. QED
    BY <2>1, <2>2
<1>10. \A q \in Pkts : On(new, q) <=> On(cal, q) \/ q = p
  BY <1>1, <1>9 DEF On
<1>11. QED
  BY <1>4, <1>8, <1>9, <1>10 DEF new, k

\* The first packet of a slot, taken off, is on the calendar no more; the others are.
LEMMA CalendarRemove ==
    ASSUME NEW cal \in Calendars, OnceOnly(cal), NEW k \in Slots, cal[k] # << >>
    PROVE  LET p    == Head(cal[k])
               rest == [cal EXCEPT ![k] = Tail(@)]
           IN  /\ p \in Pkts /\ InSlot(cal, k, p) /\ On(cal, p)
               /\ rest \in Calendars /\ OnceOnly(rest)
               /\ \A s \in Slots, q \in Pkts :
                    InSlot(rest, s, q) <=> InSlot(cal, s, q) /\ q # p
               /\ \A q \in Pkts : On(rest, q) <=> On(cal, q) /\ q # p
<1> DEFINE p    == Head(cal[k])
           rest == [cal EXCEPT ![k] = Tail(@)]
<1>1. \A s \in Slots : cal[s] \in Seq(Pkts)
  BY DEF Calendars
<1>2. /\ Len(cal[k]) \in Nat \ {0} /\ p = cal[k][1] /\ p \in Pkts
      /\ Tail(cal[k]) \in Seq(Pkts)
      /\ Len(Tail(cal[k])) = Len(cal[k]) - 1
      /\ \A i \in 1..(Len(cal[k]) - 1) : Tail(cal[k])[i] = cal[k][i + 1]
  BY <1>1
<1>3. /\ \A s \in Slots \ {k} : rest[s] = cal[s]
      /\ rest[k] = Tail(cal[k])
      /\ rest \in Calendars
  BY <1>2 DEF Calendars
<1> HIDE DEF p, rest
<1>4. \A s \in Slots : \A i \in 1..Len(rest[s]) :
        \E j \in 1..Len(cal[s]) : rest[s][i] = cal[s][j] /\ j = IF s = k THEN i + 1 ELSE i
  <2> TAKE s \in Slots
  <2> TAKE i \in 1..Len(rest[s])
  <2>1. CASE s # k
    BY <1>3, <2>1
  <2>2. CASE s = k
    <3>0. Len(rest[k]) = Len(cal[k]) - 1 /\ Len(cal[k]) \in Nat
      BY <1>2, <1>3
    <3>1. i \in 1..(Len(cal[k]) - 1) /\ i + 1 \in 1..Len(cal[k])
      BY <2>2, <3>0
    <3>2. QED
      BY <1>2, <1>3, <2>2, <3>1
  <2>3. QED
    BY <2>1, <2>2
<1>5. OnceOnly(rest)
  <2> SUFFICES ASSUME NEW s \in Slots, NEW u \in Slots,
                      NEW i \in 1..Len(rest[s]), NEW j \in 1..Len(rest[u]), rest[s][i] = rest[u][j]
               PROVE  s = u /\ i = j
    BY DEF OnceOnly
  <2>1. PICK a \in 1..Len(cal[s]) : rest[s][i] = cal[s][a] /\ a = IF s = k THEN i + 1 ELSE i
    BY <1>4
  <2>2. PICK b \in 1..Len(cal[u]) : rest[u][j] = cal[u][b] /\ b = IF u = k THEN j + 1 ELSE j
    BY <1>4
  <2>3. s = u /\ a = b
    <3>1. cal[s][a] = cal[u][b]
      BY <2>1, <2>2
    <3>2. QED
      BY <3>1, Zenon DEF OnceOnly
  <2>4. QED
    BY <2>1, <2>2, <2>3
<1>6. InSlot(cal, k, p) /\ On(cal, p)
  BY <1>2 DEF InSlot, On
<1>7. ASSUME NEW s \in Slots, NEW q \in Pkts, InSlot(rest, s, q)
      PROVE  InSlot(cal, s, q) /\ q # p
  <2>1. PICK i \in 1..Len(rest[s]) : rest[s][i] = q
    BY <1>7 DEF InSlot
  <2>2. PICK j \in 1..Len(cal[s]) : rest[s][i] = cal[s][j] /\ j = IF s = k THEN i + 1 ELSE i
    BY <1>4
  <2>3. ASSUME q = p PROVE FALSE
    <3>1. 1 \in 1..Len(cal[k])
      BY <1>2
    <3>2. cal[s][j] = cal[k][1]
      BY <1>2, <2>1, <2>2, <2>3, Zenon
    <3>3. s = k /\ j = 1
      BY <3>1, <3>2, Zenon DEF OnceOnly
    <3>4. QED
      BY <2>1, <2>2, <3>3
  <2>4. QED
    BY <2>1, <2>2, <2>3 DEF InSlot
<1>8. ASSUME NEW s \in Slots, NEW q \in Pkts, InSlot(cal, s, q), q # p
      PROVE  InSlot(rest, s, q)
  <2>1. PICK i \in 1..Len(cal[s]) : cal[s][i] = q
    BY <1>8 DEF InSlot
  <2>2. CASE s # k
    BY <1>3, <2>1, <2>2 DEF InSlot
  <2>3. CASE s = k
    <3>1. i # 1 /\ i - 1 \in 1..(Len(cal[k]) - 1) /\ (i - 1) + 1 = i
      BY <1>2, <1>8, <2>1, <2>3
    <3>2. rest[k][i - 1] = q /\ i - 1 \in 1..Len(rest[k])
      BY <1>2, <1>3, <2>1, <2>3, <3>1
    <3>3. QED
      BY <2>3, <3>2 DEF InSlot
  <2>4. QED
    BY <2>2, <2>3
<1>9. \A q \in Pkts : On(rest, q) <=> On(cal, q) /\ q # p
  BY <1>7, <1>8 DEF On
<1>10. QED
  BY <1>2, <1>3, <1>5, <1>6, <1>7, <1>8, <1>9 DEF p, rest
-----------------------------------------------------------------------------
(* One pass through emulate_hop.                                             *)

\* On Linux a packet leaves no fragment to its successor.
LEMMA NoFragment ==
    ASSUME NEW link, NEW len \in Nat, NEW extra
    PROVE  charge(link, 0, len, extra).fragment = 0
<1>1. System = "linux"
  BY EmulatorAssumption DEF EmulatorAssumption
<1>2. ~(0 > len)
  OBVIOUS
<1>3. QED
  BY <1>1, <1>2 DEF charge

\* What the links of the hops are.
LEMMA LinkOf ==
    ASSUME NEW h \in Hops
    PROVE  IsLink(Link[h]) /\ Link[h].KBps \in Nat /\ Link[h].qsize * MaxCharge \in Nat
BY EmulatorAssumption DEF EmulatorAssumption, IsLink

\* What emulate_hop may return for a packet that meets hop h at tick.
Lawful(r, h, tick) ==
    /\ r.exit \in Nat /\ r.dropped \in BOOLEAN
    /\ r.queue.fragment = 0 /\ InRange(r.queue, Link[h])
    /\ Link[h].KBps # 0 =>
         /\ QueueLaw(r.queue, Link[h], calendar_tick, MaxCharge)
         /\ FreeSlotsClear(r.queue, Link[h])
         /\ BytesExact(r.queue, Link[h])
         /\ InTurn(r, hop[h], Link[h], tick)
         /\ ~r.dropped =>
              /\ tick <= r.exit
              /\ r.exit <= calendar_tick + Link[h].qsize * MaxCharge + Link[h].delay

\* A packet that meets the queue of hop h with a tick that hopclock has reached
\* leaves the ring as RingInv wants it; on a link with a bandwidth limit it is due
\* between that tick and a full queue from now.
LEMMA HopStep ==
    ASSUME RingInv, calendar_tick \in Nat, NEW h \in Hops, NEW tick \in Nat, tick <= calendar_tick,
           NEW p \in Pkts, NEW lost \in BOOLEAN, NEW extra \in BOOLEAN
    PROVE  Lawful(emulate_hop(hop[h], Link[h], tick, PktLen[p], lost, extra), h, tick)
<1> DEFINE q == hop[h]
           link == Link[h]
           len == PktLen[p]
           r == emulate_hop(q, link, tick, len, lost, extra)
           F == {0}
<1>1. IsLink(link) /\ len \in Nat /\ MaxCharge \in Nat /\ link.KBps \in Nat /\ link.delay \in Nat
  BY LinkOf, EmulatorAssumption DEF EmulatorAssumption, IsLink
<1>2. q.fragment = 0 /\ InRange(q, link)
  BY DEF RingInv
<1>3. CASE link.KBps = 0
  <2> HIDE DEF q, link, len
  <2>1. /\ InRange(r.queue, link) /\ r.exit \in Nat /\ r.dropped \in BOOLEAN
        /\ r.queue.fragment \in {0, q.fragment}
    BY <1>1, <1>2, <1>3, EmulateHopUnlimited
  <2>2. QED
    BY <1>2, <1>3, <2>1 DEF Lawful, q, link, len
<1>4. CASE link.KBps # 0
  <2>1. /\ QueueLaw(q, link, calendar_tick, MaxCharge) /\ FreeSlotsClear(q, link)
        /\ WellFormed(q, link) /\ BytesExact(q, link)
    BY <1>4 DEF RingInv, RingLawful, QueueLaw
  <2>2. charge(link, 0, len, extra).bwdelay \in 0..MaxCharge
    BY <1>4, EmulatorAssumption DEF EmulatorAssumption
  <2> HIDE DEF q, link, len
  <2>3. charge(link, 0, len, extra).fragment = 0
    BY <1>1, NoFragment
  <2>4. 0 \in F /\ q.fragment \in F
    BY <1>2
  <2>5. /\ \A f \in F : charge(link, f, len, extra).bwdelay \in 0..MaxCharge
        /\ \A f \in F : charge(link, f, len, extra).fragment \in F
    BY <2>2, <2>3
  <2> HIDE DEF F
  <2>6. /\ QueueLaw(r.queue, link, calendar_tick, MaxCharge)
        /\ r.queue.fragment \in F /\ r.exit \in Nat /\ r.dropped \in BOOLEAN
        /\ ~r.dropped => /\ tick + link.delay <= r.exit
                         /\ r.exit <= calendar_tick + link.qsize * MaxCharge + link.delay
    BY <1>1, <1>4, <2>1, <2>4, <2>5, EmulateHopKeepsLaw
  <2>7. FreeSlotsClear(r.queue, link)
    BY <1>1, <2>1, EmulateHopKeepsClear
  <2>8. LET u == update_bwq(q, link, tick)
         IN  charge(link, IF u.slotdepth = 0 THEN 0 ELSE u.fragment, len, extra).bwdelay \in Nat
    <3> DEFINE u == update_bwq(q, link, tick)
    <3>1. u.fragment = 0
      BY <1>2 DEF update_bwq
    <3> HIDE DEF u
    <3>2. (IF u.slotdepth = 0 THEN 0 ELSE u.fragment) = 0
      BY <3>1
    <3>3. QED
      BY <1>1, <2>2, <3>2 DEF u
  <2>9. BytesExact(r.queue, link)
    BY <1>1, <1>4, <2>1, <2>8, EmulateHopKeepsBytes
  <2>10. InTurn(r, q, link, tick)
    BY <1>1, <1>4, <2>1, <2>8, EmulateHopInTurn
  <2> HIDE DEF r
  <2>11. r.queue.fragment = 0
    BY <2>6 DEF F
  <2>12. InRange(r.queue, link)
    BY <1>1, <2>6 DEF QueueLaw, WellFormed, InRange, IsLink
  <2>13. ~r.dropped => tick <= r.exit
    BY <1>1, <2>6
  <2>14. QED
    BY <1>4, <2>6, <2>7, <2>11, <2>12, <2>13, <2>9, <2>10 DEF Lawful, r, q, link, len
<1>5. QED
  BY <1>3, <1>4

\* A step that changes the queue of one hop to such a result keeps RingInv.
LEMMA RingStep ==
    ASSUME RingInv, calendar_tick' = calendar_tick, NEW h \in Hops, NEW q,
           hop' = [hop EXCEPT ![h] = q], q.fragment = 0, InRange(q, Link[h]),
           Link[h].KBps # 0 =>
               /\ QueueLaw(q, Link[h], calendar_tick, MaxCharge) /\ FreeSlotsClear(q, Link[h])
               /\ BytesExact(q, Link[h])
    PROVE  RingInv'
<1>1. /\ DOMAIN hop' = Hops /\ hop'[h] = q /\ \A g \in Hops \ {h} : hop'[g] = hop[g]
      /\ hop' = [g \in Hops |-> hop'[g]]
  BY DEF RingInv
<1>2. ASSUME NEW g \in Hops
      PROVE  /\ hop'[g].fragment = 0 /\ InRange(hop'[g], Link[g])
             /\ Link[g].KBps # 0 => RingLawful(g)' /\ BytesExact(hop'[g], Link[g])
  <2>1. CASE g = h
    BY <1>1, <2>1 DEF RingLawful, QueueLaw
  <2>2. CASE g # h
    BY <1>1, <2>2 DEF RingInv, RingLawful
  <2>3. QED
    BY <2>1, <2>2
<1>3. QED
  BY <1>1, <1>2 DEF RingInv

\* Time passing keeps it.
LEMMA RingTick ==
    ASSUME RingInv, calendar_tick \in Nat, calendar_tick' \in Nat, calendar_tick <= calendar_tick',
           hop' = hop
    PROVE  RingInv'
<1>1. ASSUME NEW h \in Hops, Link[h].KBps # 0 PROVE RingLawful(h)'
  <2>1. QueueLaw(hop[h], Link[h], calendar_tick, MaxCharge) /\ FreeSlotsClear(hop[h], Link[h])
    BY <1>1 DEF RingInv, RingLawful, QueueLaw
  <2>2. IsLink(Link[h]) /\ MaxCharge \in Nat
    BY LinkOf, EmulatorAssumption DEF EmulatorAssumption
  <2>3. QueueLaw(hop[h], Link[h], calendar_tick', MaxCharge)
    BY <2>1, <2>2, TickKeepsLaw
  <2>4. QED
    BY <2>1, <2>3 DEF RingLawful, QueueLaw
<1>2. QED
  BY <1>1 DEF RingInv

\* What RingInv says of a fresh queue.
LEMMA RingInit == Init => RingInv
<1> SUFFICES ASSUME Init PROVE RingInv
  OBVIOUS
<1>1. hop = [h \in Hops |-> InitQueue(Link[h])] /\ DOMAIN hop = Hops
  BY DEF Init
<1>2. ASSUME NEW h \in Hops
      PROVE  /\ hop[h].fragment = 0 /\ InRange(hop[h], Link[h])
             /\ RingLawful(h) /\ BytesExact(hop[h], Link[h])
  <2>1. hop[h] = InitQueue(Link[h])
    BY <1>1
  <2>2. IsLink(Link[h])
    BY LinkOf
  <2>3. /\ hop[h].fragment = 0 /\ hop[h].headslot = 0 /\ hop[h].slotdepth = 0
        /\ hop[h].bytedepth = 0
        /\ hop[h].exittick = [s \in Ring(Link[h]) |-> 0]
        /\ hop[h].slotlen = [s \in Ring(Link[h]) |-> 0]
    BY <2>1 DEF InitQueue
  <2>4. WellFormed(hop[h], Link[h]) /\ InRange(hop[h], Link[h])
    BY <2>2, <2>3 DEF WellFormed, InRange, Ring, IsLink
  <2>5. InOrder(hop[h], Link[h], MaxCharge) /\ HeadDue(hop[h], Link[h], calendar_tick, MaxCharge)
    BY <2>3 DEF InOrder, HeadDue
  <2>6. FreeSlotsClear(hop[h], Link[h])
    BY <2>3 DEF FreeSlotsClear
  <2>7. BytesExact(hop[h], Link[h])
    BY <2>2, <2>3, BytesAheadRec DEF BytesExact, QueuedBytes
  <2>8. QED
    BY <2>3, <2>4, <2>5, <2>6, <2>7 DEF RingLawful
<1>3. QED
  BY <1>1, <1>2 DEF RingInv
-----------------------------------------------------------------------------
(* The invariant of every kernel.                                            *)

\* The fields of a netfilter context.
LEMMA ContextOf ==
    ASSUME TypeInv, NEW c \in CPUs
    PROVE  /\ nf[c].pc \in {"idle", "tick", "hop", "insert", "load", "store"}
           /\ nf[c] = Idle <=> nf[c].pc = "idle"
           /\ nf[c].pc # "idle" => nf[c].pkt \in Pkts
           /\ nf[c].pc = "hop" => nf[c].curtick \in Nat /\ nf[c].curtick <= calendar_tick
           /\ nf[c].pc = "store" => nf[c].path \in Nat
<1>1. nf[c] \in Contexts
  BY DEF TypeInv
<1>2. Idle.pc = "idle"
  BY DEF Idle
<1>3. CASE nf[c] = Idle
  BY <1>2, <1>3
<1>4. CASE nf[c] \in [pc : {"tick", "insert", "load"}, pkt : Pkts]
  BY <1>2, <1>4
<1>5. CASE nf[c] \in [pc : {"hop"}, pkt : Pkts, curtick : Nat]
  BY <1>2, <1>5 DEF TypeInv
<1>6. CASE nf[c] \in [pc : {"store"}, pkt : Pkts, path : Nat]
  BY <1>2, <1>6
<1>7. QED
  BY <1>1, <1>3, <1>4, <1>5, <1>6 DEF Contexts

\* Context c moves to x and the others stay.
LEMMA ContextMoves ==
    ASSUME TypeInv, NEW c \in CPUs, NEW x, nf' = [nf EXCEPT ![c] = x]
    PROVE  nf'[c] = x /\ \A d \in CPUs \ {c} : nf'[d] = nf[d]
BY DEF TypeInv

\* The records a context moves to.
LEMMA ContextTypes ==
    ASSUME NEW p \in Pkts, NEW n \in Nat
    PROVE  /\ Idle \in Contexts
           /\ [pc |-> "tick", pkt |-> p] \in Contexts
           /\ [pc |-> "insert", pkt |-> p] \in Contexts
           /\ [pc |-> "load", pkt |-> p] \in Contexts
           /\ [pc |-> "hop", pkt |-> p, curtick |-> n] \in Contexts
           /\ [pc |-> "store", pkt |-> p, path |-> n] \in Contexts
<1>1. /\ [pc |-> "tick", pkt |-> p] \in [pc : {"tick", "insert", "load"}, pkt : Pkts]
      /\ [pc |-> "insert", pkt |-> p] \in [pc : {"tick", "insert", "load"}, pkt : Pkts]
      /\ [pc |-> "load", pkt |-> p] \in [pc : {"tick", "insert", "load"}, pkt : Pkts]
  OBVIOUS
<1>2. /\ [pc |-> "hop", pkt |-> p, curtick |-> n] \in [pc : {"hop"}, pkt : Pkts, curtick : Nat]
      /\ [pc |-> "store", pkt |-> p, path |-> n] \in [pc : {"store"}, pkt : Pkts, path : Nat]
  OBVIOUS
<1>3. QED
  BY <1>1, <1>2, Zenon DEF Contexts

\* A packet on its way in has its first hop, which is not remote, ahead of it.
LEMMA OutsideHop ==
    ASSUME TypeInv, OwnerInv, NEW c \in CPUs, nf[c].pc \in Outside
    PROVE  LET p == nf[c].pkt
           IN  /\ p \in Pkts /\ pathpos[p] = 0 /\ ~AtEnd(p)
               /\ CurHop(p) = Path[p][1] /\ CurHop(p) \in Hops /\ CurHop(p) \notin Remote
<1> DEFINE p == nf[c].pkt
<1>1. p \in Pkts
  BY ContextOf DEF Outside
<1>2. Path[p] \in Seq(Hops) /\ pathpos[p] = 0 /\ Len(Path[p]) > 0 /\ Path[p][1] \notin Remote
  BY DEF OwnerInv, OutsideFresh
<1> HIDE DEF p
<1>3. Len(Path[p]) \in Nat /\ 1 \in 1..Len(Path[p]) /\ Path[p][1] \in Hops
  BY <1>2
<1>4. QED
  BY <1>1, <1>2, <1>3 DEF AtEnd, CurHop, p

\* A packet arrives: nothing has it yet.
LEMMA ArrivalKeeps ==
    ASSUME EmuInv, NEW c \in CPUs, NEW p \in Pkts,
           filter_ipinput_accept(c, p) \/ filter_ipinput_steal(c, p)
    PROVE  EmuInv'
<1>0. TypeInv /\ RingInv /\ OwnerInv
  BY DEF EmuInv
<1>1. /\ nf[c] = Idle /\ nf[c].pc = "idle" /\ where[p] = "new" /\ pathpos[p] = 0
      /\ ~On(packet_calendar, p)
      /\ \A d \in CPUs : nf[d].pc # "idle" => nf[d].pkt # p
  BY <1>0, ContextOf DEF filter_ipinput_accept, filter_ipinput_steal, Arriving, OwnerInv,
       HeldIsKnown, CalendarLive, NewAtStart
<1>2. /\ UNCHANGED <<jiffies, calendar_tick, packet_calendar, calendar_lock, hop, due, crossed>>
  BY DEF filter_ipinput_accept, filter_ipinput_steal
<1>3. RingInv'
  BY <1>0, <1>2, RingTick DEF TypeInv
<1>4. \A x \in Fates : where' = [where EXCEPT ![p] = x] =>
        /\ where' \in [Pkts -> Fates] /\ where'[p] = x
        /\ \A q \in Pkts \ {p} : where'[q] = where[q]
  BY <1>0 DEF TypeInv
<1>5. CASE \E x \in {"passed", "forwarded", "dropped"} :
             /\ where' = [where EXCEPT ![p] = x] /\ nf' = nf
             /\ pathpos' = pathpos \/ pathpos' = [pathpos EXCEPT ![p] = @ + 1]
  <2>1. PICK x \in {"passed", "forwarded", "dropped"} :
           /\ where' = [where EXCEPT ![p] = x] /\ nf' = nf
           /\ pathpos' = pathpos \/ pathpos' = [pathpos EXCEPT ![p] = @ + 1]
    BY <1>5
  <2>2. /\ where' \in [Pkts -> Fates] /\ where'[p] = x
        /\ \A q \in Pkts \ {p} : where'[q] = where[q]
    BY <1>4, <2>1 DEF Fates
  <2>3. pathpos' \in [Pkts -> Nat] /\ \A q \in Pkts \ {p} : pathpos'[q] = pathpos[q]
    <3>1. pathpos \in [Pkts -> Nat]
      BY <1>0 DEF TypeInv
    <3>2. CASE pathpos' = pathpos
      BY <3>1, <3>2
    <3>3. CASE pathpos' = [pathpos EXCEPT ![p] = pathpos[p] + 1]
      BY <3>1, <3>3
    <3>4. QED
      BY <2>1, <3>2, <3>3
  <2>4. TypeInv'
    BY <1>0, <1>2, <2>1, <2>2, <2>3 DEF TypeInv
  <2>5. x # "emulated" /\ x # "new"
    OBVIOUS
  <2>6. \A d \in CPUs : nf[d].pc # "idle" => nf[d].pkt \in Pkts \ {p}
    BY <1>0, <1>1, ContextOf
  <2>7. \A d \in CPUs : nf[d].pc \in Outside => nf[d].pc # "idle"
    BY DEF Outside
  <2>8. OwnerInv'
    BY <1>0, <1>1, <1>2, <2>1, <2>2, <2>3, <2>5, <2>6, <2>7 DEF OwnerInv, CalendarLive, HeldIsKnown,
       SoleHolder, OutsideFresh, NoneForgotten, NewAtStart
  <2>9. QED
    BY <1>3, <2>4, <2>8 DEF EmuInv
<1>6. CASE /\ Path[p] # NoPath /\ ~AtEnd(p) /\ CurHop(p) \notin Remote
           /\ where' = [where EXCEPT ![p] = "emulated"]
           /\ nf' = [nf EXCEPT ![c] = [pc |-> "tick", pkt |-> p]]
           /\ pathpos' = pathpos
  <2> DEFINE x == [pc |-> "tick", pkt |-> p]
  <2>1. /\ where' \in [Pkts -> Fates] /\ where'[p] = "emulated"
        /\ \A q \in Pkts \ {p} : where'[q] = where[q]
    BY <1>4, <1>6 DEF Fates
  <2>2. nf'[c] = x /\ \A d \in CPUs \ {c} : nf'[d] = nf[d]
    BY <1>0, <1>6, ContextMoves
  <2>3. x.pc = "tick" /\ x.pkt = p /\ x \in Contexts
    BY ContextTypes
  <2> HIDE DEF x
  <2>4. nf' \in [CPUs -> Contexts]
    BY <1>0, <1>6, <2>3 DEF TypeInv, x
  <2>5. TypeInv'
    BY <1>0, <1>2, <1>6, <2>1, <2>2, <2>3, <2>4 DEF TypeInv
  <2>6. Path[p] \in Seq(Hops) /\ Len(Path[p]) > 0 /\ Path[p][1] \notin Remote
    <3>1. Path[p] \in Seq(Hops)
      BY <1>6, EmulatorAssumption DEF EmulatorAssumption
    <3>2. Len(Path[p]) \in Nat
      BY <3>1
    <3>3. QED
      BY <1>1, <1>6, <3>1, <3>2 DEF AtEnd, CurHop
  <2>7. \A d \in CPUs : nf[d].pc # "idle" => nf[d].pkt \in Pkts \ {p} /\ d # c
    BY <1>0, <1>1, ContextOf
  <2>8. \A d \in CPUs : nf[d].pc \in Outside => nf[d].pc # "idle"
    BY DEF Outside
  <2>9. OwnerInv'
    BY <1>0, <1>1, <1>2, <1>6, <2>1, <2>2, <2>3, <2>6, <2>7, <2>8 DEF OwnerInv, Outside, CalendarLive, HeldIsKnown,
       SoleHolder, OutsideFresh, NoneForgotten, NewAtStart
  <2>10. QED
    BY <1>3, <2>5, <2>9 DEF EmuInv
<1>7. QED
  BY <1>5, <1>6 DEF filter_ipinput_accept, filter_ipinput_steal

\* A context that moves on with its packet, and touches neither calendar nor fate.
LEMMA MovesOn ==
    ASSUME TypeInv, OwnerInv, NEW c \in CPUs, NEW x \in Contexts,
           nf[c].pc # "idle", x.pc # "idle", x.pkt = nf[c].pkt,
           x.pc \in Outside <=> nf[c].pc \in Outside,
           x.pc = "hop" => x.curtick <= calendar_tick,
           nf' = [nf EXCEPT ![c] = x],
           UNCHANGED <<jiffies, calendar_tick, packet_calendar, calendar_lock, where, pathpos>>,
           due' \in [Pkts -> Nat], crossed' \in [Pkts -> Seq(Hops)]
    PROVE  TypeInv' /\ OwnerInv'
<1>1. nf'[c] = x /\ \A d \in CPUs \ {c} : nf'[d] = nf[d]
  BY ContextMoves
<1>2. nf' \in [CPUs -> Contexts]
  BY DEF TypeInv
<1>3. TypeInv'
  BY <1>1, <1>2 DEF TypeInv
<1>4. OwnerInv'
  BY <1>1 DEF OwnerInv, CalendarLive, HeldIsKnown,
       SoleHolder, OutsideFresh, NoneForgotten, NewAtStart
<1>5. QED
  BY <1>3, <1>4

\* The effect of nf_hop, with what emulate_hop returns named.
LEMMA NfHopResult ==
    ASSUME EmuInv, NEW c \in CPUs, nf_hop(c)
    PROVE  LET p == nf[c].pkt
               h == CurHop(p)
           IN  /\ h \in Hops /\ pathpos[p] = 0 /\ h = Path[p][1]
               /\ \E r : /\ Lawful(r, h, nf[c].curtick)
                         /\ hop' = [hop EXCEPT ![h] = r.queue]
                         /\ r.dropped => /\ nf' = [nf EXCEPT ![c] = Idle]
                                         /\ where' = [where EXCEPT ![p] = "dropped"]
                                         /\ pathpos' = [pathpos EXCEPT ![p] = @ + 1]
                                         /\ UNCHANGED <<due, crossed, inflight>>
                         /\ ~r.dropped => /\ nf' = [nf EXCEPT ![c] = [pc |-> "insert", pkt |-> p]]
                                          /\ due' = [due EXCEPT ![p] = r.exit]
                                          /\ crossed' = [crossed EXCEPT ![p] = Append(@, h)]
                                          /\ inflight' = [inflight EXCEPT ![h] = Append(@, p)]
                                          /\ UNCHANGED <<where, pathpos>>
<1> DEFINE p == nf[c].pkt
           h == CurHop(p)
           R(lost, extra) == emulate_hop(hop[h], Link[h], nf[c].curtick, PktLen[p], lost, extra)
<1>1. TypeInv /\ RingInv /\ OwnerInv /\ calendar_tick \in Nat
  BY DEF EmuInv, TypeInv
<1>2. /\ nf[c].pc = "hop" /\ nf[c].pc \in Outside /\ nf[c].curtick \in Nat
      /\ nf[c].curtick <= calendar_tick /\ p \in Pkts
  BY <1>1, ContextOf DEF nf_hop, Outside
<1>3. h \in Hops /\ pathpos[p] = 0 /\ h = Path[p][1]
  BY <1>1, <1>2, OutsideHop
<1>4. ASSUME NEW lost \in BOOLEAN, NEW extra \in BOOLEAN
      PROVE  Lawful(R(lost, extra), h, nf[c].curtick)
  BY <1>1, <1>2, <1>3, HopStep
<1>5. LossDraws(h) \subseteq BOOLEAN
  BY DEF LossDraws
<1>6. PICK lost \in LossDraws(h), extra \in BOOLEAN :
        \E r \in {R(lost, extra)} :
                 /\ hop' = [hop EXCEPT ![h] = r.queue]
                 /\ IF r.dropped
                    THEN /\ nf' = [nf EXCEPT ![c] = Idle]
                         /\ where' = [where EXCEPT ![p] = "dropped"]
                         /\ pathpos' = [pathpos EXCEPT ![p] = @ + 1]
                         /\ UNCHANGED <<due, crossed, inflight>>
                    ELSE /\ nf' = [nf EXCEPT ![c] = [pc |-> "insert", pkt |-> p]]
                         /\ due' = [due EXCEPT ![p] = r.exit]
                         /\ crossed' = [crossed EXCEPT ![p] = Append(@, h)]
                         /\ inflight' = [inflight EXCEPT ![h] = Append(@, p)]
                         /\ UNCHANGED <<where, pathpos>>
  BY Zenon DEF nf_hop
<1>7. Lawful(R(lost, extra), h, nf[c].curtick)
  BY <1>4, <1>5
<1> HIDE DEF R, h
<1>8. \E r \in {R(lost, extra)} :
            /\ Lawful(r, h, nf[c].curtick)
            /\ hop' = [hop EXCEPT ![h] = r.queue]
            /\ r.dropped => /\ nf' = [nf EXCEPT ![c] = Idle]
                            /\ where' = [where EXCEPT ![p] = "dropped"]
                            /\ pathpos' = [pathpos EXCEPT ![p] = @ + 1]
                            /\ UNCHANGED <<due, crossed, inflight>>
            /\ ~r.dropped => /\ nf' = [nf EXCEPT ![c] = [pc |-> "insert", pkt |-> p]]
                             /\ due' = [due EXCEPT ![p] = r.exit]
                             /\ crossed' = [crossed EXCEPT ![p] = Append(@, h)]
                             /\ inflight' = [inflight EXCEPT ![h] = Append(@, p)]
                             /\ UNCHANGED <<where, pathpos>>
  BY <1>6, <1>7
<1>9. QED
  BY <1>3, <1>8, Zenon DEF h

\* The steps of a netfilter context.
LEMMA NetfilterKeeps ==
    ASSUME EmuInv, NEW c \in CPUs, NetfilterStep(c)
    PROVE  EmuInv'
<1> DEFINE p == nf[c].pkt
<1>0. /\ TypeInv /\ RingInv /\ OwnerInv /\ calendar_tick \in Nat
      /\ due \in [Pkts -> Nat] /\ crossed \in [Pkts -> Seq(Hops)]
  BY DEF EmuInv, TypeInv
<1>1. p \in Pkts /\ nf[c].pc # "idle"
  BY <1>0, ContextOf
     DEF NetfilterStep, nf_read_tick, nf_hop, nf_insert, nf_load_path, nf_store_path
<1>2. ASSUME nf_read_tick(c) PROVE EmuInv'
  <2> DEFINE x == [pc |-> "hop", pkt |-> p, curtick |-> calendar_tick]
  <2>1. x \in Contexts /\ x.pc = "hop" /\ x.pkt = p /\ x.curtick = calendar_tick
    BY <1>0, <1>1, ContextTypes
  <2>2. nf[c].pc = "tick" /\ nf' = [nf EXCEPT ![c] = x]
        /\ UNCHANGED <<jiffies, calendar_tick, packet_calendar, calendar_lock, hop,
                       where, pathpos, due, crossed>>
    BY <1>2 DEF nf_read_tick
  <2> HIDE DEF x
  <2>3. x.pc \in Outside /\ nf[c].pc \in Outside /\ x.curtick <= calendar_tick
    BY <1>0, <2>1, <2>2 DEF Outside
  <2>4. TypeInv' /\ OwnerInv'
    BY <1>0, <1>1, <2>1, <2>2, <2>3, MovesOn
  <2>5. RingInv'
    BY <1>0, <2>2, RingTick
  <2>6. QED
    BY <2>4, <2>5 DEF EmuInv
<1>3. ASSUME nf_hop(c) PROVE EmuInv'
  <2> DEFINE h == CurHop(p)
  <2>1. /\ nf[c].pc = "hop" /\ nf[c].pc \in Outside /\ nf[c].curtick \in Nat
        /\ nf[c].curtick <= calendar_tick
    BY <1>0, <1>3, ContextOf DEF nf_hop, Outside
  <2>2. h \in Hops /\ pathpos[p] = 0
    BY <1>0, <2>1, OutsideHop
  <2>3. UNCHANGED <<jiffies, calendar_tick, packet_calendar, calendar_lock>>
    BY <1>3 DEF nf_hop
  <2>4. PICK r :
          /\ Lawful(r, h, nf[c].curtick)
          /\ hop' = [hop EXCEPT ![h] = r.queue]
          /\ r.dropped => /\ nf' = [nf EXCEPT ![c] = Idle]
                          /\ where' = [where EXCEPT ![p] = "dropped"]
                          /\ pathpos' = [pathpos EXCEPT ![p] = @ + 1]
                          /\ UNCHANGED <<due, crossed>>
          /\ ~r.dropped => /\ nf' = [nf EXCEPT ![c] = [pc |-> "insert", pkt |-> p]]
                           /\ due' = [due EXCEPT ![p] = r.exit]
                           /\ crossed' = [crossed EXCEPT ![p] = Append(@, h)]
                           /\ UNCHANGED <<where, pathpos>>
    BY <1>3, NfHopResult
  <2> HIDE DEF h
  <2>5. r.exit \in Nat /\ r.dropped \in BOOLEAN
    BY <2>4 DEF Lawful
  <2>6. RingInv'
    BY <1>0, <2>2, <2>3, <2>4, RingStep DEF Lawful
  <2>7. CASE r.dropped
    <3>1. nf'[c] = Idle /\ \A d \in CPUs \ {c} : nf'[d] = nf[d]
      BY <1>0, <2>4, <2>7, ContextMoves
    <3>2. nf' \in [CPUs -> Contexts] /\ Idle.pc = "idle"
      BY <1>0, <2>4, <2>7 DEF TypeInv, Contexts, Idle
    <3>3. /\ where' \in [Pkts -> Fates] /\ where'[p] = "dropped"
          /\ \A q \in Pkts \ {p} : where'[q] = where[q]
      BY <1>0, <1>1, <2>4, <2>7 DEF TypeInv, Fates
    <3>4. pathpos' \in [Pkts -> Nat] /\ \A q \in Pkts \ {p} : pathpos'[q] = pathpos[q]
      <4>1. pathpos \in [Pkts -> Nat] /\ pathpos[p] + 1 \in Nat
        BY <1>0, <2>2 DEF TypeInv
      <4>2. pathpos' = [pathpos EXCEPT ![p] = pathpos[p] + 1]
        BY <2>4, <2>7
      <4>3. QED
        BY <1>1, <4>1, <4>2
    <3>5. TypeInv'
      BY <1>0, <2>3, <2>4, <2>7, <3>1, <3>2, <3>3, <3>4 DEF TypeInv
    <3>6. \A d \in CPUs : nf[d].pc # "idle" /\ d # c => nf[d].pkt \in Pkts \ {p}
      BY <1>0, <1>1, ContextOf DEF OwnerInv, SoleHolder
    <3>7. \A d \in CPUs : nf'[d].pc # "idle" => d # c /\ nf'[d] = nf[d] /\ nf[d].pkt \in Pkts \ {p}
      BY <3>1, <3>2, <3>6
    <3>8. ~On(packet_calendar, p)
      BY <1>0, <2>1 DEF OwnerInv, OutsideFresh
    <3>9. \A d \in CPUs : nf'[d].pc \in Outside => nf'[d].pc # "idle"
      BY DEF Outside
    <3> HIDE DEF p
    <3>10. OwnerInv'
      <4> USE <2>3, <3>3, <3>4
      <4>1. OnceOnly(packet_calendar)' /\ NewAtStart'
        BY <1>0 DEF OwnerInv, NewAtStart
      <4>2. CalendarLive'
        BY <1>0, <3>8 DEF OwnerInv, CalendarLive
      <4>3. HeldIsKnown'
        BY <1>0, <3>7 DEF OwnerInv, HeldIsKnown
      <4>4. SoleHolder'
        <5> SUFFICES ASSUME NEW a \in CPUs, NEW d \in CPUs, nf'[a].pc # "idle", nf'[d].pc # "idle",
                            nf'[a].pkt = nf'[d].pkt
                     PROVE  a = d
          BY DEF SoleHolder
        <5>1. nf'[a] = nf[a] /\ nf'[d] = nf[d]
          BY <3>7
        <5>2. QED
          BY <1>0, <5>1 DEF OwnerInv, SoleHolder
      <4>5. OutsideFresh'
        <5> SUFFICES ASSUME NEW d \in CPUs, nf'[d].pc \in Outside
                     PROVE  LET q == nf'[d].pkt
                            IN  /\ where'[q] = "emulated" /\ ~On(packet_calendar', q)
                                /\ Path[q] \in Seq(Hops) /\ pathpos'[q] = 0 /\ Len(Path[q]) > 0
                                /\ Path[q][1] \notin Remote
          BY DEF OutsideFresh
        <5>1. nf'[d] = nf[d] /\ nf[d].pkt \in Pkts \ {p}
          BY <3>7, <3>9
        <5>2. QED
          BY <1>0, <5>1 DEF OwnerInv, OutsideFresh
      <4>6. NoneForgotten'
        <5> SUFFICES ASSUME NEW q \in Pkts, where'[q] = "emulated"
                     PROVE  \/ On(packet_calendar, q)
                            \/ \E d \in CPUs : nf'[d].pc \in Outside /\ nf'[d].pkt = q
          BY DEF NoneForgotten
        <5>1. q # p /\ where[q] = "emulated"
          BY <1>1
        <5>2. ASSUME NEW d \in CPUs, nf[d].pkt = q PROVE nf'[d] = nf[d]
          BY <3>1, <5>1, <5>2 DEF p
        <5>3. QED
          BY <1>0, <5>1, <5>2 DEF OwnerInv, NoneForgotten
      <4>7. QED
        BY <4>1, <4>2, <4>3, <4>4, <4>5, <4>6 DEF OwnerInv
    <3>11. QED
      BY <2>6, <3>5, <3>10 DEF EmuInv
  <2>8. CASE ~r.dropped
    <3> DEFINE x == [pc |-> "insert", pkt |-> p]
    <3>1. x \in Contexts /\ x.pc = "insert" /\ x.pkt = p
      BY <1>1, ContextTypes
    <3>2. nf' = [nf EXCEPT ![c] = x] /\ UNCHANGED <<where, pathpos>>
      BY <2>4, <2>8
    <3>3. due' \in [Pkts -> Nat]
      BY <1>0, <1>1, <2>5, <2>4, <2>8
    <3>4. crossed' \in [Pkts -> Seq(Hops)]
      <4>1. crossed[p] \in Seq(Hops)
        BY <1>0, <1>1
      <4>2. Append(crossed[p], h) \in Seq(Hops)
        BY <2>2, <4>1
      <4>3. QED
        BY <1>0, <1>1, <2>4, <2>8, <4>2
    <3> HIDE DEF x
    <3>5. x.pc \in Outside /\ x.pc # "hop" /\ x.pc # "idle"
      BY <3>1 DEF Outside
    <3>6. TypeInv' /\ OwnerInv'
      BY <1>0, <1>1, <2>1, <2>3, <3>1, <3>2, <3>3, <3>4, <3>5, MovesOn
    <3>7. QED
      BY <2>6, <3>6 DEF EmuInv
  <2>9. QED
    BY <2>5, <2>7, <2>8
<1>4. ASSUME nf_insert(c) PROVE EmuInv'
  <2> DEFINE x == [pc |-> "load", pkt |-> p]
  <2>1. nf[c].pc = "insert" /\ nf[c].pc \in Outside /\ nf' = [nf EXCEPT ![c] = x]
        /\ packet_calendar' = Calendared(packet_calendar, p, due[p])
        /\ UNCHANGED <<jiffies, calendar_tick, calendar_lock, hop, where, pathpos, due, crossed>>
    BY <1>4 DEF nf_insert, Outside
  <2>2. x \in Contexts /\ x.pc = "load" /\ x.pkt = p
    BY <1>1, ContextTypes
  <2>3. nf'[c] = x /\ \A d \in CPUs \ {c} : nf'[d] = nf[d]
    BY <1>0, <2>1, ContextMoves
  <2> HIDE DEF x
  <2>4. nf' \in [CPUs -> Contexts]
    BY <1>0, <2>1, <2>2 DEF TypeInv
  <2>5. /\ where[p] = "emulated" /\ ~On(packet_calendar, p) /\ Path[p] \in Seq(Hops)
        /\ OnceOnly(packet_calendar) /\ packet_calendar \in Calendars /\ due[p] \in Nat
    BY <1>0, <1>1, <2>1 DEF OwnerInv, OutsideFresh, TypeInv
  <2>6. /\ packet_calendar' \in Calendars /\ OnceOnly(packet_calendar')
        /\ \A q \in Pkts : On(packet_calendar', q) <=> On(packet_calendar, q) \/ q = p
    BY <1>1, <2>1, <2>5, CalendarInsert
  <2>7. TypeInv'
    BY <1>0, <2>1, <2>2, <2>3, <2>4, <2>6 DEF TypeInv
  <2>8. x.pc \notin Outside /\ \A d \in CPUs : nf[d].pc \in Outside => nf[d].pc # "idle"
    BY <2>2 DEF Outside
  <2>9. \A d \in CPUs \ {c} : nf[d].pc # "idle" => nf[d].pkt \in Pkts /\ nf[d].pkt # p
    BY <1>0, <1>1, ContextOf DEF OwnerInv, SoleHolder
  <2> HIDE DEF p
  <2>10. OwnerInv'
    <3> USE <1>0, <2>1, <2>6
    <3>1. CalendarLive' /\ NewAtStart'
      BY <2>5 DEF OwnerInv, CalendarLive, NewAtStart
    <3>2. \A d \in CPUs : nf'[d].pc # "idle" <=> nf[d].pc # "idle"
      BY <1>1, <2>2, <2>3
    <3>3. \A d \in CPUs : nf'[d].pkt = nf[d].pkt
      BY <2>2, <2>3 DEF p
    <3>4. HeldIsKnown' /\ SoleHolder'
      BY <3>2, <3>3 DEF OwnerInv, HeldIsKnown, SoleHolder
    <3>5. ASSUME NEW d \in CPUs, nf'[d].pc \in Outside
          PROVE  d # c /\ nf'[d] = nf[d] /\ nf[d].pkt \in Pkts \ {p}
      BY <2>3, <2>8, <2>9, <3>5
    <3>6. OutsideFresh'
      BY <3>5 DEF OwnerInv, OutsideFresh
    <3>7. NoneForgotten'
      <4> SUFFICES ASSUME NEW q \in Pkts, where[q] = "emulated"
                   PROVE  \/ On(packet_calendar', q)
                          \/ \E d \in CPUs : nf'[d].pc \in Outside /\ nf'[d].pkt = q
        BY DEF NoneForgotten
      <4>1. q # p => \A d \in CPUs : nf[d].pkt = q => nf'[d] = nf[d]
        BY <2>3 DEF p
      <4>2. QED
        BY <1>1, <4>1 DEF OwnerInv, NoneForgotten
    <3>8. QED
      BY <3>1, <3>4, <3>6, <3>7 DEF OwnerInv
  <2>11. RingInv'
    BY <1>0, <2>1, RingTick
  <2>12. QED
    BY <2>7, <2>10, <2>11 DEF EmuInv
<1>5. ASSUME nf_load_path(c) PROVE EmuInv'
  <2> DEFINE x == [pc |-> "store", pkt |-> p, path |-> pathpos[p]]
  <2>1. nf[c].pc = "load" /\ nf' = [nf EXCEPT ![c] = x]
        /\ UNCHANGED <<jiffies, calendar_tick, packet_calendar, calendar_lock, hop,
                       where, pathpos, due, crossed>>
    BY <1>5 DEF nf_load_path
  <2>2. pathpos[p] \in Nat
    BY <1>0, <1>1 DEF TypeInv
  <2>3. x \in Contexts /\ x.pc = "store" /\ x.pkt = p
    BY <1>1, <2>2, ContextTypes
  <2> HIDE DEF x
  <2>4. x.pc \notin Outside /\ nf[c].pc \notin Outside
    BY <2>1, <2>3 DEF Outside
  <2>5. TypeInv' /\ OwnerInv'
    BY <1>0, <1>1, <2>1, <2>3, <2>4, MovesOn
  <2>6. RingInv'
    BY <1>0, <2>1, RingTick
  <2>7. QED
    BY <2>5, <2>6 DEF EmuInv
<1>6. ASSUME nf_store_path(c) PROVE EmuInv'
  <2>1. nf[c].pc = "store" /\ nf' = [nf EXCEPT ![c] = Idle]
        /\ pathpos' = [pathpos EXCEPT ![p] = nf[c].path + 1]
        /\ UNCHANGED <<jiffies, calendar_tick, packet_calendar, calendar_lock, hop,
                       where, due, crossed>>
    BY <1>6 DEF nf_store_path
  <2>2. nf'[c] = Idle /\ Idle.pc = "idle" /\ \A d \in CPUs \ {c} : nf'[d] = nf[d]
    BY <1>0, <2>1, ContextMoves DEF Idle
  <2>3. nf' \in [CPUs -> Contexts]
    BY <1>0, <2>1 DEF TypeInv, Contexts
  <2>4. nf[c].path + 1 \in Nat
    BY <1>0, <2>1, ContextOf
  <2>5. pathpos' \in [Pkts -> Nat] /\ \A q \in Pkts \ {p} : pathpos'[q] = pathpos[q]
    BY <1>0, <1>1, <2>1, <2>4 DEF TypeInv
  <2>6. TypeInv'
    BY <1>0, <2>1, <2>2, <2>3, <2>5 DEF TypeInv
  <2>7. \A d \in CPUs \ {c} : nf[d].pc # "idle" => nf[d].pkt \in Pkts \ {p}
    BY <1>0, <1>1, ContextOf DEF OwnerInv, SoleHolder
  <2>8. \A d \in CPUs : nf[d].pc \in Outside => nf[d].pc # "idle" /\ d # c
    BY <2>1 DEF Outside
  <2>9. where[p] # "new" /\ "idle" \notin Outside
    BY <1>0, <1>1 DEF OwnerInv, Outside, CalendarLive, HeldIsKnown,
       SoleHolder, OutsideFresh, NoneForgotten, NewAtStart
  <2> HIDE DEF p
  <2>10. OwnerInv'
    <3> USE <1>0, <2>1
    <3>1. ASSUME NEW d \in CPUs, nf'[d].pc # "idle"
          PROVE  d # c /\ nf'[d] = nf[d] /\ nf[d].pkt \in Pkts \ {p}
      BY <2>2, <2>7, <3>1
    <3>2. CalendarLive' /\ NewAtStart'
      BY <2>5, <2>9 DEF OwnerInv, CalendarLive, NewAtStart
    <3>3. HeldIsKnown' /\ SoleHolder'
      BY <3>1 DEF OwnerInv, HeldIsKnown, SoleHolder
    <3>4. OutsideFresh'
      BY <2>5, <2>9, <3>1 DEF OwnerInv, OutsideFresh
    <3>5. NoneForgotten'
      BY <2>2, <2>8 DEF OwnerInv, NoneForgotten
    <3>6. QED
      BY <3>2, <3>3, <3>4, <3>5 DEF OwnerInv
  <2>11. RingInv'
    BY <1>0, <2>1, RingTick
  <2>12. QED
    BY <2>6, <2>10, <2>11 DEF EmuInv
<1>7. QED
  BY <1>2, <1>3, <1>4, <1>5, <1>6 DEF NetfilterStep

\* The packet meets the next hop of its path, with the result r.
Meets(p, r) == /\ pathpos[p] < Len(Path[p]) /\ CurHop(p) \in Hops \ Remote
               /\ Lawful(r, CurHop(p), calendar_tick)
               /\ hop' = [hop EXCEPT ![CurHop(p)] = r.queue]

\* The packet hopclock takes is an emulated one, and the calendar without it is lawful.
LEMMA TakenFirst ==
    ASSUME TypeInv, OwnerInv, packet_calendar[NowSlot] # << >>
    PROVE  /\ NowSlot \in Slots /\ First \in Pkts
           /\ InSlot(packet_calendar, NowSlot, First) /\ On(packet_calendar, First)
           /\ where[First] = "emulated" /\ Path[First] \in Seq(Hops) /\ Len(Path[First]) \in Nat
           /\ Rest \in Calendars /\ OnceOnly(Rest)
           /\ \A s \in Slots, q \in Pkts :
                InSlot(Rest, s, q) <=> InSlot(packet_calendar, s, q) /\ q # First
           /\ \A q \in Pkts : On(Rest, q) <=> On(packet_calendar, q) /\ q # First
<1>1. NowSlot \in Slots /\ packet_calendar \in Calendars /\ OnceOnly(packet_calendar)
  BY SlotOfTick DEF NowSlot, TypeInv, OwnerInv
<1>2. /\ First \in Pkts /\ InSlot(packet_calendar, NowSlot, First) /\ On(packet_calendar, First)
      /\ Rest \in Calendars /\ OnceOnly(Rest)
      /\ \A s \in Slots, q \in Pkts :
           InSlot(Rest, s, q) <=> InSlot(packet_calendar, s, q) /\ q # First
      /\ \A q \in Pkts : On(Rest, q) <=> On(packet_calendar, q) /\ q # First
  BY <1>1, CalendarRemove DEF First, Rest
<1>3. where[First] = "emulated" /\ Path[First] \in Seq(Hops)
  BY <1>2 DEF OwnerInv, CalendarLive
<1>4. QED
  BY <1>1, <1>2, <1>3

\* The effect of hopclock_packet, with what emulate_hop returns named.
LEMMA HopclockResult ==
    ASSUME EmuInv, hopclock_packet
    PROVE  /\ calendar_lock = "hopclock" /\ calendar_tick < jiffies
           /\ packet_calendar[NowSlot] # << >>
           /\ UNCHANGED <<jiffies, calendar_tick, calendar_lock, nf>>
           /\ \/ AtEnd(First) /\ Gone("forwarded") /\ UNCHANGED <<hop, pathpos>>
              \/ /\ pathpos[First] > Len(Path[First])
                 /\ Gone("wild") /\ UNCHANGED <<hop, pathpos>>
              \/ /\ pathpos[First] < Len(Path[First])
                 /\ Gone("dropped") /\ UNCHANGED hop
                 /\ pathpos' = [pathpos EXCEPT ![First] = @ + 1]
              \/ \E r : /\ Meets(First, r)
                        /\ pathpos' = [pathpos EXCEPT ![First] = @ + 1]
                        /\ \/ Gone("dropped")
                           \/ ~r.dropped /\ Rescheduled(CurHop(First), r.exit)
<1> DEFINE h == CurHop(First)
           R(lost, extra) == emulate_hop(hop[h], Link[h], calendar_tick, PktLen[First], lost, extra)
<1>1. TypeInv /\ RingInv /\ OwnerInv /\ calendar_tick \in Nat /\ calendar_tick <= calendar_tick
  BY DEF EmuInv, TypeInv
<1>2. /\ calendar_lock = "hopclock" /\ calendar_tick < jiffies /\ packet_calendar[NowSlot] # << >>
      /\ UNCHANGED <<jiffies, calendar_tick, calendar_lock, nf>>
  BY DEF hopclock_packet
<1>3. First \in Pkts /\ Path[First] \in Seq(Hops) /\ pathpos[First] \in Nat
  BY <1>1, <1>2, TakenFirst DEF TypeInv
<1>4. CASE AtEnd(First) /\ Gone("forwarded") /\ UNCHANGED <<hop, pathpos>>
  BY <1>2, <1>4
<1>5. CASE /\ pathpos[First] > Len(Path[First])
           /\ Gone("wild") /\ UNCHANGED <<hop, pathpos>>
  BY <1>2, <1>5
<1>6. CASE /\ pathpos[First] < Len(Path[First])
           /\ Gone("dropped") /\ UNCHANGED hop
           /\ pathpos' = [pathpos EXCEPT ![First] = @ + 1]
  BY <1>2, <1>6
<1>7. CASE /\ pathpos[First] < Len(Path[First]) /\ h \notin Remote
           /\ pathpos' = [pathpos EXCEPT ![First] = @ + 1]
           /\ \E lost \in LossDraws(h), extra \in BOOLEAN :
                \E r \in {R(lost, extra)} :
                  /\ hop' = [hop EXCEPT ![h] = r.queue]
                  /\ IF r.dropped THEN Gone("dropped") ELSE Rescheduled(CurHop(First), r.exit)
  <2>1. h \in Hops
    <3>1. pathpos[First] + 1 \in 1..Len(Path[First])
      BY <1>3, <1>7
    <3>2. QED
      BY <1>3, <3>1 DEF CurHop
  <2>2. LossDraws(h) \subseteq BOOLEAN
    BY DEF LossDraws
  <2>3. PICK lost \in LossDraws(h), extra \in BOOLEAN :
           \E r \in {R(lost, extra)} :
             /\ hop' = [hop EXCEPT ![h] = r.queue]
             /\ IF r.dropped THEN Gone("dropped") ELSE Rescheduled(CurHop(First), r.exit)
    BY <1>7
  <2>4. Lawful(R(lost, extra), h, calendar_tick)
    BY <1>1, <1>3, <2>1, <2>2, HopStep
  <2> HIDE DEF R
  <2>5. \E r \in {R(lost, extra)} :
          /\ Meets(First, r)
          /\ \/ Gone("dropped")
             \/ ~r.dropped /\ Rescheduled(CurHop(First), r.exit)
    BY <1>7, <2>1, <2>3, <2>4 DEF Meets
  <2>6. QED
    BY <1>2, <1>7, <2>5, Zenon
<1>8. \/ AtEnd(First) /\ Gone("forwarded") /\ UNCHANGED <<hop, pathpos>>
      \/ /\ pathpos[First] > Len(Path[First])
         /\ Gone("wild") /\ UNCHANGED <<hop, pathpos>>
      \/ /\ pathpos[First] < Len(Path[First]) /\ CurHop(First) \in Remote
         /\ Gone("dropped") /\ UNCHANGED hop
         /\ pathpos' = [pathpos EXCEPT ![First] = @ + 1]
      \/ /\ pathpos[First] < Len(Path[First]) /\ h \notin Remote
         /\ pathpos' = [pathpos EXCEPT ![First] = @ + 1]
         /\ \E lost \in LossDraws(h), extra \in BOOLEAN :
              \E r \in {R(lost, extra)} :
                /\ hop' = [hop EXCEPT ![h] = r.queue]
                /\ IF r.dropped THEN Gone("dropped") ELSE Rescheduled(CurHop(First), r.exit)
  BY DEF hopclock_packet
<1>9. QED
  BY <1>4, <1>5, <1>6, <1>7, <1>8, Zenon

\* hopclock works on one packet.
LEMMA HopclockKeeps ==
    ASSUME EmuInv, hopclock_packet
    PROVE  EmuInv'
<1> DEFINE p == First
<1>0. /\ TypeInv /\ RingInv /\ OwnerInv /\ calendar_tick \in Nat
      /\ due \in [Pkts -> Nat] /\ crossed \in [Pkts -> Seq(Hops)]
      /\ pathpos \in [Pkts -> Nat] /\ where \in [Pkts -> Fates]
  BY DEF EmuInv, TypeInv
<1>1. packet_calendar[NowSlot] # << >> /\ UNCHANGED <<jiffies, calendar_tick, calendar_lock, nf>>
  BY HopclockResult
<1>2. /\ p \in Pkts /\ On(packet_calendar, p) /\ where[p] = "emulated" /\ Path[p] \in Seq(Hops)
      /\ Rest \in Calendars /\ OnceOnly(Rest)
      /\ \A q \in Pkts : On(Rest, q) <=> On(packet_calendar, q) /\ q # p
  BY <1>0, <1>1, TakenFirst
<1>3. \A d \in CPUs : nf[d].pc \in Outside => nf[d].pkt \in Pkts \ {p}
  BY <1>0, <1>2, ContextOf DEF OwnerInv, OutsideFresh, Outside
<1>4. \A d \in CPUs : nf[d].pc # "idle" => nf[d].pkt \in Pkts
  BY <1>0, ContextOf
<1> HIDE DEF p
<1>5. ASSUME pathpos' = pathpos \/ pathpos' = [pathpos EXCEPT ![p] = @ + 1]
      PROVE  pathpos' \in [Pkts -> Nat] /\ \A q \in Pkts \ {p} : pathpos'[q] = pathpos[q]
  <2>1. CASE pathpos' = pathpos
    BY <1>0, <2>1
  <2>2. CASE pathpos' = [pathpos EXCEPT ![p] = pathpos[p] + 1]
    BY <1>0, <1>2, <2>2
  <2>3. QED
    BY <1>5, <2>1, <2>2
<1>6. ASSUME NEW fate \in {"forwarded", "wild", "dropped"}, Gone(fate),
             pathpos' = pathpos \/ pathpos' = [pathpos EXCEPT ![p] = @ + 1]
      PROVE  TypeInv' /\ OwnerInv'
  <2>1. pathpos' \in [Pkts -> Nat] /\ \A q \in Pkts \ {p} : pathpos'[q] = pathpos[q]
    BY <1>5, <1>6
  <2>2. packet_calendar' = Rest /\ UNCHANGED <<due, crossed>>
    BY <1>6 DEF Gone, p
  <2>3. /\ where' \in [Pkts -> Fates] /\ where'[p] = fate
        /\ \A q \in Pkts \ {p} : where'[q] = where[q]
    BY <1>0, <1>2, <1>6 DEF Gone, p, Fates
  <2>4. TypeInv'
    BY <1>0, <1>1, <1>2, <2>1, <2>2, <2>3 DEF TypeInv
  <2>5. fate # "emulated" /\ fate # "new"
    OBVIOUS
  <2>6. OnceOnly(packet_calendar)' /\ CalendarLive'
    BY <1>0, <1>2, <2>2, <2>3 DEF OwnerInv, CalendarLive
  <2>7. HeldIsKnown' /\ SoleHolder'
    BY <1>0, <1>1, <1>4, <2>3, <2>5 DEF OwnerInv, HeldIsKnown, SoleHolder
  <2>8. OutsideFresh'
    BY <1>0, <1>1, <1>2, <1>3, <2>1, <2>2, <2>3 DEF OwnerInv, OutsideFresh
  <2>9. NoneForgotten' /\ NewAtStart'
    BY <1>0, <1>1, <1>2, <2>1, <2>2, <2>3, <2>5 DEF OwnerInv, NoneForgotten, NewAtStart
  <2>10. QED
    BY <2>4, <2>6, <2>7, <2>8, <2>9 DEF OwnerInv
<1>7. ASSUME NEW t \in Nat, Rescheduled(CurHop(p), t), CurHop(p) \in Hops,
             pathpos' = pathpos \/ pathpos' = [pathpos EXCEPT ![p] = @ + 1]
      PROVE  TypeInv' /\ OwnerInv'
  <2>1. pathpos' \in [Pkts -> Nat] /\ \A q \in Pkts \ {p} : pathpos'[q] = pathpos[q]
    BY <1>5, <1>7
  <2>2. packet_calendar' = Calendared(Rest, p, t) /\ where' = where
    BY <1>7 DEF Rescheduled, p
  <2>3. ~On(Rest, p)
    BY <1>2
  <2>4. /\ packet_calendar' \in Calendars /\ OnceOnly(packet_calendar')
        /\ \A q \in Pkts : On(packet_calendar', q) <=> On(Rest, q) \/ q = p
    BY <1>2, <2>2, <2>3, CalendarInsert
  <2>5. \A q \in Pkts : On(packet_calendar', q) <=> On(packet_calendar, q)
    BY <1>2, <2>4
  <2>6. due' \in [Pkts -> Nat]
    BY <1>0, <1>7 DEF Rescheduled, p
  <2>7. crossed' \in [Pkts -> Seq(Hops)]
    <3>1. crossed[p] \in Seq(Hops)
      BY <1>0, <1>2
    <3>2. Append(crossed[p], CurHop(p)) \in Seq(Hops)
      BY <1>7, <3>1
    <3>3. QED
      BY <1>0, <1>7, <3>2 DEF Rescheduled, p
  <2>8. TypeInv'
    BY <1>0, <1>1, <2>1, <2>2, <2>4, <2>6, <2>7 DEF TypeInv
  <2>9. OnceOnly(packet_calendar)' /\ CalendarLive' /\ HeldIsKnown' /\ SoleHolder'
    BY <1>0, <1>1, <2>2, <2>4, <2>5 DEF OwnerInv, CalendarLive, HeldIsKnown, SoleHolder
  <2>10. OutsideFresh'
    BY <1>0, <1>1, <1>3, <2>1, <2>2, <2>5 DEF OwnerInv, OutsideFresh
  <2>11. NoneForgotten' /\ NewAtStart'
    BY <1>0, <1>1, <1>2, <2>1, <2>2, <2>5 DEF OwnerInv, NoneForgotten, NewAtStart
  <2>12. QED
    BY <2>8, <2>9, <2>10, <2>11 DEF OwnerInv
<1>8. CASE /\ hop' = hop /\ (pathpos' = pathpos \/ pathpos' = [pathpos EXCEPT ![p] = @ + 1])
           /\ \E fate \in {"forwarded", "wild", "dropped"} : Gone(fate)
  <2>1. RingInv'
    BY <1>0, <1>1, <1>8, RingTick
  <2>2. QED
    BY <1>6, <1>8, <2>1 DEF EmuInv
<1>9. CASE \E r : /\ Meets(First, r)
                  /\ pathpos' = [pathpos EXCEPT ![First] = @ + 1]
                  /\ \/ Gone("dropped")
                     \/ ~r.dropped /\ Rescheduled(CurHop(First), r.exit)
  <2>1. PICK r : /\ Meets(First, r)
                 /\ pathpos' = [pathpos EXCEPT ![First] = @ + 1]
                 /\ \/ Gone("dropped")
                    \/ ~r.dropped /\ Rescheduled(CurHop(First), r.exit)
    BY <1>9
  <2>2. /\ r.exit \in Nat /\ CurHop(p) \in Hops /\ Lawful(r, CurHop(p), calendar_tick)
        /\ hop' = [hop EXCEPT ![CurHop(p)] = r.queue]
    BY <2>1 DEF Meets, Lawful, p
  <2>3. RingInv'
    BY <1>0, <1>1, <2>2, RingStep DEF Lawful
  <2>4. TypeInv' /\ OwnerInv'
    BY <1>6, <1>7, <2>1, <2>2 DEF p
  <2>5. QED
    BY <2>3, <2>4 DEF EmuInv
<1>10. QED
  BY <1>8, <1>9, HopclockResult DEF p

\* The clock ticks, and hopclock starts, advances and ends.
LEMMA ClockKeeps ==
    ASSUME EmuInv, jiffy \/ hopclock_start \/ hopclock_advance \/ hopclock_end
    PROVE  EmuInv'
<1>1. TypeInv /\ RingInv /\ OwnerInv /\ calendar_tick \in Nat /\ jiffies \in Nat
  BY DEF EmuInv, TypeInv
<1>2. /\ UNCHANGED <<packet_calendar, hop, nf, where, pathpos, due, crossed>>
      /\ jiffies' \in Nat /\ calendar_tick' \in Nat /\ calendar_tick <= calendar_tick'
      /\ calendar_tick' <= jiffies' /\ calendar_lock' \in {"free", "hopclock"}
  BY <1>1 DEF jiffy, hopclock_start, hopclock_advance, hopclock_end, TypeInv
<1>3. FirstTick <= calendar_tick'
  BY <1>1, <1>2, EmulatorAssumption DEF TypeInv, EmulatorAssumption
<1>4. \A c \in CPUs : nf[c].pc = "hop" => nf[c].curtick <= calendar_tick'
  BY <1>1, <1>2, ContextOf
<1>5. TypeInv'
  BY <1>1, <1>2, <1>3, <1>4 DEF TypeInv
<1>6. RingInv'
  BY <1>1, <1>2, RingTick
<1>7. OwnerInv'
  BY <1>1, <1>2 DEF OwnerInv, OnceOnly, CalendarLive, HeldIsKnown,
       SoleHolder, OutsideFresh, NoneForgotten, NewAtStart
<1>8. QED
  BY <1>5, <1>6, <1>7 DEF EmuInv

\* Before the first packet.
LEMMA EmuInit == Init => EmuInv
<1> SUFFICES ASSUME Init PROVE EmuInv
  OBVIOUS
<1>1. Idle.pc = "idle" /\ Idle \in Contexts /\ "idle" \notin Outside
  BY DEF Idle, Contexts, Outside
<1>2. /\ \A c \in CPUs : nf[c].pc = "idle"
      /\ nf \in [CPUs -> Contexts]
  BY <1>1 DEF Init
<1>3. /\ packet_calendar \in Calendars
      /\ \A s \in Slots : Len(packet_calendar[s]) = 0
  BY DEF Init, Calendars
<1>4. \A s \in Slots : \A p : ~InSlot(packet_calendar, s, p)
  BY <1>3 DEF InSlot
<1>5. TypeInv
  BY <1>2, <1>3, EmulatorAssumption DEF TypeInv, Init, Fates, EmulatorAssumption
<1>6. OnceOnly(packet_calendar)
  BY <1>3 DEF OnceOnly
<1>7. \A p \in Pkts : where[p] = "new" /\ pathpos[p] = 0
  BY DEF Init
<1>8. OwnerInv
  BY <1>1, <1>2, <1>4, <1>6, <1>7 DEF OwnerInv, On, CalendarLive, HeldIsKnown,
       SoleHolder, OutsideFresh, NoneForgotten, NewAtStart
<1>9. QED
  BY <1>5, <1>8, RingInit DEF EmuInv

\* Every step keeps the invariant.
LEMMA EmuStep == EmuInv /\ [Next]_vars => EmuInv'
<1> SUFFICES ASSUME EmuInv, [Next]_vars PROVE EmuInv'
  OBVIOUS
<1>1. CASE UNCHANGED vars
  BY <1>1 DEF vars, EmuInv, TypeInv, RingInv, RingLawful, OwnerInv, OnceOnly, CalendarLive,
       HeldIsKnown, SoleHolder, OutsideFresh, NoneForgotten, NewAtStart
<1>2. CASE \E c \in CPUs, p \in Pkts : filter_ipinput_accept(c, p) \/ filter_ipinput_steal(c, p)
  BY <1>2, ArrivalKeeps
<1>3. CASE \E c \in CPUs : NetfilterStep(c)
  BY <1>3, NetfilterKeeps
<1>4. CASE jiffy \/ hopclock_start \/ hopclock_advance \/ hopclock_end
  BY <1>4, ClockKeeps
<1>5. CASE hopclock_packet
  BY <1>5, HopclockKeeps
<1>6. QED
  BY <1>1, <1>2, <1>3, <1>4, <1>5 DEF Next, HopclockStep

\* Whatever the kernel: the rings are lawful although contexts enter them with a tick
\* they read before they had the hop's lock, and a packet has one place.
THEOREM EmulatorInvariant == Spec => []EmuInv
<1>1. QED
  BY EmuInit, EmuStep, PTL DEF Spec

\* hopclock never overtakes jiffies, and every variable keeps its type.
THEOREM TypeCorrect == Spec => []TypeOK
<1>1. EmuInv => TypeOK
  <2> SUFFICES ASSUME EmuInv PROVE TypeOK
    OBVIOUS
  <2>1. TypeInv
    BY DEF EmuInv
  <2>2. \A c \in CPUs : nf[c].pc \in {"idle", "tick", "hop", "insert", "load", "store"}
    BY <2>1, ContextOf
  <2>3. QED
    BY <2>1, <2>2 DEF TypeInv, TypeOK, Calendars
<1>2. QED
  BY <1>1, EmulatorInvariant, PTL

\* HopsLawful for the hops with a bandwidth limit: indices in range, at most qsize
\* packets, exits in order and no more than a charge apart, the head due within a charge,
\* free slots clear, and bytedepth the sum of the lengths in the ring.
RingsLawful ==
    \A h \in Hops : Link[h].KBps # 0 =>
        RingLawful(h) /\ hop[h].bytedepth = QueuedBytes(hop[h], Link[h])

\* The ring of every hop with a bandwidth limit stays lawful under any interleaving of
\* hopclock and the netfilter contexts (emulate_hop, under hop->lock).
THEOREM HopRings == Spec => []RingsLawful
<1>1. EmuInv => RingsLawful
  BY DEF EmuInv, RingInv, RingsLawful, BytesExact
<1>2. QED
  BY <1>1, EmulatorInvariant, PTL

\* So where every hop has a bandwidth limit every ring is lawful and every bytedepth exact.
THEOREM AllHopsLawful ==
    ASSUME \A h \in Hops : Link[h].KBps # 0 PROVE Spec => []HopsLawful
<1>1. RingsLawful => HopsLawful
  BY DEF RingsLawful, HopsLawful
<1>2. QED
  BY <1>1, HopRings, PTL

\* struct packet has one owner, the calendar or the context that has not inserted it,
\* and none when it is gone: nothing is freed while another still has it.
THEOREM PacketHasOneOwner == Spec => []OneOwner
<1>1. EmuInv => OneOwner
  <2> SUFFICES ASSUME EmuInv, NEW p \in Pkts
               PROVE  LET owners == Places(p) \cup Owners(p)
                      IN  IF where[p] = "emulated" THEN \E o \in owners : owners = {o}
                          ELSE owners = {}
    BY DEF OneOwner
  <2>1. TypeInv /\ OwnerInv /\ packet_calendar \in Calendars
    BY DEF EmuInv, TypeInv
  <2>2. Owners(p) = {c \in CPUs : nf[c].pc \in Outside /\ nf[c].pkt = p}
    <3>1. Idle.pc = "idle"
      BY DEF Idle
    <3>2. QED
      BY <3>1 DEF Owners, Holds, Outside
  <2>3. \A s \in Slots : DOMAIN packet_calendar[s] = 1..Len(packet_calendar[s])
    BY <2>1 DEF Calendars
  <2>4. ASSUME NEW o
        PROVE  o \in Places(p) <=> \E s \in Slots : \E i \in 1..Len(packet_calendar[s]) :
                                      o = <<s, i>> /\ packet_calendar[s][i] = p
    <3>1. o \in Places(p) <=> \E s \in Slots : o \in {s} \X {i \in DOMAIN packet_calendar[s] : packet_calendar[s][i] = p}
      BY DEF Places
    <3>2. ASSUME NEW s \in Slots
          PROVE  o \in {s} \X {i \in DOMAIN packet_calendar[s] : packet_calendar[s][i] = p}
                 <=> \E i \in 1..Len(packet_calendar[s]) : o = <<s, i>> /\ packet_calendar[s][i] = p
      BY <2>3
    <3>3. QED
      BY <3>1, <3>2
  <2>5. CASE On(packet_calendar, p)
    <3>0. PICK s \in Slots : InSlot(packet_calendar, s, p)
      BY <2>5 DEF On
    <3>1. PICK i \in 1..Len(packet_calendar[s]) : packet_calendar[s][i] = p
      BY <3>0 DEF InSlot
    <3>2. Owners(p) = {}
      BY <2>1, <2>2, <2>5 DEF OwnerInv, OutsideFresh
    <3>3. \A t \in Slots : \A j \in 1..Len(packet_calendar[t]) :
             packet_calendar[t][j] = p => t = s /\ j = i
      BY <2>1, <3>1 DEF OwnerInv, OnceOnly
    <3>4. Places(p) = {<<s, i>>}
      BY <2>4, <3>1, <3>3
    <3>5. where[p] = "emulated"
      BY <2>1, <2>5 DEF OwnerInv, CalendarLive
    <3>6. QED
      BY <3>2, <3>4, <3>5
  <2>6. CASE ~On(packet_calendar, p)
    <3>1. Places(p) = {}
      BY <2>4, <2>6 DEF On, InSlot
    <3>2. CASE where[p] = "emulated"
      <4>1. PICK c \in CPUs : nf[c].pc \in Outside /\ nf[c].pkt = p
        BY <2>1, <2>6, <3>2 DEF OwnerInv, NoneForgotten
      <4>2. \A d \in CPUs : nf[d].pc \in Outside /\ nf[d].pkt = p => d = c
        BY <2>1, <4>1 DEF OwnerInv, SoleHolder, Outside
      <4>3. Owners(p) = {c}
        BY <2>2, <4>1, <4>2
      <4>4. QED
        BY <3>1, <3>2, <4>3
    <3>3. CASE where[p] # "emulated"
      <4>1. Owners(p) = {}
        BY <2>1, <2>2, <3>3 DEF OwnerInv, OutsideFresh
      <4>2. QED
        BY <3>1, <3>3, <4>1
    <3>4. QED
      BY <3>2, <3>3
  <2>7. QED
    BY <2>5, <2>6
<1>2. QED
  BY <1>1, EmulatorInvariant, PTL
-----------------------------------------------------------------------------
(* The uniprocessor kernel.                                                  *)

\* A context that runs has the processor to itself.
LEMMA RunsAlone ==
    ASSUME Uniprocessor = TRUE, TypeInv, NEW c \in CPUs, MayRun(c)
    PROVE  calendar_lock = "free" /\ \A d \in CPUs \ {c} : nf[d].pc = "idle"
BY ContextOf DEF MayRun

\* What a packet has crossed is as long as its path pointer says after one more hop.
LEMMA CrossesNext ==
    ASSUME TypeInv, NEW p \in Pkts, NEW n \in Nat, HasCrossed(p, n),
           Path[p] \in Seq(Hops), n < Len(Path[p]),
           crossed' = [crossed EXCEPT ![p] = Append(@, Path[p][n + 1])]
    PROVE  HasCrossed(p, n + 1)'
<1> DEFINE e == Path[p][n + 1]
           new == Append(crossed[p], e)
<1>1. crossed \in [Pkts -> Seq(Hops)] /\ crossed[p] \in Seq(Hops) /\ Len(Path[p]) \in Nat
  BY DEF TypeInv
<1>2. crossed'[p] = new
  BY <1>1
<1>3. n + 1 \in 1..Len(Path[p]) /\ e \in Hops /\ Len(crossed[p]) = n
  BY <1>1 DEF HasCrossed
<1>4. Len(new) = n + 1 /\ new[n + 1] = e /\ \A i \in 1..n : new[i] = crossed[p][i]
  BY <1>1, <1>3
<1>5. \A i \in 1..n : crossed[p][i] = Path[p][i]
  BY DEF HasCrossed
<1> HIDE DEF new
<1>6. \A i \in 1..(n + 1) : new[i] = Path[p][i]
  <2> TAKE i \in 1..(n + 1)
  <2>1. i \in 1..n \/ i = n + 1
    OBVIOUS
  <2>2. QED
    BY <1>4, <1>5, <2>1
<1>7. QED
  BY <1>2, <1>3, <1>4, <1>6 DEF HasCrossed

\* A packet arrives on a processor where nothing else runs.
LEMMA ArrivalPath ==
    ASSUME Uniprocessor = TRUE, EmuInv, UpInv, NEW c \in CPUs, NEW p \in Pkts,
           filter_ipinput_accept(c, p) \/ filter_ipinput_steal(c, p)
    PROVE  UpInv'
<1>1. /\ TypeInv /\ OwnerInv /\ MayRun(c) /\ nf[c] = Idle /\ where[p] = "new" /\ pathpos[p] = 0
      /\ UNCHANGED <<calendar_tick, packet_calendar, calendar_lock, crossed>>
  BY DEF EmuInv, filter_ipinput_accept, filter_ipinput_steal, Arriving, OwnerInv, NewAtStart
<1>2. /\ calendar_lock = "free" /\ \A d \in CPUs : nf[d].pc = "idle"
      /\ ~On(packet_calendar, p) /\ HasCrossed(p, 0)
  BY <1>1, RunsAlone, ContextOf DEF OwnerInv, CalendarLive, UpInv, PathInv, PacketPath
<1>3. \A q \in Pkts, n \in Nat : HasCrossed(q, n) => HasCrossed(q, n)'
  BY <1>1 DEF HasCrossed
<1>4. \A q \in Pkts : ~Held(q)
  BY <1>2 DEF Held
<1>5. ASSUME NEW x \in {"passed", "forwarded", "dropped", "emulated"},
             where' = [where EXCEPT ![p] = x],
             x \in {"forwarded", "dropped"} => Path[p] \in Seq(Hops),
             x = "forwarded" => Len(Path[p]) = 0,
             pathpos' = pathpos \/ pathpos' = [pathpos EXCEPT ![p] = @ + 1]
      PROVE  \A q \in Pkts : PacketPath(q)'
  <2>1. where'[p] = x /\ \A q \in Pkts \ {p} : where'[q] = where[q]
    BY <1>1, <1>5 DEF TypeInv
  <2>2. \A q \in Pkts \ {p} : pathpos'[q] = pathpos[q]
    BY <1>1, <1>5 DEF TypeInv
  <2>3. HasCrossed(p, 0)'
    BY <1>2, <1>3
  <2>4. PacketPath(p)'
    BY <1>1, <1>2, <1>5, <2>1, <2>3 DEF PacketPath
  <2>5. ASSUME NEW q \in Pkts \ {p} PROVE PacketPath(q)'
    BY <1>1, <1>4, <2>1, <2>2 DEF UpInv, PathInv, PacketPath, HasCrossed
  <2>6. QED
    BY <2>4, <2>5
<1>6. CASE \E x \in {"passed", "forwarded", "dropped"} :
             /\ where' = [where EXCEPT ![p] = x] /\ nf' = nf
             /\ x \in {"forwarded", "dropped"} => Path[p] \in Seq(Hops)
             /\ x = "forwarded" => Len(Path[p]) = 0
             /\ pathpos' = pathpos \/ pathpos' = [pathpos EXCEPT ![p] = @ + 1]
  <2>1. \A q \in Pkts : PacketPath(q)'
    BY <1>5, <1>6
  <2>2. ExclusionInv' /\ ContextPath'
    BY <1>1, <1>2, <1>6 DEF ExclusionInv, ContextPath
  <2>3. QED
    BY <2>1, <2>2 DEF UpInv, PathInv
<1>7. CASE /\ where' = [where EXCEPT ![p] = "emulated"] /\ pathpos' = pathpos
           /\ nf' = [nf EXCEPT ![c] = [pc |-> "tick", pkt |-> p]]
  <2> DEFINE x == [pc |-> "tick", pkt |-> p]
  <2>1. \A q \in Pkts : PacketPath(q)'
    BY <1>5, <1>7
  <2>2. nf'[c] = x /\ \A d \in CPUs \ {c} : nf'[d] = nf[d]
    BY <1>1, <1>7, ContextMoves
  <2>3. x.pc = "tick" /\ x.pkt = p
    OBVIOUS
  <2> HIDE DEF x
  <2>4. ExclusionInv'
    BY <1>1, <1>2, <2>2, <2>3 DEF ExclusionInv
  <2>5. HasCrossed(p, 0)'
    BY <1>2, <1>3
  <2>6. ContextPath'
    BY <1>2, <2>2, <2>3, <2>5 DEF ContextPath
  <2>7. QED
    BY <2>1, <2>4, <2>6 DEF UpInv, PathInv
<1>8. Path[p] # NoPath => Path[p] \in Seq(Hops)
  BY EmulatorAssumption DEF EmulatorAssumption
<1>9. QED
  BY <1>1, <1>6, <1>7, <1>8 DEF filter_ipinput_accept, filter_ipinput_steal, AtEnd

\* The packets a context does not have, when it moves on and their fate does not change.
LEMMA OthersKeepPath ==
    ASSUME UpInv, NEW p \in Pkts, \A q \in Pkts : Held(q) => q = p,
           \A q \in Pkts \ {p} :
               /\ crossed'[q] = crossed[q] /\ where'[q] = where[q] /\ pathpos'[q] = pathpos[q]
               /\ On(packet_calendar', q) <=> On(packet_calendar, q)
    PROVE  \A q \in Pkts \ {p} : PacketPath(q)'
<1> TAKE q \in Pkts \ {p}
<1>1. \A n \in Nat : HasCrossed(q, n)' <=> HasCrossed(q, n)
  BY DEF HasCrossed
<1>2. ~Held(q)
  OBVIOUS
<1>3. HasCrossed(q, pathpos[q])' <=> HasCrossed(q, pathpos[q])
  BY DEF HasCrossed
<1>4. HasCrossed(q, Len(Path[q]))' <=> HasCrossed(q, Len(Path[q]))
  BY DEF HasCrossed
<1>5. QED
  BY <1>1, <1>2, <1>3, <1>4 DEF UpInv, PathInv, PacketPath

\* The context that runs, when it moves on.
LEMMA AloneKeeps ==
    ASSUME Uniprocessor = TRUE, TypeInv, NEW c \in CPUs, MayRun(c), NEW x,
           nf' = [nf EXCEPT ![c] = x], calendar_lock' = calendar_lock,
           x.pc \in {"tick", "hop"} => HasCrossed(x.pkt, 0)',
           x.pc \in {"insert", "load", "store"} =>
               HasCrossed(x.pkt, 1)' /\ pathpos'[x.pkt] = 0 /\ Path[x.pkt] \in Seq(Hops),
           x.pc = "store" => x.path = 0,
           x.pc \in {"load", "store"} => On(packet_calendar', x.pkt)
    PROVE  ExclusionInv' /\ ContextPath'
<1>1. calendar_lock = "free" /\ \A d \in CPUs \ {c} : nf[d].pc = "idle"
  BY RunsAlone
<1>2. nf'[c] = x /\ \A d \in CPUs \ {c} : nf'[d] = nf[d]
  BY ContextMoves
<1>3. ExclusionInv'
  BY <1>1, <1>2 DEF ExclusionInv
<1>4. ContextPath'
  BY <1>1, <1>2 DEF ContextPath
<1>5. QED
  BY <1>3, <1>4

\* The steps of the context that has the processor.
LEMMA NetfilterPath ==
    ASSUME Uniprocessor = TRUE, EmuInv, UpInv, NEW c \in CPUs, NetfilterStep(c)
    PROVE  UpInv'
<1>0. TypeInv /\ OwnerInv /\ ContextPath
  BY DEF EmuInv, UpInv, PathInv
<1>a. nf[c].pkt \in Pkts /\ nf[c].pc # "idle" /\ MayRun(c)
  BY <1>0, ContextOf
     DEF NetfilterStep, nf_read_tick, nf_hop, nf_insert, nf_load_path, nf_store_path
<1>b. PICK p \in Pkts : p = nf[c].pkt
  BY <1>a
<1>1. p \in Pkts /\ nf[c].pc # "idle" /\ MayRun(c)
  BY <1>a
<1>2. calendar_lock = "free" /\ \A d \in CPUs \ {c} : nf[d].pc = "idle"
  BY <1>0, <1>1, RunsAlone
<1>3. \A q \in Pkts : Held(q) => q = p
  BY <1>b, <1>2 DEF Held
<1>4. /\ nf[c].pc \in {"tick", "hop"} => HasCrossed(p, 0)
      /\ nf[c].pc \in {"insert", "load", "store"} =>
           HasCrossed(p, 1) /\ pathpos[p] = 0 /\ Path[p] \in Seq(Hops)
      /\ nf[c].pc = "store" => nf[c].path = 0
      /\ nf[c].pc \in {"load", "store"} => On(packet_calendar, p)
  BY <1>0, <1>b DEF ContextPath
<1>5. nf[c].pc \in Outside => where[p] = "emulated" /\ ~On(packet_calendar, p)
                              /\ Path[p] \in Seq(Hops) /\ pathpos[p] = 0 /\ Len(Path[p]) > 0
  BY <1>0, <1>b DEF OwnerInv, OutsideFresh
<1>6. PacketPath(p)
  BY <1>1 DEF UpInv, PathInv
<1>7. ASSUME NEW x, nf' = [nf EXCEPT ![c] = x], x.pc # "idle", x.pkt = p PROVE Held(p)'
  <2>1. nf'[c] = x
    BY <1>0, <1>7, ContextMoves
  <2>2. QED
    BY <1>7, <2>1 DEF Held
<1>8. ASSUME crossed' = crossed, NEW n \in Nat PROVE HasCrossed(p, n)' <=> HasCrossed(p, n)
  BY <1>8 DEF HasCrossed
<1>9. ASSUME where' = where, crossed' = crossed, Held(p)' PROVE PacketPath(p)'
  <2>1. /\ HasCrossed(p, 0)' <=> HasCrossed(p, 0)
        /\ HasCrossed(p, Len(Path[p]))' <=> HasCrossed(p, Len(Path[p]))
        /\ \A n \in Nat : HasCrossed(p, n)' <=> HasCrossed(p, n)
    BY <1>9 DEF HasCrossed
  <2>2. QED
    BY <1>6, <1>9, <2>1 DEF PacketPath
<1>10. ASSUME nf_read_tick(c) PROVE UpInv'
  <2> DEFINE x == [pc |-> "hop", pkt |-> p, curtick |-> calendar_tick]
  <2>1. x.pc = "hop" /\ x.pkt = p
    OBVIOUS
  <2>2. nf[c].pc = "tick" /\ nf' = [nf EXCEPT ![c] = x]
        /\ UNCHANGED <<packet_calendar, calendar_lock, where, pathpos, crossed>>
    BY <1>b, <1>10 DEF nf_read_tick
  <2> HIDE DEF x
  <2>3. ExclusionInv' /\ ContextPath'
    BY <1>0, <1>1, <1>4, <1>8, <2>1, <2>2, AloneKeeps
  <2>4. PacketPath(p)'
    BY <1>7, <1>9, <2>1, <2>2
  <2>5. \A q \in Pkts \ {p} : PacketPath(q)'
    BY <1>1, <1>3, <2>2, OthersKeepPath
  <2>6. QED
    BY <2>3, <2>4, <2>5 DEF UpInv, PathInv
<1>11. ASSUME nf_hop(c) PROVE UpInv'
  <2> DEFINE h == CurHop(p)
  <2>1. nf[c].pc = "hop" /\ nf[c].pc \in Outside
    BY <1>11 DEF nf_hop, Outside
  <2>2. UNCHANGED <<calendar_tick, packet_calendar, calendar_lock>>
    BY <1>11 DEF nf_hop
  <2>3. h = Path[p][1] /\ h \in Hops
    BY <1>b, <1>11, NfHopResult
  <2>4. PICK r :
          /\ Lawful(r, h, nf[c].curtick)
          /\ r.dropped => /\ nf' = [nf EXCEPT ![c] = Idle]
                          /\ where' = [where EXCEPT ![p] = "dropped"]
                          /\ pathpos' = [pathpos EXCEPT ![p] = @ + 1]
                          /\ UNCHANGED <<due, crossed>>
          /\ ~r.dropped => /\ nf' = [nf EXCEPT ![c] = [pc |-> "insert", pkt |-> p]]
                           /\ due' = [due EXCEPT ![p] = r.exit]
                           /\ crossed' = [crossed EXCEPT ![p] = Append(@, h)]
                           /\ UNCHANGED <<where, pathpos>>
    BY <1>b, <1>11, NfHopResult
  <2>5. r.dropped \in BOOLEAN
    BY <2>4 DEF Lawful
  <2>6. CASE r.dropped
    <3>1. /\ nf' = [nf EXCEPT ![c] = Idle] /\ where' = [where EXCEPT ![p] = "dropped"]
          /\ pathpos' = [pathpos EXCEPT ![p] = @ + 1] /\ crossed' = crossed
      BY <2>4, <2>6
    <3>2. Idle.pc = "idle"
      BY DEF Idle
    <3>3. ExclusionInv' /\ ContextPath'
      BY <1>0, <1>1, <2>2, <3>1, <3>2, AloneKeeps
    <3>4. where'[p] = "dropped" /\ \A q \in Pkts \ {p} : where'[q] = where[q] /\ pathpos'[q] = pathpos[q]
      BY <1>0, <1>1, <3>1 DEF TypeInv
    <3>5. HasCrossed(p, 0)'
      BY <1>4, <1>8, <2>1, <3>1
    <3>6. PacketPath(p)'
      BY <1>5, <2>1, <2>2, <3>4, <3>5 DEF PacketPath
    <3>7. \A q \in Pkts \ {p} : PacketPath(q)'
      BY <1>1, <1>3, <2>2, <3>1, <3>4, OthersKeepPath
    <3>8. QED
      BY <3>3, <3>6, <3>7 DEF UpInv, PathInv
  <2>7. CASE ~r.dropped
    <3> DEFINE x == [pc |-> "insert", pkt |-> p]
    <3>1. /\ nf' = [nf EXCEPT ![c] = x] /\ UNCHANGED <<where, pathpos>>
          /\ crossed' = [crossed EXCEPT ![p] = Append(@, Path[p][1])]
      BY <2>3, <2>4, <2>7
    <3>2. x.pc = "insert" /\ x.pkt = p
      OBVIOUS
    <3> HIDE DEF x
    <3>3. HasCrossed(p, 0) /\ 0 < Len(Path[p]) /\ Path[p] \in Seq(Hops) /\ pathpos[p] = 0
          /\ where[p] = "emulated"
      BY <1>4, <1>5, <2>1
    <3>4. HasCrossed(p, 1)'
      <4>1. PICK n \in Nat : n = 0
        OBVIOUS
      <4>2. n + 1 = 1
        BY <4>1
      <4>3. /\ crossed' = [crossed EXCEPT ![p] = Append(@, Path[p][n + 1])]
            /\ HasCrossed(p, n) /\ n < Len(Path[p])
        BY <3>1, <3>3, <4>1, <4>2
      <4>4. HasCrossed(p, n + 1)'
        BY <1>0, <1>1, <3>3, <4>3, CrossesNext
      <4>5. QED
        BY <4>2, <4>4
    <3>5. ExclusionInv' /\ ContextPath'
      BY <1>0, <1>1, <2>2, <3>1, <3>2, <3>3, <3>4, AloneKeeps
    <3>6. Held(p)'
      BY <1>7, <3>1, <3>2
    <3>7. PacketPath(p)'
      BY <3>1, <3>3, <3>6 DEF PacketPath
    <3>8. \A q \in Pkts \ {p} : crossed'[q] = crossed[q]
      BY <1>0, <3>1 DEF TypeInv
    <3>9. \A q \in Pkts \ {p} : PacketPath(q)'
      BY <1>1, <1>3, <2>2, <3>1, <3>8, OthersKeepPath
    <3>10. QED
      BY <3>5, <3>7, <3>9 DEF UpInv, PathInv
  <2>8. QED
    BY <2>5, <2>6, <2>7
<1>12. ASSUME nf_insert(c) PROVE UpInv'
  <2> DEFINE x == [pc |-> "load", pkt |-> p]
  <2>1. x.pc = "load" /\ x.pkt = p
    OBVIOUS
  <2>2. nf[c].pc = "insert" /\ nf[c].pc \in Outside /\ nf' = [nf EXCEPT ![c] = x]
        /\ packet_calendar' = Calendared(packet_calendar, p, due[p])
        /\ UNCHANGED <<calendar_lock, where, pathpos, crossed>>
    BY <1>b, <1>12 DEF nf_insert, Outside
  <2> HIDE DEF x
  <2>3. \A q \in Pkts : On(packet_calendar', q) <=> On(packet_calendar, q) \/ q = p
    <3>1. OnceOnly(packet_calendar) /\ packet_calendar \in Calendars /\ due[p] \in Nat
      BY <1>0, <1>1 DEF OwnerInv, TypeInv
    <3>2. QED
      BY <1>1, <1>5, <2>2, <3>1, CalendarInsert
  <2>4. HasCrossed(p, 1)' /\ pathpos'[p] = 0 /\ Path[p] \in Seq(Hops)
    BY <1>4, <1>8, <2>2
  <2>5. ExclusionInv' /\ ContextPath'
    BY <1>0, <1>1, <2>1, <2>2, <2>3, <2>4, AloneKeeps
  <2>6. PacketPath(p)'
    BY <1>7, <1>9, <2>1, <2>2
  <2>7. \A q \in Pkts \ {p} : PacketPath(q)'
    BY <1>1, <1>3, <2>2, <2>3, OthersKeepPath
  <2>8. QED
    BY <2>5, <2>6, <2>7 DEF UpInv, PathInv
<1>13. ASSUME nf_load_path(c) PROVE UpInv'
  <2> DEFINE x == [pc |-> "store", pkt |-> p, path |-> pathpos[p]]
  <2>1. x.pc = "store" /\ x.pkt = p /\ x.path = pathpos[p]
    OBVIOUS
  <2>2. nf[c].pc = "load" /\ nf' = [nf EXCEPT ![c] = x]
        /\ UNCHANGED <<packet_calendar, calendar_lock, where, pathpos, crossed>>
    BY <1>b, <1>13 DEF nf_load_path
  <2> HIDE DEF x
  <2>3. HasCrossed(p, 1)' /\ pathpos[p] = 0 /\ Path[p] \in Seq(Hops) /\ On(packet_calendar, p)
    BY <1>4, <1>8, <2>2
  <2>4. ExclusionInv' /\ ContextPath'
    BY <1>0, <1>1, <2>1, <2>2, <2>3, AloneKeeps
  <2>5. PacketPath(p)'
    BY <1>7, <1>9, <2>1, <2>2
  <2>6. \A q \in Pkts \ {p} : PacketPath(q)'
    BY <1>1, <1>3, <2>2, OthersKeepPath
  <2>7. QED
    BY <2>4, <2>5, <2>6 DEF UpInv, PathInv
<1>14. ASSUME nf_store_path(c) PROVE UpInv'
  <2>1. nf[c].pc = "store" /\ nf' = [nf EXCEPT ![c] = Idle] /\ Idle.pc = "idle"
        /\ pathpos' = [pathpos EXCEPT ![p] = nf[c].path + 1]
        /\ UNCHANGED <<packet_calendar, calendar_lock, where, crossed>>
    BY <1>b, <1>14 DEF nf_store_path, Idle
  <2>2. pathpos'[p] = 1 /\ \A q \in Pkts \ {p} : pathpos'[q] = pathpos[q]
    BY <1>0, <1>1, <1>4, <2>1 DEF TypeInv
  <2>3. HasCrossed(p, 1)' /\ 1 <= Len(Path[p])
    BY <1>4, <1>8, <2>1 DEF HasCrossed
  <2>4. ExclusionInv' /\ ContextPath'
    BY <1>0, <1>1, <2>1, AloneKeeps
  <2>5. PacketPath(p)'
    <3>1. where[p] = "emulated"
      BY <1>0, <1>1, <1>4, <2>1 DEF OwnerInv, CalendarLive
    <3>2. QED
      BY <2>1, <2>2, <2>3, <3>1 DEF PacketPath
  <2>6. \A q \in Pkts \ {p} : PacketPath(q)'
    BY <1>1, <1>3, <2>1, <2>2, OthersKeepPath
  <2>7. QED
    BY <2>4, <2>5, <2>6 DEF UpInv, PathInv
<1>15. QED
  BY <1>10, <1>11, <1>12, <1>13, <1>14 DEF NetfilterStep

\* hopclock takes a packet while no context runs: its pointer agrees with what it crossed.
LEMMA HopclockPath ==
    ASSUME EmuInv, UpInv, hopclock_packet
    PROVE  UpInv'
<1>0. TypeInv /\ OwnerInv
  BY DEF EmuInv
<1>1. /\ calendar_lock = "hopclock" /\ packet_calendar[NowSlot] # << >>
      /\ UNCHANGED <<calendar_tick, calendar_lock, nf>>
  BY HopclockResult
<1>2. PICK p \in Pkts : p = First
  BY <1>0, <1>1, TakenFirst
<1>3. /\ On(packet_calendar, p) /\ where[p] = "emulated"
      /\ Path[p] \in Seq(Hops) /\ Len(Path[p]) \in Nat
      /\ Rest \in Calendars /\ OnceOnly(Rest)
      /\ \A q \in Pkts : On(Rest, q) <=> On(packet_calendar, q) /\ q # p
  BY <1>0, <1>1, <1>2, TakenFirst
<1>4. \A c \in CPUs : nf[c].pc = "idle" /\ nf'[c].pc = "idle"
  BY <1>1 DEF UpInv, ExclusionInv
<1>5. ExclusionInv' /\ ContextPath'
  BY <1>4 DEF ExclusionInv, ContextPath
<1>6. \A q \in Pkts : ~Held(q)
  BY <1>4 DEF Held
<1>7. PICK n \in Nat : n = pathpos[p]
  BY <1>0 DEF TypeInv
<1>8. HasCrossed(p, n) /\ n <= Len(Path[p])
  BY <1>3, <1>6, <1>7 DEF UpInv, PathInv, PacketPath
<1>9. ASSUME pathpos' = pathpos \/ pathpos' = [pathpos EXCEPT ![p] = @ + 1]
      PROVE  \A q \in Pkts \ {p} : pathpos'[q] = pathpos[q]
  BY <1>0, <1>9 DEF TypeInv
<1>10. ASSUME NEW fate \in {"forwarded", "dropped"}, Gone(fate),
              fate = "forwarded" => n = Len(Path[p]),
              pathpos' = pathpos \/ pathpos' = [pathpos EXCEPT ![p] = @ + 1]
       PROVE  UpInv'
  <2>1. packet_calendar' = Rest /\ crossed' = crossed /\ where' = [where EXCEPT ![p] = fate]
    BY <1>2, <1>10 DEF Gone
  <2>2. where'[p] = fate /\ \A q \in Pkts \ {p} : where'[q] = where[q]
    BY <1>0, <2>1 DEF TypeInv
  <2>3. \A q \in Pkts \ {p} : PacketPath(q)'
    BY <1>3, <1>6, <1>9, <1>10, <2>1, <2>2, OthersKeepPath
  <2>4. HasCrossed(p, n)'
    BY <1>8, <2>1 DEF HasCrossed
  <2>5. ~On(packet_calendar', p)
    BY <1>3, <2>1
  <2>6. PacketPath(p)'
    BY <1>3, <1>10, <2>2, <2>4, <2>5 DEF PacketPath
  <2>7. QED
    BY <1>5, <2>3, <2>6 DEF UpInv, PathInv
<1>11. ASSUME NEW t \in Nat, n < Len(Path[p]), Rescheduled(CurHop(First), t),
              pathpos' = [pathpos EXCEPT ![p] = @ + 1]
       PROVE  UpInv'
  <2>1. /\ packet_calendar' = Calendared(Rest, p, t) /\ where' = where
        /\ crossed' = [crossed EXCEPT ![p] = Append(@, Path[p][n + 1])]
    BY <1>2, <1>7, <1>11 DEF Rescheduled, CurHop
  <2>2. ~On(Rest, p)
    BY <1>3
  <2>3. \A q \in Pkts : On(packet_calendar', q) <=> On(Rest, q) \/ q = p
    BY <1>3, <2>1, <2>2, CalendarInsert
  <2>4. \A q \in Pkts \ {p} : crossed'[q] = crossed[q]
    BY <1>0, <2>1 DEF TypeInv
  <2>5. \A q \in Pkts \ {p} : PacketPath(q)'
    BY <1>3, <1>6, <1>9, <1>11, <2>1, <2>3, <2>4, OthersKeepPath
  <2>6. HasCrossed(p, n + 1)'
    BY <1>0, <1>3, <1>8, <1>11, <2>1, CrossesNext
  <2>7. pathpos'[p] = n + 1 /\ n + 1 <= Len(Path[p])
    BY <1>0, <1>3, <1>7, <1>11 DEF TypeInv
  <2>8. PacketPath(p)'
    BY <1>3, <2>1, <2>6, <2>7 DEF PacketPath
  <2>9. QED
    BY <1>5, <2>5, <2>8 DEF UpInv, PathInv
<1>12. CASE AtEnd(First) /\ Gone("forwarded") /\ UNCHANGED <<hop, pathpos>>
  BY <1>2, <1>7, <1>10, <1>12 DEF AtEnd
<1>13. CASE pathpos[First] > Len(Path[First])
  BY <1>2, <1>3, <1>7, <1>8, <1>13
<1>14. CASE /\ Gone("dropped") /\ pathpos' = [pathpos EXCEPT ![First] = @ + 1]
  BY <1>2, <1>10, <1>14
<1>15. CASE \E r : /\ Meets(First, r)
                   /\ pathpos' = [pathpos EXCEPT ![First] = @ + 1]
                   /\ ~r.dropped /\ Rescheduled(CurHop(First), r.exit)
  <2>1. PICK r : /\ Meets(First, r)
                 /\ pathpos' = [pathpos EXCEPT ![First] = @ + 1]
                 /\ ~r.dropped /\ Rescheduled(CurHop(First), r.exit)
    BY <1>15
  <2>2. r.exit \in Nat /\ n < Len(Path[p])
    BY <1>2, <1>7, <2>1 DEF Meets, Lawful
  <2>3. QED
    BY <1>2, <1>11, <2>1, <2>2
<1>16. QED
  BY <1>12, <1>13, <1>14, <1>15, HopclockResult

\* Every step of a uniprocessor kernel keeps both invariants.
LEMMA UpStep == Uniprocessor = TRUE /\ EmuInv /\ UpInv /\ [Next]_vars => UpInv'
<1> SUFFICES ASSUME Uniprocessor = TRUE, EmuInv, UpInv, [Next]_vars PROVE UpInv'
  OBVIOUS
<1>1. TypeInv
  BY DEF EmuInv
<1>2. ASSUME UNCHANGED <<packet_calendar, nf, where, pathpos, crossed>>,
             calendar_lock' = "hopclock" => \A c \in CPUs : nf[c].pc = "idle"
      PROVE  UpInv'
  <2>1. ExclusionInv'
    BY <1>2 DEF UpInv, ExclusionInv
  <2>2. ContextPath'
    BY <1>2 DEF UpInv, PathInv, ContextPath, HasCrossed
  <2>3. \A p \in Pkts : PacketPath(p)'
    BY <1>2 DEF UpInv, PathInv, PacketPath, HasCrossed, Held
  <2>4. QED
    BY <2>1, <2>2, <2>3 DEF UpInv, PathInv
<1>3. CASE UNCHANGED vars \/ jiffy \/ hopclock_advance \/ hopclock_end
  BY <1>2, <1>3 DEF vars, jiffy, hopclock_advance, hopclock_end, UpInv, ExclusionInv
<1>4. CASE hopclock_start
  BY <1>1, <1>2, <1>4, ContextOf DEF hopclock_start
<1>5. CASE \E c \in CPUs, p \in Pkts : filter_ipinput_accept(c, p) \/ filter_ipinput_steal(c, p)
  BY <1>5, ArrivalPath
<1>6. CASE \E c \in CPUs : NetfilterStep(c)
  BY <1>6, NetfilterPath
<1>7. CASE hopclock_packet
  BY <1>7, HopclockPath
<1>8. QED
  BY <1>3, <1>4, <1>5, <1>6, <1>7 DEF Next, HopclockStep

\* On a uniprocessor kernel the contexts exclude each other and every packet's path
\* pointer agrees with the hops it has crossed.
THEOREM UniprocessorInvariant == ASSUME Uniprocessor = TRUE PROVE Spec => [](EmuInv /\ UpInv)
<1>1. Init => UpInv
  <2> SUFFICES ASSUME Init PROVE UpInv
    OBVIOUS
  <2>1. Idle.pc = "idle"
    BY DEF Idle
  <2>2. /\ \A c \in CPUs : nf[c].pc = "idle"
        /\ calendar_lock = "free"
        /\ \A p \in Pkts : where[p] = "new" /\ crossed[p] = << >>
        /\ \A s \in Slots : packet_calendar[s] = << >>
    BY <2>1 DEF Init
  <2>3. \A p \in Pkts : HasCrossed(p, 0) /\ ~On(packet_calendar, p)
    BY <2>2 DEF HasCrossed, On, InSlot
  <2>4. ExclusionInv /\ ContextPath
    BY <2>2 DEF ExclusionInv, ContextPath
  <2>5. \A p \in Pkts : PacketPath(p)
    BY <2>2, <2>3 DEF PacketPath
  <2>6. QED
    BY <2>4, <2>5 DEF UpInv, PathInv
<1>2. EmuInv /\ UpInv /\ [Next]_vars => (EmuInv /\ UpInv)'
  BY EmuStep, UpStep
<1>3. Init => EmuInv /\ UpInv
  BY <1>1, EmuInit
<1>4. QED
  BY <1>2, <1>3, PTL DEF Spec

\* The comment in emulate_nexthop holds on a uniprocessor kernel: a packet whose path
\* pointer is about to be moved is still on the calendar.
THEOREM StillOnDelayQueue == ASSUME Uniprocessor = TRUE PROVE Spec => []StillQueued
<1>1. EmuInv /\ UpInv => StillQueued
  <2> SUFFICES ASSUME EmuInv, UpInv, NEW c \in CPUs, nf[c].pc \in {"load", "store"}
               PROVE  OnCalendar(nf[c].pkt) # {}
    BY DEF StillQueued
  <2>1. On(packet_calendar, nf[c].pkt)
    BY DEF UpInv, PathInv, ContextPath
  <2>2. PICK s \in Slots : InSlot(packet_calendar, s, nf[c].pkt)
    BY <2>1 DEF On
  <2>3. packet_calendar[s] \in Seq(Pkts)
    BY DEF EmuInv, TypeInv, Calendars
  <2>4. nf[c].pkt \in Range(packet_calendar[s])
    BY <2>2, <2>3 DEF InSlot, Range
  <2>5. QED
    BY <2>4 DEF OnCalendar
<1>2. QED
  BY <1>1, UniprocessorInvariant, PTL

\* On a uniprocessor kernel a packet crosses the hops of its path each once and in
\* order, and is forwarded only after the last.
THEOREM CrossesItsPath == ASSUME Uniprocessor = TRUE PROVE Spec => []CrossesPath
<1>1. EmuInv /\ UpInv => CrossesPath
  <2> SUFFICES ASSUME EmuInv, UpInv, NEW p \in Pkts
               PROVE  /\ crossed[p] # << >> => IsPrefix(crossed[p], Path[p])
                      /\ where[p] = "forwarded" => crossed[p] = Path[p]
    BY DEF CrossesPath
  <2>1. TypeInv /\ OwnerInv /\ ContextPath /\ PacketPath(p)
    BY DEF EmuInv, UpInv, PathInv
  <2>2. crossed[p] \in Seq(Hops) /\ pathpos[p] \in Nat /\ where[p] \in Fates
    BY <2>1 DEF TypeInv
  <2>3. \E n \in Nat : HasCrossed(p, n) /\ (n # 0 => Path[p] \in Seq(Hops))
    <3>1. CASE where[p] \in {"new", "passed", "dropped"}
      BY <2>1, <3>1 DEF PacketPath
    <3>2. CASE where[p] = "forwarded"
      <4>1. HasCrossed(p, Len(Path[p])) /\ Path[p] \in Seq(Hops) /\ Len(Path[p]) \in Nat
        BY <2>1, <3>2 DEF PacketPath
      <4>2. QED
        BY <4>1
    <3>3. CASE where[p] = "emulated" /\ Held(p)
      <4>1. PICK c \in CPUs : nf[c].pc # "idle" /\ nf[c].pkt = p
        BY <3>3 DEF Held
      <4>2. nf[c].pc \in {"tick", "hop", "insert", "load", "store"}
        BY <2>1, <4>1, ContextOf
      <4>3. QED
        BY <2>1, <4>1, <4>2 DEF ContextPath
    <3>4. CASE where[p] = "emulated" /\ ~Held(p)
      <4>1. On(packet_calendar, p)
        BY <2>1, <3>4 DEF OwnerInv, NoneForgotten, Held, Outside
      <4>2. Path[p] \in Seq(Hops)
        BY <2>1, <4>1 DEF OwnerInv, CalendarLive
      <4>3. QED
        BY <2>1, <2>2, <3>4, <4>1, <4>2 DEF PacketPath
    <3>5. where[p] # "wild"
      BY <2>1 DEF PacketPath
    <3>6. QED
      BY <2>2, <3>1, <3>2, <3>3, <3>4, <3>5 DEF Fates
  <2>4. PICK n \in Nat : HasCrossed(p, n) /\ (n # 0 => Path[p] \in Seq(Hops))
    BY <2>3
  <2>5. crossed[p] # << >> => IsPrefix(crossed[p], Path[p])
    <3> SUFFICES ASSUME crossed[p] # << >> PROVE IsPrefix(crossed[p], Path[p])
      OBVIOUS
    <3>1. /\ n # 0 /\ Len(crossed[p]) = n /\ Path[p] \in Seq(Hops) /\ n <= Len(Path[p])
          /\ \A i \in 1..n : crossed[p][i] = Path[p][i]
      BY <2>2, <2>4 DEF HasCrossed
    <3>2. SubSeq(crossed[p], 1, n) = SubSeq(Path[p], 1, n)
      BY <2>2, <3>1
    <3>3. QED
      BY <2>2, <3>1, <3>2 DEF IsPrefix
  <2>6. where[p] = "forwarded" => crossed[p] = Path[p]
    <3> SUFFICES ASSUME where[p] = "forwarded" PROVE crossed[p] = Path[p]
      OBVIOUS
    <3>1. HasCrossed(p, Len(Path[p])) /\ Path[p] \in Seq(Hops)
      BY <2>1 DEF PacketPath
    <3>2. Len(crossed[p]) = Len(Path[p]) /\ \A i \in 1..Len(Path[p]) : crossed[p][i] = Path[p][i]
      BY <3>1 DEF HasCrossed
    <3>3. QED
      BY <2>2, <3>1, <3>2, SeqEqual
  <2>7. QED
    BY <2>5, <2>6
<1>2. QED
  BY <1>1, UniprocessorInvariant, PTL
-----------------------------------------------------------------------------
(* The calendar as a clock: one revolution is longer than any stay on a hop. *)

\* An exit emulate_hop may compute at the current tick is in reach of the calendar.
LEMMA ExitInReach ==
    ASSUME NoOverrun, calendar_tick \in Nat, NEW h \in Hops \ Remote, NEW r,
           Lawful(r, h, calendar_tick), ~r.dropped
    PROVE  r.exit \in Nat /\ InReach(r.exit)
<1>1. Link[h].KBps # 0 /\ Link[h].qsize * MaxCharge + Link[h].delay < SCHEDLEN
  BY DEF NoOverrun
<1>2. Link[h].qsize * MaxCharge \in Nat /\ Link[h].delay \in Nat /\ SCHEDLEN \in Nat
  BY LinkOf, EmulatorAssumption DEF EmulatorAssumption
<1>3. /\ r.exit \in Nat /\ calendar_tick <= r.exit
      /\ r.exit <= calendar_tick + Link[h].qsize * MaxCharge + Link[h].delay
  BY <1>1 DEF Lawful
<1> DEFINE full == Link[h].qsize * MaxCharge
<1>4. full \in Nat /\ full + Link[h].delay < SCHEDLEN
      /\ r.exit <= calendar_tick + full + Link[h].delay
  BY <1>1, <1>2, <1>3
<1> HIDE DEF full
<1>5. r.exit < calendar_tick + SCHEDLEN
  BY <1>2, <1>3, <1>4
<1>6. QED
  BY <1>3, <1>5 DEF InReach

\* Of the ticks in reach only the current one has the current slot.
LEMMA SlotIsTick ==
    ASSUME calendar_tick \in Nat, NEW t \in Nat, InReach(t), t % SCHEDLEN = NowSlot
    PROVE  t = calendar_tick
<1>1. SCHEDLEN \in Nat \ {0}
  BY EmulatorAssumption DEF EmulatorAssumption
<1>2. PICK n \in Nat \ {0} : n = SCHEDLEN
  BY <1>1
<1>3. PICK a \in Nat : a = calendar_tick
  OBVIOUS
<1>4. a <= t /\ t < a + n /\ t % n = a % n
  BY <1>2, <1>3 DEF InReach, NowSlot
<1>5. /\ t = n * (t \div n) + (t % n) /\ a = n * (a \div n) + (a % n)
      /\ t \div n \in Nat /\ a \div n \in Nat
  BY <1>2, <1>3
<1>6. t - a = n * ((t \div n) - (a \div n))
  BY <1>2, <1>3, <1>4, <1>5
<1>7. t - a < n /\ t - a >= 0
  BY <1>2, <1>3, <1>4
<1>8. (t \div n) - (a \div n) \in Int
  BY <1>5
<1> DEFINE k == (t \div n) - (a \div n)
<1> HIDE DEF k
<1>9. k \in Int /\ n * k < n /\ n * k >= 0
  BY <1>6, <1>7, <1>8 DEF k
<1>10. k = 0
  BY <1>2, <1>9
<1>11. QED
  BY <1>2, <1>3, <1>6, <1>10 DEF k


\* The contexts of a uniprocessor when one of them, running alone, moves on.
LEMMA ContextsStayDue ==
    ASSUME Uniprocessor = TRUE, TypeInv, NEW c \in CPUs, MayRun(c), NEW x,
           nf' = [nf EXCEPT ![c] = x],
           x.pc = "hop" => x.curtick = calendar_tick',
           x.pc = "insert" => InReach(due[x.pkt])'
    PROVE  ContextsDue'
<1>1. \A d \in CPUs \ {c} : nf[d].pc = "idle"
  BY RunsAlone
<1>2. nf'[c] = x /\ \A d \in CPUs \ {c} : nf'[d] = nf[d]
  BY ContextMoves
<1>3. QED
  BY <1>1, <1>2 DEF ContextsDue

\* Packets enter the calendar in the slot of a tick in reach.
LEMMA NetfilterDue ==
    ASSUME Uniprocessor = TRUE, NoOverrun, EmuInv, UpInv, DueInv, NEW c \in CPUs, NetfilterStep(c)
    PROVE  DueInv'
<1>0. TypeInv /\ OwnerInv /\ calendar_tick \in Nat /\ due \in [Pkts -> Nat]
  BY DEF EmuInv, TypeInv
<1>1. nf[c].pkt \in Pkts /\ nf[c].pc # "idle" /\ MayRun(c)
  BY <1>0, ContextOf
     DEF NetfilterStep, nf_read_tick, nf_hop, nf_insert, nf_load_path, nf_store_path
<1>2. PICK p \in Pkts : p = nf[c].pkt
  BY <1>1
<1>3. PICK now \in Nat : now = calendar_tick
  BY <1>0
<1>4. ASSUME UNCHANGED <<calendar_tick, packet_calendar, due>> PROVE SlotsDue'
  BY <1>4 DEF DueInv, SlotsDue, InReach
<1>5. ASSUME nf_read_tick(c) PROVE DueInv'
  <2>1. PICK x : x = [pc |-> "hop", pkt |-> p, curtick |-> now]
    OBVIOUS
  <2>2. x.pc = "hop" /\ x.curtick = now
    BY <2>1
  <2>3. nf' = [nf EXCEPT ![c] = x] /\ UNCHANGED <<calendar_tick, packet_calendar, due>>
    BY <1>2, <1>3, <1>5, <2>1 DEF nf_read_tick
  <2>4. ContextsDue'
    BY <1>0, <1>1, <1>3, <2>2, <2>3, ContextsStayDue
  <2>5. QED
    BY <1>4, <2>3, <2>4 DEF DueInv
<1>6. ASSUME nf_hop(c) PROVE DueInv'
  <2>1. nf[c].pc = "hop" /\ nf[c].pc \in Outside /\ UNCHANGED <<calendar_tick, packet_calendar>>
    BY <1>6 DEF nf_hop, Outside
  <2>2. nf[c].curtick = calendar_tick
    BY <2>1 DEF DueInv, ContextsDue
  <2>3. PICK h \in Hops \ Remote : h = CurHop(p)
    BY <1>0, <1>2, <2>1, OutsideHop
  <2>4. PICK r :
          /\ Lawful(r, h, nf[c].curtick)
          /\ r.dropped => /\ nf' = [nf EXCEPT ![c] = Idle]
                          /\ UNCHANGED <<due, crossed>>
          /\ ~r.dropped => /\ nf' = [nf EXCEPT ![c] = [pc |-> "insert", pkt |-> p]]
                           /\ due' = [due EXCEPT ![p] = r.exit]
    BY <1>2, <1>6, <2>3, NfHopResult
  <2>5. r.dropped \in BOOLEAN
    BY <2>4 DEF Lawful
  <2>6. CASE r.dropped
    <3>1. Idle.pc = "idle"
      BY DEF Idle
    <3>2. ContextsDue'
      BY <1>0, <1>1, <2>4, <2>6, <3>1, ContextsStayDue
    <3>3. QED
      BY <1>4, <2>1, <2>4, <2>6, <3>2 DEF DueInv
  <2>7. CASE ~r.dropped
    <3>1. PICK x : x = [pc |-> "insert", pkt |-> p]
      OBVIOUS
    <3>2. x.pc = "insert" /\ x.pkt = p /\ nf' = [nf EXCEPT ![c] = x]
      BY <2>4, <2>7, <3>1
    <3>3. PICK e \in Nat : e = r.exit
      BY <2>4 DEF Lawful
    <3>4. due'[p] = e /\ \A q \in Pkts \ {p} : due'[q] = due[q]
      BY <1>0, <2>4, <2>7, <3>3
    <3>5. InReach(e)
      BY <1>0, <2>2, <2>3, <2>4, <2>7, <3>3, ExitInReach
    <3>6. InReach(due[x.pkt])'
      BY <2>1, <3>2, <3>4, <3>5 DEF InReach
    <3>7. ContextsDue'
      BY <1>0, <1>1, <3>2, <3>6, ContextsStayDue
    <3>8. ~On(packet_calendar, p)
      BY <1>0, <1>2, <2>1 DEF OwnerInv, OutsideFresh
    <3>9. SlotsDue'
      BY <2>1, <3>4, <3>8 DEF DueInv, SlotsDue, InReach, On
    <3>10. QED
      BY <3>7, <3>9 DEF DueInv
  <2>8. QED
    BY <2>5, <2>6, <2>7
<1>7. ASSUME nf_insert(c) PROVE DueInv'
  <2>1. PICK x : x = [pc |-> "load", pkt |-> p]
    OBVIOUS
  <2>2. /\ x.pc = "load" /\ nf[c].pc = "insert" /\ nf[c].pc \in Outside /\ nf' = [nf EXCEPT ![c] = x]
        /\ packet_calendar' = Calendared(packet_calendar, p, due[p])
        /\ UNCHANGED <<calendar_tick, due>>
    BY <1>2, <1>7, <2>1 DEF nf_insert, Outside
  <2>3. ContextsDue'
    BY <1>0, <1>1, <2>2, ContextsStayDue
  <2>4. InReach(due[p])
    BY <1>2, <2>2 DEF DueInv, ContextsDue
  <2>5. /\ ~On(packet_calendar, p) /\ OnceOnly(packet_calendar)
        /\ packet_calendar \in Calendars /\ due[p] \in Nat
    BY <1>0, <1>2, <2>2 DEF OwnerInv, OutsideFresh, TypeInv
  <2>6. \A s \in Slots, q \in Pkts :
          InSlot(packet_calendar', s, q) <=>
              InSlot(packet_calendar, s, q) \/ (q = p /\ s = due[p] % SCHEDLEN)
    BY <2>2, <2>5, CalendarInsert
  <2>7. SlotsDue'
    BY <2>2, <2>4, <2>6 DEF DueInv, SlotsDue, InReach
  <2>8. QED
    BY <2>3, <2>7 DEF DueInv
<1>8. ASSUME nf_load_path(c) PROVE DueInv'
  <2>1. PICK x : x = [pc |-> "store", pkt |-> p, path |-> pathpos[p]]
    OBVIOUS
  <2>2. x.pc = "store" /\ nf' = [nf EXCEPT ![c] = x] /\ UNCHANGED <<calendar_tick, packet_calendar, due>>
    BY <1>2, <1>8, <2>1 DEF nf_load_path
  <2>3. ContextsDue'
    BY <1>0, <1>1, <2>2, ContextsStayDue
  <2>4. QED
    BY <1>4, <2>2, <2>3 DEF DueInv
<1>9. ASSUME nf_store_path(c) PROVE DueInv'
  <2>1. Idle.pc = "idle"
    BY DEF Idle
  <2>2. nf' = [nf EXCEPT ![c] = Idle] /\ UNCHANGED <<calendar_tick, packet_calendar, due>>
    BY <1>9 DEF nf_store_path
  <2>3. ContextsDue'
    BY <1>0, <1>1, <2>1, <2>2, ContextsStayDue
  <2>4. QED
    BY <1>4, <2>2, <2>3 DEF DueInv
<1>10. QED
  BY <1>5, <1>6, <1>7, <1>8, <1>9 DEF NetfilterStep

\* hopclock takes a packet in its tick, and puts it back for a tick in reach.
LEMMA HopclockDue ==
    ASSUME NoOverrun, EmuInv, UpInv, DueInv, hopclock_packet
    PROVE  DueInv' /\ due[First] = calendar_tick
<1>0. TypeInv /\ OwnerInv /\ calendar_tick \in Nat /\ due \in [Pkts -> Nat]
  BY DEF EmuInv, TypeInv
<1>1. /\ calendar_lock = "hopclock" /\ packet_calendar[NowSlot] # << >>
      /\ UNCHANGED <<calendar_tick, calendar_lock, nf>>
  BY HopclockResult
<1>2. PICK p \in Pkts : p = First
  BY <1>0, <1>1, TakenFirst
<1>3. /\ NowSlot \in Slots /\ InSlot(packet_calendar, NowSlot, p)
      /\ Rest \in Calendars /\ OnceOnly(Rest) /\ ~On(Rest, p)
      /\ \A s \in Slots, q \in Pkts :
           InSlot(Rest, s, q) <=> InSlot(packet_calendar, s, q) /\ q # p
  BY <1>0, <1>1, <1>2, TakenFirst
<1>4. due[First] = calendar_tick
  <2>1. due[p] \in Nat /\ InReach(due[p]) /\ due[p] % SCHEDLEN = NowSlot
    BY <1>0, <1>3 DEF DueInv, SlotsDue
  <2>2. QED
    BY <1>0, <1>2, <2>1, SlotIsTick
<1>5. ContextsDue'
  BY <1>1 DEF UpInv, ExclusionInv, ContextsDue
<1>6. ASSUME NEW fate, Gone(fate) PROVE DueInv'
  <2>1. packet_calendar' = Rest /\ due' = due
    BY <1>6 DEF Gone
  <2>2. SlotsDue'
    BY <1>1, <1>3, <2>1 DEF DueInv, SlotsDue, InReach
  <2>3. QED
    BY <1>5, <2>2 DEF DueInv
<1>7. ASSUME NEW r, Meets(First, r), ~r.dropped, Rescheduled(CurHop(First), r.exit) PROVE DueInv'
  <2>1. PICK e \in Nat : e = r.exit
    BY <1>7 DEF Meets, Lawful
  <2>2. InReach(e)
    BY <1>0, <1>7, <2>1, ExitInReach DEF Meets
  <2>3. packet_calendar' = Calendared(Rest, p, e) /\ due' = [due EXCEPT ![p] = e]
    BY <1>2, <1>7, <2>1 DEF Rescheduled
  <2>4. due'[p] = e /\ \A q \in Pkts \ {p} : due'[q] = due[q]
    BY <1>0, <2>3
  <2>5. \A s \in Slots, q \in Pkts :
          InSlot(packet_calendar', s, q) <=> InSlot(Rest, s, q) \/ (q = p /\ s = e % SCHEDLEN)
    BY <1>3, <2>3, CalendarInsert
  <2>6. SlotsDue'
    BY <1>1, <1>3, <2>2, <2>4, <2>5 DEF DueInv, SlotsDue, InReach
  <2>7. QED
    BY <1>5, <2>6 DEF DueInv
<1>8. QED
  BY <1>4, <1>6, <1>7, HopclockResult

\* Every step of a uniprocessor kernel whose calendar is long enough.
LEMMA DueStep ==
    Uniprocessor = TRUE /\ NoOverrun /\ EmuInv /\ UpInv /\ DueInv /\ [Next]_vars => DueInv'
<1> SUFFICES ASSUME Uniprocessor = TRUE, NoOverrun, EmuInv, UpInv, DueInv, [Next]_vars PROVE DueInv'
  OBVIOUS
<1>0. TypeInv /\ calendar_tick \in Nat /\ due \in [Pkts -> Nat] /\ packet_calendar \in Calendars
  BY DEF EmuInv, TypeInv
<1>1. CASE UNCHANGED vars \/ jiffy \/ hopclock_start \/ hopclock_end
  <2>1. UNCHANGED <<calendar_tick, packet_calendar, due, nf>>
    BY <1>1 DEF vars, jiffy, hopclock_start, hopclock_end
  <2>2. QED
    BY <2>1 DEF DueInv, SlotsDue, ContextsDue, InReach
<1>2. CASE hopclock_advance
  <2>1. /\ calendar_lock = "hopclock" /\ packet_calendar[NowSlot] = << >>
        /\ calendar_tick' = calendar_tick + 1 /\ UNCHANGED <<packet_calendar, due, nf>>
    BY <1>2 DEF hopclock_advance
  <2>2. ContextsDue'
    BY <2>1 DEF UpInv, ExclusionInv, ContextsDue
  <2>3. ASSUME NEW s \in Slots, NEW p \in Pkts, InSlot(packet_calendar, s, p)
        PROVE  due[p] % SCHEDLEN = s /\ InReach(due[p])'
    <3>1. due[p] \in Nat /\ due[p] % SCHEDLEN = s /\ InReach(due[p]) /\ SCHEDLEN \in Nat
      BY <1>0, <2>3, EmulatorAssumption DEF DueInv, SlotsDue, EmulatorAssumption
    <3>2. s # NowSlot
      BY <2>1, <2>3 DEF InSlot
    <3>3. due[p] # calendar_tick
      BY <3>1, <3>2 DEF NowSlot
    <3>4. QED
      BY <1>0, <2>1, <3>1, <3>3 DEF InReach
  <2>4. SlotsDue'
    BY <2>1, <2>3 DEF SlotsDue
  <2>5. QED
    BY <2>2, <2>4 DEF DueInv
<1>3. CASE \E c \in CPUs, p \in Pkts : filter_ipinput_accept(c, p) \/ filter_ipinput_steal(c, p)
  <2>1. PICK c \in CPUs, p \in Pkts : filter_ipinput_accept(c, p) \/ filter_ipinput_steal(c, p)
    BY <1>3
  <2>2. MayRun(c) /\ UNCHANGED <<calendar_tick, packet_calendar, due>>
    BY <2>1 DEF filter_ipinput_accept, filter_ipinput_steal, Arriving
  <2>3. SlotsDue'
    BY <2>2 DEF DueInv, SlotsDue, InReach
  <2>4. CASE nf' = nf
    BY <2>2, <2>3, <2>4 DEF DueInv, ContextsDue, InReach
  <2>5. CASE nf' = [nf EXCEPT ![c] = [pc |-> "tick", pkt |-> p]]
    <3>1. PICK x : x = [pc |-> "tick", pkt |-> p]
      OBVIOUS
    <3>2. x.pc = "tick" /\ nf' = [nf EXCEPT ![c] = x]
      BY <2>5, <3>1
    <3>3. ContextsDue'
      BY <1>0, <2>2, <3>2, ContextsStayDue
    <3>4. QED
      BY <2>3, <3>3 DEF DueInv
  <2>6. QED
    BY <2>1, <2>4, <2>5 DEF filter_ipinput_accept, filter_ipinput_steal
<1>4. CASE \E c \in CPUs : NetfilterStep(c)
  BY <1>4, NetfilterDue
<1>5. CASE hopclock_packet
  BY <1>5, HopclockDue
<1>6. QED
  BY <1>1, <1>2, <1>3, <1>4, <1>5 DEF Next, HopclockStep

\* The invariant of the calendar.
THEOREM DueInvariant ==
    ASSUME Uniprocessor = TRUE, NoOverrun PROVE Spec => [](EmuInv /\ UpInv /\ DueInv)
<1>1. Init => DueInv
  <2> SUFFICES ASSUME Init PROVE DueInv
    OBVIOUS
  <2>1. Idle.pc = "idle"
    BY DEF Idle
  <2>2. /\ \A c \in CPUs : nf[c].pc = "idle"
        /\ \A s \in Slots : packet_calendar[s] = << >>
    BY <2>1 DEF Init
  <2>3. QED
    BY <2>2 DEF DueInv, SlotsDue, ContextsDue, InSlot
<1>2. DueInv /\ EmuInv /\ UpInv /\ [Next]_vars => DueInv'
  BY DueStep
<1>3. Spec => [](EmuInv /\ UpInv)
  BY UniprocessorInvariant
<1>4. QED
  BY <1>1, <1>2, <1>3, PTL DEF Spec

\* On a uniprocessor kernel, with a calendar longer than any stay on a hop, every packet
\* on the calendar is in the slot of the tick it is due, and that tick is ahead and less
\* than a revolution away.
THEOREM CalendarIsExact ==
    ASSUME Uniprocessor = TRUE, NoOverrun PROVE Spec => []OnCalendarWhenDue
<1>1. EmuInv /\ DueInv => OnCalendarWhenDue
  <2> SUFFICES ASSUME EmuInv, DueInv, NEW s \in Slots, NEW p \in Range(packet_calendar[s])
               PROVE  /\ due[p] % SCHEDLEN = s
                      /\ calendar_tick <= due[p]
                      /\ due[p] < calendar_tick + SCHEDLEN
    BY DEF OnCalendarWhenDue
  <2>1. packet_calendar[s] \in Seq(Pkts)
    BY DEF EmuInv, TypeInv, Calendars
  <2>2. p \in Pkts /\ InSlot(packet_calendar, s, p)
    BY <2>1 DEF Range, InSlot
  <2>3. QED
    BY <2>2 DEF DueInv, SlotsDue, InReach
<1>2. QED
  BY <1>1, DueInvariant, PTL

\* ... so hopclock gives every packet to its next hop in exactly the tick emulate_hop
\* computed for it, however late the work item runs.
THEOREM ReleasedOnTime ==
    ASSUME Uniprocessor = TRUE, NoOverrun
    PROVE  Spec => [][hopclock_packet => due[First] = calendar_tick]_vars
<1>1. EmuInv /\ UpInv /\ DueInv /\ [Next]_vars
        => [hopclock_packet => due[First] = calendar_tick]_vars
  BY HopclockDue
<1>2. QED
  BY <1>1, DueInvariant, PTL DEF Spec
-----------------------------------------------------------------------------
(* A link does not reorder.                                                  *)

Flights == [Hops -> Seq(Pkts)]

\* Hop h has accepted p, which is not released yet; a before b.
Carries(inf, h, p) == \E i \in 1..Len(inf[h]) : inf[h][i] = p
Before(inf, h, a, b) ==
    \E i, j \in 1..Len(inf[h]) : i < j /\ inf[h][i] = a /\ inf[h][j] = b

\* Every packet is in flight on one hop at most, once.
FlightOnce(inf) ==
    \A g, h \in Hops : \A i \in 1..Len(inf[g]), j \in 1..Len(inf[h]) :
        inf[g][i] = inf[h][j] => g = h /\ i = j

\* a is ahead of b in a slot of the calendar.
Ahead(cal, a, b) ==
    \E s \in Slots : \E i, j \in 1..Len(cal[s]) : i < j /\ cal[s][i] = a /\ cal[s][j] = b

\* If a and b share a slot, a is ahead.
SlotOrder(cal, a, b) == \A s \in Slots : InSlot(cal, s, a) /\ InSlot(cal, s, b) => Ahead(cal, a, b)

\* The law of the packets in flight.  A packet in flight on a hop is on the calendar or about
\* to be inserted, and nothing that enters the hop from now on is due before it.  Of two
\* packets on a hop the first is on the calendar, is due no later, and is ahead if they are
\* due in the same slot.
FlightLaw(inf, cal, q, d, tick, ins) ==
    /\ inf \in Flights /\ FlightOnce(inf)
    /\ \A h \in Hops, p \in Pkts : Carries(inf, h, p) =>
         /\ h \notin Remote /\ (On(cal, p) \/ p \in ins)
         /\ NotBefore(q[h], Link[h], tick, d[p] - Link[h].delay)
    /\ \A h \in Hops, a, b \in Pkts : Before(inf, h, a, b) =>
         d[a] <= d[b] /\ a \notin ins /\ SlotOrder(cal, a, b)

Inserting == {p \in Pkts : \E c \in CPUs : nf[c].pc = "insert" /\ nf[c].pkt = p}
FlightInv == FlightLaw(inflight, packet_calendar, hop, due, calendar_tick, Inserting)

\* A packet appended to a slot is behind those of the slot, whose order stays.
LEMMA InsertBehind ==
    ASSUME NEW cal \in Calendars, NEW p \in Pkts, NEW t \in Nat
    PROVE  LET new == Calendared(cal, p, t)
           IN  /\ \A a, b \in Pkts : Ahead(cal, a, b) => Ahead(new, a, b)
               /\ \A a \in Pkts : InSlot(cal, t % SCHEDLEN, a) => Ahead(new, a, p)
<1> DEFINE k == t % SCHEDLEN
           new == Calendared(cal, p, t)
<1>1. k \in Slots
  BY SlotOfTick
<1> HIDE DEF k
<1>2. /\ \A s \in Slots : cal[s] \in Seq(Pkts)
      /\ \A s \in Slots \ {k} : new[s] = cal[s]
      /\ new[k] = Append(cal[k], p)
  BY <1>1 DEF Calendared, Calendars, k
<1> HIDE DEF new
<1>3. /\ Len(new[k]) = Len(cal[k]) + 1 /\ Len(cal[k]) \in Nat /\ new[k][Len(cal[k]) + 1] = p
      /\ \A i \in 1..Len(cal[k]) : new[k][i] = cal[k][i]
  BY <1>1, <1>2
<1>4. \A s \in Slots : \A i \in 1..Len(cal[s]) : i \in 1..Len(new[s]) /\ new[s][i] = cal[s][i]
  <2> TAKE s \in Slots
  <2>1. CASE s = k
    BY <1>3, <2>1
  <2>2. CASE s # k
    BY <1>2, <2>2
  <2>3. QED
    BY <2>1, <2>2
<1>5. ASSUME NEW a \in Pkts, NEW b \in Pkts, Ahead(cal, a, b) PROVE Ahead(new, a, b)
  BY <1>4, <1>5 DEF Ahead
<1>6. ASSUME NEW a \in Pkts, InSlot(cal, k, a) PROVE Ahead(new, a, p)
  <2>1. PICK i \in 1..Len(cal[k]) : cal[k][i] = a
    BY <1>6 DEF InSlot
  <2>2. PICK j \in Nat : j = Len(cal[k]) + 1
    BY <1>3
  <2>3. i \in 1..Len(new[k]) /\ j \in 1..Len(new[k]) /\ i < j /\ new[k][i] = a /\ new[k][j] = p
    BY <1>3, <2>1, <2>2
  <2>4. QED
    BY <1>1, <2>3 DEF Ahead
<1>7. QED
  BY <1>5, <1>6 DEF new, k

\* Nothing is ahead of the first packet of a slot; taking it off keeps the order of the others.
LEMMA RemoveAhead ==
    ASSUME NEW cal \in Calendars, OnceOnly(cal), NEW k \in Slots, cal[k] # << >>
    PROVE  LET p    == Head(cal[k])
               rest == [cal EXCEPT ![k] = Tail(@)]
           IN  /\ \A a \in Pkts : ~Ahead(cal, a, p)
               /\ \A a, b \in Pkts : Ahead(cal, a, b) /\ a # p => Ahead(rest, a, b)
<1> DEFINE p    == Head(cal[k])
           rest == [cal EXCEPT ![k] = Tail(@)]
<1>1. \A s \in Slots : cal[s] \in Seq(Pkts)
  BY DEF Calendars
<1>2. /\ Len(cal[k]) \in Nat \ {0} /\ p = cal[k][1] /\ p \in Pkts
      /\ Len(Tail(cal[k])) = Len(cal[k]) - 1
      /\ \A i \in 1..(Len(cal[k]) - 1) : Tail(cal[k])[i] = cal[k][i + 1]
  BY <1>1
<1>3. /\ \A s \in Slots \ {k} : rest[s] = cal[s]
      /\ rest[k] = Tail(cal[k])
  BY <1>2 DEF Calendars
<1> HIDE DEF p, rest
<1>4. ASSUME NEW a \in Pkts, Ahead(cal, a, p) PROVE FALSE
  <2>1. PICK s \in Slots : \E i, j \in 1..Len(cal[s]) : i < j /\ cal[s][i] = a /\ cal[s][j] = p
    BY <1>4 DEF Ahead
  <2>2. PICK i \in 1..Len(cal[s]), j \in 1..Len(cal[s]) : i < j /\ cal[s][j] = p
    BY <2>1
  <2>3. 1 \in 1..Len(cal[k]) /\ cal[s][j] = cal[k][1]
    BY <1>2, <2>2
  <2>4. s = k /\ j = 1
    BY <2>3, Zenon DEF OnceOnly
  <2>5. QED
    BY <1>2, <2>2, <2>4
<1>5. ASSUME NEW a \in Pkts, NEW b \in Pkts, Ahead(cal, a, b), a # p PROVE Ahead(rest, a, b)
  <2>1. PICK s \in Slots : \E i, j \in 1..Len(cal[s]) : i < j /\ cal[s][i] = a /\ cal[s][j] = b
    BY <1>5 DEF Ahead
  <2>2. PICK i \in 1..Len(cal[s]), j \in 1..Len(cal[s]) : i < j /\ cal[s][i] = a /\ cal[s][j] = b
    BY <2>1
  <2>3. CASE s # k
    BY <1>3, <2>2, <2>3 DEF Ahead
  <2>4. CASE s = k
    <3>1. PICK n \in Nat : n = Len(cal[k])
      BY <1>2
    <3>2. i # 1 /\ i \in 1..n /\ j \in 1..n /\ i < j
      BY <1>2, <1>5, <2>2, <2>4, <3>1
    <3>3. PICK x \in 1..(n - 1), y \in 1..(n - 1) : x < y /\ x + 1 = i /\ y + 1 = j
      <4>1. i - 1 \in 1..(n - 1) /\ j - 1 \in 1..(n - 1) /\ i - 1 < j - 1 /\ (i - 1) + 1 = i /\ (j - 1) + 1 = j
        BY <3>1, <3>2
      <4>2. QED
        BY <4>1
    <3>4. Len(rest[k]) = n - 1 /\ rest[k][x] = a /\ rest[k][y] = b
      BY <1>2, <1>3, <2>2, <2>4, <3>1, <3>3
    <3>5. QED
      BY <3>3, <3>4 DEF Ahead
  <2>5. QED
    BY <2>3, <2>4
<1>6. QED
  BY <1>4, <1>5 DEF p, rest

\* A packet that a hop accepts is the last in flight there.
LEMMA FlightAppend ==
    ASSUME NEW inf \in Flights, FlightOnce(inf), NEW h \in Hops, NEW p \in Pkts,
           \A g \in Hops : ~Carries(inf, g, p)
    PROVE  LET new == [inf EXCEPT ![h] = Append(@, p)]
           IN  /\ new \in Flights /\ FlightOnce(new)
               /\ \A g \in Hops, a \in Pkts :
                    Carries(new, g, a) => Carries(inf, g, a) \/ (g = h /\ a = p)
               /\ \A g \in Hops, a, b \in Pkts : Before(new, g, a, b) =>
                    Before(inf, g, a, b) \/ (g = h /\ b = p /\ Carries(inf, h, a))
<1> DEFINE new == [inf EXCEPT ![h] = Append(@, p)]
<1>1. \A g \in Hops : inf[g] \in Seq(Pkts) /\ Len(inf[g]) \in Nat
  BY DEF Flights
<1>2. PICK n \in Nat : n = Len(inf[h])
  BY <1>1
<1>3. Append(inf[h], p) \in Seq(Pkts)
  BY <1>1, AppendProperties
<1>4. new \in Flights /\ new[h] = Append(inf[h], p) /\ \A g \in Hops \ {h} : new[g] = inf[g]
  BY <1>3 DEF Flights
<1> HIDE DEF new
<1>5. Len(new[h]) = n + 1 /\ new[h][n + 1] = p /\ \A i \in 1..n : new[h][i] = inf[h][i]
  BY <1>1, <1>2, <1>4, AppendProperties
<1>6. ASSUME NEW g \in Hops, NEW i \in 1..Len(new[g])
      PROVE  \/ i \in 1..Len(inf[g]) /\ new[g][i] = inf[g][i]
             \/ g = h /\ i = n + 1 /\ new[g][i] = p
  <2>1. CASE g # h
    BY <1>4, <2>1
  <2>2. CASE g = h /\ i = n + 1
    BY <1>5, <2>2
  <2>3. CASE g = h /\ i # n + 1
    <3>1. i \in 1..n
      BY <1>5, <2>3
    <3>2. QED
      BY <1>2, <1>5, <2>3, <3>1
  <2>4. QED
    BY <2>1, <2>2, <2>3
<1>7. \A g \in Hops : \A i \in 1..Len(inf[g]) : inf[g][i] # p
  BY DEF Carries
<1>8. FlightOnce(new)
  <2> SUFFICES ASSUME NEW g \in Hops, NEW f \in Hops, NEW i \in 1..Len(new[g]),
                      NEW j \in 1..Len(new[f]), new[g][i] = new[f][j]
               PROVE  g = f /\ i = j
    BY DEF FlightOnce
  <2>1. (i \in 1..Len(inf[g]) /\ new[g][i] = inf[g][i]) \/ (g = h /\ i = n + 1 /\ new[g][i] = p)
    BY <1>6
  <2>2. (j \in 1..Len(inf[f]) /\ new[f][j] = inf[f][j]) \/ (f = h /\ j = n + 1 /\ new[f][j] = p)
    BY <1>6
  <2>3. QED
    BY <1>7, <2>1, <2>2 DEF FlightOnce
<1>9. ASSUME NEW g \in Hops, NEW a \in Pkts, Carries(new, g, a)
      PROVE  Carries(inf, g, a) \/ (g = h /\ a = p)
  BY <1>6, <1>9 DEF Carries
<1>10. ASSUME NEW g \in Hops, NEW a \in Pkts, NEW b \in Pkts, Before(new, g, a, b)
       PROVE  Before(inf, g, a, b) \/ (g = h /\ b = p /\ Carries(inf, h, a))
  <2>1. PICK i \in 1..Len(new[g]), j \in 1..Len(new[g]) : i < j /\ new[g][i] = a /\ new[g][j] = b
    BY <1>10 DEF Before
  <2>2. (i \in 1..Len(inf[g]) /\ new[g][i] = inf[g][i]) \/ (g = h /\ i = n + 1 /\ new[g][i] = p)
    BY <1>6
  <2>3. (j \in 1..Len(inf[g]) /\ new[g][j] = inf[g][j]) \/ (g = h /\ j = n + 1 /\ new[g][j] = p)
    BY <1>6
  <2>4. CASE j \in 1..Len(inf[g]) /\ new[g][j] = inf[g][j]
    <3>1. i \in 1..Len(inf[g])
      BY <1>1, <2>1, <2>4
    <3>2. new[g][i] = inf[g][i]
      BY <1>2, <2>2, <3>1
    <3>3. QED
      BY <2>1, <2>4, <3>1, <3>2 DEF Before
  <2>5. CASE g = h /\ j = n + 1 /\ new[g][j] = p
    <3>1. i # n + 1
      BY <2>1, <2>5
    <3>2. QED
      BY <2>1, <2>2, <2>5, <3>1 DEF Carries
  <2>6. QED
    BY <2>3, <2>4, <2>5
<1>11. QED
  BY <1>4, <1>8, <1>9, <1>10 DEF new

\* A packet that is at the head of its flight, if it is in one, can be taken out of all.
LEMMA FlightRemove ==
    ASSUME NEW inf \in Flights, FlightOnce(inf), NEW p \in Pkts,
           \A h \in Hops, a \in Pkts : ~Before(inf, h, a, p)
    PROVE  LET new == [h \in Hops |-> Without(inf[h], p)]
           IN  /\ new \in Flights /\ FlightOnce(new)
               /\ \A h \in Hops : new[h] = inf[h] \/ (inf[h] # << >> /\ new[h] = Tail(inf[h]))
               /\ \A h \in Hops, a \in Pkts : Carries(new, h, a) => Carries(inf, h, a) /\ a # p
               /\ \A h \in Hops, a, b \in Pkts :
                    Before(new, h, a, b) => Before(inf, h, a, b) /\ a # p /\ b # p
<1> DEFINE new == [h \in Hops |-> Without(inf[h], p)]
<1>1. ASSUME NEW h \in Hops
      PROVE  /\ new[h] \in Seq(Pkts)
             /\ \/ new[h] = inf[h] /\ ~Carries(inf, h, p)
                \/ inf[h] # << >> /\ inf[h][1] = p /\ new[h] = Tail(inf[h])
  <2>1. PICK s \in Seq(Pkts) : s = inf[h]
    BY DEF Flights
  <2>2. new[h] = Without(s, p) /\ Len(s) \in Nat /\ DOMAIN s = 1..Len(s)
    BY <2>1
  <2>3. p \in Range(s) <=> Carries(inf, h, p)
    BY <2>1, <2>2 DEF Range, Carries
  <2>4. CASE ~Carries(inf, h, p)
    BY <2>1, <2>2, <2>3, <2>4 DEF Without
  <2>5. CASE Carries(inf, h, p)
    <3>1. PICK i \in 1..Len(s) : s[i] = p
      BY <2>1, <2>5 DEF Carries
    <3>2. 1 \in 1..Len(s) /\ s[1] \in Pkts /\ s # << >>
      BY <2>2, <3>1
    <3>3. \A j \in 1..Len(s) : s[j] = p => j = 1
      <4> SUFFICES ASSUME NEW j \in 1..Len(s), s[j] = p, j # 1 PROVE FALSE
        OBVIOUS
      <4>1. 1 < j
        BY <2>2
      <4>2. Before(inf, h, s[1], p)
        BY <2>1, <3>2, <4>1 DEF Before
      <4>3. QED
        BY <3>2, <4>2
    <3>4. s[1] = p
      BY <3>1, <3>3
    <3>5. (CHOOSE j \in DOMAIN s : s[j] = p) = 1
      BY <2>2, <3>2, <3>3, <3>4
    <3>6. Without(s, p) = SubSeq(s, 1, 1 - 1) \o SubSeq(s, 1 + 1, Len(s))
      BY <2>3, <2>5, <3>5 DEF Without, RemoveAt
    <3>7. SubSeq(s, 1, 1 - 1) = << >> /\ SubSeq(s, 1 + 1, Len(s)) = Tail(s) /\ Tail(s) \in Seq(Pkts)
      BY <3>2
    <3>8. Without(s, p) = Tail(s)
      BY <3>6, <3>7, ConcatEmptySeq
    <3>9. QED
      BY <2>1, <2>2, <3>2, <3>4, <3>7, <3>8
  <2>6. QED
    BY <2>4, <2>5
<1>2. new \in Flights
  BY <1>1 DEF Flights
<1> HIDE DEF new
<1>3. ASSUME NEW h \in Hops
      PROVE  \E o \in {0, 1} : /\ \A i \in 1..Len(new[h]) : /\ i + o \in 1..Len(inf[h]) /\ i + o \in Nat
                                                          /\ new[h][i] = inf[h][i + o]
                               /\ o = 0 => ~Carries(inf, h, p)
                               /\ o = 1 => inf[h] # << >> /\ inf[h][1] = p
  <2>1. inf[h] \in Seq(Pkts) /\ Len(inf[h]) \in Nat
    BY DEF Flights
  <2>2. CASE new[h] = inf[h] /\ ~Carries(inf, h, p)
    <3>1. \A i \in 1..Len(new[h]) : i + 0 = i
      BY <2>1, <2>2
    <3>2. QED
      BY <2>2, <3>1
  <2>3. CASE inf[h] # << >> /\ inf[h][1] = p /\ new[h] = Tail(inf[h])
    <3>1. /\ Len(new[h]) = Len(inf[h]) - 1
          /\ \A i \in 1..Len(new[h]) : new[h][i] = inf[h][i + 1]
      BY <2>1, <2>3, HeadTailProperties
    <3>2. \A i \in 1..Len(new[h]) : i + 1 \in 1..Len(inf[h]) /\ i + 1 \in Nat
      BY <2>1, <3>1
    <3>3. QED
      BY <2>3, <3>1, <3>2
  <2>4. QED
    BY <1>1, <2>2, <2>3
<1>4. ASSUME NEW h \in Hops, NEW i \in 1..Len(new[h]), new[h][i] = p PROVE FALSE
  <2>1. PICK o \in {0, 1} : /\ \A j \in 1..Len(new[h]) : /\ j + o \in 1..Len(inf[h]) /\ j + o \in Nat
                                                       /\ new[h][j] = inf[h][j + o]
                            /\ o = 0 => ~Carries(inf, h, p)
                            /\ o = 1 => inf[h] # << >> /\ inf[h][1] = p
    BY <1>3
  <2>2. i + o \in 1..Len(inf[h]) /\ inf[h][i + o] = p
    BY <1>4, <2>1
  <2>3. o = 1
    BY <2>1, <2>2 DEF Carries
  <2>4. 1 \in 1..Len(inf[h]) /\ inf[h][1] = inf[h][i + 1]
    <3>1. Len(inf[h]) \in Nat
      BY DEF Flights
    <3>2. QED
      BY <2>1, <2>2, <2>3, <3>1
  <2>5. i + 1 = 1
    BY <2>2, <2>3, <2>4 DEF FlightOnce
  <2>6. QED
    BY <2>5
<1>5. FlightOnce(new)
  <2> SUFFICES ASSUME NEW g \in Hops, NEW f \in Hops, NEW i \in 1..Len(new[g]),
                      NEW j \in 1..Len(new[f]), new[g][i] = new[f][j]
               PROVE  g = f /\ i = j
    BY DEF FlightOnce
  <2>1. PICK o \in {0, 1} : /\ i + o \in 1..Len(inf[g]) /\ new[g][i] = inf[g][i + o]
                            /\ o = 0 => ~Carries(inf, g, p)
                            /\ o = 1 => inf[g] # << >> /\ inf[g][1] = p
    BY <1>3
  <2>2. PICK u \in {0, 1} : /\ j + u \in 1..Len(inf[f]) /\ new[f][j] = inf[f][j + u]
                            /\ u = 0 => ~Carries(inf, f, p)
                            /\ u = 1 => inf[f] # << >> /\ inf[f][1] = p
    BY <1>3
  <2>3. g = f /\ i + o = j + u
    <3>1. PICK x \in 1..Len(inf[g]) : x = i + o
      BY <2>1
    <3>2. PICK y \in 1..Len(inf[f]) : y = j + u
      BY <2>2
    <3>3. inf[g][x] = inf[f][y]
      BY <2>1, <2>2, <3>1, <3>2
    <3>4. g = f /\ x = y
      BY <3>3 DEF FlightOnce
    <3>5. QED
      BY <3>1, <3>2, <3>4
  <2>4. o = u
    <3>1. inf[g] # << >> => 1 \in 1..Len(inf[g])
      BY DEF Flights
    <3>2. inf[g] # << >> /\ inf[g][1] = p => Carries(inf, g, p)
      BY <3>1, Zenon DEF Carries
    <3>3. o = 1 => u = 1
      BY <2>1, <2>2, <2>3, <3>2
    <3>4. u = 1 => o = 1
      BY <2>1, <2>2, <2>3, <3>2
    <3>5. QED
      BY <3>3, <3>4
  <2>5. QED
    BY <2>3, <2>4
<1>6. ASSUME NEW h \in Hops, NEW a \in Pkts, Carries(new, h, a) PROVE Carries(inf, h, a) /\ a # p
  <2>1. PICK i \in 1..Len(new[h]) : new[h][i] = a
    BY <1>6 DEF Carries
  <2>2. \E j \in 1..Len(inf[h]) : new[h][i] = inf[h][j]
    BY <1>3
  <2>3. QED
    BY <1>4, <2>1, <2>2 DEF Carries
<1>7. ASSUME NEW h \in Hops, NEW a \in Pkts, NEW b \in Pkts, Before(new, h, a, b)
      PROVE  Before(inf, h, a, b) /\ a # p /\ b # p
  <2>1. PICK i \in 1..Len(new[h]), j \in 1..Len(new[h]) : i < j /\ new[h][i] = a /\ new[h][j] = b
    BY <1>7 DEF Before
  <2>2. PICK o \in {0, 1} : \A k \in 1..Len(new[h]) : /\ k + o \in 1..Len(inf[h])
                                                     /\ new[h][k] = inf[h][k + o]
    BY <1>3
  <2>3. i + o < j + o
    BY <2>1
  <2>4. QED
    BY <1>4, <2>1, <2>2, <2>3 DEF Before
<1>8. QED
  BY <1>1, <1>2, <1>5, <1>6, <1>7 DEF new

\* What a queue says of the packets accepted before, it says after a change that keeps
\* NotBefore: a packet more, or a later tick.
LEMMA LawTurn ==
    ASSUME NEW inf, NEW cal, NEW q, NEW d \in [Pkts -> Nat], NEW tick, NEW ins, NEW q2, NEW tick2,
           FlightLaw(inf, cal, q, d, tick, ins),
           \A h \in Hops \ Remote, b \in Int :
               NotBefore(q[h], Link[h], tick, b) => NotBefore(q2[h], Link[h], tick2, b)
    PROVE  FlightLaw(inf, cal, q2, d, tick2, ins)
<1>1. ASSUME NEW h \in Hops, NEW p \in Pkts, Carries(inf, h, p)
      PROVE  /\ h \notin Remote /\ (On(cal, p) \/ p \in ins)
             /\ NotBefore(q2[h], Link[h], tick2, d[p] - Link[h].delay)
  <2>1. /\ h \notin Remote /\ (On(cal, p) \/ p \in ins)
        /\ NotBefore(q[h], Link[h], tick, d[p] - Link[h].delay)
    BY <1>1 DEF FlightLaw
  <2>2. PICK b \in Int : b = d[p] - Link[h].delay
    BY EmulatorAssumption DEF EmulatorAssumption
  <2>3. QED
    BY <2>1, <2>2
<1>2. QED
  BY <1>1 DEF FlightLaw

\* A hop accepts a packet: it is the last in flight there, and due no earlier than the others.
LEMMA LawAccept ==
    ASSUME NEW inf, NEW cal, NEW q, NEW d \in [Pkts -> Nat], NEW tick \in Nat,
           FlightLaw(inf, cal, q, d, tick, {}),
           NEW p \in Pkts, ~On(cal, p), NEW h \in Hops \ Remote,
           NEW r, r.exit \in Nat, ~r.dropped, InTurn(r, q[h], Link[h], tick),
           NEW q2, q2[h] = r.queue, \A g \in Hops \ {h} : q2[g] = q[g]
    PROVE  FlightLaw([inf EXCEPT ![h] = Append(@, p)], cal, q2, [d EXCEPT ![p] = r.exit], tick, {p})
<1> DEFINE new == [inf EXCEPT ![h] = Append(@, p)]
           late == [d EXCEPT ![p] = r.exit]
<1>1. \A g \in Hops : ~Carries(inf, g, p)
  BY DEF FlightLaw
<1>2. inf \in Flights /\ FlightOnce(inf)
  BY DEF FlightLaw
<1>3. /\ new \in Flights /\ FlightOnce(new)
      /\ \A g \in Hops, a \in Pkts :
           Carries(new, g, a) => Carries(inf, g, a) \/ (g = h /\ a = p)
      /\ \A g \in Hops, a, b \in Pkts : Before(new, g, a, b) =>
           Before(inf, g, a, b) \/ (g = h /\ b = p /\ Carries(inf, h, a))
  BY <1>1, <1>2, FlightAppend
<1>4. late[p] = r.exit /\ \A a \in Pkts \ {p} : late[a] = d[a]
  OBVIOUS
<1> HIDE DEF new, late
<1>5. PICK e \in Nat, x \in Nat : e = r.exit /\ x = Link[h].delay
  BY EmulatorAssumption DEF EmulatorAssumption
<1>6. /\ \A b \in Int : NotBefore(q[h], Link[h], tick, b) =>
           NotBefore(q2[h], Link[h], tick, b) /\ b + x <= e
      /\ NotBefore(q2[h], Link[h], tick, e - x)
  BY <1>5 DEF InTurn
<1>7. ASSUME NEW g \in Hops, NEW a \in Pkts, Carries(inf, g, a)
      PROVE  /\ a # p /\ g \notin Remote /\ On(cal, a) /\ late[a] = d[a]
             /\ NotBefore(q2[g], Link[g], tick, late[a] - Link[g].delay)
             /\ g = h => late[a] <= late[p]
  <2>1. /\ a # p /\ g \notin Remote /\ On(cal, a)
        /\ NotBefore(q[g], Link[g], tick, d[a] - Link[g].delay)
    BY <1>1, <1>7 DEF FlightLaw
  <2>2. late[a] = d[a] /\ d[a] \in Nat
    BY <1>4, <2>1
  <2>3. CASE g # h
    BY <2>1, <2>2, <2>3
  <2>4. CASE g = h
    <3>1. PICK b \in Int : b = d[a] - x
      BY <2>2
    <3>2. NotBefore(q2[h], Link[h], tick, b) /\ b + x <= e
      BY <1>5, <1>6, <2>1, <2>4, <3>1
    <3>3. NotBefore(q2[g], Link[g], tick, late[a] - Link[g].delay)
      BY <1>5, <2>2, <2>4, <3>1, <3>2
    <3>4. late[a] <= late[p]
      BY <1>4, <1>5, <2>2, <3>1, <3>2
    <3>5. QED
      BY <2>1, <2>2, <3>3, <3>4
  <2>5. QED
    BY <2>3, <2>4
<1>8. NotBefore(q2[h], Link[h], tick, late[p] - Link[h].delay)
  BY <1>4, <1>5, <1>6
<1>9. ASSUME NEW g \in Hops, NEW a \in Pkts, NEW b \in Pkts, Before(inf, g, a, b)
      PROVE  late[a] <= late[b] /\ a # p /\ SlotOrder(cal, a, b)
  <2>1. Carries(inf, g, a) /\ Carries(inf, g, b)
    BY <1>9 DEF Before, Carries
  <2>2. d[a] <= d[b] /\ SlotOrder(cal, a, b)
    BY <1>9 DEF FlightLaw
  <2>3. QED
    BY <1>7, <2>1, <2>2
<1>10. \A a \in Pkts : SlotOrder(cal, a, p)
  BY DEF SlotOrder, On
<1>11. ASSUME NEW g \in Hops, NEW a \in Pkts, Carries(new, g, a)
       PROVE  /\ g \notin Remote /\ (On(cal, a) \/ a \in {p})
              /\ NotBefore(q2[g], Link[g], tick, late[a] - Link[g].delay)
  BY <1>3, <1>7, <1>8, <1>11
<1>12. ASSUME NEW g \in Hops, NEW a \in Pkts, NEW b \in Pkts, Before(new, g, a, b)
       PROVE  late[a] <= late[b] /\ a \notin {p} /\ SlotOrder(cal, a, b)
  BY <1>3, <1>7, <1>9, <1>10, <1>12
<1>13. FlightLaw(new, cal, q2, late, tick, {p})
  BY <1>3, <1>11, <1>12 DEF FlightLaw
<1>14. QED
  BY <1>13 DEF new, late

\* The packet goes to the end of the slot of its tick.
LEMMA LawInsert ==
    ASSUME NEW inf, NEW cal \in Calendars, OnceOnly(cal), NEW q, NEW d \in [Pkts -> Nat], NEW tick,
           NEW p \in Pkts, ~On(cal, p), FlightLaw(inf, cal, q, d, tick, {p})
    PROVE  FlightLaw(inf, Calendared(cal, p, d[p]), q, d, tick, {})
<1> DEFINE new == Calendared(cal, p, d[p])
<1>1. d[p] \in Nat
  OBVIOUS
<1>2. /\ \A s \in Slots, a \in Pkts :
           InSlot(new, s, a) <=> InSlot(cal, s, a) \/ (a = p /\ s = d[p] % SCHEDLEN)
      /\ \A a \in Pkts : On(new, a) <=> On(cal, a) \/ a = p
  BY <1>1, CalendarInsert
<1>3. /\ \A a, b \in Pkts : Ahead(cal, a, b) => Ahead(new, a, b)
      /\ \A a \in Pkts : InSlot(cal, d[p] % SCHEDLEN, a) => Ahead(new, a, p)
  BY <1>1, InsertBehind
<1> HIDE DEF new
<1>4. ASSUME NEW g \in Hops, NEW a \in Pkts, NEW b \in Pkts, Before(inf, g, a, b)
      PROVE  d[a] <= d[b] /\ SlotOrder(new, a, b)
  <2>1. d[a] <= d[b] /\ a # p /\ SlotOrder(cal, a, b)
    BY <1>4 DEF FlightLaw
  <2>2. ASSUME NEW s \in Slots, InSlot(new, s, a), InSlot(new, s, b) PROVE Ahead(new, a, b)
    <3>1. InSlot(cal, s, a)
      BY <1>2, <2>1, <2>2
    <3>2. CASE b # p
      BY <1>2, <1>3, <2>1, <2>2, <3>1, <3>2 DEF SlotOrder
    <3>3. CASE b = p
      <4>1. s = d[p] % SCHEDLEN
        BY <1>2, <2>2, <3>3 DEF On
      <4>2. QED
        BY <1>3, <3>1, <3>3, <4>1
    <3>4. QED
      BY <3>2, <3>3
  <2>3. QED
    BY <2>1, <2>2 DEF SlotOrder
<1>5. ASSUME NEW g \in Hops, NEW a \in Pkts, Carries(inf, g, a)
      PROVE  /\ g \notin Remote /\ On(new, a)
             /\ NotBefore(q[g], Link[g], tick, d[a] - Link[g].delay)
  BY <1>2, <1>5 DEF FlightLaw
<1>6. FlightLaw(inf, new, q, d, tick, {})
  BY <1>4, <1>5 DEF FlightLaw
<1>7. QED
  BY <1>6 DEF new

\* The first packet of the slot that is due is the first in flight on its hop.
LEMMA LawRelease ==
    ASSUME TypeInv, OwnerInv, packet_calendar[NowSlot] # << >>, FlightInv, Inserting = {},
           NEW p \in Pkts, p = First,
           \A a \in Pkts : On(packet_calendar, a) /\ due[a] <= due[p]
                             => InSlot(packet_calendar, NowSlot, a)
    PROVE  /\ FlightLaw(WithoutPacket(p), Rest, hop, due, calendar_tick, {})
           /\ \A h \in Hops : \/ WithoutPacket(p)[h] = inflight[h]
                              \/ inflight[h] # << >> /\ WithoutPacket(p)[h] = Tail(inflight[h])
<1> DEFINE new == WithoutPacket(p)
           cal == packet_calendar
           k == NowSlot
<1>1. /\ k \in Slots /\ InSlot(cal, k, p)
      /\ \A s \in Slots, a \in Pkts : InSlot(Rest, s, a) <=> InSlot(cal, s, a) /\ a # p
      /\ \A a \in Pkts : On(Rest, a) <=> On(cal, a) /\ a # p
  BY TakenFirst
<1>2. /\ \A a \in Pkts : ~Ahead(cal, a, p)
      /\ \A a, b \in Pkts : Ahead(cal, a, b) /\ a # p => Ahead(Rest, a, b)
  BY <1>1, RemoveAhead DEF First, Rest, OwnerInv, TypeInv
<1>3. FlightLaw(inflight, cal, hop, due, calendar_tick, {})
  BY DEF FlightInv
<1>4. ASSUME NEW h \in Hops, NEW a \in Pkts, Before(inflight, h, a, p) PROVE FALSE
  <2>1. Carries(inflight, h, a)
    BY <1>4 DEF Before, Carries
  <2>2. On(cal, a) /\ due[a] <= due[p] /\ SlotOrder(cal, a, p)
    BY <1>3, <1>4, <2>1 DEF FlightLaw
  <2>3. InSlot(cal, k, a)
    BY <2>2
  <2>4. QED
    BY <1>1, <1>2, <2>2, <2>3 DEF SlotOrder
<1>5. inflight \in Flights /\ FlightOnce(inflight)
  BY <1>3 DEF FlightLaw
<1>6. /\ new \in Flights /\ FlightOnce(new)
      /\ \A h \in Hops : new[h] = inflight[h] \/ (inflight[h] # << >> /\ new[h] = Tail(inflight[h]))
      /\ \A h \in Hops, a \in Pkts : Carries(new, h, a) => Carries(inflight, h, a) /\ a # p
      /\ \A h \in Hops, a, b \in Pkts :
           Before(new, h, a, b) => Before(inflight, h, a, b) /\ a # p /\ b # p
  BY <1>4, <1>5, FlightRemove DEF WithoutPacket
<1> HIDE DEF new
<1>7. ASSUME NEW h \in Hops, NEW a \in Pkts, Carries(new, h, a)
      PROVE  /\ h \notin Remote /\ On(Rest, a)
             /\ NotBefore(hop[h], Link[h], calendar_tick, due[a] - Link[h].delay)
  BY <1>1, <1>3, <1>6, <1>7 DEF FlightLaw
<1>8. ASSUME NEW h \in Hops, NEW a \in Pkts, NEW b \in Pkts, Before(new, h, a, b)
      PROVE  due[a] <= due[b] /\ SlotOrder(Rest, a, b)
  <2>1. a # p /\ due[a] <= due[b] /\ SlotOrder(cal, a, b)
    BY <1>3, <1>6, <1>8 DEF FlightLaw
  <2>2. QED
    BY <1>1, <1>2, <2>1 DEF SlotOrder
<1>9. FlightLaw(new, Rest, hop, due, calendar_tick, {})
  BY <1>6, <1>7, <1>8 DEF FlightLaw
<1>10. QED
  BY <1>6, <1>9 DEF new

\* The packet about to be inserted is the one of the context that runs.
LEMMA InsertingAlone ==
    ASSUME Uniprocessor = TRUE, TypeInv, NEW c \in CPUs, MayRun(c), NEW x,
           nf' = [nf EXCEPT ![c] = x]
    PROVE  /\ nf[c].pc # "insert" => Inserting = {}
           /\ nf[c].pc = "insert" => Inserting = {nf[c].pkt}
           /\ x.pc # "insert" => Inserting' = {}
           /\ x.pc = "insert" /\ x.pkt \in Pkts => Inserting' = {x.pkt}
<1>1. \A d \in CPUs \ {c} : nf[d].pc = "idle"
  BY RunsAlone
<1>2. nf'[c] = x /\ \A d \in CPUs \ {c} : nf'[d] = nf[d]
  BY ContextMoves
<1>3. nf[c].pc = "insert" => nf[c].pkt \in Pkts
  BY ContextOf
<1>4. (nf[c].pc # "insert" => Inserting = {}) /\ (x.pc # "insert" => Inserting' = {})
  BY <1>1, <1>2 DEF Inserting
<1>5. nf[c].pc = "insert" => Inserting = {nf[c].pkt}
  BY <1>1, <1>3 DEF Inserting
<1>6. x.pc = "insert" /\ x.pkt \in Pkts => Inserting' = {x.pkt}
  BY <1>1, <1>2 DEF Inserting
<1>7. QED
  BY <1>4, <1>5, <1>6

\* What LinkFifo asks of a step.
TakesTurns ==
    \A h \in Hops :
        LET rest == IF inflight[h] = << >> THEN << >> ELSE Tail(inflight[h])
        IN  \/ inflight'[h] \in {inflight[h], rest}
            \/ \E p \in Pkts : inflight'[h] \in {Append(inflight[h], p), Append(rest, p)}

\* A step of the context that has the processor.
LEMMA NetfilterFlight ==
    ASSUME Uniprocessor = TRUE, NoOverrun, EmuInv, DueInv, FlightInv, NEW c \in CPUs, NetfilterStep(c)
    PROVE  FlightInv' /\ TakesTurns
<1>0. TypeInv /\ OwnerInv /\ calendar_tick \in Nat /\ due \in [Pkts -> Nat]
  BY DEF EmuInv, TypeInv
<1>1. nf[c].pkt \in Pkts /\ nf[c].pc # "idle" /\ MayRun(c)
  BY <1>0, ContextOf
     DEF NetfilterStep, nf_read_tick, nf_hop, nf_insert, nf_load_path, nf_store_path
<1>2. PICK p \in Pkts : p = nf[c].pkt
  BY <1>1
<1>3. ASSUME NEW x, nf' = [nf EXCEPT ![c] = x], nf[c].pc # "insert", x.pc # "insert",
             UNCHANGED <<packet_calendar, due, inflight, calendar_tick>>,
             \A h \in Hops \ Remote, b \in Int :
                 NotBefore(hop[h], Link[h], calendar_tick, b)
                   => NotBefore(hop'[h], Link[h], calendar_tick, b)
      PROVE  FlightInv' /\ TakesTurns
  <2>1. Inserting = {} /\ Inserting' = {}
    BY <1>0, <1>1, <1>3, InsertingAlone
  <2>2. FlightLaw(inflight, packet_calendar, hop', due, calendar_tick, {})
    BY <1>0, <1>3, <2>1, LawTurn DEF FlightInv
  <2>3. QED
    BY <1>3, <2>1, <2>2 DEF FlightInv, TakesTurns
<1>4. CASE nf_read_tick(c) \/ nf_load_path(c) \/ nf_store_path(c)
  <2>1. /\ nf[c].pc # "insert" /\ UNCHANGED <<packet_calendar, due, inflight, calendar_tick, hop>>
        /\ \E x : nf' = [nf EXCEPT ![c] = x] /\ x.pc # "insert"
    BY <1>4 DEF nf_read_tick, nf_load_path, nf_store_path, Idle
  <2>2. QED
    BY <1>3, <2>1
<1>5. CASE nf_insert(c)
  <2>1. PICK x : x = [pc |-> "load", pkt |-> p]
    OBVIOUS
  <2>2. /\ x.pc = "load" /\ nf[c].pc = "insert" /\ nf[c].pc \in Outside /\ nf' = [nf EXCEPT ![c] = x]
        /\ packet_calendar' = Calendared(packet_calendar, p, due[p])
        /\ UNCHANGED <<calendar_tick, due, hop, inflight>>
    BY <1>2, <1>5, <2>1 DEF nf_insert, Outside
  <2>3. Inserting = {p} /\ Inserting' = {}
    BY <1>0, <1>1, <1>2, <2>2, InsertingAlone
  <2>4. /\ ~On(packet_calendar, p) /\ OnceOnly(packet_calendar) /\ packet_calendar \in Calendars
    BY <1>0, <1>2, <2>2 DEF OwnerInv, OutsideFresh, TypeInv
  <2>5. FlightLaw(inflight, packet_calendar, hop, due, calendar_tick, {p})
    BY <2>3 DEF FlightInv
  <2>6. FlightLaw(inflight, packet_calendar', hop, due, calendar_tick, {})
    BY <1>0, <2>2, <2>4, <2>5, LawInsert
  <2>7. QED
    BY <2>2, <2>3, <2>6 DEF FlightInv, TakesTurns
<1>6. CASE nf_hop(c)
  <2>1. nf[c].pc = "hop" /\ nf[c].pc \in Outside /\ UNCHANGED <<calendar_tick, packet_calendar>>
    BY <1>6 DEF nf_hop, Outside
  <2>2. nf[c].curtick = calendar_tick
    BY <2>1 DEF DueInv, ContextsDue
  <2>3. PICK h \in Hops \ Remote : h = CurHop(p)
    BY <1>0, <1>2, <2>1, OutsideHop
  <2>4. PICK r :
          /\ Lawful(r, h, calendar_tick)
          /\ hop' = [hop EXCEPT ![h] = r.queue]
          /\ r.dropped => /\ nf' = [nf EXCEPT ![c] = Idle]
                          /\ UNCHANGED <<due, inflight>>
          /\ ~r.dropped => /\ nf' = [nf EXCEPT ![c] = [pc |-> "insert", pkt |-> p]]
                           /\ due' = [due EXCEPT ![p] = r.exit]
                           /\ inflight' = [inflight EXCEPT ![h] = Append(@, p)]
    BY <1>2, <1>6, <2>2, <2>3, NfHopResult
  <2>5. r.dropped \in BOOLEAN /\ r.exit \in Nat /\ InTurn(r, hop[h], Link[h], calendar_tick)
    BY <2>3, <2>4 DEF Lawful, NoOverrun
  <2>6. hop'[h] = r.queue /\ \A g \in Hops \ {h} : hop'[g] = hop[g]
    BY <2>4 DEF EmuInv, RingInv
  <2>7. CASE r.dropped
    <3>1. Idle.pc # "insert"
      BY DEF Idle
    <3>2. \A g \in Hops \ Remote, b \in Int :
            NotBefore(hop[g], Link[g], calendar_tick, b)
              => NotBefore(hop'[g], Link[g], calendar_tick, b)
      BY <2>5, <2>6 DEF InTurn
    <3>3. QED
      BY <1>3, <2>1, <2>4, <2>7, <3>1, <3>2
  <2>8. CASE ~r.dropped
    <3>1. PICK x : x = [pc |-> "insert", pkt |-> p]
      OBVIOUS
    <3>2. x.pc = "insert" /\ x.pkt = p /\ nf' = [nf EXCEPT ![c] = x]
      BY <2>4, <2>8, <3>1
    <3>3. Inserting = {} /\ Inserting' = {p}
      BY <1>0, <1>1, <2>1, <3>2, InsertingAlone
    <3>4. ~On(packet_calendar, p)
      BY <1>0, <1>2, <2>1 DEF OwnerInv, OutsideFresh
    <3>5. FlightLaw(inflight, packet_calendar, hop, due, calendar_tick, {})
      BY <3>3 DEF FlightInv
    <3>6. FlightLaw(inflight', packet_calendar, hop', due', calendar_tick, {p})
      <4>1. /\ due' = [due EXCEPT ![p] = r.exit]
            /\ inflight' = [inflight EXCEPT ![h] = Append(@, p)]
        BY <2>4, <2>8
      <4>2. QED
        BY <1>0, <2>5, <2>6, <2>8, <3>4, <3>5, <4>1, LawAccept
    <3>7. FlightInv'
      BY <2>1, <3>3, <3>6 DEF FlightInv
    <3>8. inflight \in Flights
      BY <3>5 DEF FlightLaw
    <3>9. TakesTurns
      BY <2>4, <2>8, <3>8 DEF TakesTurns, Flights
    <3>10. QED
      BY <3>7, <3>9
  <2>9. QED
    BY <2>5, <2>7, <2>8
<1>7. QED
  BY <1>4, <1>5, <1>6 DEF NetfilterStep

\* hopclock takes the first packet in flight on a hop, if the packet has crossed one, and
\* puts it at the end of the next.
LEMMA HopclockFlight ==
    ASSUME NoOverrun, EmuInv, UpInv, DueInv, FlightInv, hopclock_packet
    PROVE  FlightInv' /\ TakesTurns
<1>0. /\ TypeInv /\ OwnerInv /\ calendar_tick \in Nat /\ due \in [Pkts -> Nat]
      /\ packet_calendar \in Calendars /\ OnceOnly(packet_calendar)
  BY DEF EmuInv, TypeInv, OwnerInv
<1>1. /\ calendar_lock = "hopclock" /\ packet_calendar[NowSlot] # << >>
      /\ UNCHANGED <<calendar_tick, calendar_lock, nf>>
  BY HopclockResult
<1>2. PICK p \in Pkts : p = First
  BY <1>0, <1>1, TakenFirst
<1>4. Inserting = {} /\ Inserting' = {}
  BY <1>1 DEF Inserting, UpInv, ExclusionInv
<1>5. ASSUME NEW a \in Pkts, On(packet_calendar, a), due[a] <= due[p]
      PROVE  InSlot(packet_calendar, NowSlot, a)
  <2>1. due[p] = calendar_tick
    BY <1>2, HopclockDue
  <2>2. PICK s \in Slots : InSlot(packet_calendar, s, a)
    BY <1>5 DEF On
  <2>3. due[a] % SCHEDLEN = s /\ calendar_tick <= due[a]
    BY <2>2 DEF DueInv, SlotsDue, InReach
  <2>4. due[a] = calendar_tick
    BY <1>0, <1>5, <2>1, <2>3
  <2>5. QED
    BY <2>2, <2>3, <2>4 DEF NowSlot
<1> DEFINE out == WithoutPacket(p)
<1>6. FlightLaw(inflight, packet_calendar, hop, due, calendar_tick, {})
  BY <1>4 DEF FlightInv
<1>7. /\ FlightLaw(out, Rest, hop, due, calendar_tick, {})
      /\ \A h \in Hops : out[h] = inflight[h] \/ (inflight[h] # << >> /\ out[h] = Tail(inflight[h]))
  BY <1>0, <1>1, <1>2, <1>4, <1>5, LawRelease
<1> HIDE DEF out
<1>8. /\ Rest \in Calendars /\ OnceOnly(Rest) /\ ~On(Rest, p)
  BY <1>0, <1>1, <1>2, TakenFirst
<1>9. ASSUME NEW fate, Gone(fate),
             \A g \in Hops \ Remote, b \in Int :
                 NotBefore(hop[g], Link[g], calendar_tick, b)
                   => NotBefore(hop'[g], Link[g], calendar_tick, b)
      PROVE  FlightInv' /\ TakesTurns
  <2>1. packet_calendar' = Rest /\ inflight' = out /\ due' = due
    BY <1>2, <1>9 DEF Gone, out
  <2>2. FlightLaw(out, Rest, hop', due, calendar_tick, {})
    BY <1>0, <1>7, <1>9, LawTurn
  <2>3. FlightInv'
    BY <1>1, <1>4, <2>1, <2>2 DEF FlightInv
  <2>4. TakesTurns
    BY <1>7, <2>1 DEF TakesTurns
  <2>5. QED
    BY <2>3, <2>4
<1>10. ASSUME NEW r, Meets(First, r)
       PROVE  /\ CurHop(First) \in Hops \ Remote
              /\ r.exit \in Nat /\ InTurn(r, hop[CurHop(First)], Link[CurHop(First)], calendar_tick)
              /\ hop'[CurHop(First)] = r.queue
              /\ \A g \in Hops \ {CurHop(First)} : hop'[g] = hop[g]
  <2>1. PICK h \in Hops \ Remote : h = CurHop(First)
    BY <1>10 DEF Meets
  <2>2. Lawful(r, h, calendar_tick) /\ hop' = [hop EXCEPT ![h] = r.queue]
    BY <1>10, <2>1 DEF Meets
  <2>3. r.exit \in Nat /\ InTurn(r, hop[h], Link[h], calendar_tick)
    BY <2>1, <2>2 DEF Lawful, NoOverrun
  <2>4. hop'[h] = r.queue /\ \A g \in Hops \ {h} : hop'[g] = hop[g]
    BY <2>2 DEF EmuInv, RingInv
  <2>5. QED
    BY <2>1, <2>3, <2>4
<1>11. ASSUME NEW r, Meets(First, r), Gone("dropped") PROVE FlightInv' /\ TakesTurns
  <2>1. \A g \in Hops \ Remote, b \in Int :
          NotBefore(hop[g], Link[g], calendar_tick, b)
            => NotBefore(hop'[g], Link[g], calendar_tick, b)
    BY <1>10, <1>11 DEF InTurn
  <2>2. QED
    BY <1>9, <1>11, <2>1
<1>12. ASSUME NEW r, Meets(First, r), ~r.dropped, Rescheduled(CurHop(First), r.exit)
       PROVE  FlightInv' /\ TakesTurns
  <2>1. PICK h \in Hops \ Remote : h = CurHop(First)
    BY <1>10, <1>12
  <2>2. /\ r.exit \in Nat /\ InTurn(r, hop[h], Link[h], calendar_tick)
        /\ hop'[h] = r.queue /\ \A g \in Hops \ {h} : hop'[g] = hop[g]
    BY <1>10, <1>12, <2>1
  <2>3. /\ packet_calendar' = Calendared(Rest, p, r.exit) /\ due' = [due EXCEPT ![p] = r.exit]
        /\ inflight' = [out EXCEPT ![h] = Append(@, p)]
    BY <1>2, <1>12, <2>1 DEF Rescheduled, out
  <2>4. FlightLaw(inflight', Rest, hop', due', calendar_tick, {p})
    BY <1>0, <1>7, <1>8, <1>12, <2>2, <2>3, LawAccept
  <2>5. due' \in [Pkts -> Nat] /\ due'[p] = r.exit
    BY <1>0, <2>2, <2>3
  <2>6. FlightLaw(inflight', packet_calendar', hop', due', calendar_tick, {})
    BY <1>8, <2>3, <2>4, <2>5, LawInsert
  <2>7. FlightInv'
    BY <1>1, <1>4, <2>6 DEF FlightInv
  <2>8. out \in Flights
    BY <1>7 DEF FlightLaw
  <2>9. inflight'[h] = Append(out[h], p) /\ \A g \in Hops \ {h} : inflight'[g] = out[g]
    BY <2>3, <2>8 DEF Flights
  <2>10. TakesTurns
    BY <1>7, <2>9 DEF TakesTurns
  <2>11. QED
    BY <2>7, <2>10
<1>13. QED
  BY <1>9, <1>11, <1>12, HopclockResult

\* Every step.
LEMMA FlightStep ==
    Uniprocessor = TRUE /\ NoOverrun /\ EmuInv /\ UpInv /\ DueInv /\ FlightInv /\ [Next]_vars
      => FlightInv' /\ [TakesTurns]_vars
<1> SUFFICES ASSUME Uniprocessor = TRUE, NoOverrun, EmuInv, UpInv, DueInv, FlightInv, [Next]_vars
             PROVE  FlightInv' /\ [TakesTurns]_vars
  OBVIOUS
<1>0. TypeInv /\ calendar_tick \in Nat /\ due \in [Pkts -> Nat]
  BY DEF EmuInv, TypeInv
<1>1. CASE UNCHANGED vars \/ jiffy \/ hopclock_start \/ hopclock_end
  <2>1. UNCHANGED <<calendar_tick, packet_calendar, due, nf, hop, inflight>>
    BY <1>1 DEF vars, jiffy, hopclock_start, hopclock_end
  <2>2. Inserting' = Inserting
    BY <2>1 DEF Inserting
  <2>3. QED
    BY <2>1, <2>2 DEF FlightInv, TakesTurns
<1>2. CASE hopclock_advance
  <2>1. calendar_tick' = calendar_tick + 1 /\ UNCHANGED <<packet_calendar, due, nf, hop, inflight>>
    BY <1>2 DEF hopclock_advance
  <2>2. Inserting' = Inserting
    BY <2>1 DEF Inserting
  <2>3. \A h \in Hops \ Remote, b \in Int :
          NotBefore(hop[h], Link[h], calendar_tick, b)
            => NotBefore(hop[h], Link[h], calendar_tick', b)
    BY <1>0, <2>1 DEF NotBefore
  <2>4. FlightLaw(inflight, packet_calendar, hop, due, calendar_tick', Inserting)
    BY <1>0, <2>3, LawTurn DEF FlightInv
  <2>5. QED
    BY <2>1, <2>2, <2>4 DEF FlightInv, TakesTurns
<1>3. CASE \E c \in CPUs, p \in Pkts : filter_ipinput_accept(c, p) \/ filter_ipinput_steal(c, p)
  <2>1. PICK c \in CPUs, p \in Pkts : filter_ipinput_accept(c, p) \/ filter_ipinput_steal(c, p)
    BY <1>3
  <2>2. /\ MayRun(c) /\ nf[c] = Idle
        /\ UNCHANGED <<calendar_tick, packet_calendar, due, hop, inflight>>
    BY <2>1 DEF filter_ipinput_accept, filter_ipinput_steal, Arriving
  <2>3. Inserting' = Inserting
    <3>1. CASE nf' = nf
      BY <3>1 DEF Inserting
    <3>2. CASE nf' = [nf EXCEPT ![c] = [pc |-> "tick", pkt |-> p]]
      <4>1. PICK x : x = [pc |-> "tick", pkt |-> p]
        OBVIOUS
      <4>2. x.pc # "insert" /\ nf' = [nf EXCEPT ![c] = x] /\ nf[c].pc # "insert"
        BY <2>2, <3>2, <4>1 DEF Idle
      <4>3. QED
        BY <1>0, <2>2, <4>2, InsertingAlone
    <3>3. QED
      BY <2>1, <3>1, <3>2 DEF filter_ipinput_accept, filter_ipinput_steal
  <2>4. QED
    BY <2>2, <2>3 DEF FlightInv, TakesTurns
<1>4. CASE \E c \in CPUs : NetfilterStep(c)
  BY <1>4, NetfilterFlight
<1>5. CASE hopclock_packet
  BY <1>5, HopclockFlight
<1>6. QED
  BY <1>1, <1>2, <1>3, <1>4, <1>5 DEF Next, HopclockStep

\* On a uniprocessor kernel, with a calendar longer than any stay on a hop, a link does not
\* reorder: hopclock releases the packets a hop has accepted in the order it accepted them,
\* whatever slots of the calendar they wait in and whichever of the two contexts queued them.
THEOREM LinksAreFifo ==
    ASSUME Uniprocessor = TRUE, NoOverrun PROVE Spec => LinkFifo
<1>1. Init => FlightInv
  <2> SUFFICES ASSUME Init PROVE FlightInv
    OBVIOUS
  <2>1. inflight \in Flights /\ \A h \in Hops : Len(inflight[h]) = 0
    BY DEF Init, Flights
  <2>2. /\ FlightOnce(inflight)
        /\ \A h \in Hops, p \in Pkts : ~Carries(inflight, h, p)
        /\ \A h \in Hops, a, b \in Pkts : ~Before(inflight, h, a, b)
    BY <2>1 DEF FlightOnce, Carries, Before
  <2>3. QED
    BY <2>1, <2>2 DEF FlightInv, FlightLaw
<1>2. EmuInv /\ UpInv /\ DueInv /\ FlightInv /\ [Next]_vars => FlightInv' /\ [TakesTurns]_vars
  BY FlightStep
<1>3. Spec => [](EmuInv /\ UpInv /\ DueInv)
  BY DueInvariant
<1>4. Spec => [][TakesTurns]_vars
  BY <1>1, <1>2, <1>3, PTL DEF Spec
<1>5. QED
  BY <1>4 DEF LinkFifo, TakesTurns
=============================================================================
