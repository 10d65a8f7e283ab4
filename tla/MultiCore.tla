----------------------------- MODULE MultiCore -----------------------------
(***************************************************************************)
(* The multi-core tunnel of the FreeBSD emulator (mn_remote.c, and the part *)
(* of ip_modelnet.c that moves a packet from hop to hop).  Each hop of a    *)
(* path is emulated by the core that owns it.  When the next hop belongs to *)
(* another core, the packet's home core keeps the payload in its payload    *)
(* cache and sends only a digest, whose id is the address of the cached     *)
(* packet; when the digest has crossed the other cores' hops it returns and *)
(* mc_reunite follows that address.                                         *)
(*                                                                          *)
(* Every handler of a core runs under its mutex mn_mtx.  A handler that     *)
(* works on several packets (hopclock on the due ones, remote_input on the  *)
(* digests of one message) is a sequence of steps of which no other handler *)
(* of the core sees the middle.  The operators on one core's state return   *)
(* the set of outcomes [k, out, ...]: the core afterwards and the messages  *)
(* it has sent.  A core that corrupts its memory or follows a null pointer  *)
(* records how in flaws, and is not followed any further.                   *)
(*                                                                          *)
(* The bandwidth queue of a hop is left to BwQueue: here emulate_hop drops  *)
(* the packet or puts it into the calendar HopDelay ticks ahead.            *)
(***************************************************************************)
EXTENDS Integers, Sequences, SequencesExt, FiniteSets

CONSTANTS Cores,      \* the emulator machines
          Paths,      \* the paths: the sequence of the cores that own the hops
          Addrs,      \* addresses malloc can return for a struct packet
          MaxPackets, \* how many packets the edge nodes send
          LastArrival,\* the last tick at which they do
          MaxTick,    \* bound on time
          Expire,     \* mn.mc_expire, in ticks
          Ttl,        \* mn.mc_ttl
          Boot,       \* the value of each core's tick counter at time 0
          FlushRate,  \* REMOTE_FLUSH_RATE
          HopDelay,   \* ticks a packet spends in the calendar for one hop
          Room,       \* digests that fit into one aggregate
          MaxAggs,    \* MN_MAX_CORES
          PcacheCores,\* cores that boot with MN_PCACHE set
          AggCores,   \* cores that boot with MN_AGGREGATE set
          MaxFaults   \* how often in all a message is duplicated, mn.state is
                      \* changed through sysctl, or the module is reloaded

ASSUME MCAssumption ==
    /\ Paths \subseteq Seq(Cores) \ {<<>>}
    /\ 0 \notin Addrs
    /\ {MaxPackets, LastArrival, MaxTick, Expire, Ttl, HopDelay,
        MaxFaults} \subseteq Nat
    /\ Boot \in [Cores -> Nat]
    /\ {FlushRate, Room, MaxAggs} \subseteq Nat \ {0}
    /\ PcacheCores \subseteq Cores /\ AggCores \subseteq Cores

VARIABLES ticks,     \* time; the tick counter of core c is now(c)
          core,      \* the state of each core
          net,       \* messages sent; a lost one is never received
          serial,    \* packets that have arrived from the edge so far
          delivered, \* what forward_packet has handed to ip_forward, per packet
          faults     \* the faults that have happened

vars == <<ticks, core, net, serial, delivered, faults>>

Serials == 1..MaxPackets

\* The kernel's ticks on core c: the machines were booted at different times.
now(c) == ticks + Boot[c]

\* struct packet.  ser and crossed are history: which packet the payload belongs
\* to, and which hops it has crossed.
NoPacket == [alive |-> FALSE, id |-> 0, expire |-> 0, hop |-> 0, path |-> <<>>,
             home |-> FALSE, m |-> 0, ser |-> 0, crossed |-> <<>>]

\* remote_init and the rest of MOD_LOAD.
Booted(c) == [heap   |-> [a \in Addrs |-> NoPacket],
              pcache |-> <<>>,                       \* mn.mc_pcache
              cal    |-> <<>>,                       \* packet_calendar
              agg    |-> [o \in Cores |-> <<>>],     \* pending_xc, by destination
              pc     |-> c \in PcacheCores,          \* mn.state & MN_PCACHE
              ag     |-> c \in AggCores,             \* mn.state & MN_AGGREGATE
              clock  |-> 0,                          \* calendar_tick
              held   |-> FALSE,                      \* hopclock holds mn_mtx
              work   |-> <<>>,                       \* rest of the message remote_input is in
              many   |-> FALSE,                      \* that message has several digests
              flaws  |-> {},                         \* history: how memory was corrupted
              stale  |-> FALSE]                      \* history: freed memory was read

Sound(k) == k.flaws = {}
Flaw(k, f) == [k EXCEPT !.flaws = @ \cup {f}]
FlawIf(cond, k, f) == IF cond THEN Flaw(k, f) ELSE k

Idle(k) == Sound(k) /\ ~k.held /\ k.work = <<>>
-----------------------------------------------------------------------------
(* MN_FREE_PKT, MN_UNCACHE_PKT, malloc.  Freed memory keeps its contents     *)
(* until it is allocated again; mc_reunite only tells whether the id there   *)
(* is the address itself.                                                    *)

free(k, a) ==
    FlawIf(~k.heap[a].alive \/ a \in ToSet(k.pcache),
           [k EXCEPT !.heap[a] = IF @.id = a
                                 THEN [NoPacket EXCEPT !.id = a, !.expire = k.heap[a].expire]
                                 ELSE NoPacket], "memory")

uncache(k, a) ==
    FlawIf(a \notin ToSet(k.pcache),
           [k EXCEPT !.pcache = SelectSeq(@, LAMBDA b : b # a), !.heap[a].id = 0], "memory")

\* malloc returns any address that is not in use.
Malloc(k) == {a \in Addrs : ~k.heap[a].alive}
Store(k, a, p) == [k EXCEPT !.heap[a] = p]

\* What travels in a message; in the faulty variant the payload always goes along.
\* m is the payload of a packet that is not cached.
Digest_whole(p) == [id |-> p.id, expire |-> p.expire, hop |-> p.hop, path |-> p.path,
                    m |-> p.m, ser |-> p.ser, crossed |-> p.crossed]
Digest(p) == [id |-> p.id, expire |-> p.expire, hop |-> p.hop, path |-> p.path,
              m |-> IF p.id = 0 THEN p.m ELSE 0,
              ser |-> p.ser, crossed |-> p.crossed]

Message(o, ds) == [to |-> o, digests |-> ds]

Outcome(k, out, err) == [k |-> k, out |-> out, err |-> err]
-----------------------------------------------------------------------------
\* The outcomes of a call that can fail only under cond.
When(cond, outcomes) == IF cond THEN outcomes ELSE {}

(***************************************************************************)
(* remote_aggregate: append the digest to the aggregate for core o, taking  *)
(* one from the free list when there is none, and push it when it is full.  *)
(* remote_aggregate_send clears the aggregate whether or not the send       *)
(* fails, and the error makes emulate_nexthop free a packet that the cache  *)
(* of its home core lists.  An empty free list and a missing mbuf are not   *)
(* tested for.  The faulty variant pushes one digest too late.              *)
(***************************************************************************)
remote_aggregate_late(c, k, a, o) ==
    LET ds == Append(k.agg[o], Digest(k.heap[a]))
    IN  IF Len(ds) <= Room THEN {Outcome([k EXCEPT !.agg[o] = ds], {}, FALSE)}
        ELSE {Outcome([k EXCEPT !.agg[o] = <<>>], {Message(o, ds)}, FALSE)}

remote_aggregate(c, k, a, o) ==
    LET busy  == {x \in Cores : k.agg[x] # <<>>}
        ds    == Append(k.agg[o], Digest(k.heap[a]))
        sent  == [k EXCEPT !.agg[o] = <<>>]
    IN  IF k.agg[o] = <<>> /\ Cardinality(busy) >= MaxAggs
        THEN {Outcome(Flaw(k, "no aggregate"), {}, FALSE)}
        ELSE UNION {When(k.agg[o] = <<>>, {Outcome(Flaw(k, "no mbuf"), {}, FALSE)}),
                    When(Len(ds) < Room, {Outcome([k EXCEPT !.agg[o] = ds], {}, FALSE)}),
                    When(Len(ds) >= Room,
                         {Outcome(sent, {Message(o, ds)}, FALSE),
                          Outcome(FlawIf(k.heap[a].home, sent, "push"), {}, TRUE)})}

\* mc_pcache, and a variant that takes mc_expire for a larger unit.
mc_pcache_unit(c, k, a) == [k EXCEPT !.heap[a].expire = now(c) + 10 * Expire,
                                     !.heap[a].id = a,
                                     !.pcache = Append(@, a)]
mc_pcache(c, k, a) == [k EXCEPT !.heap[a].expire = now(c) + Expire,
                                !.heap[a].id = a,
                                !.pcache = Append(@, a)]

(***************************************************************************)
(* remote_hop: tunnel the packet at a to core o.  A home packet is cached   *)
(* first; without the cache the payload goes along.  When no mbuf can be    *)
(* had a home packet is removed from the cache, whether it is there or not; *)
(* when the send fails, only if caching is on.                              *)
(***************************************************************************)
remote_hop(c, k, a, o) ==
    LET home  == k.heap[a].home
        fresh == Store(k, a, [k.heap[a] EXCEPT !.id = 0, !.expire = 0])
        k1    == IF ~home THEN k ELSE IF k.pc THEN mc_pcache(c, fresh, a) ELSE fresh
        p     == k1.heap[a]
        k2    == IF p.id = 0 THEN [k1 EXCEPT !.heap[a].m = 0] ELSE k1
    IN  IF k.heap[a].hop = 0 THEN {Outcome(k, {}, TRUE)}
        ELSE IF k.ag /\ p.id # 0 THEN remote_aggregate(c, k1, a, o)
        ELSE {Outcome(k2, {Message(o, <<Digest(p)>>)}, FALSE),
              Outcome(IF home /\ k.pc THEN uncache(k2, a) ELSE k2, {}, TRUE)}
             \cup {Outcome(FlawIf(home /\ ~k.pc, IF home THEN uncache(k1, a) ELSE k1, "no mbuf"),
                           {}, TRUE)}

(***************************************************************************)
(* emulate_nexthop: the packet at a starts its next hop.  A packet that has *)
(* crossed all hops is forwarded, or its digest sent home, and freed.  hop  *)
(* is incremented whatever became of the packet; after a remote hop the     *)
(* packet is freed unless its payload waits in the cache, and freed all the *)
(* same when the remote hop has failed.                                     *)
(***************************************************************************)
NoDelivery == <<>>
Delivery(p) == <<[ser |-> p.m, path |-> p.path, crossed |-> p.crossed]>>

forward_packet(c, k, a) ==
    LET p == k.heap[a]
    IN  IF p.m = 0
        THEN {[k |-> free(r.k, a), out |-> r.out, fwd |-> NoDelivery]
                : r \in remote_hop(c, k, a, Head(p.path))}
        ELSE {[k |-> free(k, a), out |-> {}, fwd |-> Delivery(p)]}
             \cup When(~p.home, {[k |-> free(k, a), out |-> {}, fwd |-> NoDelivery]})

\* emulate_hop, as far as this module goes: accepted or dropped.
local_hop(k, a) ==
    LET p == k.heap[a]
        next == Store(k, a, [p EXCEPT !.hop = @ + 1,
                                      !.crossed = Append(@, <<p.ser, p.hop + 1>>)])
    IN  {[k |-> [next EXCEPT !.cal = Append(@, [pkt |-> a, due |-> k.clock + HopDelay])],
          out |-> {}, fwd |-> NoDelivery],
         [k |-> free(k, a), out |-> {}, fwd |-> NoDelivery]}

\* The packet after a remote hop, and whether it is freed; the faulty variant
\* frees it although its payload is cached.
after_remote_free(r, a) ==
    [k |-> free([r.k EXCEPT !.heap[a].hop = @ + 1], a), out |-> r.out, fwd |-> NoDelivery]
after_remote(r, a) ==
    LET k == [r.k EXCEPT !.heap[a].hop = @ + 1]
        p == k.heap[a]
    IN  [k   |-> IF ~(p.home /\ p.id # 0) \/ r.err THEN free(k, a) ELSE k,
         out |-> r.out, fwd |-> NoDelivery]

emulate_nexthop(c, k, a) ==
    LET p == k.heap[a]
    IN  IF p.hop = Len(p.path) THEN forward_packet(c, k, a)
        ELSE LET owner == p.path[p.hop + 1]
             IN  IF owner = c THEN local_hop(k, a)
                 ELSE IF p.hop = 0
                 THEN {[k |-> free(k, a), out |-> {}, fwd |-> NoDelivery]}
                 ELSE {after_remote(r, a) : r \in remote_hop(c, k, a, owner)}
-----------------------------------------------------------------------------
(***************************************************************************)
(* mc_reunite, for the digest d of one of this core's own packets: the      *)
(* address in the digest is followed once the digest's expiry has been      *)
(* tested, and the packet found there must carry the same id and expiry.    *)
(* The faulty variants accept a digest in its last tick, and do not compare *)
(* the expiry.                                                              *)
(***************************************************************************)
fresh_late(c, d) == d.expire >= now(c) /\ d.hop # 0
fresh(c, d) == d.expire > now(c) /\ d.hop # 0

reunites_id(c, k, d) == fresh(c, d) /\ k.heap[d.id].id = d.id
reunites(c, k, d) ==
    /\ fresh(c, d)
    /\ k.heap[d.id].id = d.id
    /\ k.heap[d.id].expire = d.expire

reads_freed(c, k, d) == fresh(c, d) /\ ~k.heap[d.id].alive

\* The incoming packet at a gives the cached one its hop and is freed.  A cached
\* packet that is the incoming one itself is on no list, and is gone when it is used.
reunited(k, d, a) ==
    LET u == uncache(k, d.id)
        j == [u EXCEPT !.heap[d.id].hop = d.hop, !.heap[d.id].crossed = d.crossed]
    IN  FlawIf(d.id = a, free(j, a), "itself")

\* The packet remote_input allocates for a digest.
Incoming(c, d) ==
    [alive |-> TRUE, id |-> d.id, expire |-> d.expire, hop |-> d.hop, path |-> d.path,
     home |-> Head(d.path) = c, m |-> d.m, ser |-> d.ser, crossed |-> d.crossed]

\* An error drops the rest of the message, and the packet at a.
dropped_rest(k) == [k |-> [k EXCEPT !.work = <<>>], out |-> {}, fwd |-> NoDelivery]
remote_input_error(k, a) == dropped_rest(free(k, a))

(***************************************************************************)
(* remote_input's loop body, for the next digest d of the message.  The     *)
(* packet is allocated first, and has the digest's id and expiry when       *)
(* mc_reunite looks for the cached one.  A packet that comes as a whole     *)
(* takes the mbuf: the test of the loop follows a null pointer when the     *)
(* packet has been emulated.                                                *)
(***************************************************************************)
remote_input(c, k0) ==
    LET d == Head(k0.work)
        k == [k0 EXCEPT !.work = Tail(@)]
        whole == d.id = 0
        wrong_size == ~whole /\ ~k.ag /\ k.many
        own == Head(d.path) = c /\ ~whole
        Arrived(a) == Store(k, a, Incoming(c, d))
        Read(a) == [Arrived(a) EXCEPT !.stale = @ \/ reads_freed(c, Arrived(a), d)]
        Handled(a) ==
            IF wrong_size \/ Ttl <= 0 THEN {remote_input_error(Arrived(a), a)}
            ELSE IF own /\ ~reunites(c, Arrived(a), d) THEN {remote_input_error(Read(a), a)}
            ELSE IF own /\ d.id = a THEN {dropped_rest(reunited(Read(a), d, a))}
            ELSE IF own THEN emulate_nexthop(c, reunited(Read(a), d, a), d.id)
            ELSE {[r EXCEPT !.k = FlawIf(whole, @, "whole")]
                    : r \in emulate_nexthop(c, Arrived(a), a)}
    IN  IF Malloc(k) = {} THEN {dropped_rest(k)} ELSE UNION {Handled(a) : a \in Malloc(k)}

\* remote_flush: the expired head of the cache.
remote_flush(c, k) ==
    LET old == {k.pcache[i] : i \in {j \in 1..Len(k.pcache) :
                   \A l \in 1..j : k.heap[k.pcache[l]].expire <= now(c)}}
    IN  [k EXCEPT !.pcache = SelectSeq(@, LAMBDA a : a \notin old),
                  !.heap = [a \in Addrs |-> IF a \in old
                              THEN NoPacket
                              ELSE k.heap[a]]]
-----------------------------------------------------------------------------
Init == /\ ticks = 0
        /\ core = [c \in Cores |-> Booted(c)]
        /\ net = {}
        /\ serial = 0
        /\ delivered = [s \in Serials |-> <<>>]
        /\ faults = [dups |-> 0, switches |-> 0, reloads |-> 0]

MoreFaults == faults.dups + faults.switches + faults.reloads < MaxFaults

\* Core c takes the step with outcome r; of a core with a flaw nothing else is kept.
Become(c, r) ==
    /\ core' = [core EXCEPT ![c] = IF Sound(r.k) THEN r.k
                                   ELSE [Booted(c) EXCEPT !.flaws = r.k.flaws,
                                                          !.stale = r.k.stale]]
    /\ net' = net \cup r.out
    /\ delivered' = IF r.fwd = NoDelivery THEN delivered
                    ELSE [delivered EXCEPT ![r.fwd[1].ser] =
                            Append(@, r.fwd[1])]

\* filter_ipinput with a packet from an edge node; emulate_path looks up its path.
Arriving(path) == [alive |-> TRUE, id |-> 0, expire |-> 0, hop |-> 0, path |-> path,
                   home |-> TRUE, m |-> serial + 1, ser |-> serial + 1,
                   crossed |-> <<>>]

filter_ipinput(c, path) ==
    /\ Idle(core[c])
    /\ serial < MaxPackets /\ ticks <= LastArrival
    /\ \E a \in Malloc(core[c]) :
         \E r \in emulate_nexthop(c, Store(core[c], a, Arriving(path)), a) : Become(c, r)
    /\ serial' = serial + 1
    /\ UNCHANGED <<ticks, faults>>

\* filter_ipinput with a message from another core: remote_input takes it; the
\* network may deliver it again later.
Receive(m, again) ==
    LET c == m.to
    IN  /\ Idle(core[c])
        /\ again => MoreFaults
        /\ core' = [core EXCEPT ![c].work = m.digests, ![c].many = Len(m.digests) > 1]
        /\ net' = IF again THEN net ELSE net \ {m}
        /\ faults' = IF again THEN [faults EXCEPT !.dups = @ + 1] ELSE faults
        /\ UNCHANGED <<ticks, serial, delivered>>

RemoteInput(c) ==
    /\ Sound(core[c]) /\ core[c].work # <<>>
    /\ \E r \in remote_input(c, core[c]) : Become(c, r)
    /\ UNCHANGED <<ticks, serial, faults>>

\* The entries of the calendar slot hopclock is at.
Due(k) == {i \in 1..Len(k.cal) : k.cal[i].due = k.clock}

\* hopclock, holding the mutex: the next packet of the slot,
HopclockPacket(c) ==
    LET k == core[c]
    IN  /\ Sound(k) /\ k.work = <<>> /\ k.clock # ticks /\ Due(k) # {}
        /\ LET i == CHOOSE j \in Due(k) : \A l \in Due(k) : j <= l
               k1 == [k EXCEPT !.cal = RemoveAt(@, i), !.held = TRUE]
           IN  \E r \in emulate_nexthop(c, k1, k.cal[i].pkt) : Become(c, r)
        /\ UNCHANGED <<ticks, serial, faults>>

\* and when the slot is empty: the next tick, all aggregates are sent, and every
\* FlushRate ticks the cache is scanned.  A send that fails loses the message.
HopclockEnd(c) ==
    LET k  == core[c]
        k1 == [k EXCEPT !.clock = @ + 1, !.held = FALSE,
                        !.agg = IF k.ag THEN [o \in Cores |-> <<>>] ELSE @]
        out == IF k.ag THEN {Message(o, k.agg[o]) : o \in {x \in Cores : k.agg[x] # <<>>}}
               ELSE {}
        k2 == IF now(c) % FlushRate = 0 /\ k.pc THEN remote_flush(c, k1) ELSE k1
    IN  /\ Sound(k) /\ k.work = <<>> /\ k.clock # ticks /\ Due(k) = {}
        /\ Become(c, [k |-> k2, out |-> out, fwd |-> NoDelivery])
        /\ UNCHANGED <<ticks, serial, faults>>

\* Time passes.  The machines keep up: every hopclock runs in every tick.
Tick == /\ ticks < MaxTick
        /\ \A c \in Cores : Sound(core[c]) => core[c].clock = ticks /\ core[c].work = <<>>
        /\ ticks' = ticks + 1
        /\ UNCHANGED <<core, net, serial, delivered, faults>>

\* sysctl net.inet.ip.modelnet.mc.state: the administrator changes one option.
SetState(c, option) ==
    /\ MoreFaults /\ Sound(core[c])
    /\ core' = [core EXCEPT ![c] = IF option = "pcache" THEN [@ EXCEPT !.pc = ~@]
                                   ELSE [@ EXCEPT !.ag = ~@]]
    /\ faults' = [faults EXCEPT !.switches = @ + 1]
    /\ UNCHANGED <<ticks, net, serial, delivered>>

\* MOD_UNLOAD and MOD_LOAD: remote_uninit frees the cached packets; those in the
\* calendar are not freed.
Reload(c) ==
    LET k == core[c]
        cached == ToSet(k.pcache)
    IN  /\ MoreFaults /\ Idle(k)
        /\ core' = [core EXCEPT ![c] = [Booted(c) EXCEPT
                      !.clock = ticks,
                      !.heap = [a \in Addrs |-> IF a \in cached
                                  THEN NoPacket
                                  ELSE k.heap[a]],
                      !.stale = k.stale]]
        /\ faults' = [faults EXCEPT !.reloads = @ + 1]
        /\ UNCHANGED <<ticks, net, serial, delivered>>

Next == \/ Tick
        \/ \E c \in Cores : \/ \E path \in Paths : filter_ipinput(c, path)
                            \/ RemoteInput(c)
                            \/ HopclockPacket(c)
                            \/ HopclockEnd(c)
                            \/ \E option \in {"pcache", "aggregate"} : SetState(c, option)
                            \/ Reload(c)
        \/ \E m \in net, again \in BOOLEAN : Receive(m, again)

\* softclock calls hopclock in every tick, and a handler that has been entered
\* finishes.  The network owes nothing.
Fairness == /\ WF_vars(Tick)
            /\ \A c \in Cores : /\ WF_vars(RemoteInput(c))
                                /\ WF_vars(HopclockPacket(c))
                                /\ WF_vars(HopclockEnd(c))

Spec == Init /\ [][Next]_vars /\ Fairness
-----------------------------------------------------------------------------
\* Type.
TypeOK ==
    /\ ticks \in 0..MaxTick
    /\ \A c \in {x \in Cores : Sound(core[x])} : LET k == core[c] IN
         /\ k.clock \in {ticks - 1, ticks}
         /\ ToSet(k.pcache) \subseteq Addrs
         /\ \A i \in 1..Len(k.cal) : k.cal[i].pkt \in Addrs
         /\ \A o \in Cores : Len(k.agg[o]) < Room

\* A packet that leaves for its edge node carries its own payload and has
\* crossed every hop of its path, in order and once: whatever became of the
\* digests on the way, mc_reunite joins a payload only with the digest that was
\* made from it last.
CrossesPath ==
    \A s \in Serials : \A i \in 1..Len(delivered[s]) :
        LET d == delivered[s][i]
        IN  d.crossed = [h \in 1..Len(d.path) |-> <<s, h>>]

\* A payload is forwarded at most once, even when the network delivers a digest
\* twice or the payload travels without the cache.
AtMostOnce == \A s \in Serials : Len(delivered[s]) <= 1

\* On a core that has met none of the flaws below every allocated packet is either in
\* the calendar or in the payload cache, once, and neither lists a freed packet
\* (packets in the calendar of an unloaded module are leaked).  Nothing else frees or
\* unlinks a packet wrongly: "push" is a full aggregate that cannot be sent, "no mbuf"
\* a shortage of mbufs.  A digest is matched with the packet allocated for itself only
\* after a duplicate or a reload, and the loop test of remote_input follows a null
\* pointer only when caching has been switched off; an aggregate is missing only when
\* there are more cores than MN_MAX_CORES.
Listed(k, a) == Len(SelectSeq(k.pcache, LAMBDA b : b = a))
                + Len(SelectSeq(k.cal, LAMBDA e : e.pkt = a))
OneOwner ==
    \A c \in Cores : LET k == core[c] IN
        /\ "itself" \in k.flaws => faults.dups > 0 \/ faults.reloads > 0
        /\ "whole" \in k.flaws => faults.switches > 0
        /\ "no aggregate" \in k.flaws => MaxAggs < Cardinality(Cores) - 1
        /\ k.flaws \subseteq {"memory"} => k.flaws = {}
        /\ Sound(k) => \A a \in Addrs :
             IF k.heap[a].alive THEN Listed(k, a) = 1 \/ faults.reloads > 0
                                ELSE Listed(k, a) = 0

\* A full aggregate that cannot be sent does no harm at the packet's home core.  This
\* is not so: the packet is freed while the cache lists it.
PushSafe == \A c \in Cores : "push" \notin core[c].flaws

\* The expiry a digest carries is all that protects mc_reunite from following
\* the address of a freed packet.  It is enough as long as no message is
\* duplicated and the module stays loaded.
ReuniteFindsPacket ==
    (\E c \in Cores : core[c].stale) => faults.dups > 0 \/ faults.reloads > 0

\* The cache never keeps a payload for good: whatever is lost on the way, if
\* caching stays on and the core is sound, the cleaner empties the cache.
CacheDrains ==
    \A c \in Cores : <>[](core[c].pc) => <>[](core[c].pcache = <<>> \/ ~Sound(core[c]))
=============================================================================
