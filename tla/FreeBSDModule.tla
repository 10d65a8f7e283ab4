--------------------------- MODULE FreeBSDModule ---------------------------
(***************************************************************************)
(* The FreeBSD module's topology tables (mn_pathtable.c), the extensible    *)
(* queues with their timers (mn_xtq.c, and the allocation side of           *)
(* mn_xcp.c), and the module events, driven by modelload and modelmod while *)
(* packets arrive and hopclock runs.                                        *)
(*                                                                          *)
(* sysctl serialises its handlers.  A handler's section under mn_mtx is one *)
(* step; what sysctl_hophandle does outside it is a step of its own.        *)
(* hopclock holds mn_mtx while it works off a calendar slot.  A place in a  *)
(* calendar is the number of ticks still to go.  What a timer computes is   *)
(* left to XcpRouter: here it is armed again after one of Delays.           *)
(*                                                                          *)
(* The kernel is followed until it uses memory that is not there: wild then *)
(* says how, and met what had happened before that can lead to it.          *)
(***************************************************************************)
EXTENDS Integers, Sequences, FiniteSets, SequencesExt

CONSTANTS Models,      \* [xtq: type of each hop, nodes, routes: set of [src, dst, hops]]
          Hosts,       \* addresses; in every model the first ones are its nodes
          XtqTypes,    \* queue types sysctl_hopmodhandle is called with
          Delays,      \* ticks until a timer fires or a packet has crossed a hop
          BlockSize,   \* NUM_HOP_SCHEDS
          MaxBlocks,   \* MAX_ALLOCATIONS
          MaxLoads, MaxMods, MaxReloads, \* how often modelload, hopmod, kldunload run
          MaxPackets   \* packets in the emulator at a time

ASSUME FreeBSDAssumption ==
    /\ Hosts \subseteq Nat
    /\ XtqTypes \subseteq Nat
    /\ Delays \subseteq Nat \ {0}
    /\ {BlockSize, MaxBlocks} \subseteq Nat \ {0}
    /\ {MaxLoads, MaxMods, MaxReloads, MaxPackets} \subseteq Nat

\* What modelload is given: routes over hops between the nodes of the model, one for
\* each pair, as allpairs writes them.
ASSUME ModelAssumption ==
    \A m \in Models :
        /\ m = [xtq |-> m.xtq, nodes |-> m.nodes, routes |-> m.routes]
        /\ m.nodes \in Nat
        /\ m.routes \subseteq [src : 0..(m.nodes - 1), dst : 0..(m.nodes - 1), hops : Seq(Nat)]
        /\ \A r, t \in m.routes : r.src = t.src /\ r.dst = t.dst => r = t

VARIABLES loaded,    \* ip_dn_io_ptr is set
          hoptable,  \* the allocation hoptable points to; 0 is NULL
          hopcount,
          q,         \* the extensible queues and their timers, see NoQueues
          nodetable,
          nodecount,
          pathtable, \* path arrays by pair of nodes, 0 is NULL; <<>> for no table
          paths,     \* the path arrays: [live, hops], a hop being [table, hop]
          pkts,      \* packet_calendar: [path, at, left, route, crossed]
          busy,      \* hopclock holds mn_mtx
          admin,     \* modelload: [pc, model, routes still to be written]
          used,      \* how often each of the bounded operations has run
          tables,    \* hop tables allocated so far
          met,       \* history: those of Causes that have happened
          wild,      \* history: those of Causes that made the kernel use freed or unset memory
          last       \* history: the packet forwarded last, [route, crossed]

vars == <<loaded, hoptable, hopcount, q, nodetable, nodecount, pathtable, paths, pkts,
          busy, admin, used, tables, met, wild, last>>

\* Packets were under way when their model was replaced; an XCP pipe went and left its
\* timers; a hop has XCP's functions and no pipe; a route has no hop.
Causes == {"model replaced", "pipe gone", "no pipe", "empty route"}

XTQ_NOXTQ == 0
XTQ_XCP == 1
\* The entries of qsw before the terminating one, counted by xtq_init.
num_qsw_entries == 2

\* xtq_init, whose first block may not be allocated.  xtq[h] is hop h's [type, pipe]:
\* pipe says whether xt_hop is set.  missed is a history: the <<hop, kind>> whose timer
\* could not be scheduled when it was tried last.
NoQueues(ok) == [xtq |-> <<>>, pipes |-> 0, up |-> FALSE, timers |-> <<>>, missed |-> {},
                 free |-> IF ok THEN BlockSize ELSE 0, blocks |-> IF ok THEN 1 ELSE 0]

Init == /\ loaded = TRUE
        /\ hoptable = 0 /\ hopcount = 0
        /\ \E ok \in BOOLEAN : q = NoQueues(ok)
        /\ nodetable = [a \in Hosts |-> 0] /\ nodecount = 0
        /\ pathtable = <<>> /\ paths = <<>>
        /\ pkts = <<>>
        /\ busy = FALSE
        /\ admin = [pc |-> "idle", routes |-> {},
                    model |-> [xtq |-> <<>>, nodes |-> 0, routes |-> {}]]
        /\ used = [loads |-> 0, mods |-> 0, reloads |-> 0]
        /\ tables = 0
        /\ met = {} /\ wild = {}
        /\ last = [route |-> <<>>, crossed |-> <<>>]
-----------------------------------------------------------------------------
(* The extensible queues.  The operators take and return a value of q.       *)

\* XTQ_SCHEDULE_HOP: with an empty free list another block is allocated, if malloc has
\* it (ok), up to MaxBlocks; otherwise the timer is not scheduled.
XTQ_SCHEDULE_HOP(s, timer, ok) ==
    LET full == s.free = 0 /\ (s.blocks = MaxBlocks \/ ~ok)
        who  == {<<timer.hop, timer.kind>>}
    IN  IF full THEN [s EXCEPT !.missed = @ \cup who]
        ELSE [s EXCEPT !.missed = @ \ who,
                       !.timers = Append(@, timer),
                       !.blocks = IF s.free = 0 THEN @ + 1 ELSE @,
                       !.free = IF s.free = 0 THEN BlockSize - 1 ELSE @ - 1]

Timer(table, h, kind, left) == [table |-> table, hop |-> h, kind |-> kind, left |-> left]

\* What the kernel decides for xcp_alloc_pipe: the random delays, and which of the
\* allocations (the pipe, a block for each timer) succeed.
Outcomes == [pipe : BOOLEAN, Tq : Delays, Te : Delays, okq : BOOLEAN, oke : BOOLEAN]

\* xcp_alloc_pipe; xcp_init resets the count.  Without memory for the pipe it has
\* counted it, and returns before the timers.
xcp_alloc_pipe(s, table, h, d) ==
    LET s1 == [s EXCEPT !.xtq[h] = [type |-> XTQ_XCP, pipe |-> d.pipe],
                        !.pipes = IF s.up THEN @ + 1 ELSE 1,
                        !.up = TRUE]
        s2 == XTQ_SCHEDULE_HOP(s1, Timer(table, h, "Tq", d.Tq), d.okq)
    IN  IF d.pipe THEN XTQ_SCHEDULE_HOP(s2, Timer(table, h, "Te", d.Te), d.oke) ELSE s1

\* xcp_free_pipe, which leaves the timers and xt_hop alone.  The faulty variant
\* does not notice the last pipe.
xcp_free_pipe_on(s, h) == [s EXCEPT !.pipes = @ - 1]
xcp_free_pipe(s, h) == [s EXCEPT !.pipes = @ - 1, !.up = @ /\ s.pipes # 1]

\* xtq_install; an unknown type gets the last entry of qsw, which is XCP, and no pipe.
xtq_install(s, table, h, type, d) ==
    IF type > num_qsw_entries
    THEN [s EXCEPT !.xtq[h] = [type |-> XTQ_XCP, pipe |-> FALSE]]
    ELSE IF type = XTQ_XCP THEN xcp_alloc_pipe(s, table, h, d)
    ELSE [s EXCEPT !.xtq[h] = [type |-> XTQ_NOXTQ, pipe |-> FALSE]]

xtq_free(s, h) == IF s.xtq[h].type = XTQ_XCP THEN xcp_free_pipe(s, h) ELSE s

\* The loops over the hop table: the queues after the first i hops.
Uninstalled(s, n) ==
    LET f[i \in 0..n] == IF i = 0 THEN s ELSE xtq_free(f[i - 1], i)
    IN  f
Installed(s, table, types, d) ==
    LET f[i \in 0..Len(types)] ==
            IF i = 0 THEN s ELSE xtq_install(f[i - 1], table, i, types[i], d[i])
    IN  f

\* History: what a handler that changes the queues has brought about.
PipeLeft == \E h \in 1..Len(q.xtq) : q.xtq[h].pipe /\ ~(h \in 1..Len(q'.xtq) /\ q'.xtq[h].pipe)
PipeMissing == \E h \in 1..Len(q'.xtq) : q'.xtq[h].type = XTQ_XCP /\ ~q'.xtq[h].pipe
QueueEvents == (IF PipeLeft THEN {"pipe gone"} ELSE {}) \cup (IF PipeMissing THEN {"no pipe"} ELSE {})
-----------------------------------------------------------------------------
(* The tables.                                                               *)

\* The path arrays in the table in force.
InTable == {pathtable[p] : p \in DOMAIN pathtable} \ {0}

\* free_path: its effect on the path arrays; the faulty variant forgets the last
\* column of the table.
freed_paths_short ==
    LET these == {pathtable[p] : p \in {x \in DOMAIN pathtable : x[2] # nodecount - 1}}
    IN  [i \in 1..Len(paths) |-> [paths[i] EXCEPT !.live = @ /\ i \notin these]]
freed_paths == [i \in 1..Len(paths) |-> [paths[i] EXCEPT !.live = @ /\ i \notin InTable]]

\* free_path, and a variant that leaves the pointer to the table.
free_path_keep == /\ paths' = freed_paths
                  /\ nodecount' = 0
                  /\ UNCHANGED pathtable
free_path == /\ paths' = freed_paths
             /\ pathtable' = <<>>
             /\ nodecount' = 0

uninit_paths ==
    /\ free_path
    /\ q' = [Uninstalled(q, hopcount)[hopcount] EXCEPT !.xtq = <<>>, !.missed = {}]
    /\ hoptable' = 0 /\ hopcount' = 0

\* sysctl_hophandle: the old tables go,
sysctl_hophandle(model) ==
    /\ loaded /\ ~busy /\ admin.pc = "idle" /\ used.loads < MaxLoads
    /\ uninit_paths
    /\ met' = met \cup QueueEvents \cup (IF pkts = <<>> THEN {} ELSE {"model replaced"})
    /\ admin' = [pc |-> "table", model |-> model, routes |-> model.routes]
    /\ used' = [used EXCEPT !.loads = @ + 1]
    /\ UNCHANGED <<loaded, nodetable, pkts, busy, tables, wild, last>>

\* the new one is allocated outside the mutex,
hophandle_table ==
    /\ admin.pc = "table"
    /\ tables' = tables + 1
    /\ hoptable' = tables + 1
    /\ admin' = [admin EXCEPT !.pc = "hops"]
    /\ UNCHANGED <<loaded, hopcount, q, nodetable, nodecount, pathtable, paths, pkts,
                   busy, used, met, wild, last>>

\* and filled in under it.
hophandle_hops ==
    LET types == admin.model.xtq
        none  == [i \in 1..Len(types) |-> [type |-> XTQ_NOXTQ, pipe |-> FALSE]]
    IN  /\ admin.pc = "hops" /\ ~busy
        /\ hopcount' = Len(types)
        /\ \E d \in [{i \in 1..Len(types) : types[i] = XTQ_XCP} -> Outcomes] :
             q' = Installed([q EXCEPT !.xtq = none], hoptable, types, d)[Len(types)]
        /\ met' = met \cup QueueEvents
        /\ admin' = [admin EXCEPT !.pc = "nodes"]
        /\ UNCHANGED <<loaded, hoptable, nodetable, nodecount, pathtable, paths, pkts,
                       busy, used, tables, wild, last>>

\* nodetable is an opaque sysctl: no mutex.  Addresses in order of the hosts.
write_nodetable ==
    /\ admin.pc = "nodes"
    /\ nodetable' = [a \in Hosts |-> IF a < admin.model.nodes THEN a ELSE -1]
    /\ admin' = [admin EXCEPT !.pc = "count"]
    /\ UNCHANGED <<loaded, hoptable, hopcount, q, nodecount, pathtable, paths, pkts,
                   busy, used, tables, met, wild, last>>

sysctl_nodecount ==
    LET n == admin.model.nodes
    IN  /\ admin.pc = "count" /\ ~busy
        /\ IF n = nodecount THEN UNCHANGED <<paths, pathtable, nodecount>>
           ELSE /\ paths' = freed_paths
                /\ nodecount' = n
                /\ pathtable' = [p \in (0..n - 1) \X (0..n - 1) |-> 0]
        /\ admin' = [admin EXCEPT !.pc = IF admin.routes = {} THEN "idle" ELSE "routes"]
        /\ UNCHANGED <<loaded, hoptable, hopcount, q, nodetable, pkts, busy, used, tables,
                       met, wild, last>>

\* The path array of a route: pointers into the hop table.  The faulty variant
\* leaves out the last hop.
PathArray_short(r) == [live |-> TRUE,
                       hops |-> [i \in 1..(Len(r.hops) - 1) |-> [table |-> hoptable, hop |-> r.hops[i]]]]
PathArray(r) == [live |-> TRUE,
                 hops |-> [i \in 1..Len(r.hops) |-> [table |-> hoptable, hop |-> r.hops[i]]]]

\* sysctl_pathentry; when the allocation fails modelload gives up.
sysctl_pathentry(r, fails) ==
    /\ admin.pc = "routes" /\ ~busy
    /\ pathtable' = [pathtable EXCEPT ![<<r.src, r.dst>>] = IF fails THEN 0 ELSE Len(paths) + 1]
    /\ paths' = IF fails THEN paths ELSE Append(paths, PathArray(r))
    /\ met' = met \cup (IF fails \/ r.hops # <<>> THEN {} ELSE {"empty route"})
    /\ admin' = [admin EXCEPT !.routes = @ \ {r},
                              !.pc = IF fails \/ admin.routes = {r} THEN "idle" ELSE @]
    /\ UNCHANGED <<loaded, hoptable, hopcount, q, nodetable, nodecount, pkts, busy, used,
                   tables, wild, last>>

\* sysctl_hopmodhandle, between any two sysctls of modelload: the queue type of hop h; the
\* rates are not modelled here, and the hop stays with this core.
sysctl_hopmodhandle(h, type) ==
    /\ loaded /\ ~busy /\ admin.pc \notin {"table", "hops"} /\ used.mods < MaxMods
    /\ h <= hopcount
    /\ \E d \in Outcomes : q' = xtq_install(xtq_free(q, h), hoptable, h, type, d)
    /\ met' = met \cup QueueEvents
    /\ used' = [used EXCEPT !.mods = @ + 1]
    /\ UNCHANGED <<loaded, hoptable, hopcount, nodetable, nodecount, pathtable, paths, pkts,
                   busy, admin, tables, wild, last>>
-----------------------------------------------------------------------------
(* Packets and the clock.                                                    *)

\* A hop that is used: is it there, and does it lack the pipe its functions rely on?
InForce(x) == x.table = hoptable /\ x.hop \in 1..hopcount
Pipeless(x) == q.xtq[x.hop].type = XTQ_XCP /\ ~q.xtq[x.hop].pipe

\* What is wrong with what emulate_nexthop and emulate_hop read for packet p: its path
\* array, the hop it has left, which is used for the dequeue, and the next one.
\* The emulator of a path's first hop is read although there may be none.
Faults(p) ==
    LET path == paths[p.path]
        hops == {path.hops[i] : i \in {p.at, p.at + 1} \cap (1..Len(path.hops))}
    IN  {c \in Causes :
           \/ c = "model replaced" /\ (~path.live \/ \E x \in hops : ~InForce(x))
           \/ c = "no pipe" /\ \E x \in hops : InForce(x) /\ Pipeless(x)
           \/ c = "empty route" /\ Len(path.hops) = 0}

\* emulate_nexthop and emulate_hop: packet p, which has crossed p.at hops, goes on.
emulate_nexthop(p, calendar, left) ==
    LET path == paths[p.path]
        bad  == Faults(p) # {}
        end  == p.at = Len(path.hops)
        next == [p EXCEPT !.at = @ + 1, !.left = left,
                          !.crossed = Append(@, path.hops[p.at + 1].hop)]
    IN  /\ wild' = wild \cup Faults(p)
        /\ pkts' = IF bad \/ end THEN calendar ELSE Append(calendar, next)
        /\ last' = IF end /\ ~bad THEN [route |-> p.route, crossed |-> p.crossed] ELSE last

lookup_path(src, dst) ==
    IF -1 \in {nodetable[src], nodetable[dst]} \/ pathtable = <<>> THEN 0
    ELSE pathtable[<<nodetable[src], nodetable[dst]>>]

\* History: the route of the pair in the model given to modelload last.
RouteOf(src, dst) ==
    LET rs == {r \in admin.model.routes : r.src = src /\ r.dst = dst}
    IN  IF rs = {} THEN <<>> ELSE (CHOOSE r \in rs : TRUE).hops

\* filter_ipinput and emulate_path.  The packet may be dropped by its first hop.
filter_ipinput(src, dst) ==
    LET i == lookup_path(src, dst)
        p == [path |-> i, at |-> 0, left |-> 0, crossed |-> <<>>,
              route |-> RouteOf(src, dst)]
    IN  /\ loaded /\ ~busy /\ Len(pkts) < MaxPackets
        /\ i # 0
        /\ \E left \in Delays : emulate_nexthop(p, pkts, left)
        /\ UNCHANGED <<loaded, hoptable, hopcount, q, nodetable, nodecount, pathtable, paths,
                       busy, admin, used, tables, met>>

Due(calendar) == {i \in 1..Len(calendar) : calendar[i].left = 0}
First(s) == CHOOSE i \in s : \A j \in s : i <= j

\* hopclock: the packets of the slot,
hopclock_packet ==
    /\ loaded /\ Due(pkts) # {}
    /\ LET i == First(Due(pkts))
       IN  \E left \in Delays : emulate_nexthop(pkts[i], RemoveAt(pkts, i), left)
    /\ busy' = TRUE
    /\ UNCHANGED <<loaded, hoptable, hopcount, q, nodetable, nodecount, pathtable, paths,
                   admin, used, tables, met>>

HasPipe(t) == InForce(t) /\ q.xtq[t.hop].pipe

\* Timer i fires: Tq_timeout or Te_timeout uses the pipe and arms itself again, and
\* then the old scheduler is freed.  The faulty variant does not free it.
fired_leak(i, left, ok) ==
    XTQ_SCHEDULE_HOP([q EXCEPT !.timers = RemoveAt(@, i)], [q.timers[i] EXCEPT !.left = left], ok)
fired(i, left, ok) ==
    LET s == [q EXCEPT !.timers = RemoveAt(@, i)]
        t == [q.timers[i] EXCEPT !.left = left]
    IN  [IF HasPipe(t) THEN XTQ_SCHEDULE_HOP(s, t, ok) ELSE s EXCEPT !.free = @ + 1]

\* then its timers,
hopclock_timer ==
    /\ loaded /\ Due(pkts) = {} /\ Due(q.timers) # {}
    /\ LET i == First(Due(q.timers))
       IN  /\ wild' = IF HasPipe(q.timers[i]) THEN wild ELSE wild \cup {"pipe gone"}
           /\ \E left \in Delays, ok \in BOOLEAN : q' = fired(i, left, ok)
    /\ busy' = TRUE
    /\ UNCHANGED <<loaded, hoptable, hopcount, nodetable, nodecount, pathtable, paths, pkts,
                   admin, used, tables, met, last>>

\* and when the slot is empty the next tick.
Later(calendar) == [i \in 1..Len(calendar) |-> [calendar[i] EXCEPT !.left = @ - 1]]

hopclock_end ==
    /\ loaded /\ Due(pkts) = {} /\ Due(q.timers) = {}
    /\ pkts' = Later(pkts)
    /\ q' = [q EXCEPT !.timers = Later(@)]
    /\ busy' = FALSE
    /\ UNCHANGED <<loaded, hoptable, hopcount, nodetable, nodecount, pathtable, paths, admin,
                   used, tables, met, wild, last>>
-----------------------------------------------------------------------------
(* modelnet_modevent.  The clock is stopped, the schedulers and the calendars *)
(* are freed, and a packet still on a calendar is lost; a new load starts     *)
(* from fresh data.                                                          *)

MOD_UNLOAD ==
    /\ loaded /\ ~busy /\ admin.pc = "idle" /\ used.reloads < MaxReloads
    /\ pkts' = <<>>
    /\ loaded' = FALSE
    /\ free_path
    /\ hoptable' = 0 /\ hopcount' = 0
    /\ q' = [Uninstalled(q, hopcount)[hopcount]
               EXCEPT !.xtq = <<>>, !.missed = {}, !.timers = <<>>, !.free = 0, !.blocks = 0]
    /\ used' = [used EXCEPT !.reloads = @ + 1]
    /\ UNCHANGED <<nodetable, busy, admin, tables, met, wild, last>>

MOD_LOAD ==
    /\ ~loaded
    /\ loaded' = TRUE
    /\ \E ok \in BOOLEAN : q' = NoQueues(ok)
    /\ nodetable' = [a \in Hosts |-> 0]
    /\ UNCHANGED <<hoptable, hopcount, nodecount, pathtable, paths, pkts, busy, admin, used,
                   tables, met, wild, last>>

Modelload == \/ \E m \in Models : sysctl_hophandle(m)
             \/ hophandle_table
             \/ hophandle_hops
             \/ write_nodetable
             \/ sysctl_nodecount
             \/ \E r \in admin.routes, fails \in BOOLEAN : sysctl_pathentry(r, fails)

hopclock == hopclock_packet \/ hopclock_timer \/ hopclock_end

Running == \/ Modelload
           \/ \E h \in 1..hopcount, type \in XtqTypes : sysctl_hopmodhandle(h, type)
           \/ \E src, dst \in Hosts : filter_ipinput(src, dst)
           \/ hopclock
           \/ MOD_UNLOAD
           \/ MOD_LOAD

\* What a kernel that has used such memory does is not followed.
Next == \/ wild = {} /\ Running
        \/ wild # {} /\ UNCHANGED vars

Spec == Init /\ [][Next]_vars
-----------------------------------------------------------------------------
\* Type.
TypeOK ==
    /\ hoptable \in 0..tables
    /\ Len(q.xtq) = hopcount
    /\ q.free \in 0..(BlockSize * MaxBlocks) /\ q.blocks \in 0..MaxBlocks
    /\ \A i \in 1..Len(q.timers) : q.timers[i].left \in 0..Max(Delays)
    /\ \A i \in 1..Len(pkts) : pkts[i].path \in 1..Len(paths)
    /\ q.missed \subseteq (1..hopcount) \X {"Tq", "Te"}
    /\ {met, wild} \subseteq SUBSET Causes

\* A packet or timer uses a hop, path or XCP pipe that is not there only after what each
\* of these takes: packets were under way when a model was replaced, an XCP pipe
\* was taken from a hop that goes on without, the allocation of a pipe failed, a
\* route without hops was written.  Nothing else leads there: deployments, failing path
\* entries, queue modifications and reloads in any order leave nothing dangling.
NoWildAccess == wild \subseteq met

\* A path array is referred to by the table as long as it is allocated: none is
\* lost, none is freed while it can be found.
TableOwnsPaths == {i \in 1..Len(paths) : paths[i].live} = InTable

\* The count of XCP pipes is right whatever sequence of tables, modifications
\* and reloads led here, and XCP is initialised just when there is one:
\* otherwise packets would bypass the feedback, or XCP never be torn down.
PipesCounted ==
    /\ q.pipes = Cardinality({h \in 1..hopcount : q.xtq[h].type = XTQ_XCP})
    /\ q.up <=> q.pipes > 0

\* No scheduler is lost, and every XCP pipe keeps both its timers running, through
\* modifications and through the growth of the scheduler pool: it is without one only
\* where no scheduler was to be had the last time it was to be scheduled.
TimersAlive ==
    /\ q.free + Len(q.timers) = BlockSize * q.blocks
    /\ \A h \in 1..hopcount, kind \in {"Tq", "Te"} :
         q.xtq[h].pipe =>
           \/ <<h, kind>> \in q.missed
           \/ \E i \in 1..Len(q.timers) : q.timers[i] = Timer(hoptable, h, kind, q.timers[i].left)

\* A forwarded packet has crossed exactly the hops of the route that the model in
\* force when it arrived has for its pair of nodes.
FollowsRoute == last.crossed = last.route

\* A pending timer belongs to a hop that has XCP, and is the only one of its
\* kind there: xcp_free_pipe is documented to unschedule the timers of the pipe.
NoStrayTimer ==
    \A i \in 1..Len(q.timers) :
        /\ HasPipe(q.timers[i])
        /\ \A j \in 1..Len(q.timers) :
             q.timers[i].hop = q.timers[j].hop /\ q.timers[i].kind = q.timers[j].kind => i = j
=============================================================================
