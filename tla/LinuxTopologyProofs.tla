------------------------- MODULE LinuxTopologyProofs -------------------------
(***************************************************************************)
(* The topology tables of the Linux module, for every sequence of models    *)
(* and any number of packets, handled at any moment, as long as every write *)
(* of hoptable has succeeded: a packet that reads memory that is not there, *)
(* or does not cross exactly the hops of its route, met the entry a handler *)
(* was at work on, a node whose write had failed, or a reload; and the path *)
(* table owns the path arrays.                                              *)
(***************************************************************************)
EXTENDS LinuxTopology, TLAPS

\* The phases of a deployment: packets may find paths; the hops are there; the nodes
\* are there; the old paths are gone and the new table is not there yet.
Served == {"idle", "pathentry", "clear", "fill"}
AfterNodes == {"nodecount", "forgetpaths", "newtable", "newrow", "undo", "pathentry", "clear", "fill"}
AfterHops == AfterNodes \cup {"nodetable"}
Emptied == {"drophops", "newhops", "inithop", "nodetable", "nodecount", "forgetpaths", "newtable"}

PhaseInv ==
    /\ load \in 0..Len(Models) /\ k \in Nat
    /\ pc \in Served \cup AfterHops \cup Emptied \cup {"forget"}
    /\ pc # "idle" => load # 0
    /\ pc = "pathentry" => k <= Len(Model.routes)

\* The hops of the current model are initialised, one after the other, before anything
\* else is written.
HopInv ==
    /\ pc \in AfterHops \/ (pc = "idle" /\ load # 0) =>
         hoptable = [gen |-> load, ready |-> Model.hopcount]
    /\ pc = "inithop" =>
         hoptable = [gen |-> load, ready |-> k] /\ hopcount = Model.hopcount /\ k <= hopcount

\* The nodes are whatever the writes of nodetable have left.
NodeInv == nodetable \in [Addrs -> Int]

\* The path table is whole whenever a packet may look into it.
RowInv ==
    /\ nodecount \in Nat
    /\ pc \in Emptied => pathtable = Null /\ nodecount = 0
    /\ pc \in Served /\ pathtable # Null =>
         /\ load # 0 /\ nodecount = Model.nodecount
         /\ pathtable \in [freed : {FALSE}, rows : [0..(nodecount - 1) -> Row(nodecount)]]
    /\ pc = "newrow" =>
         /\ nodecount = Model.nodecount /\ k <= nodecount
         /\ pathtable \in [freed : {FALSE}, rows : [0..(nodecount - 1) -> Row(nodecount) \cup {Garbage}]]
         /\ \A s \in 0..(k - 1) : pathtable.rows[s] = [d \in 0..(nodecount - 1) |-> Null]

\* The array of route r when it is complete, and the routes that have been dealt with.
Id(r) == <<load, Model.routes[r].src, Model.routes[r].dst>>
Full(r) == [mem |-> "live", gen |-> load, hops |-> Model.routes[r].hops]
Reached == IF pc = "idle" THEN Len(Model.routes) ELSE k
Complete(r) == Id(r) \in DOMAIN path /\ path[Id(r)] = Full(r)

\* An entry of the table is the complete array of its route, or the one being written.
CellInv ==
    pc \in Served /\ pathtable # Null =>
        \A s, d \in 0..(nodecount - 1) :
            \/ pathtable.rows[s][d] = Null
            \/ \E r \in 1..Reached : /\ pathtable.rows[s][d] = Id(r) /\ Complete(r)
                                     /\ s = Model.routes[r].src /\ d = Model.routes[r].dst
            \/ /\ pc \in {"clear", "fill"} /\ s = Route.src /\ d = Route.dst
               /\ pathtable.rows[s][d] = Entry

\* The one being written holds the first hops of its route.
EntryInv ==
    /\ pc \in {"clear", "fill"} =>
         /\ k < Len(Model.routes) /\ pathtable # Null /\ Entry \in DOMAIN path
         /\ pathtable.rows[Route.src][Route.dst] = Entry
    /\ pc = "clear" => path[Entry] = [mem |-> "garbage", gen |-> load, hops |-> << >>]
    /\ pc = "fill" =>
         /\ path[Entry] = [mem |-> "live", gen |-> load, hops |-> path[Entry].hops]
         /\ path[Entry].hops \in Seq(0..(Model.hopcount - 1))
         /\ Len(path[Entry].hops) <= Len(Route.hops)
         /\ \A i \in 1..Len(path[Entry].hops) : path[Entry].hops[i] = Route.hops[i]

\* Every array that is not freed is in the table.
LiveInv ==
    /\ path = [id \in DOMAIN path |-> path[id]]
    /\ DOMAIN path \subseteq PathIds
    /\ \A id \in DOMAIN path : path[id].mem = "live" =>
         /\ pc \in Served /\ pathtable # Null
         /\ id[2] \in 0..(nodecount - 1) /\ id[3] \in 0..(nodecount - 1)
         /\ pathtable.rows[id[2]][id[3]] = id

\* Packet q has crossed the first hops of route r, which leads from its source to its
\* destination; it has crossed them all.
OnRoute(q, m, r) ==
    /\ m.routes[r].src = m.nodetable[q.src] /\ m.routes[r].dst = m.nodetable[q.dst]
    /\ q.crossed \in Seq(0..(m.hopcount - 1)) /\ Len(q.crossed) <= Len(m.routes[r].hops)
    /\ \A i \in 1..Len(q.crossed) : q.crossed[i] = m.routes[r].hops[i]
Arrived(q) == \E r \in DOMAIN Models[q.load].routes :
    /\ Models[q.load].routes[r].src = Models[q.load].nodetable[q.src]
    /\ Models[q.load].routes[r].dst = Models[q.load].nodetable[q.dst]
    /\ Models[q.load].routes[r].hops = q.crossed

\* A packet under way, as a record; one that is on its way along a complete path.
Packet(q) == q = [st |-> q.st, src |-> q.src, dst |-> q.dst, load |-> q.load, id |-> q.id, crossed |-> q.crossed, met |-> q.met]
Travels(q) ==
    /\ Packet(q)
    /\ pc \in Served /\ load # 0 /\ q.load = load
    /\ \E r \in 1..Reached : q.id = Id(r) /\ Complete(r) /\ OnRoute(q, Model, r)

\* What holds of a packet unless it has met something.
Fares(q) ==
    /\ q.st = "wild" => q.met # {}
    /\ q.st = "crossing" => Packet(q) /\ (q.met = {} => Travels(q))
    /\ q.st = "forwarded" => q.met # {} \/ Arrived(q)

PktInv == pkt = [p \in Pkts |-> pkt[p]] /\ \A p \in Pkts : Fares(pkt[p])

\* The inductive invariant, while no write of hoptable has failed.
TopologyInv == PhaseInv /\ HopInv /\ NodeInv /\ RowInv /\ CellInv /\ EntryInv /\ LiveInv /\ PktInv
-----------------------------------------------------------------------------
(* The models.                                                               *)

\* What a model that is loaded looks like.
LEMMA ModelOf ==
    ASSUME PhaseInv, load # 0
    PROVE  /\ load \in DOMAIN Models /\ load \in Nat
           /\ Model.nodecount \in Nat /\ Model.hopcount \in Nat
           /\ Model.nodetable \in [Addrs -> -1..(Model.nodecount - 1)]
           /\ Len(Model.routes) \in Nat /\ DOMAIN Model.routes = 1..Len(Model.routes)
           /\ \A r \in 1..Len(Model.routes) :
                /\ Model.routes[r].src \in 0..(Model.nodecount - 1)
                /\ Model.routes[r].dst \in 0..(Model.nodecount - 1)
                /\ Model.routes[r].hops \in Seq(0..(Model.hopcount - 1))
<1>1. load \in 1..Len(Models) /\ load \in DOMAIN Models /\ load \in Nat
  BY TopologyAssumption DEF TopologyAssumption, PhaseInv
<1>2. QED
  BY <1>1, TopologyAssumption DEF TopologyAssumption, Model

\* Two routes of a model do not share their array.
LEMMA OneRoutePerPair ==
    ASSUME PhaseInv, load # 0, NEW r \in 1..Len(Model.routes), NEW t \in 1..Len(Model.routes),
           Model.routes[r].src = Model.routes[t].src, Model.routes[r].dst = Model.routes[t].dst
    PROVE  r = t
<1>1. load \in DOMAIN Models /\ DOMAIN Model.routes = 1..Len(Model.routes)
  BY ModelOf
<1>2. QED
  BY <1>1, TopologyAssumption DEF TopologyAssumption, Model

LEMMA IdsDiffer ==
    ASSUME PhaseInv, load # 0, NEW r \in 1..Len(Model.routes), NEW t \in 1..Len(Model.routes), Id(r) = Id(t)
    PROVE  r = t
BY OneRoutePerPair DEF Id

\* A path id is none of the markers.
LEMMA IdIsPath ==
    ASSUME PhaseInv, load # 0, NEW r \in 1..Len(Model.routes)
    PROVE  Id(r) \in PathIds /\ Id(r) # Null /\ Id(r) # Wild
           /\ Id(r)[2] = Model.routes[r].src /\ Id(r)[3] = Model.routes[r].dst
<1>1. load \in Nat /\ Model.routes[r].src \in Nat /\ Model.routes[r].dst \in Nat
  BY ModelOf
<1>2. QED
  BY <1>1, MarkerAssumption DEF MarkerAssumption, PathIds, Id
-----------------------------------------------------------------------------
(* proc_hophandle and proc_nodetable.                                        *)

\* Where no packet can travel a step of a handler leaves the packets alone.
LEMMA NoneTravels ==
    ASSUME PktInv, \A p \in Pkts : pkt[p].st = "crossing" => pkt[p].met # {}, pkt' = pkt
    PROVE  PktInv'
<1>1. ASSUME NEW p \in Pkts PROVE Fares(pkt[p])'
  <2>1. Fares(pkt[p]) /\ (pkt[p].st = "crossing" => pkt[p].met # {})
    BY DEF PktInv
  <2>2. Arrived(pkt[p]) => Arrived(pkt[p])'
    BY DEF Arrived
  <2>3. QED
    BY <2>1, <2>2 DEF Fares, Packet
<1>2. QED
  BY <1>1 DEF PktInv

\* Nobody travels while there are no paths.
LEMMA NoPathNoPacket ==
    ASSUME PktInv, pc \notin Served
    PROVE  \A p \in Pkts : pkt[p].st = "crossing" => pkt[p].met # {}
BY DEF PktInv, Fares, Travels

\* free_path takes the paths away from the packets under way.
LEMMA FreedKeeps ==
    ASSUME PktInv, FreedUnder
    PROVE  PktInv'
<1>1. ASSUME NEW p \in Pkts PROVE Fares(pkt[p])'
  <2>1. Fares(pkt[p])
    BY DEF PktInv
  <2>2. CASE pkt[p].st # "crossing"
    <3>1. pkt'[p] = pkt[p]
      BY <2>2 DEF FreedUnder
    <3>2. Arrived(pkt[p]) => Arrived(pkt[p])'
      BY <3>1 DEF Arrived
    <3>3. QED
      BY <2>1, <2>2, <3>1, <3>2 DEF Fares
  <2>3. CASE pkt[p].st = "crossing"
    <3>1. PICK q, m : q = pkt[p] /\ m = q.met \cup {"free"}
      OBVIOUS
    <3>2. pkt'[p] = [q EXCEPT !.met = m]
      BY <2>3, <3>1 DEF FreedUnder
    <3>3. q = [st |-> q.st, src |-> q.src, dst |-> q.dst, load |-> q.load, id |-> q.id, crossed |-> q.crossed, met |-> q.met]
      BY <2>1, <2>3, <3>1 DEF Fares, Packet
    <3>4. /\ [q EXCEPT !.met = m].st = q.st /\ [q EXCEPT !.met = m].met = m
          /\ [q EXCEPT !.met = m] = [st |-> q.st, src |-> q.src, dst |-> q.dst, load |-> q.load,
                                     id |-> q.id, crossed |-> q.crossed, met |-> m]
      BY <3>3
    <3>5. PICK f : f = pkt'[p]
      OBVIOUS
    <3>6. f.st = "crossing" /\ f.met # {} /\ Packet(f)
      BY <2>3, <3>1, <3>2, <3>4, <3>5 DEF Packet
    <3>7. QED
      BY <3>5, <3>6 DEF Fares, Packet
  <2>4. QED
    BY <2>2, <2>3
<1>2. QED
  BY <1>1 DEF PktInv, FreedUnder

\* After free_path no array is live.
LEMMA FreeAll ==
    ASSUME LiveInv, NEW n \in Nat, FreePaths(n), pathtable # Null => n = nodecount
    PROVE  /\ path' = [id \in DOMAIN path' |-> path'[id]] /\ DOMAIN path' \subseteq PathIds
           /\ \A id \in DOMAIN path' : path'[id].mem # "live"
<1>1. /\ DOMAIN path' = DOMAIN path /\ path' = [id \in DOMAIN path' |-> path'[id]]
      /\ \A id \in DOMAIN path : path'[id] =
           IF pathtable # Null /\ \E s, d \in 0..(n - 1) : pathtable.rows[s][d] = id
           THEN [path[id] EXCEPT !.mem = "freed"] ELSE path[id]
  BY DEF FreePaths
<1>2. ASSUME NEW id \in DOMAIN path PROVE path'[id].mem # "live"
  <2>1. CASE pathtable # Null /\ \E s, d \in 0..(n - 1) : pathtable.rows[s][d] = id
    <3>1. path'[id] = [path[id] EXCEPT !.mem = "freed"]
      BY <1>1, <2>1
    <3>2. QED
      BY <3>1
  <2>2. CASE ~(pathtable # Null /\ \E s, d \in 0..(n - 1) : pathtable.rows[s][d] = id)
    <3>1. path'[id] = path[id]
      BY <1>1, <2>2
    <3>2. QED
      BY <2>2, <3>1 DEF LiveInv
  <2>3. QED
    BY <2>1, <2>2
<1>3. QED
  BY <1>1, <1>2 DEF LiveInv

\* The writes of hoptable.
LEMMA HopHandlerKeeps ==
    ASSUME TopologyInv, ~hoperr', ~hoperr,
           proc_hophandle \/ hop_forget_paths \/ hop_drop_table \/ hop_new_table \/ hop_init
    PROVE  TopologyInv'
<1> USE DEF TopologyInv
<1>1. nodetable' = nodetable /\ (pc # "idle" => pkt' = pkt)
  BY DEF proc_hophandle, hop_forget_paths, hop_drop_table, hop_new_table, hop_init
<1>2. CASE proc_hophandle
  <2>1. /\ pc = "idle" /\ load < Len(Models) /\ load' = load + 1
        /\ FreePaths(nodecount) /\ pc' = "forget" /\ k' = 0
        /\ UNCHANGED <<hoptable, hopcount, nodecount>>
    BY <1>2 DEF proc_hophandle, Return, Goto
  <2>2. PhaseInv'
    BY <2>1, TopologyAssumption DEF PhaseInv, Served, AfterHops, Emptied, TopologyAssumption
  <2>3. HopInv' /\ NodeInv' /\ RowInv' /\ CellInv' /\ EntryInv'
    BY <1>1, <2>1 DEF HopInv, NodeInv, RowInv, CellInv, EntryInv, Served, AfterHops, AfterNodes, Emptied
  <2>4. LiveInv'
    BY <2>1, FreeAll DEF LiveInv, RowInv
  <2>5. PktInv'
    BY <2>1, FreedKeeps DEF FreePaths
  <2>6. QED
    BY <2>2, <2>3, <2>4, <2>5
<1>3. ASSUME pc \in {"forget", "drophops", "newhops", "inithop"}, path' = path, load' = load
      PROVE  LiveInv' /\ PktInv' /\ \A id \in DOMAIN path : path[id].mem # "live"
  <2>1. pc \notin Served
    BY <1>3 DEF Served
  <2>2. \A id \in DOMAIN path : path[id].mem # "live"
    BY <2>1 DEF LiveInv
  <2>3. LiveInv'
    BY <1>3, <2>2 DEF LiveInv
  <2>4. PktInv'
    BY <1>1, <1>3, <2>1, NoPathNoPacket, NoneTravels
  <2>5. QED
    BY <2>2, <2>3, <2>4
<1>4. CASE hop_forget_paths
  <2>1. /\ pc = "forget" /\ pc' = "drophops" /\ k' = 0 /\ pathtable' = Null /\ nodecount' = 0
        /\ UNCHANGED <<load, hoptable, hopcount, path>>
    BY <1>4 DEF hop_forget_paths, Goto, ForgetPaths
  <2>2. PhaseInv' /\ HopInv' /\ NodeInv' /\ RowInv' /\ CellInv' /\ EntryInv'
    BY <1>1, <2>1 DEF PhaseInv, HopInv, NodeInv, RowInv, CellInv, EntryInv, Served, AfterHops, AfterNodes, Emptied
  <2>3. QED
    BY <1>3, <2>1, <2>2
<1>5. CASE hop_drop_table
  <2>1. /\ pc = "drophops" /\ pc' = "newhops" /\ k' = 0
        /\ UNCHANGED <<load, nodecount, pathtable, path>>
    BY <1>5 DEF hop_drop_table, Goto
  <2>2. PhaseInv' /\ HopInv' /\ NodeInv' /\ RowInv' /\ CellInv' /\ EntryInv'
    BY <1>1, <2>1 DEF PhaseInv, HopInv, NodeInv, RowInv, CellInv, EntryInv, Served, AfterHops, AfterNodes, Emptied
  <2>3. QED
    BY <1>3, <2>1, <2>2
<1>6. CASE hop_new_table
  <2>1. /\ pc = "newhops" /\ pc' = "inithop" /\ k' = 0 /\ load' = load
        /\ hoptable' = [gen |-> load, ready |-> 0] /\ hopcount' = Model.hopcount
        /\ UNCHANGED <<nodecount, pathtable, path>>
    BY <1>6 DEF hop_new_table, Goto, Return
  <2>2. Model.hopcount \in Nat /\ Model' = Model
    BY <2>1, ModelOf DEF PhaseInv, Model
  <2>3. PhaseInv' /\ HopInv' /\ NodeInv' /\ RowInv' /\ CellInv' /\ EntryInv'
    BY <1>1, <2>1, <2>2 DEF PhaseInv, HopInv, NodeInv, RowInv, CellInv, EntryInv, Served, AfterHops, AfterNodes, Emptied
  <2>4. QED
    BY <1>3, <2>1, <2>3
<1>7. CASE hop_init
  <2>1. /\ pc = "inithop" /\ UNCHANGED <<load, hopcount, nodecount, pathtable, path>>
        /\ \/ k = hopcount /\ pc' = "nodetable" /\ k' = 0 /\ hoptable' = hoptable
           \/ /\ k < hopcount /\ hoptable' = [hoptable EXCEPT !.ready = k + 1]
              /\ pc' = "inithop" /\ k' = k + 1
    BY <1>7 DEF hop_init, Goto, Return
  <2>2. /\ Model.hopcount \in Nat /\ Model' = Model /\ k \in Nat /\ load # 0 /\ hopcount = Model.hopcount
        /\ hoptable = [gen |-> load, ready |-> k]
    BY <2>1, ModelOf DEF PhaseInv, Model, HopInv
  <2>3. /\ PhaseInv'
        /\ RowInv' /\ CellInv' /\ EntryInv'
    <3>1. PhaseInv'
      BY <2>1, <2>2 DEF PhaseInv, Served, AfterHops, AfterNodes, Emptied
    <3>2. RowInv' /\ CellInv' /\ EntryInv'
      BY <2>1 DEF RowInv, CellInv, EntryInv, Served, Emptied
    <3>3. QED
      BY <3>1, <3>2
  <2>a. NodeInv'
    BY <1>1 DEF NodeInv
  <2>4. HopInv'
    <3>1. [hoptable EXCEPT !.ready = k + 1] = [gen |-> load, ready |-> k + 1]
      BY <2>2
    <3>2. QED
      BY <2>1, <2>2, <3>1 DEF HopInv, AfterHops, AfterNodes
  <2>5. QED
    BY <1>3, <2>1, <2>3, <2>a, <2>4
<1>8. QED
  BY <1>2, <1>4, <1>5, <1>6, <1>7

\* The writes of nodetable.
LEMMA NodeHandlerKeeps ==
    ASSUME TopologyInv, proc_nodetable
    PROVE  TopologyInv'
<1> USE DEF TopologyInv
<1>1. /\ pc = "nodetable" /\ load # 0 /\ k \in Nat
      /\ UNCHANGED <<load, hoptable, hopcount, nodecount, pathtable, path, pkt>> /\ Model' = Model
      /\ nodetable \in [Addrs -> Int]
      /\ pc' \in {"nodetable", "nodecount"} /\ k' \in Nat
  BY DEF proc_nodetable, Goto, Return, PhaseInv, NodeInv, Model
<1>2. Len(AddrSeq) \in Nat /\ \A j \in 1..Len(AddrSeq) : AddrSeq[j] \in Addrs
  BY TopologyAssumption DEF TopologyAssumption
<1>3. \A a \in Addrs : Model.nodetable[a] \in Int
  BY <1>1, ModelOf
<1>4. LiveInv' /\ PktInv'
  <2>1. pc \notin Served
    BY <1>1 DEF Served
  <2>2. QED
    BY <1>1, <2>1, NoPathNoPacket, NoneTravels DEF LiveInv
<1>5. NodeInv'
  <2>1. CASE nodetable' = nodetable
    BY <1>1, <2>1 DEF NodeInv
  <2>2. CASE k < Len(AddrSeq) /\ nodetable' = [nodetable EXCEPT ![AddrSeq[k + 1]] = Model.nodetable[AddrSeq[k + 1]]]
    <3>1. PICK a \in Addrs : a = AddrSeq[k + 1]
      BY <1>1, <1>2, <2>2
    <3>2. QED
      BY <1>1, <1>3, <2>2, <3>1 DEF NodeInv
  <2>3. CASE k < Len(AddrSeq) /\ nodetable' = [nodetable EXCEPT ![AddrSeq[k + 1]] = 0]
    <3>1. PICK a : a = AddrSeq[k + 1]
      OBVIOUS
    <3>2. nodetable' = [nodetable EXCEPT ![a] = 0] /\ 0 \in Int
      BY <2>3, <3>1
    <3>3. QED
      BY <1>1, <3>2 DEF NodeInv
  <2>4. QED
    BY <2>1, <2>2, <2>3 DEF proc_nodetable
<1>6. PhaseInv' /\ HopInv' /\ RowInv' /\ CellInv' /\ EntryInv'
  BY <1>1 DEF PhaseInv, HopInv, RowInv, CellInv, EntryInv, Served, AfterHops, AfterNodes, Emptied
<1>7. QED
  BY <1>4, <1>5, <1>6
-----------------------------------------------------------------------------
(* proc_nodecount.                                                           *)

LEMMA CountHandlerKeeps ==
    ASSUME TopologyInv,
           proc_nodecount \/ count_forget_paths \/ count_new_table \/ count_new_row \/ count_undo
    PROVE  TopologyInv'
<1> USE DEF TopologyInv
<1>1. /\ UNCHANGED <<load, hoptable, hopcount, nodetable>> /\ Model' = Model
      /\ pc \in {"nodecount", "forgetpaths", "newtable", "newrow", "undo"}
      /\ pc' \in {"forgetpaths", "newtable", "newrow", "undo", "pathentry"}
      /\ k' \in Nat /\ (pc' = "pathentry" => k' = 0)
  BY DEF proc_nodecount, count_forget_paths, count_new_table, count_new_row, count_undo, Return, Goto, Model, PhaseInv
<1>2. /\ load # 0 /\ pc \notin Served /\ pc \in AfterNodes /\ pc' \in AfterNodes
      /\ pc' \notin {"idle", "inithop", "nodetable", "clear", "fill"}
      /\ \A id \in DOMAIN path : path[id].mem # "live"
  BY <1>1 DEF PhaseInv, Served, AfterNodes, LiveInv
<1>3. Model.nodecount \in Nat /\ Len(Model.routes) \in Nat
  BY <1>2, ModelOf
<1>4. PhaseInv' /\ HopInv' /\ NodeInv' /\ EntryInv'
  <2>1. PhaseInv'
    BY <1>1, <1>2, <1>3 DEF PhaseInv, AfterHops
  <2>2. HopInv' /\ NodeInv' /\ EntryInv'
    BY <1>1, <1>2 DEF HopInv, NodeInv, EntryInv, AfterHops
  <2>3. QED
    BY <2>1, <2>2
<1>5. PktInv'
  <2>1. CASE pkt' = pkt
    BY <1>2, <2>1, NoPathNoPacket, NoneTravels
  <2>2. CASE FreedUnder
    BY <2>2, FreedKeeps
  <2>3. QED
    BY <2>1, <2>2 DEF proc_nodecount, count_forget_paths, count_new_table, count_new_row, count_undo, FreePaths
<1>6. CASE proc_nodecount
  <2>1. /\ pc = "nodecount" /\ nodecount' = nodecount /\ pathtable = Null /\ nodecount = 0
        /\ \/ pc' = "pathentry" /\ UNCHANGED <<path, pathtable>>
           \/ pc' = "forgetpaths" /\ FreePaths(nodecount)
    BY <1>6 DEF proc_nodecount, Return, Goto, RowInv, Emptied
  <2>2. pathtable' = Null
    BY <2>1 DEF FreePaths
  <2>3. RowInv' /\ CellInv'
    BY <1>2, <2>1, <2>2 DEF RowInv, CellInv
  <2>4. LiveInv'
    BY <1>2, <2>1, FreeAll DEF LiveInv
  <2>5. QED
    BY <1>4, <1>5, <2>3, <2>4
<1>7. CASE count_forget_paths
  <2>1. pc' = "newtable" /\ pathtable' = Null /\ nodecount' = 0 /\ path' = path
    BY <1>7 DEF count_forget_paths, ForgetPaths, Goto
  <2>2. RowInv' /\ CellInv' /\ LiveInv'
    BY <1>2, <2>1 DEF RowInv, CellInv, LiveInv, Served
  <2>3. QED
    BY <1>4, <1>5, <2>2
<1>8. CASE count_new_table
  <2>1. path' = path /\ pc = "newtable" /\ LiveInv'
    BY <1>2, <1>8 DEF count_new_table, LiveInv
  <2>2. CASE pc' = "pathentry" /\ UNCHANGED <<nodecount, pathtable>>
    <3>1. pathtable = Null /\ nodecount = 0
      BY <2>1 DEF RowInv, Emptied
    <3>2. RowInv' /\ CellInv'
      BY <2>2, <3>1 DEF RowInv, CellInv, Emptied
    <3>3. QED
      BY <1>4, <1>5, <2>1, <3>2
  <2>3. CASE /\ nodecount' = Model.nodecount /\ pc' = "newrow" /\ k' = 0
             /\ pathtable' = [freed |-> FALSE, rows |-> [s \in 0..(Model.nodecount - 1) |-> Garbage]]
    <3>1. PICK n \in Nat : n = Model.nodecount
      BY <1>3
    <3>2. [s \in 0..(n - 1) |-> Garbage] \in [0..(n - 1) -> Row(n) \cup {Garbage}]
      OBVIOUS
    <3>3. pathtable' \in [freed : {FALSE}, rows : [0..(n - 1) -> Row(n) \cup {Garbage}]]
      BY <2>3, <3>1, <3>2
    <3>4. RowInv' /\ CellInv'
      BY <1>1, <2>3, <3>1, <3>3 DEF RowInv, CellInv, Emptied, Served
    <3>5. QED
      BY <1>4, <1>5, <2>1, <3>4
  <2>4. QED
    BY <1>8, <2>2, <2>3 DEF count_new_table, Return, Goto
<1>9. CASE count_new_row
  <2>0. PICK n \in Nat : n = nodecount
    BY DEF RowInv
  <2>1. /\ path' = path /\ pc = "newrow" /\ k \in Nat /\ k <= n /\ n = Model.nodecount
        /\ pathtable \in [freed : {FALSE}, rows : [0..(n - 1) -> Row(n) \cup {Garbage}]]
        /\ \A s \in 0..(k - 1) : pathtable.rows[s] = [d \in 0..(n - 1) |-> Null]
    BY <1>9, <2>0 DEF count_new_row, RowInv, PhaseInv
  <2>2. LiveInv'
    BY <1>2, <2>1 DEF LiveInv
  <2>3. [d \in 0..(n - 1) |-> Null] \in Row(n)
    BY DEF Row
  <2>4. CASE k = nodecount /\ pc' = "pathentry" /\ UNCHANGED <<nodecount, pathtable>>
    <3>1. \A s \in 0..(n - 1) : pathtable.rows[s] = [d \in 0..(n - 1) |-> Null]
      BY <2>0, <2>1, <2>4
    <3>2. pathtable.rows \in [0..(n - 1) -> Row(n)]
      <4>1. pathtable.rows \in [0..(n - 1) -> Row(n) \cup {Garbage}]
        BY <2>1
      <4>2. QED
        BY <2>3, <3>1, <4>1
    <3>3. pathtable \in [freed : {FALSE}, rows : [0..(n - 1) -> Row(n)]]
      BY <2>1, <3>2
    <3>4. RowInv'
      BY <1>1, <1>2, <2>0, <2>1, <2>4, <3>3 DEF RowInv, Emptied
    <3>5. \A s, d \in 0..(n - 1) : pathtable.rows[s][d] = Null
      BY <3>1
    <3>6. CellInv'
      BY <2>0, <2>4, <3>5 DEF CellInv
    <3>7. QED
      BY <1>4, <1>5, <2>2, <3>4, <3>6
  <2>5. CASE /\ k < nodecount /\ pc' = "newrow" /\ k' = k + 1 /\ nodecount' = nodecount
             /\ pathtable' = [pathtable EXCEPT !.rows[k] = [d \in 0..(nodecount - 1) |-> Null]]
    <3>1. PICK row \in Row(n) : row = [d \in 0..(n - 1) |-> Null]
      BY <2>3
    <3>2. PICK rows \in [0..(n - 1) -> Row(n) \cup {Garbage}] : rows = pathtable.rows
      BY <2>1
    <3>3. k \in 0..(n - 1)
      BY <2>0, <2>1, <2>5
    <3>4. /\ [rows EXCEPT ![k] = row] \in [0..(n - 1) -> Row(n) \cup {Garbage}]
          /\ [rows EXCEPT ![k] = row][k] = row
          /\ \A s \in 0..(n - 1) \ {k} : [rows EXCEPT ![k] = row][s] = rows[s]
      BY <3>3
    <3>5. pathtable' = [freed |-> FALSE, rows |-> [rows EXCEPT ![k] = row]]
      <4>1. pathtable = [freed |-> FALSE, rows |-> rows]
        BY <2>1, <3>2
      <4>2. QED
        BY <2>0, <2>5, <3>1, <4>1
    <3>6. pathtable' \in [freed : {FALSE}, rows : [0..(n - 1) -> Row(n) \cup {Garbage}]]
          /\ pathtable'.rows = [rows EXCEPT ![k] = row]
      BY <3>4, <3>5
    <3>7. \A s \in 0..k : pathtable'.rows[s] = row
      <4> TAKE s \in 0..k
      <4>1. CASE s = k
        BY <3>4, <3>6, <4>1
      <4>2. CASE s # k
        <5>1. s \in 0..(k - 1) /\ s \in 0..(n - 1) \ {k}
          BY <2>1, <3>3, <4>2
        <5>2. QED
          BY <2>1, <3>1, <3>2, <3>4, <3>6, <5>1
      <4>3. QED
        BY <4>1, <4>2
    <3>8. (k + 1) - 1 = k /\ k + 1 <= n
      BY <2>1, <3>3
    <3>9. RowInv'
      BY <1>1, <2>0, <2>1, <2>5, <3>1, <3>6, <3>7, <3>8 DEF RowInv, Emptied, Served
    <3>10. CellInv'
      BY <2>5 DEF CellInv, Served
    <3>11. QED
      BY <1>4, <1>5, <2>2, <3>9, <3>10
  <2>6. CASE pc' = "undo" /\ nodecount' = nodecount
    <3>1. RowInv' /\ CellInv'
      BY <2>0, <2>6 DEF RowInv, CellInv, Emptied, Served
    <3>2. QED
      BY <1>4, <1>5, <2>2, <3>1
  <2>7. QED
    BY <1>9, <2>4, <2>5, <2>6 DEF count_new_row, Return, Goto
<1>10. CASE count_undo
  <2>1. pc' = "pathentry" /\ pathtable' = Null /\ nodecount' = 0 /\ path' = path
    BY <1>10 DEF count_undo, ForgetPaths, Return
  <2>2. RowInv' /\ CellInv' /\ LiveInv'
    BY <1>2, <2>1 DEF RowInv, CellInv, LiveInv, Emptied
  <2>3. QED
    BY <1>4, <1>5, <2>2
<1>11. QED
  BY <1>6, <1>7, <1>8, <1>9, <1>10
-----------------------------------------------------------------------------
(* proc_pathentry.                                                           *)

\* A packet on its way does not mind what is added to the table.
LEMMA TravelsOn ==
    ASSUME PktInv, pc' \in Served, load' = load, pkt' = pkt,
           \A r \in 1..Reached : r \in 1..Reached' /\ (Complete(r) => Complete(r)')
    PROVE  PktInv'
<1>1. Model' = Model
  BY DEF Model
<1>2. \A r : Id(r)' = Id(r)
  BY <1>1 DEF Id
<1>3. ASSUME NEW p \in Pkts, Travels(pkt[p]) PROVE Travels(pkt[p])'
  <2>1. PICK r \in 1..Reached : pkt[p].id = Id(r) /\ Complete(r) /\ OnRoute(pkt[p], Model, r)
    BY <1>3 DEF Travels
  <2>2. r \in 1..Reached' /\ pkt[p].id = Id(r)' /\ Complete(r)' /\ OnRoute(pkt[p], Model, r)'
    BY <1>1, <1>2, <2>1 DEF OnRoute
  <2>3. QED
    BY <1>3, <2>2 DEF Travels, Packet
<1>4. \A p \in Pkts : Arrived(pkt[p]) => Arrived(pkt[p])'
  BY DEF Arrived
<1>5. ASSUME NEW p \in Pkts PROVE Fares(pkt[p])'
  <2>1. Fares(pkt[p])
    BY DEF PktInv
  <2>2. QED
    BY <1>3, <1>4, <2>1 DEF Fares, Packet
<1>6. QED
  BY <1>5 DEF PktInv

\* Before the write of a route its place in the table is empty.
LEMMA PlaceIsEmpty ==
    ASSUME TopologyInv, pc = "pathentry", k < Len(Model.routes), pathtable # Null
    PROVE  pathtable.rows[Route.src][Route.dst] = Null
<1>1. load # 0 /\ PhaseInv /\ k \in Nat /\ nodecount = Model.nodecount
  BY DEF TopologyInv, PhaseInv, RowInv, Served
<1>2. Len(Model.routes) \in Nat
  BY <1>1, ModelOf
<1>3. k + 1 \in 1..Len(Model.routes) /\ 1..k \subseteq 1..Len(Model.routes)
  BY <1>1, <1>2
<1>4. Route.src \in 0..(nodecount - 1) /\ Route.dst \in 0..(nodecount - 1)
  BY <1>1, <1>3, ModelOf DEF Route
<1>5. ASSUME NEW r \in 1..k, Route.src = Model.routes[r].src, Route.dst = Model.routes[r].dst
      PROVE  FALSE
  <2>1. r = k + 1
    BY <1>1, <1>3, <1>5, OneRoutePerPair DEF Route
  <2>2. QED
    BY <1>1, <2>1
<1>6. Reached = k
  BY DEF Reached
<1>7. QED
  BY <1>4, <1>5, <1>6 DEF TopologyInv, CellInv, Served

\* An assignment to a cell of the table.
LEMMA WrittenIs ==
    ASSUME NEW x, NEW rows, NEW e, pathtable = [freed |-> x, rows |-> rows]
    PROVE  Written(e) = [freed |-> x,
                         rows  |-> [rows EXCEPT ![Route.src] = [rows[Route.src] EXCEPT ![Route.dst] = e]]]
<1>1. PICK row : row = [rows[Route.src] EXCEPT ![Route.dst] = e]
  OBVIOUS
<1>2. PICK all : all = [rows EXCEPT ![Route.src] = row]
  OBVIOUS
<1>3. pathtable.rows = rows
  OBVIOUS
<1>4. Written(e) = [pathtable EXCEPT !.rows =
          [pathtable.rows EXCEPT ![Route.src] = [pathtable.rows[Route.src] EXCEPT ![Route.dst] = e]]]
  BY DEF Written
<1>5. Written(e) = [pathtable EXCEPT !.rows = all]
  BY <1>1, <1>2, <1>3, <1>4, Zenon
<1>6. [pathtable EXCEPT !.rows = all] = [freed |-> x, rows |-> all]
  OBVIOUS
<1>7. QED
  BY <1>1, <1>2, <1>5, <1>6, Zenon

\* The write of one entry, up to the allocation of its array.
LEMMA PathEntryKeeps ==
    ASSUME TopologyInv, proc_pathentry
    PROVE  TopologyInv'
<1> USE DEF TopologyInv
<1>1. /\ pc = "pathentry" /\ k < Len(Model.routes) /\ k \in Nat /\ load # 0
      /\ UNCHANGED <<load, hoptable, hopcount, nodetable, nodecount, pkt>> /\ Model' = Model
      /\ pc \in Served /\ pc \in AfterHops /\ pc \in AfterNodes /\ Reached = k
  BY DEF proc_pathentry, PhaseInv, Model, Served, AfterHops, AfterNodes, Reached
<1>2. Len(Model.routes) \in Nat /\ k + 1 \in 1..Len(Model.routes) /\ 1..k \subseteq 1..Len(Model.routes)
  <2>1. Len(Model.routes) \in Nat
    BY <1>1, ModelOf
  <2>2. QED
    BY <1>1, <2>1
<1>3. \A r : Id(r)' = Id(r) /\ Full(r)' = Full(r)
  BY <1>1 DEF Id, Full
<1>4. Entry = Id(k + 1)
  BY DEF Entry, Id, Route
<1>5. ASSUME pc' = "pathentry", k' = k + 1, UNCHANGED <<path, pathtable>> PROVE TopologyInv'
  <2>1. Reached' = k + 1 /\ \A r \in 1..k : r \in 1..(k + 1)
    BY <1>1, <1>5 DEF Reached
  <2>2. \A r : Complete(r)' <=> Complete(r)
    BY <1>3, <1>5 DEF Complete
  <2>3. PhaseInv' /\ HopInv' /\ NodeInv' /\ RowInv' /\ EntryInv' /\ LiveInv'
    <3>1. PhaseInv'
      BY <1>1, <1>2, <1>5 DEF PhaseInv
    <3>2. HopInv'
      BY <1>1, <1>5 DEF HopInv
    <3>3. NodeInv'
      BY <1>1, <1>5 DEF NodeInv
    <3>4. RowInv'
      BY <1>1, <1>5 DEF RowInv
    <3>5. EntryInv'
      BY <1>5 DEF EntryInv
    <3>6. LiveInv'
      BY <1>1, <1>5 DEF LiveInv
    <3>7. QED
      BY <3>1, <3>2, <3>3, <3>4, <3>5, <3>6
  <2>4. CellInv'
    <3> SUFFICES ASSUME pathtable # Null, NEW s \in 0..(nodecount - 1), NEW d \in 0..(nodecount - 1),
                        pathtable.rows[s][d] # Null
                 PROVE  \E r \in 1..(k + 1) : /\ pathtable.rows[s][d] = Id(r) /\ Complete(r)
                                              /\ s = Model.routes[r].src /\ d = Model.routes[r].dst
      BY <1>1, <1>3, <1>5, <2>1, <2>2 DEF CellInv
    <3>1. \E r \in 1..k : /\ pathtable.rows[s][d] = Id(r) /\ Complete(r)
                          /\ s = Model.routes[r].src /\ d = Model.routes[r].dst
      BY <1>1 DEF CellInv
    <3>2. QED
      BY <2>1, <3>1
  <2>5. PktInv'
    BY <1>1, <1>5, <2>1, <2>2, TravelsOn
  <2>6. QED
    BY <2>3, <2>4, <2>5
<1>6. CASE pc' = "pathentry" /\ k' = k + 1 /\ UNCHANGED <<path, pathtable>>
  BY <1>5, <1>6
<1>7. ASSUME pathtable # Null
      PROVE  /\ pathtable.rows[Route.src][Route.dst] = Null
             /\ Route.src \in 0..(nodecount - 1) /\ Route.dst \in 0..(nodecount - 1)
             /\ nodecount \in Nat /\ nodecount = Model.nodecount
             /\ pathtable \in [freed : {FALSE}, rows : [0..(nodecount - 1) -> Row(nodecount)]]
  <2>1. /\ nodecount \in Nat /\ nodecount = Model.nodecount
        /\ pathtable \in [freed : {FALSE}, rows : [0..(nodecount - 1) -> Row(nodecount)]]
    BY <1>1, <1>7 DEF RowInv
  <2>2. QED
    BY <1>1, <1>2, <1>7, <2>1, PlaceIsEmpty, ModelOf DEF Route
<1>8. ASSUME pathtable # Null, NEW e \in PathIds \cup {Null}
      PROVE  \E all \in [0..(nodecount - 1) -> Row(nodecount)] :
                 /\ Written(e) = [freed |-> FALSE, rows |-> all]
                 /\ all[Route.src][Route.dst] = e
                 /\ \A s, d \in 0..(nodecount - 1) : <<s, d>> # <<Route.src, Route.dst>> =>
                      all[s][d] = pathtable.rows[s][d]
                 /\ e = Null => [freed |-> FALSE, rows |-> all] = pathtable
                 /\ [freed |-> FALSE, rows |-> all] # Null
  <2>1. PICK n \in Nat : n = nodecount
    BY <1>7, <1>8
  <2>2. PICK rows \in [0..(n - 1) -> Row(n)] : rows = pathtable.rows
    BY <1>7, <1>8, <2>1
  <2>3. pathtable = [freed |-> FALSE, rows |-> rows]
    BY <1>7, <1>8, <2>2
  <2>4. PICK a \in 0..(n - 1), b \in 0..(n - 1) : a = Route.src /\ b = Route.dst
    BY <1>7, <1>8, <2>1
  <2>5. rows[a] \in Row(n) /\ rows[a] \in [0..(n - 1) -> PathIds \cup {Null}]
    BY DEF Row
  <2>6. PICK row \in Row(n) : row = [rows[a] EXCEPT ![b] = e]
    BY <2>5 DEF Row
  <2>7. row[b] = e /\ \A d \in 0..(n - 1) \ {b} : row[d] = rows[a][d]
    BY <2>5, <2>6
  <2>8. PICK all \in [0..(n - 1) -> Row(n)] : all = [rows EXCEPT ![a] = row]
    OBVIOUS
  <2>9. all[a] = row /\ \A s \in 0..(n - 1) \ {a} : all[s] = rows[s]
    BY <2>8
  <2>10. Written(e) = [freed |-> FALSE, rows |-> all]
    BY <2>3, <2>4, <2>6, <2>8, WrittenIs
  <2>11. e = Null => all = rows
    <3> SUFFICES ASSUME e = Null PROVE all = rows
      OBVIOUS
    <3>1. rows[a][b] = Null
      BY <1>7, <1>8, <2>2, <2>4
    <3>2. row = rows[a]
      BY <2>5, <2>6, <3>1
    <3>3. QED
      BY <2>8, <3>2
  <2>12. [freed |-> FALSE, rows |-> all] # Null
    <3>1. load \in DOMAIN Models /\ n = Models[load].nodecount
      BY <1>1, <1>7, <1>8, <2>1, ModelOf DEF Model
    <3>2. [freed |-> FALSE, rows |-> all] \in Tables(n)
      <4>1. all \in [0..(n - 1) -> Row(n) \cup {Garbage}]
        OBVIOUS
      <4>2. QED
        BY <4>1 DEF Tables
    <3>3. QED
      BY <3>1, <3>2, MarkerAssumption DEF MarkerAssumption
  <2>13. \A s, d \in 0..(n - 1) : <<s, d>> # <<a, b>> => all[s][d] = rows[s][d]
    <3> SUFFICES ASSUME NEW s \in 0..(n - 1), NEW d \in 0..(n - 1), s # a \/ d # b
                 PROVE  all[s][d] = rows[s][d]
      OBVIOUS
    <3>1. CASE s # a
      BY <2>9, <3>1
    <3>2. CASE s = a /\ d # b
      BY <2>7, <2>9, <3>2
    <3>3. QED
      BY <3>1, <3>2
  <2>14. all[a][b] = e
    BY <2>7, <2>9
  <2>15. all \in [0..(nodecount - 1) -> Row(nodecount)]
    BY <2>1
  <2>16. all[Route.src][Route.dst] = e
    BY <2>4, <2>14
  <2>17. \A s, d \in 0..(nodecount - 1) : <<s, d>> # <<Route.src, Route.dst>> =>
           all[s][d] = pathtable.rows[s][d]
    <3>1. \A s, d \in 0..(nodecount - 1) : <<s, d>> # <<a, b>> => all[s][d] = rows[s][d]
      BY <2>1, <2>13
    <3>2. QED
      BY <2>2, <2>4, <3>1, Zenon
  <2>18. e = Null => [freed |-> FALSE, rows |-> all] = pathtable
    BY <2>3, <2>11
  <2>19. QED
    BY <2>10, <2>12, <2>15, <2>16, <2>17, <2>18, Zenon
<1>9. CASE /\ pathtable # Null /\ pc' = "pathentry" /\ k' = k + 1 /\ path' = path
           /\ pathtable' = Written(Null)
  <2>1. pathtable' = pathtable
    BY <1>8, <1>9, Zenon
  <2>2. QED
    BY <1>5, <1>9, <2>1
<1>10. CASE /\ pathtable # Null /\ pc' = "clear" /\ k' = k
            /\ pathtable' = Written(Entry)
            /\ path' = [id \in DOMAIN path \cup {Entry} |->
                          IF id = Entry
                          THEN [mem |-> "garbage", gen |-> hoptable.gen, hops |-> << >>]
                          ELSE path[id]]
  <2>1. /\ Entry \in PathIds /\ Entry # Null /\ Entry' = Entry /\ Route' = Route
        /\ Entry[2] = Route.src /\ Entry[3] = Route.dst
    BY <1>1, <1>2, <1>4, <1>10, IdIsPath DEF Entry, Route
  <2>2. /\ pathtable' \in [freed : {FALSE}, rows : [0..(nodecount - 1) -> Row(nodecount)]]
        /\ pathtable'.rows[Route.src][Route.dst] = Entry
        /\ \A s, d \in 0..(nodecount - 1) : <<s, d>> # <<Route.src, Route.dst>> =>
             pathtable'.rows[s][d] = pathtable.rows[s][d]
        /\ pathtable' # Null
    <3>1. PICK all \in [0..(nodecount - 1) -> Row(nodecount)] :
             /\ Written(Entry) = [freed |-> FALSE, rows |-> all]
             /\ all[Route.src][Route.dst] = Entry
             /\ \A s, d \in 0..(nodecount - 1) : <<s, d>> # <<Route.src, Route.dst>> =>
                  all[s][d] = pathtable.rows[s][d]
             /\ [freed |-> FALSE, rows |-> all] # Null
      BY <1>8, <1>10, <2>1, Zenon
    <3>2. pathtable' = [freed |-> FALSE, rows |-> all]
      BY <1>10, <3>1, Zenon
    <3>3. QED
      BY <3>1, <3>2
  <2>3. hoptable.gen = load
    BY <1>1 DEF HopInv
  <2>4. /\ DOMAIN path' = DOMAIN path \cup {Entry}
        /\ path' = [id \in DOMAIN path' |-> path'[id]]
        /\ path'[Entry] = [mem |-> "garbage", gen |-> load, hops |-> << >>]
        /\ \A id \in DOMAIN path : id # Entry => path'[id] = path[id]
    BY <1>10, <2>3
  <2>5. \A r \in 1..k : Id(r) # Entry
    BY <1>1, <1>2, <1>4, IdsDiffer
  <2>6. \A r \in 1..k : Complete(r) => Complete(r)'
    BY <1>3, <2>4, <2>5 DEF Complete
  <2>7. PhaseInv' /\ HopInv' /\ NodeInv'
    <3>1. PhaseInv'
      BY <1>1, <1>10 DEF PhaseInv, Served
    <3>2. HopInv'
      BY <1>1, <1>10 DEF HopInv
    <3>3. NodeInv'
      BY <1>1, <1>10 DEF NodeInv
    <3>4. QED
      BY <3>1, <3>2, <3>3
  <2>8. RowInv'
    BY <1>1, <1>7, <1>10, <2>2 DEF RowInv, Emptied
  <2>9. EntryInv'
    BY <1>1, <1>10, <2>1, <2>2, <2>4 DEF EntryInv
  <2>10. Reached' = k
    BY <1>10 DEF Reached
  <2>11. CellInv'
    <3> SUFFICES ASSUME NEW s \in 0..(nodecount - 1), NEW d \in 0..(nodecount - 1),
                        pathtable'.rows[s][d] # Null, <<s, d>> # <<Route.src, Route.dst>>
                 PROVE  \E r \in 1..k : /\ pathtable'.rows[s][d] = Id(r) /\ Complete(r)'
                                        /\ s = Model.routes[r].src /\ d = Model.routes[r].dst
      BY <1>1, <1>3, <1>10, <2>1, <2>2, <2>10 DEF CellInv
    <3>1. pathtable'.rows[s][d] = pathtable.rows[s][d]
      BY <2>2
    <3>2. \E r \in 1..k : /\ pathtable.rows[s][d] = Id(r) /\ Complete(r)
                          /\ s = Model.routes[r].src /\ d = Model.routes[r].dst
      BY <1>1, <1>10, <3>1 DEF CellInv
    <3>3. QED
      BY <2>6, <3>1, <3>2
  <2>12. LiveInv'
    <3>1. ASSUME NEW id \in DOMAIN path', path'[id].mem = "live"
          PROVE  /\ id[2] \in 0..(nodecount - 1) /\ id[3] \in 0..(nodecount - 1)
                 /\ pathtable'.rows[id[2]][id[3]] = id
      <4>1. id # Entry /\ id \in DOMAIN path /\ path[id].mem = "live" /\ id \in PathIds
        BY <2>4, <3>1 DEF LiveInv
      <4>2. /\ id[2] \in 0..(nodecount - 1) /\ id[3] \in 0..(nodecount - 1)
            /\ pathtable.rows[id[2]][id[3]] = id
        BY <4>1 DEF LiveInv
      <4>3. id # Null
        BY <4>1, MarkerAssumption DEF MarkerAssumption
      <4>4. <<id[2], id[3]>> # <<Route.src, Route.dst>>
        BY <1>7, <1>10, <4>2, <4>3
      <4>5. QED
        BY <2>2, <4>2, <4>4
    <3>2. pc' \in Served /\ DOMAIN path' \subseteq PathIds
      BY <1>10, <2>1, <2>4 DEF Served, LiveInv
    <3>3. QED
      BY <1>1, <2>2, <2>4, <3>1, <3>2 DEF LiveInv
  <2>13. PktInv'
    BY <1>1, <1>10, <2>6, <2>10, TravelsOn DEF Served
  <2>14. QED
    BY <2>7, <2>8, <2>9, <2>11, <2>12, <2>13
<1>11. QED
  BY <1>6, <1>9, <1>10 DEF proc_pathentry, Goto

\* The entry that is being written.
LEMMA EntryFacts ==
    ASSUME TopologyInv, pc \in {"clear", "fill"}
    PROVE  /\ load # 0 /\ k \in Nat /\ Reached = k /\ pc \in Served /\ pc \in AfterHops /\ pc \in AfterNodes
           /\ k + 1 \in 1..Len(Model.routes) /\ 1..k \subseteq 1..Len(Model.routes) /\ Len(Model.routes) \in Nat
           /\ Entry = Id(k + 1) /\ Entry \in PathIds /\ Entry # Null /\ Entry \in DOMAIN path
           /\ Entry[2] = Route.src /\ Entry[3] = Route.dst
           /\ \A r \in 1..k : Id(r) # Entry
           /\ pathtable # Null /\ pathtable.rows[Route.src][Route.dst] = Entry
           /\ Route.src \in 0..(nodecount - 1) /\ Route.dst \in 0..(nodecount - 1)
           /\ Route.hops \in Seq(0..(Model.hopcount - 1))
<1>1. /\ load # 0 /\ k \in Nat /\ Reached = k /\ pc \in Served /\ pc \in AfterHops /\ pc \in AfterNodes /\ PhaseInv
  BY DEF TopologyInv, PhaseInv, Reached, Served, AfterHops, AfterNodes
<1>2. k < Len(Model.routes) /\ pathtable # Null /\ Entry \in DOMAIN path
      /\ pathtable.rows[Route.src][Route.dst] = Entry
  BY DEF TopologyInv, EntryInv
<1>3. Len(Model.routes) \in Nat
  BY <1>1, ModelOf
<1>4. k + 1 \in 1..Len(Model.routes) /\ 1..k \subseteq 1..Len(Model.routes)
  BY <1>1, <1>2, <1>3
<1>5. Entry = Id(k + 1)
  BY DEF Entry, Id, Route
<1>6. /\ Entry \in PathIds /\ Entry # Null /\ Entry[2] = Route.src /\ Entry[3] = Route.dst
  BY <1>1, <1>4, <1>5, IdIsPath DEF Route
<1>7. \A r \in 1..k : Id(r) # Entry
  BY <1>1, <1>4, <1>5, IdsDiffer
<1>8. nodecount = Model.nodecount
  BY <1>1, <1>2 DEF TopologyInv, RowInv
<1>9. /\ Route.src \in 0..(nodecount - 1) /\ Route.dst \in 0..(nodecount - 1)
      /\ Route.hops \in Seq(0..(Model.hopcount - 1))
  BY <1>1, <1>4, <1>8, ModelOf DEF Route
<1>10. QED
  BY <1>1, <1>2, <1>3, <1>4, <1>5, <1>6, <1>7, <1>9

\* A step that leaves the array of the entry live, with the first hops of its route.
LEMMA EntryGrows ==
    ASSUME TopologyInv, pc \in {"clear", "fill"}, pc' = "fill", k' = k,
           UNCHANGED <<load, hoptable, hopcount, nodetable, nodecount, pathtable, pkt>>,
           NEW h \in Seq(0..(Model.hopcount - 1)), Len(h) <= Len(Route.hops),
           \A i \in 1..Len(h) : h[i] = Route.hops[i],
           path' = [path EXCEPT ![Entry] = [mem |-> "live", gen |-> load, hops |-> h]]
    PROVE  TopologyInv'
<1> USE DEF TopologyInv
<1>1. /\ load # 0 /\ k \in Nat /\ Reached = k /\ pc \in Served /\ pc \in AfterHops /\ pc \in AfterNodes
      /\ Entry \in PathIds /\ Entry # Null /\ Entry \in DOMAIN path
      /\ Entry[2] = Route.src /\ Entry[3] = Route.dst
      /\ \A r \in 1..k : Id(r) # Entry
      /\ pathtable # Null /\ pathtable.rows[Route.src][Route.dst] = Entry
      /\ Route.src \in 0..(nodecount - 1) /\ Route.dst \in 0..(nodecount - 1)
  BY EntryFacts
<1>2. /\ Model' = Model /\ Entry' = Entry /\ Route' = Route /\ Reached' = k
      /\ \A r : Id(r)' = Id(r) /\ Full(r)' = Full(r)
  BY DEF Model, Entry, Route, Reached, Id, Full
<1>3. /\ DOMAIN path' = DOMAIN path /\ path' = [id \in DOMAIN path' |-> path'[id]]
      /\ path'[Entry] = [mem |-> "live", gen |-> load, hops |-> h]
      /\ \A id \in DOMAIN path : id # Entry => path'[id] = path[id]
  BY <1>1 DEF LiveInv
<1>4. \A r \in 1..k : Complete(r) => Complete(r)'
  BY <1>1, <1>2, <1>3 DEF Complete
<1>5. PhaseInv'
  BY <1>1 DEF PhaseInv, Served
<1>6. HopInv'
  BY <1>1, <1>2 DEF HopInv
<1>7. NodeInv'
  BY <1>1, <1>2 DEF NodeInv
<1>8. RowInv'
  BY <1>1, <1>2 DEF RowInv, Emptied, Served
<1>9. CellInv'
  <2> SUFFICES ASSUME NEW s \in 0..(nodecount - 1), NEW d \in 0..(nodecount - 1),
                      pathtable.rows[s][d] # Null,
                      ~(s = Route.src /\ d = Route.dst /\ pathtable.rows[s][d] = Entry)
               PROVE  \E r \in 1..k : /\ pathtable.rows[s][d] = Id(r) /\ Complete(r)'
                                      /\ s = Model.routes[r].src /\ d = Model.routes[r].dst
    BY <1>1, <1>2 DEF CellInv
  <2>1. \E r \in 1..k : /\ pathtable.rows[s][d] = Id(r) /\ Complete(r)
                        /\ s = Model.routes[r].src /\ d = Model.routes[r].dst
    BY <1>1 DEF CellInv
  <2>2. QED
    BY <1>4, <2>1
<1>10. EntryInv'
  <2>1. k < Len(Model.routes)
    BY DEF EntryInv
  <2>2. path'[Entry].hops = h
    BY <1>3
  <2>3. QED
    BY <1>1, <1>2, <1>3, <2>1, <2>2 DEF EntryInv
<1>11. LiveInv'
  <2>1. ASSUME NEW id \in DOMAIN path', path'[id].mem = "live"
        PROVE  /\ id[2] \in 0..(nodecount - 1) /\ id[3] \in 0..(nodecount - 1)
               /\ pathtable.rows[id[2]][id[3]] = id
    <3>1. CASE id = Entry
      BY <1>1, <3>1
    <3>2. CASE id # Entry
      <4>1. id \in DOMAIN path /\ path[id].mem = "live"
        BY <1>3, <2>1, <3>2
      <4>2. QED
        BY <4>1 DEF LiveInv
    <3>3. QED
      BY <3>1, <3>2
  <2>2. pc' \in Served /\ DOMAIN path' \subseteq PathIds
    BY <1>3 DEF Served, LiveInv
  <2>3. QED
    BY <1>1, <1>3, <2>1, <2>2 DEF LiveInv
<1>12. PktInv'
  BY <1>1, <1>2, <1>4, TravelsOn DEF Served
<1>13. QED
  BY <1>5, <1>6, <1>7, <1>8, <1>9, <1>10, <1>11, <1>12

LEMMA SeqFacts ==
    ASSUME NEW S
    PROVE  /\ << >> \in Seq(S) /\ Len(<< >>) = 0
           /\ \A h \in Seq(S) : \A x \in S : Append(h, x) \in Seq(S)
           /\ \A h \in Seq(S) : Len(h) \in Nat /\ \A i \in 1..Len(h) : h[i] \in S
OBVIOUS

LEMMA EntryClearKeeps ==
    ASSUME TopologyInv, entry_clear
    PROVE  TopologyInv'
<1>1. /\ pc = "clear" /\ pc' = "fill" /\ k' = k
      /\ UNCHANGED <<load, hoptable, hopcount, nodetable, nodecount, pathtable, pkt>>
      /\ path' = [path EXCEPT ![Entry].mem = "live"]
  BY DEF entry_clear, Goto
<1>2. path[Entry] = [mem |-> "garbage", gen |-> load, hops |-> << >>]
  BY <1>1 DEF TopologyInv, EntryInv
<1>3. [path[Entry] EXCEPT !.mem = "live"] = [mem |-> "live", gen |-> load, hops |-> << >>]
  BY <1>2
<1>4. path' = [path EXCEPT ![Entry] = [path[Entry] EXCEPT !.mem = "live"]]
  BY <1>1
<1>5. path' = [path EXCEPT ![Entry] = [mem |-> "live", gen |-> load, hops |-> << >>]]
  BY <1>3, <1>4, Zenon
<1>6. PICK h \in Seq(0..(Model.hopcount - 1)) : h = << >>
  BY SeqFacts
<1>7. Route.hops \in Seq(0..(Model.hopcount - 1))
  BY <1>1, EntryFacts
<1>8. Len(h) <= Len(Route.hops) /\ \A i \in 1..Len(h) : h[i] = Route.hops[i]
  BY <1>6, <1>7
<1>9. QED
  BY <1>1, <1>5, <1>6, <1>8, EntryGrows

\* The last hop has been written: the entry is complete.
LEMMA EntryFillKeeps ==
    ASSUME TopologyInv, entry_fill
    PROVE  TopologyInv'
<1> USE DEF TopologyInv
<1>1. pc = "fill" /\ UNCHANGED <<load, hoptable, hopcount, nodetable, nodecount, pathtable, pkt>>
  BY DEF entry_fill
<1>2. PICK h \in Seq(0..(Model.hopcount - 1)) :
        /\ h = path[Entry].hops /\ Len(h) <= Len(Route.hops)
        /\ \A i \in 1..Len(h) : h[i] = Route.hops[i]
        /\ path[Entry] = [mem |-> "live", gen |-> load, hops |-> h]
  BY <1>1 DEF EntryInv
<1>3. Route.hops \in Seq(0..(Model.hopcount - 1))
  BY <1>1, EntryFacts
<1>4. CASE Len(h) < Len(Route.hops)
  <2>1. /\ path' = [path EXCEPT ![Entry].hops = Append(h, Route.hops[Len(h) + 1])]
        /\ pc' = "fill" /\ k' = k
    BY <1>2, <1>4, Zenon DEF entry_fill, Goto
  <2>2. PICK x \in 0..(Model.hopcount - 1) : x = Route.hops[Len(h) + 1]
    <3>1. Len(h) \in Nat /\ Len(Route.hops) \in Nat /\ \A i \in 1..Len(Route.hops) : Route.hops[i] \in 0..(Model.hopcount - 1)
      BY <1>3, SeqFacts
    <3>2. Len(h) + 1 \in 1..Len(Route.hops)
      BY <1>4, <3>1
    <3>3. QED
      BY <3>1, <3>2
  <2>3. PICK g \in Seq(0..(Model.hopcount - 1)) : g = Append(h, x)
    BY SeqFacts
  <2>4. /\ Len(g) <= Len(Route.hops)
        /\ \A i \in 1..Len(g) : g[i] = Route.hops[i]
    <3>1. Len(g) = Len(h) + 1 /\ \A i \in 1..Len(g) : g[i] = IF i <= Len(h) THEN h[i] ELSE x
      BY <2>3
    <3>2. QED
      BY <1>2, <1>3, <1>4, <2>2, <3>1
  <2>5. [path[Entry] EXCEPT !.hops = g] = [mem |-> "live", gen |-> load, hops |-> g]
    BY <1>2
  <2>6. path' = [path EXCEPT ![Entry] = [path[Entry] EXCEPT !.hops = g]]
    BY <2>1, <2>2, <2>3
  <2>7. path' = [path EXCEPT ![Entry] = [mem |-> "live", gen |-> load, hops |-> g]]
    BY <2>5, <2>6, Zenon
  <2>8. QED
    BY <1>1, <2>1, <2>4, <2>7, EntryGrows
<1>5. CASE ~(Len(h) < Len(Route.hops))
  <2>1. path' = path /\ pc' = "pathentry" /\ k' = k + 1
    BY <1>2, <1>5, Zenon DEF entry_fill, Goto
  <2>2. h = Route.hops
    <3>1. Len(h) = Len(Route.hops)
      BY <1>2, <1>3, <1>5
    <3>2. QED
      BY <1>2, <1>3, <3>1
  <2>3. /\ load # 0 /\ k \in Nat /\ Reached = k /\ pc \in Served /\ pc \in AfterHops /\ pc \in AfterNodes
        /\ k + 1 \in 1..Len(Model.routes) /\ Len(Model.routes) \in Nat
        /\ Entry = Id(k + 1) /\ Entry \in DOMAIN path /\ pathtable # Null
    BY <1>1, EntryFacts
  <2>4. Complete(k + 1)
    BY <1>2, <2>2, <2>3 DEF Complete, Full, Route
  <2>5. /\ Model' = Model /\ Reached' = k + 1
        /\ \A r : Id(r)' = Id(r) /\ Full(r)' = Full(r)
    BY <1>1, <2>1 DEF Model, Reached, Id, Full
  <2>6. \A r : Complete(r)' <=> Complete(r)
    BY <2>1, <2>5 DEF Complete
  <2>7. k + 1 \in 1..(k + 1) /\ \A r \in 1..k : r \in 1..(k + 1)
    BY <2>3
  <2>8. PhaseInv'
    BY <1>1, <2>1, <2>3, <2>5 DEF PhaseInv, Served
  <2>9. HopInv'
    BY <1>1, <2>1, <2>3, <2>5 DEF HopInv
  <2>10. NodeInv'
    BY <1>1, <2>1, <2>3, <2>5 DEF NodeInv
  <2>11. RowInv'
    BY <1>1, <2>1, <2>3, <2>5 DEF RowInv, Emptied
  <2>12. CellInv'
    <3> SUFFICES ASSUME NEW s \in 0..(nodecount - 1), NEW d \in 0..(nodecount - 1),
                        pathtable.rows[s][d] # Null
                 PROVE  \E r \in 1..(k + 1) : /\ pathtable.rows[s][d] = Id(r) /\ Complete(r)
                                              /\ s = Model.routes[r].src /\ d = Model.routes[r].dst
      BY <1>1, <2>1, <2>5, <2>6 DEF CellInv
    <3>1. CASE s = Route.src /\ d = Route.dst /\ pathtable.rows[s][d] = Entry
      BY <2>3, <2>4, <2>7, <3>1 DEF Route
    <3>2. CASE ~(s = Route.src /\ d = Route.dst /\ pathtable.rows[s][d] = Entry)
      <4>1. \E r \in 1..k : /\ pathtable.rows[s][d] = Id(r) /\ Complete(r)
                            /\ s = Model.routes[r].src /\ d = Model.routes[r].dst
        BY <2>3, <3>2 DEF CellInv
      <4>2. QED
        BY <2>7, <4>1
    <3>3. QED
      BY <3>1, <3>2
  <2>13. EntryInv'
    BY <2>1 DEF EntryInv
  <2>14. LiveInv'
    BY <1>1, <2>1 DEF LiveInv, Served
  <2>15. PktInv'
    BY <1>1, <2>1, <2>3, <2>5, <2>6, <2>7, TravelsOn DEF Served
  <2>16. QED
    BY <2>8, <2>9, <2>10, <2>11, <2>12, <2>13, <2>14, <2>15
<1>6. QED
  BY <1>4, <1>5

\* modelload is done.
LEMMA LoadedKeeps ==
    ASSUME TopologyInv, loaded
    PROVE  TopologyInv'
<1> USE DEF TopologyInv
<1>1. /\ pc = "pathentry" /\ pc' = "idle" /\ k' = 0 /\ k = Len(Model.routes) /\ load # 0
      /\ UNCHANGED <<load, hoptable, hopcount, nodetable, nodecount, pathtable, path, pkt>>
      /\ pc \in Served /\ pc \in AfterHops /\ pc \in AfterNodes
  BY DEF loaded, tables, PhaseInv, Served, AfterHops, AfterNodes
<1>2. /\ Model' = Model /\ Reached' = k /\ Reached = k
      /\ \A r : Id(r)' = Id(r) /\ Full(r)' = Full(r)
  BY <1>1 DEF Model, Reached, Id, Full
<1>3. \A r : Complete(r)' <=> Complete(r)
  BY <1>1, <1>2 DEF Complete
<1>4. PhaseInv'
  BY <1>1, <1>2 DEF PhaseInv, Served
<1>5. HopInv'
  BY <1>1, <1>2 DEF HopInv, AfterHops, AfterNodes
<1>6. NodeInv'
  BY <1>1, <1>2 DEF NodeInv, AfterNodes
<1>7. RowInv'
  BY <1>1, <1>2 DEF RowInv, Emptied
<1>8. CellInv'
  <2> SUFFICES ASSUME pathtable # Null, NEW s \in 0..(nodecount - 1), NEW d \in 0..(nodecount - 1),
                      pathtable.rows[s][d] # Null
               PROVE  \E r \in 1..k : /\ pathtable.rows[s][d] = Id(r) /\ Complete(r)
                                      /\ s = Model.routes[r].src /\ d = Model.routes[r].dst
    BY <1>1, <1>2, <1>3 DEF CellInv
  <2>1. QED
    BY <1>1, <1>2 DEF CellInv
<1>9. EntryInv'
  BY <1>1 DEF EntryInv
<1>10. LiveInv'
  BY <1>1 DEF LiveInv, Served
<1>11. PktInv'
  BY <1>1, <1>2, <1>3, TravelsOn DEF Served
<1>12. QED
  BY <1>4, <1>5, <1>6, <1>7, <1>8, <1>9, <1>10, <1>11
-----------------------------------------------------------------------------
(* Packets.                                                                   *)

\* While packets may find paths the routes that count are routes of the model.
LEMMA ReachedIsRoute ==
    ASSUME TopologyInv, pc \in Served, load # 0, NEW r \in 1..Reached
    PROVE  r \in 1..Len(Model.routes)
<1>1. Len(Model.routes) \in Nat /\ k \in Nat
  BY ModelOf DEF TopologyInv, PhaseInv
<1>2. Reached \in Nat /\ Reached <= Len(Model.routes)
  BY <1>1 DEF TopologyInv, Reached, Served, PhaseInv, EntryInv
<1>3. QED
  BY <1>1, <1>2

\* lookup_path finds a complete path from the source to the destination, or nothing.
LEMMA LookupFinds ==
    ASSUME TopologyInv, NEW src \in Addrs, NEW dst \in Addrs, Met(src, dst) = {}
    PROVE  \/ lookup_path(src, dst) = Null
           \/ /\ lookup_path(src, dst) \notin {Null, Wild}
              /\ pc \in Served /\ load # 0
              /\ \E r \in 1..Reached :
                   /\ lookup_path(src, dst) = Id(r) /\ Complete(r)
                   /\ Model.routes[r].src = Model.nodetable[src]
                   /\ Model.routes[r].dst = Model.nodetable[dst]
<1> USE DEF TopologyInv
<1>1. CASE pathtable = Null \/ nodetable[src] = -1 \/ nodetable[dst] = -1
  BY <1>1 DEF lookup_path
<1>2. CASE pathtable # Null /\ nodetable[src] # -1 /\ nodetable[dst] # -1
  <2>1. /\ pc \notin {"forget", "forgetpaths", "newrow", "undo"}
        /\ ~(pc \in {"clear", "fill"} /\ nodetable[src] = Route.src /\ nodetable[dst] = Route.dst)
        /\ nodetable[src] = Model.nodetable[src] /\ nodetable[dst] = Model.nodetable[dst]
    <3>1. "handler" \notin Met(src, dst) /\ "oldnode" \notin Met(src, dst)
      OBVIOUS
    <3>2. QED
      BY <3>1 DEF Met
  <2>2. pc \in Served
    BY <1>2, <2>1 DEF PhaseInv, RowInv, Emptied, Served, AfterHops, AfterNodes
  <2>3. load # 0 /\ nodecount \in Nat /\ nodecount = Model.nodecount
        /\ pathtable \in [freed : {FALSE}, rows : [0..(nodecount - 1) -> Row(nodecount)]]
    BY <1>2, <2>2 DEF RowInv
  <2>5. PICK n \in Nat : n = nodecount
    BY <2>3
  <2>6. PICK s \in 0..(n - 1), d \in 0..(n - 1) : s = nodetable[src] /\ d = nodetable[dst]
    <3>1. Model.nodetable \in [Addrs -> -1..(n - 1)]
      BY <2>3, <2>5, ModelOf
    <3>2. nodetable[src] \in 0..(n - 1) /\ nodetable[dst] \in 0..(n - 1)
      BY <1>2, <2>1, <3>1
    <3>3. QED
      BY <3>2
  <2>7. PICK rows \in [0..(n - 1) -> Row(n)] : rows = pathtable.rows
    BY <2>3, <2>5
  <2>8. ~pathtable.freed /\ s \in DOMAIN pathtable.rows /\ d \in DOMAIN pathtable.rows
    BY <2>3, <2>7
  <2>9. rows[s] # Garbage
    <3>1. load \in DOMAIN Models /\ n = Models[load].nodecount
      BY <2>3, <2>5, ModelOf DEF Model
    <3>2. QED
      BY <3>1, MarkerAssumption DEF MarkerAssumption
  <2>10. lookup_path(src, dst) = rows[s][d]
    BY <1>2, <2>6, <2>7, <2>8, <2>9 DEF lookup_path
  <2>11. CASE rows[s][d] = Null
    BY <2>10, <2>11
  <2>12. CASE rows[s][d] # Null
    <3>1. PICK r \in 1..Reached : /\ pathtable.rows[s][d] = Id(r) /\ Complete(r)
                                  /\ s = Model.routes[r].src /\ d = Model.routes[r].dst
      <4>1. ~(pc \in {"clear", "fill"} /\ s = Route.src /\ d = Route.dst)
        BY <2>1, <2>6
      <4>2. s \in 0..(nodecount - 1) /\ d \in 0..(nodecount - 1) /\ pathtable.rows[s][d] # Null
        BY <2>5, <2>7, <2>12
      <4>3. QED
        BY <1>2, <2>2, <4>1, <4>2 DEF CellInv
    <3>2. Id(r) # Null /\ Id(r) # Wild
      BY <2>2, <2>3, ReachedIsRoute, IdIsPath
    <3>3. lookup_path(src, dst) = Id(r)
      BY <2>7, <2>10, <3>1
    <3>4. Model.routes[r].src = Model.nodetable[src] /\ Model.routes[r].dst = Model.nodetable[dst]
      BY <2>1, <2>6, <3>1
    <3>5. QED
      BY <2>2, <2>3, <3>1, <3>2, <3>3, <3>4
  <2>13. QED
    BY <2>11, <2>12
<1>3. QED
  BY <1>1, <1>2

\* emulate_nexthop changes nothing but where a packet is.
LEMMA NextHopShape ==
    ASSUME NEW q, Packet(q)
    PROVE  /\ nexthop(q).met = q.met /\ Packet(nexthop(q))
           /\ nexthop(q).st \in {"wild", "forwarded", "crossing"}
<1>1. PICK h : h = CurHop(q.id, Len(q.crossed))
  OBVIOUS
<1>2. q = [st |-> q.st, src |-> q.src, dst |-> q.dst, load |-> q.load, id |-> q.id, crossed |-> q.crossed, met |-> q.met]
  BY DEF Packet
<1>3. ASSUME NEW x PROVE [q EXCEPT !.st = x] = [st |-> x, src |-> q.src, dst |-> q.dst, load |-> q.load,
                                               id |-> q.id, crossed |-> q.crossed, met |-> q.met]
  BY <1>2
<1>4. CASE h = Wild
  <2>1. nexthop(q) = [q EXCEPT !.st = "wild"]
    BY <1>1, <1>4 DEF nexthop
  <2>2. QED
    BY <1>3, <2>1 DEF Packet
<1>5. CASE h = Null /\ h # Wild
  <2>1. nexthop(q) = [q EXCEPT !.st = "forwarded"]
    BY <1>1, <1>5 DEF nexthop
  <2>2. QED
    BY <1>3, <2>1 DEF Packet
<1>6. CASE h # Null /\ h # Wild
  <2>1. PICK g : g = Append(q.crossed, h)
    OBVIOUS
  <2>2. nexthop(q) = [q EXCEPT !.st = "crossing", !.crossed = g]
    BY <1>1, <1>6, <2>1 DEF nexthop
  <2>3. PICK u : u = [q EXCEPT !.st = "crossing"]
    OBVIOUS
  <2>4. u = [st |-> "crossing", src |-> q.src, dst |-> q.dst, load |-> q.load,
             id |-> q.id, crossed |-> q.crossed, met |-> q.met]
    BY <1>3, <2>3
  <2>5. nexthop(q) = [u EXCEPT !.crossed = g]
    BY <2>2, <2>3
  <2>6. PICK q1, q2, q3, q4, q5, q6 :
          q1 = q.src /\ q2 = q.dst /\ q3 = q.load /\ q4 = q.id /\ q5 = q.crossed /\ q6 = q.met
    OBVIOUS
  <2>7. u = [st |-> "crossing", src |-> q1, dst |-> q2, load |-> q3, id |-> q4, crossed |-> q5, met |-> q6]
    BY <2>4, <2>6, Zenon
  <2>8. [u EXCEPT !.crossed = g] =
          [st |-> "crossing", src |-> q1, dst |-> q2, load |-> q3, id |-> q4, crossed |-> g, met |-> q6]
    BY <2>7
  <2>9. QED
    BY <2>5, <2>6, <2>8 DEF Packet
<1>7. QED
  BY <1>4, <1>5, <1>6

\* emulate_nexthop finds the next hop of the route, or its end.
LEMMA NextHopFinds ==
    ASSUME TopologyInv, NEW q, Travels(q)
    PROVE  /\ nexthop(q).st # "wild"
           /\ nexthop(q).st = "crossing" => Travels(nexthop(q))
           /\ nexthop(q).st = "forwarded" => Arrived(nexthop(q))
<1> USE DEF TopologyInv
<1>1. /\ q = [st |-> q.st, src |-> q.src, dst |-> q.dst, load |-> q.load, id |-> q.id, crossed |-> q.crossed, met |-> q.met]
      /\ pc \in Served /\ load # 0 /\ q.load = load
  BY DEF Travels, Packet
<1>2. PICK r \in 1..Reached : q.id = Id(r) /\ Complete(r) /\ OnRoute(q, Model, r)
  BY DEF Travels
<1>3. r \in 1..Len(Model.routes) /\ DOMAIN Model.routes = 1..Len(Model.routes)
  BY <1>1, ReachedIsRoute, ModelOf
<1>4. PICK hops \in Seq(0..(Model.hopcount - 1)) : hops = Model.routes[r].hops
  BY <1>1, <1>3, ModelOf
<1>5. path[q.id] = [mem |-> "live", gen |-> load, hops |-> hops]
  BY <1>2, <1>4 DEF Complete, Full
<1>6. hoptable = [gen |-> load, ready |-> Model.hopcount] /\ load \in Nat /\ Model.hopcount \in Nat
  BY <1>1, ModelOf DEF HopInv, Served, AfterHops, AfterNodes
<1>7. hoptable # Null
  BY <1>6, MarkerAssumption DEF MarkerAssumption
<1>8. PICK c \in Seq(0..(Model.hopcount - 1)) :
        /\ c = q.crossed /\ Len(c) <= Len(hops) /\ \A i \in 1..Len(c) : c[i] = hops[i]
  BY <1>2, <1>4 DEF OnRoute
<1>9. Len(c) \in Nat /\ Len(hops) \in Nat /\ \A i \in 1..Len(hops) : hops[i] \in 0..(Model.hopcount - 1)
  BY SeqFacts
<1>10. CASE Len(c) >= Len(hops)
  <2>1. CurHop(q.id, Len(q.crossed)) = Null
    BY <1>5, <1>8, <1>10 DEF CurHop
  <2>2. nexthop(q) = [q EXCEPT !.st = "forwarded"]
    BY <2>1, MarkerAssumption DEF MarkerAssumption, nexthop
  <2>3. [q EXCEPT !.st = "forwarded"] =
          [st |-> "forwarded", src |-> q.src, dst |-> q.dst, load |-> q.load, id |-> q.id, crossed |-> q.crossed, met |-> q.met]
    BY <1>1
  <2>4. c = hops
    <3>1. Len(c) = Len(hops)
      BY <1>8, <1>9, <1>10
    <3>2. QED
      BY <1>8, <3>1
  <2>5. PICK f : f = nexthop(q)
    OBVIOUS
  <2>6. /\ f.st = "forwarded" /\ f.src = q.src /\ f.dst = q.dst /\ f.load = load /\ f.crossed = hops
    BY <1>1, <1>8, <2>2, <2>3, <2>4, <2>5
  <2>7. Arrived(f)
    BY <1>2, <1>3, <1>4, <2>6 DEF Arrived, OnRoute, Model
  <2>8. QED
    BY <2>5, <2>6, <2>7
<1>11. CASE Len(c) < Len(hops)
  <2>1. PICK x \in 0..(Model.hopcount - 1) : x = hops[Len(c) + 1]
    <3>1. Len(c) + 1 \in 1..Len(hops)
      BY <1>9, <1>11
    <3>2. QED
      BY <1>9, <3>1
  <2>2. x \in Int /\ x < Model.hopcount
    BY <1>6
  <2>3. CurHop(q.id, Len(q.crossed)) = x
    <3>1. ~(Len(c) >= Len(hops))
      BY <1>9, <1>11
    <3>2. /\ path[q.id].mem = "live" /\ path[q.id].gen = load /\ path[q.id].hops = hops
          /\ hoptable.gen = load /\ hoptable.ready = Model.hopcount
      BY <1>5, <1>6
    <3>3. QED
      BY <1>7, <1>8, <2>1, <2>2, <3>1, <3>2 DEF CurHop
  <2>4. x # Wild /\ x # Null
    BY <2>2, MarkerAssumption DEF MarkerAssumption
  <2>5. PICK g \in Seq(0..(Model.hopcount - 1)) : g = Append(c, x)
    BY SeqFacts
  <2>6. nexthop(q) = [q EXCEPT !.st = "crossing", !.crossed = g]
    BY <1>8, <2>3, <2>4, <2>5 DEF nexthop
  <2>7. [q EXCEPT !.st = "crossing", !.crossed = g] =
          [st |-> "crossing", src |-> q.src, dst |-> q.dst, load |-> q.load, id |-> q.id, crossed |-> g, met |-> q.met]
    <3>1. PICK u : u = [st |-> "crossing", src |-> q.src, dst |-> q.dst, load |-> q.load, id |-> q.id, crossed |-> q.crossed, met |-> q.met]
      OBVIOUS
    <3>2. [q EXCEPT !.st = "crossing"] = u
      BY <1>1, <3>1
    <3>3. [q EXCEPT !.st = "crossing", !.crossed = g] = [[q EXCEPT !.st = "crossing"] EXCEPT !.crossed = g]
      OBVIOUS
    <3>4. PICK q1, q2, q3, q4, q5, q6 : q1 = q.src /\ q2 = q.dst /\ q3 = q.load /\ q4 = q.id /\ q5 = q.crossed /\ q6 = q.met
      OBVIOUS
    <3>5. u = [st |-> "crossing", src |-> q1, dst |-> q2, load |-> q3, id |-> q4, crossed |-> q5, met |-> q6]
      BY <3>1, <3>4, Zenon
    <3>6. [u EXCEPT !.crossed = g] = [st |-> "crossing", src |-> q1, dst |-> q2, load |-> q3, id |-> q4, crossed |-> g, met |-> q6]
      BY <3>5
    <3>7. QED
      BY <3>2, <3>3, <3>4, <3>6, Zenon
  <2>8. PICK f : f = nexthop(q)
    OBVIOUS
  <2>9. /\ Packet(f)
        /\ f.st = "crossing" /\ f.src = q.src /\ f.dst = q.dst /\ f.load = load /\ f.id = q.id /\ f.crossed = g
    BY <1>1, <2>6, <2>7, <2>8 DEF Packet
  <2>10. Len(g) = Len(c) + 1 /\ \A i \in 1..Len(g) : g[i] = IF i <= Len(c) THEN c[i] ELSE x
    BY <2>5
  <2>11. Len(g) <= Len(hops) /\ \A i \in 1..Len(g) : g[i] = hops[i]
    BY <1>8, <1>9, <1>11, <2>1, <2>10
  <2>12. OnRoute(f, Model, r)
    BY <1>2, <1>4, <2>9, <2>11 DEF OnRoute
  <2>13. Travels(f)
    BY <1>1, <1>2, <2>9, <2>12 DEF Travels
  <2>14. QED
    BY <2>8, <2>9, <2>13
<1>12. QED
  BY <1>9, <1>10, <1>11

\* A step of one packet.
LEMMA PacketKeeps ==
    ASSUME TopologyInv, UNCHANGED <<load, pc, k, tables>>, NEW p \in Pkts, NEW q,
           pkt' = [pkt EXCEPT ![p] = q], Fares(q)
    PROVE  TopologyInv'
<1> USE DEF TopologyInv
<1>1. UNCHANGED <<load, pc, k, hoptable, hopcount, nodetable, nodecount, pathtable, path>>
  BY DEF tables
<1>2. /\ Model' = Model /\ Reached' = Reached /\ Entry' = Entry /\ Route' = Route
      /\ \A r : Id(r)' = Id(r) /\ Full(r)' = Full(r)
  BY <1>1 DEF Model, Reached, Id, Full, Entry, Route
<1>3. \A r : Complete(r)' <=> Complete(r)
  BY <1>1, <1>2 DEF Complete
<1>4. PhaseInv' /\ HopInv' /\ NodeInv' /\ RowInv'
  BY <1>1, <1>2 DEF PhaseInv, HopInv, NodeInv, RowInv
<1>5. CellInv'
  BY <1>1, <1>2, <1>3 DEF CellInv
<1>6. EntryInv'
  BY <1>1, <1>2 DEF EntryInv
<1>7. LiveInv'
  BY <1>1 DEF LiveInv
<1>8. PktInv'
  <2>1. /\ pkt' = [x \in Pkts |-> pkt'[x]] /\ pkt'[p] = q
        /\ \A x \in Pkts : x # p => pkt'[x] = pkt[x]
    BY DEF PktInv
  <2>2. ASSUME NEW x \in Pkts
        PROVE  Fares(pkt'[x])
    <3>1. CASE x = p
      BY <2>1, <3>1
    <3>2. CASE x # p
      <4>1. pkt'[x] = pkt[x]
        BY <2>1, <3>2
      <4>2. QED
        BY <4>1 DEF PktInv
    <3>3. QED
      BY <3>1, <3>2
  <2>3. ASSUME NEW x \in Pkts PROVE Travels(pkt'[x]) => Travels(pkt[x])'
    BY <1>1, <1>2, <1>3 DEF Travels, Packet, OnRoute
  <2>4. ASSUME NEW x \in Pkts PROVE Arrived(pkt'[x]) => Arrived(pkt[x])'
    BY DEF Arrived
  <2>5. ASSUME NEW x \in Pkts PROVE Fares(pkt[x])'
    BY <2>2, <2>3, <2>4 DEF Fares, Packet
  <2>6. QED
    BY <2>1, <2>5 DEF PktInv
<1>9. QED
  BY <1>4, <1>5, <1>6, <1>7, <1>8

\* A packet arrives.
LEMMA FilterKeeps ==
    ASSUME TopologyInv, NEW p \in Pkts, NEW src \in Addrs, NEW dst \in Addrs,
           filter_ipinput(p, src, dst)
    PROVE  TopologyInv'
<1>1. UNCHANGED <<load, pc, k, tables>>
  BY DEF filter_ipinput
<1>2. PICK id, m : id = lookup_path(src, dst) /\ m = Met(src, dst)
  OBVIOUS
<1>3. PICK q : q = [st |-> "new", src |-> src, dst |-> dst, load |-> load, id |-> id, crossed |-> << >>, met |-> m]
  OBVIOUS
<1>4. /\ Packet(q) /\ q.st = "new" /\ q.met = m
      /\ q.src = src /\ q.dst = dst /\ q.load = load /\ q.id = id /\ q.crossed = << >>
  BY <1>3 DEF Packet
<1>5. \/ id = Null /\ pkt' = [pkt EXCEPT ![p] = [st |-> "passed"]]
      \/ id = Wild /\ pkt' = [pkt EXCEPT ![p] = [q EXCEPT !.st = "wild"]]
      \/ id \notin {Null, Wild} /\ pkt' = [pkt EXCEPT ![p] = nexthop(q)]
  BY <1>2, <1>3, Zenon DEF filter_ipinput
<1>6. CASE id = Null
  <2>1. PICK f : f = [st |-> "passed"]
    OBVIOUS
  <2>2. f.st = "passed"
    BY <2>1
  <2>3. pkt' = [pkt EXCEPT ![p] = f]
    BY <1>5, <1>6, <2>1, MarkerAssumption DEF MarkerAssumption
  <2>4. Fares(f)
    BY <2>2 DEF Fares
  <2>5. QED
    BY <1>1, <2>3, <2>4, PacketKeeps
<1>7. CASE id # Null /\ m # {}
  <2>1. CASE id = Wild /\ pkt' = [pkt EXCEPT ![p] = [q EXCEPT !.st = "wild"]]
    <3>1. PICK f : f = [q EXCEPT !.st = "wild"]
      OBVIOUS
    <3>2. f.st = "wild" /\ f.met = m
      BY <1>3, <3>1
    <3>3. Fares(f)
      BY <1>7, <3>2 DEF Fares
    <3>4. QED
      BY <1>1, <2>1, <3>1, <3>3, PacketKeeps
  <2>2. CASE pkt' = [pkt EXCEPT ![p] = nexthop(q)]
    <3>1. Fares(nexthop(q))
      BY <1>4, <1>7, NextHopShape DEF Fares
    <3>2. QED
      BY <1>1, <2>2, <3>1, PacketKeeps
  <2>3. QED
    BY <1>5, <1>7, <2>1, <2>2
<1>8. CASE id # Null /\ m = {}
  <2>1. /\ id \notin {Null, Wild} /\ pc \in Served /\ load # 0
        /\ \E r \in 1..Reached : /\ id = Id(r) /\ Complete(r)
                                 /\ Model.routes[r].src = Model.nodetable[src]
                                 /\ Model.routes[r].dst = Model.nodetable[dst]
    <3>1. Met(src, dst) = {} /\ lookup_path(src, dst) # Null
      BY <1>2, <1>8
    <3>2. QED
      BY <1>2, <3>1, LookupFinds
  <2>2. PICK r \in 1..Reached : /\ id = Id(r) /\ Complete(r)
                                /\ Model.routes[r].src = Model.nodetable[src]
                                /\ Model.routes[r].dst = Model.nodetable[dst]
    BY <2>1
  <2>5. Model.routes[r].hops \in Seq(0..(Model.hopcount - 1))
    BY <2>1, ReachedIsRoute, ModelOf DEF TopologyInv
  <2>6. OnRoute(q, Model, r)
    <3>1. /\ q.crossed \in Seq(0..(Model.hopcount - 1)) /\ Len(q.crossed) = 0
          /\ Len(Model.routes[r].hops) \in Nat
      BY <1>4, <2>5, SeqFacts
    <3>2. QED
      BY <1>4, <2>2, <3>1 DEF OnRoute
  <2>7. Travels(q)
    BY <1>4, <2>1, <2>2, <2>6 DEF Travels
  <2>8. pkt' = [pkt EXCEPT ![p] = nexthop(q)]
    BY <1>5, <2>1
  <2>9. Fares(nexthop(q))
    BY <1>4, <2>7, NextHopFinds, NextHopShape DEF Fares
  <2>10. QED
    BY <1>1, <2>8, <2>9, PacketKeeps
<1>9. QED
  BY <1>6, <1>7, <1>8

\* The hop clock takes a packet to its next hop.
LEMMA HopClockKeeps ==
    ASSUME TopologyInv, NEW p \in Pkts, hopclock(p)
    PROVE  TopologyInv'
<1>1. pkt[p].st = "crossing" /\ pkt' = [pkt EXCEPT ![p] = nexthop(pkt[p])] /\ UNCHANGED <<load, pc, k, tables>>
  BY DEF hopclock
<1>2. Packet(pkt[p]) /\ (pkt[p].met = {} => Travels(pkt[p]))
  BY <1>1 DEF TopologyInv, PktInv, Fares
<1>3. Fares(nexthop(pkt[p]))
  BY <1>2, NextHopFinds, NextHopShape DEF Fares
<1>4. QED
  BY <1>1, <1>3, PacketKeeps
-----------------------------------------------------------------------------
(* The theorems.                                                              *)

LEMMA InitKeeps ==
    ASSUME Init
    PROVE  TopologyInv
<1>1. /\ load = 0 /\ pc = "idle" /\ k = 0 /\ pathtable = Null /\ nodecount = 0 /\ path = << >>
      /\ nodetable = [a \in Addrs |-> 0] /\ pkt = [p \in Pkts |-> New]
  BY DEF Init
<1>2. Len(Models) \in Nat
  BY TopologyAssumption DEF TopologyAssumption
<1>3. PhaseInv
  BY <1>1, <1>2 DEF PhaseInv, Served
<1>4. HopInv /\ NodeInv /\ RowInv /\ CellInv /\ EntryInv
  BY <1>1 DEF HopInv, NodeInv, RowInv, CellInv, EntryInv, AfterHops, AfterNodes, Emptied, Served
<1>5. DOMAIN path = {} /\ path = [id \in {} |-> path[id]]
  BY <1>1
<1>6. LiveInv
  BY <1>5 DEF LiveInv
<1>7. \A p \in Pkts : pkt[p].st = "new"
  BY <1>1 DEF New
<1>8. PktInv
  BY <1>1, <1>7 DEF PktInv, Fares
<1>9. QED
  BY <1>3, <1>4, <1>6, <1>8 DEF TopologyInv

\* A failed write of hoptable is never forgotten.
LEMMA ErrorIsKept ==
    ASSUME hoperr, [Next]_vars
    PROVE  hoperr'
<1>1. CASE loaded
  BY <1>1 DEF loaded, tables
<1>2. CASE proc_hophandle \/ hop_forget_paths \/ hop_drop_table \/ hop_new_table \/ hop_init
  BY <1>2 DEF proc_hophandle, hop_forget_paths, hop_drop_table, hop_new_table, hop_init
<1>3. CASE proc_nodetable \/ proc_nodecount \/ count_forget_paths \/ count_new_table \/ count_new_row \/ count_undo
  BY <1>3 DEF proc_nodetable, proc_nodecount, count_forget_paths, count_new_table, count_new_row, count_undo
<1>4. CASE proc_pathentry \/ entry_clear \/ entry_fill
  BY <1>4 DEF proc_pathentry, entry_clear, entry_fill
<1>5. CASE \E p \in Pkts, src, dst \in Addrs : filter_ipinput(p, src, dst)
  BY <1>5 DEF filter_ipinput, tables
<1>6. CASE \E p \in Pkts : hopclock(p)
  BY <1>6 DEF hopclock, tables
<1>7. CASE UNCHANGED vars
  BY <1>7 DEF vars
<1>8. QED
  BY <1>1, <1>2, <1>3, <1>4, <1>5, <1>6, <1>7 DEF Next

LEMMA StutterKeeps ==
    ASSUME TopologyInv, UNCHANGED vars
    PROVE  TopologyInv'
<1>1. UNCHANGED <<load, pc, k, hoptable, hopcount, nodetable, nodecount, pathtable, path, pkt>>
  BY DEF vars
<1>2. /\ Model' = Model /\ Reached' = Reached /\ Entry' = Entry /\ Route' = Route
      /\ \A r : Id(r)' = Id(r) /\ Full(r)' = Full(r)
  BY <1>1 DEF Model, Reached, Id, Full, Entry, Route
<1>3. \A r : Complete(r)' <=> Complete(r)
  BY <1>1, <1>2 DEF Complete
<1>4. PhaseInv' /\ HopInv' /\ NodeInv' /\ RowInv'
  BY <1>1, <1>2 DEF TopologyInv, PhaseInv, HopInv, NodeInv, RowInv
<1>5. CellInv'
  BY <1>1, <1>2, <1>3 DEF TopologyInv, CellInv
<1>6. EntryInv'
  BY <1>1, <1>2 DEF TopologyInv, EntryInv
<1>7. LiveInv'
  BY <1>1 DEF TopologyInv, LiveInv
<1>8. PktInv'
  <2>1. ASSUME NEW p \in Pkts, Travels(pkt[p]) PROVE Travels(pkt[p])'
    BY <1>1, <1>2, <1>3, <2>1 DEF Travels, Packet, OnRoute
  <2>2. ASSUME NEW p \in Pkts, Arrived(pkt[p]) PROVE Arrived(pkt[p])'
    BY <1>1, <2>2 DEF Arrived
  <2>3. ASSUME NEW p \in Pkts PROVE Fares(pkt[p])'
    <3>1. Fares(pkt[p])
      BY DEF TopologyInv, PktInv
    <3>2. QED
      BY <1>1, <2>1, <2>2, <3>1 DEF Fares, Packet
  <2>4. QED
    BY <1>1, <2>3 DEF TopologyInv, PktInv
<1>9. QED
  BY <1>4, <1>5, <1>6, <1>7, <1>8 DEF TopologyInv

LEMMA TopologyStep ==
    ASSUME TopologyInv, ~hoperr, ~hoperr', [Next]_vars
    PROVE  TopologyInv'
<1>1. CASE loaded
  BY <1>1, LoadedKeeps
<1>2. CASE proc_hophandle \/ hop_forget_paths \/ hop_drop_table \/ hop_new_table \/ hop_init
  BY <1>2, HopHandlerKeeps
<1>3. CASE proc_nodetable
  BY <1>3, NodeHandlerKeeps
<1>4. CASE proc_nodecount \/ count_forget_paths \/ count_new_table \/ count_new_row \/ count_undo
  BY <1>4, CountHandlerKeeps
<1>5. CASE proc_pathentry
  BY <1>5, PathEntryKeeps
<1>6. CASE entry_clear
  BY <1>6, EntryClearKeeps
<1>7. CASE entry_fill
  BY <1>7, EntryFillKeeps
<1>8. CASE \E p \in Pkts, src, dst \in Addrs : filter_ipinput(p, src, dst)
  BY <1>8, FilterKeeps
<1>9. CASE \E p \in Pkts : hopclock(p)
  BY <1>9, HopClockKeeps
<1>10. CASE UNCHANGED vars
  BY <1>10, StutterKeeps
<1>11. QED
  BY <1>1, <1>2, <1>3, <1>4, <1>5, <1>6, <1>7, <1>8, <1>9, <1>10 DEF Next

\* The tables are built in order and a packet sees only finished paths unless it meets
\* a handler at work, a stale node or a reload, until a write of hoptable fails.
THEOREM TopologyInvariant == Spec => [](hoperr \/ TopologyInv)
<1>1. Init => hoperr \/ TopologyInv
  BY InitKeeps
<1>2. (hoperr \/ TopologyInv) /\ [Next]_vars => (hoperr \/ TopologyInv)'
  BY ErrorIsKept, TopologyStep
<1>3. QED
  BY <1>1, <1>2, PTL DEF Spec

\* For any models, any failures of the other writes and any number of packets handled
\* at any moment: lookup_path and emulate_nexthop read a row, a path array or a hop that
\* is not there only for a packet that met a handler at work on that very entry, a node
\* whose write had failed, or a reload while it was under way.
THEOREM NoWildRead == Spec => []NoWildAccess
<1>1. hoperr \/ TopologyInv => NoWildAccess
  BY DEF TopologyInv, PktInv, Fares, NoWildAccess
<1>2. QED
  BY <1>1, TopologyInvariant, PTL

\* Every other packet that is forwarded has crossed exactly the hops that the model in
\* force when it arrived gives for its addresses.
THEOREM RouteIsFollowed == Spec => []FollowsRoute
<1>1. hoperr \/ TopologyInv => FollowsRoute
  BY DEF TopologyInv, PktInv, Fares, FollowsRoute, Arrived
<1>2. QED
  BY <1>1, TopologyInvariant, PTL

\* Between two writes the path table owns every live path array, and every array in it
\* is live and belongs to the hops that are loaded.
THEOREM PathsAreOwned == Spec => []TableOwnsPaths
<1>1. ASSUME TopologyInv PROVE TableOwnsPaths
  <2> SUFFICES ASSUME ~InHandler PROVE
        /\ \A id \in DOMAIN path : path[id].mem = "live" =>
              pathtable # Null /\ pathtable.rows[id[2]][id[3]] = id
        /\ pathtable # Null => ~pathtable.freed
        /\ pathtable # Null => \A s, d \in DOMAIN pathtable.rows :
              pathtable.rows[s][d] # Null => /\ path[pathtable.rows[s][d]].mem = "live"
                                             /\ path[pathtable.rows[s][d]].gen = hoptable.gen
    BY DEF TableOwnsPaths
  <2>1. \A id \in DOMAIN path : path[id].mem = "live" =>
          pathtable # Null /\ pathtable.rows[id[2]][id[3]] = id
    BY <1>1 DEF TopologyInv, LiveInv
  <2>2. ASSUME pathtable # Null
        PROVE  /\ pc \in {"idle", "pathentry"} /\ pc \in Served /\ load # 0
               /\ pathtable \in [freed : {FALSE}, rows : [0..(nodecount - 1) -> Row(nodecount)]]
    <3>1. pc \in {"idle", "pathentry"}
      BY <1>1, <2>2 DEF TopologyInv, InHandler, RowInv, Emptied
    <3>2. pc \in Served
      BY <3>1 DEF Served
    <3>3. QED
      BY <1>1, <2>2, <3>1, <3>2 DEF TopologyInv, RowInv
  <2>3. ASSUME pathtable # Null, NEW s \in DOMAIN pathtable.rows, NEW d \in DOMAIN pathtable.rows,
               pathtable.rows[s][d] # Null
        PROVE  /\ path[pathtable.rows[s][d]].mem = "live"
               /\ path[pathtable.rows[s][d]].gen = hoptable.gen
    <3>1. s \in 0..(nodecount - 1) /\ d \in 0..(nodecount - 1)
      BY <2>2, <2>3
    <3>2. PICK r \in 1..Reached : pathtable.rows[s][d] = Id(r) /\ Complete(r)
      BY <1>1, <2>2, <2>3, <3>1 DEF TopologyInv, CellInv
    <3>3. hoptable.gen = load
      BY <1>1, <2>2, <2>3 DEF TopologyInv, HopInv, AfterHops, AfterNodes
    <3>4. path[Id(r)] = Full(r)
      BY <3>2 DEF Complete
    <3>5. QED
      BY <3>2, <3>3, <3>4 DEF Full
  <2>4. QED
    BY <2>1, <2>2, <2>3
<1>2. hoperr \/ TopologyInv => TableOwnsPaths
  BY <1>1 DEF TableOwnsPaths
<1>3. QED
  BY <1>2, TopologyInvariant, PTL
=============================================================================
