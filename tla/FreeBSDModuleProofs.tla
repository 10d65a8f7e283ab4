------------------------ MODULE FreeBSDModuleProofs ------------------------
(***************************************************************************)
(* The path tables of the FreeBSD module, for any models, any number of     *)
(* deployments, reloads and packets: no path array is lost or freed while   *)
(* it can be found, and every packet follows its route. Then the extensible *)
(* queues: pipes are counted, timers stay on the calendar, and nothing that *)
(* was freed or never set up is used but after what takes it away.          *)
(***************************************************************************)
EXTENDS FreeBSDModule, SequenceTheorems, FiniteSetTheorems, NaturalsInduction,
        WellFoundedInduction, TLAPS

NoModel == [xtq |-> <<>>, nodes |-> 0, routes |-> {}]
Routes == UNION {m.routes : m \in Models}
Phases == {"idle", "table", "hops", "nodes", "count", "routes"}
PathArrays == [live : BOOLEAN, hops : Seq([table : Nat, hop : Nat])]
Packets == [path : Nat, at : Nat, left : Int, crossed : Seq(Nat), route : Seq(Nat)]
Pairs(n) == (0..(n - 1)) \X (0..(n - 1))

TypeInv ==
    /\ hoptable \in Nat /\ tables \in Nat
    /\ admin \in [pc : Phases, model : Models \cup {NoModel}, routes : SUBSET Routes]
    /\ admin.routes \subseteq admin.model.routes
    /\ paths \in Seq(PathArrays)
    /\ pkts \in Seq(Packets)

\* The node table modelload has written.
NodesWritten == nodetable = [a \in Hosts |-> IF a < admin.model.nodes THEN a ELSE -1]

\* There is a path table only when the nodes of the same model are in place.
TableInv ==
    /\ \/ nodecount = 0 /\ pathtable = <<>>
       \/ /\ nodecount = admin.model.nodes /\ nodecount # 0
          /\ pathtable \in [Pairs(nodecount) -> Nat]
          /\ admin.pc \in {"idle", "routes"}
          /\ NodesWritten
    /\ admin.pc = "count" => NodesWritten
    /\ admin.pc = "routes" => nodecount # 0
    /\ ~loaded => nodecount = 0 /\ admin.pc = "idle"

\* Of the path arrays ps, the i-th leads over these hops, of whatever hop table.
Leads(ps, i, hops) ==
    /\ i \in 1..Len(ps) /\ Len(ps[i].hops) = Len(hops)
    /\ \A j \in 1..Len(hops) : ps[i].hops[j].hop = hops[j]

\* An entry of the table is the path of a route that has been written, and every array
\* that is not freed is in the table.
CellInv ==
    nodecount # 0 =>
        \A x \in Pairs(nodecount) : pathtable[x] # 0 =>
            /\ pathtable[x] \in 1..Len(paths) /\ paths[pathtable[x]].live
            /\ \E r \in admin.model.routes \ admin.routes :
                  x = <<r.src, r.dst>> /\ Leads(paths, pathtable[x], r.hops)
LiveInv ==
    \A i \in 1..Len(paths) :
        paths[i].live => nodecount # 0 /\ \E x \in Pairs(nodecount) : pathtable[x] = i

\* A packet has a path that leads over its route, freed or not, and has crossed the
\* hops of it that its pointer has passed.
OnItsWay(ps, p) ==
    /\ Leads(ps, p.path, p.route)
    /\ p.at <= Len(p.route) /\ Len(p.crossed) = p.at
    /\ \A j \in 1..p.at : p.crossed[j] = p.route[j]
PktInv == \A i \in 1..Len(pkts) : OnItsWay(paths, pkts[i])

\* The inductive invariant.
PathInv == TypeInv /\ TableInv /\ CellInv /\ LiveInv /\ PktInv /\ FollowsRoute
-----------------------------------------------------------------------------
\* What modelload has been given.
LEMMA ModelOf ==
    ASSUME TypeInv
    PROVE  /\ admin.model.nodes \in Nat
           /\ \A r \in admin.model.routes :
                 /\ r.src \in 0..(admin.model.nodes - 1) /\ r.dst \in 0..(admin.model.nodes - 1)
                 /\ r.hops \in Seq(Nat)
           /\ \A r, t \in admin.model.routes : r.src = t.src /\ r.dst = t.dst => r = t
<1>1. CASE admin.model \in Models
  BY <1>1, ModelAssumption DEF ModelAssumption
<1>2. CASE admin.model = NoModel
  BY <1>2 DEF NoModel
<1>3. QED
  BY <1>1, <1>2 DEF TypeInv

\* A nonempty set of numbers has a least one.
LEMMA LeastOf ==
    ASSUME NEW s \in SUBSET Nat, s # {}
    PROVE  \E x \in s : \A y \in s : x <= y
<1>1. \E x \in s : \A y \in s : ~(<<y, x>> \in OpToRel(<, Nat))
  BY NatLessThanWellFounded, WFMin
<1>2. PICK x \in s : \A y \in s : ~(<<y, x>> \in OpToRel(<, Nat))
  BY <1>1
<1>3. ASSUME NEW y \in s PROVE x <= y
  <2>1. y \in Nat /\ x \in Nat
    OBVIOUS
  <2>2. ASSUME y < x PROVE FALSE
    <3>1. <<y, x>> \in Nat \X Nat /\ <<y, x>>[1] < <<y, x>>[2]
      BY <2>1, <2>2
    <3>2. <<y, x>> \in OpToRel(<, Nat)
      BY <3>1, Zenon DEF OpToRel
    <3>3. QED
      BY <3>2, <1>2
  <2>3. QED
    BY <2>1, <2>2
<1>4. QED
  BY <1>3

\* A packet that is due can be found, and is the first one in its slot.
LEMMA FirstIsDue ==
    ASSUME NEW s \in SUBSET Nat, s # {}
    PROVE  First(s) \in s
BY LeastOf DEF First

\* Without its i-th element a sequence has no others than before.
LEMMA Removed ==
    ASSUME NEW S, NEW s \in Seq(S), NEW i \in 1..Len(s)
    PROVE  /\ RemoveAt(s, i) \in Seq(S)
           /\ \A j \in 1..Len(RemoveAt(s, i)) : \E l \in 1..Len(s) : RemoveAt(s, i)[j] = s[l]
<1> DEFINE a == SubSeq(s, 1, i - 1)
           b == SubSeq(s, i + 1, Len(s))
<1>1. a \in Seq(S) /\ Len(a) = i - 1 /\ \A j \in 1..(i - 1) : a[j] = s[j]
  OBVIOUS
<1>2. b \in Seq(S) /\ Len(b) = Len(s) - i /\ \A j \in 1..(Len(s) - i) : b[j] = s[i + j]
  OBVIOUS
<1> HIDE DEF a, b
<1>3. a \o b \in Seq(S)
  BY <1>1, <1>2
<1>4. ASSUME NEW j \in 1..Len(a \o b) PROVE \E l \in 1..Len(s) : (a \o b)[j] = s[l]
  <2>1. Len(a \o b) = Len(a) + Len(b)
    BY <1>1, <1>2, ConcatProperties
  <2>2. CASE j <= i - 1
    <3>1. (a \o b)[j] = s[j] /\ j \in 1..Len(s)
      BY <1>1, <1>2, <2>2
    <3> QED BY <3>1
  <2>3. CASE j > i - 1
    <3>1. (a \o b)[j] = b[j - (i - 1)] /\ j - (i - 1) \in 1..(Len(s) - i)
      BY <1>1, <1>2, <2>1, <2>3
    <3>2. b[j - (i - 1)] = s[i + (j - (i - 1))] /\ i + (j - (i - 1)) \in 1..Len(s)
      BY <1>2, <3>1
    <3> QED BY <3>1, <3>2
  <2>4. QED
    BY <2>2, <2>3, <1>1
<1>5. RemoveAt(s, i) = a \o b
  BY DEF RemoveAt, a, b
<1>6. QED
  BY <1>3, <1>4, <1>5
-----------------------------------------------------------------------------
\* Path arrays are added and freed, and never change their hops: where a packet's path
\* leads stays the same.
SameHops(ps, qs) ==
    /\ Len(ps) \in Nat /\ Len(qs) \in Nat /\ Len(ps) <= Len(qs)
    /\ \A i \in 1..Len(ps) : qs[i].hops = ps[i].hops

LEMMA LeadsOn ==
    ASSUME NEW ps, NEW qs, SameHops(ps, qs), NEW i, NEW hops, Leads(ps, i, hops)
    PROVE  Leads(qs, i, hops)
BY DEF Leads, SameHops

LEMMA PacketsStay ==
    ASSUME SameHops(paths, paths'), PktInv, pkts' = pkts
    PROVE  PktInv'
<1> SUFFICES ASSUME NEW i \in 1..Len(pkts) PROVE OnItsWay(paths', pkts[i])
  BY DEF PktInv
<1>1. OnItsWay(paths, pkts[i])
  BY DEF PktInv
<1>2. Leads(paths', pkts[i].path, pkts[i].route)
  BY <1>1, LeadsOn DEF OnItsWay
<1>3. QED
  BY <1>1, <1>2 DEF OnItsWay

\* free_path frees every array there is.
LEMMA AllFreed ==
    ASSUME TypeInv, TableInv, LiveInv, paths' = freed_paths
    PROVE  /\ paths' \in Seq(PathArrays) /\ Len(paths') = Len(paths)
           /\ \A i \in 1..Len(paths) : paths'[i].hops = paths[i].hops /\ ~paths'[i].live
<1>1. paths \in Seq(PathArrays) /\ Len(paths) \in Nat /\ \A i \in 1..Len(paths) : paths[i] \in PathArrays
  BY DEF TypeInv
<1>2. ASSUME NEW i \in 1..Len(paths)
      PROVE  /\ paths'[i] \in PathArrays
             /\ paths'[i].hops = paths[i].hops /\ ~paths'[i].live
  <2>1. paths'[i] = [paths[i] EXCEPT !.live = paths[i].live /\ i \notin InTable]
    BY <1>1 DEF freed_paths
  <2>2. paths[i].live => i \in InTable
    <3>1. HAVE paths[i].live
    <3>2. nodecount # 0 /\ \E x \in Pairs(nodecount) : pathtable[x] = i
      BY <3>1 DEF LiveInv
    <3>3. DOMAIN pathtable = Pairs(nodecount)
      BY <3>2 DEF TableInv
    <3>4. QED
      BY <3>2, <3>3 DEF InTable
  <2>3. paths[i] \in PathArrays /\ (paths[i].live /\ i \notin InTable) = FALSE
    BY <1>1, <2>2 DEF PathArrays
  <2>4. paths'[i] = [paths[i] EXCEPT !.live = FALSE]
    BY <2>1, <2>3
  <2>5. QED
    BY <2>3, <2>4 DEF PathArrays
<1>3. DOMAIN paths' = 1..Len(paths) /\ paths' = [i \in 1..Len(paths) |-> paths'[i]]
  BY DEF freed_paths
<1>4. paths' \in [1..Len(paths) -> PathArrays]
  BY <1>2, <1>3
<1>5. paths' \in Seq(PathArrays) /\ Len(paths') = Len(paths)
  BY <1>1, <1>4
<1>6. QED
  BY <1>2, <1>5

\* ... so that nothing is left that the table would have to own, when the table is
\* gone or new.
LEMMA FreeKeeps ==
    ASSUME TypeInv, TableInv, LiveInv, PktInv, paths' = freed_paths, pkts' = pkts \/ pkts' = <<>>,
           nodecount' = 0 \/ \A x \in Pairs(nodecount') : pathtable'[x] = 0
    PROVE  paths' \in Seq(PathArrays) /\ CellInv' /\ LiveInv' /\ PktInv'
<1>1. Len(paths) \in Nat
  BY DEF TypeInv
<1>2. PktInv'
  <2>1. SameHops(paths, paths')
    BY <1>1, AllFreed DEF SameHops
  <2>2. pkts' = pkts => PktInv'
    BY <2>1, PacketsStay
  <2>3. pkts' = <<>> => PktInv'
    BY DEF PktInv
  <2>4. QED
    BY <2>2, <2>3
<1>3. LiveInv'
  BY AllFreed DEF LiveInv
<1>4. CellInv'
  BY DEF CellInv
<1>5. QED
  BY <1>2, <1>3, <1>4, AllFreed
-----------------------------------------------------------------------------
\* The fields of modelload's state.
LEMMA AdminFields ==
    ASSUME TypeInv
    PROVE  /\ admin.pc \in Phases /\ admin.model \in Models \cup {NoModel} /\ admin.routes \subseteq Routes
           /\ \A pc : /\ [admin EXCEPT !.pc = pc].pc = pc
                      /\ [admin EXCEPT !.pc = pc].model = admin.model
                      /\ [admin EXCEPT !.pc = pc].routes = admin.routes
                      /\ pc \in Phases => [admin EXCEPT !.pc = pc] \in
                            [pc : Phases, model : Models \cup {NoModel}, routes : SUBSET Routes]
BY DEF TypeInv

\* The handlers of the tables, up to the routes.
LEMMA HopHandleKeeps ==
    ASSUME PathInv, NEW model \in Models, sysctl_hophandle(model)
    PROVE  PathInv'
<1> USE DEF PathInv
<1>1. /\ loaded /\ paths' = freed_paths /\ pathtable' = <<>> /\ nodecount' = 0 /\ hoptable' = 0
      /\ admin' = [pc |-> "table", model |-> model, routes |-> model.routes]
      /\ loaded' = loaded /\ nodetable' = nodetable /\ pkts' = pkts /\ tables' = tables /\ last' = last
  BY DEF sysctl_hophandle, uninit_paths, free_path
<1>2. paths' \in Seq(PathArrays) /\ CellInv' /\ LiveInv' /\ PktInv'
  BY <1>1, FreeKeeps
<1>3. TypeInv'
  <2>1. model.routes \subseteq Routes
    BY DEF Routes
  <2>2. QED
    BY <1>1, <1>2, <2>1 DEF TypeInv, Phases
<1>4. TableInv' /\ FollowsRoute'
  BY <1>1 DEF TableInv, FollowsRoute
<1>5. QED
  BY <1>2, <1>3, <1>4

\* A step of modelload that leaves the path table alone.
LEMMA PhaseKeeps ==
    ASSUME PathInv, UNCHANGED <<loaded, nodecount, pathtable, paths, pkts, last>>,
           NEW pc \in Phases \ {"idle", "routes"}, admin' = [admin EXCEPT !.pc = pc],
           hoptable' \in Nat, tables' \in Nat,
           admin.pc \in Phases \ {"idle", "routes"},
           pc = "count" => NodesWritten'
    PROVE  PathInv'
<1> USE DEF PathInv
<1>1. admin'.pc = pc /\ admin'.model = admin.model /\ admin'.routes = admin.routes
      /\ admin' \in [pc : Phases, model : Models \cup {NoModel}, routes : SUBSET Routes]
  BY AdminFields
<1>2. nodecount = 0 /\ pathtable = <<>> /\ loaded
  BY DEF TableInv
<1>3. TypeInv' /\ TableInv'
  BY <1>1, <1>2 DEF TypeInv, TableInv
<1>4. CellInv' /\ LiveInv' /\ PktInv' /\ FollowsRoute'
  BY <1>1, <1>2 DEF CellInv, LiveInv, PktInv, FollowsRoute
<1>5. QED
  BY <1>3, <1>4

LEMMA HopTableKeeps ==
    ASSUME PathInv, hophandle_table \/ hophandle_hops \/ write_nodetable
    PROVE  PathInv'
<1>0. TypeInv /\ hoptable \in Nat /\ tables \in Nat
  BY DEF PathInv, TypeInv
<1>1. CASE hophandle_table
  <2>1. /\ UNCHANGED <<loaded, nodecount, pathtable, paths, pkts, last>>
        /\ admin' = [admin EXCEPT !.pc = "hops"] /\ admin.pc = "table"
        /\ hoptable' \in Nat /\ tables' \in Nat
    BY <1>0, <1>1 DEF hophandle_table
  <2>2. QED
    BY <2>1, PhaseKeeps DEF Phases
<1>2. CASE hophandle_hops
  <2>1. /\ UNCHANGED <<loaded, nodecount, pathtable, paths, pkts, last>>
        /\ admin' = [admin EXCEPT !.pc = "nodes"] /\ admin.pc = "hops"
        /\ hoptable' \in Nat /\ tables' \in Nat
    BY <1>0, <1>2 DEF hophandle_hops
  <2>2. QED
    BY <2>1, PhaseKeeps DEF Phases
<1>3. CASE write_nodetable
  <2>1. /\ UNCHANGED <<loaded, nodecount, pathtable, paths, pkts, last>>
        /\ admin' = [admin EXCEPT !.pc = "count"] /\ admin.pc = "nodes"
        /\ hoptable' \in Nat /\ tables' \in Nat
        /\ nodetable' = [a \in Hosts |-> IF a < admin.model.nodes THEN a ELSE -1]
    BY <1>0, <1>3 DEF write_nodetable
  <2>2. admin'.model = admin.model
    BY <1>0, <2>1, AdminFields
  <2>3. NodesWritten'
    BY <2>1, <2>2 DEF NodesWritten
  <2>4. QED
    BY <2>1, <2>3, PhaseKeeps DEF Phases
<1>4. QED
  BY <1>1, <1>2, <1>3

LEMMA NodeCountKeeps ==
    ASSUME PathInv, sysctl_nodecount
    PROVE  PathInv'
<1> USE DEF PathInv
<1> DEFINE n == admin.model.nodes
           pc == IF admin.routes = {} THEN "idle" ELSE "routes"
<1>1. /\ admin.pc = "count" /\ admin' = [admin EXCEPT !.pc = pc]
      /\ UNCHANGED <<loaded, hoptable, nodetable, pkts, tables, last>>
  BY DEF sysctl_nodecount
<1>2. /\ admin'.pc = pc /\ admin'.model = admin.model /\ admin'.routes = admin.routes
      /\ admin' \in [pc : Phases, model : Models \cup {NoModel}, routes : SUBSET Routes]
  BY <1>1, AdminFields DEF Phases
<1>3. nodecount = 0 /\ pathtable = <<>> /\ NodesWritten /\ loaded
  BY <1>1 DEF TableInv
<1>4. n \in Nat /\ (n = 0 => admin.routes = {})
  BY ModelOf DEF TypeInv
<1>5. NodesWritten'
  BY <1>1, <1>2, <1>3 DEF NodesWritten
<1>6. CASE n = 0
  <2>1. UNCHANGED <<paths, pathtable, nodecount>> /\ pc = "idle"
    BY <1>3, <1>4, <1>6 DEF sysctl_nodecount
  <2>2. TypeInv' /\ TableInv' /\ FollowsRoute'
    BY <1>1, <1>2, <1>3, <2>1 DEF TypeInv, TableInv, FollowsRoute
  <2>3. CellInv' /\ LiveInv' /\ PktInv'
    BY <1>1, <1>2, <1>3, <2>1 DEF CellInv, LiveInv, PktInv
  <2>4. QED
    BY <2>2, <2>3
<1>7. CASE n # 0
  <2>1. /\ paths' = freed_paths /\ nodecount' = n
        /\ pathtable' = [p \in (0..n - 1) \X (0..n - 1) |-> 0]
    BY <1>3, <1>7 DEF sysctl_nodecount
  <2>2. /\ pathtable' \in [Pairs(nodecount') -> Nat]
        /\ \A x \in Pairs(nodecount') : pathtable'[x] = 0
    BY <2>1 DEF Pairs
  <2>3. paths' \in Seq(PathArrays) /\ CellInv' /\ LiveInv' /\ PktInv'
    BY <1>1, <2>1, <2>2, FreeKeeps
  <2>4. TypeInv' /\ FollowsRoute'
    BY <1>1, <1>2, <2>3 DEF TypeInv, FollowsRoute
  <2>5. TableInv'
    BY <1>1, <1>2, <1>3, <1>5, <1>7, <2>1, <2>2 DEF TableInv
  <2>6. QED
    BY <2>3, <2>4, <2>5
<1>8. QED
  BY <1>6, <1>7
-----------------------------------------------------------------------------
\* sysctl_pathentry fills a place of the table that was empty: routes are written once.
LEMMA PlaceIsEmpty ==
    ASSUME PathInv, admin.pc = "routes", NEW r \in admin.routes
    PROVE  /\ nodecount # 0 /\ nodecount = admin.model.nodes
           /\ <<r.src, r.dst>> \in Pairs(nodecount)
           /\ pathtable \in [Pairs(nodecount) -> Nat] /\ pathtable[<<r.src, r.dst>>] = 0
           /\ r \in admin.model.routes /\ r.hops \in Seq(Nat)
<1> USE DEF PathInv
<1>1. r \in admin.model.routes
  BY DEF TypeInv
<1>2. /\ nodecount # 0 /\ nodecount = admin.model.nodes
      /\ pathtable \in [Pairs(nodecount) -> Nat]
  BY DEF TableInv
<1>3. <<r.src, r.dst>> \in Pairs(nodecount) /\ r.hops \in Seq(Nat)
  BY <1>1, <1>2, ModelOf DEF Pairs
<1>4. ASSUME pathtable[<<r.src, r.dst>>] # 0 PROVE FALSE
  <2>1. PICK t \in admin.model.routes \ admin.routes : <<r.src, r.dst>> = <<t.src, t.dst>>
    BY <1>2, <1>3, <1>4 DEF CellInv
  <2>2. t = r
    BY <1>1, <2>1, ModelOf
  <2>3. QED
    BY <2>1, <2>2
<1>5. QED
  BY <1>1, <1>2, <1>3, <1>4

\* The array of a route is a path array that leads over its hops.
LEMMA ArrayOf ==
    ASSUME hoptable \in Nat, NEW r, r.hops \in Seq(Nat)
    PROVE  /\ PathArray(r) \in PathArrays /\ PathArray(r).live
           /\ Len(PathArray(r).hops) = Len(r.hops)
           /\ \A j \in 1..Len(r.hops) : PathArray(r).hops[j].hop = r.hops[j]
<1> DEFINE hs == [i \in 1..Len(r.hops) |-> [table |-> hoptable, hop |-> r.hops[i]]]
<1>1. Len(r.hops) \in Nat /\ \A i \in 1..Len(r.hops) : r.hops[i] \in Nat
  OBVIOUS
<1>2. hs \in [1..Len(r.hops) -> [table : Nat, hop : Nat]]
  BY <1>1
<1>3. hs \in Seq([table : Nat, hop : Nat]) /\ Len(hs) = Len(r.hops)
  BY <1>1, <1>2
<1>4. \A j \in 1..Len(r.hops) : hs[j].hop = r.hops[j]
  OBVIOUS
<1> HIDE DEF hs
<1>5. PathArray(r) = [live |-> TRUE, hops |-> hs]
  BY DEF PathArray, hs
<1>6. QED
  BY <1>3, <1>4, <1>5 DEF PathArrays

\* What modelload has left to do after a route.
LEMMA RouteDone ==
    ASSUME TypeInv, NEW r \in admin.routes, NEW pc \in Phases,
           admin' = [admin EXCEPT !.routes = admin.routes \ {r}, !.pc = pc]
    PROVE  /\ admin'.pc = pc /\ admin'.model = admin.model
           /\ admin'.routes = admin.routes \ {r} /\ admin'.routes \subseteq admin'.model.routes
           /\ admin' \in [pc : Phases, model : Models \cup {NoModel}, routes : SUBSET Routes]
BY DEF TypeInv

LEMMA PathEntryKeeps ==
    ASSUME PathInv, NEW r \in admin.routes, NEW fails \in BOOLEAN, sysctl_pathentry(r, fails)
    PROVE  PathInv'
<1> USE DEF PathInv
<1> DEFINE pc == IF fails \/ admin.routes = {r} THEN "idle" ELSE admin.pc
           x == <<r.src, r.dst>>
           n == Len(paths) + 1
<1>1. /\ admin.pc = "routes" /\ admin' = [admin EXCEPT !.routes = admin.routes \ {r}, !.pc = pc]
      /\ UNCHANGED <<loaded, hoptable, nodetable, nodecount, pkts, tables, last>>
  BY DEF sysctl_pathentry
<1>2. /\ nodecount # 0 /\ nodecount = admin.model.nodes /\ x \in Pairs(nodecount)
      /\ pathtable \in [Pairs(nodecount) -> Nat] /\ pathtable[x] = 0
      /\ r \in admin.model.routes /\ r.hops \in Seq(Nat)
  BY <1>1, PlaceIsEmpty
<1>3. pc \in {"idle", "routes"} /\ pc \in Phases
  BY <1>1 DEF Phases
<1>4. /\ admin'.pc = pc /\ admin'.model = admin.model
      /\ admin'.routes = admin.routes \ {r} /\ admin'.routes \subseteq admin'.model.routes
      /\ admin' \in [pc : Phases, model : Models \cup {NoModel}, routes : SUBSET Routes]
  BY <1>1, <1>3, RouteDone
<1>5. NodesWritten'
  BY <1>1, <1>2, <1>4 DEF NodesWritten, TableInv
<1>6. loaded
  BY <1>1 DEF TableInv
<1> HIDE DEF pc
<1>7. FollowsRoute'
  BY <1>1 DEF FollowsRoute
<1>8. paths \in Seq(PathArrays) /\ Len(paths) \in Nat
  BY DEF TypeInv
<1>9. CASE fails
  <2>1. pathtable' = [pathtable EXCEPT ![x] = 0] /\ paths' = paths
    BY <1>9 DEF sysctl_pathentry
  <2>2. pathtable' = pathtable
    BY <1>2, <2>1
  <2>3. TypeInv' /\ TableInv'
    BY <1>1, <1>2, <1>3, <1>4, <1>5, <1>6, <2>1, <2>2 DEF TypeInv, TableInv
  <2>4. CellInv'
    BY <1>1, <1>4, <2>1, <2>2 DEF CellInv
  <2>5. LiveInv' /\ PktInv'
    BY <1>1, <2>1, <2>2 DEF LiveInv, PktInv
  <2>6. QED
    BY <1>7, <2>3, <2>4, <2>5
<1>10. CASE ~fails
  <2>1. pathtable' = [pathtable EXCEPT ![x] = n] /\ paths' = Append(paths, PathArray(r))
    BY <1>10 DEF sysctl_pathentry
  <2>2. /\ PathArray(r) \in PathArrays /\ PathArray(r).live
        /\ Len(PathArray(r).hops) = Len(r.hops)
        /\ \A j \in 1..Len(r.hops) : PathArray(r).hops[j].hop = r.hops[j]
    BY <1>2, ArrayOf DEF TypeInv
  <2>3. /\ paths' \in Seq(PathArrays) /\ Len(paths') = n /\ n \in Nat
        /\ \A i \in 1..Len(paths) : paths'[i] = paths[i]
        /\ paths'[n] = PathArray(r)
    BY <1>8, <2>1, <2>2
  <2>4. SameHops(paths, paths')
    BY <1>8, <2>3 DEF SameHops
  <2>5. /\ pathtable' \in [Pairs(nodecount) -> Nat] /\ pathtable'[x] = n
        /\ \A y \in Pairs(nodecount) : y # x => pathtable'[y] = pathtable[y]
    BY <1>2, <2>1, <2>3
  <2> HIDE DEF x, n
  <2>6. TypeInv' /\ TableInv'
    BY <1>1, <1>2, <1>3, <1>4, <1>5, <1>6, <2>3, <2>5 DEF TypeInv, TableInv
  <2>7. PktInv'
    BY <1>1, <2>4, PacketsStay
  <2>8. CellInv'
    <3> SUFFICES ASSUME NEW y \in Pairs(nodecount), pathtable'[y] # 0
                 PROVE  /\ pathtable'[y] \in 1..Len(paths') /\ paths'[pathtable'[y]].live
                        /\ \E t \in admin'.model.routes \ admin'.routes :
                              y = <<t.src, t.dst>> /\ Leads(paths', pathtable'[y], t.hops)
      BY <1>1 DEF CellInv
    <3>1. CASE y = x
      <4>1. pathtable'[y] = n /\ n \in 1..Len(paths') /\ paths'[n].live
        BY <1>8, <2>2, <2>3, <2>5, <3>1 DEF n
      <4>2. Leads(paths', n, r.hops)
        BY <2>2, <2>3, <4>1 DEF Leads
      <4>3. r \in admin'.model.routes \ admin'.routes
        BY <1>2, <1>4
      <4>4. QED
        BY <3>1, <4>1, <4>2, <4>3 DEF x
    <3>2. CASE y # x
      <4>1. pathtable'[y] = pathtable[y]
        BY <2>5, <3>2
      <4>2. /\ pathtable[y] \in 1..Len(paths) /\ paths[pathtable[y]].live
            /\ \E t \in admin.model.routes \ admin.routes :
                  y = <<t.src, t.dst>> /\ Leads(paths, pathtable[y], t.hops)
        BY <1>2, <4>1 DEF CellInv
      <4>3. PICK t \in admin.model.routes \ admin.routes :
                  y = <<t.src, t.dst>> /\ Leads(paths, pathtable[y], t.hops)
        BY <4>2
      <4>4. Leads(paths', pathtable[y], t.hops)
        BY <2>4, <4>3, LeadsOn
      <4>5. pathtable[y] \in 1..Len(paths') /\ paths'[pathtable[y]].live
        BY <1>8, <2>3, <4>2 DEF n
      <4>6. t \in admin'.model.routes \ admin'.routes
        BY <1>4, <4>3
      <4>7. QED
        BY <4>1, <4>3, <4>4, <4>5, <4>6
    <3>3. QED
      BY <3>1, <3>2
  <2>9. LiveInv'
    <3> SUFFICES ASSUME NEW i \in 1..Len(paths'), paths'[i].live
                 PROVE  \E y \in Pairs(nodecount) : pathtable'[y] = i
      BY <1>1, <1>2 DEF LiveInv
    <3>1. CASE i = n
      BY <1>2, <2>5, <3>1
    <3>2. CASE i # n
      <4>1. i \in 1..Len(paths) /\ paths[i].live
        BY <1>8, <2>3, <3>2 DEF n
      <4>2. PICK y \in Pairs(nodecount) : pathtable[y] = i
        BY <4>1 DEF LiveInv
      <4>3. y # x
        BY <1>2, <4>1, <4>2
      <4>4. QED
        BY <2>5, <4>2, <4>3
    <3>3. QED
      BY <3>1, <3>2
  <2>10. QED
    BY <1>7, <2>6, <2>7, <2>8, <2>9
<1>11. QED
  BY <1>9, <1>10
-----------------------------------------------------------------------------
(* Packets.                                                                  *)

\* A beginning of a sequence grows by the next element.
LEMMA OneFurther ==
    ASSUME NEW s \in Seq(Nat), NEW t \in Seq(Nat), Len(s) < Len(t),
           \A j \in 1..Len(s) : s[j] = t[j], NEW c, c = Append(s, t[Len(s) + 1])
    PROVE  /\ c \in Seq(Nat) /\ Len(c) = Len(s) + 1
           /\ \A j \in 1..(Len(s) + 1) : c[j] = t[j]
<1>1. Len(s) \in Nat /\ Len(s) + 1 \in 1..Len(t) /\ t[Len(s) + 1] \in Nat
  OBVIOUS
<1>2. /\ c \in Seq(Nat) /\ Len(c) = Len(s) + 1
      /\ \A j \in 1..Len(s) : c[j] = s[j]
      /\ c[Len(s) + 1] = t[Len(s) + 1]
  BY <1>1, AppendProperties
<1>3. ASSUME NEW j \in 1..(Len(s) + 1) PROVE c[j] = t[j]
  <2>1. CASE j = Len(s) + 1
    BY <1>2, <2>1
  <2>2. CASE j # Len(s) + 1
    <3>1. j \in 1..Len(s)
      BY <1>1, <2>2
    <3>2. QED
      BY <1>2, <3>1
  <2>3. QED
    BY <2>1, <2>2
<1>4. QED
  BY <1>2, <1>3

\* The fields of a packet that has moved on.
LEMMA PacketMoves ==
    ASSUME NEW p \in Packets, NEW at \in Nat, NEW left \in Int, NEW c \in Seq(Nat)
    PROVE  /\ [p EXCEPT !.at = at, !.left = left, !.crossed = c] \in Packets
           /\ [p EXCEPT !.left = left] \in Packets
BY DEF Packets

\* emulate_nexthop moves a packet along its path; a forwarded one has crossed its route.
LEMMA NextHop ==
    ASSUME PathInv, NEW p \in Packets, OnItsWay(paths, p),
           NEW calendar \in Seq(Packets), \A i \in 1..Len(calendar) : OnItsWay(paths, calendar[i]),
           NEW left \in Int, emulate_nexthop(p, calendar, left)
    PROVE  /\ pkts' \in Seq(Packets) /\ \A i \in 1..Len(pkts') : OnItsWay(paths, pkts'[i])
           /\ last'.crossed = last'.route
<1> DEFINE hops == paths[p.path].hops
           next == [p EXCEPT !.at = p.at + 1, !.left = left,
                             !.crossed = Append(p.crossed, hops[p.at + 1].hop)]
<1>1. /\ p.path \in Nat /\ p.at \in Nat /\ p.left \in Int
      /\ p.crossed \in Seq(Nat) /\ p.route \in Seq(Nat) /\ Len(p.route) \in Nat
      /\ p.crossed \in Seq(Nat) /\ Len(p.crossed) = p.at
  BY DEF Packets, OnItsWay
<1>2. /\ p.path \in 1..Len(paths) /\ Len(hops) = Len(p.route)
      /\ \A j \in 1..Len(p.route) : hops[j].hop = p.route[j]
      /\ p.at <= Len(p.route) /\ \A j \in 1..p.at : p.crossed[j] = p.route[j]
  BY DEF OnItsWay, Leads
<1>3. \/ pkts' = calendar
      \/ p.at # Len(hops) /\ pkts' = Append(calendar, next)
  BY DEF emulate_nexthop
<1>4. last' = last \/ (p.at = Len(hops) /\ last' = [route |-> p.route, crossed |-> p.crossed])
  BY DEF emulate_nexthop
<1>5. ASSUME p.at # Len(hops) PROVE next \in Packets /\ OnItsWay(paths, next)
  <2>1. p.at + 1 \in 1..Len(p.route) /\ hops[p.at + 1].hop = p.route[p.at + 1]
    <3> HIDE DEF hops
    <3>1. p.at < Len(p.route)
      BY <1>1, <1>2, <1>5
    <3>2. p.at + 1 \in 1..Len(p.route)
      BY <1>1, <3>1
    <3>3. QED
      BY <1>2, <3>2
  <2> DEFINE c == Append(p.crossed, p.route[p.at + 1])
  <2>3. /\ c \in Seq(Nat) /\ Len(c) = p.at + 1
        /\ \A j \in 1..(p.at + 1) : c[j] = p.route[j]
    <3>1. Len(p.crossed) < Len(p.route)
      BY <1>1, <2>1
    <3>2. c = Append(p.crossed, p.route[Len(p.crossed) + 1])
      BY <1>1
    <3> HIDE DEF c
    <3>3. /\ c \in Seq(Nat) /\ Len(c) = Len(p.crossed) + 1
          /\ \A j \in 1..(Len(p.crossed) + 1) : c[j] = p.route[j]
      <4>1. \A j \in 1..Len(p.crossed) : p.crossed[j] = p.route[j]
        BY <1>1, <1>2
      <4>2. p.crossed \in Seq(Nat) /\ p.route \in Seq(Nat)
        BY <1>1
      <4>3. QED
        BY <3>1, <3>2, <4>1, <4>2, OneFurther
    <3>4. QED
      BY <1>1, <3>3
  <2>4. next = [p EXCEPT !.at = p.at + 1, !.left = left, !.crossed = c]
    BY <2>1
  <2> HIDE DEF c, next
  <2>5. /\ next.path = p.path /\ next.route = p.route
        /\ next.at = p.at + 1 /\ next.crossed = c
    BY <2>4 DEF Packets
  <2>6. next \in Packets
    <3>1. p.at + 1 \in Nat
      BY <1>1
    <3>2. QED
      BY <2>3, <2>4, <3>1, PacketMoves
  <2>7. OnItsWay(paths, next)
    BY <1>1, <2>1, <2>3, <2>5 DEF OnItsWay
  <2>8. QED
    BY <2>6, <2>7
<1>6. last'.crossed = last'.route
  <2>1. CASE last' = last
    BY <2>1 DEF PathInv, FollowsRoute
  <2>2. CASE p.at = Len(hops) /\ last' = [route |-> p.route, crossed |-> p.crossed]
    <3>1. Len(p.crossed) = Len(p.route) /\ \A j \in 1..Len(p.route) : p.crossed[j] = p.route[j]
      BY <1>1, <1>2, <2>2
    <3>2. p.crossed = p.route
      BY <1>1, <3>1, SeqEqual
    <3>3. QED
      BY <2>2, <3>2
  <2>3. QED
    BY <1>4, <2>1, <2>2
<1> HIDE DEF next
<1>7. CASE pkts' = calendar
  BY <1>6, <1>7
<1>8. CASE p.at # Len(hops) /\ pkts' = Append(calendar, next)
  <2>1. next \in Packets /\ OnItsWay(paths, next)
    BY <1>5, <1>8
  <2>2. /\ pkts' \in Seq(Packets) /\ Len(pkts') = Len(calendar) + 1 /\ Len(calendar) \in Nat
        /\ \A i \in 1..Len(calendar) : pkts'[i] = calendar[i]
        /\ pkts'[Len(calendar) + 1] = next
    BY <1>8, <2>1
  <2>3. ASSUME NEW i \in 1..Len(pkts') PROVE OnItsWay(paths, pkts'[i])
    <3>1. CASE i = Len(calendar) + 1
      BY <2>1, <2>2, <3>1
    <3>2. CASE i # Len(calendar) + 1
      <4>1. i \in 1..Len(calendar)
        BY <2>2, <3>2
      <4>2. QED
        BY <2>2, <4>1
    <3>3. QED
      BY <3>1, <3>2
  <2>4. QED
    BY <1>6, <2>2, <2>3
<1>9. QED
  BY <1>3, <1>7, <1>8

\* A step that changes packets only.
LEMMA PacketsMove ==
    ASSUME PathInv, UNCHANGED <<loaded, hoptable, nodetable, nodecount, pathtable, paths, admin, tables>>,
           pkts' \in Seq(Packets), \A i \in 1..Len(pkts') : OnItsWay(paths, pkts'[i]),
           last'.crossed = last'.route
    PROVE  PathInv'
<1> USE DEF PathInv
<1>1. TypeInv'
  BY DEF TypeInv
<1>2. TableInv' /\ CellInv' /\ LiveInv'
  BY DEF TableInv, NodesWritten, CellInv, LiveInv
<1>3. PktInv' /\ FollowsRoute'
  BY DEF PktInv, FollowsRoute
<1>4. QED
  BY <1>1, <1>2, <1>3

\* lookup_path finds the path of the packet's route.
LEMMA LookupCell ==
    ASSUME PathInv, NEW src \in Hosts, NEW dst \in Hosts, lookup_path(src, dst) # 0
    PROVE  /\ pathtable # <<>> /\ nodecount \in Nat /\ nodecount # 0 /\ nodecount = admin.model.nodes
           /\ <<src, dst>> \in Pairs(nodecount) /\ src \in Nat /\ dst \in Nat
           /\ lookup_path(src, dst) = pathtable[<<src, dst>>]
<1> USE DEF PathInv
<1>1. /\ nodetable[src] # -1 /\ nodetable[dst] # -1 /\ pathtable # <<>>
      /\ lookup_path(src, dst) = pathtable[<<nodetable[src], nodetable[dst]>>]
  BY DEF lookup_path
<1>2. nodecount # 0 /\ nodecount = admin.model.nodes /\ NodesWritten
  BY <1>1 DEF TableInv
<1>3. /\ nodetable[src] = src /\ src < nodecount /\ src \in Nat
      /\ nodetable[dst] = dst /\ dst < nodecount /\ dst \in Nat
  BY <1>1, <1>2, FreeBSDAssumption DEF NodesWritten, FreeBSDAssumption
<1>4. <<src, dst>> \in Pairs(nodecount) /\ nodecount \in Nat
  BY <1>2, <1>3, ModelOf DEF Pairs
<1>5. QED
  BY <1>1, <1>2, <1>3, <1>4

LEMMA LookupFinds ==
    ASSUME PathInv, NEW src \in Hosts, NEW dst \in Hosts, lookup_path(src, dst) # 0
    PROVE  /\ RouteOf(src, dst) \in Seq(Nat)
           /\ Leads(paths, lookup_path(src, dst), RouteOf(src, dst))
<1>1. /\ pathtable # <<>> /\ nodecount \in Nat /\ nodecount # 0 /\ nodecount = admin.model.nodes
      /\ <<src, dst>> \in Pairs(nodecount) /\ src \in Nat /\ dst \in Nat
      /\ lookup_path(src, dst) = pathtable[<<src, dst>>]
  BY LookupCell
<1>2. PICK r \in admin.model.routes : <<src, dst>> = <<r.src, r.dst>> /\ Leads(paths, pathtable[<<src, dst>>], r.hops)
  BY <1>1 DEF PathInv, CellInv
<1>3. {t \in admin.model.routes : t.src = src /\ t.dst = dst} = {r}
  BY <1>2, ModelOf DEF PathInv
<1>4. RouteOf(src, dst) = r.hops
  BY <1>3 DEF RouteOf
<1>5. QED
  BY <1>1, <1>2, <1>4, ModelOf DEF PathInv

LEMMA FilterKeeps ==
    ASSUME PathInv, NEW src \in Hosts, NEW dst \in Hosts, filter_ipinput(src, dst)
    PROVE  PathInv'
<1> DEFINE p == [path |-> lookup_path(src, dst), at |-> 0, left |-> 0, crossed |-> <<>>,
                 route |-> RouteOf(src, dst)]
<1>1. /\ lookup_path(src, dst) # 0
      /\ UNCHANGED <<loaded, hoptable, nodetable, nodecount, pathtable, paths, admin, tables>>
      /\ \E left \in Delays : emulate_nexthop(p, pkts, left)
  BY DEF filter_ipinput
<1>2. PICK left \in Delays : emulate_nexthop(p, pkts, left)
  BY <1>1
<1>3. /\ RouteOf(src, dst) \in Seq(Nat)
      /\ Leads(paths, lookup_path(src, dst), RouteOf(src, dst))
  BY <1>1, LookupFinds
<1>4. Len(paths) \in Nat /\ lookup_path(src, dst) \in Nat
  BY <1>3 DEF Leads, PathInv, TypeInv
<1>5. p \in Packets
  BY <1>3, <1>4 DEF Packets
<1>6. OnItsWay(paths, p)
  BY <1>3 DEF OnItsWay
<1>7. left \in Int
  BY FreeBSDAssumption DEF FreeBSDAssumption
<1>8. pkts \in Seq(Packets) /\ \A i \in 1..Len(pkts) : OnItsWay(paths, pkts[i])
  BY DEF PathInv, TypeInv, PktInv
<1> HIDE DEF p
<1>9. /\ pkts' \in Seq(Packets) /\ \A i \in 1..Len(pkts') : OnItsWay(paths, pkts'[i])
      /\ last'.crossed = last'.route
  BY <1>2, <1>5, <1>6, <1>7, <1>8, NextHop
<1>10. QED
  BY <1>1, <1>9, PacketsMove

LEMMA HopclockKeeps ==
    ASSUME PathInv, hopclock
    PROVE  PathInv'
<1>0. /\ pkts \in Seq(Packets) /\ Len(pkts) \in Nat /\ \A i \in 1..Len(pkts) : pkts[i] \in Packets
      /\ \A i \in 1..Len(pkts) : OnItsWay(paths, pkts[i]) /\ last.crossed = last.route
      /\ last.crossed = last.route
  BY DEF PathInv, TypeInv, PktInv, FollowsRoute
<1>1. CASE hopclock_packet
  <2> DEFINE i == First(Due(pkts))
             cal == RemoveAt(pkts, i)
  <2>1. /\ Due(pkts) # {}
        /\ UNCHANGED <<loaded, hoptable, nodetable, nodecount, pathtable, paths, admin, tables>>
        /\ \E left \in Delays : emulate_nexthop(pkts[i], cal, left)
    BY <1>1 DEF hopclock_packet
  <2>2. i \in Due(pkts)
    BY <1>0, <2>1, FirstIsDue DEF Due
  <2>3. i \in 1..Len(pkts)
    BY <2>2 DEF Due
  <2> HIDE DEF i
  <2>4. /\ cal \in Seq(Packets)
        /\ \A j \in 1..Len(cal) : \E l \in 1..Len(pkts) : cal[j] = pkts[l]
    BY <1>0, <2>3, Removed
  <2> HIDE DEF cal
  <2>5. \A j \in 1..Len(cal) : OnItsWay(paths, cal[j])
    BY <1>0, <2>4
  <2>6. PICK left \in Delays : emulate_nexthop(pkts[i], cal, left)
    BY <2>1
  <2>7. left \in Int
    BY FreeBSDAssumption DEF FreeBSDAssumption
  <2>8. pkts[i] \in Packets /\ OnItsWay(paths, pkts[i])
    BY <1>0, <2>3
  <2>9. /\ pkts' \in Seq(Packets) /\ \A j \in 1..Len(pkts') : OnItsWay(paths, pkts'[j])
        /\ last'.crossed = last'.route
    BY <2>4, <2>5, <2>6, <2>7, <2>8, NextHop
  <2>10. QED
    BY <2>1, <2>9, PacketsMove
<1>2. CASE hopclock_timer
  <2>1. UNCHANGED <<loaded, hoptable, nodetable, nodecount, pathtable, paths, admin, tables, pkts, last>>
    BY <1>2 DEF hopclock_timer
  <2>2. QED
    BY <1>0, <2>1, PacketsMove
<1>3. CASE hopclock_end
  <2>1. /\ UNCHANGED <<loaded, hoptable, nodetable, nodecount, pathtable, paths, admin, tables, last>>
        /\ pkts' = Later(pkts)
    BY <1>3 DEF hopclock_end
  <2>2. pkts' = [i \in 1..Len(pkts) |-> [pkts[i] EXCEPT !.left = pkts[i].left - 1]]
    BY <2>1 DEF Later
  <2>3. ASSUME NEW i \in 1..Len(pkts) PROVE pkts'[i] \in Packets /\ OnItsWay(paths, pkts'[i])
    <3>1. pkts'[i] = [pkts[i] EXCEPT !.left = pkts[i].left - 1] /\ pkts[i] \in Packets
      BY <1>0, <2>2
    <3>2. /\ pkts'[i] \in Packets
          /\ pkts'[i].path = pkts[i].path /\ pkts'[i].at = pkts[i].at
          /\ pkts'[i].crossed = pkts[i].crossed /\ pkts'[i].route = pkts[i].route
      <4>1. pkts[i].left - 1 \in Int
        BY <3>1 DEF Packets
      <4> DEFINE l == pkts[i].left - 1
      <4> HIDE DEF l
      <4>2. pkts'[i] = [pkts[i] EXCEPT !.left = l] /\ l \in Int
        BY <3>1, <4>1 DEF l
      <4>3. QED
        BY <3>1, <4>2 DEF Packets
    <3>3. QED
      BY <1>0, <3>2 DEF OnItsWay
  <2>4. pkts' \in [1..Len(pkts) -> Packets]
    BY <2>2, <2>3
  <2>5. pkts' \in Seq(Packets) /\ Len(pkts') = Len(pkts)
    BY <1>0, <2>4
  <2>6. QED
    BY <1>0, <2>1, <2>3, <2>5, PacketsMove
<1>4. QED
  BY <1>1, <1>2, <1>3 DEF hopclock
-----------------------------------------------------------------------------
(* Module events, and the theorems.                                          *)

LEMMA ModuleEventKeeps ==
    ASSUME PathInv, MOD_UNLOAD \/ MOD_LOAD
    PROVE  PathInv'
<1> USE DEF PathInv
<1>1. CASE MOD_UNLOAD
  <2>1. /\ admin.pc = "idle" /\ pkts' = <<>> /\ hoptable' = 0
        /\ paths' = freed_paths /\ pathtable' = <<>> /\ nodecount' = 0
        /\ UNCHANGED <<nodetable, admin, tables, last>>
    BY <1>1 DEF MOD_UNLOAD, free_path
  <2>2. paths' \in Seq(PathArrays) /\ CellInv' /\ LiveInv' /\ PktInv'
    BY <2>1, FreeKeeps
  <2>3. TypeInv' /\ TableInv' /\ FollowsRoute'
    BY <2>1, <2>2 DEF TypeInv, TableInv, FollowsRoute
  <2>4. QED
    BY <2>2, <2>3
<1>2. CASE MOD_LOAD
  <2>1. /\ ~loaded
        /\ UNCHANGED <<hoptable, nodecount, pathtable, paths, pkts, admin, tables, last>>
    BY <1>2 DEF MOD_LOAD
  <2>2. nodecount = 0 /\ pathtable = <<>> /\ admin.pc = "idle"
    BY <2>1 DEF TableInv
  <2>3. TypeInv' /\ TableInv' /\ FollowsRoute'
    BY <2>1, <2>2 DEF TypeInv, TableInv, FollowsRoute
  <2>4. CellInv' /\ LiveInv' /\ PktInv'
    BY <2>1, <2>2 DEF CellInv, LiveInv, PktInv
  <2>5. QED
    BY <2>3, <2>4
<1>3. QED
  BY <1>1, <1>2

\* The path tables and the packets agree at all times, also when a model is replaced
\* under packets that are still on their way.
THEOREM PathInvariant == Spec => []PathInv
<1>1. Init => PathInv
  <2> SUFFICES ASSUME Init PROVE PathInv
    OBVIOUS
  <2>1. admin = [pc |-> "idle", routes |-> {}, model |-> NoModel]
    BY DEF Init, NoModel
  <2>2. TypeInv
    BY <2>1 DEF Init, TypeInv, Phases, NoModel
  <2>3. TableInv /\ FollowsRoute
    BY <2>1 DEF Init, TableInv, FollowsRoute
  <2>4. CellInv /\ LiveInv /\ PktInv
    BY DEF Init, CellInv, LiveInv, PktInv
  <2>5. QED
    BY <2>2, <2>3, <2>4 DEF PathInv
<1>2. PathInv /\ [Next]_vars => PathInv'
  <2> SUFFICES ASSUME PathInv, [Next]_vars PROVE PathInv'
    OBVIOUS
  <2>0. /\ pkts \in Seq(Packets) /\ \A i \in 1..Len(pkts) : OnItsWay(paths, pkts[i])
        /\ last.crossed = last.route
    BY DEF PathInv, TypeInv, PktInv, FollowsRoute
  <2>1. CASE Modelload
    BY <2>1, HopHandleKeeps, HopTableKeeps, NodeCountKeeps, PathEntryKeeps DEF Modelload
  <2>2. CASE \E h \in 1..hopcount, type \in XtqTypes : sysctl_hopmodhandle(h, type)
    <3>1. UNCHANGED <<loaded, hoptable, nodetable, nodecount, pathtable, paths, admin, tables, pkts, last>>
      BY <2>2 DEF sysctl_hopmodhandle
    <3>2. QED
      BY <2>0, <3>1, PacketsMove
  <2>3. CASE \E src, dst \in Hosts : filter_ipinput(src, dst)
    BY <2>3, FilterKeeps
  <2>4. CASE hopclock
    BY <2>4, HopclockKeeps
  <2>5. CASE MOD_UNLOAD \/ MOD_LOAD
    BY <2>5, ModuleEventKeeps
  <2>6. CASE UNCHANGED vars
    BY <2>0, <2>6, PacketsMove DEF vars
  <2>7. QED
    BY <2>1, <2>2, <2>3, <2>4, <2>5, <2>6 DEF Next, Running
<1>3. QED
  BY <1>1, <1>2, PTL DEF Spec

\* free_path and sysctl_pathentry: whatever is deployed, modified and reloaded, and
\* whatever allocations fail, the path arrays that are allocated are those in the table.
THEOREM PathsAreOwned == Spec => []TableOwnsPaths
<1>1. PathInv => TableOwnsPaths
  <2> SUFFICES ASSUME PathInv
               PROVE  \A i : i \in 1..Len(paths) /\ paths[i].live <=> i \in InTable
    BY DEF TableOwnsPaths
  <2> USE DEF PathInv
  <2>1. Len(paths) \in Nat
    BY DEF TypeInv
  <2>2. CASE nodecount = 0
    <3>1. pathtable = <<>>
      BY <2>2 DEF TableInv
    <3>2. InTable = {}
      BY <3>1 DEF InTable
    <3>3. QED
      BY <2>2, <3>2 DEF LiveInv
  <2>3. CASE nodecount # 0
    <3>1. DOMAIN pathtable = Pairs(nodecount)
      BY <2>3 DEF TableInv
    <3>2. ASSUME NEW i \in 1..Len(paths), paths[i].live PROVE i \in InTable
      BY <2>1, <3>1, <3>2 DEF LiveInv, InTable
    <3>3. ASSUME NEW i \in InTable PROVE i \in 1..Len(paths) /\ paths[i].live
      <4>1. PICK x \in Pairs(nodecount) : pathtable[x] = i /\ i # 0
        BY <3>1, <3>3 DEF InTable
      <4>2. QED
        BY <2>3, <4>1 DEF CellInv
    <3>4. QED
      BY <3>2, <3>3
  <2>4. QED
    BY <2>2, <2>3
<1>2. QED
  BY <1>1, PathInvariant, PTL

\* emulate_nexthop: a forwarded packet has crossed exactly the hops of the route in
\* force when it arrived.  Of a packet whose path array was freed under it nothing is
\* said: in the model it ends there, as a wild access.
THEOREM RouteIsFollowed == Spec => []FollowsRoute
<1>1. PathInv => FollowsRoute
  BY DEF PathInv
<1>2. QED
  BY <1>1, PathInvariant, PTL
-----------------------------------------------------------------------------
(* The extensible queues.                                                    *)

Kinds == {"Tq", "Te"}
Entries == [type : {XTQ_NOXTQ, XTQ_XCP}, pipe : BOOLEAN]
Timers == [table : Nat, hop : Nat, kind : Kinds, left : Int]
Queues == [xtq : Seq(Entries), pipes : Nat, up : BOOLEAN, timers : Seq(Timers),
           missed : SUBSET (Nat \X Kinds), free : Nat, blocks : Nat]

\* The types sysctl and modelload pass are entries of qsw.
KnownTypes ==
    /\ XtqTypes \subseteq 0..num_qsw_entries
    /\ \A m \in Models : m.xtq \in Seq(0..num_qsw_entries)

\* The routes of a model use hops of the model.
RoutesInRange ==
    \A m \in Models : \A r \in m.routes : \A j \in 1..Len(r.hops) : r.hops[j] \in 1..Len(m.xtq)

\* The hops with XCP; only they have a pipe.
XcpHops(s) == {h \in 1..Len(s.xtq) : s.xtq[h].type = XTQ_XCP}
Sound(s) == s \in Queues /\ \A h \in 1..Len(s.xtq) : s.xtq[h].pipe => s.xtq[h].type = XTQ_XCP

\* The count of pipes is that of the hops in S.
Counts(s, S) == s.pipes = Cardinality(S) /\ (s.up <=> s.pipes > 0)

\* The schedulers are free, or one of the timers has them, but for n.
Pool(s, n) == s.free + Len(s.timers) + n = BlockSize * s.blocks

\* Every timer is that of a pipe of the hop table.
Owned(s, table) ==
    \A i \in 1..Len(s.timers) :
        /\ s.timers[i].table = table /\ s.timers[i].hop \in 1..Len(s.xtq)
        /\ s.xtq[s.timers[i].hop].pipe

\* A timer of hop h is pending, or could not be scheduled; so for both of every pipe.
Armed(s, table, h, kind) ==
    \E i \in 1..Len(s.timers) :
        s.timers[i].table = table /\ s.timers[i].hop = h /\ s.timers[i].kind = kind
Runs(s, table, h, kind) == Armed(s, table, h, kind) \/ <<h, kind>> \in s.missed
AllRun(s, table) ==
    \A h \in 1..Len(s.xtq), kind \in Kinds : s.xtq[h].pipe => Runs(s, table, h, kind)

\* The count of the pipes is right.
PipeInv ==
    /\ hopcount \in Nat /\ Len(q.xtq) = hopcount /\ Sound(q) /\ Counts(q, XcpHops(q))
    /\ admin.pc \in {"table", "hops"} => hopcount = 0
    /\ ~loaded => hopcount = 0

\* No timer outlives its pipe, unless a pipe has been taken away.
TimerInv == "pipe gone" \in met \/ Owned(q, hoptable)

\* No scheduler is lost, and no timer but for want of one.
ArmedInv == Pool(q, 0) /\ AllRun(q, hoptable)

\* What is allocated is in the hop table in force, and what packets use is allocated,
\* unless what takes it away has happened.
HopsInv ==
    \A i \in 1..Len(paths) : paths[i].live =>
        \A j \in 1..Len(paths[i].hops) :
            paths[i].hops[j].table = hoptable /\ paths[i].hops[j].hop \in 1..hopcount
UnderWayInv == "model replaced" \in met \/ \A i \in 1..Len(pkts) : paths[pkts[i].path].live
RouteInv == "empty route" \in met \/ \A i \in 1..Len(paths) : Len(paths[i].hops) # 0
HasPipeInv == "no pipe" \in met \/ \A h \in 1..hopcount : q.xtq[h].type = XTQ_XCP => q.xtq[h].pipe
LoadingInv == admin.pc \in {"nodes", "count", "routes"} => hopcount = Len(admin.model.xtq)
SafeInv == wild \subseteq met /\ HopsInv /\ UnderWayInv /\ RouteInv /\ HasPipeInv /\ LoadingInv

\* The fields of the queues.
LEMMA QueueFields ==
    ASSUME NEW s \in Queues
    PROVE  /\ s.xtq \in Seq(Entries) /\ s.pipes \in Nat /\ s.up \in BOOLEAN
           /\ s.timers \in Seq(Timers) /\ s.free \in Nat /\ s.blocks \in Nat
           /\ s.missed \in SUBSET (Nat \X Kinds)
           /\ Len(s.xtq) \in Nat /\ Len(s.timers) \in Nat
BY DEF Queues

\* XTQ_SCHEDULE_HOP appends the timer or records that it could not; the schedulers are
\* accounted for.
Schedules(s, r, t) ==
    /\ r \in Queues /\ r.xtq = s.xtq /\ r.pipes = s.pipes /\ r.up = s.up
    /\ \/ r.timers = s.timers /\ r.missed = s.missed \cup {<<t.hop, t.kind>>}
       \/ r.timers = Append(s.timers, t) /\ r.missed = s.missed \ {<<t.hop, t.kind>>}
    /\ \A n \in Nat : Pool(s, n) => Pool(r, n)

LEMMA Schedule ==
    ASSUME NEW s \in Queues, NEW t \in Timers, NEW ok \in BOOLEAN
    PROVE  Schedules(s, XTQ_SCHEDULE_HOP(s, t, ok), t)
<1> DEFINE r == XTQ_SCHEDULE_HOP(s, t, ok)
<1>0. /\ s.xtq \in Seq(Entries) /\ s.pipes \in Nat /\ s.up \in BOOLEAN
      /\ s.timers \in Seq(Timers) /\ s.free \in Nat /\ s.blocks \in Nat /\ Len(s.timers) \in Nat
      /\ s.missed \in SUBSET (Nat \X Kinds)
      /\ BlockSize \in Nat \ {0} /\ MaxBlocks \in Nat \ {0}
  BY QueueFields, FreeBSDAssumption DEF FreeBSDAssumption
<1>w. PICK w \in SUBSET (Nat \X Kinds) : w = {<<t.hop, t.kind>>}
  <2>1. <<t.hop, t.kind>> \in Nat \X Kinds
    BY DEF Timers
  <2>2. QED
    BY <2>1
<1>1. CASE s.free = 0 /\ (s.blocks = MaxBlocks \/ ~ok)
  <2>1. PICK m \in SUBSET (Nat \X Kinds) : m = s.missed \cup w
    BY <1>0, <1>w
  <2>2. r = [s EXCEPT !.missed = m]
    BY <1>1, <1>w, <2>1 DEF XTQ_SCHEDULE_HOP
  <2> HIDE DEF r
  <2>3. /\ r \in Queues /\ r.xtq = s.xtq /\ r.pipes = s.pipes /\ r.up = s.up
        /\ r.timers = s.timers /\ r.missed = m /\ r.free = s.free /\ r.blocks = s.blocks
    BY <2>2 DEF Queues
  <2>4. \A n \in Nat : Pool(s, n) => Pool(r, n)
    BY <2>3 DEF Pool
  <2>5. QED
    BY <1>w, <2>1, <2>3, <2>4 DEF Schedules, r
<1>2. CASE ~(s.free = 0 /\ (s.blocks = MaxBlocks \/ ~ok))
  <2> DEFINE b == IF s.free = 0 THEN s.blocks + 1 ELSE s.blocks
             f == IF s.free = 0 THEN BlockSize - 1 ELSE s.free - 1
  <2>0. PICK m \in SUBSET (Nat \X Kinds) : m = s.missed \ w
    BY <1>0
  <2>1. r = [s EXCEPT !.missed = m, !.timers = Append(s.timers, t), !.blocks = b, !.free = f]
    BY <1>2, <1>w, <2>0 DEF XTQ_SCHEDULE_HOP
  <2>2. b \in Nat /\ f \in Nat
    BY <1>0
  <2>3. /\ Append(s.timers, t) \in Seq(Timers) /\ Len(Append(s.timers, t)) = Len(s.timers) + 1
    BY <1>0, AppendProperties
  <2>4. ASSUME NEW n \in Nat, Pool(s, n)
        PROVE  f + (Len(s.timers) + 1) + n = BlockSize * b
    <3>1. CASE s.free = 0
      <4>1. BlockSize * (s.blocks + 1) = BlockSize * s.blocks + BlockSize
        BY <1>0
      <4>2. Len(s.timers) + n = BlockSize * s.blocks
        BY <1>0, <2>4, <3>1 DEF Pool
      <4>3. b = s.blocks + 1 /\ f = BlockSize - 1
        BY <3>1
      <4> HIDE DEF b, f
      <4>4. BlockSize * b = Len(s.timers) + n + BlockSize
        BY <4>1, <4>2, <4>3
      <4>5. f + (Len(s.timers) + 1) + n = Len(s.timers) + n + BlockSize
        BY <1>0, <4>3
      <4>6. QED
        BY <4>4, <4>5
    <3>2. CASE s.free # 0
      <4>1. s.free + Len(s.timers) + n = BlockSize * s.blocks
        BY <2>4 DEF Pool
      <4>2. b = s.blocks /\ f = s.free - 1
        BY <3>2
      <4> HIDE DEF b, f
      <4>3. f + (Len(s.timers) + 1) + n = s.free + Len(s.timers) + n
        <5>1. PICK x \in Nat, l \in Nat : x = s.free /\ l = Len(s.timers)
          BY <1>0
        <5>2. (x - 1) + (l + 1) + n = x + l + n
          OBVIOUS
        <5>3. QED
          BY <4>2, <5>1, <5>2
      <4>4. QED
        BY <4>1, <4>2, <4>3
    <3>3. QED
      BY <3>1, <3>2
  <2> HIDE DEF b, f, r
  <2>5. /\ r \in Queues /\ r.xtq = s.xtq /\ r.pipes = s.pipes /\ r.up = s.up
        /\ r.timers = Append(s.timers, t) /\ r.missed = m /\ r.free = f /\ r.blocks = b
    BY <1>0, <2>1, <2>2, <2>3 DEF Queues
  <2>6. \A n \in Nat : Pool(s, n) => Pool(r, n)
    BY <2>3, <2>4, <2>5 DEF Pool
  <2>7. QED
    BY <1>w, <2>0, <2>5, <2>6 DEF Schedules, r
<1>3. QED
  BY <1>1, <1>2

\* Adding and removing an element of a finite set.
LEMMA CountOne ==
    ASSUME NEW S, IsFiniteSet(S), NEW x
    PROVE  /\ Cardinality(S) \in Nat
           /\ x \in S => Cardinality(S) > 0 /\ Cardinality(S \ {x}) = Cardinality(S) - 1
           /\ x \notin S => Cardinality(S \cup {x}) = Cardinality(S) + 1
           /\ IsFiniteSet(S \ {x}) /\ IsFiniteSet(S \cup {x})
<1>1. Cardinality(S) \in Nat
  BY FS_CardinalityType
<1>2. ASSUME x \in S PROVE Cardinality(S) > 0 /\ Cardinality(S \ {x}) = Cardinality(S) - 1
  <2>1. S # {}
    BY <1>2
  <2>2. Cardinality(S) # 0
    BY <2>1, FS_EmptySet
  <2>3. QED
    BY <1>1, <1>2, <2>2, FS_RemoveElement
<1>3. ASSUME x \notin S PROVE Cardinality(S \cup {x}) = Cardinality(S) + 1
  BY <1>3, FS_AddElement
<1>4. QED
  BY <1>1, <1>2, <1>3, FS_AddElement, FS_RemoveElement

\* xtq_free: the pipe of the hop is no longer counted; all else stays.
SameBut(s, r) ==
    /\ r \in Queues /\ r.xtq = s.xtq /\ r.timers = s.timers /\ r.missed = s.missed
    /\ r.free = s.free /\ r.blocks = s.blocks

LEMMA FreeOne ==
    ASSUME NEW s \in Queues, NEW h \in 1..Len(s.xtq), NEW S, IsFiniteSet(S), Counts(s, S),
           s.xtq[h].type = XTQ_XCP <=> h \in S
    PROVE  SameBut(s, xtq_free(s, h)) /\ Counts(xtq_free(s, h), S \ {h})
<1> DEFINE r == xtq_free(s, h)
<1>0. s.pipes \in Nat /\ s.up \in BOOLEAN
  BY QueueFields
<1>1. CASE s.xtq[h].type # XTQ_XCP
  <2>1. r = s /\ S \ {h} = S
    BY <1>1 DEF xtq_free
  <2>2. QED
    BY <2>1 DEF SameBut
<1>2. CASE s.xtq[h].type = XTQ_XCP
  <2>1. Cardinality(S) > 0 /\ Cardinality(S \ {h}) = Cardinality(S) - 1 /\ Cardinality(S) \in Nat
    BY <1>2, CountOne
  <2> DEFINE n == s.pipes - 1
             u == s.up /\ s.pipes # 1
  <2>2. n \in Nat /\ u \in BOOLEAN /\ n = Cardinality(S \ {h})
    BY <1>0, <2>1 DEF Counts
  <2>3. u <=> n > 0
    BY <1>0, <2>1 DEF Counts
  <2>4. r = [s EXCEPT !.pipes = n, !.up = u]
    BY <1>2 DEF xtq_free, xcp_free_pipe
  <2> HIDE DEF r, n, u
  <2>5. /\ r.pipes = n /\ r.up = u /\ SameBut(s, r)
    BY <2>2, <2>4 DEF Queues, SameBut
  <2>6. QED
    BY <2>2, <2>3, <2>5 DEF Counts, r
<1>3. QED
  BY <1>1, <1>2

\* The entry a hop has when this type has been installed: with XCP it may lack the pipe.
EntryOf(type, e) ==
    e \in Entries /\ (e.pipe => e.type = XTQ_XCP) /\ (e.type = XTQ_XCP <=> type = XTQ_XCP)

\* xtq_install: the entry of the hop changes, and with a pipe its two timers are appended or
\* recorded as missed; those of other hops stay.
Installs(s, r, table, h, e) ==
    /\ r \in Queues /\ r.xtq = [s.xtq EXCEPT ![h] = e]
    /\ \A i \in 1..Len(r.timers) :
         \/ i \in 1..Len(s.timers) /\ r.timers[i] = s.timers[i]
         \/ e.pipe /\ r.timers[i].table = table /\ r.timers[i].hop = h
    /\ \A i \in 1..Len(s.timers) : i \in 1..Len(r.timers) /\ r.timers[i] = s.timers[i]
    /\ \A x \in s.missed : x[1] # h => x \in r.missed
    /\ Pool(s, 0) => Pool(r, 0)
    /\ e.pipe => Runs(r, table, h, "Tq") /\ Runs(r, table, h, "Te")

\* What one more timer, or none, means for the timers that were there.
GrowsBy(s, r, t) ==
    /\ Len(r) \in Nat /\ Len(s) \in Nat /\ Len(s) <= Len(r) /\ Len(r) <= Len(s) + 1
    /\ \A i \in 1..Len(s) : i \in 1..Len(r) /\ r[i] = s[i]
    /\ \A i \in 1..Len(r) : (i \in 1..Len(s) /\ r[i] = s[i]) \/ r[i] = t
    /\ r = Append(s, t) => Len(s) + 1 \in 1..Len(r) /\ r[Len(s) + 1] = t

LEMMA Grows ==
    ASSUME NEW S, NEW s \in Seq(S), NEW t \in S, NEW r, r \in {s, Append(s, t)}
    PROVE  r \in Seq(S) /\ GrowsBy(s, r, t)
<1>1. CASE r = s
  <2>1. Len(s) \in Nat /\ r # Append(s, t)
    BY <1>1, AppendProperties
  <2>2. QED
    BY <1>1, <2>1 DEF GrowsBy
<1>2. CASE r = Append(s, t)
  <2>1. /\ Len(s) \in Nat /\ r \in Seq(S) /\ Len(r) = Len(s) + 1 /\ r[Len(s) + 1] = t
        /\ \A i \in 1..Len(s) : r[i] = s[i]
    BY <1>2, AppendProperties
  <2>2. ASSUME NEW i \in 1..Len(r) PROVE (i \in 1..Len(s) /\ r[i] = s[i]) \/ r[i] = t
    <3>1. CASE i = Len(s) + 1
      BY <2>1, <3>1
    <3>2. CASE i # Len(s) + 1
      <4>1. i \in 1..Len(s)
        BY <2>1, <3>2
      <4>2. QED
        BY <2>1, <4>1
    <3>3. QED
      BY <3>1, <3>2
  <2>3. QED
    BY <2>1, <2>2 DEF GrowsBy
<1>3. QED
  BY <1>1, <1>2

LEMMA OutcomeFields ==
    ASSUME NEW d \in Outcomes
    PROVE  /\ d.Tq \in Int /\ d.Te \in Int
           /\ d.pipe \in BOOLEAN /\ d.okq \in BOOLEAN /\ d.oke \in BOOLEAN
<1>1. Delays \subseteq Int
  BY FreeBSDAssumption DEF FreeBSDAssumption
<1>2. QED
  BY <1>1 DEF Outcomes

IsTimer(t, table, h, kind) == t \in Timers /\ t.table = table /\ t.hop = h /\ t.kind = kind

LEMMA TimerIs ==
    ASSUME NEW table \in Nat, NEW h \in Nat, NEW left \in Int, NEW kind \in Kinds
    PROVE  IsTimer(Timer(table, h, kind, left), table, h, kind)
BY DEF Timer, Timers, IsTimer

\* The two timers of a pipe.
LEMMA TwoTimers ==
    ASSUME NEW s \in Queues, NEW h \in Nat, NEW table \in Nat, NEW e, e.pipe,
           NEW a \in Queues, NEW b, NEW r, NEW t1, NEW t2,
           a.xtq = [s.xtq EXCEPT ![h] = e], a.timers = s.timers, a.missed = s.missed,
           a.free = s.free, a.blocks = s.blocks,
           IsTimer(t1, table, h, "Tq"), IsTimer(t2, table, h, "Te"),
           Schedules(a, b, t1), Schedules(b, r, t2)
    PROVE  Installs(s, r, table, h, e)
<1>1. /\ t1 \in Timers /\ t1.table = table /\ t1.hop = h /\ t1.kind = "Tq"
      /\ t2 \in Timers /\ t2.table = table /\ t2.hop = h /\ t2.kind = "Te"
  BY DEF IsTimer
<1>2. /\ b \in Queues /\ b.xtq = a.xtq /\ b.timers \in {s.timers, Append(s.timers, t1)}
      /\ r \in Queues /\ r.xtq = a.xtq /\ r.timers \in {b.timers, Append(b.timers, t2)}
  BY DEF Schedules
<1>3. s.timers \in Seq(Timers) /\ b.timers \in Seq(Timers)
  BY <1>2, QueueFields
<1>4. GrowsBy(s.timers, b.timers, t1) /\ GrowsBy(b.timers, r.timers, t2)
  BY <1>1, <1>2, <1>3, Grows
<1>5. /\ \A i \in 1..Len(s.timers) : i \in 1..Len(b.timers) /\ b.timers[i] = s.timers[i]
      /\ \A i \in 1..Len(b.timers) :
           (i \in 1..Len(s.timers) /\ b.timers[i] = s.timers[i]) \/ b.timers[i] = t1
      /\ b.timers = Append(s.timers, t1) => \E i \in 1..Len(b.timers) : b.timers[i] = t1
  BY <1>4 DEF GrowsBy
<1>6. /\ \A i \in 1..Len(b.timers) : i \in 1..Len(r.timers) /\ r.timers[i] = b.timers[i]
      /\ \A i \in 1..Len(r.timers) :
           (i \in 1..Len(b.timers) /\ r.timers[i] = b.timers[i]) \/ r.timers[i] = t2
      /\ r.timers = Append(b.timers, t2) => \E i \in 1..Len(r.timers) : r.timers[i] = t2
  BY <1>4 DEF GrowsBy
<1>7. \A i \in 1..Len(r.timers) :
        \/ i \in 1..Len(s.timers) /\ r.timers[i] = s.timers[i]
        \/ r.timers[i].table = table /\ r.timers[i].hop = h
  BY <1>1, <1>5, <1>6
<1>8. \A i \in 1..Len(s.timers) : i \in 1..Len(r.timers) /\ r.timers[i] = s.timers[i]
  BY <1>5, <1>6
<1>9. /\ b.missed = s.missed \cup {<<h, "Tq">>} \/ b.missed = s.missed \ {<<h, "Tq">>}
      /\ r.missed = b.missed \cup {<<h, "Te">>} \/ r.missed = b.missed \ {<<h, "Te">>}
  BY <1>1 DEF Schedules
<1>10. ASSUME NEW x \in s.missed, x[1] # h PROVE x \in r.missed
  <2>1. x # <<h, "Tq">> /\ x # <<h, "Te">>
    BY <1>10
  <2>2. QED
    BY <1>9, <2>1
<1>11. Pool(s, 0) => Pool(r, 0)
  <2>1. Pool(s, 0) => Pool(a, 0)
    BY DEF Pool
  <2>2. QED
    BY <2>1 DEF Schedules
<1>12. Runs(r, table, h, "Tq")
  <2>1. CASE b.timers = Append(s.timers, t1)
    <3>1. \E i \in 1..Len(r.timers) : r.timers[i] = t1
      BY <1>5, <1>6, <2>1
    <3>2. QED
      BY <1>1, <3>1 DEF Runs, Armed
  <2>2. CASE b.missed = s.missed \cup {<<h, "Tq">>}
    <3>1. <<h, "Tq">> # <<h, "Te">>
      OBVIOUS
    <3>2. <<h, "Tq">> \in r.missed
      BY <1>9, <2>2, <3>1
    <3>3. QED
      BY <3>2 DEF Runs
  <2>3. QED
    BY <1>1, <2>1, <2>2 DEF Schedules
<1>13. Runs(r, table, h, "Te")
  <2>1. CASE r.timers = Append(b.timers, t2)
    BY <1>1, <1>6, <2>1 DEF Runs, Armed
  <2>2. CASE r.missed = b.missed \cup {<<h, "Te">>}
    BY <2>2 DEF Runs
  <2>3. QED
    BY <1>1, <2>1, <2>2 DEF Schedules
<1>14. QED
  BY <1>2, <1>7, <1>8, <1>10, <1>11, <1>12, <1>13 DEF Installs

LEMMA InstallOne ==
    ASSUME NEW s \in Queues, NEW h \in 1..Len(s.xtq), NEW S, IsFiniteSet(S), Counts(s, S), h \notin S,
           NEW table \in Nat, NEW type \in 0..num_qsw_entries, NEW d, type = XTQ_XCP => d \in Outcomes
    PROVE  /\ \E e : EntryOf(type, e) /\ Installs(s, xtq_install(s, table, h, type, d), table, h, e)
           /\ Counts(xtq_install(s, table, h, type, d), IF type = XTQ_XCP THEN S \cup {h} ELSE S)
<1> DEFINE r == xtq_install(s, table, h, type, d)
<1>0. /\ s.xtq \in Seq(Entries) /\ s.pipes \in Nat /\ s.up \in BOOLEAN /\ Len(s.xtq) \in Nat
      /\ s.timers \in Seq(Timers) /\ s.free \in Nat /\ s.blocks \in Nat /\ Len(s.timers) \in Nat
      /\ h \in Nat
  BY QueueFields
<1>3. ~(type > num_qsw_entries)
  BY DEF num_qsw_entries
<1>4. CASE type # XTQ_XCP
  <2>0. PICK e : e = [type |-> XTQ_NOXTQ, pipe |-> FALSE]
    OBVIOUS
  <2>1. e \in Entries /\ EntryOf(type, e) /\ ~e.pipe
    BY <1>4, <2>0 DEF EntryOf, Entries, XTQ_NOXTQ, XTQ_XCP
  <2>2. PICK x : x = [s.xtq EXCEPT ![h] = e]
    OBVIOUS
  <2>3. x \in Seq(Entries)
    BY <1>0, <2>1, <2>2
  <2>4. r = [s EXCEPT !.xtq = x]
    BY <1>3, <1>4, <2>0, <2>2 DEF xtq_install
  <2> HIDE DEF r
  <2>5. /\ r \in Queues /\ r.xtq = x /\ r.timers = s.timers /\ r.free = s.free /\ r.blocks = s.blocks
        /\ r.pipes = s.pipes /\ r.up = s.up /\ r.missed = s.missed
    BY <2>3, <2>4 DEF Queues
  <2>6. Counts(r, S) /\ (Pool(s, 0) => Pool(r, 0))
    BY <2>5 DEF Counts, Pool
  <2>7. Installs(s, r, table, h, e)
    BY <1>0, <2>1, <2>2, <2>5, <2>6 DEF Installs
  <2>8. QED
    BY <1>4, <2>1, <2>6, <2>7 DEF r
<1>5. CASE type = XTQ_XCP
  <2>0. /\ d.Tq \in Int /\ d.Te \in Int
        /\ d.pipe \in BOOLEAN /\ d.okq \in BOOLEAN /\ d.oke \in BOOLEAN
    BY <1>5, OutcomeFields
  <2>e. PICK e : e = [type |-> XTQ_XCP, pipe |-> d.pipe]
    OBVIOUS
  <2>x. PICK x : x = [s.xtq EXCEPT ![h] = e]
    OBVIOUS
  <2>n. PICK n : n = IF s.up THEN s.pipes + 1 ELSE 1
    OBVIOUS
  <2> DEFINE s1 == [s EXCEPT !.xtq = x, !.pipes = n, !.up = TRUE]
             t1 == Timer(table, h, "Tq", d.Tq)
             s2 == XTQ_SCHEDULE_HOP(s1, t1, d.okq)
             t2 == Timer(table, h, "Te", d.Te)
  <2>1. r = IF d.pipe THEN XTQ_SCHEDULE_HOP(s2, t2, d.oke) ELSE s1
    BY <1>3, <1>5, <2>e, <2>x, <2>n DEF xtq_install, xcp_alloc_pipe
  <2>2. n \in Nat
    BY <1>0, <2>n
  <2>3. e \in Entries /\ EntryOf(type, e) /\ e.pipe = d.pipe
    BY <1>5, <2>0, <2>e DEF EntryOf, Entries
  <2>4. n = Cardinality(S \cup {h}) /\ n > 0
    <3>1. Cardinality(S) \in Nat /\ Cardinality(S \cup {h}) = Cardinality(S) + 1
      BY CountOne
    <3>2. QED
      BY <1>0, <2>n, <3>1 DEF Counts
  <2>5. x \in Seq(Entries)
    BY <1>0, <2>3, <2>x
  <2>6. /\ s1 \in Queues /\ s1.xtq = x /\ s1.pipes = n /\ s1.up = TRUE /\ s1.missed = s.missed
        /\ s1.timers = s.timers /\ s1.free = s.free /\ s1.blocks = s.blocks
    BY <2>2, <2>5 DEF Queues
  <2>7. IsTimer(t1, table, h, "Tq") /\ IsTimer(t2, table, h, "Te")
    BY <1>0, <2>0, TimerIs DEF Kinds
  <2> HIDE DEF s1, t1, t2, s2, r
  <2>8. CASE ~d.pipe
    <3>1. r = s1
      BY <2>1, <2>8
    <3>2. Counts(r, S \cup {h}) /\ (Pool(s, 0) => Pool(r, 0))
      BY <2>4, <2>6, <3>1 DEF Counts, Pool
    <3>3. Installs(s, r, table, h, e)
      BY <1>0, <2>3, <2>x, <2>6, <2>8, <3>1, <3>2 DEF Installs
    <3>4. QED
      BY <1>5, <2>3, <3>2, <3>3 DEF r
  <2>9. CASE d.pipe
    <3>1. Installs(s, r, table, h, e) /\ r.pipes = n /\ r.up = TRUE
      <4>1. PICK a : a = s1
        OBVIOUS
      <4>2. PICK b : b = s2
        OBVIOUS
      <4>3. Schedules(a, b, t1)
        BY <2>0, <2>6, <2>7, <4>1, <4>2, Schedule DEF s2, IsTimer
      <4>4. b \in Queues /\ r = XTQ_SCHEDULE_HOP(b, t2, d.oke)
        BY <2>1, <2>9, <4>2, <4>3 DEF Schedules
      <4>5. Schedules(b, r, t2)
        BY <2>0, <2>7, <4>4, Schedule DEF IsTimer
      <4>6. Installs(s, r, table, h, e)
        BY <1>0, <2>3, <2>x, <2>6, <2>7, <2>9, <4>1, <4>3, <4>5, TwoTimers
      <4>7. QED
        BY <2>6, <4>1, <4>3, <4>5, <4>6 DEF Schedules
    <3>2. Counts(r, S \cup {h})
      BY <2>4, <3>1 DEF Counts
    <3>3. QED
      BY <1>5, <2>3, <3>1, <3>2 DEF r
  <2>10. QED
    BY <2>0, <2>8, <2>9
<1>6. QED
  BY <1>4, <1>5
-----------------------------------------------------------------------------
(* The loops over the hop table.  A recursive function is what its equation   *)
(* says once there is a function that satisfies it.                          *)

Frees(f, s, n) == f = [i \in 0..n |-> IF i = 0 THEN s ELSE xtq_free(f[i - 1], i)]
InstallsEach(f, s, table, types, d, n) ==
    f = [i \in 0..n |-> IF i = 0 THEN s ELSE xtq_install(f[i - 1], table, i, types[i], d[i])]

LEMMA FreesExist ==
    ASSUME NEW s, NEW n \in Nat
    PROVE  \E f : Frees(f, s, n)
<1> DEFINE Is(f, k) == f = [i \in 0..k |-> IF i = 0 THEN s ELSE xtq_free(f[i - 1], i)]
           Bad == {k \in Nat : ~(\E f : Is(f, k))}
<1>1. SUFFICES ASSUME Bad # {} PROVE FALSE
  BY DEF Frees
<1>2. PICK k \in Bad : \A j \in Bad : k <= j
  <2>1. Bad \subseteq Nat
    OBVIOUS
  <2> HIDE DEF Bad
  <2>2. QED
    BY <1>1, <2>1, LeastOf
<1>3. k \in Nat /\ ~(\E f : Is(f, k))
  OBVIOUS
<1>4. CASE k = 0
  <2> DEFINE z == [i \in 0..0 |-> s]
  <2>1. Is(z, 0)
    OBVIOUS
  <2>2. QED
    BY <1>3, <1>4, <2>1
<1>5. CASE k # 0
  <2>1. k - 1 \in Nat /\ k - 1 \notin Bad
    BY <1>2, <1>3, <1>5
  <2>2. PICK g : Is(g, k - 1)
    BY <2>1
  <2> DEFINE t == [i \in 0..k |-> IF i = k THEN xtq_free(g[k - 1], k) ELSE g[i]]
  <2>3. ASSUME NEW i \in 0..k
        PROVE  t[i] = IF i = 0 THEN s ELSE xtq_free(t[i - 1], i)
    <3>1. CASE i = k
      <4>1. k - 1 \in 0..k /\ k - 1 # k /\ i - 1 = k - 1
        BY <1>3, <1>5, <3>1
      <4>2. QED
        BY <1>3, <1>5, <3>1, <4>1
    <3>2. CASE i # k
      <4>1. i \in 0..(k - 1) /\ (i # 0 => i - 1 \in 0..k /\ i - 1 # k)
        BY <1>3, <3>2
      <4>2. g[i] = IF i = 0 THEN s ELSE xtq_free(g[i - 1], i)
        BY <2>2, <4>1
      <4>3. QED
        BY <3>2, <4>1, <4>2
    <3>3. QED
      BY <3>1, <3>2
  <2>4. t = [i \in 0..k |-> t[i]]
    OBVIOUS
  <2> HIDE DEF t
  <2>5. t = [i \in 0..k |-> IF i = 0 THEN s ELSE xtq_free(t[i - 1], i)]
    BY <2>3, <2>4
  <2>6. QED
    BY <1>3, <2>5
<1>6. QED
  BY <1>4, <1>5

LEMMA UninstalledRec ==
    ASSUME NEW s, NEW n \in Nat
    PROVE  /\ Uninstalled(s, n)[0] = s
           /\ \A i \in 1..n : Uninstalled(s, n)[i] = xtq_free(Uninstalled(s, n)[i - 1], i)
<1>0. PICK g : Frees(g, s, n)
  BY FreesExist
<1> DEFINE Is(f) == f = [i \in 0..n |-> IF i = 0 THEN s ELSE xtq_free(f[i - 1], i)]
           F == Uninstalled(s, n)
<1>1. \E f : Is(f)
  <2>1. Is(g)
    BY <1>0 DEF Frees
  <2> HIDE DEF Is
  <2>2. QED
    BY <2>1
<1>2. F = CHOOSE f : Is(f)
  BY DEF Uninstalled
<1>3. Is(F)
  BY <1>1, <1>2
<1> HIDE DEF F
<1>4. \A i \in 0..n : F[i] = IF i = 0 THEN s ELSE xtq_free(F[i - 1], i)
  BY <1>3
<1>5. 0 \in 0..n /\ \A i \in 1..n : i \in 0..n /\ i # 0
  OBVIOUS
<1>6. QED
  BY <1>4, <1>5 DEF F

LEMMA InstallsExist ==
    ASSUME NEW s, NEW table, NEW types, NEW d, NEW n \in Nat
    PROVE  \E f : InstallsEach(f, s, table, types, d, n)
<1> DEFINE Is(f, k) == f = [i \in 0..k |->
                          IF i = 0 THEN s ELSE xtq_install(f[i - 1], table, i, types[i], d[i])]
           Bad == {k \in Nat : ~(\E f : Is(f, k))}
<1>1. SUFFICES ASSUME Bad # {} PROVE FALSE
  BY DEF InstallsEach
<1>2. PICK k \in Bad : \A j \in Bad : k <= j
  <2>1. Bad \subseteq Nat
    OBVIOUS
  <2> HIDE DEF Bad
  <2>2. QED
    BY <1>1, <2>1, LeastOf
<1>3. k \in Nat /\ ~(\E f : Is(f, k))
  OBVIOUS
<1>4. CASE k = 0
  <2> DEFINE z == [i \in 0..0 |-> s]
  <2>1. Is(z, 0)
    OBVIOUS
  <2>2. QED
    BY <1>3, <1>4, <2>1
<1>5. CASE k # 0
  <2>1. k - 1 \in Nat /\ k - 1 \notin Bad
    BY <1>2, <1>3, <1>5
  <2>2. PICK g : Is(g, k - 1)
    BY <2>1
  <2> DEFINE t == [i \in 0..k |-> IF i = k THEN xtq_install(g[k - 1], table, k, types[k], d[k]) ELSE g[i]]
  <2>3. ASSUME NEW i \in 0..k
        PROVE  t[i] = IF i = 0 THEN s ELSE xtq_install(t[i - 1], table, i, types[i], d[i])
    <3>1. CASE i = k
      <4>1. k - 1 \in 0..k /\ k - 1 # k /\ i - 1 = k - 1
        BY <1>3, <1>5, <3>1
      <4>2. QED
        BY <1>3, <1>5, <3>1, <4>1
    <3>2. CASE i # k
      <4>1. i \in 0..(k - 1) /\ (i # 0 => i - 1 \in 0..k /\ i - 1 # k)
        BY <1>3, <3>2
      <4>2. g[i] = IF i = 0 THEN s ELSE xtq_install(g[i - 1], table, i, types[i], d[i])
        BY <2>2, <4>1
      <4>3. QED
        BY <3>2, <4>1, <4>2
    <3>3. QED
      BY <3>1, <3>2
  <2>4. t = [i \in 0..k |-> t[i]]
    OBVIOUS
  <2> HIDE DEF t
  <2>5. t = [i \in 0..k |-> IF i = 0 THEN s ELSE xtq_install(t[i - 1], table, i, types[i], d[i])]
    BY <2>3, <2>4
  <2>6. QED
    BY <1>3, <2>5
<1>6. QED
  BY <1>4, <1>5

Starts(f, s, table, types, d) ==
    /\ f[0] = s
    /\ \A i \in 1..Len(types) : f[i] = xtq_install(f[i - 1], table, i, types[i], d[i])

LEMMA InstalledRec ==
    ASSUME NEW s, NEW table, NEW types, NEW d, Len(types) \in Nat
    PROVE  Starts(Installed(s, table, types, d), s, table, types, d)
<1>a. PICK n \in Nat : n = Len(types)
  OBVIOUS
<1>0. PICK g : InstallsEach(g, s, table, types, d, n)
  BY InstallsExist
<1> DEFINE Is(f) == f = [i \in 0..Len(types) |->
                          IF i = 0 THEN s ELSE xtq_install(f[i - 1], table, i, types[i], d[i])]
           F == Installed(s, table, types, d)
<1>1. \E f : Is(f)
  <2>1. Is(g)
    BY <1>a, <1>0 DEF InstallsEach
  <2> HIDE DEF Is
  <2>2. QED
    BY <2>1
<1>2. F = CHOOSE f : Is(f)
  BY DEF Installed
<1>3. Is(F)
  BY <1>1, <1>2
<1> HIDE DEF F
<1>4. \A i \in 0..Len(types) : F[i] = IF i = 0 THEN s ELSE xtq_install(F[i - 1], table, i, types[i], d[i])
  BY <1>3
<1>5. 0 \in 0..Len(types) /\ \A i \in 1..Len(types) : i \in 0..Len(types) /\ i # 0
  OBVIOUS
<1>6. QED
  BY <1>4, <1>5 DEF F, Starts

\* uninit_paths and MOD_UNLOAD free the queue of every hop: no pipe is counted any more.
LEMMA UninstallAll ==
    ASSUME NEW s, Sound(s), Counts(s, XcpHops(s))
    PROVE  LET r == Uninstalled(s, Len(s.xtq))[Len(s.xtq)]
           IN  SameBut(s, r) /\ Counts(r, {})
<1>0. s \in Queues /\ Len(s.xtq) \in Nat
  BY QueueFields DEF Sound
<1>a. PICK n \in Nat : n = Len(s.xtq)
  BY <1>0
<1>b. PICK f : f = Uninstalled(s, n)
  OBVIOUS
<1>1. f[0] = s /\ \A i \in 1..n : f[i] = xtq_free(f[i - 1], i)
  BY <1>b, UninstalledRec
<1> DEFINE Left(i) == {h \in XcpHops(s) : h > i}
           Bad == {i \in 0..n : ~(SameBut(s, f[i]) /\ Counts(f[i], Left(i)))}
<1>2. XcpHops(s) \subseteq 1..n
  BY <1>a DEF XcpHops
<1>3. \A i : IsFiniteSet(Left(i))
  <2>1. IsFiniteSet(1..n)
    BY FS_Interval
  <2>2. \A i : Left(i) \subseteq 1..n
    BY <1>2
  <2>3. QED
    BY <2>1, <2>2, FS_Subset
<1>4. Bad = {}
  <2>1. SUFFICES ASSUME Bad # {} PROVE FALSE
    OBVIOUS
  <2>2. PICK k \in Bad : \A j \in Bad : k <= j
    <3>1. Bad \subseteq Nat
      OBVIOUS
    <3> HIDE DEF Bad
    <3>2. QED
      BY <2>1, <3>1, LeastOf
  <2>3. k \in 0..n /\ ~(SameBut(s, f[k]) /\ Counts(f[k], Left(k)))
    OBVIOUS
  <2>4. CASE k = 0
    <3>1. Left(0) = XcpHops(s)
      BY <1>2
    <3>2. QED
      BY <1>0, <1>1, <2>3, <2>4, <3>1 DEF SameBut
  <2>5. CASE k # 0
    <3>1. PICK j \in 0..n : j = k - 1 /\ j \notin Bad
      <4>1. k - 1 \in 0..n /\ ~(k <= k - 1)
        BY <2>3, <2>5
      <4>2. k - 1 \notin Bad
        BY <2>2, <4>1
      <4>3. QED
        BY <4>1, <4>2
    <3>2. SameBut(s, f[j]) /\ Counts(f[j], Left(j)) /\ k \in 1..n /\ f[k] = xtq_free(f[j], k)
      BY <1>1, <2>3, <2>5, <3>1
    <3>3. /\ f[j] \in Queues /\ k \in 1..Len(f[j].xtq) /\ f[j].xtq = s.xtq
          /\ IsFiniteSet(Left(j))
      BY <1>a, <1>3, <3>2 DEF SameBut
    <3>4. f[j].xtq[k].type = XTQ_XCP <=> k \in Left(j)
      BY <1>a, <2>3, <3>1, <3>2, <3>3 DEF XcpHops
    <3>5. Left(k) = Left(j) \ {k}
      BY <1>2, <2>3, <3>1
    <3> HIDE DEF Left
    <3>6. SameBut(f[j], f[k]) /\ Counts(f[k], Left(k))
      BY <3>2, <3>3, <3>4, <3>5, FreeOne
    <3>7. SameBut(s, f[k])
      BY <3>2, <3>6 DEF SameBut
    <3>8. QED
      BY <2>3, <3>6, <3>7
  <2>6. QED
    BY <2>4, <2>5
<1>5. n \in 0..n /\ Left(n) = {}
  BY <1>2
<1>6. SameBut(s, f[n]) /\ Counts(f[n], {})
  BY <1>4, <1>5
<1>7. QED
  BY <1>a, <1>b, <1>6

\* sysctl_hophandle after i hops of the new table: those with XCP are counted, and have the
\* only timers that are new.
XcpUpto(types, i) == {h \in 1..Len(types) : h <= i /\ types[h] = XTQ_XCP}
TimersFrom(s, r, table) ==
    /\ \A j \in 1..Len(r.timers) :
         \/ j \in 1..Len(s.timers) /\ r.timers[j] = s.timers[j]
         \/ /\ r.timers[j].table = table /\ r.timers[j].hop \in 1..Len(r.xtq)
            /\ r.xtq[r.timers[j].hop].pipe
    /\ Pool(s, 0) => Pool(r, 0)
    /\ AllRun(r, table)
Upto(s, r, table, types, i) ==
    /\ r \in Queues /\ Len(r.xtq) = Len(types)
    /\ \A h \in 1..Len(types) : EntryOf(IF h <= i THEN types[h] ELSE XTQ_NOXTQ, r.xtq[h])
    /\ Counts(r, XcpUpto(types, i))
    /\ TimersFrom(s, r, table)

\* xtq_install changes the entry of its hop only, and keeps the timers of the others.
LEMMA InstallRuns ==
    ASSUME NEW s \in Queues, NEW r, NEW table, NEW h \in 1..Len(s.xtq), NEW e,
           Installs(s, r, table, h, e), AllRun(s, table)
    PROVE  AllRun(r, table)
<1>1. /\ Len(r.xtq) = Len(s.xtq) /\ r.xtq[h] = e
      /\ \A k \in 1..Len(s.xtq) : k # h => r.xtq[k] = s.xtq[k]
  <2>1. s.xtq \in Seq(Entries) /\ Len(s.xtq) \in Nat /\ r.xtq = [s.xtq EXCEPT ![h] = e]
    BY QueueFields DEF Installs
  <2>2. QED
    BY <2>1
<1>2. SUFFICES ASSUME NEW k \in 1..Len(r.xtq), NEW kind \in Kinds, r.xtq[k].pipe
               PROVE  Runs(r, table, k, kind)
  BY DEF AllRun
<1>3. CASE k = h
  BY <1>1, <1>2, <1>3 DEF Installs, Kinds
<1>4. CASE k # h
  <2>1. Runs(s, table, k, kind)
    BY <1>1, <1>2, <1>4 DEF AllRun
  <2>2. ASSUME Armed(s, table, k, kind) PROVE Armed(r, table, k, kind)
    BY <2>2 DEF Armed, Installs
  <2>3. ASSUME <<k, kind>> \in s.missed PROVE <<k, kind>> \in r.missed
    BY <1>4, <2>3 DEF Installs
  <2>4. QED
    BY <2>1, <2>2, <2>3 DEF Runs
<1>5. QED
  BY <1>3, <1>4

LEMMA TimersOneMore ==
    ASSUME NEW s \in Queues, NEW r \in Queues, NEW u, NEW table, NEW i \in 1..Len(r.xtq), NEW e,
           ~r.xtq[i].pipe, TimersFrom(s, r, table), Installs(r, u, table, i, e)
    PROVE  TimersFrom(s, u, table)
<1>1. /\ Len(u.xtq) = Len(r.xtq) /\ u.xtq[i] = e
      /\ \A k \in 1..Len(r.xtq) : k # i => u.xtq[k] = r.xtq[k]
  <2>1. r.xtq \in Seq(Entries) /\ Len(r.xtq) \in Nat /\ u.xtq = [r.xtq EXCEPT ![i] = e]
    BY QueueFields DEF Installs
  <2>2. QED
    BY <2>1
<1>2. ASSUME NEW k \in 1..Len(u.timers)
      PROVE  \/ k \in 1..Len(s.timers) /\ u.timers[k] = s.timers[k]
             \/ /\ u.timers[k].table = table /\ u.timers[k].hop \in 1..Len(u.xtq)
                /\ u.xtq[u.timers[k].hop].pipe
  <2>1. \/ k \in 1..Len(r.timers) /\ u.timers[k] = r.timers[k]
        \/ e.pipe /\ u.timers[k].table = table /\ u.timers[k].hop = i
    BY DEF Installs
  <2>2. CASE k \in 1..Len(r.timers) /\ u.timers[k] = r.timers[k]
    <3>1. \/ k \in 1..Len(s.timers) /\ r.timers[k] = s.timers[k]
          \/ /\ r.timers[k].table = table /\ r.timers[k].hop \in 1..Len(r.xtq)
             /\ r.xtq[r.timers[k].hop].pipe
      BY <2>2 DEF TimersFrom
    <3>2. QED
      BY <1>1, <2>2, <3>1
  <2>3. CASE e.pipe /\ u.timers[k].table = table /\ u.timers[k].hop = i
    BY <1>1, <2>3
  <2>4. QED
    BY <2>1, <2>2, <2>3
<1>3. Pool(s, 0) => Pool(u, 0)
  BY DEF TimersFrom, Installs
<1>4. AllRun(u, table)
  BY InstallRuns DEF TimersFrom
<1>5. QED
  BY <1>2, <1>3, <1>4 DEF TimersFrom

LEMMA ElementOf ==
    ASSUME NEW S, NEW s \in Seq(S), NEW i \in 1..Len(s)
    PROVE  Len(s) \in Nat /\ s[i] \in S
OBVIOUS

LEMMA UptoOne ==
    ASSUME NEW s \in Queues, NEW r, NEW table \in Nat, NEW types \in Seq(0..num_qsw_entries),
           NEW d, NEW j \in Nat, NEW i \in 1..Len(types), i = j + 1,
           types[i] = XTQ_XCP => d \in Outcomes, Upto(s, r, table, types, j)
    PROVE  Upto(s, xtq_install(r, table, i, types[i], d), table, types, i)
<1> DEFINE u == xtq_install(r, table, i, types[i], d)
           S == XcpUpto(types, j)
<1>0. /\ Len(types) \in Nat /\ r \in Queues /\ Len(r.xtq) = Len(types) /\ Counts(r, S)
      /\ types[i] \in 0..num_qsw_entries
  <2>1. r \in Queues /\ Len(r.xtq) = Len(types) /\ Counts(r, S)
    BY DEF Upto
  <2>2. Len(types) \in Nat /\ types[i] \in 0..num_qsw_entries
    BY ElementOf
  <2>3. QED
    BY <2>1, <2>2
<1>1. IsFiniteSet(S) /\ i \notin S
  <2>1. S \subseteq 1..Len(types)
    BY DEF XcpUpto
  <2>2. IsFiniteSet(1..Len(types))
    BY <1>0, FS_Interval
  <2>3. i \notin S
    BY DEF XcpUpto
  <2>4. QED
    BY <2>1, <2>2, <2>3, FS_Subset
<1>2. XcpUpto(types, i) = IF types[i] = XTQ_XCP THEN S \cup {i} ELSE S
  <2>1. \A h \in 1..Len(types) : h <= i <=> (h <= j \/ h = i)
    BY <1>0
  <2>2. QED
    BY <2>1 DEF XcpUpto
<1> HIDE DEF S, u
<1>3. PICK e : EntryOf(types[i], e) /\ Installs(r, u, table, i, e) /\ Counts(u, XcpUpto(types, i))
  <2>1. PICK t \in 0..num_qsw_entries : t = types[i]
    BY <1>0
  <2>2. i \in 1..Len(r.xtq) /\ (t = XTQ_XCP => d \in Outcomes)
    BY <1>0, <2>1
  <2>3. /\ \E e : EntryOf(t, e) /\ Installs(r, xtq_install(r, table, i, t, d), table, i, e)
        /\ Counts(xtq_install(r, table, i, t, d), IF t = XTQ_XCP THEN S \cup {i} ELSE S)
    BY <1>0, <1>1, <2>1, <2>2, InstallOne
  <2>4. QED
    BY <1>2, <2>1, <2>3 DEF u
<1>4. \A h \in 1..Len(types) : EntryOf(IF h <= j THEN types[h] ELSE XTQ_NOXTQ, r.xtq[h])
  BY DEF Upto
<1>5. ~r.xtq[i].pipe
  <2>1. EntryOf(XTQ_NOXTQ, r.xtq[i])
    BY <1>4
  <2>2. QED
    BY <2>1 DEF EntryOf, XTQ_NOXTQ, XTQ_XCP
<1>6. TimersFrom(s, u, table)
  <2>1. TimersFrom(s, r, table)
    BY DEF Upto
  <2>2. i \in 1..Len(r.xtq)
    BY <1>0
  <2>3. QED
    BY <1>0, <1>3, <1>5, <2>1, <2>2, TimersOneMore
<1>7. /\ u \in Queues /\ Len(u.xtq) = Len(types) /\ u.xtq[i] = e
      /\ \A h \in 1..Len(types) : h # i => u.xtq[h] = r.xtq[h]
  <2>1. r.xtq \in Seq(Entries) /\ u \in Queues /\ u.xtq = [r.xtq EXCEPT ![i] = e]
    BY <1>0, <1>3, QueueFields DEF Installs
  <2>2. QED
    BY <1>0, <2>1
<1>8. ASSUME NEW h \in 1..Len(types)
      PROVE  EntryOf(IF h <= i THEN types[h] ELSE XTQ_NOXTQ, u.xtq[h])
  <2>1. CASE h = i
    BY <1>3, <1>7, <2>1
  <2>2. CASE h # i
    <3>1. h <= i <=> h <= j
      BY <2>2
    <3>2. QED
      BY <1>4, <1>7, <2>2, <3>1
  <2>3. QED
    BY <2>1, <2>2
<1>9. QED
  BY <1>3, <1>6, <1>7, <1>8 DEF Upto, u

LEMMA InstallAll ==
    ASSUME NEW s \in Queues, NEW table \in Nat, NEW types \in Seq(0..num_qsw_entries),
           NEW d \in [{i \in 1..Len(types) : types[i] = XTQ_XCP} -> Outcomes], Counts(s, {}),
           s.xtq = [i \in 1..Len(types) |-> [type |-> XTQ_NOXTQ, pipe |-> FALSE]]
    PROVE  Upto(s, Installed(s, table, types, d)[Len(types)], table, types, Len(types))
<1>a. PICK n \in Nat : n = Len(types)
  OBVIOUS
<1>b. PICK f : f = Installed(s, table, types, d)
  OBVIOUS
<1>1. f[0] = s /\ \A i \in 1..n : f[i] = xtq_install(f[i - 1], table, i, types[i], d[i])
  <2>1. Starts(f, s, table, types, d)
    BY <1>a, <1>b, InstalledRec
  <2>2. QED
    BY <1>a, <2>1 DEF Starts
<1>2. Upto(s, s, table, types, 0)
  <2>1. XcpUpto(types, 0) = {}
    BY DEF XcpUpto
  <2>2. Len(s.timers) \in Nat /\ s.xtq \in Seq(Entries)
    BY QueueFields
  <2>3. Len(s.xtq) = Len(types)
    BY <1>a, <2>2
  <2>4. EntryOf(XTQ_NOXTQ, [type |-> XTQ_NOXTQ, pipe |-> FALSE])
    BY DEF EntryOf, Entries, XTQ_NOXTQ, XTQ_XCP
  <2>5. \A h \in 1..Len(types) : EntryOf(IF h <= 0 THEN types[h] ELSE XTQ_NOXTQ, s.xtq[h])
    <3>1. ASSUME NEW h \in 1..Len(types) PROVE s.xtq[h] = [type |-> XTQ_NOXTQ, pipe |-> FALSE] /\ ~(h <= 0)
      BY <1>a
    <3>2. QED
      BY <2>4, <3>1
  <2>6. TimersFrom(s, s, table)
    <3>1. \A h \in 1..Len(s.xtq) : ~s.xtq[h].pipe
      BY <1>a, <2>3
    <3>2. QED
      BY <3>1 DEF TimersFrom, AllRun
  <2>7. QED
    BY <2>1, <2>3, <2>5, <2>6 DEF Upto
<1> DEFINE Bad == {i \in 0..n : ~Upto(s, f[i], table, types, i)}
<1>3. Bad = {}
  <2>1. SUFFICES ASSUME Bad # {} PROVE FALSE
    OBVIOUS
  <2>2. PICK k \in Bad : \A j \in Bad : k <= j
    <3>1. Bad \subseteq Nat
      OBVIOUS
    <3> HIDE DEF Bad
    <3>2. QED
      BY <2>1, <3>1, LeastOf
  <2>3. k \in 0..n /\ ~Upto(s, f[k], table, types, k) /\ k # 0
    BY <1>1, <1>2
  <2>4. PICK j \in 0..n : j = k - 1 /\ j \notin Bad
    <3>1. k - 1 \in 0..n /\ ~(k <= k - 1)
      BY <2>3
    <3>2. k - 1 \notin Bad
      BY <2>2, <3>1
    <3>3. QED
      BY <3>1, <3>2
  <2>5. Upto(s, f[j], table, types, j) /\ j \in Nat /\ k = j + 1 /\ k \in 1..Len(types)
    BY <1>a, <2>3, <2>4
  <2>6. f[k] = xtq_install(f[j], table, k, types[k], d[k]) /\ (types[k] = XTQ_XCP => d[k] \in Outcomes)
    BY <1>a, <1>1, <2>3, <2>4, <2>5
  <2>7. Upto(s, f[k], table, types, k)
    BY <2>5, <2>6, UptoOne
  <2>8. QED
    BY <2>3, <2>7
<1>4. Upto(s, f[n], table, types, n)
  BY <1>3
<1>5. QED
  BY <1>a, <1>b, <1>4
-----------------------------------------------------------------------------
(* The clock: what it does to the timers.                                    *)

SameTimer(t, u) == t.table = u.table /\ t.hop = u.hop /\ t.kind = u.kind
Covers(a, b) == \A k \in 1..Len(a) : \E l \in 1..Len(b) : SameTimer(a[k], b[l])

\* No timer is new but for its time; no scheduler is lost, and no timer but for want of one.
Rearmed(s, r) ==
    /\ r \in Queues /\ r.xtq = s.xtq /\ r.pipes = s.pipes /\ r.up = s.up
    /\ Covers(r.timers, s.timers)
Kept(s, r) ==
    /\ Pool(s, 0) => Pool(r, 0)
    /\ AllRun(s, hoptable) => AllRun(r, hoptable)

\* What is left when the i-th element is removed.
LEMMA RemovedKeeps ==
    ASSUME NEW S, NEW s \in Seq(S), NEW i \in 1..Len(s)
    PROVE  /\ Len(RemoveAt(s, i)) = Len(s) - 1
           /\ \A l \in 1..Len(s) : l # i => \E j \in 1..Len(RemoveAt(s, i)) : RemoveAt(s, i)[j] = s[l]
<1> DEFINE a == SubSeq(s, 1, i - 1)
           b == SubSeq(s, i + 1, Len(s))
<1>1. a \in Seq(S) /\ Len(a) = i - 1 /\ \A j \in 1..(i - 1) : a[j] = s[j]
  OBVIOUS
<1>2. b \in Seq(S) /\ Len(b) = Len(s) - i /\ \A j \in 1..(Len(s) - i) : b[j] = s[i + j]
  OBVIOUS
<1>3. RemoveAt(s, i) = a \o b
  BY DEF RemoveAt, a, b
<1> HIDE DEF a, b
<1>4. Len(a \o b) = Len(s) - 1
  <2>1. Len(a \o b) = Len(a) + Len(b)
    BY <1>1, <1>2, ConcatProperties
  <2>2. QED
    BY <1>1, <1>2, <2>1
<1>5. ASSUME NEW l \in 1..Len(s), l # i PROVE \E j \in 1..Len(a \o b) : (a \o b)[j] = s[l]
  <2>1. CASE l < i
    <3>1. l \in 1..Len(a) /\ a[l] = s[l] /\ l \in 1..Len(a \o b)
      BY <1>1, <1>4, <2>1
    <3>2. (a \o b)[l] = a[l]
      BY <1>1, <1>2, <3>1, ConcatProperties
    <3>3. QED
      BY <3>1, <3>2
  <2>2. CASE l > i
    <3>1. PICK j \in 1..(Len(s) - i) : l = i + j
      <4>1. l - i \in 1..(Len(s) - i) /\ l = i + (l - i)
        BY <2>2
      <4>2. QED
        BY <4>1
    <3>2. l - 1 \in 1..Len(a \o b) /\ (a \o b)[l - 1] = b[(l - 1) - Len(a)]
      <4>1. l - 1 \in 1..Len(a \o b) /\ ~(l - 1 <= Len(a))
        BY <1>1, <1>4, <2>2
      <4>2. QED
        BY <1>1, <1>2, <4>1
    <3>3. (l - 1) - Len(a) = j
      BY <1>1, <3>1
    <3>4. QED
      BY <1>2, <3>1, <3>2, <3>3
  <2>3. QED
    BY <1>5, <2>1, <2>2
<1>6. QED
  BY <1>3, <1>4, <1>5

\* hopclock_end: the timers come nearer.
LEMMA LaterTimers ==
    ASSUME NEW s \in Queues
    PROVE  LET r == [s EXCEPT !.timers = Later(s.timers)]
           IN  Rearmed(s, r) /\ Kept(s, r)
<1> DEFINE a == s.timers
           b == Later(s.timers)
           r == [s EXCEPT !.timers = b]
<1>0. a \in Seq(Timers) /\ Len(a) \in Nat /\ s.free \in Nat /\ s.blocks \in Nat
  BY QueueFields
<1>1. b = [i \in 1..Len(a) |-> [a[i] EXCEPT !.left = a[i].left - 1]]
  BY DEF Later
<1> HIDE DEF b
<1>2. ASSUME NEW i \in 1..Len(a) PROVE b[i] \in Timers /\ SameTimer(b[i], a[i]) /\ SameTimer(a[i], b[i])
  <2>1. a[i] \in Timers
    BY <1>0, ElementOf
  <2>2. PICK l \in Int : l = a[i].left - 1
    BY <2>1 DEF Timers
  <2>3. b[i] = [a[i] EXCEPT !.left = l]
    BY <1>1, <2>2
  <2>4. QED
    BY <2>1, <2>3 DEF Timers, SameTimer
<1>3. b \in [1..Len(a) -> Timers]
  BY <1>1, <1>2
<1>4. b \in Seq(Timers) /\ Len(b) = Len(a)
  BY <1>0, <1>3
<1>5. /\ r \in Queues /\ r.xtq = s.xtq /\ r.pipes = s.pipes /\ r.up = s.up /\ r.missed = s.missed
      /\ r.timers = b /\ r.free = s.free /\ r.blocks = s.blocks
  BY <1>4 DEF Queues
<1> HIDE DEF r
<1>6. Covers(b, a)
  BY <1>2, <1>4 DEF Covers
<1>7. Pool(s, 0) => Pool(r, 0)
  BY <1>4, <1>5 DEF Pool
<1>8. ASSUME NEW h, NEW kind, Runs(s, hoptable, h, kind) PROVE Runs(r, hoptable, h, kind)
  <2>1. CASE <<h, kind>> \in s.missed
    BY <1>5, <2>1 DEF Runs
  <2>2. CASE Armed(s, hoptable, h, kind)
    <3>1. PICK i \in 1..Len(a) : a[i].table = hoptable /\ a[i].hop = h /\ a[i].kind = kind
      BY <2>2 DEF Armed
    <3>2. i \in 1..Len(b) /\ b[i].table = hoptable /\ b[i].hop = h /\ b[i].kind = kind
      BY <1>2, <1>4, <3>1 DEF SameTimer
    <3>3. QED
      BY <1>5, <3>2 DEF Runs, Armed
  <2>3. QED
    BY <1>8, <2>1, <2>2 DEF Runs
<1>9. AllRun(s, hoptable) => AllRun(r, hoptable)
  BY <1>5, <1>8 DEF AllRun
<1>10. QED
  BY <1>5, <1>6, <1>7, <1>9 DEF Rearmed, Kept, r, b

\* hopclock_timer: a timer that is armed again takes a scheduler before its own is freed.
LEMMA Fires ==
    ASSUME q \in Queues, Len(q.xtq) = hopcount, NEW i \in 1..Len(q.timers), NEW left \in Int,
           NEW ok \in BOOLEAN
    PROVE  Rearmed(q, fired(i, left, ok)) /\ Kept(q, fired(i, left, ok))
<1> DEFINE a == q.timers
           b == RemoveAt(q.timers, i)
           t == [q.timers[i] EXCEPT !.left = left]
           s == [q EXCEPT !.timers = b]
           u == IF HasPipe(t) THEN XTQ_SCHEDULE_HOP(s, t, ok) ELSE s
           r == fired(i, left, ok)
<1>0. a \in Seq(Timers) /\ Len(a) \in Nat /\ q.free \in Nat /\ q.blocks \in Nat
  BY QueueFields
<1>1. r = [u EXCEPT !.free = u.free + 1]
  BY DEF fired
<1>2. a[i] \in Timers
  BY <1>0, ElementOf
<1>3. t \in Timers /\ SameTimer(t, a[i]) /\ SameTimer(a[i], t)
  BY <1>2 DEF Timers, SameTimer
<1>4. /\ b \in Seq(Timers) /\ Len(b) = Len(a) - 1
      /\ \A j \in 1..Len(b) : \E l \in 1..Len(a) : b[j] = a[l]
      /\ \A l \in 1..Len(a) : l # i => \E j \in 1..Len(b) : b[j] = a[l]
  <2>1. /\ b \in Seq(Timers)
        /\ \A j \in 1..Len(b) : \E l \in 1..Len(a) : b[j] = a[l]
    BY <1>0, Removed
  <2>2. /\ Len(b) = Len(a) - 1
        /\ \A l \in 1..Len(a) : l # i => \E j \in 1..Len(b) : b[j] = a[l]
    BY <1>0, RemovedKeeps
  <2>3. QED
    BY <2>1, <2>2
<1> HIDE DEF t, b
<1>5. /\ s \in Queues /\ s.xtq = q.xtq /\ s.pipes = q.pipes /\ s.up = q.up /\ s.missed = q.missed
      /\ s.timers = b /\ s.free = q.free /\ s.blocks = q.blocks
  BY <1>4 DEF Queues
<1> HIDE DEF s
<1>6. Schedules(s, XTQ_SCHEDULE_HOP(s, t, ok), t)
  BY <1>3, <1>5, Schedule
<1>7. /\ u \in Queues /\ u.xtq = q.xtq /\ u.pipes = q.pipes /\ u.up = q.up
      /\ u.timers \in {b, Append(b, t)}
      /\ \A n \in Nat : Pool(s, n) => Pool(u, n)
      /\ \A x \in q.missed : x # <<t.hop, t.kind>> => x \in u.missed
      /\ HasPipe(t) => <<t.hop, t.kind>> \in u.missed \/ u.timers = Append(b, t)
      /\ ~HasPipe(t) => u.missed = q.missed
  <2>1. CASE HasPipe(t)
    <3>1. u = XTQ_SCHEDULE_HOP(s, t, ok)
      BY <2>1
    <3> HIDE DEF u
    <3>2. Schedules(s, u, t)
      BY <1>6, <3>1
    <3>3. QED
      BY <1>5, <2>1, <3>2 DEF Schedules
  <2>2. CASE ~HasPipe(t)
    BY <1>5, <2>2
  <2>3. QED
    BY <2>1, <2>2
<1> HIDE DEF u
<1>8. u.free \in Nat /\ u.blocks \in Nat /\ u.timers \in Seq(Timers) /\ Len(u.timers) \in Nat
  BY <1>7, QueueFields
<1>9. /\ r \in Queues /\ r.xtq = u.xtq /\ r.pipes = u.pipes /\ r.up = u.up /\ r.missed = u.missed
      /\ r.timers = u.timers /\ r.free = u.free + 1 /\ r.blocks = u.blocks
  <2>1. PICK n \in Nat : n = u.free + 1
    BY <1>8
  <2>2. r = [u EXCEPT !.free = n]
    BY <1>1, <2>1
  <2> HIDE DEF r
  <2>3. QED
    BY <1>7, <2>1, <2>2 DEF Queues
<1> HIDE DEF r
<1>10. GrowsBy(b, u.timers, t)
  BY <1>3, <1>4, <1>7, Grows
<1>11. Covers(u.timers, a)
  <2>1. \A k \in 1..Len(u.timers) : (k \in 1..Len(b) /\ u.timers[k] = b[k]) \/ u.timers[k] = t
    BY <1>10 DEF GrowsBy
  <2>2. \A k \in 1..Len(u.timers) : (\E l \in 1..Len(a) : u.timers[k] = a[l]) \/ u.timers[k] = t
    BY <1>4, <2>1
  <2>3. QED
    BY <1>3, <2>2 DEF Covers, SameTimer
<1>12. ASSUME Pool(q, 0) PROVE Pool(r, 0)
  <2>1. PICK l \in Nat : l = Len(a) /\ Len(b) = l - 1
    BY <1>0, <1>4
  <2>2. q.free + l = BlockSize * q.blocks
    BY <1>0, <1>12, <2>1 DEF Pool
  <2>3. q.free + Len(b) + 1 = q.free + l
    <3>1. PICK x \in Nat : x = q.free
      BY <1>0
    <3>2. x + (l - 1) + 1 = x + l
      OBVIOUS
    <3>3. QED
      BY <2>1, <3>1, <3>2
  <2>4. Pool(s, 1)
    BY <1>5, <2>2, <2>3 DEF Pool
  <2>5. Pool(u, 1)
    BY <1>7, <2>4
  <2>6. PICK n \in Nat, m \in Nat : n = u.free /\ m = Len(u.timers)
    BY <1>8
  <2>7. (n + 1) + m + 0 = n + m + 1
    OBVIOUS
  <2>8. n + m + 1 = BlockSize * u.blocks
    BY <2>5, <2>6 DEF Pool
  <2>9. QED
    BY <1>9, <2>6, <2>7, <2>8 DEF Pool
<1>13. ASSUME NEW h \in 1..Len(q.xtq), NEW kind \in Kinds, q.xtq[h].pipe, Runs(q, hoptable, h, kind)
       PROVE  Runs(r, hoptable, h, kind)
  <2>1. \A k \in 1..Len(b) : k \in 1..Len(u.timers) /\ u.timers[k] = b[k]
    BY <1>10 DEF GrowsBy
  <2>2. CASE HasPipe(t) /\ <<h, kind>> = <<t.hop, t.kind>>
    <3>1. CASE u.timers = Append(b, t)
      <4>1. Len(b) + 1 \in 1..Len(u.timers) /\ u.timers[Len(b) + 1] = t
        BY <1>10, <3>1 DEF GrowsBy
      <4>2. t.table = hoptable /\ t.hop = h /\ t.kind = kind
        BY <2>2 DEF HasPipe, InForce
      <4>3. QED
        BY <1>9, <4>1, <4>2 DEF Runs, Armed
    <3>2. CASE <<t.hop, t.kind>> \in u.missed
      BY <1>9, <2>2, <3>2 DEF Runs
    <3>3. QED
      BY <1>7, <2>2, <3>1, <3>2
  <2>3. CASE ~(HasPipe(t) /\ <<h, kind>> = <<t.hop, t.kind>>)
    <3>1. CASE <<h, kind>> \in q.missed
      BY <1>7, <1>9, <2>3, <3>1 DEF Runs
    <3>2. CASE Armed(q, hoptable, h, kind)
      <4>1. PICK l \in 1..Len(a) : a[l].table = hoptable /\ a[l].hop = h /\ a[l].kind = kind
        BY <3>2 DEF Armed
      <4>2. l # i
        <5>1. ASSUME l = i PROVE FALSE
          <6>1. t.table = hoptable /\ t.hop = h /\ t.kind = kind
            BY <1>3, <4>1, <5>1 DEF SameTimer
          <6>2. HasPipe(t)
            BY <1>13, <6>1 DEF HasPipe, InForce
          <6>3. QED
            BY <2>3, <6>1, <6>2
        <5>2. QED
          BY <5>1
      <4>3. PICK j \in 1..Len(b) : b[j] = a[l]
        BY <1>4, <4>1, <4>2
      <4>4. j \in 1..Len(u.timers) /\ u.timers[j] = a[l]
        BY <2>1, <4>3
      <4>5. QED
        BY <1>9, <4>1, <4>4 DEF Runs, Armed
    <3>3. QED
      BY <1>13, <3>1, <3>2 DEF Runs
  <2>4. QED
    BY <2>2, <2>3
<1>14. AllRun(q, hoptable) => AllRun(r, hoptable)
  BY <1>7, <1>9, <1>13 DEF AllRun
<1>15. QED
  BY <1>7, <1>9, <1>11, <1>12, <1>14 DEF Rearmed, Kept, r
-----------------------------------------------------------------------------
(* What the handlers do to the queues.                                       *)

\* uninit_paths and MOD_UNLOAD leave no queue; the first leaves the timers as they are.
Emptied == q' \in Queues /\ q'.xtq = <<>> /\ Counts(q', {}) /\ hopcount' = 0

LEMMA Uninit ==
    ASSUME PipeInv
    PROVE  /\ SameBut(q, Uninstalled(q, hopcount)[hopcount])
           /\ Counts(Uninstalled(q, hopcount)[hopcount], {})
<1>1. Sound(q) /\ Counts(q, XcpHops(q)) /\ Len(q.xtq) = hopcount
  BY DEF PipeInv
<1>2. /\ SameBut(q, Uninstalled(q, Len(q.xtq))[Len(q.xtq)])
      /\ Counts(Uninstalled(q, Len(q.xtq))[Len(q.xtq)], {})
  BY <1>1, UninstallAll
<1>3. QED
  BY <1>1, <1>2

LEMMA HandleEffect ==
    ASSUME PipeInv, uninit_paths
    PROVE  Emptied /\ q'.timers = q.timers /\ q'.free = q.free /\ q'.blocks = q.blocks
<1>1. PICK u : u = Uninstalled(q, hopcount)[hopcount]
  OBVIOUS
<1>2. SameBut(q, u) /\ Counts(u, {})
  BY <1>1, Uninit
<1>3. q' = [u EXCEPT !.xtq = <<>>, !.missed = {}] /\ hopcount' = 0
  BY <1>1 DEF uninit_paths
<1>4. u \in Queues /\ <<>> \in Seq(Entries)
  BY <1>2 DEF SameBut
<1>5. /\ q' \in Queues /\ q'.xtq = <<>> /\ q'.pipes = u.pipes /\ q'.up = u.up
      /\ q'.timers = u.timers /\ q'.free = u.free /\ q'.blocks = u.blocks
  BY <1>3, <1>4 DEF Queues
<1>6. QED
  BY <1>2, <1>3, <1>5 DEF Emptied, Counts, SameBut

LEMMA UnloadEffect ==
    ASSUME PipeInv, MOD_UNLOAD
    PROVE  Emptied /\ q'.timers = <<>> /\ q'.free = 0 /\ q'.blocks = 0
<1>1. PICK u : u = Uninstalled(q, hopcount)[hopcount]
  OBVIOUS
<1>2. SameBut(q, u) /\ Counts(u, {})
  BY <1>1, Uninit
<1>3. /\ q' = [u EXCEPT !.xtq = <<>>, !.missed = {}, !.timers = <<>>, !.free = 0, !.blocks = 0]
      /\ hopcount' = 0
  BY <1>1 DEF MOD_UNLOAD
<1>4. u \in Queues /\ <<>> \in Seq(Entries) /\ <<>> \in Seq(Timers)
  BY <1>2 DEF SameBut
<1>5. /\ q' \in Queues /\ q'.xtq = <<>> /\ q'.pipes = u.pipes /\ q'.up = u.up
      /\ q'.timers = <<>> /\ q'.free = 0 /\ q'.blocks = 0
  BY <1>3, <1>4 DEF Queues
<1>6. QED
  BY <1>2, <1>3, <1>5 DEF Emptied, Counts

\* A fresh start.
LEMMA NoneQueued ==
    ASSUME NEW ok \in BOOLEAN, NEW r, r = NoQueues(ok)
    PROVE  /\ r \in Queues /\ r.xtq = <<>> /\ r.timers = <<>> /\ r.pipes = 0 /\ r.up = FALSE
           /\ Pool(r, 0)
<1>1. BlockSize \in Nat
  BY FreeBSDAssumption DEF FreeBSDAssumption
<1>2. /\ r \in Queues /\ r.xtq = <<>> /\ r.timers = <<>> /\ r.pipes = 0 /\ r.up = FALSE
      /\ r.free = (IF ok THEN BlockSize ELSE 0) /\ r.blocks = IF ok THEN 1 ELSE 0
  BY <1>1 DEF NoQueues, Queues
<1>3. Pool(r, 0)
  BY <1>1, <1>2 DEF Pool
<1>4. QED
  BY <1>2, <1>3

LEMMA LoadEffect ==
    ASSUME PipeInv, MOD_LOAD
    PROVE  Emptied /\ q'.timers = <<>> /\ Pool(q', 0)
<1>1. PICK ok \in BOOLEAN : q' = NoQueues(ok)
  BY DEF MOD_LOAD
<1>2. hopcount' = 0 /\ BlockSize \in Nat
  BY FreeBSDAssumption DEF MOD_LOAD, PipeInv, FreeBSDAssumption
<1>3. Cardinality({}) = 0
  BY FS_EmptySet
<1>4. /\ q' \in Queues /\ q'.xtq = <<>> /\ q'.timers = <<>> /\ q'.pipes = 0 /\ q'.up = FALSE
      /\ Pool(q', 0)
  <2>1. PICK r : r = q'
    OBVIOUS
  <2>2. r = NoQueues(ok)
    BY <1>1, <2>1
  <2>3. /\ r \in Queues /\ r.xtq = <<>> /\ r.timers = <<>> /\ r.pipes = 0 /\ r.up = FALSE
        /\ Pool(r, 0)
    BY <2>2, NoneQueued
  <2>4. QED
    BY <2>1, <2>3
<1>5. QED
  BY <1>2, <1>3, <1>4 DEF Emptied, Counts

\* The types of the model being loaded, as the handler passes them to xtq_install.
LEMMA TypesKnown ==
    ASSUME KnownTypes, TypeInv
    PROVE  /\ admin.model.xtq \in Seq(0..num_qsw_entries) /\ Len(admin.model.xtq) \in Nat
           /\ admin.model \in Models \/ Len(admin.model.xtq) = 0
<1>1. CASE admin.model \in Models
  BY <1>1 DEF KnownTypes
<1>2. CASE admin.model = NoModel
  BY <1>2 DEF NoModel
<1>3. QED
  BY <1>1, <1>2 DEF TypeInv

\* The hop table is filled in.
Filled(s) ==
    /\ s \in Queues /\ s.timers = q.timers /\ s.free = q.free /\ s.blocks = q.blocks
    /\ Upto(s, q', hoptable, admin.model.xtq, Len(admin.model.xtq))

LEMMA HopsEffect ==
    ASSUME KnownTypes, TypeInv, PipeInv, hophandle_hops
    PROVE  /\ \E s : Filled(s)
           /\ hopcount' = Len(admin.model.xtq) /\ hopcount = 0
<1>1. /\ admin.model.xtq \in Seq(0..num_qsw_entries) /\ Len(admin.model.xtq) \in Nat
      /\ hoptable \in Nat
  BY TypesKnown DEF TypeInv
<1>2. PICK types : types = admin.model.xtq
  OBVIOUS
<1> DEFINE none == [i \in 1..Len(types) |-> [type |-> XTQ_NOXTQ, pipe |-> FALSE]]
           s == [q EXCEPT !.xtq = none]
<1>3. /\ admin.pc = "hops" /\ hopcount' = Len(types)
      /\ \E d \in [{i \in 1..Len(types) : types[i] = XTQ_XCP} -> Outcomes] :
           q' = Installed(s, hoptable, types, d)[Len(types)]
  BY <1>2 DEF hophandle_hops
<1>4. PICK d \in [{i \in 1..Len(types) : types[i] = XTQ_XCP} -> Outcomes] :
        q' = Installed(s, hoptable, types, d)[Len(types)]
  BY <1>3
<1>5. none \in Seq(Entries)
  <2>1. [type |-> XTQ_NOXTQ, pipe |-> FALSE] \in Entries
    BY DEF Entries
  <2>2. QED
    BY <1>1, <1>2, <2>1
<1>6. hopcount = 0 /\ XcpHops(q) = {} /\ q \in Queues /\ Counts(q, {})
  <2>1. hopcount = 0 /\ Len(q.xtq) = hopcount /\ q \in Queues /\ Counts(q, XcpHops(q))
    BY <1>3 DEF PipeInv, Sound
  <2>2. XcpHops(q) = {}
    BY <2>1 DEF XcpHops
  <2>3. QED
    BY <2>1, <2>2
<1> HIDE DEF none
<1>7. /\ s \in Queues /\ s.xtq = none /\ s.timers = q.timers /\ s.free = q.free /\ s.blocks = q.blocks
      /\ s.pipes = q.pipes /\ s.up = q.up
  BY <1>5, <1>6 DEF Queues
<1> HIDE DEF s
<1>8. Counts(s, {}) /\ types \in Seq(0..num_qsw_entries) /\ hoptable \in Nat
  BY <1>1, <1>2, <1>6, <1>7 DEF Counts
<1>9. s.xtq = [i \in 1..Len(types) |-> [type |-> XTQ_NOXTQ, pipe |-> FALSE]]
  BY <1>7 DEF none
<1>10. Upto(s, q', hoptable, types, Len(types))
  BY <1>4, <1>7, <1>8, <1>9, InstallAll
<1>11. Filled(s)
  BY <1>2, <1>7, <1>10 DEF Filled
<1>12. QED
  BY <1>2, <1>3, <1>6, <1>11

\* sysctl_hopmodhandle: the queue of one hop is taken away and another put in its place.
Modified(s, h, type, e) ==
    /\ SameBut(q, s) /\ EntryOf(type, e) /\ Installs(s, q', hoptable, h, e)
    /\ Counts(q', IF type = XTQ_XCP THEN (XcpHops(q) \ {h}) \cup {h} ELSE XcpHops(q) \ {h})

LEMMA ModEffect ==
    ASSUME KnownTypes, TypeInv, PipeInv, NEW h \in 1..hopcount, NEW type \in XtqTypes,
           sysctl_hopmodhandle(h, type)
    PROVE  \E s, e : Modified(s, h, type, e)
<1>1. /\ q \in Queues /\ Len(q.xtq) = hopcount /\ Counts(q, XcpHops(q)) /\ hopcount \in Nat
      /\ hoptable \in Nat
  BY DEF PipeInv, Sound, TypeInv
<1>2. IsFiniteSet(XcpHops(q))
  <2>1. IsFiniteSet(1..hopcount) /\ XcpHops(q) \subseteq 1..hopcount
    BY <1>1, FS_Interval DEF XcpHops
  <2>2. QED
    BY <2>1, FS_Subset
<1>3. PICK S : S = XcpHops(q)
  OBVIOUS
<1>4. PICK d \in Outcomes : q' = xtq_install(xtq_free(q, h), hoptable, h, type, d)
  BY DEF sysctl_hopmodhandle
<1>5. PICK s : s = xtq_free(q, h)
  OBVIOUS
<1>6. h \in 1..Len(q.xtq) /\ (q.xtq[h].type = XTQ_XCP <=> h \in S)
  BY <1>1, <1>3 DEF XcpHops
<1>7. SameBut(q, s) /\ Counts(s, S \ {h})
  BY <1>1, <1>2, <1>3, <1>5, <1>6, FreeOne
<1>8. s \in Queues /\ h \in 1..Len(s.xtq) /\ h \notin S \ {h} /\ IsFiniteSet(S \ {h})
  BY <1>2, <1>3, <1>6, <1>7, FS_Subset DEF SameBut
<1>9. type \in 0..num_qsw_entries
  BY DEF KnownTypes
<1>10. PICK T : T = S \ {h}
  OBVIOUS
<1>11. /\ \E e : EntryOf(type, e) /\ Installs(s, q', hoptable, h, e)
       /\ Counts(q', IF type = XTQ_XCP THEN T \cup {h} ELSE T)
  BY <1>1, <1>4, <1>5, <1>7, <1>8, <1>9, <1>10, InstallOne
<1>12. \E e : Modified(s, h, type, e)
  BY <1>3, <1>7, <1>10, <1>11 DEF Modified
<1>13. QED
  BY <1>12

\* The clock takes the timers of the slot one by one.
LEMMA TimerEffect ==
    ASSUME q \in Queues, Len(q.xtq) = hopcount, hopclock_timer
    PROVE  /\ Rearmed(q, q') /\ Kept(q, q')
           /\ \E i \in 1..Len(q.timers) :
                wild' = IF HasPipe(q.timers[i]) THEN wild ELSE wild \cup {"pipe gone"}
<1>1. PICK i : i = First(Due(q.timers))
  OBVIOUS
<1>2. /\ Due(q.timers) # {}
      /\ wild' = IF HasPipe(q.timers[i]) THEN wild ELSE wild \cup {"pipe gone"}
      /\ \E left \in Delays, ok \in BOOLEAN : q' = fired(i, left, ok)
  BY <1>1 DEF hopclock_timer
<1>3. Due(q.timers) \in SUBSET Nat
  BY QueueFields DEF Due
<1>4. i \in 1..Len(q.timers)
  BY <1>1, <1>2, <1>3, FirstIsDue DEF Due
<1>5. PICK left \in Int, ok \in BOOLEAN : q' = fired(i, left, ok)
  <2>1. Delays \subseteq Int
    BY FreeBSDAssumption DEF FreeBSDAssumption
  <2>2. QED
    BY <1>2, <2>1
<1>6. Rearmed(q, q') /\ Kept(q, q')
  BY <1>4, <1>5, Fires
<1>7. QED
  BY <1>2, <1>4, <1>6

LEMMA EndEffect ==
    ASSUME q \in Queues, hopclock_end
    PROVE  Rearmed(q, q') /\ Kept(q, q')
BY LaterTimers DEF hopclock_end
-----------------------------------------------------------------------------
(* The count of the pipes.                                                   *)

\* Only a hop with XCP has a pipe, after the table is filled in or one hop modified.
LEMMA EntryIsSound ==
    ASSUME NEW s \in Queues, \A h \in 1..Len(s.xtq) : \E type : EntryOf(type, s.xtq[h])
    PROVE  Sound(s)
BY DEF Sound, EntryOf

LEMMA FilledPipes ==
    ASSUME TypeInv, Len(admin.model.xtq) \in Nat, NEW s, Filled(s)
    PROVE  /\ Sound(q') /\ Len(q'.xtq) = Len(admin.model.xtq)
           /\ Counts(q', XcpHops(q'))
<1> DEFINE types == admin.model.xtq
           n == Len(admin.model.xtq)
<1>1. /\ q' \in Queues /\ Len(q'.xtq) = n /\ Counts(q', XcpUpto(types, n))
      /\ \A h \in 1..n : EntryOf(IF h <= n THEN types[h] ELSE XTQ_NOXTQ, q'.xtq[h])
  BY DEF Filled, Upto
<1>2. \A h \in 1..n : EntryOf(types[h], q'.xtq[h])
  BY <1>1
<1>3. Sound(q')
  BY <1>1, <1>2, EntryIsSound
<1>4. \A h \in 1..n : q'.xtq[h].type = XTQ_XCP <=> types[h] = XTQ_XCP
  BY <1>2 DEF EntryOf
<1>5. XcpHops(q') = XcpUpto(types, n)
  BY <1>1, <1>4 DEF XcpHops, XcpUpto
<1>6. QED
  BY <1>1, <1>3, <1>5

LEMMA ModifiedPipes ==
    ASSUME PipeInv, NEW h \in 1..hopcount, NEW type, NEW s, NEW e, Modified(s, h, type, e)
    PROVE  /\ Sound(q') /\ Len(q'.xtq) = hopcount
           /\ \A k \in 1..hopcount : k # h => q'.xtq[k] = q.xtq[k]
           /\ q'.xtq[h] = e
           /\ Counts(q', XcpHops(q'))
<1>1. q \in Queues /\ q.xtq \in Seq(Entries) /\ Len(q.xtq) = hopcount /\ hopcount \in Nat
  BY QueueFields DEF PipeInv, Sound
<1>2. q' \in Queues /\ q'.xtq = [q.xtq EXCEPT ![h] = e] /\ EntryOf(type, e)
  BY DEF Modified, Installs, SameBut
<1>3. /\ Len(q'.xtq) = hopcount /\ q'.xtq[h] = e
      /\ \A k \in 1..hopcount : k # h => q'.xtq[k] = q.xtq[k]
  BY <1>1, <1>2
<1>4. Sound(q')
  BY <1>1, <1>2, <1>3 DEF PipeInv, Sound, EntryOf
<1>5. q'.xtq[h].type = XTQ_XCP <=> type = XTQ_XCP
  BY <1>2, <1>3 DEF EntryOf
<1>6. XcpHops(q') = IF type = XTQ_XCP THEN (XcpHops(q) \ {h}) \cup {h} ELSE XcpHops(q) \ {h}
  BY <1>1, <1>3, <1>5 DEF XcpHops
<1>7. QED
  BY <1>3, <1>4, <1>6 DEF Modified

LEMMA EmptiedPipes ==
    ASSUME Emptied
    PROVE  PipeInv' /\ XcpHops(q') = {}
<1>1. Len(q'.xtq) = 0 /\ XcpHops(q') = {} /\ Sound(q') /\ hopcount' = 0
  BY DEF Emptied, XcpHops, Sound
<1>2. QED
  BY <1>1 DEF Emptied, PipeInv

LEMMA RearmedPipes ==
    ASSUME PipeInv, Rearmed(q, q'), UNCHANGED <<loaded, hopcount, admin>>
    PROVE  PipeInv'
<1>1. q' \in Queues /\ q'.xtq = q.xtq /\ q'.pipes = q.pipes /\ q'.up = q.up
  BY DEF Rearmed
<1>2. Sound(q') /\ Len(q'.xtq) = hopcount /\ XcpHops(q') = XcpHops(q) /\ Counts(q', XcpHops(q'))
  BY <1>1 DEF PipeInv, Sound, XcpHops, Counts
<1>3. QED
  BY <1>2 DEF PipeInv

\* Everything else leaves the queues alone.
LEMMA QueuesStay ==
    ASSUME PipeInv, UNCHANGED <<q, hopcount, loaded>>, admin'.pc \in {"table", "hops"} => hopcount = 0
    PROVE  PipeInv'
BY DEF PipeInv, Sound, XcpHops, Counts

\* The steps that leave the queues alone, and those of them that leave the hop table alone.
Elsewhere ==
    \/ write_nodetable \/ sysctl_nodecount
    \/ \E r \in admin.routes, fails \in BOOLEAN : sysctl_pathentry(r, fails)
    \/ \E src, dst \in Hosts : filter_ipinput(src, dst)
    \/ hopclock_packet
    \/ UNCHANGED vars

LEMMA ElsewhereStays ==
    ASSUME TypeInv, Elsewhere
    PROVE  /\ UNCHANGED <<q, hopcount, loaded, hoptable>> /\ met \subseteq met'
           /\ admin'.pc \in {"table", "hops"} => admin'.pc = admin.pc
<1>1. CASE write_nodetable
  BY <1>1, AdminFields DEF write_nodetable
<1>2. CASE sysctl_nodecount
  <2>1. /\ UNCHANGED <<q, hopcount, loaded, hoptable, met>>
        /\ admin' = [admin EXCEPT !.pc = IF admin.routes = {} THEN "idle" ELSE "routes"]
    BY <1>2 DEF sysctl_nodecount
  <2>2. admin'.pc \in {"idle", "routes"}
    BY <2>1, AdminFields
  <2>3. QED
    BY <2>1, <2>2
<1>3. CASE \E r \in admin.routes, fails \in BOOLEAN : sysctl_pathentry(r, fails)
  <2>1. PICK r \in admin.routes, fails \in BOOLEAN : sysctl_pathentry(r, fails)
    BY <1>3
  <2>2. /\ UNCHANGED <<q, hopcount, loaded, hoptable>> /\ met \subseteq met' /\ admin.pc = "routes"
        /\ admin' = [admin EXCEPT !.routes = @ \ {r},
                                  !.pc = IF fails \/ admin.routes = {r} THEN "idle" ELSE @]
    BY <2>1 DEF sysctl_pathentry
  <2>3. admin'.pc \in {"idle", "routes"}
    BY <2>2 DEF TypeInv
  <2>4. QED
    BY <2>2, <2>3
<1>4. CASE \E src, dst \in Hosts : filter_ipinput(src, dst)
  BY <1>4 DEF filter_ipinput
<1>5. CASE hopclock_packet
  BY <1>5 DEF hopclock_packet
<1>6. CASE UNCHANGED vars
  BY <1>6 DEF vars
<1>7. QED
  BY <1>1, <1>2, <1>3, <1>4, <1>5, <1>6 DEF Elsewhere

LEMMA Steps ==
    ASSUME [Next]_vars
    PROVE  \/ \E m \in Models : sysctl_hophandle(m)
           \/ hophandle_table
           \/ hophandle_hops
           \/ \E h \in 1..hopcount, type \in XtqTypes : sysctl_hopmodhandle(h, type)
           \/ hopclock_timer \/ hopclock_end
           \/ MOD_UNLOAD \/ MOD_LOAD
           \/ Elsewhere
BY DEF Next, Running, Modelload, hopclock, Elsewhere

LEMMA PipeStep ==
    ASSUME KnownTypes, PathInv, PipeInv, [Next]_vars
    PROVE  PipeInv'
<1>0. TypeInv /\ q \in Queues /\ Len(q.xtq) = hopcount /\ (~loaded => admin.pc = "idle")
  BY DEF PathInv, TableInv, PipeInv, Sound
<1>1. CASE \E m \in Models : sysctl_hophandle(m)
  <2>1. Emptied
    BY <1>1, HandleEffect DEF sysctl_hophandle
  <2>2. QED
    BY <2>1, EmptiedPipes
<1>2. CASE hophandle_table
  <2>1. UNCHANGED <<q, hopcount, loaded>> /\ admin.pc = "table"
    BY <1>2 DEF hophandle_table
  <2>2. hopcount = 0
    BY <2>1 DEF PipeInv
  <2>3. QED
    BY <2>1, <2>2, QueuesStay
<1>3. CASE hophandle_hops
  <2>1. PICK s : Filled(s)
    BY <1>0, <1>3, HopsEffect
  <2>2. hopcount' = Len(admin.model.xtq) /\ Len(admin.model.xtq) \in Nat
    BY <1>0, <1>3, HopsEffect, TypesKnown
  <2>3. Sound(q') /\ Len(q'.xtq) = hopcount' /\ Counts(q', XcpHops(q'))
    BY <1>0, <2>1, <2>2, FilledPipes
  <2>4. admin'.pc = "nodes" /\ loaded'
    BY <1>0, <1>3, AdminFields DEF hophandle_hops
  <2>5. QED
    BY <2>2, <2>3, <2>4 DEF PipeInv
<1>4. CASE \E h \in 1..hopcount, type \in XtqTypes : sysctl_hopmodhandle(h, type)
  <2>1. PICK h \in 1..hopcount, type \in XtqTypes : sysctl_hopmodhandle(h, type)
    BY <1>4
  <2>2. PICK s, e : Modified(s, h, type, e)
    BY <1>0, <2>1, ModEffect
  <2>3. UNCHANGED <<hopcount, admin, loaded>>
    BY <2>1 DEF sysctl_hopmodhandle
  <2>4. Sound(q') /\ Len(q'.xtq) = hopcount /\ Counts(q', XcpHops(q'))
    BY <2>2, ModifiedPipes
  <2>5. QED
    BY <2>3, <2>4 DEF PipeInv
<1>5. CASE hopclock_timer \/ hopclock_end
  <2>1. Rearmed(q, q')
    BY <1>0, <1>5, TimerEffect, EndEffect
  <2>2. UNCHANGED <<hopcount, admin, loaded>>
    BY <1>5 DEF hopclock_timer, hopclock_end
  <2>3. QED
    BY <2>1, <2>2, RearmedPipes
<1>6. CASE MOD_UNLOAD \/ MOD_LOAD
  <2>1. Emptied
    BY <1>6, UnloadEffect, LoadEffect
  <2>2. QED
    BY <2>1, EmptiedPipes
<1>7. CASE Elsewhere
  <2>1. /\ UNCHANGED <<q, hopcount, loaded>>
        /\ admin'.pc \in {"table", "hops"} => admin'.pc = admin.pc
    BY <1>0, <1>7, ElsewhereStays
  <2>2. admin'.pc \in {"table", "hops"} => hopcount = 0
    BY <2>1 DEF PipeInv
  <2>3. QED
    BY <2>1, <2>2, QueuesStay
<1>8. QED
  BY <1>1, <1>2, <1>3, <1>4, <1>5, <1>6, <1>7, Steps

\* The queues are well formed and their pipes counted, whatever is deployed, modified and
\* reloaded.
LEMMA PipeInvariant ==
    ASSUME KnownTypes
    PROVE  Spec => []PipeInv
<1>1. Init => PipeInv
  <2> SUFFICES ASSUME Init PROVE PipeInv
    OBVIOUS
  <2>1. hopcount = 0 /\ \E ok \in BOOLEAN : q = NoQueues(ok)
    BY DEF Init
  <2>2. q \in Queues /\ q.xtq = <<>> /\ q.pipes = 0 /\ q.up = FALSE
    BY <2>1, NoneQueued
  <2>3. XcpHops(q) = {} /\ Cardinality({}) = 0
    BY <2>2, FS_EmptySet DEF XcpHops
  <2>4. admin.pc = "idle"
    BY DEF Init
  <2>5. QED
    BY <2>1, <2>2, <2>3, <2>4 DEF PipeInv, Sound, Counts
<1>2. PathInv /\ PipeInv /\ [Next]_vars => PipeInv'
  BY PipeStep
<1>3. QED
  BY <1>1, <1>2, PathInvariant, PTL DEF Spec

\* xcp_alloc_pipe and xcp_free_pipe: the count of the pipes is the number of hops with XCP, and
\* XCP is initialised just when there is one, through any sequence of deployments,
\* modifications, unloads and loads, as long as the types passed are entries of qsw.
THEOREM PipesAreCounted ==
    ASSUME KnownTypes
    PROVE  Spec => []PipesCounted
<1>1. PipeInv => PipesCounted
  BY DEF PipeInv, PipesCounted, Counts, XcpHops
<1>2. QED
  BY <1>1, PipeInvariant, PTL
-----------------------------------------------------------------------------
(* The timers.                                                               *)

\* Without a pipe there is no timer.
LEMMA NoPipeNoTimer ==
    ASSUME q \in Queues, Owned(q, hoptable), \A h \in 1..Len(q.xtq) : ~q.xtq[h].pipe
    PROVE  q.timers = <<>>
<1>1. q.timers \in Seq(Timers) /\ Len(q.timers) \in Nat
  BY QueueFields
<1>2. ASSUME Len(q.timers) # 0 PROVE FALSE
  <2>1. 1 \in 1..Len(q.timers)
    BY <1>1, <1>2
  <2>2. q.timers[1].hop \in 1..Len(q.xtq) /\ q.xtq[q.timers[1].hop].pipe
    BY <2>1 DEF Owned
  <2>3. QED
    BY <2>2
<1>3. QED
  BY <1>1, <1>2

LEMMA NoTimersOwned ==
    ASSUME q'.timers = <<>>
    PROVE  TimerInv'
BY DEF TimerInv, Owned

\* A hop that is modified keeps its pipe, or a pipe has gone.
LEMMA ModTimers ==
    ASSUME PipeInv, TimerInv, NEW h \in 1..hopcount, NEW type,
           sysctl_hopmodhandle(h, type), NEW s, NEW e, Modified(s, h, type, e)
    PROVE  TimerInv'
<1>1. /\ Len(q.xtq) = hopcount /\ hopcount \in Nat /\ hoptable' = hoptable
      /\ met \subseteq met' /\ (PipeLeft => "pipe gone" \in met')
  BY DEF PipeInv, sysctl_hopmodhandle, QueueEvents
<1>2. CASE "pipe gone" \in met \/ PipeLeft
  BY <1>1, <1>2 DEF TimerInv
<1>3. CASE "pipe gone" \notin met /\ ~PipeLeft
  <2>1. Len(q'.xtq) = hopcount /\ q'.xtq[h] = e
    BY ModifiedPipes
  <2>2. \A k \in 1..hopcount : q.xtq[k].pipe => q'.xtq[k].pipe
    BY <1>1, <1>3 DEF PipeLeft
  <2>3. \A i \in 1..Len(q'.timers) :
          \/ i \in 1..Len(q.timers) /\ q'.timers[i] = q.timers[i]
          \/ e.pipe /\ q'.timers[i].table = hoptable /\ q'.timers[i].hop = h
    BY DEF Modified, Installs, SameBut
  <2>4. ASSUME NEW i \in 1..Len(q'.timers)
        PROVE  /\ q'.timers[i].table = hoptable /\ q'.timers[i].hop \in 1..hopcount
               /\ q'.xtq[q'.timers[i].hop].pipe
    <3>1. CASE i \in 1..Len(q.timers) /\ q'.timers[i] = q.timers[i]
      <4>1. /\ q.timers[i].table = hoptable /\ q.timers[i].hop \in 1..hopcount
            /\ q.xtq[q.timers[i].hop].pipe
        BY <1>1, <1>3, <3>1 DEF TimerInv, Owned
      <4>2. QED
        BY <2>2, <3>1, <4>1
    <3>2. CASE e.pipe /\ q'.timers[i].table = hoptable /\ q'.timers[i].hop = h
      BY <2>1, <3>2
    <3>3. QED
      BY <2>3, <3>1, <3>2
  <2>5. QED
    BY <1>1, <2>1, <2>4 DEF TimerInv, Owned
<1>4. QED
  BY <1>2, <1>3

LEMMA FilledTimers ==
    ASSUME NEW s, Filled(s), q.timers = <<>>, hoptable' = hoptable
    PROVE  TimerInv'
<1>1. TimersFrom(s, q', hoptable) /\ s.timers = <<>>
  BY DEF Filled, Upto
<1>2. \A j \in 1..Len(q'.timers) :
        /\ q'.timers[j].table = hoptable /\ q'.timers[j].hop \in 1..Len(q'.xtq)
        /\ q'.xtq[q'.timers[j].hop].pipe
  BY <1>1 DEF TimersFrom
<1>3. QED
  BY <1>2 DEF TimerInv, Owned

LEMMA RearmedTimers ==
    ASSUME TimerInv, Rearmed(q, q'), hoptable' = hoptable, met \subseteq met'
    PROVE  TimerInv'
<1>1. CASE "pipe gone" \in met
  BY <1>1 DEF TimerInv
<1>2. CASE Owned(q, hoptable)
  <2>1. ASSUME NEW i \in 1..Len(q'.timers)
        PROVE  /\ q'.timers[i].table = hoptable' /\ q'.timers[i].hop \in 1..Len(q'.xtq)
               /\ q'.xtq[q'.timers[i].hop].pipe
    <3>1. PICK l \in 1..Len(q.timers) : SameTimer(q'.timers[i], q.timers[l])
      BY DEF Rearmed, Covers
    <3>2. /\ q.timers[l].table = hoptable /\ q.timers[l].hop \in 1..Len(q.xtq)
          /\ q.xtq[q.timers[l].hop].pipe
      BY <1>2 DEF Owned
    <3>3. QED
      BY <3>1, <3>2 DEF SameTimer, Rearmed
  <2>2. QED
    BY <2>1 DEF TimerInv, Owned
<1>3. QED
  BY <1>1, <1>2 DEF TimerInv

LEMMA TimerStep ==
    ASSUME KnownTypes, PathInv, PipeInv, TimerInv, [Next]_vars
    PROVE  TimerInv'
<1>0. TypeInv /\ q \in Queues /\ Len(q.xtq) = hopcount
  BY DEF PathInv, PipeInv, Sound
<1>1. CASE \E m \in Models : sysctl_hophandle(m)
  <2>1. /\ q'.timers = q.timers /\ q'.xtq = <<>>
        /\ met \subseteq met' /\ (PipeLeft => "pipe gone" \in met')
    BY <1>1, HandleEffect DEF sysctl_hophandle, Emptied, QueueEvents
  <2>2. CASE "pipe gone" \in met \/ PipeLeft
    BY <2>1, <2>2 DEF TimerInv
  <2>3. CASE "pipe gone" \notin met /\ ~PipeLeft
    <3>0. \A h : h \notin 1..Len(q'.xtq)
      <4>1. Len(<<>>) = 0
        OBVIOUS
      <4>2. Len(q'.xtq) = 0
        BY <2>1, <4>1, Zenon
      <4>3. QED
        BY <4>2
    <3>1. \A h \in 1..Len(q.xtq) : ~q.xtq[h].pipe
      BY <2>3, <3>0, Zenon DEF PipeLeft
    <3>2. q.timers = <<>>
      BY <1>0, <2>3, <3>1, NoPipeNoTimer DEF TimerInv
    <3>3. QED
      BY <2>1, <3>2, NoTimersOwned
  <2>4. QED
    BY <2>2, <2>3
<1>2. CASE hophandle_table
  <2>1. q' = q /\ hopcount = 0 /\ met' = met
    BY <1>2 DEF hophandle_table, PipeInv
  <2>2. Owned(q, hoptable) => q.timers = <<>>
    BY <1>0, <2>1, NoPipeNoTimer
  <2>3. QED
    BY <2>1, <2>2, NoTimersOwned DEF TimerInv
<1>3. CASE hophandle_hops
  <2>1. PICK s : Filled(s)
    BY <1>0, <1>3, HopsEffect
  <2>2. hopcount = 0 /\ hoptable' = hoptable /\ met \subseteq met'
    BY <1>0, <1>3, HopsEffect DEF hophandle_hops
  <2>3. Owned(q, hoptable) => q.timers = <<>>
    BY <1>0, <2>2, NoPipeNoTimer
  <2>4. CASE "pipe gone" \in met
    BY <2>2, <2>4 DEF TimerInv
  <2>5. CASE q.timers = <<>>
    BY <2>1, <2>2, <2>5, FilledTimers
  <2>6. QED
    BY <2>3, <2>4, <2>5 DEF TimerInv
<1>4. CASE \E h \in 1..hopcount, type \in XtqTypes : sysctl_hopmodhandle(h, type)
  <2>1. PICK h \in 1..hopcount, type \in XtqTypes : sysctl_hopmodhandle(h, type)
    BY <1>4
  <2>2. PICK s, e : Modified(s, h, type, e)
    BY <1>0, <2>1, ModEffect
  <2>3. QED
    BY <2>1, <2>2, ModTimers
<1>5. CASE hopclock_timer \/ hopclock_end
  <2>1. Rearmed(q, q') /\ hoptable' = hoptable /\ met' = met
    BY <1>0, <1>5, TimerEffect, EndEffect DEF hopclock_timer, hopclock_end
  <2>2. QED
    BY <2>1, RearmedTimers
<1>6. CASE MOD_UNLOAD \/ MOD_LOAD
  BY <1>6, UnloadEffect, LoadEffect, NoTimersOwned
<1>7. CASE Elsewhere
  <2>1. UNCHANGED <<q, hoptable>> /\ met \subseteq met'
    BY <1>0, <1>7, ElsewhereStays
  <2>2. QED
    BY <2>1 DEF TimerInv, Owned
<1>8. QED
  BY <1>1, <1>2, <1>3, <1>4, <1>5, <1>6, <1>7, Steps

\* No timer outlives its pipe until a pipe is taken from its hop.
LEMMA TimerInvariant ==
    ASSUME KnownTypes
    PROVE  Spec => []TimerInv
<1>1. Init => TimerInv
  <2> SUFFICES ASSUME Init PROVE TimerInv
    OBVIOUS
  <2>1. q.timers = <<>>
    BY NoneQueued DEF Init
  <2>2. QED
    BY <2>1 DEF TimerInv, Owned
<1>2. PathInv /\ PipeInv /\ TimerInv /\ [Next]_vars => TimerInv'
  BY TimerStep
<1>3. QED
  BY <1>1, <1>2, PathInvariant, PipeInvariant, PTL DEF Spec
-----------------------------------------------------------------------------
(* The schedulers.                                                           *)

LEMMA EmptiedArmed ==
    ASSUME Emptied, Pool(q', 0)
    PROVE  ArmedInv'
BY DEF ArmedInv, Emptied, AllRun

LEMMA KeptArmed ==
    ASSUME ArmedInv, Kept(q, q'), hoptable' = hoptable
    PROVE  ArmedInv'
BY DEF ArmedInv, Kept

LEMMA FilledArmed ==
    ASSUME ArmedInv, NEW s, Filled(s), hoptable' = hoptable
    PROVE  ArmedInv'
<1>1. TimersFrom(s, q', hoptable) /\ s.timers = q.timers /\ s.free = q.free /\ s.blocks = q.blocks
  BY DEF Filled, Upto
<1>2. Pool(s, 0)
  BY <1>1 DEF ArmedInv, Pool
<1>3. QED
  BY <1>1, <1>2 DEF TimersFrom, ArmedInv

LEMMA ModArmed ==
    ASSUME PipeInv, ArmedInv, NEW h \in 1..hopcount, NEW type, NEW s, NEW e,
           Modified(s, h, type, e), hoptable' = hoptable
    PROVE  ArmedInv'
<1>1. /\ s \in Queues /\ s.xtq = q.xtq /\ s.timers = q.timers /\ s.missed = q.missed
      /\ s.free = q.free /\ s.blocks = q.blocks
      /\ Installs(s, q', hoptable, h, e) /\ Len(q.xtq) = hopcount
  BY DEF Modified, SameBut, PipeInv
<1>2. Pool(s, 0) /\ AllRun(s, hoptable)
  BY <1>1 DEF ArmedInv, Pool, AllRun, Runs, Armed
<1>3. PICK r : r = q'
  OBVIOUS
<1>4. AllRun(r, hoptable) /\ Pool(r, 0)
  <2>1. Installs(s, r, hoptable, h, e) /\ h \in 1..Len(s.xtq)
    BY <1>1, <1>3
  <2>2. AllRun(r, hoptable)
    BY <1>1, <1>2, <2>1, InstallRuns
  <2>3. QED
    BY <1>2, <2>1, <2>2 DEF Installs
<1>5. QED
  BY <1>3, <1>4 DEF ArmedInv

LEMMA ArmedStep ==
    ASSUME KnownTypes, PathInv, PipeInv, ArmedInv, [Next]_vars
    PROVE  ArmedInv'
<1>0. TypeInv /\ q \in Queues /\ Len(q.xtq) = hopcount /\ Pool(q, 0)
  BY DEF PathInv, PipeInv, Sound, ArmedInv
<1>1. CASE \E m \in Models : sysctl_hophandle(m)
  <2>1. Emptied /\ q'.timers = q.timers /\ q'.free = q.free /\ q'.blocks = q.blocks
    BY <1>1, HandleEffect DEF sysctl_hophandle
  <2>2. Pool(q', 0)
    BY <1>0, <2>1 DEF Pool
  <2>3. QED
    BY <2>1, <2>2, EmptiedArmed
<1>2. CASE hophandle_table
  <2>1. q' = q /\ hopcount = 0
    BY <1>2 DEF hophandle_table, PipeInv
  <2>2. AllRun(q', hoptable')
    BY <1>0, <2>1 DEF AllRun
  <2>3. QED
    BY <1>0, <2>1, <2>2 DEF ArmedInv, Pool
<1>3. CASE hophandle_hops
  <2>1. PICK s : Filled(s)
    BY <1>0, <1>3, HopsEffect
  <2>2. hoptable' = hoptable
    BY <1>3 DEF hophandle_hops
  <2>3. QED
    BY <2>1, <2>2, FilledArmed
<1>4. CASE \E h \in 1..hopcount, type \in XtqTypes : sysctl_hopmodhandle(h, type)
  <2>1. PICK h \in 1..hopcount, type \in XtqTypes : sysctl_hopmodhandle(h, type)
    BY <1>4
  <2>2. PICK s, e : Modified(s, h, type, e)
    BY <1>0, <2>1, ModEffect
  <2>3. hoptable' = hoptable
    BY <2>1 DEF sysctl_hopmodhandle
  <2>4. QED
    BY <2>2, <2>3, ModArmed
<1>5. CASE hopclock_timer \/ hopclock_end
  <2>1. Kept(q, q') /\ hoptable' = hoptable
    BY <1>0, <1>5, TimerEffect, EndEffect DEF hopclock_timer, hopclock_end
  <2>2. QED
    BY <2>1, KeptArmed
<1>6. CASE MOD_UNLOAD
  <2>1. Emptied /\ q'.timers = <<>> /\ q'.free = 0 /\ q'.blocks = 0 /\ BlockSize \in Nat
    BY <1>6, UnloadEffect, FreeBSDAssumption DEF FreeBSDAssumption
  <2>2. Pool(q', 0)
    BY <2>1 DEF Pool
  <2>3. QED
    BY <2>1, <2>2, EmptiedArmed
<1>7. CASE MOD_LOAD
  BY <1>7, LoadEffect, EmptiedArmed
<1>8. CASE Elsewhere
  <2>1. UNCHANGED <<q, hoptable>>
    BY <1>0, <1>8, ElsewhereStays
  <2>2. QED
    BY <2>1 DEF ArmedInv, Pool, AllRun, Runs, Armed
<1>9. QED
  BY <1>1, <1>2, <1>3, <1>4, <1>5, <1>6, <1>7, <1>8, Steps

\* XTQ_SCHEDULE_HOP, Tq_timeout and Te_timeout: no scheduler is lost, and every XCP pipe
\* keeps both its timers, but for one that could not be scheduled when last tried,
\* through deployments, modifications and reloads, failing allocations of pipes
\* and of blocks, and for every size of the pool.
THEOREM TimersStayAlive ==
    ASSUME KnownTypes
    PROVE  Spec => []TimersAlive
<1>1. Init => ArmedInv
  <2> SUFFICES ASSUME Init PROVE ArmedInv
    OBVIOUS
  <2>1. q.xtq = <<>> /\ Pool(q, 0)
    BY NoneQueued DEF Init
  <2>2. QED
    BY <2>1 DEF ArmedInv, AllRun
<1>2. PathInv /\ PipeInv /\ ArmedInv /\ [Next]_vars => ArmedInv'
  BY ArmedStep
<1>3. PipeInv /\ ArmedInv => TimersAlive
  <2> SUFFICES ASSUME PipeInv, ArmedInv PROVE TimersAlive
    OBVIOUS
  <2>1. q.free \in Nat /\ Len(q.timers) \in Nat /\ q.timers \in Seq(Timers)
    BY QueueFields DEF PipeInv, Sound
  <2>2. q.free + Len(q.timers) = BlockSize * q.blocks
    BY <2>1 DEF ArmedInv, Pool
  <2>3. ASSUME NEW h \in 1..hopcount, NEW kind \in {"Tq", "Te"}, q.xtq[h].pipe
        PROVE  \/ <<h, kind>> \in q.missed
               \/ \E i \in 1..Len(q.timers) : q.timers[i] = Timer(hoptable, h, kind, q.timers[i].left)
    <3>1. Runs(q, hoptable, h, kind)
      BY <2>3 DEF PipeInv, ArmedInv, AllRun, Kinds
    <3>2. ASSUME Armed(q, hoptable, h, kind)
          PROVE  \E i \in 1..Len(q.timers) : q.timers[i] = Timer(hoptable, h, kind, q.timers[i].left)
      <4>1. PICK i \in 1..Len(q.timers) :
              q.timers[i].table = hoptable /\ q.timers[i].hop = h /\ q.timers[i].kind = kind
        BY <3>2 DEF Armed
      <4>2. q.timers[i] \in Timers
        BY <2>1, ElementOf
      <4>3. q.timers[i] = [table |-> q.timers[i].table, hop |-> q.timers[i].hop,
                           kind |-> q.timers[i].kind, left |-> q.timers[i].left]
        BY <4>2 DEF Timers
      <4>4. QED
        BY <4>1, <4>3 DEF Timer
    <3>3. QED
      BY <3>1, <3>2 DEF Runs
  <2>4. QED
    BY <2>2, <2>3 DEF TimersAlive
<1>4. QED
  BY <1>1, <1>2, <1>3, PathInvariant, PipeInvariant, PTL DEF Spec
-----------------------------------------------------------------------------
(* Nothing is used that is not there.                                        *)

\* Nothing is allocated, so that nothing is under way.
LEMMA NoneLive ==
    ASSUME TypeInv, LiveInv, PktInv, UnderWayInv, nodecount = 0
    PROVE  (\A i \in 1..Len(paths) : ~paths[i].live) /\ (pkts = <<>> \/ "model replaced" \in met)
<1>1. \A i \in 1..Len(paths) : ~paths[i].live
  BY DEF LiveInv
<1>2. ASSUME Len(pkts) # 0, "model replaced" \notin met PROVE FALSE
  <2>1. 1 \in 1..Len(pkts)
    <3>1. PICK n \in Nat : n = Len(pkts)
      BY DEF TypeInv
    <3>2. n # 0
      BY <1>2, <3>1
    <3>3. QED
      BY <3>1, <3>2
  <2>2. pkts[1].path \in 1..Len(paths) /\ paths[pkts[1].path].live
    BY <1>2, <2>1 DEF PktInv, OnItsWay, Leads, UnderWayInv
  <2>3. QED
    BY <1>1, <2>2
<1>3. Len(pkts) = 0 => pkts = <<>>
  BY DEF TypeInv
<1>4. QED
  BY <1>1, <1>2, <1>3

LEMMA NothingSafe ==
    ASSUME wild' \subseteq met', \A i \in 1..Len(paths') : ~paths'[i].live,
           pkts' = <<>> \/ "model replaced" \in met', RouteInv', HasPipeInv', LoadingInv'
    PROVE  SafeInv'
<1>1. HopsInv'
  BY DEF HopsInv
<1>2. UnderWayInv'
  <2>1. CASE pkts' = <<>>
    <3>1. Len(<<>>) = 0
      OBVIOUS
    <3>2. Len(pkts') = 0
      BY <2>1, <3>1, Zenon
    <3>3. QED
      BY <3>2 DEF UnderWayInv
  <2>2. CASE "model replaced" \in met'
    BY <2>2 DEF UnderWayInv
  <2>3. QED
    BY <2>1, <2>2
<1>3. QED
  BY <1>1, <1>2 DEF SafeInv

\* The arrays that are freed keep their hops.
LEMMA FreedRoutes ==
    ASSUME PathInv, RouteInv, paths' = freed_paths \/ paths' = paths, met \subseteq met'
    PROVE  RouteInv'
<1>1. TypeInv /\ TableInv /\ LiveInv
  BY DEF PathInv
<1>2. Len(paths') = Len(paths) /\ \A i \in 1..Len(paths) : paths'[i].hops = paths[i].hops
  BY <1>1, AllFreed
<1>3. QED
  BY <1>2 DEF RouteInv

\* What a packet meets that is wrong has been brought about before.
LEMMA FaultsMet ==
    ASSUME PipeInv, SafeInv, NEW p, p.path \in 1..Len(paths),
           paths[p.path].live \/ "model replaced" \in met
    PROVE  Faults(p) \subseteq met
<1> DEFINE hops == {paths[p.path].hops[i] : i \in {p.at, p.at + 1} \cap (1..Len(paths[p.path].hops))}
<1>1. SUFFICES ASSUME NEW c \in Faults(p) PROVE c \in met
  OBVIOUS
<1>2. \/ c = "model replaced" /\ (~paths[p.path].live \/ \E x \in hops : ~InForce(x))
      \/ c = "no pipe" /\ \E x \in hops : InForce(x) /\ Pipeless(x)
      \/ c = "empty route" /\ Len(paths[p.path].hops) = 0
  BY DEF Faults
<1>3. CASE c = "model replaced" /\ (~paths[p.path].live \/ \E x \in hops : ~InForce(x))
  <2>1. CASE paths[p.path].live
    BY <1>3, <2>1 DEF SafeInv, HopsInv, InForce
  <2>2. CASE "model replaced" \in met
    BY <1>3, <2>2
  <2>3. QED
    BY <2>1, <2>2
<1>4. CASE c = "no pipe" /\ \E x \in hops : InForce(x) /\ Pipeless(x)
  BY <1>4 DEF SafeInv, HasPipeInv, InForce, Pipeless
<1>5. CASE c = "empty route" /\ Len(paths[p.path].hops) = 0
  BY <1>5 DEF SafeInv, RouteInv
<1>6. QED
  BY <1>2, <1>3, <1>4, <1>5

\* A packet goes on along its path.
InPlace(ps, i) == i \in 1..Len(ps) /\ (ps[i].live \/ "model replaced" \in met)

LEMMA SafeNextHop ==
    ASSUME PipeInv, SafeInv, NEW p \in Packets, InPlace(paths, p.path),
           NEW calendar \in Seq(Packets), \A i \in 1..Len(calendar) : InPlace(paths, calendar[i].path),
           NEW left, emulate_nexthop(p, calendar, left)
    PROVE  wild' \subseteq met /\ \A i \in 1..Len(pkts') : InPlace(paths, pkts'[i].path)
<1> DEFINE hops == paths[p.path].hops
           next == [p EXCEPT !.at = @ + 1, !.left = left, !.crossed = Append(@, hops[p.at + 1].hop)]
<1>1. Faults(p) \subseteq met
  BY FaultsMet DEF InPlace
<1>2. wild' = wild \cup Faults(p) /\ pkts' \in {calendar, Append(calendar, next)}
  BY DEF emulate_nexthop
<1>3. wild' \subseteq met
  BY <1>1, <1>2 DEF SafeInv
<1>4. next.path = p.path
  BY DEF Packets
<1> HIDE DEF next
<1>5. \A i \in 1..Len(pkts') : InPlace(paths, pkts'[i].path)
  <2>1. CASE pkts' = calendar
    BY <2>1
  <2>2. CASE pkts' = Append(calendar, next)
    <3>1. /\ Len(calendar) \in Nat /\ Len(pkts') = Len(calendar) + 1 /\ pkts'[Len(calendar) + 1] = next
          /\ \A i \in 1..Len(calendar) : pkts'[i] = calendar[i]
      BY <2>2
    <3>2. ASSUME NEW i \in 1..Len(pkts') PROVE i \in 1..Len(calendar) \/ i = Len(calendar) + 1
      BY <3>1
    <3>3. QED
      BY <1>4, <3>1, <3>2
  <2>3. QED
    BY <1>2, <2>1, <2>2
<1>6. QED
  BY <1>3, <1>5

LEMMA LookupLive ==
    ASSUME PathInv, NEW src \in Hosts, NEW dst \in Hosts, lookup_path(src, dst) # 0
    PROVE  lookup_path(src, dst) \in 1..Len(paths) /\ paths[lookup_path(src, dst)].live
<1>1. /\ pathtable # <<>> /\ nodecount \in Nat /\ nodecount # 0 /\ nodecount = admin.model.nodes
      /\ <<src, dst>> \in Pairs(nodecount) /\ src \in Nat /\ dst \in Nat
      /\ lookup_path(src, dst) = pathtable[<<src, dst>>]
  BY LookupCell
<1>2. QED
  BY <1>1 DEF PathInv, CellInv

\* Where the packets' paths are.
LEMMA PacketsInPlace ==
    ASSUME PathInv, SafeInv
    PROVE  /\ pkts \in Seq(Packets) /\ Len(pkts) \in Nat
           /\ \A i \in 1..Len(pkts) : pkts[i] \in Packets /\ InPlace(paths, pkts[i].path)
<1>1. pkts \in Seq(Packets)
  BY DEF PathInv, TypeInv
<1>2. Len(pkts) \in Nat /\ \A i \in 1..Len(pkts) : pkts[i] \in Packets
  BY <1>1
<1>3. \A i \in 1..Len(pkts) : pkts[i].path \in 1..Len(paths)
  BY DEF PathInv, PktInv, OnItsWay, Leads
<1>4. "model replaced" \in met \/ \A i \in 1..Len(pkts) : paths[pkts[i].path].live
  BY DEF SafeInv, UnderWayInv
<1>5. QED
  BY <1>1, <1>2, <1>3, <1>4 DEF InPlace

\* The steps of packets leave the tables alone.
LEMMA PacketsSafe ==
    ASSUME SafeInv, UNCHANGED <<paths, hoptable, hopcount, q, admin, met>>, wild' \subseteq met,
           \A i \in 1..Len(pkts') : InPlace(paths, pkts'[i].path)
    PROVE  SafeInv'
BY DEF SafeInv, HopsInv, UnderWayInv, RouteInv, HasPipeInv, LoadingInv, InPlace

LEMMA FilterSafe ==
    ASSUME PathInv, PipeInv, SafeInv, NEW src \in Hosts, NEW dst \in Hosts, filter_ipinput(src, dst)
    PROVE  SafeInv'
<1> DEFINE p == [path |-> lookup_path(src, dst), at |-> 0, left |-> 0, crossed |-> <<>>,
                 route |-> RouteOf(src, dst)]
<1>1. /\ lookup_path(src, dst) # 0
      /\ UNCHANGED <<paths, hoptable, hopcount, q, admin, met>>
      /\ \E left \in Delays : emulate_nexthop(p, pkts, left)
  BY DEF filter_ipinput
<1>2. PICK left \in Delays : emulate_nexthop(p, pkts, left)
  BY <1>1
<1>3. InPlace(paths, lookup_path(src, dst))
  BY <1>1, LookupLive DEF InPlace
<1>4. RouteOf(src, dst) \in Seq(Nat) /\ lookup_path(src, dst) \in Nat
  <2>1. RouteOf(src, dst) \in Seq(Nat)
    BY <1>1, LookupFinds
  <2>2. lookup_path(src, dst) \in 1..Len(paths)
    BY <1>1, LookupLive
  <2>3. Len(paths) \in Nat
    BY DEF PathInv, TypeInv
  <2>4. QED
    BY <2>1, <2>2, <2>3
<1>5. p \in Packets /\ p.path = lookup_path(src, dst)
  BY <1>4 DEF Packets
<1> HIDE DEF p
<1>6. InPlace(paths, p.path)
  BY <1>3, <1>5
<1>7. wild' \subseteq met /\ \A i \in 1..Len(pkts') : InPlace(paths, pkts'[i].path)
  BY <1>2, <1>5, <1>6, PacketsInPlace, SafeNextHop
<1>8. QED
  BY <1>1, <1>7, PacketsSafe

LEMMA HopclockSafe ==
    ASSUME PathInv, PipeInv, SafeInv, hopclock_packet
    PROVE  SafeInv'
<1>0. /\ pkts \in Seq(Packets) /\ Len(pkts) \in Nat
      /\ \A i \in 1..Len(pkts) : pkts[i] \in Packets /\ InPlace(paths, pkts[i].path)
  BY PacketsInPlace
<1> DEFINE i == First(Due(pkts))
           cal == RemoveAt(pkts, i)
<1>1. /\ Due(pkts) # {} /\ UNCHANGED <<paths, hoptable, hopcount, q, admin, met>>
      /\ \E left \in Delays : emulate_nexthop(pkts[i], cal, left)
  BY DEF hopclock_packet
<1>2. i \in Due(pkts)
  <2>1. Due(pkts) \in SUBSET Nat
    BY <1>0 DEF Due
  <2>2. QED
    BY <1>1, <2>1, FirstIsDue
<1>3. i \in 1..Len(pkts)
  BY <1>2 DEF Due
<1> HIDE DEF i
<1>4. /\ cal \in Seq(Packets)
      /\ \A j \in 1..Len(cal) : \E l \in 1..Len(pkts) : cal[j] = pkts[l]
  BY <1>0, <1>3, Removed
<1> HIDE DEF cal
<1>5. \A j \in 1..Len(cal) : InPlace(paths, cal[j].path)
  BY <1>0, <1>4
<1>6. PICK left \in Delays : emulate_nexthop(pkts[i], cal, left)
  BY <1>1
<1>7. PICK p \in Packets : p = pkts[i] /\ InPlace(paths, p.path)
  BY <1>0, <1>3
<1>8. wild' \subseteq met /\ \A j \in 1..Len(pkts') : InPlace(paths, pkts'[j].path)
  BY <1>4, <1>5, <1>6, <1>7, SafeNextHop
<1>9. QED
  BY <1>1, <1>8, PacketsSafe

\* A step after which every hop with XCP has its pipe, or one is recorded as missing.
LEMMA MissingMet ==
    ASSUME Len(q'.xtq) = hopcount', QueueEvents \subseteq met'
    PROVE  HasPipeInv'
BY DEF HasPipeInv, QueueEvents, PipeMissing

\* The clock changes timers only.
LEMMA ClockSafe ==
    ASSUME PathInv, SafeInv, Rearmed(q, q'), UNCHANGED <<paths, hoptable, hopcount, admin, met>>,
           wild' \subseteq met, Len(pkts') = Len(pkts),
           \A i \in 1..Len(pkts) : pkts'[i].path = pkts[i].path
    PROVE  SafeInv'
<1>1. q'.xtq = q.xtq
  BY DEF Rearmed
<1>2. HopsInv' /\ RouteInv' /\ LoadingInv'
  BY DEF SafeInv, HopsInv, RouteInv, LoadingInv
<1>3. HasPipeInv'
  BY <1>1 DEF SafeInv, HasPipeInv
<1>4. UnderWayInv'
  BY DEF SafeInv, UnderWayInv
<1>5. QED
  BY <1>2, <1>3, <1>4 DEF SafeInv

LEMMA EndSafe ==
    ASSUME PathInv, PipeInv, SafeInv, hopclock_end
    PROVE  SafeInv'
<1>1. /\ UNCHANGED <<paths, hoptable, hopcount, admin, met, wild>>
      /\ pkts' = [i \in 1..Len(pkts) |-> [pkts[i] EXCEPT !.left = pkts[i].left - 1]]
  BY DEF hopclock_end, Later
<1>2. pkts \in Seq(Packets) /\ Len(pkts) \in Nat
  BY DEF PathInv, TypeInv
<1>3. ASSUME NEW i \in 1..Len(pkts) PROVE pkts'[i].path = pkts[i].path
  <2>1. pkts[i] \in Packets
    BY <1>2, ElementOf
  <2>2. PICK l : l = pkts[i].left - 1
    OBVIOUS
  <2>3. pkts'[i] = [pkts[i] EXCEPT !.left = l]
    BY <1>1, <2>2
  <2>4. QED
    BY <2>1, <2>3 DEF Packets
<1>4. Len(pkts') = Len(pkts)
  BY <1>1, <1>2
<1>5. Rearmed(q, q') /\ wild' \subseteq met
  BY <1>1, EndEffect DEF PipeInv, Sound, SafeInv
<1>6. QED
  BY <1>1, <1>3, <1>4, <1>5, ClockSafe

\* A timer uses no pipe that is gone, unless a pipe has gone.
LEMMA TimerSafe ==
    ASSUME PathInv, PipeInv, TimerInv, SafeInv, hopclock_timer
    PROVE  SafeInv'
<1>1. q \in Queues /\ Len(q.xtq) = hopcount
  BY DEF PipeInv, Sound
<1>2. PICK i \in 1..Len(q.timers) : wild' = IF HasPipe(q.timers[i]) THEN wild ELSE wild \cup {"pipe gone"}
  BY <1>1, TimerEffect
<1>3. "pipe gone" \in met \/ HasPipe(q.timers[i])
  BY <1>1 DEF TimerInv, Owned, HasPipe, InForce
<1>4. wild' \subseteq met
  BY <1>2, <1>3 DEF SafeInv
<1>5. Rearmed(q, q') /\ UNCHANGED <<paths, hoptable, hopcount, admin, met, pkts>>
  BY <1>1, TimerEffect DEF hopclock_timer
<1>6. QED
  BY <1>4, <1>5, ClockSafe

\* The hops of a route are in the table of its model.
LEMMA RouteInTable ==
    ASSUME RoutesInRange, TypeInv, NEW r \in admin.routes, NEW j \in 1..Len(r.hops)
    PROVE  r.hops[j] \in 1..Len(admin.model.xtq)
<1>1. r \in admin.model.routes
  BY DEF TypeInv
<1>2. admin.model \in Models
  BY <1>1 DEF TypeInv, NoModel
<1>3. QED
  BY <1>1, <1>2 DEF RoutesInRange

LEMMA PathEntrySafe ==
    ASSUME RoutesInRange, PathInv, SafeInv, NEW r \in admin.routes, NEW fails \in BOOLEAN,
           sysctl_pathentry(r, fails)
    PROVE  SafeInv'
<1>0. /\ TypeInv /\ paths \in Seq(PathArrays) /\ Len(paths) \in Nat
      /\ \A i \in 1..Len(pkts) : InPlace(paths, pkts[i].path)
  BY PacketsInPlace DEF PathInv, TypeInv
<1>1. /\ admin.pc = "routes" /\ UNCHANGED <<hoptable, hopcount, q, pkts, wild>>
      /\ paths' = IF fails THEN paths ELSE Append(paths, PathArray(r))
      /\ met' = met \cup (IF fails \/ r.hops # <<>> THEN {} ELSE {"empty route"})
      /\ admin' = [admin EXCEPT !.routes = @ \ {r},
                                !.pc = IF fails \/ admin.routes = {r} THEN "idle" ELSE @]
  BY DEF sysctl_pathentry
<1>2. admin'.model = admin.model
  BY <1>0, <1>1 DEF TypeInv
<1>3. hopcount = Len(admin.model.xtq)
  BY <1>1 DEF SafeInv, LoadingInv
<1>4. HasPipeInv' /\ LoadingInv' /\ wild' \subseteq met' /\ met \subseteq met'
  BY <1>1, <1>2, <1>3 DEF SafeInv, HasPipeInv, LoadingInv
<1>5. CASE fails
  BY <1>1, <1>4, <1>5 DEF SafeInv, HopsInv, UnderWayInv, RouteInv
<1>6. CASE ~fails
  <2>1. PICK a : a = PathArray(r)
    OBVIOUS
  <2>2. /\ Len(paths') = Len(paths) + 1 /\ paths'[Len(paths) + 1] = a
        /\ \A i \in 1..Len(paths) : paths'[i] = paths[i]
    <3>1. paths \in Seq(PathArrays) /\ Len(paths) \in Nat /\ paths' = Append(paths, a)
      BY <1>0, <1>1, <1>6, <2>1
    <3>2. QED
      BY <3>1
  <2>3. r.hops \in Seq(Nat)
    BY <1>0, ModelOf DEF TypeInv
  <2>4. a.hops = [i \in 1..Len(r.hops) |-> [table |-> hoptable, hop |-> r.hops[i]]]
    BY <2>1 DEF PathArray
  <2>5. Len(a.hops) = Len(r.hops)
    BY <2>3, <2>4
  <2>6. ASSUME NEW j \in 1..Len(a.hops) PROVE a.hops[j].table = hoptable /\ a.hops[j].hop \in 1..hopcount
    <3>1. a.hops[j].table = hoptable /\ a.hops[j].hop = r.hops[j] /\ j \in 1..Len(r.hops)
      BY <2>4, <2>5
    <3>2. QED
      BY <1>0, <1>3, <3>1, RouteInTable
  <2>7. ASSUME NEW i \in 1..Len(paths') PROVE i = Len(paths) + 1 \/ i \in 1..Len(paths)
    BY <1>0, <2>2
  <2>8. HopsInv'
    <3> SUFFICES ASSUME NEW i \in 1..Len(paths'), paths'[i].live, NEW j \in 1..Len(paths'[i].hops)
                 PROVE  paths'[i].hops[j].table = hoptable /\ paths'[i].hops[j].hop \in 1..hopcount
      BY <1>1 DEF HopsInv
    <3>1. CASE i = Len(paths) + 1
      BY <2>2, <2>6, <3>1
    <3>2. CASE i \in 1..Len(paths)
      BY <2>2, <3>2 DEF SafeInv, HopsInv
    <3>3. QED
      BY <2>7, <3>1, <3>2
  <2>9. RouteInv'
    <3>1. CASE "empty route" \in met'
      BY <3>1 DEF RouteInv
    <3>2. CASE "empty route" \notin met'
      <4>1. r.hops # <<>> /\ "empty route" \notin met
        BY <1>1, <1>6, <3>2
      <4>2. Len(a.hops) # 0
        <5>1. Len(r.hops) = 0 => r.hops = <<>>
          BY <2>3
        <5>2. QED
          BY <2>5, <4>1, <5>1
      <4>3. \A i \in 1..Len(paths) : Len(paths[i].hops) # 0
        BY <4>1 DEF SafeInv, RouteInv
      <4>4. QED
        BY <2>2, <2>7, <4>2, <4>3 DEF RouteInv
    <3>3. QED
      BY <3>1, <3>2
  <2>10. UnderWayInv'
    <3>1. \A i \in 1..Len(pkts) : InPlace(paths, pkts[i].path) /\ paths'[pkts[i].path] = paths[pkts[i].path]
      BY <1>0, <2>2 DEF InPlace
    <3>2. QED
      BY <1>1, <1>4, <3>1 DEF UnderWayInv, InPlace
  <2>11. QED
    BY <1>4, <2>8, <2>9, <2>10 DEF SafeInv
<1>7. QED
  BY <1>5, <1>6

LEMMA SafeStep ==
    ASSUME KnownTypes, RoutesInRange, PathInv, PipeInv, TimerInv, SafeInv, [Next]_vars
    PROVE  SafeInv'
<1>0. /\ TypeInv /\ TableInv /\ LiveInv /\ PktInv /\ q \in Queues
      /\ Len(q.xtq) = hopcount /\ Len(paths) \in Nat
      /\ wild \subseteq met /\ UnderWayInv /\ RouteInv /\ HasPipeInv /\ LoadingInv
  BY DEF PathInv, PipeInv, Sound, SafeInv, TypeInv
<1>p. Len(q'.xtq) = hopcount'
  BY PipeStep DEF PipeInv
<1>1. CASE \E m \in Models : sysctl_hophandle(m)
  <2>1. PICK m \in Models : sysctl_hophandle(m)
    BY <1>1
  <2>2. /\ paths' = freed_paths /\ UNCHANGED <<pkts, wild>>
        /\ admin' = [pc |-> "table", model |-> m, routes |-> m.routes]
        /\ met' = met \cup QueueEvents \cup (IF pkts = <<>> THEN {} ELSE {"model replaced"})
    BY <2>1 DEF sysctl_hophandle, uninit_paths, free_path
  <2>3. \A i \in 1..Len(paths') : ~paths'[i].live
    BY <1>0, <2>2, AllFreed
  <2>4. RouteInv' /\ HasPipeInv' /\ LoadingInv'
    BY <1>0, <1>p, <2>2, FreedRoutes, MissingMet DEF LoadingInv
  <2>5. QED
    BY <1>0, <2>2, <2>3, <2>4, NothingSafe
<1>2. CASE hophandle_table \/ hophandle_hops
  <2>1. /\ UNCHANGED <<paths, pkts, wild>> /\ admin.pc \in {"table", "hops"} /\ met \subseteq met'
        /\ hophandle_table => admin' = [admin EXCEPT !.pc = "hops"] /\ UNCHANGED <<q, hopcount, met>>
        /\ hophandle_hops => /\ admin' = [admin EXCEPT !.pc = "nodes"] /\ hopcount' = Len(admin.model.xtq)
                             /\ QueueEvents \subseteq met'
    BY <1>2 DEF hophandle_table, hophandle_hops
  <2>2. nodecount = 0
    BY <1>0, <2>1 DEF TableInv
  <2>3. (\A i \in 1..Len(paths) : ~paths[i].live) /\ (pkts = <<>> \/ "model replaced" \in met)
    BY <1>0, <2>2, NoneLive
  <2>4. LoadingInv'
    BY <1>0, <1>2, <2>1, AdminFields DEF LoadingInv
  <2>5. RouteInv'
    BY <1>0, <2>1, FreedRoutes
  <2>6. HasPipeInv'
    <3>1. CASE hophandle_table
      BY <1>0, <2>1, <3>1 DEF HasPipeInv
    <3>2. CASE hophandle_hops
      BY <1>p, <2>1, <3>2, MissingMet
    <3>3. QED
      BY <1>2, <3>1, <3>2
  <2>7. QED
    BY <1>0, <2>1, <2>3, <2>4, <2>5, <2>6, NothingSafe
<1>3. CASE write_nodetable
  <2>1. /\ UNCHANGED <<q, paths, pkts, hoptable, hopcount, met, wild>> /\ admin.pc = "nodes"
        /\ admin' = [admin EXCEPT !.pc = "count"]
    BY <1>3 DEF write_nodetable
  <2>2. admin'.model = admin.model
    BY <1>0, <2>1, AdminFields
  <2>3. LoadingInv'
    BY <1>0, <2>1, <2>2 DEF LoadingInv
  <2>4. QED
    BY <2>1, <2>3 DEF SafeInv, HopsInv, UnderWayInv, RouteInv, HasPipeInv
<1>4. CASE sysctl_nodecount
  <2>1. /\ UNCHANGED <<q, pkts, hoptable, hopcount, met, wild>> /\ admin.pc = "count"
        /\ admin' = [admin EXCEPT !.pc = IF admin.routes = {} THEN "idle" ELSE "routes"]
        /\ paths' = paths \/ paths' = freed_paths
    BY <1>4 DEF sysctl_nodecount
  <2>2. admin'.model = admin.model /\ hopcount = Len(admin.model.xtq)
    BY <1>0, <2>1, AdminFields DEF LoadingInv
  <2>3. nodecount = 0
    BY <1>0, <2>1 DEF TableInv
  <2>4. (\A i \in 1..Len(paths) : ~paths[i].live) /\ (pkts = <<>> \/ "model replaced" \in met)
    BY <1>0, <2>3, NoneLive
  <2>5. \A i \in 1..Len(paths') : ~paths'[i].live
    BY <1>0, <2>1, <2>4, AllFreed
  <2>6. RouteInv' /\ HasPipeInv' /\ LoadingInv'
    BY <1>0, <2>1, <2>2, FreedRoutes DEF HasPipeInv, LoadingInv
  <2>7. QED
    BY <1>0, <2>1, <2>4, <2>5, <2>6, NothingSafe
<1>5. CASE \E r \in admin.routes, fails \in BOOLEAN : sysctl_pathentry(r, fails)
  BY <1>5, PathEntrySafe
<1>6. CASE \E h \in 1..hopcount, type \in XtqTypes : sysctl_hopmodhandle(h, type)
  <2>1. /\ UNCHANGED <<paths, pkts, hoptable, hopcount, wild, admin>>
        /\ met \subseteq met' /\ QueueEvents \subseteq met'
    BY <1>6 DEF sysctl_hopmodhandle
  <2>2. HasPipeInv'
    BY <1>p, <2>1, MissingMet
  <2>3. QED
    BY <2>1, <2>2 DEF SafeInv, HopsInv, UnderWayInv, RouteInv, LoadingInv
<1>7. CASE \E src, dst \in Hosts : filter_ipinput(src, dst)
  BY <1>7, FilterSafe
<1>8. CASE hopclock_packet
  BY <1>8, HopclockSafe
<1>9. CASE hopclock_timer
  BY <1>9, TimerSafe
<1>10. CASE hopclock_end
  BY <1>10, EndSafe
<1>11. CASE MOD_UNLOAD
  <2>1. /\ paths' = freed_paths /\ pkts' = <<>> /\ UNCHANGED <<wild, met, admin>> /\ admin.pc = "idle"
        /\ hopcount' = 0
    BY <1>11 DEF MOD_UNLOAD, free_path
  <2>2. \A i \in 1..Len(paths') : ~paths'[i].live
    BY <1>0, <2>1, AllFreed
  <2>3. RouteInv'
    BY <1>0, <2>1, FreedRoutes
  <2>4. HasPipeInv' /\ LoadingInv'
    BY <2>1 DEF HasPipeInv, LoadingInv
  <2>5. QED
    BY <1>0, <2>1, <2>2, <2>3, <2>4, NothingSafe
<1>12. CASE MOD_LOAD
  <2>1. UNCHANGED <<paths, pkts, hoptable, hopcount, wild, met, admin>> /\ hopcount = 0
    BY <1>12 DEF MOD_LOAD, PipeInv
  <2>2. HasPipeInv'
    BY <2>1 DEF HasPipeInv
  <2>3. QED
    BY <2>1, <2>2 DEF SafeInv, HopsInv, UnderWayInv, RouteInv, LoadingInv
<1>13. CASE UNCHANGED vars
  BY <1>13 DEF vars, SafeInv, HopsInv, UnderWayInv, RouteInv, HasPipeInv, LoadingInv
<1>14. QED
  BY <1>1, <1>2, <1>3, <1>4, <1>5, <1>6, <1>7, <1>8, <1>9, <1>10, <1>11, <1>12, <1>13, Steps
  DEF Elsewhere

\* lookup_path, emulate_nexthop and the timers of XCP: no path array, hop or pipe is used that has
\* been freed or not been set up, but after what takes it away: a model replaced with
\* packets under way, a pipe taken from a hop that goes on without, a pipe that was not
\* allocated, a route without hops.  What modelload is given has known queue types, and
\* its routes use hops of the model.
THEOREM NothingWild ==
    ASSUME KnownTypes, RoutesInRange
    PROVE  Spec => []NoWildAccess
<1>1. Init => SafeInv
  BY DEF Init, SafeInv, HopsInv, UnderWayInv, RouteInv, HasPipeInv, LoadingInv
<1>2. PathInv /\ PipeInv /\ TimerInv /\ SafeInv /\ [Next]_vars => SafeInv'
  BY SafeStep
<1>3. SafeInv => NoWildAccess
  BY DEF SafeInv, NoWildAccess
<1>4. QED
  BY <1>1, <1>2, <1>3, PathInvariant, PipeInvariant, TimerInvariant, PTL DEF Spec
=============================================================================
