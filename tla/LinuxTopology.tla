---------------------------- MODULE LinuxTopology ----------------------------
(***************************************************************************)
(* The topology tables of the Linux kernel module (mn_pathtable.c): hops,   *)
(* nodes and paths, written by modelload through four /proc handlers in a   *)
(* fixed order, and read by every packet.                                   *)
(*                                                                          *)
(* modelload does not look at the result of a write, so after an error it   *)
(* simply goes on with the next one.  The handlers take no lock and keep no *)
(* interrupt out, so a packet can be handled between any two of their       *)
(* statements.  It looks its path up when it arrives and then keeps a       *)
(* pointer into the path array until it has crossed the last hop.           *)
(*                                                                          *)
(* A handler is a sequence of actions, cut where it makes something visible *)
(* to a packet or can fail.  A failure is a choice of the environment.      *)
(***************************************************************************)
EXTENDS Integers, Sequences, FiniteSets

CONSTANTS Models,    \* the model and route files that are deployed, in order:
                     \* [nodecount, nodetable, hopcount, routes]
          AddrSeq,   \* the addresses, in the order nodetable is written
          Pkts,      \* packets
          Null,      \* a null pointer
          Garbage,   \* memory that kmalloc has not cleared
          Wild       \* what a read of garbage or of freed memory returns

Addrs == {AddrSeq[k] : k \in DOMAIN AddrSeq}

\* A path array is known by <<load, src, dst>>.  A row of pathtable with n columns,
\* and a table of n such rows.
PathIds == Nat \X Nat \X Nat
Row(n) == [0..(n - 1) -> PathIds \cup {Null}]
Tables(n) == [freed : BOOLEAN, rows : [0..(n - 1) -> Row(n) \cup {Garbage}]]

\* allpairs writes one route for each pair of nodes.
ASSUME TopologyAssumption ==
    /\ AddrSeq \in Seq(Addrs)
    /\ Len(Models) \in Nat /\ DOMAIN Models = 1..Len(Models)
    /\ \A m \in DOMAIN Models :
          LET model  == Models[m]
              routes == model.routes
          IN  /\ model.nodecount \in Nat /\ model.hopcount \in Nat
              /\ model.nodetable \in [Addrs -> -1..(model.nodecount - 1)]
              /\ Len(routes) \in Nat /\ DOMAIN routes = 1..Len(routes)
              /\ \A r \in DOMAIN routes :
                    /\ {routes[r].src, routes[r].dst} \subseteq 0..(model.nodecount - 1)
                    /\ routes[r].hops \in Seq(0..(model.hopcount - 1))
              /\ \A r, t \in DOMAIN routes :
                    routes[r].src = routes[t].src /\ routes[r].dst = routes[t].dst => r = t

\* Null, Garbage and Wild are no values of the program.
ASSUME MarkerAssumption ==
    /\ Null # Wild
    /\ Null \notin Int /\ Wild \notin Int
    /\ Null \notin PathIds /\ Wild \notin PathIds
    /\ Null \notin [gen : Nat, ready : Nat]
    /\ \A m \in DOMAIN Models :
          Null \notin Tables(Models[m].nodecount) /\ Garbage \notin Row(Models[m].nodecount)

VARIABLES
    load,       \* how many times modelload has been started
    pc, k,      \* where modelload or the handler it called is; its loop index
    hoptable,   \* Null or [gen, ready]: whose hops, how many are initialised
    hopcount,
    nodetable,  \* address -> node, or -1
    nodecount,
    pathtable,  \* Null or [freed, rows]; a row is Garbage or node -> path
    path,       \* the path arrays ever allocated, by <<load, src, dst>>:
                \* [mem, gen, hops], mem one of "garbage", "live", "freed"
    pkt,        \* packet -> its state, and what has come in its way (history):
                \* met, a set of "handler", "oldnode", "free"
    hoperr      \* a write of hoptable has failed (history)

vars == <<load, pc, k, hoptable, hopcount, nodetable, nodecount, pathtable, path,
          pkt, hoperr>>
tables == <<hoptable, hopcount, nodetable, nodecount, pathtable, path, hoperr>>

New == [st |-> "new"]

Init == /\ load = 0 /\ pc = "idle" /\ k = 0
        /\ hoptable = Null /\ hopcount = 0
        /\ nodetable = [a \in Addrs |-> 0]
        /\ nodecount = 0
        /\ pathtable = Null
        /\ path = << >>
        /\ pkt = [p \in Pkts |-> New]
        /\ hoperr = FALSE

Model == Models[load]

\* The points between two writes, where no handler is active.
InHandler == pc \notin {"idle", "nodetable", "nodecount", "pathentry"}
-----------------------------------------------------------------------------
(* Packets.                                                                   *)

\* lookup_path.
lookup_path(src, dst) ==
    LET s == nodetable[src]
        d == nodetable[dst]
    IN  IF s = -1 \/ d = -1 \/ pathtable = Null THEN Null
        ELSE IF pathtable.freed \/ s \notin DOMAIN pathtable.rows THEN Wild
        ELSE IF pathtable.rows[s] = Garbage \/ d \notin DOMAIN pathtable.rows
             THEN Wild
        ELSE pathtable.rows[s][d]

\* *pkt->path when n hops have been crossed: a hop, Null behind the last one.
\* A hop can only be used when its table is there and its arrays are allocated.
CurHop(id, n) ==
    IF path[id].mem # "live" THEN Wild
    ELSE IF n >= Len(path[id].hops) THEN Null
    ELSE IF hoptable # Null
         THEN IF hoptable.gen = path[id].gen /\ path[id].hops[n + 1] < hoptable.ready
              THEN path[id].hops[n + 1] ELSE Wild
         ELSE Wild

\* emulate_nexthop for a packet: forward it, or let it cross the next hop.
nexthop(q) ==
    LET h == CurHop(q.id, Len(q.crossed))
    IN  IF h = Wild THEN [q EXCEPT !.st = "wild"]
        ELSE IF h = Null THEN [q EXCEPT !.st = "forwarded"]
        ELSE [q EXCEPT !.st = "crossing", !.crossed = Append(q.crossed, h)]

\* What a packet comes across that looks up src and dst: an entry that the handler
\* it interrupts is in the middle of making or taking away, and a node that is not
\* of the model in force because its write has failed.
Route == Model.routes[k + 1]
Met(src, dst) ==
    {w \in {"handler", "oldnode"} :
        \/ /\ w = "handler"
           /\ \/ pc \in {"forget", "forgetpaths", "newrow", "undo"}
              \/ /\ pc \in {"clear", "fill"}
                 /\ nodetable[src] = Route.src /\ nodetable[dst] = Route.dst
        \/ /\ w = "oldnode"
           /\ \/ nodetable[src] # Model.nodetable[src]
              \/ nodetable[dst] # Model.nodetable[dst]}

\* filter_ipinput and emulate_path, at any time.
filter_ipinput(p, src, dst) ==
    /\ pkt[p] = New
    /\ LET id == lookup_path(src, dst)
           q  == [st |-> "new", src |-> src, dst |-> dst, load |-> load, id |-> id,
                  crossed |-> << >>, met |-> Met(src, dst)]
       IN  \/ id = Null /\ pkt' = [pkt EXCEPT ![p] = [st |-> "passed"]]
           \/ id = Wild /\ pkt' = [pkt EXCEPT ![p] = [q EXCEPT !.st = "wild"]]
           \/ id \notin {Null, Wild} /\ pkt' = [pkt EXCEPT ![p] = nexthop(q)]
    /\ UNCHANGED <<load, pc, k, tables>>

\* hopclock, for one packet.
hopclock(p) ==
    /\ pkt[p].st = "crossing"
    /\ pkt' = [pkt EXCEPT ![p] = nexthop(pkt[p])]
    /\ UNCHANGED <<load, pc, k, tables>>
-----------------------------------------------------------------------------
(* modelload: hoptable, nodetable, nodecount, then one pathentry per route.  *)

\* A handler ends with the write that modelload makes next.
Return(next) == pc' = next /\ k' = 0
Goto(next, n) == pc' = next /\ k' = n

\* The packets under way lose what they stand on.
FreedUnder == pkt' = [p \in Pkts |->
                        IF pkt[p].st = "crossing"
                        THEN [pkt[p] EXCEPT !.met = pkt[p].met \cup {"free"}] ELSE pkt[p]]

\* Variant with a fault: the loops over the table end one row early.
FreePaths_short(n) ==
    /\ path' = [id \in DOMAIN path |->
                  IF pathtable # Null /\ \E s, d \in 0..(n - 2) : pathtable.rows[s][d] = id
                  THEN [path[id] EXCEPT !.mem = "freed"] ELSE path[id]]
    /\ pathtable' = IF pathtable # Null /\ n # 0
                    THEN [pathtable EXCEPT !.freed = TRUE] ELSE pathtable
    /\ FreedUnder

\* free_path, for a table of n nodes: free the arrays ...
FreePaths(n) ==
    /\ path' = [id \in DOMAIN path |->
                  IF pathtable # Null /\ \E s, d \in 0..(n - 1) : pathtable.rows[s][d] = id
                  THEN [path[id] EXCEPT !.mem = "freed"] ELSE path[id]]
    /\ pathtable' = IF pathtable # Null /\ n # 0
                    THEN [pathtable EXCEPT !.freed = TRUE] ELSE pathtable
    /\ FreedUnder
\* Variant with a fault: the count is not reset.
ForgetPaths_count == pathtable' = Null /\ UNCHANGED nodecount

\* ... and forget them.
ForgetPaths == pathtable' = Null /\ nodecount' = 0

\* modelload starts with proc_hophandle, whether or not packets are under way.
\* The copy of the user's table can fail first.
proc_hophandle ==
    /\ pc = "idle" /\ load < Len(Models)
    /\ load' = load + 1
    /\ \/ hoperr' = TRUE /\ Return("nodetable") /\ UNCHANGED <<path, pathtable, pkt>>
       \/ FreePaths(nodecount) /\ Goto("forget", 0) /\ UNCHANGED hoperr
    /\ UNCHANGED <<hoptable, hopcount, nodetable, nodecount>>

\* Variant with a fault: the hop table is replaced and the paths are kept.
hop_forget_paths_not ==
    /\ pc = "forget"
    /\ pathtable' = IF pathtable = Null THEN Null ELSE [pathtable EXCEPT !.freed = FALSE]
    /\ Goto("drophops", 0)
    /\ UNCHANGED <<load, hoptable, hopcount, nodetable, nodecount, path, pkt, hoperr>>

hop_forget_paths ==
    /\ pc = "forget"
    /\ ForgetPaths /\ Goto("drophops", 0)
    /\ UNCHANGED <<load, hoptable, hopcount, nodetable, path, pkt, hoperr>>

hop_drop_table ==
    /\ pc = "drophops"
    /\ hoptable' = Null /\ hopcount' = 0
    /\ Goto("newhops", 0)
    /\ UNCHANGED <<load, nodetable, nodecount, pathtable, path, pkt, hoperr>>

hop_new_table ==
    /\ pc = "newhops"
    /\ \/ hoperr' = TRUE /\ Return("nodetable") /\ UNCHANGED <<hoptable, hopcount>>
       \/ /\ hoptable' = [gen |-> load, ready |-> 0] /\ hopcount' = Model.hopcount
          /\ Goto("inithop", 0)
          /\ UNCHANGED hoperr
    /\ UNCHANGED <<load, nodetable, nodecount, pathtable, path, pkt>>

hop_init ==
    /\ pc = "inithop"
    /\ \/ k = hopcount /\ Return("nodetable") /\ UNCHANGED <<hoptable, hoperr>>
       \/ /\ k < hopcount
          /\ hoptable' = [hoptable EXCEPT !.ready = k + 1]
          /\ Goto("inithop", k + 1)
          /\ UNCHANGED hoperr
       \/ k < hopcount /\ hoperr' = TRUE /\ Return("nodetable") /\ UNCHANGED hoptable
    /\ UNCHANGED <<load, hopcount, nodetable, nodecount, pathtable, path, pkt>>

\* proc_nodetable, once for each piece of the table.  When a piece is refused or
\* cannot be copied the rest is not written either; a copy that fails half-way
\* clears what it has not copied.
proc_nodetable ==
    /\ pc = "nodetable"
    /\ \/ /\ k < Len(AddrSeq)
          /\ nodetable' = [nodetable EXCEPT ![AddrSeq[k + 1]] = Model.nodetable[AddrSeq[k + 1]]]
          /\ Goto("nodetable", k + 1)
       \/ Return("nodecount") /\ UNCHANGED nodetable
       \/ /\ k < Len(AddrSeq)
          /\ nodetable' = [nodetable EXCEPT ![AddrSeq[k + 1]] = 0]
          /\ Return("nodecount")
    /\ UNCHANGED <<load, hoptable, hopcount, nodecount, pathtable, path, pkt, hoperr>>

\* proc_nodecount: nothing to do when the count stays the same or cannot be read;
\* otherwise the old paths go, which takes the old count ...
proc_nodecount ==
    /\ pc = "nodecount"
    /\ \/ Return("pathentry") /\ UNCHANGED <<path, pathtable, pkt>>
       \/ Model.nodecount # nodecount /\ FreePaths(nodecount) /\ Goto("forgetpaths", 0)
    /\ UNCHANGED <<load, hoptable, hopcount, nodetable, nodecount, hoperr>>

count_forget_paths ==
    /\ pc = "forgetpaths"
    /\ ForgetPaths /\ Goto("newtable", 0)
    /\ UNCHANGED <<load, hoptable, hopcount, nodetable, path, pkt, hoperr>>

\* ... and a new table is allocated, which is visible at once,
count_new_table ==
    /\ pc = "newtable"
    /\ \/ Return("pathentry") /\ UNCHANGED <<nodecount, pathtable>>
       \/ /\ nodecount' = Model.nodecount
          /\ pathtable' = [freed |-> FALSE,
                           rows  |-> [s \in 0..(Model.nodecount - 1) |-> Garbage]]
          /\ Goto("newrow", 0)
    /\ UNCHANGED <<load, hoptable, hopcount, nodetable, path, pkt, hoperr>>

\* and its rows one by one.  When one cannot be allocated the table is freed, except
\* behind the first row, where the count it is freed with is 0 ...
count_new_row ==
    /\ pc = "newrow"
    /\ \/ k = nodecount /\ Return("pathentry") /\ UNCHANGED <<nodecount, pathtable>>
       \/ /\ k < nodecount
          /\ pathtable' = [pathtable EXCEPT !.rows[k] = [d \in 0..(nodecount - 1) |-> Null]]
          /\ Goto("newrow", k + 1)
          /\ UNCHANGED nodecount
       \/ /\ k < nodecount
          /\ pathtable' = [pathtable EXCEPT !.freed = (k # 1)]
          /\ Goto("undo", 0)
          /\ UNCHANGED nodecount
    /\ UNCHANGED <<load, hoptable, hopcount, nodetable, path, pkt, hoperr>>

\* ... and forgotten.
count_undo ==
    /\ pc = "undo"
    /\ ForgetPaths /\ Return("pathentry")
    /\ UNCHANGED <<load, hoptable, hopcount, nodetable, path, pkt, hoperr>>

Entry == <<load, Route.src, Route.dst>>

\* The table with e in the place of the route.
Written(e) == [pathtable EXCEPT !.rows[Route.src][Route.dst] = e]

\* proc_pathentry for the next route: refused without tables or with a node
\* beyond the count; the copy of the hops can fail, and so can the array.
proc_pathentry ==
    /\ pc = "pathentry" /\ k < Len(Model.routes)
    /\ LET ok == /\ pathtable # Null /\ hoptable # Null
                 /\ Route.src <= nodecount /\ Route.dst <= nodecount
       IN  \/ Goto("pathentry", k + 1) /\ UNCHANGED <<path, pathtable>>
           \/ /\ ok
              /\ pathtable' = Written(Null)
              /\ Goto("pathentry", k + 1)
              /\ UNCHANGED path
           \/ /\ ok
              /\ pathtable' = Written(Entry)
              /\ path' = [id \in DOMAIN path \cup {Entry} |->
                            IF id = Entry
                            THEN [mem |-> "garbage", gen |-> hoptable.gen, hops |-> << >>]
                            ELSE path[id]]
              /\ Goto("clear", k)
    /\ UNCHANGED <<load, hoptable, hopcount, nodetable, nodecount, pkt, hoperr>>

entry_clear ==
    /\ pc = "clear"
    /\ path' = [path EXCEPT ![Entry].mem = "live"]
    /\ Goto("fill", k)
    /\ UNCHANGED <<load, hoptable, hopcount, nodetable, nodecount, pathtable, pkt, hoperr>>

\* Variant with a fault: the loop ends one hop early.
entry_fill_short ==
    /\ pc = "fill"
    /\ LET hops == path[Entry].hops
       IN  IF Len(hops) < Len(Route.hops) - 1
           THEN /\ path' = [path EXCEPT ![Entry].hops =
                              Append(hops, Route.hops[Len(hops) + 1])]
                /\ Goto("fill", k)
           ELSE Goto("pathentry", k + 1) /\ UNCHANGED path
    /\ UNCHANGED <<load, hoptable, hopcount, nodetable, nodecount, pathtable, pkt, hoperr>>

entry_fill ==
    /\ pc = "fill"
    /\ LET hops == path[Entry].hops
       IN  IF Len(hops) < Len(Route.hops)
           THEN /\ path' = [path EXCEPT ![Entry].hops =
                              Append(hops, Route.hops[Len(hops) + 1])]
                /\ Goto("fill", k)
           ELSE Goto("pathentry", k + 1) /\ UNCHANGED path
    /\ UNCHANGED <<load, hoptable, hopcount, nodetable, nodecount, pathtable, pkt, hoperr>>

loaded == /\ pc = "pathentry" /\ k = Len(Model.routes)
          /\ pc' = "idle" /\ k' = 0
          /\ UNCHANGED <<load, tables, pkt>>

Next == \/ loaded
        \/ proc_hophandle \/ hop_forget_paths \/ hop_drop_table \/ hop_new_table \/ hop_init
        \/ proc_nodetable
        \/ proc_nodecount \/ count_forget_paths \/ count_new_table \/ count_new_row \/ count_undo
        \/ proc_pathentry \/ entry_clear \/ entry_fill
        \/ \E p \in Pkts, src, dst \in Addrs : filter_ipinput(p, src, dst)
        \/ \E p \in Pkts : hopclock(p)

Spec == Init /\ [][Next]_vars
-----------------------------------------------------------------------------
\* The tables have the sizes their counts say: free_path resets nodecount with
\* pathtable, and proc_hophandle sets hopcount with hoptable.
TypeOK ==
    /\ load \in 0..Len(Models) /\ k \in Nat
    /\ hoptable # Null => hoptable.gen \in 1..load /\ hoptable.ready \in 0..hopcount
    /\ nodetable \in [Addrs -> Int]
    /\ nodecount = IF pathtable = Null THEN 0 ELSE Cardinality(DOMAIN pathtable.rows)
    /\ pathtable # Null => pathtable.freed \in BOOLEAN
    /\ \A id \in DOMAIN path : path[id].mem \in {"garbage", "live", "freed"}
    /\ \A p \in Pkts : pkt[p].st \in {"new", "passed", "crossing", "forwarded", "wild"}

\* lookup_path and emulate_nexthop never read a row, a path or a hop that is not
\* there yet or no longer there, whatever the handlers do meanwhile and whichever
\* allocation or later write fails, unless the packet found exactly the entry a
\* handler was at work on, a node whose write has failed, or was under way when
\* the tables were freed.
NoWildAccess == ~hoperr => \A p \in Pkts : pkt[p].st = "wild" => pkt[p].met # {}

\* End to end, from the route file to the wire: a packet that is forwarded and met
\* none of these has crossed exactly the hops the model in force when it arrived
\* gives for its two addresses.
FollowsRoute ==
    \A p \in Pkts :
        ~hoperr /\ pkt[p].st = "forwarded" => pkt[p].met # {} \/
            LET m == Models[pkt[p].load]
            IN  \E r \in DOMAIN m.routes :
                   /\ m.routes[r].src = m.nodetable[pkt[p].src]
                   /\ m.routes[r].dst = m.nodetable[pkt[p].dst]
                   /\ m.routes[r].hops = pkt[p].crossed

\* free_path and proc_pathentry: between two writes every path array that has not been freed is in the table,
\* and what is in the table belongs to the hops that are loaded: a new hop table
\* takes all the old paths with it.
TableOwnsPaths ==
    ~hoperr /\ ~InHandler =>
        /\ \A id \in DOMAIN path : path[id].mem = "live" =>
              pathtable # Null /\ pathtable.rows[id[2]][id[3]] = id
        /\ pathtable # Null => ~pathtable.freed
        /\ pathtable # Null => \A s, d \in DOMAIN pathtable.rows :
              LET id == pathtable.rows[s][d]
              IN  id # Null => path[id].mem = "live" /\ path[id].gen = hoptable.gen

\* What the comment in proc_nodecount takes for granted: interrupts are disabled, so
\* no packet comes in the middle of a handler.
InterruptsDisabled == ~hoperr => \A p \in Pkts : pkt[p].st = "wild" => "handler" \notin pkt[p].met
=============================================================================
