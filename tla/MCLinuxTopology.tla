--------------------------- MODULE MCLinuxTopology ---------------------------
(* An instance of LinuxTopology for TLC: three deployments, of one, two and    *)
(* again two nodes.                                                         *)
EXTENDS LinuxTopology

CONSTANTS a1, a2

TwoAddrs == <<a1, a2>>
\* One node, whose packets come back to it; then two nodes and two hops;
\* then the same nodes on the other addresses, with a single route.
ThreeModels ==
    <<[nodecount |-> 1, hopcount |-> 1,
       nodetable |-> [a \in {a1, a2} |-> IF a = a1 THEN -1 ELSE 0],
       routes    |-> <<[src |-> 0, dst |-> 0, hops |-> <<0>>]>>],
      [nodecount |-> 2, hopcount |-> 2,
       nodetable |-> [a \in {a1, a2} |-> IF a = a1 THEN 0 ELSE 1],
       routes    |-> <<[src |-> 0, dst |-> 1, hops |-> <<0, 1>>],
                       [src |-> 1, dst |-> 0, hops |-> <<1>>]>>],
      [nodecount |-> 2, hopcount |-> 1,
       nodetable |-> [a \in {a1, a2} |-> IF a = a1 THEN 1 ELSE 0],
       routes    |-> <<[src |-> 0, dst |-> 1, hops |-> <<0>>]>>]>>
=============================================================================
