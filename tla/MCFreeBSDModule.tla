-------------------------- MODULE MCFreeBSDModule --------------------------
(***************************************************************************)
(* Two small models: one has a route without hops, the other an XCP link.   *)
(***************************************************************************)
EXTENDS FreeBSDModule

Route(src, dst, hops) == [src |-> src, dst |-> dst, hops |-> hops]

MCModels ==
    {[xtq |-> <<0, 0>>, nodes |-> 2, routes |-> {Route(0, 1, <<1, 2>>), Route(1, 0, <<>>)}],
     [xtq |-> <<2, 1>>, nodes |-> 2, routes |-> {Route(0, 1, <<2, 1>>)}]}
=============================================================================
