-------------------------- MODULE MCClientLibrary --------------------------
(***************************************************************************)
(* Two virtual nodes, one outside name, all in one slot of the cache.           *)
(***************************************************************************)
EXTENDS ClientLibrary

MCHosts == <<[name |-> "vn0", ip |-> 1], [name |-> "vn1", ip |-> 2]>>
MCSlot == [vn0 |-> 0, vn1 |-> 0, yp |-> 0]
=============================================================================
