---------------------------- MODULE MCMultiCore ----------------------------
(***************************************************************************)
(* Two cores.  A path is the sequence of the owners of its hops.            *)
(***************************************************************************)
EXTENDS MultiCore

CONSTANTS A, B

MCBoot == (A :> 0 @@ B :> 20)
MCPaths == {<<A, B, A, B>>}
=============================================================================
