---------------------------- MODULE MCConfigTree ----------------------------
(* ConfigTree on four identities. *)
EXTENDS ConfigTree
MCNode == 1 .. 4
=============================================================================
