-------------------------- MODULE MCMetalStackCluster --------------------------
(* Instances of MetalStackCluster for TLC. *)
EXTENDS MetalStackCluster
=============================================================================
