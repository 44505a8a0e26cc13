-------------------------- MODULE MCMetalStackMachine --------------------------
(* Instances of MetalStackMachine for TLC. *)
EXTENDS MetalStackMachine
=============================================================================
