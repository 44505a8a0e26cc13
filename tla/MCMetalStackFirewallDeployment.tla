-------------------- MODULE MCMetalStackFirewallDeployment --------------------
(* Instances of MetalStackFirewallDeployment for TLC. *)
EXTENDS MetalStackFirewallDeployment
=============================================================================
