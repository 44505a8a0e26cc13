--------------------------- MODULE MCCapmsManager ---------------------------
(* Instance of CapmsManager for TLC. *)
EXTENDS CapmsManager, TLC

(* Networks differ in nothing but their identity. *)
NetworkSymmetry == Permutations(Networks)

(* Bounds of the runs on the faults of all controllers together. A crash counts
   for each controller it ends: with one fault it ends a single reconciliation,
   with two it may end two at once. *)
AtMostOneFault  == faultsC + faultsF + faultsM <= 1
AtMostTwoFaults == faultsC + faultsF + faultsM <= 2

(* Nothing is explored after a deployment that is being deleted is without its
   template and no reconciliation that has read the template is under way: it
   hangs for good, and the property about the teardown excuses that. *)
NotStuck == NoTemplate => pcF # "idle"
=============================================================================
