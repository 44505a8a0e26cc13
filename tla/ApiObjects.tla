----------------------------- MODULE ApiObjects -----------------------------
(***************************************************************************)
(* What the Kubernetes API server does with an object a controller of this *)
(* repository owns.  An object is a record with at least the fields        *)
(*   exists    : it is still stored                                        *)
(*   finalizer : it carries its controller's finalizer                     *)
(*   deleting  : its deletion timestamp is set                             *)
(* A removed object keeps its last field values, so that properties can    *)
(* speak about what it was when it went away.                              *)
(***************************************************************************)

(* An object whose deletion was requested and that has no finalizer left is
   removed from the store. *)
Settled(o) == [o EXCEPT !.exists = o.exists /\ (o.deleting => o.finalizer)]

(* A delete call: sets the deletion timestamp. *)
Deleted(o) == Settled([o EXCEPT !.deleting = TRUE])

(* A merge patch computed from a copy taken before and a copy taken after a
   reconciliation: a field the reconciliation did not change keeps what the
   server has, a field it changed is overwritten, without any check that the
   server still holds the value the reconciliation started from. *)
Merged(current, before, after) == IF before = after THEN current ELSE after
=============================================================================
