-------------------------- MODULE FinalizerContract --------------------------
(***************************************************************************)
(* What a finalizer promises (api/v1alpha1: it "allows to clean up         *)
(* resources associated with" an object "before removing it from the       *)
(* apiserver"): resources of the metal-stack API are taken only under the  *)
(* finalizer, and the object disappears only when none of them is held.    *)
(* The firewall controller implements this specification; the machine      *)
(* controller does as long as no call fails and its cache is up to date.   *)
(***************************************************************************)
CONSTANT Resources

VARIABLES
    phase,   \* of the object: unguarded, guarded, terminating, removed
    held     \* resources taken for the object and not given back

vars == <<phase, held>>

Phases == {"unguarded", "guarded", "terminating", "removed"}

TypeOK == phase \in Phases /\ held \subseteq Resources

Init == phase = "unguarded" /\ held = {}

(* The finalizer is added. *)
Guard == phase = "unguarded" /\ phase' = "guarded" /\ UNCHANGED held

(* A reconciliation takes a resource; one that began before the deletion was
   requested may still do so afterwards. *)
Acquire ==
    /\ phase \in {"guarded", "terminating"}
    /\ \E r \in Resources \ held : held' = held \cup {r}
    /\ UNCHANGED phase

(* A resource is given back. *)
Release ==
    /\ \E r \in held : held' = held \ {r}
    /\ UNCHANGED phase

(* Deletion is requested: an object without a finalizer goes at once. *)
Delete ==
    /\ \/ phase = "unguarded" /\ phase' = "removed"
       \/ phase = "guarded" /\ phase' = "terminating"
    /\ UNCHANGED held

(* The finalizer is removed: only when nothing is left behind. *)
Remove == phase = "terminating" /\ held = {} /\ phase' = "removed" /\ UNCHANGED held

Next == Guard \/ Acquire \/ Release \/ Delete \/ Remove

Spec == Init /\ [][Next]_vars
=============================================================================
