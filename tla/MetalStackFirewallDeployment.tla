--------------------- MODULE MetalStackFirewallDeployment ---------------------
(***************************************************************************)
(* MetalStackFirewallDeploymentReconciler and one MetalStackFirewall-      *)
(* Deployment: a reconciliation is a sequence of calls to the API server   *)
(* and to the metal-stack API, each of which may fail or lose its answer,  *)
(* and the process may die between any two of them.  The object is read    *)
(* from the informer cache and written by a merge patch at the end.        *)
(***************************************************************************)
EXTENDS Integers, ApiObjects

CONSTANTS
    Hardware,      \* the servers the metal-stack API can turn into a firewall
    Networks,      \* the values a node network ID can take
    None,          \* a nil reference
    MaxFaults      \* bound on failed calls, lost answers, partial patches, crashes,
                   \* and reconciliations that begin with a cache that lags behind

ASSUME FirewallAssumption ==
    /\ None \notin Hardware \cup Networks
    /\ MaxFaults \in Nat

VARIABLES
    fwd,            \* the object in the API server
    fwdC,           \* the object in the informer cache
    template,       \* the MetalStackFirewallTemplate the object refers to
    nodeNetworkID,  \* spec.nodeNetworkID of the owning MetalStackCluster
    machinesLeft,   \* the cache lists some MetalStackMachine of the cluster
    alloc,          \* metal-stack API: hardware -> cluster tag of its allocation
    pc,             \* where the running reconciliation stands
    before, after,  \* the patch helper's copy, and the copy being changed
    network,        \* the node network ID it read
    rolled,         \* firewalls the user took the reference off, not yet freed
    found,          \* firewalls that are still to be freed
    failed,         \* some FreeMachine call of this reconciliation failed
    faults

objects == <<fwd, fwdC>>
env     == <<template, nodeNetworkID, machinesLeft, rolled>>
local   == <<pc, before, after, network, found, failed>>
vars    == <<objects, env, alloc, local, faults>>

Steps == {"idle", "template", "allocate", "find", "free", "patch"}

Deployment ==
    [exists : BOOLEAN, finalizer : BOOLEAN, deleting : BOOLEAN, owned : BOOLEAN,
     ref : Hardware \cup {None}, ready : BOOLEAN]

Blank == [exists |-> TRUE, finalizer |-> FALSE, deleting |-> FALSE, owned |-> FALSE,
          ref |-> None, ready |-> FALSE]

(* Type correctness of the whole state: objects, metal-stack API, local copies. *)
TypeOK ==
    /\ fwd \in Deployment /\ fwdC \in Deployment
    /\ template \in [exists : BOOLEAN, rules : BOOLEAN, owned : BOOLEAN]
    /\ nodeNetworkID \in Networks \cup {None}
    /\ machinesLeft \in BOOLEAN
    /\ alloc \in [Hardware -> Networks \cup {None}]
    /\ pc \in Steps
    /\ before \in Deployment /\ after \in Deployment /\ network \in Networks \cup {None}
    /\ rolled \subseteq Hardware /\ found \subseteq Hardware
    /\ failed \in BOOLEAN
    /\ faults \in 0 .. MaxFaults

Init ==
    /\ fwd = Blank /\ fwdC = Blank
    /\ \E r \in BOOLEAN : template = [exists |-> TRUE, rules |-> r, owned |-> FALSE]
    /\ nodeNetworkID \in Networks \cup {None}
    /\ machinesLeft \in BOOLEAN
    /\ alloc = [h \in Hardware |-> None] /\ rolled = {}
    /\ pc = "idle" /\ before = Blank /\ after = Blank /\ network = None
    /\ found = {} /\ failed = FALSE
    /\ faults = 0

(* Firewalls of this deployment that the metal-stack API holds. *)
Held == {h \in Hardware : alloc[h] # None}

Fault == faults < MaxFaults /\ faults' = faults + 1

(* A call answers, or it takes a fault. *)
Answered(ok) == IF ok THEN UNCHANGED faults ELSE Fault

(* The end of a reconciliation: its local state is forgotten. *)
Forget ==
    /\ pc' = "idle" /\ before' = Blank /\ after' = Blank /\ network' = None
    /\ found' = {} /\ failed' = FALSE

(* Go on to the patch that ends every reconciliation, with the copy changed
   to o.  After an error the copy is unchanged and the patch changes nothing. *)
ToPatch(o) == pc' = "patch" /\ after' = o /\ UNCHANGED <<before, network, found, failed>>

-----------------------------------------------------------------------------
(* Reconciliation *)

(* Reconcile reads the cache, stops early unless the owner and the template
   are there, and picks one of four ways to go on; to read what is out of date
   counts as a fault.  A paused object or a delete without finalizer changes
   nothing and is left out. *)
Begin(step, o) ==
    /\ pc = "idle"
    /\ Answered(fwdC = fwd)
    /\ fwdC.exists /\ fwdC.owned /\ template.exists
    /\ pc' = step /\ before' = fwdC /\ after' = o /\ network' = nodeNetworkID
    /\ UNCHANGED <<objects, env, alloc, found, failed>>

AddFinalizer ==
    /\ ~fwdC.deleting /\ ~fwdC.finalizer
    /\ Begin("patch", [fwdC EXCEPT !.finalizer = TRUE])

(* Mutant of StartReconcile: allocates before the finalizer is written. *)
StartReconcileUnguarded ==
    /\ ~fwdC.deleting /\ nodeNetworkID # None
    /\ Begin(IF template.owned THEN "allocate" ELSE "template", fwdC)

(* reconcile: an error as long as the cluster has no node network. *)
StartReconcile ==
    /\ ~fwdC.deleting /\ fwdC.finalizer
    /\ nodeNetworkID # None
    /\ Begin(IF template.owned THEN "allocate" ELSE "template", fwdC)

(* Mutant of StartDelete: the deletion timestamp is not checked. *)
StartDeleteAnyway ==
    /\ fwdC.finalizer /\ ~machinesLeft /\ nodeNetworkID # None
    /\ Begin("find", fwdC)

(* Mutant of StartDelete: the machines are not waited for. *)
StartDeleteEarly ==
    /\ fwdC.deleting /\ fwdC.finalizer /\ nodeNetworkID # None
    /\ Begin("find", fwdC)

(* delete: waits for the machines; without a node network it dereferences a
   nil pointer, the panic is recovered and nothing is patched. *)
StartDelete ==
    /\ fwdC.deleting /\ fwdC.finalizer
    /\ ~machinesLeft
    /\ nodeNetworkID # None
    /\ Begin("find", fwdC)

(* ensureFirewallTemplateOwnerRefAndFinalizer; the patch fails on a template
   that is gone, and its answer may get lost. *)
EnsureTemplateOwnerRef ==
    /\ pc = "template"
    /\ \E answered \in BOOLEAN, arrived \in BOOLEAN :
         /\ answered => arrived
         /\ Answered(answered \/ ~template.exists)
         /\ template' = [template EXCEPT !.owned = @ \/ (arrived /\ template.exists)]
         /\ IF answered /\ template.exists
            THEN pc' = "allocate" /\ UNCHANGED <<before, after, network, found, failed>>
            ELSE ToPatch(after)
    /\ UNCHANGED <<objects, nodeNetworkID, machinesLeft, rolled, alloc>>

(* Mutant of KeepFirewall: returns before the status is set. *)
KeepFirewallNotReady ==
    /\ pc = "allocate" /\ after.ref # None
    /\ ToPatch(after)
    /\ UNCHANGED <<objects, env, alloc, faults>>

(* ensureFirewallDeployment with a managedResourceRef: nothing to allocate. *)
KeepFirewall ==
    /\ pc = "allocate" /\ after.ref # None
    /\ ToPatch([after EXCEPT !.ready = TRUE])
    /\ UNCHANGED <<objects, env, alloc, faults>>

(* ... without an initial rule set: an error. *)
RefuseTemplate ==
    /\ pc = "allocate" /\ after.ref = None
    /\ ~template.rules
    /\ ToPatch(after)
    /\ UNCHANGED <<objects, env, alloc, faults>>

(* Mutant of AllocateFirewall: the managedResourceRef is not written. *)
AllocateFirewallUnnamed ==
    /\ pc = "allocate" /\ after.ref = None /\ template.rules
    /\ \E h \in Hardware \ Held : alloc' = [alloc EXCEPT ![h] = network]
    /\ ToPatch([after EXCEPT !.ready = TRUE])
    /\ UNCHANGED <<objects, env, faults>>

(* ... and AllocateFirewall, tagged with the node network ID.  When the answer
   is lost the server is allocated and nobody wrote down which. *)
AllocateFirewall ==
    /\ pc = "allocate" /\ after.ref = None
    /\ template.rules
    /\ \E h \in Hardware \ Held, answered \in BOOLEAN :
         /\ Answered(answered)
         /\ alloc' = [alloc EXCEPT ![h] = network]
         /\ ToPatch(IF answered THEN [after EXCEPT !.ref = h, !.ready = TRUE] ELSE after)
    /\ UNCHANGED <<objects, env>>

(* AllocateFirewall is refused: no server is free, or the call fails. *)
AllocationRefused ==
    /\ pc = "allocate" /\ after.ref = None
    /\ template.rules
    /\ Answered(Held = Hardware)
    /\ ToPatch(after)
    /\ UNCHANGED <<objects, env, alloc>>

(* Mutants of FindFirewalls: answers without an ID are kept; an empty answer
   is an error. *)
FindFirewallsWithoutID ==
    /\ pc = "find"
    /\ pc' = "free" /\ found' = Held \cup {None}
    /\ UNCHANGED <<objects, env, alloc, before, after, network, failed, faults>>

FindFirewallsOrFail ==
    /\ pc = "find"
    /\ pc' = (IF Held = {} THEN "patch" ELSE "free") /\ found' = Held
    /\ UNCHANGED <<objects, env, alloc, before, after, network, failed, faults>>

(* deleteFirewallDeployment looks up every firewall that carries its tags. *)
FindFirewalls ==
    /\ pc = "find"
    /\ pc' = "free"
    /\ found' = {h \in Hardware : alloc[h] = network}
    /\ UNCHANGED <<objects, env, alloc, before, after, network, failed, faults>>

FindFails ==
    /\ pc = "find"
    /\ Fault
    /\ ToPatch(after)
    /\ UNCHANGED <<objects, env, alloc>>

(* One FreeMachine call of its loop: an error is collected and the loop goes
   on.  The call may be refused for a firewall the user freed in the meantime. *)
FreeFirewall(h) ==
    /\ pc = "free" /\ h \in found
    /\ found' = found \ {h}
    /\ \E answered \in BOOLEAN, arrived \in BOOLEAN :
         /\ answered => arrived
         /\ Answered(answered \/ alloc[h] = None)
         /\ alloc' = [alloc EXCEPT ![h] = IF arrived THEN None ELSE @]
         /\ failed' = (failed \/ ~answered)
    /\ UNCHANGED <<objects, env, pc, before, after, network>>

(* Mutant of FinishDelete: the errors of the loop are dropped. *)
FinishDeleteAnyway ==
    /\ pc = "free" /\ found = {}
    /\ ToPatch([after EXCEPT !.finalizer = FALSE])
    /\ UNCHANGED <<objects, env, alloc, faults>>

(* The end of delete: the finalizer goes if no FreeMachine call failed. *)
FinishDelete ==
    /\ pc = "free" /\ found = {}
    /\ ToPatch([after EXCEPT !.finalizer = @ /\ failed])
    /\ UNCHANGED <<objects, env, alloc, faults>>

(* helper.Patch: one patch for metadata and spec, one for the status.  Either
   may fail without the other; both fail on an object that is gone. *)
Patch ==
    /\ pc = "patch"
    /\ \E spec \in BOOLEAN, status \in BOOLEAN :
         /\ spec \/ status => fwd.exists
         /\ Answered((spec /\ status) \/ before = after \/ ~fwd.exists)
         /\ fwd' = Settled([fwd EXCEPT
              !.finalizer = IF spec   THEN Merged(@, before.finalizer, after.finalizer) ELSE @,
              !.ref       = IF spec   THEN Merged(@, before.ref, after.ref)             ELSE @,
              !.ready     = IF status THEN Merged(@, before.ready, after.ready)         ELSE @])
    /\ Forget
    /\ UNCHANGED <<fwdC, env, alloc>>

(* The process dies, or loses the leader election, and starts again. *)
Crash ==
    /\ pc # "idle"
    /\ Fault
    /\ Forget
    /\ UNCHANGED <<objects, env, alloc>>

Controller ==
    \/ AddFinalizer \/ StartReconcile \/ StartDelete
    \/ EnsureTemplateOwnerRef
    \/ KeepFirewall \/ RefuseTemplate \/ AllocateFirewall \/ AllocationRefused
    \/ FindFirewalls \/ (\E h \in Hardware : FreeFirewall(h)) \/ FinishDelete
    \/ Patch

-----------------------------------------------------------------------------
(* The rest of the world *)

CacheSync ==
    /\ fwdC # fwd
    /\ fwdC' = fwd
    /\ UNCHANGED <<fwd, env, alloc, local, faults>>

(* The cluster controller sets its owner reference, and gets a node network. *)
ClusterAdopts ==
    /\ fwd.exists /\ ~fwd.owned
    /\ fwd' = [fwd EXCEPT !.owned = TRUE]
    /\ UNCHANGED <<fwdC, env, alloc, local, faults>>

ClusterNetwork ==
    /\ nodeNetworkID = None
    /\ nodeNetworkID' \in Networks
    /\ UNCHANGED <<objects, template, machinesLeft, rolled, alloc, local, faults>>

(* The cluster goes after the deployment, and its network before it. *)
ClusterGone ==
    /\ ~fwd.exists /\ nodeNetworkID # None
    /\ nodeNetworkID' = None
    /\ UNCHANGED <<objects, template, machinesLeft, rolled, alloc, local, faults>>

(* Somebody, or the garbage collector, deletes the object. *)
RequestDelete ==
    /\ fwd.exists /\ ~fwd.deleting
    /\ fwd' = Deleted(fwd)
    /\ UNCHANGED <<fwdC, env, alloc, local, faults>>

MachinesChange ==
    /\ machinesLeft' = ~machinesLeft
    /\ UNCHANGED <<objects, template, nodeNetworkID, rolled, alloc, local, faults>>

(* README, firewall update: clear managedResourceRef and later free the old
   firewall. *)
UserRollsFirewall ==
    /\ fwd.exists /\ fwd.ref # None
    /\ fwd' = [fwd EXCEPT !.ref = None]
    /\ rolled' = rolled \cup {fwd.ref}
    /\ UNCHANGED <<fwdC, template, nodeNetworkID, machinesLeft, alloc, local, faults>>

UserFreesFirewall ==
    /\ \E h \in rolled :
         /\ alloc' = [alloc EXCEPT ![h] = None]
         /\ rolled' = rolled \ {h}
    /\ UNCHANGED <<objects, template, nodeNetworkID, machinesLeft, local, faults>>

UserDeletesTemplate ==
    /\ template.exists
    /\ template' = [template EXCEPT !.exists = FALSE]
    /\ UNCHANGED <<objects, nodeNetworkID, machinesLeft, rolled, alloc, local, faults>>

Environment ==
    \/ ClusterAdopts \/ ClusterNetwork \/ ClusterGone \/ RequestDelete \/ MachinesChange
    \/ UserRollsFirewall \/ UserFreesFirewall \/ UserDeletesTemplate

Next == Controller \/ FindFails \/ Crash \/ CacheSync \/ Environment

Spec == Init /\ [][Next]_vars

(* A failed reconciliation is retried, the informers resynchronise, and the
   watch catches up: what can be done is done.  The faults are finitely many. *)
Fairness == WF_vars(Controller) /\ WF_vars(CacheSync)

FairSpec == Spec /\ Fairness

-----------------------------------------------------------------------------
(* Properties *)

(* The object never disappears while the metal-stack API still holds one of
   its firewalls, whatever call got lost and however stale the cache was: the
   finalizer, the tag lookup and the order of deleteFirewallDeployment see to
   it, also for firewalls that no managedResourceRef names. *)
FirewallsFreedBeforeRemoval == ~fwd.exists => Held = {}

(* A server is turned into a firewall only under the finalizer, taken and
   freed one at a time, and the object goes when none is left: the contract of
   the finalizer. *)
Contract == INSTANCE FinalizerContract WITH
    Resources <- Hardware,
    held <- Held,
    phase <- IF ~fwd.exists THEN "removed"
             ELSE IF ~fwd.finalizer THEN "unguarded"
             ELSE IF fwd.deleting THEN "terminating" ELSE "guarded"

KeepsContract == Contract!Spec

(* The referenced firewall is a live allocation as long as nobody asked for
   the deletion: no retry frees or forgets the firewall the spec names. *)
ReferenceIsAllocated == fwd.exists /\ ~fwd.deleting /\ fwd.ref # None => alloc[fwd.ref] # None

(* One managedResourceRef, one firewall: if nothing is lost and no cache was
   out of date, a deployment holds one server besides those its user rolls. *)
SingleFirewall == faults = 0 => \A g, h \in Held \ rolled : g = h

(* What a deletion has to wait for: machines and the node network, by which
   firewalls are found, an owner, and the template. *)
Blocked == nodeNetworkID = None \/ machinesLeft \/ ~fwd.owned \/ ~template.exists

(* A deletion never hangs for good unless it is blocked by what delete and the
   early returns of Reconcile wait for. *)
DeletionHangsOnlyWhenBlocked == []<>(fwd.exists /\ fwd.deleting => Blocked)

(* A deployment that is wanted, and has all it needs, gets a firewall and keeps
   naming it, whichever call had to be repeated on the way. *)
Wanted ==
    /\ ~fwd.deleting /\ fwd.owned /\ template.exists /\ template.rules /\ nodeNetworkID # None
    /\ rolled = {}
    /\ fwd.ref # None \/ Held # Hardware

FirewallComesUp == <>[]Wanted => <>[](fwd.ref # None /\ fwd.ready)

-----------------------------------------------------------------------------
(* Why firewalls are freed before the object goes *)

(* The object is there unless its deletion was requested and its finalizer is
   gone. *)
Presence == fwd.exists = (fwd.deleting => fwd.finalizer)

(* The cache lags behind the server: it knows of no deletion the server has
   not seen, and a finalizer it shows is only missing from the server if it
   shows the deletion, too. *)
CacheLags ==
    /\ fwdC.deleting => fwd.deleting
    /\ fwdC.finalizer /\ ~fwdC.deleting => fwd.finalizer

(* Every firewall carries the cluster tag the deletion looks for. *)
Tagged == \A h \in Hardware : alloc[h] # None => alloc[h] = nodeNetworkID

(* No firewall without the finalizer. *)
Guarded == ~fwd.finalizer => Held = {}

(* What a running reconciliation knows. *)
Creating ==
    pc \in {"template", "allocate"} =>
        /\ fwd.finalizer /\ before.finalizer /\ after.finalizer
        /\ network = nodeNetworkID /\ network # None

Deleting ==
    /\ pc \in {"find", "free"} =>
         fwdC.deleting /\ after.finalizer /\ (Held # {} => network = nodeNetworkID)
    /\ pc = "free" /\ ~failed => Held \subseteq found

Removing == pc = "patch" /\ before.finalizer /\ ~after.finalizer => fwdC.deleting /\ Held = {}

(* Finalizer, cache, tags and the local state of the running reconciliation
   agree, so that a stale reconciliation that ends late cannot drop the
   finalizer of a firewall. *)
FinalizerInv == TypeOK /\ Presence /\ CacheLags /\ Tagged /\ Guarded /\ Creating /\ Deleting /\ Removing

(* A firewall was allocated whose reference is not written yet. *)
Unwritten == pc = "patch" /\ after.ref # before.ref

(* Until the deletion is requested, the firewall the spec names, the one about
   to be named and those the user rolls are different allocations. *)
Referenced ==
    /\ pc # "patch" => after.ref = before.ref
    /\ ~fwd.deleting =>
         /\ rolled \subseteq Held
         /\ fwd.ref # None => fwd.ref \in Held \ rolled
         /\ Unwritten => after.ref \in Held \ (rolled \cup {fwd.ref})

(* If nothing is lost and no cache was out of date, there is no other. *)
Single ==
    faults = 0 =>
        /\ pc \in {"template", "allocate"} /\ before.ref = None => fwd.ref = None
        /\ Held \ rolled \subseteq {IF Unwritten THEN after.ref ELSE fwd.ref}

(* The inductive invariant: finalizer and reference account for the firewalls. *)
IInv == FinalizerInv /\ Referenced /\ Single
=============================================================================
