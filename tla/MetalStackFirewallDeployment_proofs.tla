----------------- MODULE MetalStackFirewallDeployment_proofs -----------------
(***************************************************************************)
(* Proofs about MetalStackFirewallDeployment for any set of servers and    *)
(* networks, any number of faults, stale reads among them.                *)
(***************************************************************************)
EXTENDS MetalStackFirewallDeployment, TLAPS

-----------------------------------------------------------------------------
(* Type correctness *)

(* What an answer costs: the number of faults stays within its bound. *)
LEMMA AnsweredBound ==
    ASSUME faults \in 0 .. MaxFaults, NEW ok \in BOOLEAN, Answered(ok)
    PROVE  faults' \in 0 .. MaxFaults
BY FirewallAssumption DEF Answered, Fault

(* A fault is only taken while the bound allows it. *)
LEMMA FaultBound == ASSUME faults \in 0 .. MaxFaults, Fault PROVE faults' \in 0 .. MaxFaults
BY FirewallAssumption DEF Fault

(* The changes the operations make to a copy keep it a deployment. *)
LEMMA Updates ==
    ASSUME NEW o \in Deployment, NEW b \in BOOLEAN
    PROVE  /\ [o EXCEPT !.exists = b] \in Deployment
           /\ [o EXCEPT !.finalizer = b] \in Deployment
           /\ [o EXCEPT !.deleting = b] \in Deployment
           /\ [o EXCEPT !.owned = b] \in Deployment
           /\ [o EXCEPT !.ready = b] \in Deployment
BY DEF Deployment

(* What the API server stores after an update is a deployment. *)
LEMMA SettledType == ASSUME NEW o \in Deployment PROVE Settled(o) \in Deployment
<1>1. (o.exists /\ (o.deleting => o.finalizer)) \in BOOLEAN
    OBVIOUS
<1> QED
    BY <1>1, Updates DEF Settled

(* The initial state has its type. *)
LEMMA InitTypeOK == Init => TypeOK
<1> SUFFICES ASSUME Init PROVE TypeOK
    OBVIOUS
<1>1. Blank \in Deployment
    BY DEF Blank, Deployment
<1> QED
    <2>1. template \in [exists : BOOLEAN, rules : BOOLEAN, owned : BOOLEAN]
        BY DEF Init
    <2>2. faults \in 0 .. MaxFaults
        BY FirewallAssumption DEF Init
    <2>3. alloc \in [Hardware -> Networks \cup {None}]
        BY DEF Init
    <2>4. fwd \in Deployment /\ fwdC \in Deployment /\ before \in Deployment /\ after \in Deployment
        BY <1>1 DEF Init
    <2>5. /\ nodeNetworkID \in Networks \cup {None} /\ machinesLeft \in BOOLEAN /\ pc \in Steps
          /\ rolled \subseteq Hardware /\ found \subseteq Hardware /\ failed \in BOOLEAN
          /\ network \in Networks \cup {None}
        BY DEF Init, Steps
    <2> QED
        BY <2>1, <2>2, <2>3, <2>4, <2>5 DEF TypeOK

(* Every step of controller, cache and environment keeps the types. *)
LEMMA NextTypeOK == TypeOK /\ [Next]_vars => TypeOK'
<1> SUFFICES ASSUME TypeOK, [Next]_vars PROVE TypeOK'
    OBVIOUS
<1> USE FirewallAssumption
<1>0. Blank \in Deployment
    BY DEF Blank, Deployment
<1>1. CASE AddFinalizer
    <2>1. [fwdC EXCEPT !.finalizer = TRUE] \in Deployment
        BY Updates DEF TypeOK
    <2>2. faults' \in 0 .. MaxFaults
        BY <1>1, AnsweredBound DEF AddFinalizer, Begin, TypeOK
    <2> QED
        BY <1>1, <2>1, <2>2 DEF AddFinalizer, Begin, TypeOK, Steps, objects, env
<1>2. CASE StartReconcile
    <2>1. faults' \in 0 .. MaxFaults
        BY <1>2, AnsweredBound DEF StartReconcile, Begin, TypeOK
    <2> QED
        BY <1>2, <2>1 DEF StartReconcile, Begin, TypeOK, Steps, objects, env
<1>3. CASE StartDelete
    <2>1. faults' \in 0 .. MaxFaults
        BY <1>3, AnsweredBound DEF StartDelete, Begin, TypeOK
    <2> QED
        BY <1>3, <2>1 DEF StartDelete, Begin, TypeOK, Steps, objects, env
<1>4. CASE EnsureTemplateOwnerRef
    <2>1. PICK answered \in BOOLEAN, arrived \in BOOLEAN :
             /\ Answered(answered \/ ~template.exists)
             /\ template' = [template EXCEPT !.owned = @ \/ (arrived /\ template.exists)]
             /\ \/ pc' = "allocate" /\ UNCHANGED <<before, after, found, failed>>
                \/ ToPatch(after)
        BY <1>4 DEF EnsureTemplateOwnerRef
    <2>2. faults' \in 0 .. MaxFaults
        BY <2>1, AnsweredBound DEF TypeOK
    <2> QED
        BY <1>4, <2>1, <2>2 DEF EnsureTemplateOwnerRef, TypeOK, ToPatch, Steps, objects
<1>5. CASE KeepFirewall
    <2>1. [after EXCEPT !.ready = TRUE] \in Deployment
        BY Updates DEF TypeOK
    <2> QED
        BY <1>5, <2>1 DEF KeepFirewall, ToPatch, TypeOK, Steps, objects, env
<1>6. CASE RefuseTemplate
    BY <1>6 DEF RefuseTemplate, ToPatch, TypeOK, Steps, objects, env
<1>7. CASE AllocateFirewall
    <2>1. PICK h \in Hardware \ Held, answered \in BOOLEAN :
             /\ Answered(answered)
             /\ alloc' = [alloc EXCEPT ![h] = network]
             /\ ToPatch(IF answered THEN [after EXCEPT !.ref = h, !.ready = TRUE] ELSE after)
        BY <1>7 DEF AllocateFirewall
    <2>2. faults' \in 0 .. MaxFaults
        BY <2>1, AnsweredBound DEF TypeOK
    <2>3. after' \in Deployment
        BY <2>1 DEF TypeOK, ToPatch, Deployment
    <2> QED
        BY <1>7, <2>1, <2>2, <2>3 DEF AllocateFirewall, TypeOK, ToPatch, Steps, objects, env
<1>8. CASE AllocationRefused
    <2>1. faults' \in 0 .. MaxFaults
        BY <1>8, AnsweredBound DEF AllocationRefused, TypeOK
    <2> QED
        BY <1>8, <2>1 DEF AllocationRefused, TypeOK, ToPatch, Steps, objects, env
<1>9. CASE FindFirewalls
    BY <1>9 DEF FindFirewalls, TypeOK, Steps, objects, env
<1>10. CASE FindFails
    <2>1. faults' \in 0 .. MaxFaults
        BY <1>10, FaultBound DEF FindFails, TypeOK
    <2> QED
        BY <1>10, <2>1 DEF FindFails, ToPatch, TypeOK, Steps, objects, env
<1>11. ASSUME NEW h \in Hardware, FreeFirewall(h) PROVE TypeOK'
    <2>1. PICK answered \in BOOLEAN, arrived \in BOOLEAN :
             /\ Answered(answered \/ alloc[h] = None)
             /\ alloc' = [alloc EXCEPT ![h] = IF arrived THEN None ELSE @]
             /\ failed' = (failed \/ ~answered)
        BY <1>11 DEF FreeFirewall
    <2>2. faults' \in 0 .. MaxFaults
        BY <2>1, AnsweredBound DEF TypeOK
    <2>3. alloc' \in [Hardware -> Networks \cup {None}] /\ failed' \in BOOLEAN
        BY <2>1 DEF TypeOK
    <2> QED
        BY <1>11, <2>2, <2>3 DEF FreeFirewall, TypeOK, objects, env
<1>12. CASE FinishDelete
    <2>1. [after EXCEPT !.finalizer = @ /\ failed] \in Deployment
        BY DEF TypeOK, Deployment
    <2> QED
        BY <1>12, <2>1 DEF FinishDelete, ToPatch, TypeOK, Steps, objects, env
<1>13. CASE Patch
    <2>1. fwd' \in Deployment
        <3>1. PICK spec \in BOOLEAN, status \in BOOLEAN :
                 fwd' = Settled([fwd EXCEPT
                   !.finalizer = IF spec   THEN Merged(@, before.finalizer, after.finalizer) ELSE @,
                   !.ref       = IF spec   THEN Merged(@, before.ref, after.ref)             ELSE @,
                   !.ready     = IF status THEN Merged(@, before.ready, after.ready)         ELSE @])
            BY <1>13 DEF Patch
        <3>2. [fwd EXCEPT
                   !.finalizer = IF spec   THEN Merged(@, before.finalizer, after.finalizer) ELSE @,
                   !.ref       = IF spec   THEN Merged(@, before.ref, after.ref)             ELSE @,
                   !.ready     = IF status THEN Merged(@, before.ready, after.ready)         ELSE @]
              \in Deployment
            BY DEF TypeOK, Merged, Deployment
        <3> QED
            BY <3>1, <3>2, SettledType
    <2>2. faults' \in 0 .. MaxFaults
        BY <1>13, AnsweredBound DEF Patch, TypeOK
    <2> QED
        BY <1>0, <1>13, <2>1, <2>2 DEF Patch, Forget, TypeOK, Steps, env
<1>14. CASE Crash
    <2>1. faults' \in 0 .. MaxFaults
        BY <1>14, FaultBound DEF Crash, TypeOK
    <2> QED
        BY <1>0, <1>14, <2>1 DEF Crash, Forget, TypeOK, Steps, objects, env
<1>15. CASE CacheSync
    BY <1>15 DEF CacheSync, TypeOK, env, local
<1>16. CASE Environment
    <2>1. CASE ClusterAdopts
        <3>1. [fwd EXCEPT !.owned = TRUE] \in Deployment
            BY Updates DEF TypeOK
        <3> QED
            BY <2>1, <3>1 DEF ClusterAdopts, TypeOK, env, local
    <2>2. CASE ClusterNetwork
        BY <2>2 DEF ClusterNetwork, TypeOK, objects, local
    <2>8. CASE ClusterGone
        BY <2>8 DEF ClusterGone, TypeOK, objects, local
    <2>3. CASE RequestDelete
        <3>1. Deleted(fwd) \in Deployment
            BY Updates, SettledType DEF Deleted, TypeOK
        <3> QED
            BY <2>3, <3>1 DEF RequestDelete, TypeOK, env, local
    <2>4. CASE MachinesChange
        BY <2>4 DEF MachinesChange, TypeOK, objects, local
    <2>5. CASE UserRollsFirewall
        BY <2>5 DEF UserRollsFirewall, TypeOK, Deployment, local
    <2>6. CASE UserFreesFirewall
        BY <2>6 DEF UserFreesFirewall, TypeOK, objects, local
    <2>7. CASE UserDeletesTemplate
        BY <2>7 DEF UserDeletesTemplate, TypeOK, objects, local
    <2> QED
        BY <1>16, <2>1, <2>2, <2>3, <2>4, <2>5, <2>6, <2>7, <2>8 DEF Environment
<1>17. CASE UNCHANGED vars
    BY <1>17 DEF vars, objects, env, local, TypeOK
<1> QED
    BY <1>1, <1>2, <1>3, <1>4, <1>5, <1>6, <1>7, <1>8, <1>9, <1>10, <1>11, <1>12,
       <1>13, <1>14, <1>15, <1>16, <1>17 DEF Next, Controller

(* The state always has its type. *)
THEOREM TypeCorrect == Spec => []TypeOK
BY InitTypeOK, NextTypeOK, PTL DEF Spec
-----------------------------------------------------------------------------
(* Finalizer and firewalls *)

(* Initially nothing is allocated and no reconciliation is running. *)
LEMMA InitFinalizerInv == Init => FinalizerInv
<1> SUFFICES ASSUME Init PROVE FinalizerInv
    OBVIOUS
<1>1. TypeOK
    BY InitTypeOK
<1>2. Held = {}
    BY DEF Init, Held
<1> QED
    BY <1>1, <1>2 DEF Init, Blank, FinalizerInv, Presence, CacheLags, Tagged, Guarded, Creating,
       Deleting, Removing, Held

(* A step that changes neither the objects nor the allocations, nor the network,
   keeps what relates them. *)
LEMMA CalmStep ==
    ASSUME FinalizerInv, UNCHANGED <<fwd, fwdC, alloc, nodeNetworkID>>
    PROVE  /\ Presence' /\ CacheLags' /\ Tagged' /\ Guarded'
           /\ Held' = Held
BY DEF FinalizerInv, Presence, CacheLags, Tagged, Guarded, Held

(* Reconciliations begin on what the cache shows. *)
LEMMA BeginStep ==
    ASSUME FinalizerInv, AddFinalizer \/ StartReconcile \/ StartDelete, TypeOK'
    PROVE  FinalizerInv'
<1>1. UNCHANGED <<fwd, fwdC, alloc, nodeNetworkID, found, failed>>
    BY DEF AddFinalizer, StartReconcile, StartDelete, Begin, objects, env
<1>2. CASE AddFinalizer
    <2>1. pc' = "patch" /\ before' = fwdC /\ ~fwdC.finalizer
        BY <1>2 DEF AddFinalizer, Begin
    <2> QED
        BY <1>1, <2>1, CalmStep DEF FinalizerInv, Creating, Deleting, Removing
<1>3. CASE StartReconcile
    <2>1. /\ pc' \in {"template", "allocate"}
          /\ before' = fwdC /\ after' = fwdC
          /\ fwdC.finalizer /\ ~fwdC.deleting
          /\ network' = nodeNetworkID /\ nodeNetworkID # None
        BY <1>3 DEF StartReconcile, Begin
    <2>2. fwd.finalizer
        BY <2>1 DEF FinalizerInv, CacheLags
    <2> QED
        BY <1>1, <2>1, <2>2, CalmStep DEF FinalizerInv, Creating, Deleting, Removing
<1>4. CASE StartDelete
    <2>1. /\ pc' = "find" /\ before' = fwdC /\ after' = fwdC
          /\ fwdC.finalizer /\ fwdC.deleting /\ network' = nodeNetworkID
        BY <1>4 DEF StartDelete, Begin
    <2> QED
        BY <1>1, <2>1, CalmStep DEF FinalizerInv, Creating, Deleting, Removing
<1> QED
    BY <1>2, <1>3, <1>4

(* Steps of a reconciliation that acquires: the finalizer is there. *)
LEMMA CreateStep ==
    ASSUME FinalizerInv, TypeOK',
           EnsureTemplateOwnerRef \/ KeepFirewall \/ RefuseTemplate \/ AllocationRefused
    PROVE  FinalizerInv'
<1>1. UNCHANGED <<fwd, fwdC, alloc, nodeNetworkID, before, network, found, failed>>
    BY DEF EnsureTemplateOwnerRef, KeepFirewall, RefuseTemplate, AllocationRefused, ToPatch,
           objects, env
<1>2. pc \in {"template", "allocate"} /\ pc' \in {"allocate", "patch"}
    BY DEF EnsureTemplateOwnerRef, KeepFirewall, RefuseTemplate, AllocationRefused, ToPatch
<1>3. after'.finalizer = after.finalizer
    <2>1. after' = after \/ after' = [after EXCEPT !.ready = TRUE]
        BY DEF EnsureTemplateOwnerRef, KeepFirewall, RefuseTemplate, AllocationRefused, ToPatch
    <2> QED
        BY <2>1 DEF FinalizerInv, TypeOK, Deployment
<1> QED
    BY <1>1, <1>2, <1>3, CalmStep DEF FinalizerInv, Creating, Deleting, Removing

(* An allocation, answered or not, carries the tag and happens under the
   finalizer. *)
LEMMA AllocateStep ==
    ASSUME FinalizerInv, TypeOK', AllocateFirewall
    PROVE  FinalizerInv'
<1>1. PICK h \in Hardware \ Held, answered \in BOOLEAN :
         /\ alloc' = [alloc EXCEPT ![h] = network]
         /\ ToPatch(IF answered THEN [after EXCEPT !.ref = h, !.ready = TRUE] ELSE after)
    BY DEF AllocateFirewall
<1>2. UNCHANGED <<fwd, fwdC, nodeNetworkID, before, network, found, failed>> /\ pc' = "patch"
    BY <1>1 DEF AllocateFirewall, ToPatch, objects, env
<1>3. fwd.finalizer /\ after.finalizer /\ network = nodeNetworkID
    BY DEF AllocateFirewall, FinalizerInv, Creating
<1>4. after'.finalizer
    BY <1>1, <1>3 DEF ToPatch, FinalizerInv, TypeOK, Deployment
<1>5. Tagged'
    BY <1>1, <1>2, <1>3 DEF FinalizerInv, Tagged, TypeOK
<1> QED
    BY <1>2, <1>3, <1>4, <1>5 DEF FinalizerInv, Presence, CacheLags, Guarded, Creating, Deleting, Removing

(* Steps of a deletion. *)
LEMMA FindStep ==
    ASSUME FinalizerInv, TypeOK', FindFirewalls \/ FindFails
    PROVE  FinalizerInv'
<1>1. UNCHANGED <<fwd, fwdC, alloc, nodeNetworkID, after, before, network>> /\ pc = "find"
    BY DEF FindFirewalls, FindFails, ToPatch, objects, env
<1>2. CASE FindFirewalls
    <2>1. pc' = "free" /\ found' = {h \in Hardware : alloc[h] = network}
        BY <1>2 DEF FindFirewalls
    <2>2. Held' \subseteq found'
        BY <1>1, <2>1 DEF Held, FinalizerInv, Tagged, Deleting
    <2> QED
        BY <1>1, <2>1, <2>2, CalmStep DEF FinalizerInv, Creating, Deleting, Removing
<1>3. CASE FindFails
    <2>1. pc' = "patch"
        BY <1>3 DEF FindFails, ToPatch
    <2> QED
        BY <1>1, <2>1, CalmStep DEF FinalizerInv, Creating, Deleting, Removing
<1> QED
    BY <1>2, <1>3

(* One FreeMachine call: a firewall that is still held is still to be freed, or
   the call is remembered as failed. *)
LEMMA FreeStep ==
    ASSUME FinalizerInv, TypeOK', NEW h \in Hardware, FreeFirewall(h)
    PROVE  FinalizerInv'
<1>1. PICK answered \in BOOLEAN, arrived \in BOOLEAN :
         /\ answered => arrived
         /\ alloc' = [alloc EXCEPT ![h] = IF arrived THEN None ELSE @]
         /\ failed' = (failed \/ ~answered)
    BY DEF FreeFirewall
<1>2. UNCHANGED <<fwd, fwdC, nodeNetworkID, pc, before, after, network>> /\ pc = "free" /\ found' = found \ {h}
    BY DEF FreeFirewall, objects, env
<1>3. Held' \subseteq Held
    BY <1>1 DEF Held, FinalizerInv, TypeOK
<1>4. ~failed' => Held' \subseteq found'
    <2> SUFFICES ASSUME ~failed', NEW g \in Held' PROVE g \in found'
        OBVIOUS
    <2>1. ~failed /\ arrived
        BY <1>1
    <2>2. g # h
        BY <1>1, <2>1 DEF Held, FinalizerInv, TypeOK
    <2>3. g \in found
        BY <1>2, <1>3, <2>1 DEF FinalizerInv, Deleting
    <2> QED
        BY <1>2, <2>2, <2>3
<1>5. Tagged'
    BY <1>1, <1>2 DEF FinalizerInv, Tagged, TypeOK
<1> QED
    BY <1>2, <1>3, <1>4, <1>5
       DEF FinalizerInv, Presence, CacheLags, Guarded, Creating, Deleting, Removing

(* The end of the loop: without a failure nothing is held any more. *)
LEMMA FinishStep ==
    ASSUME FinalizerInv, TypeOK', FinishDelete
    PROVE  FinalizerInv'
<1>1. UNCHANGED <<fwd, fwdC, alloc, nodeNetworkID, before, network, found, failed>> /\ pc = "free" /\ pc' = "patch"
    BY DEF FinishDelete, ToPatch, objects, env
<1>2. after'.finalizer = failed
    BY DEF FinishDelete, ToPatch, FinalizerInv, TypeOK, Deployment, Deleting
<1>3. found = {} /\ fwdC.deleting /\ (~failed => Held \subseteq found)
    BY DEF FinishDelete, FinalizerInv, Deleting
<1> QED
    BY <1>1, <1>2, <1>3, CalmStep DEF FinalizerInv, Creating, Deleting, Removing

(* The patch at the end: what it does to the finalizer. *)
LEMMA PatchFinalizer ==
    ASSUME FinalizerInv, Patch
    PROVE  /\ fwd'.deleting = fwd.deleting
           /\ fwd'.exists = (fwd.exists /\ (fwd.deleting => fwd'.finalizer))
           /\ ~fwd.exists => fwd' = fwd
           /\ ~fwd'.finalizer => Held = {}
           /\ fwd.finalizer /\ ~fwd'.finalizer => fwdC.deleting
<1>1. PICK spec \in BOOLEAN, status \in BOOLEAN :
         /\ spec \/ status => fwd.exists
         /\ fwd' = Settled([fwd EXCEPT
              !.finalizer = IF spec   THEN Merged(@, before.finalizer, after.finalizer) ELSE @,
              !.ref       = IF spec   THEN Merged(@, before.ref, after.ref)             ELSE @,
              !.ready     = IF status THEN Merged(@, before.ready, after.ready)         ELSE @])
    BY DEF Patch
<1>2. /\ fwd'.finalizer = IF spec THEN Merged(fwd.finalizer, before.finalizer, after.finalizer)
                                   ELSE fwd.finalizer
      /\ fwd'.deleting = fwd.deleting
      /\ fwd'.exists = (fwd.exists /\ (fwd.deleting => fwd'.finalizer))
    BY <1>1 DEF Settled, FinalizerInv, TypeOK, Deployment
<1>3. ~fwd.exists => fwd' = fwd
    BY <1>1 DEF Settled, FinalizerInv, TypeOK, Deployment
<1>4. ~fwd'.finalizer => ~fwd.finalizer \/ (before.finalizer /\ ~after.finalizer)
    BY <1>2 DEF Merged, FinalizerInv, TypeOK, Deployment
<1> QED
    BY <1>2, <1>3, <1>4 DEF Patch, FinalizerInv, Guarded, Removing

(* The patch at the end keeps the invariant. *)
LEMMA PatchStep ==
    ASSUME FinalizerInv, TypeOK', Patch
    PROVE  FinalizerInv'
<1>1. UNCHANGED <<fwdC, alloc, nodeNetworkID>> /\ pc' = "idle"
    BY DEF Patch, Forget, env
<1>2. Held' = Held
    BY <1>1 DEF Held
<1>3. Presence'
    BY PatchFinalizer DEF FinalizerInv, Presence
<1>4. CacheLags'
    BY <1>1, PatchFinalizer DEF FinalizerInv, CacheLags
<1>5. Guarded' /\ Tagged'
    BY <1>1, <1>2, PatchFinalizer DEF FinalizerInv, Guarded, Tagged
<1> QED
    BY <1>1, <1>3, <1>4, <1>5 DEF FinalizerInv, Creating, Deleting, Removing

(* After a crash nothing local is left to be wrong. *)
LEMMA CrashStep ==
    ASSUME FinalizerInv, TypeOK', Crash
    PROVE  FinalizerInv'
<1>1. UNCHANGED <<fwd, fwdC, alloc, nodeNetworkID>> /\ pc' = "idle"
    BY DEF Crash, Forget, objects, env
<1> QED
    BY <1>1, CalmStep DEF FinalizerInv, Creating, Deleting, Removing

(* An up-to-date cache lags behind nothing. *)
LEMMA CacheSyncStep ==
    ASSUME FinalizerInv, TypeOK', CacheSync
    PROVE  FinalizerInv'
<1>1. UNCHANGED <<fwd, alloc, nodeNetworkID, local>> /\ fwdC' = fwd
    BY DEF CacheSync, env
<1>2. Held' = Held
    BY <1>1 DEF Held
<1> QED
    BY <1>1, <1>2 DEF local, FinalizerInv, Presence, CacheLags, Tagged, Guarded, Creating, Deleting, Removing

(* What others do to the object: they never touch the finalizer. *)
LEMMA ObjectStep ==
    ASSUME FinalizerInv, TypeOK', ClusterAdopts \/ RequestDelete \/ UserRollsFirewall
    PROVE  FinalizerInv'
<1>1. UNCHANGED <<fwdC, alloc, nodeNetworkID, local>>
    BY DEF ClusterAdopts, RequestDelete, UserRollsFirewall, env
<1>2. Held' = Held
    BY <1>1 DEF Held
<1>3. fwd'.finalizer = fwd.finalizer /\ (fwd.deleting => fwd'.deleting) /\ Presence'
    BY DEF ClusterAdopts, RequestDelete, UserRollsFirewall, Deleted, Settled, FinalizerInv, TypeOK,
           Presence, Deployment
<1> QED
    BY <1>1, <1>2, <1>3 DEF local, FinalizerInv, CacheLags, Tagged, Guarded, Creating, Deleting, Removing

(* What others do to cluster, template, machines and firewalls. *)
LEMMA WorldStep ==
    ASSUME FinalizerInv, TypeOK',
           ClusterNetwork \/ ClusterGone \/ MachinesChange \/ UserDeletesTemplate \/ UserFreesFirewall
    PROVE  FinalizerInv'
<1>1. UNCHANGED <<fwd, fwdC, local>>
    BY DEF ClusterNetwork, ClusterGone, MachinesChange, UserDeletesTemplate, UserFreesFirewall, objects
<1>2. Held' \subseteq Held
    BY DEF ClusterNetwork, ClusterGone, MachinesChange, UserDeletesTemplate, UserFreesFirewall, Held,
           FinalizerInv, TypeOK
<1>3. Tagged' /\ (fwd.finalizer \/ Held # {} => nodeNetworkID' = nodeNetworkID \/ nodeNetworkID = None)
    <2>1. CASE ClusterNetwork
        BY <2>1 DEF ClusterNetwork, FinalizerInv, Tagged
    <2>4. CASE ClusterGone
        <3>1. ~fwd.finalizer /\ Held = {} /\ UNCHANGED alloc
            BY <2>4 DEF ClusterGone, FinalizerInv, Presence, Guarded, TypeOK, Deployment
        <3> QED
            BY <3>1 DEF Held, Tagged
    <2>2. CASE MachinesChange \/ UserDeletesTemplate
        BY <2>2 DEF MachinesChange, UserDeletesTemplate, FinalizerInv, Tagged
    <2>3. CASE UserFreesFirewall
        BY <2>3 DEF UserFreesFirewall, FinalizerInv, Tagged, TypeOK
    <2> QED
        BY <2>1, <2>2, <2>3, <2>4
<1>4. Held # {} => nodeNetworkID # None
    BY DEF Held, FinalizerInv, Tagged
<1> QED
    BY <1>1, <1>2, <1>3, <1>4
       DEF local, FinalizerInv, Presence, CacheLags, Guarded, Creating, Deleting, Removing

(* Every step keeps what relates finalizer and firewalls. *)
LEMMA NextFinalizerInv == FinalizerInv /\ [Next]_vars => FinalizerInv'
<1> SUFFICES ASSUME FinalizerInv, [Next]_vars PROVE FinalizerInv'
    OBVIOUS
<1>1. TypeOK'
    BY NextTypeOK DEF FinalizerInv
<1>2. CASE Controller
    BY <1>1, <1>2, BeginStep, CreateStep, AllocateStep, FindStep, FreeStep, FinishStep, PatchStep
       DEF Controller
<1>3. CASE FindFails \/ Crash \/ CacheSync
    BY <1>1, <1>3, FindStep, CrashStep, CacheSyncStep
<1>4. CASE Environment
    BY <1>1, <1>4, ObjectStep, WorldStep DEF Environment
<1>5. CASE UNCHANGED vars
    BY <1>5 DEF vars, objects, env, local, FinalizerInv, TypeOK, Presence, CacheLags, Tagged, Guarded,
       Creating, Deleting, Removing, Held
<1> QED
    BY <1>2, <1>3, <1>4, <1>5 DEF Next

-----------------------------------------------------------------------------
(* Reference and firewalls *)

(* Initially there is neither a reference nor a firewall. *)
LEMMA InitReferenced == Init => Referenced /\ Single
BY DEF Init, Blank, Referenced, Single, Unwritten, Held

(* Steps that change neither the references nor the firewalls, and name none. *)
LEMMA NamelessStep ==
    ASSUME IInv, UNCHANGED <<alloc, rolled>>, fwd'.ref = fwd.ref, fwd.deleting => fwd'.deleting,
           after'.ref = before'.ref, ~Unwritten, faults' = 0 => faults = 0,
           faults' = 0 /\ pc' \in {"template", "allocate"} /\ before'.ref = None => fwd'.ref = None
    PROVE  Referenced' /\ Single'
<1>1. Held' = Held /\ ~Unwritten'
    BY DEF Held, Unwritten
<1>2. (~fwd'.deleting => /\ rolled' \subseteq Held'
                         /\ fwd'.ref # None => fwd'.ref \in Held' \ rolled')
    BY <1>1 DEF IInv, Referenced
<1>3. faults' = 0 => Held' \ rolled' \subseteq {fwd'.ref}
    BY <1>1 DEF IInv, Single
<1> QED
    BY <1>1, <1>2, <1>3 DEF Referenced, Single

(* A fault is never forgotten. *)
LEMMA AnsweredFaults == ASSUME TypeOK, faults' = 0, NEW ok \in BOOLEAN, Answered(ok) PROVE faults = 0 /\ ok
BY FirewallAssumption DEF Answered, Fault, TypeOK

LEMMA FaultFaults == ASSUME TypeOK, Fault PROVE faults' # 0
BY FirewallAssumption DEF Fault, TypeOK

(* A reconciliation that begins names what the cache names; without a fault
   that is what the server names. *)
LEMMA BeginReferenced ==
    ASSUME IInv, AddFinalizer \/ StartReconcile \/ StartDelete
    PROVE  Referenced' /\ Single'
<1>1. /\ UNCHANGED <<fwd, alloc, rolled>> /\ pc = "idle" /\ before' = fwdC /\ after'.ref = before'.ref
      /\ Answered(fwdC = fwd)
    BY DEF AddFinalizer, StartReconcile, StartDelete, Begin, objects, env, IInv, FinalizerInv, TypeOK, Deployment
<1>2. faults' = 0 => faults = 0 /\ fwdC = fwd
    BY <1>1, AnsweredFaults DEF IInv, FinalizerInv
<1> QED
    BY <1>1, <1>2, NamelessStep DEF Unwritten

(* Steps of a reconciliation that allocate and free nothing. *)
LEMMA QuietReferenced ==
    ASSUME IInv,
           \/ EnsureTemplateOwnerRef \/ KeepFirewall \/ RefuseTemplate \/ AllocationRefused
           \/ FindFirewalls \/ FindFails \/ FinishDelete
    PROVE  Referenced' /\ Single'
<1>1. /\ UNCHANGED <<fwd, alloc, rolled, before>> /\ pc # "patch"
      /\ pc' \in {"template", "allocate"} => pc = "template"
    BY DEF EnsureTemplateOwnerRef, KeepFirewall, RefuseTemplate, AllocationRefused, FindFirewalls,
           FindFails, FinishDelete, ToPatch, objects, env
<1>2. after'.ref = after.ref
    <2>1. \/ after' = after \/ after' = [after EXCEPT !.ready = TRUE]
          \/ after' = [after EXCEPT !.finalizer = @ /\ failed]
        BY DEF EnsureTemplateOwnerRef, KeepFirewall, RefuseTemplate, AllocationRefused, FindFirewalls,
               FindFails, FinishDelete, ToPatch
    <2> QED
        BY <2>1 DEF IInv, FinalizerInv, TypeOK, Deployment
<1>3. faults' = 0 => faults = 0
    <2>1. CASE EnsureTemplateOwnerRef
        BY <2>1, AnsweredFaults DEF EnsureTemplateOwnerRef, IInv, FinalizerInv
    <2>2. CASE AllocationRefused
        BY <2>2, AnsweredFaults DEF AllocationRefused, IInv, FinalizerInv
    <2>3. CASE FindFails
        BY <2>3, FaultFaults DEF FindFails, IInv, FinalizerInv
    <2> QED
        BY <2>1, <2>2, <2>3 DEF KeepFirewall, RefuseTemplate, FindFirewalls, FinishDelete
<1>4. after'.ref = before'.ref /\ ~Unwritten
    BY <1>1, <1>2 DEF IInv, Referenced, Unwritten
<1>5. faults' = 0 /\ pc' \in {"template", "allocate"} /\ before'.ref = None => fwd'.ref = None
    BY <1>1, <1>3 DEF IInv, Single
<1> QED
    BY <1>1, <1>3, <1>4, <1>5, NamelessStep

(* The firewall that is allocated is a new one; without a fault it is the only
   one, and its reference is about to be written. *)
LEMMA AllocateReferenced ==
    ASSUME IInv, AllocateFirewall
    PROVE  Referenced' /\ Single'
<1> USE FirewallAssumption
<1>1. PICK h \in Hardware \ Held, answered \in BOOLEAN :
         /\ Answered(answered)
         /\ alloc' = [alloc EXCEPT ![h] = network]
         /\ ToPatch(IF answered THEN [after EXCEPT !.ref = h, !.ready = TRUE] ELSE after)
    BY DEF AllocateFirewall
<1>2. UNCHANGED <<fwd, rolled, before>> /\ pc = "allocate" /\ pc' = "patch" /\ after.ref = None
    BY <1>1 DEF AllocateFirewall, ToPatch, objects, env
<1>3. before.ref = None /\ ~Unwritten
    BY <1>2 DEF IInv, Referenced, Unwritten
<1>4. Held' = Held \cup {h} /\ h # None
    BY <1>1, <1>2 DEF Held, IInv, FinalizerInv, TypeOK, Creating
<1>5. after'.ref = IF answered THEN h ELSE None
    BY <1>1, <1>2 DEF ToPatch, IInv, FinalizerInv, TypeOK, Deployment
<1>6. Referenced'
    <2> SUFFICES ASSUME ~fwd.deleting
                 PROVE  /\ rolled \subseteq Held'
                        /\ fwd.ref # None => fwd.ref \in Held' \ rolled
                        /\ Unwritten' => after'.ref \in Held' \ (rolled \cup {fwd.ref})
        BY <1>2 DEF Referenced
    <2>1. rolled \subseteq Held /\ (fwd.ref # None => fwd.ref \in Held \ rolled)
        BY DEF IInv, Referenced
    <2>2. h \notin rolled \cup {fwd.ref}
        BY <1>1, <1>4, <2>1
    <2> QED
        BY <1>2, <1>3, <1>4, <1>5, <2>1, <2>2 DEF Unwritten
<1>7. Single'
    <2> SUFFICES ASSUME faults' = 0 PROVE Held' \ rolled \subseteq {IF Unwritten' THEN after'.ref ELSE fwd.ref}
        BY <1>2 DEF Single
    <2>1. faults = 0 /\ answered
        BY <1>1, AnsweredFaults DEF IInv, FinalizerInv
    <2>2. Held \ rolled \subseteq {None}
        BY <1>2, <1>3, <2>1 DEF IInv, Single
    <2>3. None \notin Held
        BY DEF Held
    <2>4. Unwritten' /\ after'.ref = h
        BY <1>2, <1>3, <1>4, <1>5, <2>1 DEF Unwritten
    <2> QED
        BY <1>4, <2>2, <2>3, <2>4
<1> QED
    BY <1>6, <1>7

(* Firewalls are freed by a reconciliation once the deletion is requested. *)
LEMMA FreeReferenced ==
    ASSUME IInv, NEW h \in Hardware, FreeFirewall(h)
    PROVE  Referenced' /\ Single'
<1>1. PICK answered \in BOOLEAN, arrived \in BOOLEAN :
         /\ Answered(answered \/ alloc[h] = None)
         /\ alloc' = [alloc EXCEPT ![h] = IF arrived THEN None ELSE @]
    BY DEF FreeFirewall
<1>2. UNCHANGED <<fwd, rolled, pc, before, after>> /\ pc = "free"
    BY DEF FreeFirewall, objects, env
<1>3. fwd.deleting /\ after.ref = before.ref /\ ~Unwritten
    BY <1>2 DEF IInv, FinalizerInv, CacheLags, Deleting, Referenced, Unwritten
<1>4. Held' \subseteq Held
    BY <1>1 DEF Held, IInv, FinalizerInv, TypeOK
<1>5. faults' = 0 => faults = 0
    BY <1>1, AnsweredFaults DEF IInv, FinalizerInv
<1>6. faults' = 0 => Held' \ rolled' \subseteq {fwd'.ref}
    BY <1>2, <1>3, <1>4, <1>5 DEF IInv, Single
<1> QED
    BY <1>2, <1>3, <1>6 DEF Referenced, Single, Unwritten

(* What the patch does to the reference: it writes the one of a firewall that
   was allocated, or none. *)
LEMMA PatchReference ==
    ASSUME TypeOK, Patch
    PROVE  \E spec \in BOOLEAN, status \in BOOLEAN :
             /\ spec \/ status => fwd.exists
             /\ Answered((spec /\ status) \/ before = after \/ ~fwd.exists)
             /\ fwd'.ref = IF spec /\ after.ref # before.ref THEN after.ref ELSE fwd.ref
<1>1. PICK spec \in BOOLEAN, status \in BOOLEAN :
         /\ spec \/ status => fwd.exists
         /\ Answered((spec /\ status) \/ before = after \/ ~fwd.exists)
         /\ fwd' = Settled([fwd EXCEPT
              !.finalizer = IF spec   THEN Merged(@, before.finalizer, after.finalizer) ELSE @,
              !.ref       = IF spec   THEN Merged(@, before.ref, after.ref)             ELSE @,
              !.ready     = IF status THEN Merged(@, before.ready, after.ready)         ELSE @])
    BY DEF Patch
<1>2. fwd'.ref = IF spec THEN Merged(fwd.ref, before.ref, after.ref) ELSE fwd.ref
    BY <1>1 DEF Settled, TypeOK, Deployment
<1> QED
    BY <1>1, <1>2 DEF Merged

(* The patch writes the reference of the firewall that was allocated. *)
LEMMA PatchReferenced ==
    ASSUME IInv, Patch
    PROVE  Referenced' /\ Single'
<1>1. /\ UNCHANGED <<alloc, rolled>> /\ pc = "patch" /\ pc' = "idle"
      /\ after'.ref = before'.ref /\ fwd'.deleting = fwd.deleting
    BY PatchFinalizer DEF Patch, Forget, env, IInv
<1>2. PICK spec \in BOOLEAN, status \in BOOLEAN :
         /\ spec \/ status => fwd.exists
         /\ Answered((spec /\ status) \/ before = after \/ ~fwd.exists)
         /\ fwd'.ref = IF spec /\ after.ref # before.ref THEN after.ref ELSE fwd.ref
    BY PatchReference DEF IInv, FinalizerInv
<1>3. Held' = Held /\ ~Unwritten'
    BY <1>1 DEF Held, Unwritten
<1>4. ~fwd.deleting => rolled \subseteq Held /\ (fwd'.ref # None => fwd'.ref \in Held \ rolled)
    BY <1>1, <1>2 DEF IInv, Referenced, Unwritten
<1>5. faults' = 0 => Held \ rolled \subseteq {fwd'.ref}
    <2> SUFFICES ASSUME faults' = 0 PROVE Held \ rolled \subseteq {fwd'.ref}
        OBVIOUS
    <2>1. faults = 0 /\ ((spec /\ status) \/ before = after \/ ~fwd.exists)
        BY <1>2, AnsweredFaults DEF IInv, FinalizerInv
    <2>2. CASE ~fwd.exists
        BY <2>2 DEF IInv, FinalizerInv, Presence, Guarded
    <2>3. CASE fwd.exists
        <3>1. fwd'.ref = IF Unwritten THEN after.ref ELSE fwd.ref
            BY <1>1, <1>2, <2>1, <2>3 DEF Unwritten
        <3> QED
            BY <2>1, <3>1 DEF IInv, Single
    <2> QED
        BY <2>2, <2>3
<1> QED
    BY <1>1, <1>3, <1>4, <1>5 DEF Referenced, Single

(* The user takes a firewall off the spec, or frees one that is off. *)
LEMMA RollReferenced ==
    ASSUME IInv, UserRollsFirewall \/ UserFreesFirewall
    PROVE  Referenced' /\ Single'
<1> USE FirewallAssumption
<1>1. UNCHANGED <<pc, before, after, faults>> /\ fwd'.deleting = fwd.deleting /\ Unwritten' = Unwritten
    BY DEF UserRollsFirewall, UserFreesFirewall, objects, local, IInv, FinalizerInv, TypeOK, Deployment,
           Unwritten
<1>2. CASE UserRollsFirewall
    <2>1. /\ fwd.ref # None /\ fwd'.ref = None /\ rolled' = rolled \cup {fwd.ref} /\ Held' = Held
        BY <1>2 DEF UserRollsFirewall, IInv, FinalizerInv, TypeOK, Deployment, Held
    <2>2. Referenced'
        <3>1. ~fwd.deleting => rolled' \subseteq Held' /\ (Unwritten => after.ref \in Held \ rolled')
            BY <2>1 DEF IInv, Referenced
        <3>2. after.ref \in Held => after.ref # None
            BY DEF Held
        <3> QED
            BY <1>1, <2>1, <3>1, <3>2 DEF IInv, Referenced
    <2>3. Single'
        BY <1>1, <2>1 DEF IInv, Single
    <2> QED
        BY <2>2, <2>3
<1>3. CASE UserFreesFirewall
    <2>1. PICK h \in rolled : alloc' = [alloc EXCEPT ![h] = None] /\ rolled' = rolled \ {h}
        BY <1>3 DEF UserFreesFirewall
    <2>2. Held' = Held \ {h} /\ fwd' = fwd
        BY <1>3, <2>1 DEF UserFreesFirewall, objects, Held, IInv, FinalizerInv, TypeOK
    <2>3. Referenced'
        BY <1>1, <2>1, <2>2 DEF IInv, Referenced
    <2>4. Single'
        BY <1>1, <2>1, <2>2 DEF IInv, Single
    <2> QED
        BY <2>3, <2>4
<1> QED
    BY <1>2, <1>3

(* What else happens around the controller names and frees no firewall. *)
LEMMA WorldReferenced ==
    ASSUME IInv,
           \/ CacheSync \/ ClusterAdopts \/ ClusterNetwork \/ ClusterGone \/ RequestDelete
           \/ MachinesChange \/ UserDeletesTemplate \/ UNCHANGED vars
    PROVE  Referenced' /\ Single'
<1>1. UNCHANGED <<alloc, rolled, pc, before, after, faults>>
    BY DEF CacheSync, ClusterAdopts, ClusterNetwork, ClusterGone, RequestDelete, MachinesChange,
           UserDeletesTemplate, vars, env, local
<1>2. fwd'.ref = fwd.ref /\ (fwd.deleting => fwd'.deleting)
    BY DEF CacheSync, ClusterAdopts, ClusterNetwork, ClusterGone, RequestDelete, MachinesChange,
           UserDeletesTemplate, vars, objects, Deleted, Settled, IInv, FinalizerInv, TypeOK, Deployment
<1>3. Held' = Held /\ Unwritten' = Unwritten
    BY <1>1 DEF Held, Unwritten
<1> QED
    BY <1>1, <1>2, <1>3 DEF IInv, Referenced, Single

(* Every step keeps the inductive invariant. *)
LEMMA NextIInv == IInv /\ [Next]_vars => IInv'
<1> SUFFICES ASSUME IInv, [Next]_vars PROVE IInv'
    OBVIOUS
<1>1. FinalizerInv'
    BY NextFinalizerInv DEF IInv
<1>2. CASE Crash
    <2>1. UNCHANGED <<fwd, alloc, rolled>> /\ pc' = "idle" /\ after'.ref = before'.ref /\ faults' # 0
        BY <1>2, FaultFaults DEF Crash, Forget, objects, env, IInv, FinalizerInv
    <2> QED
        BY <1>1, <2>1 DEF IInv, Referenced, Single, Unwritten, Held
<1>3. CASE Controller \/ FindFails
    BY <1>1, <1>3, BeginReferenced, QuietReferenced, AllocateReferenced, FreeReferenced, PatchReferenced
       DEF Controller, IInv
<1>4. CASE CacheSync \/ Environment \/ UNCHANGED vars
    BY <1>1, <1>4, RollReferenced, WorldReferenced DEF Environment, IInv
<1> QED
    BY <1>2, <1>3, <1>4 DEF Next

(* The inductive invariant holds: finalizer, cache, tags, references and the
   local state of the reconciliation agree, whatever fails. *)
THEOREM Invariance == Spec => []IInv
<1>1. Init => IInv
    BY InitFinalizerInv, InitReferenced DEF IInv
<1> QED
    BY <1>1, NextIInv, PTL DEF Spec

(* No firewall is left behind when the object is gone. *)
THEOREM NoFirewallLeft == Spec => []FirewallsFreedBeforeRemoval
<1>1. IInv => FirewallsFreedBeforeRemoval
    BY DEF IInv, FinalizerInv, Presence, Guarded, FirewallsFreedBeforeRemoval, TypeOK, Deployment
<1> QED
    BY <1>1, Invariance, PTL

(* The firewall the spec names is allocated until the deletion is requested,
   whatever was lost, repeated or read too late. *)
THEOREM NamedFirewallAllocated == Spec => []ReferenceIsAllocated
<1>1. IInv => ReferenceIsAllocated
    BY DEF IInv, Referenced, ReferenceIsAllocated, Held
<1> QED
    BY <1>1, Invariance, PTL

(* If nothing was lost and no cache was out of date, there is one firewall
   besides those the user rolls. *)
THEOREM OneFirewall == Spec => []SingleFirewall
<1>1. IInv => SingleFirewall
    BY DEF IInv, Single, SingleFirewall
<1> QED
    BY <1>1, Invariance, PTL
-----------------------------------------------------------------------------
(* Refinement of FinalizerContract *)

(* What the contract sees of the object. *)
Phase == IF ~fwd.exists THEN "removed"
         ELSE IF ~fwd.finalizer THEN "unguarded"
         ELSE IF fwd.deleting THEN "terminating" ELSE "guarded"

ContractStep == [Contract!Next]_(Contract!vars)

(* A step that leaves the object's phase alone and takes or frees at most one
   server is a step of the contract, if it takes it under the finalizer. *)
LEMMA HeldStep ==
    ASSUME Phase' = Phase,
           \/ Held' = Held
           \/ \E h \in Held : Held' = Held \ {h}
           \/ Phase \in {"guarded", "terminating"} /\ \E h \in Hardware \ Held : Held' = Held \cup {h}
    PROVE  ContractStep
BY DEF ContractStep, Contract!Next, Contract!Acquire, Contract!Release, Contract!vars, Phase

(* The phase depends on three fields of the object. *)
LEMMA SamePhase ==
    ASSUME fwd'.exists = fwd.exists, fwd'.finalizer = fwd.finalizer, fwd'.deleting = fwd.deleting
    PROVE  Phase' = Phase
BY DEF Phase

(* The initial state of the controller is one of the contract. *)
LEMMA InitContract == Init => Contract!Init
BY DEF Init, Blank, Contract!Init, Held

(* Allocating is acquiring: the finalizer is on the object. *)
LEMMA AllocateContract == FinalizerInv /\ AllocateFirewall => ContractStep
<1> SUFFICES ASSUME FinalizerInv, AllocateFirewall PROVE ContractStep
    OBVIOUS
<1>1. PICK h \in Hardware \ Held : alloc' = [alloc EXCEPT ![h] = network]
    BY DEF AllocateFirewall
<1>2. Phase' = Phase
    BY SamePhase DEF AllocateFirewall, objects
<1>3. fwd.finalizer /\ fwd.exists /\ network # None
    BY DEF AllocateFirewall, FinalizerInv, Creating, Presence
<1>4. Phase \in {"guarded", "terminating"}
    BY <1>3 DEF Phase
<1>5. Held' = Held \cup {h}
    BY <1>1, <1>3 DEF Held, FinalizerInv, TypeOK
<1> QED
    BY <1>2, <1>4, <1>5, HeldStep

(* Freeing a server, by the controller or by the user, is releasing it. *)
LEMMA FreeContract ==
    ASSUME FinalizerInv, UNCHANGED fwd, NEW h \in Hardware,
           alloc' = alloc \/ alloc' = [alloc EXCEPT ![h] = None]
    PROVE  ContractStep
<1>1. Phase' = Phase
    BY SamePhase
<1>2. CASE alloc[h] = None \/ alloc' = alloc
    <2>1. Held' = Held
        BY <1>2 DEF Held, FinalizerInv, TypeOK
    <2> QED
        BY <1>1, <2>1, HeldStep
<1>3. CASE alloc[h] # None /\ alloc' = [alloc EXCEPT ![h] = None]
    <2>1. h \in Held /\ Held' = Held \ {h}
        BY <1>3 DEF Held, FinalizerInv, TypeOK
    <2> QED
        BY <1>1, <2>1, HeldStep
<1> QED
    BY <1>2, <1>3

(* The patch guards the object, or removes it when nothing is held, or does
   nothing the contract sees. *)
LEMMA PatchContract == FinalizerInv /\ Patch => ContractStep
<1> SUFFICES ASSUME FinalizerInv, Patch PROVE ContractStep
    OBVIOUS
<1>1. Held' = Held
    BY DEF Patch, Held
<1>2. CASE ~fwd.exists \/ fwd'.finalizer = fwd.finalizer
    <2>1. Phase' = Phase
        BY <1>2, PatchFinalizer, SamePhase DEF FinalizerInv, Presence, TypeOK, Deployment
    <2> QED
        BY <1>1, <2>1, HeldStep
<1>3. CASE fwd.exists /\ ~fwd.finalizer /\ fwd'.finalizer
    <2>1. Phase = "unguarded" /\ Phase' = "guarded"
        BY <1>3, PatchFinalizer DEF FinalizerInv, Presence, Phase
    <2> QED
        BY <1>1, <2>1 DEF ContractStep, Contract!Next, Contract!Guard, Phase
<1>4. CASE fwd.exists /\ fwd.finalizer /\ ~fwd'.finalizer
    <2>1. fwd.deleting /\ Held = {}
        BY <1>4, PatchFinalizer DEF FinalizerInv, CacheLags
    <2>2. Phase = "terminating" /\ Phase' = "removed"
        BY <1>4, <2>1, PatchFinalizer DEF Phase
    <2> QED
        BY <1>1, <2>1, <2>2 DEF ContractStep, Contract!Next, Contract!Remove, Phase
<1>5. fwd.finalizer \in BOOLEAN /\ fwd'.finalizer \in BOOLEAN
    BY NextTypeOK DEF FinalizerInv, TypeOK, Deployment, Next, Controller
<1> QED
    BY <1>2, <1>3, <1>4, <1>5

(* The deletion request is the contract's. *)
LEMMA DeleteContract == FinalizerInv /\ RequestDelete => ContractStep
<1> SUFFICES ASSUME FinalizerInv, RequestDelete PROVE ContractStep
    OBVIOUS
<1>1. Held' = Held
    BY DEF RequestDelete, Held
<1>2. /\ fwd.exists /\ ~fwd.deleting /\ fwd'.deleting
      /\ fwd'.finalizer = fwd.finalizer /\ fwd'.exists = fwd.finalizer
    BY DEF RequestDelete, Deleted, Settled, FinalizerInv, TypeOK, Deployment
<1>3. \/ Phase = "unguarded" /\ Phase' = "removed"
      \/ Phase = "guarded" /\ Phase' = "terminating"
    BY <1>2 DEF Phase
<1> QED
    BY <1>1, <1>3 DEF ContractStep, Contract!Next, Contract!Delete, Phase

(* Every step of the controller and of its world is a step of the contract or
   one the contract does not see. *)
LEMMA NextContract == FinalizerInv /\ [Next]_vars => ContractStep
<1> SUFFICES ASSUME FinalizerInv, [Next]_vars PROVE ContractStep
    OBVIOUS
<1>1. ASSUME UNCHANGED alloc, fwd'.exists = fwd.exists, fwd'.finalizer = fwd.finalizer,
             fwd'.deleting = fwd.deleting
      PROVE  ContractStep
    BY <1>1, SamePhase, HeldStep DEF Held
<1>2. CASE \/ AddFinalizer \/ StartReconcile \/ StartDelete \/ EnsureTemplateOwnerRef \/ KeepFirewall
           \/ RefuseTemplate \/ AllocationRefused \/ FindFirewalls \/ FindFails \/ FinishDelete \/ Crash
    <2>1. UNCHANGED <<fwd, alloc>>
        BY <1>2 DEF AddFinalizer, StartReconcile, StartDelete, Begin, EnsureTemplateOwnerRef,
           KeepFirewall, RefuseTemplate, AllocationRefused, FindFirewalls, FindFails,
           FinishDelete, Crash, objects
    <2> QED
        BY <1>1, <2>1
<1>3. CASE \/ CacheSync \/ ClusterNetwork \/ ClusterGone \/ MachinesChange \/ UserDeletesTemplate
           \/ UNCHANGED vars
    <2>1. UNCHANGED <<fwd, alloc>>
        BY <1>3 DEF CacheSync, ClusterNetwork, ClusterGone, MachinesChange, UserDeletesTemplate,
           vars, objects
    <2> QED
        BY <1>1, <2>1
<1>4. CASE ClusterAdopts \/ UserRollsFirewall
    BY <1>1, <1>4 DEF ClusterAdopts, UserRollsFirewall, FinalizerInv, TypeOK, Deployment
<1>5. ASSUME NEW h \in Hardware, FreeFirewall(h) PROVE ContractStep
    <2>1. alloc' = [alloc EXCEPT ![h] = None] \/ alloc' = alloc
        BY <1>5 DEF FreeFirewall, FinalizerInv, TypeOK
    <2> QED
        BY <1>5, <2>1, FreeContract DEF FreeFirewall, objects
<1>6. CASE UserFreesFirewall
    <2>1. PICK h \in rolled : alloc' = [alloc EXCEPT ![h] = None]
        BY <1>6 DEF UserFreesFirewall
    <2>2. h \in Hardware
        BY <2>1 DEF FinalizerInv, TypeOK
    <2> QED
        BY <1>6, <2>1, <2>2, FreeContract DEF UserFreesFirewall, objects
<1> QED
    BY <1>2, <1>3, <1>4, <1>5, <1>6, AllocateContract, PatchContract, DeleteContract
       DEF Next, Controller, Environment

(* The controller implements the contract of its finalizer: servers are taken
   only under it, and the object goes only when none is left. *)
THEOREM ContractKept == Spec => KeepsContract
<1>1. Init => Contract!Init
    BY InitContract
<1>2. IInv /\ [Next]_vars => [Contract!Next]_(Contract!vars)
    BY NextContract DEF ContractStep, IInv
<1> QED
    BY <1>1, <1>2, Invariance, PTL DEF Spec, KeepsContract, Contract!Spec

-----------------------------------------------------------------------------
(* What the other controllers notice *)

(* Whoever finds this controller about to free firewalls, or to take the
   finalizer away, knows that it has waited for the machines. *)
Late == pc \in {"find", "free"} \/ (before.finalizer /\ ~after.finalizer)

(* The controller works on an adopted deployment, starts to free when no
   machine is listed, and writes the object in one place only, where it changes
   nothing of it that others see but the finalizer. *)
LEMMA ControllerEffect ==
    ASSUME FinalizerInv, Controller \/ FindFails
    PROVE  /\ UNCHANGED <<fwdC, nodeNetworkID, machinesLeft, rolled>>
           /\ pc' # "idle" => pc # "idle" \/ fwdC.owned
           /\ Late' => Late \/ ~machinesLeft
           /\ \/ fwd' = fwd
              \/ /\ fwd.exists /\ pc # "idle"
                 /\ fwd'.deleting = fwd.deleting /\ fwd'.owned = fwd.owned
                 /\ fwd'.exists = (fwd.deleting => fwd'.finalizer)
                 /\ fwd.finalizer /\ ~fwd'.finalizer => fwd.deleting /\ Late
<1>1. before.finalizer \in BOOLEAN /\ after.finalizer \in BOOLEAN /\ after \in Deployment /\ fwdC \in Deployment
    BY DEF FinalizerInv, TypeOK, Deployment
<1>2. CASE Patch
    <2>1. PICK spec \in BOOLEAN, status \in BOOLEAN :
             /\ spec \/ status => fwd.exists
             /\ fwd' = Settled([fwd EXCEPT
                  !.finalizer = IF spec   THEN Merged(@, before.finalizer, after.finalizer) ELSE @,
                  !.ref       = IF spec   THEN Merged(@, before.ref, after.ref)             ELSE @,
                  !.ready     = IF status THEN Merged(@, before.ready, after.ready)         ELSE @])
        BY <1>2 DEF Patch
    <2>2. /\ fwd'.finalizer = IF spec THEN Merged(fwd.finalizer, before.finalizer, after.finalizer)
                                       ELSE fwd.finalizer
          /\ fwd'.owned = fwd.owned
        BY <2>1 DEF Settled, FinalizerInv, TypeOK, Deployment
    <2>3. fwd.finalizer /\ ~fwd'.finalizer => before.finalizer /\ ~after.finalizer
        BY <1>1, <2>2 DEF Merged
    <2>4. UNCHANGED <<fwdC, nodeNetworkID, machinesLeft, rolled>> /\ pc = "patch" /\ pc' = "idle" /\ ~Late'
        BY <1>2 DEF Patch, Forget, env, Late, Blank
    <2> QED
        BY <1>2, <2>2, <2>3, <2>4, PatchFinalizer DEF Late, FinalizerInv, CacheLags
<1>3. ASSUME ~Patch PROVE fwd' = fwd /\ UNCHANGED <<fwdC, nodeNetworkID, machinesLeft, rolled>>
    BY <1>3 DEF Controller, AddFinalizer, StartReconcile, StartDelete, Begin, EnsureTemplateOwnerRef, KeepFirewall,
       RefuseTemplate, AllocateFirewall, AllocationRefused, FindFirewalls, FreeFirewall, FinishDelete, FindFails,
       objects, env
<1>4. ASSUME ~Patch PROVE pc' # "idle" => pc # "idle" \/ fwdC.owned
    BY <1>4 DEF Controller, AddFinalizer, StartReconcile, StartDelete, Begin, EnsureTemplateOwnerRef, KeepFirewall,
       RefuseTemplate, AllocateFirewall, AllocationRefused, FindFirewalls, FreeFirewall, FinishDelete, FindFails
<1>5. ASSUME AddFinalizer \/ StartReconcile \/ StartDelete PROVE Late' => ~machinesLeft
    BY <1>1, <1>5 DEF AddFinalizer, StartReconcile, StartDelete, Begin, Late, Deployment
<1>6. ASSUME EnsureTemplateOwnerRef \/ KeepFirewall \/ RefuseTemplate \/ AllocateFirewall \/ AllocationRefused
      PROVE  Late' => Late
    BY <1>1, <1>6 DEF EnsureTemplateOwnerRef, KeepFirewall, RefuseTemplate, AllocateFirewall, AllocationRefused,
       ToPatch, Late, Deployment
<1>7. ASSUME FindFirewalls \/ (\E h \in Hardware : FreeFirewall(h)) \/ FinishDelete \/ FindFails PROVE Late
    BY <1>7 DEF FindFirewalls, FreeFirewall, FinishDelete, FindFails, Late
<1> QED
    BY <1>2, <1>3, <1>4, <1>5, <1>6, <1>7 DEF Controller
=============================================================================
