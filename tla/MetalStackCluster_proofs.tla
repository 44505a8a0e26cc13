----------------------- MODULE MetalStackCluster_proofs -----------------------
(***************************************************************************)
(* Proofs about MetalStackCluster for any networks and IPs of the          *)
(* metal-stack API and any number of faults, stale reads among them.       *)
(***************************************************************************)
EXTENDS MetalStackCluster, TLAPS

-----------------------------------------------------------------------------
(* Type correctness *)

(* Answers and fresh or stale reads keep the number of faults within its
   bound. *)
LEMMA AnsweredBound ==
    ASSUME faults \in 0 .. MaxFaults, stale \in BOOLEAN, NEW ok \in BOOLEAN, Answered(ok)
    PROVE  faults' \in 0 .. MaxFaults /\ stale' \in BOOLEAN
BY ClusterAssumption DEF Answered, Fault

LEMMA ReadsFreshBound ==
    ASSUME faults \in 0 .. MaxFaults, stale \in BOOLEAN, NEW ok \in BOOLEAN, ReadsFresh(ok)
    PROVE  faults' \in 0 .. MaxFaults /\ stale' \in BOOLEAN
<1>1. CASE ok
    BY <1>1 DEF ReadsFresh, past
<1>2. CASE ~ok
    <2>1. Fault /\ stale' = TRUE
        BY <1>2 DEF ReadsFresh
    <2> QED
        BY <2>1, ClusterAssumption DEF Fault
<1> QED
    BY <1>1, <1>2

(* What the controller writes into its copy keeps it a cluster object. *)
LEMMA ClusterUpdates ==
    ASSUME NEW o \in Cluster, NEW b \in BOOLEAN, NEW n \in Networks \cup {None},
           NEW h \in IPs \cup {UserHost, None}
    PROVE  /\ [o EXCEPT !.exists = b] \in Cluster
           /\ [o EXCEPT !.deleting = b] \in Cluster
           /\ [o EXCEPT !.finalizer = b] \in Cluster
           /\ [o EXCEPT !.nodeNetworkID = n] \in Cluster
           /\ [o EXCEPT !.nodeNetworkID = None, !.finalizer = FALSE] \in Cluster
           /\ [o EXCEPT !.controlPlaneIP = None] \in Cluster
           /\ [o EXCEPT !.host = h, !.ready = TRUE] \in Cluster
BY DEF Cluster

(* What users and controllers write into a firewall deployment. *)
LEMMA DeploymentUpdates ==
    ASSUME NEW o \in Deployment, NEW b \in BOOLEAN
    PROVE  /\ [o EXCEPT !.exists = b] \in Deployment
           /\ [o EXCEPT !.finalizer = b] \in Deployment
           /\ [o EXCEPT !.deleting = b] \in Deployment
           /\ [o EXCEPT !.owned = b] \in Deployment
BY DEF Deployment

(* What the API server stores after an update has the type of the update. *)
LEMMA SettledCluster == ASSUME NEW o \in Cluster PROVE Settled(o) \in Cluster
<1>1. (o.exists /\ (o.deleting => o.finalizer)) \in BOOLEAN
    OBVIOUS
<1> QED
    BY <1>1 DEF Settled, Cluster

LEMMA SettledDeployment == ASSUME NEW o \in Deployment PROVE Settled(o) \in Deployment
<1>1. (o.exists /\ (o.deleting => o.finalizer)) \in BOOLEAN
    OBVIOUS
<1> QED
    BY <1>1, DeploymentUpdates DEF Settled

LEMMA DeletedDeployment == ASSUME NEW o \in Deployment PROVE Deleted(o) \in Deployment
BY DeploymentUpdates, SettledDeployment DEF Deleted

(* What a patch does to the object, field by field: metadata and spec are
   merged together or not at all, the status likewise, and an object that lost
   its finalizer while it was being deleted is gone. *)
LEMMA PatchEffect ==
    ASSUME TypeOK, Patch
    PROVE  \E spec \in BOOLEAN, status \in BOOLEAN :
             /\ spec \/ status => cluster.exists
             /\ Answered((spec /\ status) \/ before = after \/ ~cluster.exists)
             /\ cluster' \in Cluster
             /\ cluster'.finalizer = IF spec THEN Merged(cluster.finalizer, before.finalizer, after.finalizer)
                                             ELSE cluster.finalizer
             /\ cluster'.nodeNetworkID =
                  IF spec THEN Merged(cluster.nodeNetworkID, before.nodeNetworkID, after.nodeNetworkID)
                          ELSE cluster.nodeNetworkID
             /\ cluster'.host = IF spec THEN Merged(cluster.host, before.host, after.host) ELSE cluster.host
             /\ cluster'.ready = IF status THEN Merged(cluster.ready, before.ready, after.ready) ELSE cluster.ready
             /\ cluster'.deleting = cluster.deleting /\ cluster'.firewallRef = cluster.firewallRef
             /\ cluster'.exists = (cluster.exists /\ (cluster.deleting => cluster'.finalizer))
<1>1. PICK spec \in BOOLEAN, status \in BOOLEAN :
         /\ spec \/ status => cluster.exists
         /\ Answered((spec /\ status) \/ before = after \/ ~cluster.exists)
         /\ cluster' = Settled([cluster EXCEPT
              !.finalizer      = IF spec   THEN Merged(@, before.finalizer, after.finalizer)           ELSE @,
              !.nodeNetworkID  = IF spec   THEN Merged(@, before.nodeNetworkID, after.nodeNetworkID)   ELSE @,
              !.controlPlaneIP = IF spec   THEN Merged(@, before.controlPlaneIP, after.controlPlaneIP) ELSE @,
              !.host           = IF spec   THEN Merged(@, before.host, after.host)                     ELSE @,
              !.ready          = IF status THEN Merged(@, before.ready, after.ready)                   ELSE @])
    BY DEF Patch
<1> DEFINE f == IF spec THEN Merged(cluster.finalizer, before.finalizer, after.finalizer)
                        ELSE cluster.finalizer
           n == IF spec THEN Merged(cluster.nodeNetworkID, before.nodeNetworkID, after.nodeNetworkID)
                        ELSE cluster.nodeNetworkID
           i == IF spec THEN Merged(cluster.controlPlaneIP, before.controlPlaneIP, after.controlPlaneIP)
                        ELSE cluster.controlPlaneIP
           h == IF spec THEN Merged(cluster.host, before.host, after.host) ELSE cluster.host
           r == IF status THEN Merged(cluster.ready, before.ready, after.ready) ELSE cluster.ready
           o == [cluster EXCEPT !.finalizer = f, !.nodeNetworkID = n, !.controlPlaneIP = i,
                                !.host = h, !.ready = r]
<1>2. /\ f \in BOOLEAN /\ r \in BOOLEAN /\ n \in Networks \cup {None}
      /\ i \in IPs \cup {None} /\ h \in IPs \cup {UserHost, None}
    BY DEF TypeOK, Cluster, Merged
<1>3. cluster' = Settled(o)
    BY <1>1
<1> HIDE DEF f, n, i, h, r
<1>4. /\ o \in Cluster
      /\ o.finalizer = f /\ o.nodeNetworkID = n /\ o.host = h /\ o.ready = r
      /\ o.deleting = cluster.deleting /\ o.firewallRef = cluster.firewallRef /\ o.exists = cluster.exists
    BY <1>2 DEF TypeOK, Cluster
<1> HIDE DEF o
<1>5. /\ cluster' \in Cluster
      /\ cluster'.finalizer = f /\ cluster'.nodeNetworkID = n /\ cluster'.host = h /\ cluster'.ready = r
      /\ cluster'.deleting = cluster.deleting /\ cluster'.firewallRef = cluster.firewallRef
      /\ cluster'.exists = (cluster.exists /\ (cluster.deleting => f))
    BY <1>3, <1>4, SettledCluster DEF Settled, Cluster
<1> QED
    BY <1>1, <1>5 DEF f, n, h, r

(* The blank copy is a cluster object. *)
LEMMA BlankType == Blank \in Cluster
BY DEF Blank, Cluster

(* The initial state has its type. *)
LEMMA InitTypeOK == Init => TypeOK
<1> SUFFICES ASSUME Init PROVE TypeOK
    OBVIOUS
<1>1. PICK f \in BOOLEAN, n \in Networks \cup {None}, i \in IPs \cup {None}, h \in {UserHost, None} :
         cluster = [Blank EXCEPT !.firewallRef = f, !.nodeNetworkID = n, !.controlPlaneIP = i, !.host = h]
    BY DEF Init
<1>2. cluster \in Cluster
    BY <1>1 DEF Blank, Cluster
<1>3. \E e \in BOOLEAN : fwd = [exists |-> e, finalizer |-> FALSE, deleting |-> FALSE, owned |-> FALSE]
    BY DEF Init
<1>4. fwd \in Deployment
    BY <1>3 DEF Deployment
<1>5. networks \subseteq Networks /\ ips \subseteq IPs
    <2>1. networks = {cluster.nodeNetworkID} \ {None} /\ ips = {cluster.controlPlaneIP} \ {None}
        BY DEF Init
    <2>2. cluster.nodeNetworkID \in Networks \cup {None} /\ cluster.controlPlaneIP \in IPs \cup {None}
        BY <1>2 DEF Cluster
    <2> QED
        BY <2>1, <2>2
<1>6. faults \in 0 .. MaxFaults
    BY ClusterAssumption DEF Init
<1>7. /\ clusterC = cluster /\ fwdC = fwd /\ pc = "idle" /\ before = Blank /\ after = Blank
      /\ machines \in BOOLEAN /\ machinesC = machines /\ stale = FALSE
    BY DEF Init
<1> QED
    BY <1>2, <1>4, <1>5, <1>6, <1>7, BlankType DEF TypeOK, Steps

(* A reconciliation that begins has read an object of the right type. *)
LEMMA BeginTypeOK ==
    ASSUME TypeOK, NEW step \in Steps, NEW o \in Cluster, Begin(step, o)
    PROVE  TypeOK'
<1>1. faults' \in 0 .. MaxFaults /\ stale' \in BOOLEAN
    <2> DEFINE ok == clusterC = cluster /\ (step = "awaitFirewall" => machinesC = machines /\ fwdC = fwd)
    <2>1. ok \in BOOLEAN /\ ReadsFresh(ok)
        BY DEF Begin
    <2> QED
        BY <2>1, ReadsFreshBound DEF TypeOK
<1> QED
    BY <1>1 DEF Begin, TypeOK, objects, others, metal

(* A step that goes on with a well-typed copy, changing at most allocations,
   firewall deployment and fault count. *)
LEMMA GoOnTypeOK ==
    ASSUME TypeOK, NEW step \in Steps, NEW o \in Cluster, GoOn(step, o),
           UNCHANGED <<objects, fwdC, machines, machinesC>>,
           fwd' \in Deployment, networks' \subseteq Networks, ips' \subseteq IPs,
           faults' \in 0 .. MaxFaults, stale' \in BOOLEAN
    PROVE  TypeOK'
BY DEF GoOn, TypeOK, objects

(* Every step of controller, cache and environment keeps the types. *)
LEMMA NextTypeOK == TypeOK /\ [Next]_vars => TypeOK'
<1> SUFFICES ASSUME TypeOK, [Next]_vars PROVE TypeOK'
    OBVIOUS
<1>0. after \in Cluster /\ clusterC \in Cluster /\ fwd \in Deployment
    BY DEF TypeOK
<1>1. CASE AddFinalizer
    <2>1. [clusterC EXCEPT !.finalizer = TRUE] \in Cluster
        BY <1>0, ClusterUpdates
    <2> QED
        BY <1>1, <2>1, BeginTypeOK DEF AddFinalizer, Steps
<1>2. CASE StartReconcile
    BY <1>0, <1>2, BeginTypeOK DEF StartReconcile, Steps
<1>3. CASE StartDelete
    BY <1>0, <1>3, BeginTypeOK DEF StartDelete, Steps
<1>4. CASE KeepNetwork
    BY <1>0, <1>4, GoOnTypeOK DEF KeepNetwork, AfterNetwork, Steps, TypeOK, others, metal, past
<1>5. CASE AllocateNetwork
    <2>1. PICK n \in Networks \ networks, answered \in BOOLEAN :
             /\ Answered(answered)
             /\ networks' = networks \cup {n}
             /\ IF answered THEN GoOn(AfterNetwork, [after EXCEPT !.nodeNetworkID = n])
                            ELSE GoOn("patch", after)
        BY <1>5 DEF AllocateNetwork
    <2>2. [after EXCEPT !.nodeNetworkID = n] \in Cluster
        BY <1>0, ClusterUpdates
    <2>3. faults' \in 0 .. MaxFaults /\ stale' \in BOOLEAN
        BY <2>1, AnsweredBound DEF TypeOK
    <2>4. UNCHANGED <<objects, fwdC, machines, machinesC, fwd, ips>>
        BY <1>5 DEF AllocateNetwork, others
    <2>5. AfterNetwork \in Steps /\ "patch" \in Steps
        BY DEF AfterNetwork, Steps
    <2>6. networks' \subseteq Networks /\ ips' \subseteq IPs /\ fwd' \in Deployment
        BY <2>1, <2>4 DEF TypeOK
    <2>7. CASE answered
        BY <1>0, <2>1, <2>2, <2>3, <2>4, <2>5, <2>6, <2>7, GoOnTypeOK
    <2>8. CASE ~answered
        BY <1>0, <2>1, <2>3, <2>4, <2>5, <2>6, <2>8, GoOnTypeOK
    <2> QED
        BY <2>7, <2>8
<1>6. CASE NetworkRefused
    <2>1. faults' \in 0 .. MaxFaults /\ stale' \in BOOLEAN
        BY <1>6, AnsweredBound DEF NetworkRefused, TypeOK
    <2> QED
        BY <1>0, <1>6, <2>1, GoOnTypeOK DEF NetworkRefused, Steps, TypeOK, others, metal
<1>7. CASE AdoptFirewall
    <2>1. PICK answered \in BOOLEAN, arrived \in BOOLEAN :
             /\ Answered(answered \/ fwd # fwdC)
             /\ fwd' = IF arrived /\ fwd = fwdC THEN [fwd EXCEPT !.owned = TRUE] ELSE fwd
             /\ GoOn(IF answered /\ fwd = fwdC THEN "endpoint" ELSE "patch", after)
        BY <1>7 DEF AdoptFirewall
    <2>2. faults' \in 0 .. MaxFaults /\ stale' \in BOOLEAN
        BY <2>1, AnsweredBound DEF TypeOK
    <2>3. fwd' \in Deployment
        BY <1>0, <2>1, DeploymentUpdates
    <2> QED
        BY <1>0, <1>7, <2>1, <2>2, <2>3, GoOnTypeOK DEF AdoptFirewall, Steps, TypeOK, metal
<1>8. CASE KeepFirewall
    BY <1>0, <1>8, GoOnTypeOK DEF KeepFirewall, Steps, TypeOK, others, metal, past
<1>9. CASE KeepEndpoint
    <2>1. WithEndpoint(IF after.host # None THEN after.host ELSE after.controlPlaneIP) \in Cluster
        BY <1>0 DEF WithEndpoint, Cluster
    <2> QED
        BY <1>9, <2>1, GoOnTypeOK DEF KeepEndpoint, Steps, TypeOK, others, metal, past
<1>10. CASE AllocateIP
    <2>1. PICK i \in IPs \ (ips \cup StaticIPs), answered \in BOOLEAN :
             /\ Answered(answered)
             /\ ips' = ips \cup {i}
             /\ GoOn("patch", IF answered THEN WithEndpoint(i) ELSE after)
        BY <1>10 DEF AllocateIP
    <2>2. faults' \in 0 .. MaxFaults /\ stale' \in BOOLEAN
        BY <2>1, AnsweredBound DEF TypeOK
    <2>3. (IF answered THEN WithEndpoint(i) ELSE after) \in Cluster
        BY <1>0, ClusterUpdates DEF WithEndpoint
    <2> QED
        BY <1>10, <2>1, <2>2, <2>3, GoOnTypeOK DEF AllocateIP, Steps, TypeOK, others
<1>11. CASE IPRefused
    <2>1. faults' \in 0 .. MaxFaults /\ stale' \in BOOLEAN
        BY <1>11, AnsweredBound DEF IPRefused, TypeOK
    <2> QED
        BY <1>0, <1>11, <2>1, GoOnTypeOK DEF IPRefused, Steps, TypeOK, others, metal
<1>12. CASE Panic
    BY <1>12, BlankType DEF Panic, Forget, TypeOK, Steps, objects, others, metal, past
<1>13. CASE FirewallGone
    BY <1>0, <1>13, GoOnTypeOK DEF FirewallGone, Steps, TypeOK, others, metal, past
<1>14. CASE DeleteFirewall
    <2>1. PICK arrived \in BOOLEAN :
             /\ Answered(arrived \/ fwdC.deleting)
             /\ fwd' = IF arrived /\ ~fwdC.deleting /\ fwd.exists THEN Deleted(fwd) ELSE fwd
        BY <1>14 DEF DeleteFirewall
    <2>2. faults' \in 0 .. MaxFaults /\ stale' \in BOOLEAN
        BY <2>1, AnsweredBound DEF TypeOK
    <2>3. fwd' \in Deployment
        BY <1>0, <2>1, DeletedDeployment
    <2> QED
        BY <1>0, <1>14, <2>2, <2>3, GoOnTypeOK DEF DeleteFirewall, Steps, TypeOK, metal
<1>15. CASE ReleaseIP
    <2>1. PICK answered \in BOOLEAN, arrived \in BOOLEAN :
             /\ Answered(answered \/ after.controlPlaneIP = None)
             /\ ips' = IF after.controlPlaneIP \in ips \ StaticIPs /\ arrived
                       THEN ips \ {after.controlPlaneIP} ELSE ips
             /\ IF answered \/ after.controlPlaneIP = None
                THEN GoOn("releaseNetwork", [after EXCEPT !.controlPlaneIP = None])
                ELSE GoOn("patch", after)
        BY <1>15 DEF ReleaseIP
    <2>2. faults' \in 0 .. MaxFaults /\ stale' \in BOOLEAN
        BY <2>1, AnsweredBound DEF TypeOK
    <2>3. [after EXCEPT !.controlPlaneIP = None] \in Cluster
        BY <1>0, ClusterUpdates
    <2>4. UNCHANGED <<objects, fwdC, machines, machinesC, fwd, networks>>
        BY <1>15 DEF ReleaseIP, others
    <2>5. networks' \subseteq Networks /\ ips' \subseteq IPs /\ fwd' \in Deployment
        BY <2>1, <2>4 DEF TypeOK
    <2>6. CASE answered \/ after.controlPlaneIP = None
        BY <2>1, <2>2, <2>3, <2>4, <2>5, <2>6, GoOnTypeOK DEF Steps
    <2>7. CASE ~(answered \/ after.controlPlaneIP = None)
        BY <1>0, <2>1, <2>2, <2>4, <2>5, <2>7, GoOnTypeOK DEF Steps
    <2> QED
        BY <2>6, <2>7
<1>16. CASE ReleaseNetwork
    <2>1. PICK answered \in BOOLEAN, arrived \in BOOLEAN :
             /\ Answered(answered \/ after.nodeNetworkID \notin networks)
             /\ networks' = IF arrived THEN networks \ {after.nodeNetworkID} ELSE networks
             /\ GoOn("patch",
                  IF after.nodeNetworkID = None \/ (answered /\ after.nodeNetworkID \in networks)
                  THEN [after EXCEPT !.nodeNetworkID = None, !.finalizer = FALSE] ELSE after)
        BY <1>16 DEF ReleaseNetwork
    <2>2. faults' \in 0 .. MaxFaults /\ stale' \in BOOLEAN
        BY <2>1, AnsweredBound DEF TypeOK
    <2>3. [after EXCEPT !.nodeNetworkID = None, !.finalizer = FALSE] \in Cluster
        BY <1>0, ClusterUpdates
    <2>4. networks' \subseteq Networks
        BY <2>1 DEF TypeOK
    <2> QED
        BY <1>0, <1>16, <2>1, <2>2, <2>3, <2>4, GoOnTypeOK DEF ReleaseNetwork, Steps, TypeOK, others
<1>17. CASE Patch
    <2>1. cluster' \in Cluster
        BY <1>17, PatchEffect
    <2>2. faults' \in 0 .. MaxFaults /\ stale' \in BOOLEAN
        BY <1>17, AnsweredBound DEF Patch, TypeOK
    <2> QED
        BY <1>17, <2>1, <2>2, BlankType DEF Patch, Forget, TypeOK, Steps, others, metal
<1>18. CASE Crash
    <2>1. faults' \in 0 .. MaxFaults
        BY <1>18, ClusterAssumption DEF Crash, Fault, TypeOK
    <2> QED
        BY <1>18, <2>1, BlankType DEF Crash, Forget, TypeOK, Steps, objects, others, metal
<1>19. CASE CacheSync
    BY <1>19 DEF CacheSync, ClusterCacheSync, FirewallCacheSync, MachineCacheSync, TypeOK,
           objects, others, metal, local, past
<1>20. CASE RequestDelete
    <2>1. Deleted(cluster) \in Cluster
        BY ClusterUpdates, SettledCluster DEF Deleted, TypeOK
    <2> QED
        BY <1>20, <2>1 DEF RequestDelete, TypeOK, others, metal, local, past
<1>21. CASE MachinesChange
    BY <1>21 DEF MachinesChange, TypeOK, objects, metal, local, past
<1>22. CASE FirewallCreated \/ FirewallGuarded \/ FirewallDeleted \/ FirewallReleased
    <2>1. fwd' \in Deployment
        BY <1>0, <1>22, DeploymentUpdates, DeletedDeployment, SettledDeployment
           DEF FirewallCreated, FirewallGuarded, FirewallDeleted, FirewallReleased, FirewallChanges
    <2> QED
        BY <1>22, <2>1 DEF FirewallCreated, FirewallGuarded, FirewallDeleted, FirewallReleased,
           FirewallChanges, TypeOK, objects, metal, local, past
<1>23. CASE UNCHANGED vars
    BY <1>23 DEF vars, objects, others, metal, local, past, TypeOK
<1> QED
    BY <1>1, <1>2, <1>3, <1>4, <1>5, <1>6, <1>7, <1>8, <1>9, <1>10, <1>11, <1>12, <1>13, <1>14,
       <1>15, <1>16, <1>17, <1>18, <1>19, <1>20, <1>21, <1>22, <1>23
       DEF Next, Controller, Environment

(* The state always has its type. *)
THEOREM TypeCorrect == Spec => []TypeOK
BY InitTypeOK, NextTypeOK, PTL DEF Spec

-----------------------------------------------------------------------------
(* The inductive invariant *)

(* Initially nothing runs, nothing is cached wrongly, and the one network that
   is allocated is the one the user named. *)
LEMMA InitIInv == Init => IInv
<1> SUFFICES ASSUME Init PROVE IInv
    OBVIOUS
<1>1. TypeOK
    BY InitTypeOK
<1>2. PICK f \in BOOLEAN, n \in Networks \cup {None}, i \in IPs \cup {None}, h \in {UserHost, None} :
         cluster = [Blank EXCEPT !.firewallRef = f, !.nodeNetworkID = n, !.controlPlaneIP = i, !.host = h]
    BY DEF Init
<1>3. cluster.exists /\ ~cluster.deleting /\ ~cluster.finalizer /\ ~cluster.ready
    BY <1>2 DEF Blank
<1>4. /\ clusterC = cluster /\ pc = "idle" /\ before = Blank /\ after = Blank
      /\ networks = {cluster.nodeNetworkID} \ {None} /\ faults = 0 /\ stale = FALSE
    BY DEF Init
<1>5. Presence /\ CacheLags /\ Adopted /\ Running /\ Fresh
    BY <1>3, <1>4 DEF Init, Presence, CacheLags, Adopted, Running, Fresh, Releasing, Removed, Blank
<1>6. Allocated /\ Lossless
    BY <1>1, <1>3, <1>4 DEF Allocated, Lossless, Blank
<1> QED
    BY <1>1, <1>5, <1>6 DEF IInv

(* Reconciliations begin on what the cache shows; if that is out of date, it is
   remembered. *)
LEMMA BeginStep ==
    ASSUME IInv, TypeOK', AddFinalizer \/ StartReconcile \/ StartDelete
    PROVE  IInv'
<1> USE ClusterAssumption DEF ReadsFresh, Fault, IInv, Presence, CacheLags, Adopted, Allocated, Running,
        Fresh, Releasing, Removed, Lossless, TypeOK, Cluster, objects, others, metal, past
<1>1. CASE AddFinalizer
    BY <1>1 DEF AddFinalizer, Begin
<1>2. CASE StartReconcile
    BY <1>2 DEF StartReconcile, Begin
<1>3. CASE StartDelete
    BY <1>3 DEF StartDelete, Begin, ensureAllMetalStackMachinesAreGone
<1> QED
    BY <1>1, <1>2, <1>3

(* Steps of a reconciliation that acquires: they write only what is not there
   yet, and what they write is allocated. *)
LEMMA AcquireStep ==
    ASSUME IInv, TypeOK',
           \/ KeepNetwork \/ AllocateNetwork \/ NetworkRefused
           \/ AdoptFirewall \/ KeepFirewall
           \/ KeepEndpoint \/ AllocateIP \/ IPRefused
    PROVE  IInv'
<1> USE ClusterAssumption DEF Answered, Fault, GoOn, WithEndpoint, IInv, Presence, CacheLags, Adopted, Allocated,
        Running, Fresh, Releasing, Removed, Lossless, TypeOK, Cluster, objects, others, metal, past
<1>1. CASE KeepNetwork
    BY <1>1 DEF KeepNetwork, AfterNetwork
<1>2. CASE AllocateNetwork
    BY <1>2 DEF AllocateNetwork, AfterNetwork
<1>3. CASE NetworkRefused
    BY <1>3 DEF NetworkRefused
<1>4. CASE AdoptFirewall
    BY <1>4 DEF AdoptFirewall, Deployment
<1>5. CASE KeepFirewall
    BY <1>5 DEF KeepFirewall
<1>6. CASE KeepEndpoint
    BY <1>6 DEF KeepEndpoint
<1>7. CASE AllocateIP
    <2>1. PICK i \in IPs, answered \in BOOLEAN :
             Answered(answered) /\ GoOn("patch", IF answered THEN WithEndpoint(i) ELSE after)
        BY <1>7 DEF AllocateIP
    <2>2. UNCHANGED <<objects, others, networks>> /\ pc = "endpoint" /\ after.host = None
        BY <1>7 DEF AllocateIP
    <2>3. CASE answered
        <3>1. after' = [after EXCEPT !.host = i, !.ready = TRUE] /\ i # None
            BY <2>1, <2>3
        <3> QED
            BY <2>1, <2>2, <2>3, <3>1
    <2>4. CASE ~answered
        BY <2>1, <2>2, <2>4
    <2> QED
        BY <2>3, <2>4
<1>8. CASE IPRefused
    BY <1>8 DEF IPRefused
<1> QED
    BY <1>1, <1>2, <1>3, <1>4, <1>5, <1>6, <1>7, <1>8

(* Steps of a reconciliation that gives back: the deletion was requested, and
   the finalizer is only dropped together with the network. *)
LEMMA ReleaseStep ==
    ASSUME IInv, TypeOK',
           Panic \/ FirewallGone \/ DeleteFirewall \/ ReleaseIP \/ ReleaseNetwork
    PROVE  IInv'
<1> USE ClusterAssumption DEF Answered, Fault, GoOn, IInv, Presence, CacheLags, Adopted, Allocated,
        Running, Fresh, Releasing, Removed, Lossless, TypeOK, Cluster, objects, others, metal, past
<1>1. CASE Panic
    <2>1. /\ pc' = "idle" /\ before' = Blank /\ after' = Blank /\ pc = "awaitFirewall"
          /\ UNCHANGED <<cluster, clusterC, fwd, fwdC, machines, machinesC, networks, ips, faults, stale>>
        BY <1>1 DEF Panic, Forget
    <2>2. after = before
        BY <2>1
    <2>3. Running' /\ Fresh' /\ Adopted' /\ CacheLags' /\ Presence'
        BY <2>1 DEF Blank
    <2>4. Allocated' /\ Lossless'
        BY <2>1, <2>2 DEF Blank
    <2> QED
        BY <2>3, <2>4
<1>2. CASE FirewallGone
    <2>1. /\ pc = "awaitFirewall" /\ pc' = "releaseIP" /\ after.firewallRef /\ ~fwdC.exists
          /\ UNCHANGED <<cluster, clusterC, fwd, fwdC, machines, machinesC, networks, ips, before, after, faults, stale>>
        BY <1>2 DEF FirewallGone
    <2>2. Presence' /\ CacheLags' /\ Adopted' /\ Allocated'
        BY <2>1
    <2>3. Running'
        BY <2>1
    <2>4. Fresh' /\ Lossless'
        BY <2>1
    <2> QED
        BY <2>2, <2>3, <2>4
<1>3. CASE DeleteFirewall
    <2>1. PICK arrived \in BOOLEAN : Answered(arrived \/ fwdC.deleting)
        BY <1>3 DEF DeleteFirewall
    <2>2. /\ pc = "awaitFirewall" /\ GoOn("patch", after)
          /\ UNCHANGED <<objects, fwdC, machines, machinesC, metal>>
        BY <1>3 DEF DeleteFirewall
    <2>3. fwd'.owned = fwd.owned
        BY <1>3 DEF DeleteFirewall, Deleted, Settled, Deployment
    <2> QED
        BY <2>1, <2>2, <2>3
<1>4. CASE ReleaseIP
    BY <1>4 DEF ReleaseIP
<1>5. CASE ReleaseNetwork
    BY <1>5 DEF ReleaseNetwork
<1> QED
    BY <1>1, <1>2, <1>3, <1>4, <1>5

(* The patch at the end of every reconciliation. *)
LEMMA PatchStep ==
    ASSUME IInv, TypeOK', Patch
    PROVE  IInv'
<1>1. PICK spec \in BOOLEAN, status \in BOOLEAN :
         /\ spec \/ status => cluster.exists
         /\ Answered((spec /\ status) \/ before = after \/ ~cluster.exists)
         /\ cluster' \in Cluster
         /\ cluster'.finalizer = IF spec THEN Merged(cluster.finalizer, before.finalizer, after.finalizer)
                                         ELSE cluster.finalizer
         /\ cluster'.nodeNetworkID =
              IF spec THEN Merged(cluster.nodeNetworkID, before.nodeNetworkID, after.nodeNetworkID)
                      ELSE cluster.nodeNetworkID
         /\ cluster'.host = IF spec THEN Merged(cluster.host, before.host, after.host) ELSE cluster.host
         /\ cluster'.ready = IF status THEN Merged(cluster.ready, before.ready, after.ready) ELSE cluster.ready
         /\ cluster'.deleting = cluster.deleting /\ cluster'.firewallRef = cluster.firewallRef
         /\ cluster'.exists = (cluster.exists /\ (cluster.deleting => cluster'.finalizer))
    BY PatchEffect DEF IInv
<1>2. /\ pc = "patch" /\ pc' = "idle" /\ before' = Blank /\ after' = Blank
      /\ UNCHANGED <<clusterC, fwd, fwdC, machines, machinesC, networks, ips, stale>>
    BY <1>1 DEF Patch, Forget, others, metal, Answered
<1>3. Presence'
    BY <1>1 DEF Presence, IInv, Merged, TypeOK, Cluster
<1>4. /\ (cluster'.exists => cluster.exists /\ ~(spec /\ Removed))
      /\ (cluster.nodeNetworkID # None /\ cluster'.exists => cluster'.nodeNetworkID # None)
      /\ (cluster.host # None => cluster'.host # None)
    BY <1>1 DEF IInv, Running, Removed, Merged
<1>7. CacheLags'
    BY <1>1, <1>2, <1>4 DEF IInv, CacheLags
<1>8. Adopted'
    BY <1>1, <1>2 DEF IInv, Adopted, Merged, Blank
<1>9. Running' /\ Fresh'
    BY <1>1, <1>2 DEF Running, Fresh, Releasing, Removed, IInv, Blank
<1>5. Allocated'
    BY <1>1, <1>2 DEF Allocated, IInv, Blank, Merged
<1>6. Lossless'
    <2> SUFFICES ASSUME faults' = 0 PROVE Lossless'
        BY DEF Lossless
    <2>1. faults = 0 /\ ((spec /\ status) \/ before = after \/ ~cluster.exists)
        BY <1>1 DEF Answered, Fault, IInv, TypeOK
    <2>2. /\ ~stale
          /\ before.finalizer = cluster.finalizer /\ before.nodeNetworkID = cluster.nodeNetworkID
          /\ before.host = cluster.host /\ before.ready = cluster.ready
          /\ networks \subseteq {after.nodeNetworkID}
        BY <1>2, <2>1 DEF IInv, Lossless, Fresh
    <2>3. networks \subseteq {cluster'.nodeNetworkID}
        <3>1. CASE cluster.exists
            BY <1>1, <2>1, <2>2, <3>1 DEF Merged
        <3>2. CASE ~cluster.exists
            <4>1. ~before.finalizer
                BY <2>2, <3>2 DEF IInv, Presence
            <4>2. after.nodeNetworkID = before.nodeNetworkID
                BY <1>2, <4>1 DEF IInv, Running, TypeOK, Cluster
            <4> QED
                BY <1>1, <2>2, <3>2, <4>2
        <3> QED
            BY <3>1, <3>2
    <2>4. ASSUME cluster'.exists, cluster'.ready PROVE cluster'.nodeNetworkID # None /\ cluster'.host # None
        <3>1. cluster.exists /\ (cluster.deleting => cluster'.finalizer)
            BY <1>1, <2>4
        <3>2. /\ cluster'.nodeNetworkID = after.nodeNetworkID /\ cluster'.host = after.host
              /\ cluster'.ready = after.ready /\ cluster'.finalizer = after.finalizer
            BY <1>1, <2>1, <2>2, <3>1 DEF Merged
        <3>3. ~Removed
            BY <3>1, <3>2 DEF IInv, Running, Removed
        <3> QED
            BY <2>1, <2>4, <3>2, <3>3 DEF IInv, Lossless
    <2> QED
        BY <1>2, <2>2, <2>3, <2>4 DEF Lossless, Blank
<1> QED
    BY <1>3, <1>5, <1>6, <1>7, <1>8, <1>9 DEF IInv

(* A crash forgets the local copies and counts as a fault. *)
LEMMA CrashStep ==
    ASSUME IInv, TypeOK', Crash
    PROVE  IInv'
BY DEF Crash, Fault, Forget, Blank, IInv, Presence, CacheLags, Adopted, Allocated, Running, Fresh, Releasing,
       Removed, Lossless, TypeOK, objects, others, metal

(* Caches catch up. *)
LEMMA CacheSyncStep ==
    ASSUME IInv, TypeOK', CacheSync
    PROVE  IInv'
<1> USE DEF IInv, Presence, CacheLags, Adopted, Allocated, Running, Fresh, Releasing, Removed, Lossless,
        objects, others, metal, local, past
<1>1. CASE ClusterCacheSync
    BY <1>1 DEF ClusterCacheSync
<1>2. CASE FirewallCacheSync
    BY <1>2 DEF FirewallCacheSync
<1>3. CASE MachineCacheSync
    BY <1>3 DEF MachineCacheSync
<1> QED
    BY <1>1, <1>2, <1>3 DEF CacheSync

(* Users and the other controllers: machines and firewall deployments do not
   come back once the deletion was requested. *)
LEMMA EnvironmentStep ==
    ASSUME IInv, TypeOK', Environment
    PROVE  IInv'
<1>1. CASE RequestDelete
    BY <1>1 DEF RequestDelete, Deleted, Settled, Cluster, TypeOK, IInv, Presence, CacheLags, Adopted, Allocated,
       Running, Fresh, Releasing, Removed, Lossless, others, metal, local, past
<1>2. CASE MachinesChange
    BY <1>2 DEF MachinesChange, IInv, Presence, CacheLags, Adopted, Allocated, Running, Fresh, Releasing,
       Removed, Lossless, objects, metal, local, past
<1>3. CASE FirewallCreated \/ FirewallGuarded \/ FirewallDeleted \/ FirewallReleased
    <2>1. UNCHANGED <<objects, fwdC, machines, machinesC, metal, local, past>>
        BY <1>3 DEF FirewallCreated, FirewallGuarded, FirewallDeleted, FirewallReleased, FirewallChanges
    <2>2. fwd'.exists => fwd.exists \/ ~cluster.deleting
        BY <1>3 DEF FirewallCreated, FirewallGuarded, FirewallDeleted, FirewallReleased, FirewallChanges,
           Deleted, Settled, IInv, TypeOK, Deployment
    <2>3. fwd'.owned = fwd.owned
        BY <1>3 DEF FirewallCreated, FirewallGuarded, FirewallDeleted, FirewallReleased, FirewallChanges,
           Deleted, Settled, IInv, TypeOK, Deployment
    <2> QED
        BY <2>1, <2>2, <2>3 DEF IInv, Presence, CacheLags, Adopted, Allocated, Running, Fresh, Releasing,
           Removed, Lossless, objects, metal, local, past
<1> QED
    BY <1>1, <1>2, <1>3 DEF Environment

(* Every step keeps the inductive invariant. *)
LEMMA NextIInv == IInv /\ [Next]_vars => IInv'
<1> SUFFICES ASSUME IInv, [Next]_vars PROVE IInv'
    OBVIOUS
<1>1. TypeOK'
    BY NextTypeOK DEF IInv
<1>2. CASE UNCHANGED vars
    BY <1>1, <1>2 DEF vars, objects, others, metal, local, past, IInv, Presence, CacheLags, Adopted, Allocated,
       Running, Fresh, Releasing, Removed, Lossless
<1>3. CASE Next
    BY <1>1, <1>3, BeginStep, AcquireStep, ReleaseStep, PatchStep, CrashStep, CacheSyncStep, EnvironmentStep
       DEF Next, Controller
<1> QED
    BY <1>2, <1>3

(* The invariant holds in every reachable state. *)
THEOREM Invariance == Spec => []IInv
BY InitIInv, NextIInv, PTL DEF Spec

-----------------------------------------------------------------------------
(* What the invariant says about networks and readiness *)

(* The network of an object that is not being deleted is allocated, whatever
   was lost and however old the copy was that a reconciliation started from. *)
THEOREM NetworkAllocated == Spec => []NetworkIsAllocated
<1>1. IInv => NetworkIsAllocated
    BY DEF IInv, Allocated, NetworkIsAllocated
<1> QED
    BY <1>1, Invariance, PTL

(* If no call fails, no network stays allocated that the removed object does
   not name. *)
THEOREM NoNetworkLeaks == Spec => []NoNetworkLeak
<1>1. IInv => NoNetworkLeak
    <2> SUFFICES ASSUME IInv, faults = 0, ~cluster.exists PROVE networks \subseteq {cluster.nodeNetworkID}
        BY DEF NoNetworkLeak
    <2>1. CASE pc = "idle"
        BY <2>1 DEF IInv, Lossless
    <2>2. CASE pc # "idle"
        <3>1. ~before.finalizer /\ before.nodeNetworkID = cluster.nodeNetworkID
            BY <2>2 DEF IInv, Lossless, Fresh, Presence
        <3>2. after.nodeNetworkID = before.nodeNetworkID
            BY <2>2, <3>1 DEF IInv, Running, TypeOK, Cluster
        <3> QED
            BY <2>2, <3>1, <3>2 DEF IInv, Lossless
    <2> QED
        BY <2>1, <2>2
<1> QED
    BY <1>1, Invariance, PTL

(* If no call fails, a cluster that is ready has its network and its endpoint,
   also while it is being deleted. *)
THEOREM ReadyUnlessLost == Spec => []ReadyImpliesNetworkUnlessLost
<1>1. IInv => ReadyImpliesNetworkUnlessLost
    BY DEF IInv, Lossless, ReadyImpliesNetworkUnlessLost, ReadyImpliesNetwork
<1> QED
    BY <1>1, Invariance, PTL

-----------------------------------------------------------------------------
(* What a step may never do *)

(* Only one step frees an IP, and only one frees a network. *)
LEMMA OnlyReleaseIPFrees == IInv /\ [Next]_vars => ips \subseteq ips' \/ ReleaseIP
BY DEF Next, Controller, CacheSync, Environment, vars, objects, others, metal, local, past,
       AddFinalizer, StartReconcile, StartDelete, Begin, KeepNetwork, AllocateNetwork, NetworkRefused,
       AdoptFirewall, KeepFirewall, KeepEndpoint, AllocateIP, IPRefused, Panic, FirewallGone,
       DeleteFirewall, ReleaseNetwork, Patch, Crash, ClusterCacheSync, FirewallCacheSync,
       MachineCacheSync, RequestDelete, MachinesChange, FirewallChanges, FirewallCreated,
       FirewallGuarded, FirewallDeleted, FirewallReleased

LEMMA OnlyReleaseNetworkFrees == IInv /\ [Next]_vars => networks \subseteq networks' \/ ReleaseNetwork
BY DEF Next, Controller, CacheSync, Environment, vars, objects, others, metal, local, past,
       AddFinalizer, StartReconcile, StartDelete, Begin, KeepNetwork, AllocateNetwork, NetworkRefused,
       AdoptFirewall, KeepFirewall, KeepEndpoint, AllocateIP, IPRefused, Panic, FirewallGone,
       DeleteFirewall, ReleaseIP, Patch, Crash, ClusterCacheSync, FirewallCacheSync,
       MachineCacheSync, RequestDelete, MachinesChange, FirewallChanges, FirewallCreated,
       FirewallGuarded, FirewallDeleted, FirewallReleased

(* What the object says about network and endpoint is only written by the
   patch. *)
LEMMA OnlyPatchWrites ==
    IInv /\ [Next]_vars =>
        \/ cluster'.nodeNetworkID = cluster.nodeNetworkID /\ cluster'.host = cluster.host
        \/ Patch
<1> SUFFICES ASSUME IInv, [Next]_vars, ~Patch
             PROVE  cluster'.nodeNetworkID = cluster.nodeNetworkID /\ cluster'.host = cluster.host
    OBVIOUS
<1>1. CASE RequestDelete
    BY <1>1 DEF RequestDelete, Deleted, Settled, IInv, TypeOK, Cluster
<1>2. CASE ~RequestDelete
    BY <1>2 DEF Next, Controller, CacheSync, Environment, vars, objects, others, metal, local, past,
       AddFinalizer, StartReconcile, StartDelete, Begin, KeepNetwork, AllocateNetwork, NetworkRefused,
       AdoptFirewall, KeepFirewall, KeepEndpoint, AllocateIP, IPRefused, Panic, FirewallGone,
       DeleteFirewall, ReleaseIP, ReleaseNetwork, Crash, ClusterCacheSync, FirewallCacheSync,
       MachineCacheSync, MachinesChange, FirewallChanges, FirewallCreated,
       FirewallGuarded, FirewallDeleted, FirewallReleased
<1> QED
    BY <1>1, <1>2

(* A static IP is never freed, not even by a deletion that is repeated or that
   starts from an old copy. *)
THEOREM StaticIPsStay == Spec => StaticIPsKept
<1>1. IInv /\ [Next]_vars => [\A i \in StaticIPs : i \in ips => i \in ips']_vars
    <2> SUFFICES ASSUME IInv, [Next]_vars, NEW i \in StaticIPs, i \in ips PROVE i \in ips'
        OBVIOUS
    <2>1. CASE ips \subseteq ips'
        BY <2>1
    <2>2. CASE ReleaseIP
        BY <2>2 DEF ReleaseIP
    <2> QED
        BY <2>1, <2>2, OnlyReleaseIPFrees
<1> QED
    BY <1>1, Invariance, PTL DEF Spec, StaticIPsKept

(* If no cache was out of date, network and IP are given back after the last
   machine and the firewall deployment are gone, and neither comes back in
   between. *)
THEOREM ReleasedLast == Spec => ReleaseOrder
<1>1. IInv /\ [Next]_vars =>
        [~stale /\ ~(networks \subseteq networks' /\ ips \subseteq ips')
            => ~machines /\ (cluster.firewallRef => ~fwd.exists)]_vars
    <2> SUFFICES ASSUME IInv, [Next]_vars, ~stale, ~(networks \subseteq networks' /\ ips \subseteq ips')
                 PROVE  ~machines /\ ~fwd.exists
        OBVIOUS
    <2>1. ReleaseIP \/ ReleaseNetwork
        BY OnlyReleaseIPFrees, OnlyReleaseNetworkFrees
    <2>2. pc \in {"releaseIP", "releaseNetwork"}
        BY <2>1 DEF ReleaseIP, ReleaseNetwork
    <2> QED
        BY <2>2 DEF IInv, Fresh, Releasing
<1> QED
    BY <1>1, Invariance, PTL DEF Spec, ReleaseOrder

(* What the patch does to network and endpoint of an object that stays: it
   writes what the copy was changed to, and what the copy had is not changed. *)
LEMMA PatchIdentity ==
    ASSUME IInv, Patch, cluster'.exists
    PROVE  /\ \/ cluster'.nodeNetworkID = cluster.nodeNetworkID
              \/ before.nodeNetworkID = None /\ cluster'.nodeNetworkID = after.nodeNetworkID
           /\ \/ cluster'.host = cluster.host
              \/ before.host = None /\ cluster'.host = after.host
<1>1. PICK spec \in BOOLEAN :
         /\ cluster'.finalizer = IF spec THEN Merged(cluster.finalizer, before.finalizer, after.finalizer)
                                         ELSE cluster.finalizer
         /\ cluster'.nodeNetworkID =
              IF spec THEN Merged(cluster.nodeNetworkID, before.nodeNetworkID, after.nodeNetworkID)
                      ELSE cluster.nodeNetworkID
         /\ cluster'.host = IF spec THEN Merged(cluster.host, before.host, after.host) ELSE cluster.host
         /\ cluster'.exists = (cluster.exists /\ (cluster.deleting => cluster'.finalizer))
    BY PatchEffect DEF IInv
<1>2. spec => ~Removed
    BY <1>1 DEF IInv, Running, Removed, Merged
<1> QED
    BY <1>1, <1>2 DEF Merged, IInv, Running

(* What a reconciliation knows at its beginning is what the cache shows, and
   the cache shows what the server has, or had. *)
LEMMA CopyEffect ==
    IInv /\ [Next]_vars =>
        /\ pc' # "idle" => before' = clusterC \/ (pc # "idle" /\ before' = before)
        /\ clusterC' = clusterC \/ (clusterC' = cluster /\ cluster' = cluster)
BY DEF Next, Controller, CacheSync, Environment, vars, objects, others, metal, local, past,
       AddFinalizer, StartReconcile, StartDelete, Begin, KeepNetwork, AllocateNetwork, NetworkRefused,
       AdoptFirewall, KeepFirewall, KeepEndpoint, AllocateIP, IPRefused, Panic, FirewallGone,
       DeleteFirewall, ReleaseIP, ReleaseNetwork, Patch, Crash, ClusterCacheSync, FirewallCacheSync,
       MachineCacheSync, RequestDelete, MachinesChange, FirewallChanges, FirewallCreated,
       FirewallGuarded, FirewallDeleted, FirewallReleased, GoOn, Forget

(* Network and endpoint never change once the cache has shown them, and not at
   all once they are written if no cache was out of date, for as long as the
   object exists. *)
THEOREM IdentityKept == Spec => IdentityStable
<1>1. IInv /\ [Next]_vars =>
        [cluster'.exists =>
           /\ NetworkShown => NetworkShown'
           /\ HostShown => HostShown'
           /\ NetworkShown \/ (~stale /\ cluster.nodeNetworkID # None)
                => cluster'.nodeNetworkID = cluster.nodeNetworkID
           /\ HostShown \/ (~stale /\ cluster.host # None) => cluster'.host = cluster.host]_vars
    <2> SUFFICES ASSUME IInv, [Next]_vars, cluster'.exists
                 PROVE  /\ NetworkShown => NetworkShown'
                        /\ HostShown => HostShown'
                        /\ NetworkShown \/ (~stale /\ cluster.nodeNetworkID # None)
                             => cluster'.nodeNetworkID = cluster.nodeNetworkID
                        /\ HostShown \/ (~stale /\ cluster.host # None) => cluster'.host = cluster.host
        OBVIOUS
    <2>1. (NetworkShown => NetworkShown') /\ (HostShown => HostShown')
        BY CopyEffect DEF NetworkShown, HostShown, IInv, CacheLags
    <2>2. CASE Patch
        <3>1. pc # "idle" /\ (~stale => before.nodeNetworkID = cluster.nodeNetworkID /\ before.host = cluster.host)
            BY <2>2 DEF Patch, IInv, Fresh
        <3> QED
            BY <2>1, <2>2, <3>1, PatchIdentity DEF NetworkShown, HostShown
    <2> QED
        BY <2>1, <2>2, OnlyPatchWrites
<1> QED
    BY <1>1, Invariance, PTL DEF Spec, IdentityStable

(* A ready cluster has adopted the firewall deployment it refers to, however
   stale its caches are and whatever update was refused. *)
THEOREM AdoptedWhenReady == Spec => []ReadyImpliesAdopted
<1>1. IInv => ReadyImpliesAdopted
    BY DEF IInv, Adopted, ReadyImpliesAdopted
<1> QED
    BY <1>1, Invariance, PTL

-----------------------------------------------------------------------------
(* What the other controllers notice *)

(* The firewall deployment is adopted and deleted, nothing else. *)
LEMMA FirewallEffect ==
    ASSUME TypeOK, Controller
    PROVE  /\ UNCHANGED <<clusterC, fwdC, machines, machinesC>>
           /\ \/ fwd' = fwd
              \/ fwd.exists /\ ~fwd.owned /\ fwd' = [fwd EXCEPT !.owned = TRUE]
              \/ fwd.exists /\ fwd' = Deleted(fwd)
BY DEF Controller, AddFinalizer, StartReconcile, StartDelete, Begin, KeepNetwork, AllocateNetwork, NetworkRefused,
   AdoptFirewall, KeepFirewall, KeepEndpoint, AllocateIP, IPRefused, Panic, FirewallGone, DeleteFirewall,
   ReleaseIP, ReleaseNetwork, Patch, objects, others

(* As long as no cache was out of date, the finalizer is taken away together
   with the reference to the network, when machines and firewall deployment are
   gone. *)
LEMMA RemovalEffect ==
    ASSUME IInv, Controller, ~stale
    PROVE  /\ stale' => StaleReads
           /\ Removed' => ~machines /\ ~fwd.exists /\ after'.nodeNetworkID = None
<1>1. stale' => StaleReads
    BY DEF Controller, AddFinalizer, StartReconcile, StartDelete, Begin, ReadsFresh, KeepNetwork, AllocateNetwork,
       NetworkRefused, AdoptFirewall, KeepFirewall, KeepEndpoint, AllocateIP, IPRefused, Panic, FirewallGone,
       DeleteFirewall, ReleaseIP, ReleaseNetwork, Patch, Answered, past
<1>2. CASE ReleaseNetwork
    <2>1. pc = "releaseNetwork" /\ before' = before /\ ~Removed /\ ~machines /\ ~fwd.exists
        BY <1>2 DEF ReleaseNetwork, GoOn, IInv, Running, Fresh, Releasing
    <2>2. after' = after \/ after' = [after EXCEPT !.nodeNetworkID = None, !.finalizer = FALSE]
        BY <1>2 DEF ReleaseNetwork, GoOn
    <2> QED
        BY <1>1, <2>1, <2>2 DEF Removed, IInv, TypeOK, Cluster
<1>3. ASSUME AddFinalizer \/ StartReconcile \/ StartDelete PROVE ~Removed'
    BY <1>3 DEF AddFinalizer, StartReconcile, StartDelete, Begin, Removed, IInv, TypeOK, Cluster
<1>4. ASSUME Panic \/ Patch PROVE ~Removed'
    BY <1>4 DEF Panic, Patch, Forget, Blank, Removed
<1>5. ASSUME \/ KeepNetwork \/ AllocateNetwork \/ NetworkRefused \/ AdoptFirewall \/ KeepFirewall
             \/ KeepEndpoint \/ IPRefused \/ FirewallGone \/ DeleteFirewall \/ ReleaseIP
      PROVE  ~Removed'
    BY <1>5 DEF KeepNetwork, AllocateNetwork, NetworkRefused, AdoptFirewall, KeepFirewall, KeepEndpoint, IPRefused,
       FirewallGone, DeleteFirewall, ReleaseIP, GoOn, WithEndpoint, Removed, IInv, Running, TypeOK, Cluster
<1>6. CASE AllocateIP
    <2>1. pc = "endpoint" /\ before' = before /\ ~Removed
        BY <1>6 DEF AllocateIP, GoOn, IInv, Running
    <2>2. after'.finalizer = after.finalizer
        BY <1>6 DEF AllocateIP, GoOn, WithEndpoint, IInv, TypeOK, Cluster
    <2> QED
        BY <1>1, <2>1, <2>2 DEF Removed
<1> QED
    BY <1>1, <1>2, <1>3, <1>4, <1>5, <1>6 DEF Controller

(* Every copy of the object, old or new, names an allocated network. *)
Named == \A o \in {cluster, clusterC, after} : o.nodeNetworkID \in networks \cup {None}

(* Until a network is given back, no copy names a network that is not
   allocated. *)
LEMMA NamedEffect ==
    ASSUME IInv, Controller, Named, pc # "releaseNetwork"
    PROVE  Named'
<1>1. CASE Patch
    <2>1. /\ cluster'.nodeNetworkID \in {cluster.nodeNetworkID, after.nodeNetworkID} /\ after'.nodeNetworkID = None
          /\ clusterC' = clusterC /\ networks' = networks
        BY <1>1, PatchEffect DEF Patch, Forget, Blank, Merged, metal, IInv
    <2> QED
        BY <2>1 DEF Named
<1>2. CASE AllocateNetwork
    BY <1>2 DEF AllocateNetwork, GoOn, Named, objects, IInv, TypeOK, Cluster
<1>3. CASE AllocateIP
    <2>1. UNCHANGED <<cluster, clusterC, networks>> /\ after'.nodeNetworkID = after.nodeNetworkID
        BY <1>3 DEF AllocateIP, GoOn, WithEndpoint, objects, IInv, TypeOK, Cluster
    <2> QED
        BY <2>1 DEF Named
<1>4. CASE Panic
    BY <1>4 DEF Panic, Forget, Blank, Named, objects, metal
<1>5. ASSUME ~Patch, ~AllocateNetwork, ~AllocateIP, ~Panic PROVE Named'
    <2>1. UNCHANGED <<cluster, clusterC, networks>>
        BY <1>5 DEF Controller, AddFinalizer, StartReconcile, StartDelete, Begin, KeepNetwork, NetworkRefused,
           AdoptFirewall, KeepFirewall, KeepEndpoint, IPRefused, FirewallGone, DeleteFirewall, ReleaseIP,
           ReleaseNetwork, objects, metal
    <2>2. after'.nodeNetworkID \in {after.nodeNetworkID, clusterC.nodeNetworkID}
        BY <1>5 DEF Controller, AddFinalizer, StartReconcile, StartDelete, Begin, KeepNetwork, NetworkRefused,
           AdoptFirewall, KeepFirewall, KeepEndpoint, IPRefused, FirewallGone, DeleteFirewall, ReleaseIP,
           ReleaseNetwork, GoOn, WithEndpoint, IInv, TypeOK, Cluster
    <2> QED
        BY <2>1, <2>2 DEF Named
<1> QED
    BY <1>1, <1>2, <1>3, <1>4, <1>5

(* Network and endpoint are written once, if no cache was out of date; only the
   patch that removes the object takes the network from it. *)
LEMMA IdentityEffect ==
    ASSUME IInv, Controller, ~stale
    PROVE  /\ cluster.host # None => cluster'.host = cluster.host
           /\ \/ cluster'.nodeNetworkID = cluster.nodeNetworkID
              \/ cluster.exists /\ cluster.nodeNetworkID = None
              \/ Removed /\ cluster'.nodeNetworkID = after.nodeNetworkID /\ ~cluster'.exists
<1>1. CASE ~Patch
    <2>1. ~RequestDelete \/ cluster' = cluster
        BY <1>1 DEF Controller, AddFinalizer, StartReconcile, StartDelete, Begin, KeepNetwork, AllocateNetwork,
           NetworkRefused, AdoptFirewall, KeepFirewall, KeepEndpoint, AllocateIP, IPRefused, Panic, FirewallGone,
           DeleteFirewall, ReleaseIP, ReleaseNetwork, objects
    <2> QED
        BY <1>1, <2>1, OnlyPatchWrites DEF Next
<1>2. CASE Patch
    <2>1. PICK spec \in BOOLEAN :
             /\ spec => cluster.exists
             /\ cluster'.finalizer = IF spec THEN Merged(cluster.finalizer, before.finalizer, after.finalizer)
                                             ELSE cluster.finalizer
             /\ cluster'.nodeNetworkID =
                  IF spec THEN Merged(cluster.nodeNetworkID, before.nodeNetworkID, after.nodeNetworkID)
                          ELSE cluster.nodeNetworkID
             /\ cluster'.host = IF spec THEN Merged(cluster.host, before.host, after.host) ELSE cluster.host
             /\ cluster'.exists = (cluster.exists /\ (cluster.deleting => cluster'.finalizer))
        BY <1>2, PatchEffect DEF IInv
    <2>2. /\ before.nodeNetworkID = cluster.nodeNetworkID /\ before.host = cluster.host
          /\ after.host # before.host => before.host = None
          /\ after.nodeNetworkID # before.nodeNetworkID => before.nodeNetworkID = None \/ Removed
          /\ Removed => cluster.deleting
        BY <1>2 DEF Patch, IInv, Running, Fresh
    <2> QED
        BY <2>1, <2>2 DEF Merged, Removed
<1> QED
    BY <1>1, <1>2

(* The controller never brings the object back, and takes a guarded one away
   with a patch that removes the finalizer. *)
LEMMA EndEffect ==
    ASSUME IInv, Controller
    PROVE  /\ cluster'.exists => cluster.exists
           /\ cluster.exists /\ cluster.finalizer /\ ~cluster'.exists => pc # "idle" /\ Removed
<1>1. CASE Patch
    <2>1. PICK spec \in BOOLEAN :
             /\ cluster'.finalizer = IF spec THEN Merged(cluster.finalizer, before.finalizer, after.finalizer)
                                             ELSE cluster.finalizer
             /\ cluster'.exists = (cluster.exists /\ (cluster.deleting => cluster'.finalizer))
        BY <1>1, PatchEffect DEF IInv
    <2>2. pc = "patch" /\ before.finalizer \in BOOLEAN /\ after.finalizer \in BOOLEAN
        BY <1>1 DEF Patch, IInv, TypeOK, Cluster
    <2> QED
        BY <2>1, <2>2 DEF Merged, Removed
<1>2. CASE ~Patch
    BY <1>2 DEF Controller, AddFinalizer, StartReconcile, StartDelete, Begin, KeepNetwork, AllocateNetwork,
       NetworkRefused, AdoptFirewall, KeepFirewall, KeepEndpoint, AllocateIP, IPRefused, Panic, FirewallGone,
       DeleteFirewall, ReleaseIP, ReleaseNetwork, objects
<1> QED
    BY <1>1, <1>2
=============================================================================
