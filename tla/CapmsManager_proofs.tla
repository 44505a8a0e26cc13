------------------------- MODULE CapmsManager_proofs -------------------------
(***************************************************************************)
(* Proofs about CapmsManager for any machines, servers, networks and any   *)
(* number of faults, if clusters and machines are read from a cache that   *)
(* is up to date.  They rest on the proofs about the three controllers,    *)
(* which are taken over by instantiating their modules.                    *)
(***************************************************************************)
EXTENDS CapmsManager, TLAPS

-----------------------------------------------------------------------------
(* The controllers and what is proved about them *)

ClP == INSTANCE MetalStackCluster_proofs WITH
    IPs <- {}, StaticIPs <- {}, ips <- {}, stale <- staleC,
    fwd <- Seen(fwd), fwdC <- Seen(fwdC),
    machines <- \E n \in Nodes : obj[n].exists, machinesC <- \E n \in Nodes : objC[n].exists,
    pc <- pcC, before <- beforeC, after <- afterC, faults <- faultsC

FwP == INSTANCE MetalStackFirewallDeployment_proofs WITH
    Hardware <- FirewallServers, alloc <- firewalls, rolled <- {},
    nodeNetworkID <- clusterC.nodeNetworkID, machinesLeft <- \E n \in Nodes : objC[n].exists,
    pc <- pcF, before <- beforeF, after <- afterF, faults <- faultsF

MaP == INSTANCE MetalStackMachine_proofs WITH
    ControlPlane <- {}, Hardware <- MachineServers, alloc <- servers,
    Neighbour <- "neighbour", Stranger <- "stranger", Outsiders <- FALSE,
    phoned <- {}, overdue <- {},
    prepared <- IF clusterC.nodeNetworkID # None /\ clusterC.host # None THEN secret ELSE {},
    pc <- pcM, before <- beforeM, after <- afterM, faults <- faultsM

(* The modules of the controllers and the modules of their proofs are instantiated
   alike: what the ones say of the shared state is what the others say.  *)
LEMMA SameCluster ==
    /\ Cl!Init <=> ClP!Init
    /\ Cl!Next <=> ClP!Next
    /\ Cl!vars = ClP!vars /\ Cl!vars' = ClP!vars'
    /\ (Cl!TypeOK <=> ClP!TypeOK) /\ (Cl!TypeOK' <=> ClP!TypeOK')
    /\ (Cl!IInv <=> ClP!IInv) /\ (Cl!IInv' <=> ClP!IInv')
    /\ Cl!Controller <=> ClP!Controller
BY Zenon DEF Cl!Init, Cl!Next, Cl!vars, Cl!IInv, Cl!Blank, Cl!Controller, Cl!Crash, Cl!CacheSync, Cl!Environment,
       Cl!objects, Cl!others, Cl!metal, Cl!local, Cl!past, Cl!TypeOK, Cl!Presence, Cl!CacheLags, Cl!Allocated,
       Cl!Running, Cl!Fresh, Cl!Lossless, Cl!Adopted, Cl!ensureAllMetalStackMachinesAreGone, Cl!AddFinalizer, Cl!StartReconcile, Cl!StartDelete, Cl!KeepNetwork,
       Cl!AllocateNetwork, Cl!NetworkRefused, Cl!AdoptFirewall, Cl!KeepFirewall, Cl!KeepEndpoint,
       Cl!AllocateIP, Cl!IPRefused, Cl!Panic, Cl!FirewallGone, Cl!DeleteFirewall, Cl!ReleaseIP,
       Cl!ReleaseNetwork, Cl!Patch, Cl!Fault, Cl!Forget, Cl!ClusterCacheSync, Cl!FirewallCacheSync,
       Cl!MachineCacheSync, Cl!RequestDelete, Cl!MachinesChange, Cl!FirewallCreated, Cl!FirewallGuarded,
       Cl!FirewallDeleted, Cl!FirewallReleased, Cl!Cluster, Cl!Deployment, Cl!Steps, Cl!Removed, Cl!Releasing,
       Cl!Begin, Cl!GoOn, Cl!AfterNetwork, Cl!Answered, Cl!WithEndpoint, Cl!Deleted, Cl!Settled, Cl!Merged,
       Cl!FirewallChanges, Cl!ReadsFresh, ClP!Init, ClP!Next, ClP!vars, ClP!IInv, ClP!Blank, ClP!Controller,
       ClP!Crash, ClP!CacheSync, ClP!Environment, ClP!objects, ClP!others, ClP!metal, ClP!local, ClP!past,
       ClP!TypeOK, ClP!Presence, ClP!CacheLags, ClP!Allocated, ClP!Running, ClP!Fresh, ClP!Lossless, ClP!Adopted,
       ClP!ensureAllMetalStackMachinesAreGone,
       ClP!AddFinalizer, ClP!StartReconcile, ClP!StartDelete, ClP!KeepNetwork, ClP!AllocateNetwork,
       ClP!NetworkRefused, ClP!AdoptFirewall, ClP!KeepFirewall, ClP!KeepEndpoint, ClP!AllocateIP,
       ClP!IPRefused, ClP!Panic, ClP!FirewallGone, ClP!DeleteFirewall, ClP!ReleaseIP, ClP!ReleaseNetwork,
       ClP!Patch, ClP!Fault, ClP!Forget, ClP!ClusterCacheSync, ClP!FirewallCacheSync, ClP!MachineCacheSync,
       ClP!RequestDelete, ClP!MachinesChange, ClP!FirewallCreated, ClP!FirewallGuarded, ClP!FirewallDeleted,
       ClP!FirewallReleased, ClP!Cluster, ClP!Deployment, ClP!Steps, ClP!Removed, ClP!Releasing, ClP!Begin,
       ClP!GoOn, ClP!AfterNetwork, ClP!Answered, ClP!WithEndpoint, ClP!Deleted, ClP!Settled, ClP!Merged,
       ClP!FirewallChanges, ClP!ReadsFresh

(* The same for the firewall controller. *)
LEMMA SameFirewall ==
    /\ Fw!Init <=> FwP!Init
    /\ Fw!Next <=> FwP!Next
    /\ Fw!vars = FwP!vars /\ Fw!vars' = FwP!vars'
    /\ (Fw!TypeOK <=> FwP!TypeOK) /\ (Fw!TypeOK' <=> FwP!TypeOK')
    /\ (Fw!IInv <=> FwP!IInv) /\ (Fw!IInv' <=> FwP!IInv')
    /\ Fw!Controller \/ Fw!FindFails <=> FwP!Controller \/ FwP!FindFails
BY Zenon DEF Fw!Init, Fw!Next, Fw!vars, Fw!IInv, Fw!Blank, Fw!Controller, Fw!FindFails, Fw!Crash, Fw!CacheSync,
       Fw!Environment, Fw!objects, Fw!env, Fw!local, Fw!FinalizerInv, Fw!Referenced, Fw!Single,
       Fw!AddFinalizer, Fw!StartReconcile, Fw!StartDelete, Fw!EnsureTemplateOwnerRef, Fw!KeepFirewall,
       Fw!RefuseTemplate, Fw!AllocateFirewall, Fw!AllocationRefused, Fw!FindFirewalls, Fw!FreeFirewall,
       Fw!FinishDelete, Fw!Patch, Fw!Fault, Fw!ToPatch, Fw!Forget, Fw!ClusterAdopts, Fw!ClusterNetwork,
       Fw!ClusterGone, Fw!RequestDelete, Fw!MachinesChange, Fw!UserRollsFirewall, Fw!UserFreesFirewall,
       Fw!UserDeletesTemplate, Fw!TypeOK, Fw!Presence, Fw!CacheLags, Fw!Tagged, Fw!Guarded, Fw!Creating,
       Fw!Deleting, Fw!Removing, Fw!Held, Fw!Unwritten, Fw!Begin, Fw!Answered, Fw!Settled, Fw!Merged,
       Fw!Deleted, Fw!Deployment, Fw!Steps, FwP!Init, FwP!Next, FwP!vars, FwP!IInv, FwP!Blank, FwP!Controller,
       FwP!FindFails, FwP!Crash, FwP!CacheSync, FwP!Environment, FwP!objects, FwP!env, FwP!local,
       FwP!FinalizerInv, FwP!Referenced, FwP!Single, FwP!AddFinalizer, FwP!StartReconcile, FwP!StartDelete,
       FwP!EnsureTemplateOwnerRef, FwP!KeepFirewall, FwP!RefuseTemplate, FwP!AllocateFirewall,
       FwP!AllocationRefused, FwP!FindFirewalls, FwP!FreeFirewall, FwP!FinishDelete, FwP!Patch, FwP!Fault,
       FwP!ToPatch, FwP!Forget, FwP!ClusterAdopts, FwP!ClusterNetwork, FwP!ClusterGone, FwP!RequestDelete,
       FwP!MachinesChange, FwP!UserRollsFirewall, FwP!UserFreesFirewall, FwP!UserDeletesTemplate, FwP!TypeOK,
       FwP!Presence, FwP!CacheLags, FwP!Tagged, FwP!Guarded, FwP!Creating, FwP!Deleting, FwP!Removing,
       FwP!Held, FwP!Unwritten, FwP!Begin, FwP!Answered, FwP!Settled, FwP!Merged, FwP!Deleted, FwP!Deployment,
       FwP!Steps

(* The same for the machine controller. *)
LEMMA SameMachine ==
    /\ Ma!Init <=> MaP!Init
    /\ Ma!Next <=> MaP!Next
    /\ Ma!vars = MaP!vars /\ Ma!vars' = MaP!vars'
    /\ (Ma!TypeOK <=> MaP!TypeOK) /\ (Ma!TypeOK' <=> MaP!TypeOK')
    /\ (Ma!IInv <=> MaP!IInv) /\ (Ma!IInv' <=> MaP!IInv')
    /\ \A n \in Nodes : Ma!Reconcile(n) <=> MaP!Reconcile(n)
    /\ Ma!Continue \/ Ma!FindFails <=> MaP!Continue \/ MaP!FindFails
BY Zenon DEF Ma!Init, Ma!Next, Ma!vars, Ma!IInv, Ma!Blank, Ma!Reconcile, Ma!CacheSync, Ma!DeletionAges, Ma!Continue,
       Ma!FindFails, Ma!Crash, Ma!Environment, Ma!objects, Ma!env, Ma!local, Ma!TypeOK, Ma!Presence,
       Ma!CacheLags, Ma!PhonedHeld, Ma!Running, Ma!Fresh, Ma!Lossless, Ma!Owned, Ma!AddFinalizer,
       Ma!StartReconcile, Ma!StartDelete, Ma!LookUp, Ma!AllocateMachine, Ma!AllocationRefused,
       Ma!DeleteMissing, Ma!DeleteFound, Ma!FreeMachine, Ma!Patch, Ma!Fault, Ma!ToPatch, Ma!Forget,
       Ma!Prepare, Ma!ClusterGone, Ma!RequestDelete, Ma!PhoneHome, Ma!OutsiderFrees, Ma!OutsiderAllocates,
       Ma!Machine, Ma!Holders, Ma!Steps, Ma!Removed, Ma!Held, Ma!Known, Ma!InUse, Ma!KeepsServer, Ma!getMachineStatus, Ma!Begin, Ma!InProject,
       Ma!Described, Ma!Answered, Ma!Settled, Ma!Merged, Ma!Deleted, MaP!Init, MaP!Next, MaP!vars, MaP!IInv,
       MaP!Blank, MaP!Reconcile, MaP!CacheSync, MaP!DeletionAges, MaP!Continue, MaP!FindFails, MaP!Crash,
       MaP!Environment, MaP!objects, MaP!env, MaP!local, MaP!TypeOK, MaP!Presence, MaP!CacheLags,
       MaP!PhonedHeld, MaP!Running, MaP!Fresh, MaP!Lossless, MaP!Owned, MaP!AddFinalizer, MaP!StartReconcile,
       MaP!StartDelete, MaP!LookUp, MaP!AllocateMachine, MaP!AllocationRefused, MaP!DeleteMissing,
       MaP!DeleteFound, MaP!FreeMachine, MaP!Patch, MaP!Fault, MaP!ToPatch, MaP!Forget, MaP!Prepare,
       MaP!ClusterGone, MaP!RequestDelete, MaP!PhoneHome, MaP!OutsiderFrees, MaP!OutsiderAllocates,
       MaP!Machine, MaP!Holders, MaP!Steps, MaP!Removed, MaP!Held, MaP!Known, MaP!InUse, MaP!KeepsServer, MaP!getMachineStatus, MaP!Begin,
       MaP!InProject, MaP!Described, MaP!Answered, MaP!Settled, MaP!Merged, MaP!Deleted

(* What is proved about the cluster controller. *)
LEMMA ClusterProved ==
    /\ Cl!Init => Cl!IInv
    /\ Cl!TypeOK /\ [Cl!Next]_(Cl!vars) => Cl!TypeOK'
    /\ Cl!IInv /\ [Cl!Next]_(Cl!vars) => Cl!IInv'
<1>1. ClP!Init => ClP!IInv
    BY ManagerAssumption, ClP!InitIInv
<1>2. ClP!TypeOK /\ [ClP!Next]_(ClP!vars) => ClP!TypeOK'
    BY ManagerAssumption, ClP!NextTypeOK
<1>3. ClP!IInv /\ [ClP!Next]_(ClP!vars) => ClP!IInv'
    BY ManagerAssumption, ClP!NextIInv
<1> QED
    BY <1>1, <1>2, <1>3, SameCluster

(* What is proved about the firewall controller. *)
LEMMA FirewallProved ==
    /\ Fw!Init => Fw!IInv
    /\ Fw!TypeOK /\ [Fw!Next]_(Fw!vars) => Fw!TypeOK'
    /\ Fw!IInv /\ [Fw!Next]_(Fw!vars) => Fw!IInv'
<1>1. FwP!Init => FwP!IInv
    BY ManagerAssumption, FwP!InitFinalizerInv, FwP!InitReferenced DEF FwP!IInv
<1>2. FwP!TypeOK /\ [FwP!Next]_(FwP!vars) => FwP!TypeOK'
    BY ManagerAssumption, FwP!NextTypeOK
<1>3. FwP!IInv /\ [FwP!Next]_(FwP!vars) => FwP!IInv'
    BY ManagerAssumption, FwP!NextIInv
<1> QED
    BY <1>1, <1>2, <1>3, SameFirewall

(* What is proved about the machine controller. *)
LEMMA MachineProved ==
    /\ Ma!Init => Ma!IInv
    /\ Ma!TypeOK /\ [Ma!Next]_(Ma!vars) => Ma!TypeOK'
    /\ Ma!IInv /\ [Ma!Next]_(Ma!vars) => Ma!IInv'
<1>1. MaP!Init => MaP!IInv
    BY ManagerAssumption, MaP!InitIInv
<1>2. MaP!TypeOK /\ [MaP!Next]_(MaP!vars) => MaP!TypeOK'
    BY ManagerAssumption, MaP!NextTypeOK
<1>3. MaP!IInv /\ [MaP!Next]_(MaP!vars) => MaP!IInv'
    BY ManagerAssumption, MaP!NextIInv
<1> QED
    BY <1>1, <1>2, <1>3, SameMachine

-----------------------------------------------------------------------------
(* What the controllers see of each other's objects *)

(* What the cluster controller sees of a deployment is a deployment, and what
   others do to it looks to the cluster controller as if done to what it sees. *)
LEMMA SeenType ==
    ASSUME NEW o \in Fw!Deployment
    PROVE  Seen(o) \in Cl!Deployment
BY DEF Seen, Fw!Deployment, Cl!Deployment

LEMMA SeenUpdates ==
    ASSUME NEW o \in Fw!Deployment, NEW b \in BOOLEAN
    PROVE  /\ Seen([o EXCEPT !.exists = b]) = [Seen(o) EXCEPT !.exists = b]
           /\ Seen([o EXCEPT !.finalizer = b]) = [Seen(o) EXCEPT !.finalizer = b]
           /\ Seen([o EXCEPT !.deleting = b]) = [Seen(o) EXCEPT !.deleting = b]
           /\ Seen([o EXCEPT !.owned = b]) = [Seen(o) EXCEPT !.owned = b]
BY DEF Seen, Fw!Deployment

(* What the API server stores after an update. *)
LEMMA SettledDeployment ==
    ASSUME NEW o \in Fw!Deployment
    PROVE  /\ Settled(o) \in Fw!Deployment
           /\ Settled(o).exists = (o.exists /\ (o.deleting => o.finalizer))
           /\ Settled(o).finalizer = o.finalizer /\ Settled(o).deleting = o.deleting /\ Settled(o).owned = o.owned
           /\ o.exists = Settled(o).exists => Settled(o) = o
           /\ Seen(Settled(o)) = Settled(Seen(o))
<1> DEFINE e == o.exists /\ (o.deleting => o.finalizer)
<1>1. e \in BOOLEAN
    OBVIOUS
<1>2. /\ Settled(o) = [o EXCEPT !.exists = e]
      /\ Settled(Seen(o)) = [Seen(o) EXCEPT !.exists = e]
    BY DEF Settled, Seen
<1>3. Seen(Settled(o)) = Settled(Seen(o))
    BY <1>1, <1>2, SeenUpdates
<1> QED
    BY <1>1, <1>2, <1>3 DEF Fw!Deployment

(* A delete call sets the deletion timestamp and leaves the rest alone; an
   object without finalizer is gone. *)
LEMMA DeletedDeployment ==
    ASSUME NEW o \in Fw!Deployment
    PROVE  /\ Deleted(o) \in Fw!Deployment
           /\ Deleted(o).deleting = TRUE /\ Deleted(o).exists = (o.exists /\ o.finalizer)
           /\ Deleted(o).finalizer = o.finalizer /\ Deleted(o).owned = o.owned
           /\ o.deleting /\ (o.exists => o.finalizer) => Deleted(o) = o
           /\ Seen(Deleted(o)) = Deleted(Seen(o))
<1> DEFINE d == [o EXCEPT !.deleting = TRUE]
<1>1. /\ d \in Fw!Deployment /\ d.deleting = TRUE /\ d.exists = o.exists
      /\ d.finalizer = o.finalizer /\ d.owned = o.owned
      /\ o.deleting => d = o
    BY DEF Fw!Deployment
<1>2. Seen(d) = [Seen(o) EXCEPT !.deleting = TRUE]
    BY SeenUpdates
<1>3. Deleted(o) = Settled(d) /\ Deleted(Seen(o)) = Settled(Seen(d))
    BY <1>2 DEF Deleted
<1> HIDE DEF d
<1> QED
    BY <1>1, <1>3, SettledDeployment DEF Fw!Deployment

-----------------------------------------------------------------------------
(* Types, whether or not a cache is out of date *)

(* What the types of the three modules say, variable by variable. *)
Types ==
    /\ cluster \in Cl!Cluster /\ clusterC \in Cl!Cluster /\ networks \subseteq Networks
    /\ pcC \in Cl!Steps /\ beforeC \in Cl!Cluster /\ afterC \in Cl!Cluster
    /\ faultsC \in 0 .. MaxFaults /\ staleC \in BOOLEAN
    /\ fwd \in Fw!Deployment /\ fwdC \in Fw!Deployment
    /\ template \in [exists : BOOLEAN, rules : BOOLEAN, owned : BOOLEAN]
    /\ firewalls \in [FirewallServers -> Networks \cup {None}]
    /\ pcF \in Fw!Steps /\ beforeF \in Fw!Deployment /\ afterF \in Fw!Deployment
    /\ network \in Networks \cup {None} /\ found \subseteq FirewallServers /\ failed \in BOOLEAN
    /\ faultsF \in 0 .. MaxFaults
    /\ obj \in [Nodes -> Ma!Machine] /\ objC \in [Nodes -> Ma!Machine]
    /\ servers \in [MachineServers -> Ma!Holders]
    /\ pcM \in Ma!Steps /\ cur \in Nodes \cup {None} /\ beforeM \in Ma!Machine /\ afterM \in Ma!Machine
    /\ faultsM \in 0 .. MaxFaults
    /\ placed \in [MachineServers -> Networks \cup {None}] /\ networkM \in Networks \cup {None}
    /\ secret \subseteq Nodes

LEMMA SameTypes == (TypeOK => Types) /\ (Types' => TypeOK')
<1>1. TypeOK => Types
    BY DEF TypeOK, Types, Cl!TypeOK, Fw!TypeOK, Ma!TypeOK
<1>2. ASSUME Types' PROVE TypeOK'
    <2>1. Seen(fwd') \in Cl!Deployment /\ Seen(fwdC') \in Cl!Deployment
        BY <1>2, SeenType DEF Types
    <2>2. clusterC'.nodeNetworkID \in Networks \cup {None}
        BY <1>2 DEF Types, Cl!Cluster
    <2>3. Cl!TypeOK'
        BY <1>2, <2>1 DEF Types, Cl!TypeOK
    <2>4. Fw!TypeOK'
        BY <1>2, <2>2 DEF Types, Fw!TypeOK
    <2>5. Ma!TypeOK'
        BY <1>2 DEF Types, Ma!TypeOK
    <2> QED
        BY <1>2, <2>3, <2>4, <2>5 DEF Types, TypeOK
<1> QED
    BY <1>1, <1>2

(* A delete call keeps the types. *)
LEMMA DeletedTypes ==
    /\ \A o \in Cl!Cluster : Deleted(o) \in Cl!Cluster
    /\ \A o \in Fw!Deployment : Deleted(o) \in Fw!Deployment
    /\ \A o \in Ma!Machine : Deleted(o) \in Ma!Machine
<1>1. \A o \in Cl!Cluster : Deleted(o) \in Cl!Cluster
    BY DEF Deleted, Settled, Cl!Cluster
<1>2. \A o \in Ma!Machine : Deleted(o) \in Ma!Machine
    BY DEF Deleted, Settled, Ma!Machine
<1> QED
    BY <1>1, <1>2, DeletedDeployment

LEMMA NextTypeOK == TypeOK /\ [Next]_vars => TypeOK'
<1> SUFFICES ASSUME TypeOK, Types, [Next]_vars PROVE TypeOK'
    BY SameTypes
<1>1. CASE ClusterStep
    <2>1. Cl!TypeOK'
        BY <1>1, ClusterProved DEF ClusterStep, Cl!Next, TypeOK
    <2>2. fwd' \in Fw!Deployment
        <3>1. [fwd EXCEPT !.owned = TRUE] \in Fw!Deployment
            BY DEF Types, Fw!Deployment
        <3> QED
            BY <1>1, <3>1, DeletedTypes DEF Types, ClusterStep
    <2>3. UNCHANGED <<clusterC, fwdC, obj, objC, template, secret, firewalls, servers, placed, localF, localM>>
        BY <1>1 DEF ClusterStep
    <2> QED
        BY <2>1, <2>2, <2>3 DEF Types, TypeOK, Fw!TypeOK, Ma!TypeOK, localF, localM
<1>2. CASE FirewallStep
    <2>1. Fw!TypeOK'
        BY <1>2, FirewallProved DEF FirewallStep, Fw!Next, TypeOK
    <2>2. UNCHANGED <<cluster, obj, cached, secret, networks, servers, placed, localC, localM>>
        BY <1>2 DEF FirewallStep
    <2>3. Seen(fwd') \in Cl!Deployment
        BY <2>1, SeenType DEF Fw!TypeOK
    <2> QED
        BY <2>1, <2>2, <2>3 DEF Types, TypeOK, Cl!TypeOK, Ma!TypeOK, cached, localC, localM
<1>3. CASE MachineContinues \/ \E n \in Nodes : MachineBegins(n)
    <2>1. Ma!TypeOK'
        BY <1>3, MachineProved DEF MachineContinues, MachineBegins, Ma!Next, TypeOK
    <2>2. UNCHANGED <<cluster, fwd, cached, template, secret, networks, firewalls, localC, localF>>
        BY <1>3 DEF MachineContinues, MachineBegins
    <2>3. /\ placed' \in [MachineServers -> Networks \cup {None}]
          /\ networkM' \in Networks \cup {None}
        <3>1. clusterC.nodeNetworkID \in Networks \cup {None}
            BY DEF Types, Cl!Cluster
        <3> QED
            BY <1>3, <3>1 DEF Types, MachineContinues, MachineBegins, Placed
    <2> QED
        BY <2>1, <2>2, <2>3 DEF TypeOK, Cl!TypeOK, Fw!TypeOK, cached, localC, localF
<1>4. CASE Crash
    <2>1. UNCHANGED <<stored, cached, template, secret, metal>>
        BY <1>4 DEF Crash
    <2>2. [Cl!Next]_(Cl!vars)
        BY <1>4, <2>1 DEF Crash, Cl!Next, Cl!vars, Cl!objects, Cl!others, Cl!metal, Cl!local, Cl!past, localC,
           stored, cached, metal
    <2>3. [Fw!Next]_(Fw!vars)
        BY <1>4, <2>1 DEF Crash, Fw!Next, Fw!vars, Fw!objects, Fw!env, Fw!local, localF, stored, cached, metal
    <2>4. [Ma!Next]_(Ma!vars)
        BY <1>4, <2>1 DEF Crash, Ma!Next, Ma!vars, Ma!objects, Ma!env, Ma!local, localM, stored, cached, metal
    <2> QED
        <3>1. networkM' \in Networks \cup {None}
            BY <1>4 DEF Crash, Types, localM
        <3> QED
            BY <2>1, <2>2, <2>3, <2>4, <3>1, ClusterProved, FirewallProved, MachineProved DEF Types, TypeOK, metal
<1>5. CASE CacheSync
    <2>1. UNCHANGED <<stored, template, secret, metal, localC, localF, localM>>
        BY <1>5 DEF CacheSync
    <2>2. clusterC' \in {clusterC, cluster} /\ fwdC' \in {fwdC, fwd}
        BY <1>5 DEF CacheSync, ClusterCacheSync, FirewallCacheSync, MachineCacheSync
    <2>3. objC' = objC \/ \E n \in Nodes : objC' = [objC EXCEPT ![n] = obj[n]]
        BY <1>5 DEF CacheSync, ClusterCacheSync, FirewallCacheSync, MachineCacheSync
    <2>4. objC' \in [Nodes -> Ma!Machine]
        BY <2>3 DEF Types
    <2> QED
        BY <2>1, <2>2, <2>4, SameTypes DEF Types, stored, metal, localC, localF, localM
<1>6. CASE RequestDelete
    <2>1. UNCHANGED <<cached, template, secret, metal, localC, localF, localM>>
        BY <1>6 DEF RequestDelete
    <2>2. cluster' \in {cluster, Deleted(cluster)} /\ fwd' \in {fwd, Deleted(fwd)}
        BY <1>6 DEF RequestDelete, DeleteCluster, DeleteFirewall, DeleteMachine
    <2>3. obj' = obj \/ \E n \in Nodes : obj' = [obj EXCEPT ![n] = Deleted(obj[n])]
        BY <1>6 DEF RequestDelete, DeleteCluster, DeleteFirewall, DeleteMachine
    <2>4. cluster' \in Cl!Cluster /\ fwd' \in Fw!Deployment /\ obj' \in [Nodes -> Ma!Machine]
        BY <2>2, <2>3, DeletedTypes DEF Types
    <2> QED
        BY <2>1, <2>4, SameTypes DEF Types, cached, metal, localC, localF, localM
<1>7. CASE Bootstrap
    BY <1>7, SameTypes DEF Types, Bootstrap, stored, cached, metal, localC, localF, localM
<1>8. CASE DeleteTemplate
    <2>1. template' \in [exists : BOOLEAN, rules : BOOLEAN, owned : BOOLEAN]
        BY <1>8 DEF Types, DeleteTemplate
    <2> QED
        BY <1>8, <2>1, SameTypes DEF Types, DeleteTemplate, stored, cached, metal, localC, localF, localM
<1>9. CASE UNCHANGED vars
    BY <1>9, SameTypes DEF Types, vars, stored, cached, metal, localC, localF, localM
<1> QED
    BY <1>1, <1>2, <1>3, <1>4, <1>5, <1>6, <1>7, <1>8, <1>9 DEF Next, Controllers, Environment

-----------------------------------------------------------------------------
(* What a step of one controller is for the other two *)

(* What the cluster controller does to the cluster and to the deployment. *)
LEMMA ClusterEffect ==
    ASSUME IInv, ~StaleReads, ClusterStep
    PROVE  /\ UNCHANGED <<clusterC, fwdC, obj, objC, template, secret, firewalls, servers, placed, localF, localM>>
           /\ \/ fwd' = fwd
              \/ fwd.exists /\ ~fwd.owned /\ fwd' = [fwd EXCEPT !.owned = TRUE]
              \/ fwd.exists /\ ~fwd.deleting /\ fwd' = Deleted(fwd)
           /\ ~staleC'
           /\ Cl!Removed' => NoMachine /\ ~fwd.exists /\ afterC'.nodeNetworkID = None
           /\ cluster'.host = UserHost
           /\ cluster'.exists => cluster.exists
           /\ cluster.exists /\ cluster.finalizer /\ ~cluster'.exists => pcC # "idle" /\ Cl!Removed
           /\ \/ cluster'.nodeNetworkID = cluster.nodeNetworkID
              \/ cluster.exists /\ cluster.nodeNetworkID = None
              \/ Cl!Removed /\ cluster'.nodeNetworkID = afterC.nodeNetworkID /\ ~cluster'.exists
           /\ Inhabited /\ (\A o \in {cluster, clusterC, afterC} : o.nodeNetworkID \in networks \cup {None})
                => \A o \in {cluster', clusterC', afterC'} : o.nodeNetworkID \in networks' \cup {None}
<1>1. ClP!IInv /\ ClP!TypeOK /\ ClP!Controller
    BY SameCluster DEF IInv, TypeOK, ClusterStep
<1>2. /\ ~staleC /\ UserHost # None
      /\ cluster.host = UserHost
    BY ManagerAssumption DEF IInv, ClusterWaits, NetworkStays
<1>3. UNCHANGED <<clusterC, fwdC, obj, objC, template, secret, firewalls, servers, placed, localF, localM>>
    BY DEF ClusterStep
<1>4. \/ fwd' = fwd
      \/ fwd.exists /\ ~fwd.owned /\ fwd' = [fwd EXCEPT !.owned = TRUE]
      \/ fwd.exists /\ ~fwd.deleting /\ fwd' = Deleted(fwd)
    <2>1. fwd \in Fw!Deployment /\ fwd.exists = (fwd.deleting => fwd.finalizer)
        BY DEF IInv, Fw!IInv, Fw!FinalizerInv, Fw!TypeOK, Fw!Presence
    <2>2. fwd' \in {fwd, [fwd EXCEPT !.owned = TRUE], Deleted(fwd)}
        BY DEF ClusterStep
    <2>3. \/ Seen(fwd') = Seen(fwd)
          \/ Seen(fwd).exists /\ ~Seen(fwd).owned /\ Seen(fwd') = [Seen(fwd) EXCEPT !.owned = TRUE]
          \/ Seen(fwd).exists /\ Seen(fwd') = ClP!Deleted(Seen(fwd))
        BY <1>1, ManagerAssumption, ClP!FirewallEffect, Zenon
    <2>4. \/ fwd'.owned = fwd.owned /\ fwd'.deleting = fwd.deleting
          \/ fwd.exists /\ ~fwd.owned /\ fwd'.owned = TRUE /\ fwd'.deleting = fwd.deleting
          \/ fwd.exists /\ fwd'.owned = fwd.owned /\ fwd'.deleting = TRUE
        <3>1. ClP!Deleted(Seen(fwd)) = Seen(Deleted(fwd))
            BY <2>1, DeletedDeployment DEF ClP!Deleted, ClP!Settled, Deleted, Settled
        <3>2. [Seen(fwd) EXCEPT !.owned = TRUE] = Seen([fwd EXCEPT !.owned = TRUE])
            BY <2>1, SeenUpdates
        <3>3. Seen(fwd).exists = fwd.exists /\ Seen(fwd).owned = fwd.owned
            BY DEF Seen
        <3>4. \A o : Seen(o).owned = o.owned /\ Seen(o).deleting = o.deleting
            BY DEF Seen
        <3>5. /\ [fwd EXCEPT !.owned = TRUE].owned = TRUE
              /\ [fwd EXCEPT !.owned = TRUE].deleting = fwd.deleting
              /\ Deleted(fwd).owned = fwd.owned /\ Deleted(fwd).deleting = TRUE
            BY <2>1, DeletedDeployment DEF Fw!Deployment
        <3>6. CASE Seen(fwd') = Seen(fwd)
            BY <3>4, <3>6
        <3>7. CASE fwd.exists /\ ~fwd.owned /\ Seen(fwd') = Seen([fwd EXCEPT !.owned = TRUE])
            BY <3>4, <3>5, <3>7
        <3>8. CASE fwd.exists /\ Seen(fwd') = Seen(Deleted(fwd))
            BY <3>4, <3>5, <3>8
        <3> QED
            BY <2>3, <3>1, <3>2, <3>3, <3>6, <3>7, <3>8
    <2>5. CASE fwd' = [fwd EXCEPT !.owned = TRUE]
        BY <2>1, <2>4, <2>5 DEF Fw!Deployment
    <2>6. CASE fwd' = Deleted(fwd)
        BY <2>1, <2>4, <2>6, DeletedDeployment
    <2> QED
        BY <2>2, <2>5, <2>6
<1>5. ~staleC' /\ (Cl!Removed' => NoMachine /\ ~fwd.exists /\ afterC'.nodeNetworkID = None)
    BY <1>1, <1>2, ManagerAssumption, ClP!RemovalEffect DEF ClP!Removed, Cl!Removed, NoMachine, Seen
<1>6. /\ cluster'.host = UserHost
      /\ \/ cluster'.nodeNetworkID = cluster.nodeNetworkID
         \/ cluster.exists /\ cluster.nodeNetworkID = None
         \/ Cl!Removed /\ cluster'.nodeNetworkID = afterC.nodeNetworkID /\ ~cluster'.exists
    BY <1>1, <1>2, ManagerAssumption, ClP!IdentityEffect DEF ClP!Removed, Cl!Removed
<1>7. /\ cluster'.exists => cluster.exists
      /\ cluster.exists /\ cluster.finalizer /\ ~cluster'.exists => pcC # "idle" /\ Cl!Removed
    BY <1>1, ManagerAssumption, ClP!EndEffect DEF ClP!Removed, Cl!Removed
<1>8. Inhabited => pcC # "releaseNetwork"
    BY <1>2 DEF IInv, Cl!IInv, Cl!Fresh, Cl!Releasing, Inhabited, NoMachine, Seen
<1>9. Inhabited /\ (\A o \in {cluster, clusterC, afterC} : o.nodeNetworkID \in networks \cup {None})
        => \A o \in {cluster', clusterC', afterC'} : o.nodeNetworkID \in networks' \cup {None}
    BY <1>1, <1>8, ManagerAssumption, ClP!NamedEffect DEF ClP!Named
<1> QED
    BY <1>3, <1>4, <1>5, <1>6, <1>7, <1>9

(* What the firewall controller does to the deployment. *)
LEMMA FirewallEffect ==
    ASSUME IInv, FirewallStep
    PROVE  /\ UNCHANGED <<cluster, obj, cached, secret, networks, servers, placed, localC, localM>>
           /\ pcF' # "idle" => pcF # "idle" \/ fwdC.owned
           /\ FwP!Late' => NoneListed
           /\ \/ fwd' = fwd
              \/ /\ fwd.exists /\ fwd.owned
                 /\ fwd'.deleting = fwd.deleting /\ fwd'.owned = fwd.owned
                 /\ fwd'.exists = (fwd.deleting => fwd'.finalizer)
                 /\ fwd.finalizer /\ ~fwd'.finalizer => fwd.deleting /\ NoneListed
<1>1. FwP!FinalizerInv /\ (FwP!Controller \/ FwP!FindFails)
    BY SameFirewall DEF IInv, FirewallStep, FwP!IInv
<1>2. FwP!Late => NoneListed
    BY DEF IInv, FirewallWaits, FwP!Late
<1>3. ~(\E n \in Nodes : objC[n].exists) => NoneListed
    BY DEF NoneListed
<1>4. pcF # "idle" => fwd.owned
    BY DEF IInv, FirewallWaits
<1>5. UNCHANGED <<cluster, obj, cached, secret, networks, servers, placed, localC, localM>>
    BY DEF FirewallStep
<1>6. /\ pcF' # "idle" => pcF # "idle" \/ fwdC.owned
      /\ FwP!Late' => FwP!Late \/ ~(\E n \in Nodes : objC[n].exists)
      /\ \/ fwd' = fwd
         \/ /\ fwd.exists /\ pcF # "idle"
            /\ fwd'.deleting = fwd.deleting /\ fwd'.owned = fwd.owned
            /\ fwd'.exists = (fwd.deleting => fwd'.finalizer)
            /\ fwd.finalizer /\ ~fwd'.finalizer => fwd.deleting /\ FwP!Late
    BY <1>1, ManagerAssumption, FwP!ControllerEffect
<1> QED
    BY <1>2, <1>3, <1>4, <1>5, <1>6

(* A step of the machine controller: it begins a reconciliation or goes on. *)
MachineStep == MachineContinues \/ \E n \in Nodes : MachineBegins(n)

(* What it does to machines and servers. *)
LEMMA MachineEffect ==
    ASSUME IInv, ~StaleReads, MachineStep
    PROVE  /\ UNCHANGED <<cluster, fwd, cached, template, secret, networks, firewalls, localC, localF>>
           /\ Ma!Next
           /\ \A n \in Nodes : obj'[n].exists => obj[n].exists
           /\ pcM = "allocate" => ~NoMachine
           /\ pcM' = "allocate" => networkM' = clusterC.nodeNetworkID /\ networkM' # None
           /\ \A h \in MachineServers :
                \/ servers'[h] = None
                \/ servers'[h] = servers[h] /\ placed'[h] = placed[h]
                \/ pcM = "allocate" /\ servers'[h] \in Nodes /\ placed'[h] = networkM
<1>1. MaP!IInv /\ ((\E n \in Nodes : MaP!Reconcile(n)) \/ MaP!Continue \/ MaP!FindFails) /\ Ma!Next
    BY SameMachine DEF IInv, MachineStep, MachineContinues, MachineBegins, Ma!Next
<1>2. UNCHANGED <<cluster, fwd, cached, template, secret, networks, firewalls, localC, localF>>
    BY DEF MachineStep, MachineContinues, MachineBegins
<1>3. /\ \A n \in Nodes : obj'[n].exists => obj[n].exists
      /\ pcM' = "allocate" => clusterC.nodeNetworkID # None
      /\ (\E n \in Nodes : MaP!Reconcile(n)) => UNCHANGED servers
      /\ \A h \in MachineServers :
           servers'[h] \in {servers[h], None} \/ (pcM = "allocate" /\ servers'[h] = cur)
    BY <1>1, ManagerAssumption, MaP!ControllerEffect
<1>4. pcM = "allocate" => cur \in Nodes /\ obj[cur].exists
    BY <1>1, ManagerAssumption, MaP!AllocatingExists
<1>5. /\ pcM' = "allocate" => networkM' = clusterC.nodeNetworkID /\ networkM' # None
      /\ \A h \in MachineServers :
           \/ servers'[h] = None
           \/ servers'[h] = servers[h] /\ placed'[h] = placed[h]
           \/ pcM = "allocate" /\ servers'[h] \in Nodes /\ placed'[h] = networkM
    <2>1. CASE \E n \in Nodes : MachineBegins(n)
        <3>1. (\E n \in Nodes : MaP!Reconcile(n)) /\ UNCHANGED placed
              /\ networkM' = IF pcM' = "allocate" THEN clusterC.nodeNetworkID ELSE None
            BY <2>1, SameMachine DEF MachineBegins
        <3> QED
            BY <1>3, <3>1
    <2>2. CASE MachineContinues
        <3>1. MaP!Continue \/ MaP!FindFails
            BY <2>2, SameMachine DEF MachineContinues
        <3>2. pcM' # "allocate"
            BY <3>1, ManagerAssumption, MaP!ContinueEffect
        <3>3. placed' = [h \in MachineServers |-> Placed(h)]
            BY <2>2 DEF MachineContinues
        <3>4. ASSUME NEW h \in MachineServers
              PROVE  \/ servers'[h] = None
                     \/ servers'[h] = servers[h] /\ placed'[h] = placed[h]
                     \/ pcM = "allocate" /\ servers'[h] \in Nodes /\ placed'[h] = networkM
            BY <1>3, <1>4, <3>3 DEF Placed
        <3> QED
            BY <3>2, <3>4
    <2> QED
        BY <2>1, <2>2 DEF MachineStep
<1> QED
    BY <1>1, <1>2, <1>3, <1>4, <1>5 DEF NoMachine

(* The types of what is shared. *)
LEMMA Shared ==
    ASSUME IInv
    PROVE  /\ cluster \in Cl!Cluster /\ clusterC \in Cl!Cluster
           /\ fwd \in Fw!Deployment /\ fwdC \in Fw!Deployment
           /\ fwd.exists = (fwd.deleting => fwd.finalizer)
           /\ cluster.exists = (cluster.deleting => cluster.finalizer)
           /\ obj \in [Nodes -> Ma!Machine] /\ objC \in [Nodes -> Ma!Machine]
           /\ secret \subseteq Nodes
BY DEF IInv, TypeOK, Cl!IInv, Cl!TypeOK, Cl!Presence, Fw!IInv, Fw!FinalizerInv, Fw!TypeOK, Fw!Presence,
       Ma!IInv, Ma!TypeOK

(* The same as for a deployment, for a machine. *)
LEMMA DeletedMachine ==
    ASSUME NEW n \in Nodes, obj \in [Nodes -> Ma!Machine], obj' = [obj EXCEPT ![n] = Deleted(@)]
    PROVE  \A k \in Nodes : obj'[k].exists => obj[k].exists
BY DEF Deleted, Settled, Ma!Machine

(* The cluster controller finds the rest of the world as its module describes
   it: the deployment is guarded once it is adopted and released when the
   machines are gone, and no machine is added. *)
LEMMA ClusterView ==
    ASSUME IInv, ~StaleReads, [Next]_vars
    PROVE  [Cl!Next]_(Cl!vars)
<1> DEFINE m == \E n \in Nodes : obj[n].exists
           mC == \E n \in Nodes : objC[n].exists
<1>1. ASSUME UNCHANGED <<cluster, clusterC, networks, localC>>, Seen(fwd)' = Seen(fwd), Seen(fwdC)' = Seen(fwdC),
             m' = m, mC' = mC
      PROVE  UNCHANGED Cl!vars
    BY <1>1 DEF Cl!vars, Cl!objects, Cl!others, Cl!metal, Cl!local, Cl!past, localC
<1>2. ASSUME UNCHANGED <<cluster, clusterC, networks, localC, fwd, fwdC, objC>>,
             \A n \in Nodes : obj'[n].exists => obj[n].exists
      PROVE  [Cl!Next]_(Cl!vars)
    <2>1. CASE m' = m
        BY <1>1, <1>2, <2>1
    <2>2. CASE m' # m
        <3>1. m /\ ~m'
            BY <1>2, <2>2
        <3>2. Cl!MachinesChange
            BY <1>2, <3>1 DEF Cl!MachinesChange, Cl!objects, Cl!metal, Cl!local, Cl!past, localC
        <3> QED
            BY <3>2 DEF Cl!Next, Cl!Environment
    <2> QED
        BY <2>1, <2>2
<1>3. CASE ClusterStep
    BY <1>3 DEF ClusterStep, Cl!Next
<1>4. CASE FirewallStep
    <2>1. UNCHANGED <<cluster, clusterC, networks, localC, fwdC, obj, objC>>
        BY <1>4 DEF FirewallStep, cached
    <2>2. CASE Seen(fwd)' = Seen(fwd)
        BY <1>1, <2>1, <2>2
    <2>3. CASE Seen(fwd)' # Seen(fwd)
        <3>1. /\ fwd.exists /\ fwd.owned /\ fwd'.deleting = fwd.deleting /\ fwd'.owned = fwd.owned
              /\ fwd'.exists = (fwd.deleting => fwd'.finalizer)
              /\ fwd.finalizer /\ ~fwd'.finalizer => fwd.deleting /\ NoneListed
            BY <1>4, <2>3, FirewallEffect
        <3>2. fwd' \in Fw!Deployment
            BY <1>4, FirewallProved DEF FirewallStep, IInv, TypeOK, Fw!Next, Fw!TypeOK
        <3> DEFINE g(b) == [fwd EXCEPT !.finalizer = b]
        <3>5. fwd'.finalizer # fwd.finalizer
            <4>1. fwd'.finalizer = fwd.finalizer => fwd'.exists = fwd.exists
                BY <3>1, Shared
            <4> QED
                BY <2>3, <3>1, <4>1 DEF Seen
        <3>6. \A b \in BOOLEAN :
                /\ g(b) \in Fw!Deployment /\ g(b).finalizer = b /\ g(b).exists = fwd.exists
                /\ g(b).deleting = fwd.deleting /\ g(b).owned = fwd.owned
                /\ Seen(g(b)) = [Seen(fwd) EXCEPT !.finalizer = b]
            BY Shared, SeenUpdates DEF Fw!Deployment
        <3>7. fwd.finalizer \in BOOLEAN /\ fwd'.finalizer \in BOOLEAN
            BY <3>2, Shared DEF Fw!Deployment
        <3> HIDE DEF g
        <3>3. CASE fwd'.finalizer
            <4>1. ~fwd.finalizer /\ Seen(fwd') = [Seen(fwd) EXCEPT !.finalizer = TRUE]
                <5>1. fwd.finalizer = FALSE /\ fwd'.finalizer = TRUE
                    BY <3>3, <3>5, <3>7
                <5>2. /\ fwd'.exists = g(TRUE).exists /\ fwd'.finalizer = g(TRUE).finalizer
                      /\ fwd'.deleting = g(TRUE).deleting /\ fwd'.owned = g(TRUE).owned
                    BY <3>1, <3>6, <5>1
                <5>3. Seen(fwd') = Seen(g(TRUE))
                    BY <5>2 DEF Seen
                <5> QED
                    BY <3>6, <5>1, <5>3
            <4>2. Cl!FirewallGuarded
                BY <2>1, <3>1, <4>1 DEF Cl!FirewallGuarded, Cl!FirewallChanges, Seen, Cl!objects, Cl!metal,
                   Cl!local, Cl!past, localC
            <4> QED
                BY <4>2 DEF Cl!Next, Cl!Environment
        <3>4. CASE ~fwd'.finalizer
            <4>1. fwd.finalizer /\ fwd.deleting /\ NoneListed
                BY <3>1, <3>4, <3>5, <3>7
            <4>2. Seen(fwd') = Settled([Seen(fwd) EXCEPT !.finalizer = FALSE])
                <5>1. fwd'.finalizer = FALSE /\ fwd.deleting
                    BY <3>4, <3>7, <4>1
                <5>2. /\ fwd'.exists = Settled(g(FALSE)).exists /\ fwd'.finalizer = Settled(g(FALSE)).finalizer
                      /\ fwd'.deleting = Settled(g(FALSE)).deleting /\ fwd'.owned = Settled(g(FALSE)).owned
                    BY <3>1, <3>6, <5>1, SettledDeployment
                <5>3. Seen(fwd') = Seen(Settled(g(FALSE)))
                    BY <5>2 DEF Seen
                <5>4. g(FALSE) \in Fw!Deployment /\ Seen(g(FALSE)) = [Seen(fwd) EXCEPT !.finalizer = FALSE]
                    BY <3>6
                <5>5. Seen(Settled(g(FALSE))) = Settled(Seen(g(FALSE)))
                    BY <5>4, SettledDeployment
                <5> QED
                    BY <5>3, <5>4, <5>5, Zenon
            <4>3. Cl!FirewallReleased
                BY <2>1, <3>1, <4>1, <4>2 DEF Cl!FirewallReleased, Cl!FirewallChanges, Cl!Settled, Settled,
                   NoneListed, Seen, Cl!objects, Cl!metal, Cl!local, Cl!past, localC
            <4> QED
                BY <4>3 DEF Cl!Next, Cl!Environment
        <3> QED
            BY <3>3, <3>4
    <2> QED
        BY <2>2, <2>3
<1>5. CASE MachineStep
    BY <1>2, <1>5, MachineEffect DEF cached
<1>6. CASE Crash
    <2>1. UNCHANGED <<cluster, clusterC, networks, fwd, fwdC, obj, objC>>
        BY <1>6 DEF Crash, stored, cached, metal
    <2>2. UNCHANGED localC \/ Cl!Crash
        BY <1>6 DEF Crash
    <2> QED
        BY <1>1, <2>1, <2>2 DEF Cl!Next
<1>7. CASE CacheSync
    <2>1. UNCHANGED <<cluster, networks, localC, fwd, obj>>
        BY <1>7 DEF CacheSync, stored, metal
    <2>2. CASE ClusterCacheSync
        <3>1. Cl!ClusterCacheSync
            BY <2>1, <2>2 DEF ClusterCacheSync, Cl!ClusterCacheSync, Cl!others, Cl!metal, Cl!local, Cl!past, localC
        <3> QED
            BY <3>1 DEF Cl!Next, Cl!CacheSync
    <2>3. CASE FirewallCacheSync
        <3>1. Seen(fwdC)' # Seen(fwdC) => Cl!FirewallCacheSync
            BY <2>1, <2>3 DEF FirewallCacheSync, Cl!FirewallCacheSync, Cl!objects, Cl!metal, Cl!local, Cl!past, localC
        <3> QED
            BY <1>1, <2>1, <2>3, <3>1 DEF Cl!Next, Cl!CacheSync, FirewallCacheSync
    <2>4. ASSUME NEW n \in Nodes, MachineCacheSync(n) PROVE [Cl!Next]_(Cl!vars)
        <3>1. mC' # mC => mC' = m
            BY <2>4, Shared DEF MachineCacheSync, IInv, MachinesListed
        <3>2. mC' # mC => Cl!MachineCacheSync
            BY <2>1, <2>4, <3>1 DEF MachineCacheSync, Cl!MachineCacheSync, Cl!objects, Cl!metal, Cl!local, Cl!past,
               localC
        <3> QED
            BY <1>1, <2>1, <2>4, <3>2 DEF Cl!Next, Cl!CacheSync, MachineCacheSync
    <2> QED
        BY <1>7, <2>2, <2>3, <2>4 DEF CacheSync
<1>8. CASE RequestDelete
    <2>1. UNCHANGED <<clusterC, fwdC, objC, networks, localC>>
        BY <1>8 DEF RequestDelete, cached, metal
    <2>2. CASE DeleteCluster
        <3>1. Cl!RequestDelete
            BY <2>1, <2>2 DEF DeleteCluster, Cl!RequestDelete, Cl!Deleted, Cl!Settled, Deleted, Settled, Cl!others,
               Cl!metal, Cl!local, Cl!past, localC
        <3> QED
            BY <3>1 DEF Cl!Next, Cl!Environment
    <2>3. CASE DeleteFirewall
        <3>1. Seen(fwd)' = Deleted(Seen(fwd))
            BY <2>3, Shared, DeletedDeployment DEF DeleteFirewall
        <3>2. Cl!FirewallDeleted
            BY <2>1, <2>3, <3>1 DEF DeleteFirewall, Cl!FirewallDeleted, Cl!FirewallChanges, Cl!Deleted, Cl!Settled,
               Deleted, Settled, Seen, Cl!objects, Cl!metal, Cl!local, Cl!past, localC
        <3> QED
            BY <3>2 DEF Cl!Next, Cl!Environment
    <2>4. ASSUME NEW n \in Nodes, DeleteMachine(n) PROVE [Cl!Next]_(Cl!vars)
        BY <1>2, <2>1, <2>4, Shared, DeletedMachine DEF DeleteMachine
    <2> QED
        BY <1>8, <2>2, <2>3, <2>4 DEF RequestDelete
<1>9. CASE Bootstrap \/ DeleteTemplate
    BY <1>1, <1>9 DEF Bootstrap, DeleteTemplate, stored, cached, metal
<1>10. CASE UNCHANGED vars
    BY <1>1, <1>10 DEF vars, stored, cached, metal
<1> QED
    BY <1>3, <1>4, <1>5, <1>6, <1>7, <1>8, <1>9, <1>10 DEF Next, Controllers, Environment, MachineStep

(* The cached cluster loses its network when neither machines nor firewall
   deployment are left, and does not get another one. *)
LEMMA NetworkSync ==
    ASSUME IInv, ClusterCacheSync
    PROVE  \/ clusterC'.nodeNetworkID = clusterC.nodeNetworkID
           \/ clusterC.nodeNetworkID = None /\ clusterC'.nodeNetworkID \in Networks
           \/ ~Inhabited /\ clusterC.nodeNetworkID # None /\ clusterC'.nodeNetworkID = None
BY Shared DEF IInv, NetworkStays, ClusterCacheSync, Cl!Cluster

(* The firewall controller finds the rest of the world as its module describes
   it: the network of the cluster comes once and goes after the deployment. *)
LEMMA FirewallView ==
    ASSUME IInv, ~StaleReads, [Next]_vars
    PROVE  [Fw!Next]_(Fw!vars)
<1> DEFINE mC == \E n \in Nodes : objC[n].exists
<1>1. ASSUME UNCHANGED <<fwd, fwdC, template, firewalls, localF>>,
             clusterC'.nodeNetworkID = clusterC.nodeNetworkID, mC' = mC
      PROVE  UNCHANGED Fw!vars
    BY <1>1 DEF Fw!vars, Fw!objects, Fw!env, Fw!local, localF
<1>2. CASE ClusterStep
    <2>1. UNCHANGED <<clusterC, fwdC, objC, template, firewalls, localF>>
        BY <1>2, ClusterEffect
    <2>2. CASE fwd' = fwd
        BY <1>1, <2>1, <2>2
    <2>3. CASE fwd.exists /\ ~fwd.owned /\ fwd' = [fwd EXCEPT !.owned = TRUE]
        <3>1. Fw!ClusterAdopts
            BY <2>1, <2>3 DEF Fw!ClusterAdopts, Fw!env, Fw!local, localF
        <3> QED
            BY <3>1 DEF Fw!Next, Fw!Environment
    <2>4. CASE fwd.exists /\ ~fwd.deleting /\ fwd' = Deleted(fwd)
        <3>1. Fw!RequestDelete
            BY <2>1, <2>4 DEF Fw!RequestDelete, Fw!Deleted, Fw!Settled, Deleted, Settled, Fw!env, Fw!local, localF
        <3> QED
            BY <3>1 DEF Fw!Next, Fw!Environment
    <2> QED
        BY <1>2, <2>2, <2>3, <2>4, ClusterEffect
<1>3. CASE FirewallStep
    BY <1>3 DEF FirewallStep, Fw!Next
<1>4. CASE MachineStep
    BY <1>1, <1>4, MachineEffect DEF cached
<1>5. CASE Crash
    <2>1. UNCHANGED <<fwd, fwdC, template, firewalls, clusterC, objC>>
        BY <1>5 DEF Crash, stored, cached, metal
    <2>2. UNCHANGED localF \/ Fw!Crash
        BY <1>5 DEF Crash
    <2> QED
        BY <1>1, <2>1, <2>2 DEF Fw!Next
<1>6. CASE CacheSync
    <2>1. UNCHANGED <<fwd, template, firewalls, localF>>
        BY <1>6 DEF CacheSync, stored, metal
    <2>2. CASE ClusterCacheSync
        <3>1. UNCHANGED <<fwdC, objC>>
            BY <2>2 DEF ClusterCacheSync
        <3>2. CASE clusterC'.nodeNetworkID = clusterC.nodeNetworkID
            BY <1>1, <2>1, <3>1, <3>2
        <3>3. CASE clusterC.nodeNetworkID = None /\ clusterC'.nodeNetworkID \in Networks
            <4>1. Fw!ClusterNetwork
                BY <2>1, <3>1, <3>3 DEF Fw!ClusterNetwork, Fw!objects, Fw!local, localF
            <4> QED
                BY <4>1 DEF Fw!Next, Fw!Environment
        <3>4. CASE ~Inhabited /\ clusterC.nodeNetworkID # None /\ clusterC'.nodeNetworkID = None
            <4>1. Fw!ClusterGone
                BY <2>1, <3>1, <3>4 DEF Inhabited, Fw!ClusterGone, Fw!objects, Fw!local, localF
            <4> QED
                BY <4>1 DEF Fw!Next, Fw!Environment
        <3> QED
            BY <2>2, <3>2, <3>3, <3>4, NetworkSync
    <2>3. CASE FirewallCacheSync
        <3>1. Fw!CacheSync
            BY <2>1, <2>3 DEF FirewallCacheSync, Fw!CacheSync, Fw!env, Fw!local, localF
        <3> QED
            BY <3>1 DEF Fw!Next
    <2>4. ASSUME NEW n \in Nodes, MachineCacheSync(n) PROVE [Fw!Next]_(Fw!vars)
        <3>1. UNCHANGED <<fwdC, clusterC>>
            BY <2>4 DEF MachineCacheSync
        <3>2. mC' # mC => Fw!MachinesChange
            BY <2>1, <3>1 DEF Fw!MachinesChange, Fw!objects, Fw!local, localF
        <3> QED
            BY <1>1, <2>1, <3>1, <3>2 DEF Fw!Next, Fw!Environment
    <2> QED
        BY <1>6, <2>2, <2>3, <2>4 DEF CacheSync
<1>7. CASE RequestDelete
    <2>1. UNCHANGED <<clusterC, fwdC, objC, template, firewalls, localF>>
        BY <1>7 DEF RequestDelete, cached, metal
    <2>2. CASE DeleteFirewall
        <3>1. Fw!RequestDelete
            BY <2>1, <2>2 DEF DeleteFirewall, Fw!RequestDelete, Fw!Deleted, Fw!Settled, Deleted, Settled, Fw!env,
               Fw!local, localF
        <3> QED
            BY <3>1 DEF Fw!Next, Fw!Environment
    <2>3. CASE ~DeleteFirewall
        BY <1>1, <1>7, <2>1, <2>3 DEF RequestDelete, DeleteCluster, DeleteMachine
    <2> QED
        BY <2>2, <2>3
<1>8. CASE Bootstrap
    BY <1>1, <1>8 DEF Bootstrap, stored, cached, metal
<1>9. CASE DeleteTemplate
    <2>1. Fw!UserDeletesTemplate
        BY <1>9 DEF DeleteTemplate, Fw!UserDeletesTemplate, Fw!objects, Fw!local, localF, stored, cached, metal
    <2> QED
        BY <2>1 DEF Fw!Next, Fw!Environment
<1>10. CASE UNCHANGED vars
    BY <1>1, <1>10 DEF vars, stored, cached, metal
<1> QED
    BY <1>2, <1>3, <1>4, <1>5, <1>6, <1>7, <1>8, <1>9, <1>10 DEF Next, Controllers, Environment, MachineStep

(* The machine controller finds the rest of the world as its module describes
   it: machines are prepared one after the other, and what prepared them goes
   after the last of them. *)
LEMMA MachineView ==
    ASSUME IInv, ~StaleReads, [Next]_vars
    PROVE  [Ma!Next]_(Ma!vars)
<1> DEFINE p == IF clusterC.nodeNetworkID # None /\ clusterC.host # None THEN secret ELSE {}
<1>1. ASSUME UNCHANGED <<obj, objC, servers, localM>>, p' = p
      PROVE  UNCHANGED Ma!vars
    BY <1>1 DEF Ma!vars, Ma!objects, Ma!env, Ma!local, localM
<1>2. ASSUME UNCHANGED <<obj, objC, servers, localM>>,
             NEW s \in SUBSET Nodes, s \cap p = {}, p' = p \cup s
      PROVE  [Ma!Next]_(Ma!vars)
    <2>1. s # {} => Ma!Prepare
        BY <1>2 DEF Ma!Prepare, Ma!objects, Ma!local, localM
    <2> QED
        BY <1>1, <1>2, <2>1 DEF Ma!Next, Ma!Environment
<1>3. CASE ClusterStep
    BY <1>1, <1>3, ClusterEffect
<1>4. CASE FirewallStep
    BY <1>1, <1>4, FirewallEffect DEF cached
<1>5. CASE MachineStep
    BY <1>5, MachineEffect
<1>6. CASE Crash
    <2>1. UNCHANGED <<obj, objC, servers, clusterC, secret>>
        BY <1>6 DEF Crash, stored, cached, metal
    <2>2. UNCHANGED localM \/ Ma!Crash
        BY <1>6 DEF Crash
    <2> QED
        BY <1>1, <2>1, <2>2 DEF Ma!Next
<1>7. CASE CacheSync
    <2>1. UNCHANGED <<obj, servers, localM, secret>>
        BY <1>7 DEF CacheSync, stored, metal
    <2>2. CASE ClusterCacheSync
        <3>1. UNCHANGED objC /\ clusterC.host = clusterC'.host
            BY <2>2 DEF ClusterCacheSync, IInv, NetworkStays
        <3>2. CASE clusterC'.nodeNetworkID = clusterC.nodeNetworkID
            BY <1>1, <2>1, <3>1, <3>2
        <3>3. CASE clusterC.nodeNetworkID = None /\ clusterC'.nodeNetworkID \in Networks
            <4>1. p = {} /\ p' \in SUBSET Nodes
                BY <2>1, <3>3, Shared
            <4> QED
                BY <1>2, <2>1, <3>1, <4>1
        <3>4. CASE ~Inhabited /\ clusterC.nodeNetworkID # None /\ clusterC'.nodeNetworkID = None
            <4>1. p # {} => Ma!ClusterGone
                BY <2>1, <3>1, <3>4 DEF Inhabited, NoMachine, Ma!ClusterGone, Ma!objects, Ma!local, localM
            <4> QED
                BY <1>1, <2>1, <3>1, <3>4, <4>1 DEF Ma!Next, Ma!Environment
        <3> QED
            BY <2>2, <3>2, <3>3, <3>4, NetworkSync
    <2>3. CASE FirewallCacheSync
        BY <1>1, <2>1, <2>3 DEF FirewallCacheSync
    <2>4. ASSUME NEW n \in Nodes, MachineCacheSync(n) PROVE [Ma!Next]_(Ma!vars)
        <3>1. Ma!CacheSync(n)
            BY <2>1, <2>4 DEF MachineCacheSync, Ma!CacheSync, Ma!env, Ma!local, localM
        <3> QED
            BY <3>1 DEF Ma!Next
    <2> QED
        BY <1>7, <2>2, <2>3, <2>4 DEF CacheSync
<1>8. CASE RequestDelete
    <2>1. UNCHANGED <<clusterC, objC, secret, servers, localM>>
        BY <1>8 DEF RequestDelete, cached, metal
    <2>2. ASSUME NEW n \in Nodes, DeleteMachine(n) PROVE [Ma!Next]_(Ma!vars)
        <3>1. Ma!RequestDelete(n)
            BY <2>1, <2>2 DEF DeleteMachine, Ma!RequestDelete, Ma!Deleted, Ma!Settled, Deleted, Settled, Ma!env,
               Ma!local, localM
        <3> QED
            BY <3>1 DEF Ma!Next, Ma!Environment
    <2>3. CASE DeleteCluster \/ DeleteFirewall
        BY <1>1, <2>1, <2>3 DEF DeleteCluster, DeleteFirewall
    <2> QED
        BY <1>8, <2>2, <2>3 DEF RequestDelete
<1>9. CASE Bootstrap
    <2>1. UNCHANGED <<obj, objC, servers, localM, clusterC>>
        BY <1>9 DEF Bootstrap, stored, cached, metal
    <2>2. PICK n \in Nodes \ secret : secret' = secret \cup {n}
        BY <1>9 DEF Bootstrap
    <2>3. CASE p' = p
        BY <1>1, <2>1, <2>3
    <2>4. CASE p = secret /\ p' = secret'
        <3>1. {n} \in SUBSET Nodes /\ {n} \cap p = {} /\ p' = p \cup {n}
            BY <2>2, <2>4
        <3> HIDE DEF p
        <3> QED
            BY <1>2, <2>1, <3>1
    <2> QED
        BY <2>1, <2>3, <2>4
<1>10. CASE DeleteTemplate
    BY <1>1, <1>10 DEF DeleteTemplate, stored, cached, metal
<1>11. CASE UNCHANGED vars
    BY <1>1, <1>11 DEF vars, stored, cached, metal
<1> QED
    BY <1>3, <1>4, <1>5, <1>6, <1>7, <1>8, <1>9, <1>10, <1>11 DEF Next, Controllers, Environment, MachineStep

-----------------------------------------------------------------------------
(* The inductive invariant *)

(* Nothing that is gone comes back, and nobody disowns the deployment. *)
LEMMA NothingReturns ==
    ASSUME IInv, ~StaleReads, [Next]_vars
    PROVE  /\ cluster'.exists => cluster.exists
           /\ fwd'.exists => fwd.exists
           /\ fwd.owned => fwd'.owned
           /\ \A n \in Nodes : obj'[n].exists => obj[n].exists
           /\ Inhabited' => Inhabited
           /\ NoMachine => NoMachine'
<1>1. /\ cluster'.exists => cluster.exists
      /\ fwd'.exists => fwd.exists
      /\ fwd.owned => fwd'.owned
      /\ \A n \in Nodes : obj'[n].exists => obj[n].exists
    <2>1. CASE ClusterStep
        <3>1. UNCHANGED obj /\ (cluster'.exists => cluster.exists)
            BY <2>1, ClusterEffect
        <3>2. (fwd'.exists => fwd.exists) /\ (fwd.owned => fwd'.owned)
            <4>1. \/ fwd' = fwd
                  \/ fwd.exists /\ ~fwd.owned
                  \/ fwd.exists /\ fwd' = Deleted(fwd)
                BY <2>1, ClusterEffect
            <4>2. Deleted(fwd).owned = fwd.owned
                BY Shared, DeletedDeployment
            <4> QED
                BY <4>1, <4>2
        <3> QED
            BY <3>1, <3>2
    <2>2. CASE FirewallStep
        BY <2>2, FirewallEffect
    <2>3. CASE MachineStep
        BY <2>3, MachineEffect
    <2>4. CASE RequestDelete
        <3>1. CASE DeleteCluster
            BY <3>1, Shared DEF DeleteCluster, Deleted, Settled, Cl!Cluster
        <3>2. CASE DeleteFirewall
            BY <3>2, Shared, DeletedDeployment DEF DeleteFirewall
        <3>3. ASSUME NEW n \in Nodes, DeleteMachine(n)
              PROVE  UNCHANGED <<cluster, fwd>> /\ \A k \in Nodes : obj'[k].exists => obj[k].exists
            BY <3>3, Shared, DeletedMachine DEF DeleteMachine
        <3> QED
            BY <2>4, <3>1, <3>2, <3>3 DEF RequestDelete
    <2>5. CASE Crash \/ CacheSync \/ Bootstrap \/ DeleteTemplate \/ UNCHANGED vars
        BY <2>5 DEF Crash, CacheSync, Bootstrap, DeleteTemplate, vars, stored
    <2> QED
        BY <2>1, <2>2, <2>3, <2>4, <2>5 DEF Next, Controllers, Environment, MachineStep
<1> QED
    BY <1>1 DEF Inhabited, NoMachine

LEMMA MachinesListedStep == IInv /\ ~StaleReads /\ [Next]_vars => MachinesListed'
<1> SUFFICES ASSUME IInv, ~StaleReads, [Next]_vars, NEW n \in Nodes, obj'[n].exists
             PROVE  objC'[n].exists
    BY DEF MachinesListed
<1>1. obj[n].exists /\ objC[n].exists
    BY NothingReturns DEF IInv, MachinesListed
<1>2. CASE CacheSync
    <2>1. obj' = obj /\ (objC' = objC \/ \E k \in Nodes : objC' = [objC EXCEPT ![k] = obj[k]])
        BY <1>2 DEF CacheSync, stored, ClusterCacheSync, FirewallCacheSync, MachineCacheSync
    <2> QED
        BY <1>1, <2>1, Shared
<1>3. CASE ~CacheSync
    <2>1. objC' = objC
        BY <1>3, ClusterEffect, FirewallEffect, MachineEffect DEF Next, Controllers, Environment, MachineStep,
           Crash, RequestDelete, Bootstrap, DeleteTemplate, cached, vars
    <2> QED
        BY <1>1, <2>1
<1> QED
    BY <1>2, <1>3

LEMMA FirewallWaitsStep == IInv /\ ~StaleReads /\ [Next]_vars => FirewallWaits'
<1> SUFFICES ASSUME IInv, ~StaleReads, [Next]_vars PROVE FirewallWaits'
    OBVIOUS
<1>1. /\ fwdC.owned \/ pcF # "idle" => fwd.owned
      /\ pcF \in {"find", "free"} \/ (beforeF.finalizer /\ ~afterF.finalizer) => NoneListed
      /\ fwd.owned => fwd'.owned
    BY NothingReturns DEF IInv, FirewallWaits
<1>2. CASE FirewallStep
    <2>1. UNCHANGED <<fwdC, objC>>
        BY <1>2, FirewallEffect DEF cached
    <2>2. /\ pcF' # "idle" => pcF # "idle" \/ fwdC.owned
          /\ pcF' \in {"find", "free"} \/ (beforeF'.finalizer /\ ~afterF'.finalizer) => NoneListed
        BY <1>2, FirewallEffect DEF FwP!Late
    <2> QED
        BY <1>1, <2>1, <2>2 DEF FirewallWaits, NoneListed
<1>3. CASE Crash
    <2>1. UNCHANGED <<fwdC, objC>>
        BY <1>3 DEF Crash, cached
    <2>2. UNCHANGED <<pcF, beforeF, afterF>> \/ (pcF' = "idle" /\ beforeF' = afterF')
        BY <1>3 DEF Crash, Fw!Crash, Fw!Forget, localF
    <2> QED
        BY <1>1, <2>1, <2>2 DEF FirewallWaits, NoneListed
<1>4. CASE CacheSync
    <2>1. UNCHANGED <<fwd, obj, localF>>
        BY <1>4 DEF CacheSync, stored
    <2>2. fwdC' \in {fwdC, fwd}
        BY <1>4 DEF CacheSync, ClusterCacheSync, FirewallCacheSync, MachineCacheSync
    <2>3. NoneListed => NoneListed'
        <3>1. objC' = objC \/ \E n \in Nodes : objC' = [objC EXCEPT ![n] = obj[n]]
            BY <1>4 DEF CacheSync, ClusterCacheSync, FirewallCacheSync, MachineCacheSync
        <3> QED
            BY <3>1, Shared DEF NoneListed, IInv, MachinesListed
    <2> QED
        BY <1>1, <2>1, <2>2, <2>3 DEF FirewallWaits, localF
<1>5. CASE ~FirewallStep /\ ~Crash /\ ~CacheSync
    <2>1. UNCHANGED <<fwdC, objC, localF>>
        BY <1>5, ClusterEffect, MachineEffect DEF Next, Controllers, Environment, MachineStep,
           RequestDelete, Bootstrap, DeleteTemplate, cached, vars
    <2> QED
        BY <1>1, <2>1 DEF FirewallWaits, NoneListed, localF
<1> QED
    BY <1>2, <1>3, <1>4, <1>5

LEMMA ClusterWaitsStep == IInv /\ ~StaleReads /\ [Next]_vars => ClusterWaits'
<1> SUFFICES ASSUME IInv, ~StaleReads, [Next]_vars PROVE ClusterWaits'
    OBVIOUS
<1>1. /\ ~staleC /\ (Cl!Removed => NoMachine /\ ~fwd.exists /\ afterC.nodeNetworkID = None)
      /\ NoMachine => NoMachine'
      /\ ~fwd.exists => ~fwd'.exists
    BY NothingReturns DEF IInv, ClusterWaits
<1>2. CASE ClusterStep
    BY <1>1, <1>2, ClusterEffect DEF ClusterWaits
<1>3. CASE Crash
    <2>1. \/ UNCHANGED <<beforeC, afterC, staleC>>
          \/ beforeC' = afterC' /\ staleC' = staleC
        BY <1>3 DEF Crash, Cl!Crash, Cl!Forget, localC
    <2> QED
        BY <1>1, <2>1 DEF ClusterWaits, Cl!Removed
<1>4. CASE ~ClusterStep /\ ~Crash
    <2>1. UNCHANGED localC
        BY <1>4, FirewallEffect, MachineEffect DEF Next, Controllers, Environment, MachineStep,
           CacheSync, RequestDelete, Bootstrap, DeleteTemplate, vars
    <2> QED
        BY <1>1, <2>1 DEF ClusterWaits, Cl!Removed, localC
<1> QED
    BY <1>2, <1>3, <1>4

LEMMA NetworkStaysStep == IInv /\ ~StaleReads /\ [Next]_vars => NetworkStays'
<1> SUFFICES ASSUME IInv, ~StaleReads, [Next]_vars PROVE NetworkStays'
    OBVIOUS
<1>1. /\ cluster.host = UserHost /\ clusterC.host = UserHost
      /\ Inhabited =>
           /\ \A o \in {cluster, clusterC, afterC} : o.nodeNetworkID \in networks \cup {None}
           /\ clusterC.nodeNetworkID # None => cluster.nodeNetworkID = clusterC.nodeNetworkID
      /\ clusterC.nodeNetworkID # None =>
           cluster.nodeNetworkID = clusterC.nodeNetworkID \/ (cluster.nodeNetworkID = None /\ ~cluster.exists)
    BY DEF IInv, NetworkStays
<1>2. (Inhabited' => Inhabited) /\ (cluster'.exists => cluster.exists)
    BY NothingReturns
<1>3. CASE ClusterStep
    <2>1. clusterC' = clusterC /\ cluster'.host = UserHost
        BY <1>3, ClusterEffect
    <2>2. \/ cluster'.nodeNetworkID = cluster.nodeNetworkID
          \/ cluster.exists /\ cluster.nodeNetworkID = None
          \/ ~Inhabited /\ cluster'.nodeNetworkID = None /\ ~cluster'.exists
        BY <1>3, ClusterEffect DEF IInv, ClusterWaits, Inhabited
    <2>3. Inhabited => \A o \in {cluster', clusterC', afterC'} : o.nodeNetworkID \in networks' \cup {None}
        BY <1>1, <1>3, ClusterEffect
    <2> QED
        BY <1>1, <1>2, <2>1, <2>2, <2>3 DEF NetworkStays
<1>4. CASE Crash
    <2>1. UNCHANGED <<cluster, clusterC, networks>>
        BY <1>4 DEF Crash, stored, cached, metal
    <2>2. afterC' = afterC \/ afterC'.nodeNetworkID = None
        BY <1>4 DEF Crash, Cl!Crash, Cl!Forget, Cl!Blank, localC
    <2> QED
        BY <1>1, <1>2, <2>1, <2>2 DEF NetworkStays
<1>5. CASE CacheSync
    <2>1. UNCHANGED <<cluster, networks, afterC>> /\ clusterC' \in {clusterC, cluster}
        BY <1>5 DEF CacheSync, stored, metal, localC, ClusterCacheSync, FirewallCacheSync, MachineCacheSync
    <2> QED
        BY <1>1, <1>2, <2>1 DEF NetworkStays
<1>6. CASE RequestDelete
    <2>1. UNCHANGED <<clusterC, networks, afterC>>
        BY <1>6 DEF RequestDelete, cached, metal, localC
    <2>2. cluster'.host = cluster.host /\ cluster'.nodeNetworkID = cluster.nodeNetworkID
        BY <1>6, Shared DEF RequestDelete, DeleteCluster, DeleteFirewall, DeleteMachine, Deleted, Settled, Cl!Cluster
    <2> QED
        BY <1>1, <1>2, <2>1, <2>2 DEF NetworkStays
<1>7. CASE FirewallStep \/ MachineStep \/ Bootstrap \/ DeleteTemplate \/ UNCHANGED vars
    <2>1. UNCHANGED <<cluster, clusterC, networks, afterC>>
        BY <1>7, FirewallEffect, MachineEffect DEF Bootstrap, DeleteTemplate, vars, stored, cached, metal, localC
    <2> QED
        BY <1>1, <1>2, <2>1 DEF NetworkStays
<1> QED
    BY <1>3, <1>4, <1>5, <1>6, <1>7 DEF Next, Controllers, Environment, MachineStep

LEMMA ServersPlacedStep == IInv /\ ~StaleReads /\ [Next]_vars => ServersPlaced'
<1> SUFFICES ASSUME IInv, ~StaleReads, [Next]_vars PROVE ServersPlaced'
    OBVIOUS
<1>1. /\ \A h \in MachineServers : servers[h] \in Nodes \cup {None}
      /\ pcM = "allocate" => networkM = clusterC.nodeNetworkID /\ networkM # None
      /\ ~NoMachine => \A h \in MachineServers :
           servers[h] # None => placed[h] = clusterC.nodeNetworkID /\ placed[h] # None
      /\ NoMachine => NoMachine'
    BY NothingReturns DEF IInv, ServersPlaced
<1>2. CASE MachineStep
    <2>1. clusterC' = clusterC
        BY <1>2, MachineEffect DEF cached
    <2>2. \A h \in MachineServers :
            \/ servers'[h] = None
            \/ servers'[h] = servers[h] /\ placed'[h] = placed[h]
            \/ pcM = "allocate" /\ servers'[h] \in Nodes /\ placed'[h] = networkM
        BY <1>2, MachineEffect
    <2>3. pcM' = "allocate" => networkM' = clusterC.nodeNetworkID /\ networkM' # None
        BY <1>2, MachineEffect
    <2>4. \A h \in MachineServers : servers'[h] \in Nodes \cup {None}
        BY <1>1, <2>2
    <2>5. ASSUME ~NoMachine', NEW h \in MachineServers, servers'[h] # None
          PROVE  placed'[h] = clusterC.nodeNetworkID /\ placed'[h] # None
        BY <1>1, <2>2, <2>5
    <2> QED
        BY <2>1, <2>3, <2>4, <2>5 DEF ServersPlaced
<1>3. CASE Crash
    <2>1. UNCHANGED <<clusterC, servers, placed, obj>>
        BY <1>3 DEF Crash, cached, metal, stored
    <2>2. pcM' = "idle" \/ UNCHANGED <<pcM, networkM>>
        BY <1>3 DEF Crash, localM, Ma!Crash, Ma!Forget
    <2> QED
        BY <1>1, <2>1, <2>2 DEF ServersPlaced, NoMachine
<1>4. CASE CacheSync
    <2>1. UNCHANGED <<servers, placed, pcM, networkM, obj>>
        BY <1>4 DEF CacheSync, metal, localM, stored
    <2>2. \/ clusterC'.nodeNetworkID = clusterC.nodeNetworkID
          \/ clusterC.nodeNetworkID = None
          \/ NoMachine
        BY <1>4, NetworkSync DEF CacheSync, FirewallCacheSync, MachineCacheSync, Inhabited
    <2>3. pcM = "allocate" => ~NoMachine
        <3>1. pcM = "allocate" => cur \in Nodes /\ obj[cur].exists
            BY SameMachine, ManagerAssumption, MaP!AllocatingExists DEF IInv
        <3> QED
            BY <3>1 DEF NoMachine
    <2>4. ~NoMachine' => ~NoMachine
        BY <2>1 DEF NoMachine
    <2> QED
        BY <1>1, <2>1, <2>2, <2>3, <2>4 DEF ServersPlaced
<1>5. CASE ~MachineStep /\ ~Crash /\ ~CacheSync
    <2>1. UNCHANGED <<clusterC, servers, placed, pcM, networkM>>
        BY <1>5, ClusterEffect, FirewallEffect DEF Next, Controllers, Environment, MachineStep, RequestDelete,
           Bootstrap, DeleteTemplate, vars, cached, metal, localM
    <2> QED
        BY <1>1, <2>1 DEF ServersPlaced
<1> QED
    BY <1>2, <1>3, <1>4, <1>5

(* At the beginning the three modules agree with each other. *)
LEMMA InitViews == Init => Cl!Init /\ Fw!Init /\ Ma!Init
<1> SUFFICES ASSUME Init PROVE Cl!Init /\ Fw!Init /\ Ma!Init
    OBVIOUS
<1>1. Cl!Init
    <2>1. /\ cluster = [Cl!Blank EXCEPT !.firewallRef = TRUE, !.nodeNetworkID = None, !.controlPlaneIP = None,
                                        !.host = UserHost]
          /\ cluster.nodeNetworkID = None /\ cluster.controlPlaneIP = None
        <3> DEFINE c(o) == [o EXCEPT !.firewallRef = TRUE, !.host = UserHost]
                   d(o) == [o EXCEPT !.firewallRef = TRUE, !.nodeNetworkID = None, !.controlPlaneIP = None,
                                     !.host = UserHost]
        <3>1. Cl!Blank \in Cl!Cluster /\ Cl!Blank.nodeNetworkID = None /\ Cl!Blank.controlPlaneIP = None
            BY DEF Cl!Blank, Cl!Cluster
        <3>2. \A o \in Cl!Cluster : o.nodeNetworkID = None /\ o.controlPlaneIP = None =>
                c(o) = d(o) /\ c(o).nodeNetworkID = None /\ c(o).controlPlaneIP = None
            BY DEF Cl!Cluster
        <3>3. cluster = c(Cl!Blank)
            BY DEF Init
        <3> QED
            BY <3>1, <3>2, <3>3
    <2>2. \E f \in BOOLEAN, n \in Networks \cup {None}, i \in {} \cup {None}, h \in {UserHost, None} :
            cluster = [Cl!Blank EXCEPT !.firewallRef = f, !.nodeNetworkID = n, !.controlPlaneIP = i, !.host = h]
        BY <2>1
    <2>3. Seen(fwd) = [exists |-> TRUE, finalizer |-> FALSE, deleting |-> FALSE, owned |-> FALSE]
        BY DEF Init, Seen, Fw!Blank
    <2>4. \E e \in BOOLEAN :
            Seen(fwd) = [exists |-> e, finalizer |-> FALSE, deleting |-> FALSE, owned |-> FALSE]
        BY <2>3
    <2>5. {cluster.nodeNetworkID} \ {None} = {} /\ {cluster.controlPlaneIP} \ {None} = {}
        BY <2>1
    <2>6. (\E n \in Nodes : obj[n].exists) = (\E n \in Nodes : objC[n].exists)
        BY DEF Init
    <2>7. /\ clusterC = cluster /\ fwdC = fwd /\ networks = {} /\ pcC = "idle" /\ beforeC = Cl!Blank
          /\ afterC = Cl!Blank /\ faultsC = 0 /\ staleC = FALSE
        BY DEF Init
    <2> QED
        BY <2>2, <2>4, <2>5, <2>6, <2>7 DEF Cl!Init
<1>2. Fw!Init
    <2>1. clusterC.nodeNetworkID = None
        BY DEF Init, Cl!Blank
    <2>2. \E r \in BOOLEAN : template = [exists |-> TRUE, rules |-> r, owned |-> FALSE]
        BY DEF Init
    <2> QED
        BY <2>1, <2>2 DEF Init, Fw!Init
<1>3. Ma!Init
    BY DEF Init, Ma!Init
<1> QED
    BY <1>1, <1>2, <1>3

LEMMA InitIInv == Init => IInv
<1> SUFFICES ASSUME Init PROVE IInv
    OBVIOUS
<1>1. Cl!Init /\ Fw!Init /\ Ma!Init
    BY InitViews
<1>2. TypeOK /\ Cl!IInv /\ Fw!IInv /\ Ma!IInv
    BY <1>1, ClusterProved, FirewallProved, MachineProved
       DEF Init, TypeOK, Cl!IInv, Fw!IInv, Fw!FinalizerInv, Ma!IInv
<1>3. MachinesListed /\ FirewallWaits /\ ClusterWaits /\ NetworkStays /\ ServersPlaced
    <2>1. MachinesListed
        BY DEF Init, MachinesListed
    <2>2. FirewallWaits
        BY DEF Init, FirewallWaits, Fw!Blank
    <2>3. ClusterWaits
        BY DEF Init, ClusterWaits, Cl!Removed, Cl!Blank
    <2>4. NetworkStays
        BY DEF Init, NetworkStays, Cl!Blank
    <2>5. ServersPlaced
        BY DEF Init, ServersPlaced
    <2> QED
        BY <2>1, <2>2, <2>3, <2>4, <2>5
<1> QED
    BY <1>2, <1>3 DEF IInv

LEMMA NextIInv == IInv /\ ~StaleReads /\ [Next]_vars => IInv'
<1> SUFFICES ASSUME IInv, ~StaleReads, [Next]_vars PROVE IInv'
    OBVIOUS
<1>1. Cl!IInv' /\ Fw!IInv' /\ Ma!IInv'
    BY ClusterView, FirewallView, MachineView, ClusterProved, FirewallProved, MachineProved DEF IInv
<1>2. TypeOK'
    BY NextTypeOK DEF IInv
<1> QED
    BY <1>1, <1>2, MachinesListedStep, FirewallWaitsStep, ClusterWaitsStep, NetworkStaysStep, ServersPlacedStep
       DEF IInv

-----------------------------------------------------------------------------
(* The theorems *)

(* Every reachable state has its type, also if caches are out of date. *)
THEOREM TypeCorrect == Spec => []TypeOK
<1>1. Init => TypeOK
    BY InitIInv DEF IInv
<1> QED
    BY <1>1, NextTypeOK, PTL DEF Spec

(* When clusters and machines are read fresh, the three controllers keep the
   invariant of each and what each waits for. *)
THEOREM Invariance ==
    ASSUME ~StaleReads PROVE Spec => []IInv
<1>1. Init => IInv
    BY InitIInv
<1>2. IInv /\ [Next]_vars => IInv'
    BY NextIInv
<1> QED
    BY <1>1, <1>2, PTL DEF Spec

(* Whatever the other two do to the cluster, its machines and its deployment,
   the module of the cluster controller reckons with it. *)
THEOREM ClusterRefined ==
    ASSUME ~StaleReads PROVE Spec => ClusterAsAssumed
<1>1. Init => Cl!Init
    BY InitViews
<1>2. IInv /\ [Next]_vars => [Cl!Next]_(Cl!vars)
    BY ClusterView
<1> QED
    BY <1>1, <1>2, Invariance, PTL DEF Spec, ClusterAsAssumed, Cl!Spec

(* ... and so does the module of the firewall controller ... *)
THEOREM FirewallRefined ==
    ASSUME ~StaleReads PROVE Spec => FirewallAsAssumed
<1>1. Init => Fw!Init
    BY InitViews
<1>2. IInv /\ [Next]_vars => [Fw!Next]_(Fw!vars)
    BY FirewallView
<1> QED
    BY <1>1, <1>2, Invariance, PTL DEF Spec, FirewallAsAssumed, Fw!Spec

(* ... and the module of the machine controller. *)
THEOREM MachineRefined ==
    ASSUME ~StaleReads PROVE Spec => MachineAsAssumed
<1>1. Init => Ma!Init
    BY InitViews
<1>2. IInv /\ [Next]_vars => [Ma!Next]_(Ma!vars)
    BY MachineView
<1> QED
    BY <1>1, <1>2, Invariance, PTL DEF Spec, MachineAsAssumed, Ma!Spec

(* What is proved about each controller, in the words of its module. *)
EachKept ==
    /\ Cl!NetworkIsAllocated /\ Cl!NoNetworkLeak /\ Cl!ReadyImpliesNetworkUnlessLost
    /\ Cl!ReadyImpliesAdopted
    /\ Fw!FirewallsFreedBeforeRemoval /\ Fw!ReferenceIsAllocated /\ Fw!SingleFirewall
    /\ Ma!ReadyImpliesProviderID /\ Ma!RecordedMachineFreed /\ Ma!ServerLostToDeletion

(* As the three controllers implement the module of each, what is proved about
   each of them alone holds for all of them together. *)
THEOREM AloneAndTogether ==
    ASSUME ~StaleReads PROVE Spec => []EachKept
<1>1. Spec => [](/\ Cl!NetworkIsAllocated /\ Cl!NoNetworkLeak /\ Cl!ReadyImpliesNetworkUnlessLost
               /\ Cl!ReadyImpliesAdopted)
    <2>1. ClP!Spec => []ClP!NetworkIsAllocated
        BY ManagerAssumption, ClP!NetworkAllocated
    <2>2. ClP!Spec => []ClP!NoNetworkLeak
        BY ManagerAssumption, ClP!NoNetworkLeaks
    <2>3. ClP!Spec => []ClP!ReadyImpliesNetworkUnlessLost
        BY ManagerAssumption, ClP!ReadyUnlessLost
    <2>4. ClP!Spec => []ClP!ReadyImpliesAdopted
        BY ManagerAssumption, ClP!AdoptedWhenReady
    <2>5. [Cl!Next]_(Cl!vars) => [ClP!Next]_(ClP!vars)
        BY SameCluster
    <2>6. Cl!Spec => ClP!Spec
        BY <2>5, SameCluster, PTL DEF Cl!Spec, ClP!Spec
    <2>7. /\ ClP!NetworkIsAllocated => Cl!NetworkIsAllocated
          /\ ClP!NoNetworkLeak => Cl!NoNetworkLeak
          /\ ClP!ReadyImpliesNetworkUnlessLost => Cl!ReadyImpliesNetworkUnlessLost
          /\ ClP!ReadyImpliesAdopted => Cl!ReadyImpliesAdopted
        BY DEF ClP!NetworkIsAllocated, Cl!NetworkIsAllocated, ClP!NoNetworkLeak, Cl!NoNetworkLeak,
           ClP!ReadyImpliesNetworkUnlessLost, Cl!ReadyImpliesNetworkUnlessLost,
           ClP!ReadyImpliesNetwork, Cl!ReadyImpliesNetwork, ClP!ReadyImpliesAdopted, Cl!ReadyImpliesAdopted
    <2> QED
        BY <2>1, <2>2, <2>3, <2>4, <2>6, <2>7, ClusterRefined, PTL DEF ClusterAsAssumed
<1>2. Spec => [](Fw!FirewallsFreedBeforeRemoval /\ Fw!ReferenceIsAllocated /\ Fw!SingleFirewall)
    <2>1. FwP!Spec => []FwP!FirewallsFreedBeforeRemoval
        BY ManagerAssumption, FwP!NoFirewallLeft
    <2>2. FwP!Spec => []FwP!ReferenceIsAllocated
        BY ManagerAssumption, FwP!NamedFirewallAllocated
    <2>3. FwP!Spec => []FwP!SingleFirewall
        BY ManagerAssumption, FwP!OneFirewall
    <2>4. [Fw!Next]_(Fw!vars) => [FwP!Next]_(FwP!vars)
        BY SameFirewall
    <2>5. Fw!Spec => FwP!Spec
        BY <2>4, SameFirewall, PTL DEF Fw!Spec, FwP!Spec
    <2>6. /\ FwP!FirewallsFreedBeforeRemoval => Fw!FirewallsFreedBeforeRemoval
          /\ FwP!ReferenceIsAllocated => Fw!ReferenceIsAllocated
          /\ FwP!SingleFirewall => Fw!SingleFirewall
        BY DEF FwP!FirewallsFreedBeforeRemoval, Fw!FirewallsFreedBeforeRemoval, FwP!ReferenceIsAllocated,
           Fw!ReferenceIsAllocated, FwP!SingleFirewall, Fw!SingleFirewall, FwP!Held, Fw!Held
    <2> QED
        BY <2>1, <2>2, <2>3, <2>5, <2>6, FirewallRefined, PTL DEF FirewallAsAssumed
<1>3. Spec => [](Ma!ReadyImpliesProviderID /\ Ma!RecordedMachineFreed /\ Ma!ServerLostToDeletion)
    <2>1. MaP!Spec => []MaP!ReadyImpliesProviderID
        BY ManagerAssumption, MaP!ReadyIsKnown
    <2>2. MaP!Spec => []MaP!RecordedMachineFreed
        BY ManagerAssumption, MaP!NamedMachineFreed
    <2>3. MaP!Spec => []MaP!ServerLostToDeletion
        BY ManagerAssumption, MaP!ServerKept
    <2>4. [Ma!Next]_(Ma!vars) => [MaP!Next]_(MaP!vars)
        BY SameMachine
    <2>5. Ma!Spec => MaP!Spec
        BY <2>4, SameMachine, PTL DEF Ma!Spec, MaP!Spec
    <2>6. /\ MaP!ReadyImpliesProviderID => Ma!ReadyImpliesProviderID
          /\ MaP!RecordedMachineFreed => Ma!RecordedMachineFreed
          /\ MaP!ServerLostToDeletion => Ma!ServerLostToDeletion
        BY DEF MaP!ReadyImpliesProviderID, Ma!ReadyImpliesProviderID, MaP!RecordedMachineFreed,
           Ma!RecordedMachineFreed, MaP!ServerLostToDeletion, Ma!ServerLostToDeletion, MaP!KeepsServer,
           Ma!KeepsServer, MaP!InUse, Ma!InUse
    <2> QED
        BY <2>1, <2>2, <2>3, <2>5, <2>6, MachineRefined, PTL DEF MachineAsAssumed
<1> QED
    BY <1>1, <1>2, <1>3, PTL DEF EachKept

(* Who holds a server is still there. *)
LEMMA HoldersExist ==
    ASSUME IInv, ~StaleReads
    PROVE  /\ \A h \in FirewallServers : firewalls[h] # None =>
                fwd.exists /\ firewalls[h] = clusterC.nodeNetworkID
           /\ faultsM = 0 => \A h \in MachineServers : servers[h] # None => ~NoMachine
<1>1. ASSUME NEW h \in FirewallServers, firewalls[h] # None
      PROVE  fwd.exists /\ firewalls[h] = clusterC.nodeNetworkID
    BY <1>1, Shared DEF IInv, Fw!IInv, Fw!FinalizerInv, Fw!Guarded, Fw!Held, Fw!Tagged
<1>2. ASSUME faultsM = 0, NEW h \in MachineServers, servers[h] # None PROVE ~NoMachine
    <2>1. servers[h] \in Nodes
        BY <1>2 DEF IInv, ServersPlaced
    <2>2. ~obj[servers[h]].exists => MaP!Held(servers[h]) = {}
        BY <1>2, <2>1, SameMachine, ManagerAssumption, MaP!GoneHoldsNothing DEF IInv
    <2>3. h \in MaP!Held(servers[h])
        BY DEF MaP!Held
    <2> QED
        BY <2>1, <2>2, <2>3 DEF NoMachine
<1> QED
    BY <1>1, <1>2

(* Who holds a firewall holds it in the network of the cluster, and that is
   allocated; so it is with the server of a machine, as long as there is a
   machine or the machine controller has met no fault. *)
THEOREM NetworkOutlives ==
    ASSUME ~StaleReads PROVE Spec => []NetworkOutlivesServers
<1>1. IInv => NetworkOutlivesServers
    <2> SUFFICES ASSUME IInv PROVE NetworkOutlivesServers
        OBVIOUS
    <2>1. Inhabited /\ clusterC.nodeNetworkID # None =>
            cluster.nodeNetworkID = clusterC.nodeNetworkID /\ cluster.nodeNetworkID \in networks
        BY DEF IInv, NetworkStays
    <2>2. ASSUME NEW h \in FirewallServers, firewalls[h] # None
          PROVE  cluster.nodeNetworkID \in networks /\ firewalls[h] = cluster.nodeNetworkID
        BY <2>1, <2>2, HoldersExist DEF Inhabited
    <2>3. ASSUME ~NoMachine \/ faultsM = 0, NEW h \in MachineServers, servers[h] # None
          PROVE  placed[h] = cluster.nodeNetworkID /\ cluster.nodeNetworkID \in networks
        <3>1. ~NoMachine
            BY <2>3, HoldersExist
        <3>2. placed[h] = clusterC.nodeNetworkID /\ clusterC.nodeNetworkID # None
            BY <2>3, <3>1 DEF IInv, ServersPlaced
        <3> QED
            BY <2>1, <3>1, <3>2 DEF Inhabited
    <2> QED
        BY <2>2, <2>3 DEF NetworkOutlivesServers
<1> QED
    BY <1>1, Invariance, PTL

(* The cluster goes when everything that belongs to it is gone. *)
THEOREM ClusterLast ==
    ASSUME ~StaleReads PROVE Spec => ClusterGoesLast
<1> DEFINE Last == cluster.exists /\ cluster.finalizer /\ ~cluster'.exists =>
         /\ ~fwd.exists /\ \A n \in Nodes : ~obj[n].exists
         /\ \A h \in FirewallServers : firewalls[h] = None
         /\ faultsM = 0 => \A h \in MachineServers : servers[h] = None
         /\ faultsC = 0 => networks = {}
<1>1. IInv /\ [Next]_vars => [Last]_vars
    <2> SUFFICES ASSUME IInv, [Next]_vars, cluster.exists, cluster.finalizer, ~cluster'.exists
                 PROVE  /\ ~fwd.exists /\ NoMachine
                        /\ \A h \in FirewallServers : firewalls[h] = None
                        /\ faultsM = 0 => \A h \in MachineServers : servers[h] = None
                        /\ faultsC = 0 => networks = {}
        BY DEF NoMachine
    <2>1. ClusterStep
        <3>1. CASE RequestDelete
            BY <3>1, Shared DEF RequestDelete, DeleteCluster, DeleteFirewall, DeleteMachine, Deleted, Settled,
               Cl!Cluster
        <3>2. CASE ~ClusterStep /\ ~RequestDelete
            BY <3>2, FirewallEffect, MachineEffect DEF Next, Controllers, Environment, MachineStep, Crash,
               CacheSync, Bootstrap, DeleteTemplate, vars, stored
        <3> QED
            BY <3>1, <3>2
    <2>2. pcC # "idle" /\ Cl!Removed
        BY <2>1, ClusterEffect
    <2>3. NoMachine /\ ~fwd.exists /\ afterC.nodeNetworkID = None
        BY <2>2 DEF IInv, ClusterWaits
    <2>4. faultsC = 0 => networks = {}
        BY <2>2, <2>3, ManagerAssumption DEF IInv, Cl!IInv, Cl!TypeOK, Cl!Lossless
    <2> QED
        BY <2>3, <2>4, HoldersExist
<1> QED
    BY <1>1, Invariance, PTL DEF Spec, ClusterGoesLast

=============================================================================
