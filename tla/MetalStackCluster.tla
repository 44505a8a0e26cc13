--------------------------- MODULE MetalStackCluster ---------------------------
(***************************************************************************)
(* MetalStackClusterReconciler and one MetalStackCluster: it acquires the  *)
(* node network and the control plane IP, adopts the firewall deployment,  *)
(* and on deletion gives everything back once machines and firewall are    *)
(* gone.  The object is owned by its Cluster from the start.               *)
(***************************************************************************)
EXTENDS Integers, ApiObjects

CONSTANTS
    Networks,       \* the networks the metal-stack API can allocate
    IPs,            \* its IP addresses
    StaticIPs,      \* those of type static; the others are ephemeral
    UserHost,       \* a control plane endpoint that is no metal-stack IP
    None,           \* a nil reference, an empty host
    MaxFaults,      \* bound on failed calls, lost answers, partial patches, crashes
    StaleReads      \* a reconciliation may read a cache that lags behind the server

ASSUME ClusterAssumption ==
    /\ StaticIPs \subseteq IPs
    /\ UserHost \notin IPs /\ None \notin Networks \cup IPs \cup {UserHost}
    /\ MaxFaults \in Nat
    /\ StaleReads \in BOOLEAN

VARIABLES
    cluster,        \* the object in the API server
    clusterC,       \* the object in the informer cache
    fwd, fwdC,      \* the MetalStackFirewallDeployment, in server and cache
    machines,       \* some MetalStackMachine of the cluster exists
    machinesC,      \* the cache lists one
    networks, ips,  \* metal-stack API: what is allocated for the cluster
    pc,             \* where the running reconciliation stands
    before, after,  \* the patch helper's copy, and the copy being changed
    faults,
    stale           \* some reconciliation began with a cache that lagged behind

objects == <<cluster, clusterC>>
others  == <<fwd, fwdC, machines, machinesC>>
metal   == <<networks, ips>>
local   == <<pc, before, after>>
past    == <<faults, stale>>
vars    == <<objects, others, metal, local, past>>

Steps == {"idle", "network", "firewall", "endpoint",
          "awaitFirewall", "releaseIP", "releaseNetwork", "patch"}

Cluster ==
    [exists : BOOLEAN, finalizer : BOOLEAN, deleting : BOOLEAN, firewallRef : BOOLEAN,
     nodeNetworkID : Networks \cup {None}, controlPlaneIP : IPs \cup {None},
     host : IPs \cup {UserHost, None}, ready : BOOLEAN]

Deployment == [exists : BOOLEAN, finalizer : BOOLEAN, deleting : BOOLEAN, owned : BOOLEAN]

Blank == [exists |-> TRUE, finalizer |-> FALSE, deleting |-> FALSE, firewallRef |-> FALSE,
          nodeNetworkID |-> None, controlPlaneIP |-> None, host |-> None, ready |-> FALSE]

(* Type correctness of the whole state: objects, metal-stack API, local copies. *)
TypeOK ==
    /\ cluster \in Cluster /\ clusterC \in Cluster
    /\ fwd \in Deployment /\ fwdC \in Deployment
    /\ machines \in BOOLEAN /\ machinesC \in BOOLEAN
    /\ networks \subseteq Networks /\ ips \subseteq IPs
    /\ pc \in Steps /\ before \in Cluster /\ after \in Cluster
    /\ faults \in 0 .. MaxFaults /\ stale \in BOOLEAN

(* The user may bring a node network, a control plane IP, an endpoint and a
   firewall deployment, and leave out any of them. *)
Init ==
    /\ \E f \in BOOLEAN, n \in Networks \cup {None}, i \in IPs \cup {None}, h \in {UserHost, None} :
         cluster = [Blank EXCEPT !.firewallRef = f, !.nodeNetworkID = n, !.controlPlaneIP = i, !.host = h]
    /\ clusterC = cluster
    /\ \E e \in BOOLEAN :
         fwd = [exists |-> e, finalizer |-> FALSE, deleting |-> FALSE, owned |-> FALSE]
    /\ fwdC = fwd
    /\ machines \in BOOLEAN /\ machinesC = machines
    /\ networks = {cluster.nodeNetworkID} \ {None}
    /\ ips = {cluster.controlPlaneIP} \ {None}
    /\ pc = "idle" /\ before = Blank /\ after = Blank
    /\ faults = 0 /\ stale = FALSE

Fault == faults < MaxFaults /\ faults' = faults + 1

(* A call answers, or it takes a fault. *)
Answered(ok) == (IF ok THEN UNCHANGED faults ELSE Fault) /\ UNCHANGED stale

(* What a reconciliation reads at its beginning is up to date, or a fault. *)
ReadsFresh(ok) == IF ok THEN UNCHANGED past ELSE StaleReads /\ Fault /\ stale' = TRUE

(* The end of a reconciliation: its local state is forgotten. *)
Forget == pc' = "idle" /\ before' = Blank /\ after' = Blank

(* The reconciliation goes on with the copy changed to o.  After an error it
   goes to the patch that ends every reconciliation: what was changed before
   the error is written. *)
GoOn(step, o) == pc' = step /\ after' = o /\ UNCHANGED before

-----------------------------------------------------------------------------
(* Reconciliation *)

(* Reconcile reads the cache.  A paused object and a delete without finalizer
   change nothing and are left out. *)
Begin(step, o) ==
    /\ pc = "idle"
    /\ ReadsFresh(clusterC = cluster /\ (step = "awaitFirewall" => machinesC = machines /\ fwdC = fwd))
    /\ clusterC.exists
    /\ pc' = step /\ before' = clusterC /\ after' = o
    /\ UNCHANGED <<objects, others, metal>>

AddFinalizer ==
    /\ ~clusterC.deleting /\ ~clusterC.finalizer
    /\ Begin("patch", [clusterC EXCEPT !.finalizer = TRUE])

StartReconcile ==
    /\ ~clusterC.deleting /\ clusterC.finalizer
    /\ Begin("network", clusterC)

ensureAllMetalStackMachinesAreGone == ~machinesC

(* Mutant of StartDelete: the deletion timestamp is not checked. *)
StartDeleteAnyway ==
    /\ clusterC.finalizer /\ ensureAllMetalStackMachinesAreGone
    /\ Begin("awaitFirewall", clusterC)

(* Mutant of StartDelete: the machines are not waited for. *)
StartDeleteEarly ==
    /\ clusterC.deleting /\ clusterC.finalizer
    /\ Begin("awaitFirewall", clusterC)

(* delete: as long as machines are listed it is an error, and nothing changes. *)
StartDelete ==
    /\ clusterC.deleting /\ clusterC.finalizer
    /\ ensureAllMetalStackMachinesAreGone
    /\ Begin("awaitFirewall", clusterC)

AfterNetwork == IF after.firewallRef THEN "firewall" ELSE "endpoint"

(* ensureNodeNetwork with a network. *)
KeepNetwork ==
    /\ pc = "network" /\ after.nodeNetworkID # None
    /\ GoOn(AfterNetwork, after)
    /\ UNCHANGED <<objects, others, metal, past>>

(* Mutant of AllocateNetwork: the network the spec names is ignored. *)
AllocateNetworkAnew ==
    /\ pc = "network"
    /\ \E n \in Networks \ networks :
         networks' = networks \cup {n} /\ GoOn(AfterNetwork, [after EXCEPT !.nodeNetworkID = n])
    /\ UNCHANGED <<objects, others, ips, past>>

(* ... and without: AllocateNetwork.  When its answer is lost the network is
   allocated and nobody wrote down which. *)
AllocateNetwork ==
    /\ pc = "network" /\ after.nodeNetworkID = None
    /\ \E n \in Networks \ networks, answered \in BOOLEAN :
         /\ Answered(answered)
         /\ networks' = networks \cup {n}
         /\ IF answered THEN GoOn(AfterNetwork, [after EXCEPT !.nodeNetworkID = n])
                        ELSE GoOn("patch", after)
    /\ UNCHANGED <<objects, others, ips>>

NetworkRefused ==
    /\ pc = "network" /\ after.nodeNetworkID = None
    /\ Answered(networks = Networks)
    /\ GoOn("patch", after)
    /\ UNCHANGED <<objects, others, metal>>

(* Mutant of AdoptFirewall: a conflict is taken for success. *)
AdoptFirewallAnyway ==
    /\ pc = "firewall"
    /\ fwdC.exists /\ ~fwdC.owned
    /\ fwd' = IF fwd = fwdC THEN [fwd EXCEPT !.owned = TRUE] ELSE fwd
    /\ GoOn("endpoint", after)
    /\ UNCHANGED <<objects, fwdC, machines, machinesC, metal, past>>

(* ensureFirewallDeployment: an error without the object; nothing to do with
   the owner reference; else an update that fails on a conflict. *)
AdoptFirewall ==
    /\ pc = "firewall"
    /\ fwdC.exists /\ ~fwdC.owned
    /\ \E answered \in BOOLEAN, arrived \in BOOLEAN :
         /\ answered => arrived
         /\ Answered(answered \/ fwd # fwdC)
         /\ fwd' = IF arrived /\ fwd = fwdC THEN [fwd EXCEPT !.owned = TRUE] ELSE fwd
         /\ GoOn(IF answered /\ fwd = fwdC THEN "endpoint" ELSE "patch", after)
    /\ UNCHANGED <<objects, fwdC, machines, machinesC, metal>>

KeepFirewall ==
    /\ pc = "firewall"
    /\ fwdC.exists => fwdC.owned
    /\ GoOn(IF fwdC.exists THEN "endpoint" ELSE "patch", after)
    /\ UNCHANGED <<objects, others, metal, past>>

(* Mutant of WithEndpoint: the port ends up in the host. *)
WithHostAndPort(host) == [after EXCEPT !.host = <<host, 443>>, !.ready = TRUE]

(* The end of reconcile. *)
WithEndpoint(host) == [after EXCEPT !.host = host, !.ready = TRUE]

(* Mutants of KeepEndpoint: the IP replaces an endpoint; the status is not set. *)
KeepEndpointOfIP ==
    /\ pc = "endpoint" /\ after.controlPlaneIP # None
    /\ GoOn("patch", WithEndpoint(after.controlPlaneIP))
    /\ UNCHANGED <<objects, others, metal, past>>

KeepEndpointNotReady ==
    /\ pc = "endpoint" /\ after.host # None
    /\ GoOn("patch", after)
    /\ UNCHANGED <<objects, others, metal, past>>

(* With an endpoint, or with the IP the spec names, nothing is allocated. *)
KeepEndpoint ==
    /\ pc = "endpoint"
    /\ after.host # None \/ after.controlPlaneIP # None
    /\ GoOn("patch", WithEndpoint(IF after.host # None THEN after.host ELSE after.controlPlaneIP))
    /\ UNCHANGED <<objects, others, metal, past>>

(* Mutant of AllocateIP: the endpoint is not written. *)
AllocateIPUnnamed ==
    /\ pc = "endpoint" /\ after.host = None /\ after.controlPlaneIP = None
    /\ \E i \in IPs \ (ips \cup StaticIPs) : ips' = ips \cup {i}
    /\ GoOn("patch", [after EXCEPT !.ready = TRUE])
    /\ UNCHANGED <<objects, others, networks, past>>

(* ensureControlPlaneIP allocates an ephemeral IP.  It becomes the host of the
   endpoint; spec.controlPlaneIP is not set. *)
AllocateIP ==
    /\ pc = "endpoint" /\ after.host = None /\ after.controlPlaneIP = None
    /\ \E i \in IPs \ (ips \cup StaticIPs), answered \in BOOLEAN :
         /\ Answered(answered)
         /\ ips' = ips \cup {i}
         /\ GoOn("patch", IF answered THEN WithEndpoint(i) ELSE after)
    /\ UNCHANGED <<objects, others, networks>>

IPRefused ==
    /\ pc = "endpoint" /\ after.host = None /\ after.controlPlaneIP = None
    /\ Answered(IPs \subseteq ips \cup StaticIPs)
    /\ GoOn("patch", after)
    /\ UNCHANGED <<objects, others, metal>>

(* ensureFirewallDeploymentIsGone without a reference dereferences a nil
   pointer: the panic is recovered and nothing is patched. *)
Panic ==
    /\ pc = "awaitFirewall" /\ ~after.firewallRef
    /\ Forget
    /\ UNCHANGED <<objects, others, metal, past>>

FirewallGone ==
    /\ pc = "awaitFirewall" /\ after.firewallRef
    /\ ~fwdC.exists
    /\ GoOn("releaseIP", after)
    /\ UNCHANGED <<objects, others, metal, past>>

(* Mutant of DeleteFirewall: does not wait for the deployment to be gone. *)
DeleteFirewallAndGoOn ==
    /\ pc = "awaitFirewall" /\ after.firewallRef /\ fwdC.exists
    /\ fwd' = IF fwd.exists THEN Deleted(fwd) ELSE fwd
    /\ GoOn("releaseIP", after)
    /\ UNCHANGED <<objects, fwdC, machines, machinesC, metal, past>>

(* The deployment is there: it is deleted if it was not yet, and the
   reconciliation ends.  delete drops the error, so nothing is requeued. *)
DeleteFirewall ==
    /\ pc = "awaitFirewall" /\ after.firewallRef
    /\ fwdC.exists
    /\ \E arrived \in BOOLEAN :
         /\ Answered(arrived \/ fwdC.deleting)
         /\ fwd' = IF arrived /\ ~fwdC.deleting /\ fwd.exists THEN Deleted(fwd) ELSE fwd
    /\ GoOn("patch", after)
    /\ UNCHANGED <<objects, fwdC, machines, machinesC, metal>>

(* Mutants of ReleaseIP: static IPs are freed; an unknown IP is an error. *)
ReleaseAnyIP ==
    /\ pc = "releaseIP"
    /\ ips' = ips \ {after.controlPlaneIP}
    /\ GoOn("releaseNetwork", [after EXCEPT !.controlPlaneIP = None])
    /\ UNCHANGED <<objects, others, networks, past>>

ReleaseKnownIP ==
    /\ pc = "releaseIP"
    /\ \E answered \in BOOLEAN :
         /\ Answered(answered)
         /\ ips' = ips \ {after.controlPlaneIP}
         /\ IF answered /\ after.controlPlaneIP \in ips \cup {None}
            THEN GoOn("releaseNetwork", [after EXCEPT !.controlPlaneIP = None])
            ELSE GoOn("patch", after)
    /\ UNCHANGED <<objects, others, networks>>

(* deleteControlPlaneIP: FindIP and FreeIP.  An unknown IP and a static one
   are no error. *)
ReleaseIP ==
    /\ pc = "releaseIP"
    /\ LET free == after.controlPlaneIP \in ips \ StaticIPs IN
       \E answered \in BOOLEAN, arrived \in BOOLEAN :
         /\ answered => arrived
         /\ Answered(answered \/ after.controlPlaneIP = None)
         /\ ips' = IF free /\ arrived THEN ips \ {after.controlPlaneIP} ELSE ips
         /\ IF answered \/ after.controlPlaneIP = None
            THEN GoOn("releaseNetwork", [after EXCEPT !.controlPlaneIP = None])
            ELSE GoOn("patch", after)
    /\ UNCHANGED <<objects, others, networks>>

(* deleteNodeNetwork: FreeNetwork.  A network that is gone is an error.  Then
   the finalizer goes, with the reference to the network. *)
ReleaseNetwork ==
    /\ pc = "releaseNetwork"
    /\ \E answered \in BOOLEAN, arrived \in BOOLEAN :
         /\ answered => arrived
         /\ Answered(answered \/ after.nodeNetworkID \notin networks)
         /\ networks' = IF arrived THEN networks \ {after.nodeNetworkID} ELSE networks
         /\ GoOn("patch",
              IF after.nodeNetworkID = None \/ (answered /\ after.nodeNetworkID \in networks)
              THEN [after EXCEPT !.nodeNetworkID = None, !.finalizer = FALSE] ELSE after)
    /\ UNCHANGED <<objects, others, ips>>

(* helper.Patch: one patch for metadata and spec, one for the status.  Either
   may fail without the other; both fail on an object that is gone. *)
Patch ==
    /\ pc = "patch"
    /\ \E spec \in BOOLEAN, status \in BOOLEAN :
         /\ spec \/ status => cluster.exists
         /\ Answered((spec /\ status) \/ before = after \/ ~cluster.exists)
         /\ cluster' = Settled([cluster EXCEPT
              !.finalizer      = IF spec   THEN Merged(@, before.finalizer, after.finalizer)           ELSE @,
              !.nodeNetworkID  = IF spec   THEN Merged(@, before.nodeNetworkID, after.nodeNetworkID)   ELSE @,
              !.controlPlaneIP = IF spec   THEN Merged(@, before.controlPlaneIP, after.controlPlaneIP) ELSE @,
              !.host           = IF spec   THEN Merged(@, before.host, after.host)                     ELSE @,
              !.ready          = IF status THEN Merged(@, before.ready, after.ready)                   ELSE @])
    /\ Forget
    /\ UNCHANGED <<clusterC, others, metal>>

(* The process dies, or loses the leader election, and starts again. *)
Crash ==
    /\ pc # "idle"
    /\ Fault
    /\ Forget
    /\ UNCHANGED <<objects, others, metal, stale>>

Controller ==
    \/ AddFinalizer \/ StartReconcile \/ StartDelete
    \/ KeepNetwork \/ AllocateNetwork \/ NetworkRefused
    \/ AdoptFirewall \/ KeepFirewall
    \/ KeepEndpoint \/ AllocateIP \/ IPRefused
    \/ Panic \/ FirewallGone \/ DeleteFirewall \/ ReleaseIP \/ ReleaseNetwork
    \/ Patch

-----------------------------------------------------------------------------
(* The rest of the world *)

ClusterCacheSync ==
    /\ clusterC # cluster
    /\ clusterC' = cluster
    /\ UNCHANGED <<cluster, others, metal, local, past>>

FirewallCacheSync ==
    /\ fwdC # fwd
    /\ fwdC' = fwd
    /\ UNCHANGED <<objects, fwd, machines, machinesC, metal, local, past>>

MachineCacheSync ==
    /\ machinesC # machines
    /\ machinesC' = machines
    /\ UNCHANGED <<objects, fwd, fwdC, machines, metal, local, past>>

RequestDelete ==
    /\ cluster.exists /\ ~cluster.deleting
    /\ cluster' = Deleted(cluster)
    /\ UNCHANGED <<clusterC, others, metal, local, past>>

(* Nobody adds machines or a firewall deployment to a cluster that is being
   deleted. *)
MachinesChange ==
    /\ machines \/ ~cluster.deleting
    /\ machines' = ~machines
    /\ UNCHANGED <<objects, fwd, fwdC, machinesC, metal, local, past>>

(* The firewall deployment as its own controller and its user treat it.  One
   that is gone is not created again. *)
FirewallChanges(o) ==
    /\ fwd' = o
    /\ UNCHANGED <<objects, fwdC, machines, machinesC, metal, local, past>>

FirewallCreated ==
    /\ ~fwd.exists /\ ~fwd.deleting /\ ~cluster.deleting
    /\ FirewallChanges([fwd EXCEPT !.exists = TRUE])

FirewallGuarded ==
    /\ fwd.exists /\ fwd.owned /\ ~fwd.finalizer
    /\ FirewallChanges([fwd EXCEPT !.finalizer = TRUE])

FirewallDeleted ==
    /\ fwd.exists /\ ~fwd.deleting
    /\ FirewallChanges(Deleted(fwd))

FirewallReleased ==
    /\ fwd.exists /\ fwd.deleting /\ ~machinesC
    /\ FirewallChanges(Settled([fwd EXCEPT !.finalizer = FALSE]))

CacheSync == ClusterCacheSync \/ FirewallCacheSync \/ MachineCacheSync

Environment ==
    \/ RequestDelete \/ MachinesChange
    \/ FirewallCreated \/ FirewallGuarded \/ FirewallDeleted \/ FirewallReleased

Next == Controller \/ Crash \/ CacheSync \/ Environment

Spec == Init /\ [][Next]_vars

(* A failed reconciliation is requeued, the informers resynchronise, and the
   watches catch up.  The swallowed error of delete is made up for by the watch
   on the firewall deployment. *)
Fairness ==
    /\ WF_vars(Controller)
    /\ WF_vars(ClusterCacheSync) /\ WF_vars(FirewallCacheSync) /\ WF_vars(MachineCacheSync)

FairSpec == Spec /\ Fairness

-----------------------------------------------------------------------------
(* Properties *)

(* metalstackcluster_types.go: "Static ip addresses will not be deleted", in
   whatever state the deletion is repeated. *)
StaticIPsKept == [][\A i \in StaticIPs : i \in ips => i \in ips']_vars

(* Network and IP are given back only when every machine and the firewall
   deployment of the cluster are gone, unless the cache was out of date. *)
ReleaseOrder ==
    [][~stale /\ ~(networks \subseteq networks' /\ ips \subseteq ips')
         => ~machines /\ (cluster.firewallRef => ~fwd.exists)]_vars

(* The cache has shown the network, or the endpoint, and no reconciliation runs
   that began before. *)
NetworkShown == clusterC.nodeNetworkID # None /\ (pc # "idle" => before.nodeNetworkID # None)

HostShown == clusterC.host # None /\ (pc # "idle" => before.host # None)

(* Machines and firewall are placed in one network and join one endpoint: while
   the object exists neither changes any more once the cache has shown it,
   however far the cache may lag behind afterwards; and neither changes once
   it is written, if no cache was out of date. *)
IdentityStable ==
    [][cluster'.exists =>
         /\ NetworkShown => NetworkShown'
         /\ HostShown => HostShown'
         /\ NetworkShown \/ (~stale /\ cluster.nodeNetworkID # None)
              => cluster'.nodeNetworkID = cluster.nodeNetworkID
         /\ HostShown \/ (~stale /\ cluster.host # None) => cluster'.host = cluster.host]_vars

(* A ready cluster has adopted the firewall deployment it refers to, so that the
   firewall controller takes care of it, although the adoption is written to
   another object and may be refused because that object changed meanwhile. *)
ReadyImpliesAdopted == cluster.ready /\ cluster.firewallRef => fwd.owned

(* The network of an object that exists is allocated until the deletion has
   begun to free it. *)
NetworkIsAllocated ==
    cluster.exists /\ ~cluster.deleting /\ cluster.nodeNetworkID # None
        => cluster.nodeNetworkID \in networks

(* If nothing is lost, the networks acquired for an object are gone with it;
   only an object that never got the finalizer leaves the one its user brought. *)
NoNetworkLeak == faults = 0 /\ ~cluster.exists => networks \subseteq {cluster.nodeNetworkID}

(* metalstackcluster_types.go: ClusterFinalizer "allows to clean up resources
   associated with" the object "before removing it": no ephemeral IP is left
   that was acquired for it. *)
NoIPLeak == ~cluster.exists => ips \subseteq StaticIPs \cup {cluster.controlPlaneIP}

(* metalstackmachine_controller.go: "before setting this id the cluster status
   should not become ready": a ready cluster has its network and its endpoint. *)
ReadyImpliesNetwork ==
    cluster.exists /\ cluster.ready => cluster.nodeNetworkID # None /\ cluster.host # None

(* ... and it has, as long as no call failed. *)
ReadyImpliesNetworkUnlessLost == faults = 0 => ReadyImpliesNetwork

(* A cluster that is wanted, and whose firewall deployment is there, becomes
   ready, whichever call had to be repeated on the way. *)
Wanted == ~cluster.deleting /\ (cluster.firewallRef => fwd.exists)

BecomesReady ==
    <>[]Wanted => <>[](cluster.ready /\ cluster.nodeNetworkID # None /\ cluster.host # None)

(* A deletion hangs only as long as machines are left, its firewall deployment
   is being deleted, its reference to one is missing, or its network was freed
   before. *)
Blocked ==
    \/ machines \/ (fwd.exists /\ fwd.deleting) \/ ~cluster.firewallRef
    \/ cluster.nodeNetworkID \notin networks \cup {None}

DeletionHangsOnlyWhenBlocked == []<>(cluster.exists /\ cluster.deleting => Blocked)

-----------------------------------------------------------------------------
(* Why network, endpoint and machines outlive each other in the right order *)

(* The object is there unless its deletion was requested and its finalizer is
   gone. *)
Presence == cluster.exists = (cluster.deleting => cluster.finalizer)

(* The cache lags behind the server: it knows of no deletion the server has not
   seen, and of no network and no endpoint the server does not have.  The
   reference to the firewall deployment is never changed. *)
CacheLags ==
    /\ clusterC.deleting => cluster.deleting
    /\ clusterC.firewallRef = cluster.firewallRef
    /\ cluster.exists /\ clusterC.nodeNetworkID # None => cluster.nodeNetworkID # None
    /\ cluster.exists /\ clusterC.host # None => cluster.host # None

(* What is or becomes ready has adopted its firewall deployment. *)
Adopted ==
    /\ fwdC.owned => fwd.owned
    /\ cluster.firewallRef /\ (cluster.ready \/ clusterC.ready \/ after.ready \/ pc = "endpoint")
         => fwd.owned

(* Until the deletion is requested no network is freed: every copy of the
   object, old or new, names one that is allocated. *)
Allocated ==
    ~cluster.deleting =>
        \A o \in {cluster, clusterC, after} : o.nodeNetworkID \in networks \cup {None}

(* What a running reconciliation knows and may have changed. *)
Releasing == pc \in {"awaitFirewall", "releaseIP", "releaseNetwork"}

Removed == before.finalizer /\ ~after.finalizer

Running ==
    /\ pc = "idle" => before = Blank /\ after = Blank
    /\ pc # "idle" => after.firewallRef = cluster.firewallRef
    /\ pc # "idle" /\ ~before.finalizer => pc = "patch" /\ after = [before EXCEPT !.finalizer = TRUE]
    /\ pc # "patch" => ~Removed
    /\ Removed => cluster.deleting
    /\ Releasing => cluster.deleting /\ after.nodeNetworkID = before.nodeNetworkID
    /\ pc = "awaitFirewall" => after = before
    /\ pc \in {"releaseIP", "releaseNetwork"} => after.firewallRef
    /\ after.host # before.host => before.host = None
    /\ after.nodeNetworkID # before.nodeNetworkID => before.nodeNetworkID = None \/ Removed

(* No cache was out of date: the copy a reconciliation started from is what the
   server still has, and what it waited for is gone. *)
Fresh ==
    ~stale =>
        /\ pc # "idle" =>
             /\ before.finalizer = cluster.finalizer /\ before.nodeNetworkID = cluster.nodeNetworkID
             /\ before.host = cluster.host /\ before.ready = cluster.ready
        /\ Releasing => ~machines
        /\ pc = "awaitFirewall" /\ ~fwdC.exists => ~fwd.exists
        /\ pc \in {"releaseIP", "releaseNetwork"} => ~fwd.exists

(* No call failed: the one network that is allocated is the one the running
   reconciliation, or else the object, names; what is ready has everything. *)
Lossless ==
    faults = 0 =>
        /\ ~stale
        /\ networks \subseteq {IF pc = "idle" THEN cluster.nodeNetworkID ELSE after.nodeNetworkID}
        /\ pc \in {"firewall", "endpoint"} => after.nodeNetworkID # None
        /\ cluster.exists /\ cluster.ready => cluster.nodeNetworkID # None /\ cluster.host # None
        /\ after.ready => Removed \/ (after.nodeNetworkID # None /\ after.host # None)

(* The inductive invariant: cache, local copies and metal-stack API agree on
   the network, and order and outcome of a deletion do not depend on when it
   was requested. *)
IInv == TypeOK /\ Presence /\ CacheLags /\ Adopted /\ Allocated /\ Running /\ Fresh /\ Lossless
=============================================================================
