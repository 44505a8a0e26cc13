----------------------------- MODULE CapmsManager -----------------------------
(***************************************************************************)
(* The manager that main starts: the three controllers on one cluster, its *)
(* firewall deployment and its worker machines.  They share the objects of *)
(* the API server, the informer caches and the metal-stack API.  Each      *)
(* controller is an instance of its own module; what that module assumes   *)
(* about the rest of the world is here done by the other two.              *)
(***************************************************************************)
EXTENDS Integers, ApiObjects

CONSTANTS
    Nodes,              \* the MetalStackMachine objects, all of them workers
    MachineServers,     \* servers of the size of a machine
    FirewallServers,    \* servers of the size of a firewall
    Networks,           \* the networks the metal-stack API can allocate
    UserHost,           \* the control plane endpoint, which its user brings
    None,               \* nil, empty, not allocated
    MaxFaults,          \* bound on the faults of all controllers
    StaleReads          \* clusters and machines may be read from a lagging cache

ASSUME ManagerAssumption ==
    /\ None \notin Nodes \cup MachineServers \cup FirewallServers \cup Networks
    /\ None \notin {UserHost, "neighbour", "stranger"}
    /\ Nodes \cap {"neighbour", "stranger"} = {}
    /\ MaxFaults \in Nat
    /\ StaleReads \in BOOLEAN

VARIABLES
    cluster, clusterC,          \* the MetalStackCluster, in server and cache
    fwd, fwdC,                  \* the MetalStackFirewallDeployment
    obj, objC,                  \* the MetalStackMachines
    template, secret,           \* the firewall template; Machines with bootstrap secret
    networks,                   \* metal-stack API: the networks of the cluster
    firewalls, servers,         \* metal-stack API: who holds a server
    placed,                     \* metal-stack API: the network of a machine's server
    pcC, beforeC, afterC,       \* the reconciliation of the cluster
    pcF, beforeF, afterF, network, found, failed,   \* ... of the deployment
    pcM, cur, beforeM, afterM,  \* ... of a machine
    networkM,                   \* the network that it creates the machine in
    faultsC, faultsF, faultsM,  \* faults of each controller
    staleC                      \* the cluster controller read what was out of date

stored   == <<cluster, fwd, obj>>
cached   == <<clusterC, fwdC, objC>>
metal    == <<networks, firewalls, servers, placed>>
localC   == <<pcC, beforeC, afterC, faultsC, staleC>>
localF   == <<pcF, beforeF, afterF, network, found, failed, faultsF>>
localM   == <<pcM, cur, beforeM, afterM, networkM, faultsM>>
vars     == <<stored, cached, template, secret, metal, localC, localF, localM>>

(* What the cluster controller knows of the firewall deployment. *)
Seen(o) == [exists |-> o.exists, finalizer |-> o.finalizer, deleting |-> o.deleting, owned |-> o.owned]

Cl == INSTANCE MetalStackCluster WITH
    IPs <- {}, StaticIPs <- {}, ips <- {}, stale <- staleC,
    fwd <- Seen(fwd), fwdC <- Seen(fwdC),
    machines <- \E n \in Nodes : obj[n].exists, machinesC <- \E n \in Nodes : objC[n].exists,
    pc <- pcC, before <- beforeC, after <- afterC, faults <- faultsC

Fw == INSTANCE MetalStackFirewallDeployment WITH
    Hardware <- FirewallServers, alloc <- firewalls, rolled <- {},
    nodeNetworkID <- clusterC.nodeNetworkID, machinesLeft <- \E n \in Nodes : objC[n].exists,
    pc <- pcF, before <- beforeF, after <- afterF, faults <- faultsF

Ma == INSTANCE MetalStackMachine WITH
    ControlPlane <- {}, Hardware <- MachineServers, alloc <- servers,
    Neighbour <- "neighbour", Stranger <- "stranger", Outsiders <- FALSE,
    phoned <- {}, overdue <- {},
    prepared <- IF clusterC.nodeNetworkID # None /\ clusterC.host # None THEN secret ELSE {},
    pc <- pcM, before <- beforeM, after <- afterM, faults <- faultsM

Init ==
    /\ cluster = [Cl!Blank EXCEPT !.firewallRef = TRUE, !.host = UserHost]
    /\ fwd = Fw!Blank /\ obj = [n \in Nodes |-> Ma!Blank]
    /\ clusterC = cluster /\ fwdC = fwd /\ objC = obj
    /\ template = [exists |-> TRUE, rules |-> TRUE, owned |-> FALSE] /\ secret = {}
    /\ networks = {}
    /\ firewalls = [h \in FirewallServers |-> None] /\ servers = [h \in MachineServers |-> None]
    /\ placed = servers
    /\ pcC = "idle" /\ beforeC = Cl!Blank /\ afterC = Cl!Blank
    /\ pcF = "idle" /\ beforeF = Fw!Blank /\ afterF = Fw!Blank
    /\ network = None /\ found = {} /\ failed = FALSE
    /\ pcM = "idle" /\ cur = None /\ beforeM = Ma!Blank /\ afterM = Ma!Blank /\ networkM = None
    /\ faultsC = 0 /\ faultsF = 0 /\ faultsM = 0 /\ staleC = FALSE

-----------------------------------------------------------------------------
(* The controllers *)

ClusterStep ==
    /\ fwd' \in IF pcC \in {"firewall", "awaitFirewall"}
                THEN {fwd, [fwd EXCEPT !.owned = TRUE], Deleted(fwd)} ELSE {fwd}
    /\ UNCHANGED <<clusterC, fwdC, obj, objC, template, secret, firewalls, servers, placed, localF, localM>>
    /\ Cl!Controller

(* Reconcile ends with an error if the owner reference names no cluster. *)
FirewallStep ==
    /\ pcF = "idle" => clusterC.exists
    /\ UNCHANGED <<cluster, obj, cached, secret, networks, servers, placed, localC, localM>>
    /\ Fw!Controller \/ Fw!FindFails

(* Reconcile ignores a machine whose infra cluster is gone.  It reads the
   cluster once, at the beginning. *)
MachineBegins(n) ==
    /\ clusterC.exists
    /\ UNCHANGED <<cluster, fwd, cached, template, secret, networks, firewalls, placed, localC, localF>>
    /\ Ma!Reconcile(n)
    /\ networkM' = IF pcM' = "allocate" THEN clusterC.nodeNetworkID ELSE None

(* A server that the step allocates is put into the network that was read. *)
Placed(h) ==
    CASE servers'[h] = None       -> None
      [] servers'[h] = servers[h] -> placed[h]
      [] OTHER                    -> networkM

MachineContinues ==
    /\ UNCHANGED <<cluster, fwd, cached, template, secret, networks, firewalls, localC, localF>>
    /\ Ma!Continue \/ Ma!FindFails
    /\ placed' = [h \in MachineServers |-> Placed(h)]
    /\ networkM' = None

(* The process dies, or loses the leader election, and all three start again. *)
Crash ==
    /\ UNCHANGED <<stored, cached, template, secret, metal>>
    /\ pcC # "idle" \/ pcF # "idle" \/ pcM # "idle"
    /\ IF pcC = "idle" THEN UNCHANGED localC ELSE Cl!Crash
    /\ IF pcF = "idle" THEN UNCHANGED localF ELSE Fw!Crash
    /\ IF pcM = "idle" THEN UNCHANGED localM ELSE Ma!Crash /\ networkM' = None

-----------------------------------------------------------------------------
(* The rest of the world *)

ClusterCacheSync == clusterC # cluster /\ clusterC' = cluster /\ UNCHANGED <<fwdC, objC>>
FirewallCacheSync == fwdC # fwd /\ fwdC' = fwd /\ UNCHANGED <<clusterC, objC>>
MachineCacheSync(n) ==
    objC[n] # obj[n] /\ objC' = [objC EXCEPT ![n] = obj[n]] /\ UNCHANGED <<clusterC, fwdC>>

CacheSync ==
    /\ ClusterCacheSync \/ FirewallCacheSync \/ \E n \in Nodes : MachineCacheSync(n)
    /\ UNCHANGED <<stored, template, secret, metal, localC, localF, localM>>

(* Users and Cluster API delete the objects in any order. *)
DeleteCluster ==
    cluster.exists /\ ~cluster.deleting /\ cluster' = Deleted(cluster) /\ UNCHANGED <<fwd, obj>>
DeleteFirewall == fwd.exists /\ ~fwd.deleting /\ fwd' = Deleted(fwd) /\ UNCHANGED <<cluster, obj>>
DeleteMachine(n) ==
    /\ obj[n].exists /\ ~obj[n].deleting
    /\ obj' = [obj EXCEPT ![n] = Deleted(@)] /\ UNCHANGED <<cluster, fwd>>

RequestDelete ==
    /\ DeleteCluster \/ DeleteFirewall \/ \E n \in Nodes : DeleteMachine(n)
    /\ UNCHANGED <<cached, template, secret, metal, localC, localF, localM>>

(* Cluster API creates the bootstrap secrets once the cluster is ready. *)
Bootstrap ==
    /\ cluster.ready
    /\ \E n \in Nodes \ secret : secret' = secret \cup {n}
    /\ UNCHANGED <<stored, cached, template, metal, localC, localF, localM>>

DeleteTemplate ==
    /\ template.exists
    /\ template' = [template EXCEPT !.exists = FALSE]
    /\ UNCHANGED <<stored, cached, secret, metal, localC, localF, localM>>

Controllers ==
    ClusterStep \/ FirewallStep \/ MachineContinues \/ \E n \in Nodes : MachineBegins(n)

Environment == CacheSync \/ RequestDelete \/ Bootstrap \/ DeleteTemplate

(* A fault may happen as long as there were less than MaxFaults.  A crash counts
   once for each reconciliation that it ends, and ends all that are under way. *)
Next ==
    /\ Controllers \/ Crash \/ Environment
    /\ UNCHANGED <<faultsC, faultsF, faultsM>> \/ faultsC + faultsF + faultsM < MaxFaults

Spec == Init /\ [][Next]_vars

(* As in the modules of the three controllers. *)
Fairness ==
    /\ WF_vars(ClusterStep) /\ WF_vars(FirewallStep) /\ WF_vars(MachineContinues)
    /\ \A n \in Nodes : SF_vars(MachineBegins(n))
    /\ WF_vars(CacheSync)

FairSpec == Spec /\ Fairness

-----------------------------------------------------------------------------
(* Properties *)

(* Type correctness of the whole state, part by part. *)
TypeOK ==
    /\ Cl!TypeOK /\ Fw!TypeOK /\ Ma!TypeOK
    /\ placed \in [MachineServers -> Networks \cup {None}] /\ networkM \in Networks \cup {None}
    /\ secret \subseteq Nodes

(* What the module of each controller assumes about the rest of the world is
   what the other two do: its specification is implemented. *)
ClusterAsAssumed  == Cl!Spec
FirewallAsAssumed == Fw!Spec
MachineAsAssumed  == Ma!Spec

(* A guarded cluster is the last to go: no machine object, no firewall
   deployment and no firewall is left, and unless an answer was lost neither a
   server nor the network. *)
ClusterGoesLast ==
    [][cluster.exists /\ cluster.finalizer /\ ~cluster'.exists =>
         /\ ~fwd.exists /\ \A n \in Nodes : ~obj[n].exists
         /\ \A h \in FirewallServers : firewalls[h] = None
         /\ faultsM = 0 => \A h \in MachineServers : servers[h] = None
         /\ faultsC = 0 => networks = {}]_vars

NoMachine == \A n \in Nodes : ~obj[n].exists

(* Firewalls stand in the network that the cluster names, and that network is
   allocated; so do the servers of machines, as long as there is a machine and,
   unless a fault made the machine controller forget one, afterwards. *)
NetworkOutlivesServers ==
    LET home == cluster.nodeNetworkID IN
    /\ \A h \in FirewallServers : firewalls[h] # None => firewalls[h] = home /\ home \in networks
    /\ ~NoMachine \/ faultsM = 0 =>
         \A h \in MachineServers : servers[h] # None => placed[h] = home /\ home \in networks

(* What a teardown waits for in vain: machines whose cluster went before them
   without ever having been guarded; a firewall deployment without its template,
   or without a node network; a network that was given back, but is named. *)
Orphaned       == ~cluster.exists /\ ~NoMachine
NoTemplate     == fwd.exists /\ fwd.deleting /\ ~template.exists
MissingNetwork == fwd.exists /\ fwd.deleting /\ cluster.nodeNetworkID = None
FreedNetwork   == cluster.nodeNetworkID \notin networks \cup {None}

(* Once cluster and machines are to be deleted, the three controllers get all
   of them out of the way, whatever the order in which it was asked for. *)
Teardown == cluster.deleting /\ \A n \in Nodes : obj[n].deleting
Hangs    == Teardown /\ (cluster.exists \/ ~NoMachine)

TeardownHangsOnlyWhenBlocked ==
    []<>(Hangs => Orphaned \/ NoTemplate \/ MissingNetwork \/ FreedNetwork)

-----------------------------------------------------------------------------
(* Why each controller finds what its module assumes, when clusters and
   machines are read fresh *)

NoneListed == \A n \in Nodes : ~objC[n].exists

(* The cache lists every machine: none is created late. *)
MachinesListed == \A n \in Nodes : obj[n].exists => objC[n].exists

(* The firewall controller works on a deployment the cluster has adopted, and
   once it has begun to free firewalls no machine is left. *)
FirewallWaits ==
    /\ fwdC.owned \/ pcF # "idle" => fwd.owned
    /\ pcF \in {"find", "free"} \/ (beforeF.finalizer /\ ~afterF.finalizer) => NoneListed

(* The cluster controller takes its finalizer away when machines and firewall
   deployment are gone and the network is given back. *)
ClusterWaits ==
    /\ ~staleC
    /\ Cl!Removed => NoMachine /\ ~fwd.exists /\ afterC.nodeNetworkID = None

(* As long as there is a machine or a firewall deployment, no copy of the
   cluster names a network that was given back; nor is a network replaced that
   the cache has shown. *)
Inhabited == fwd.exists \/ ~NoMachine

NetworkStays ==
    /\ cluster.host = UserHost /\ clusterC.host = UserHost
    /\ Inhabited =>
         /\ \A o \in {cluster, clusterC, afterC} : o.nodeNetworkID \in networks \cup {None}
         /\ clusterC.nodeNetworkID # None => cluster.nodeNetworkID = clusterC.nodeNetworkID
    /\ clusterC.nodeNetworkID # None =>
         cluster.nodeNetworkID = clusterC.nodeNetworkID \/ (cluster.nodeNetworkID = None /\ ~cluster.exists)

(* A machine is created in the network of the cached cluster, which is the one
   it read when it began. *)
ServersPlaced ==
    /\ \A h \in MachineServers : servers[h] \in Nodes \cup {None}
    /\ pcM = "allocate" => networkM = clusterC.nodeNetworkID /\ networkM # None
    /\ ~NoMachine =>
         \A h \in MachineServers : servers[h] # None => placed[h] = clusterC.nodeNetworkID /\ placed[h] # None

(* The inductive invariant: those of the three controllers, and what each of
   them waits for holds for the others. *)
IInv ==
    /\ TypeOK /\ Cl!IInv /\ Fw!IInv /\ Ma!IInv
    /\ MachinesListed /\ FirewallWaits /\ ClusterWaits /\ NetworkStays /\ ServersPlaced
=============================================================================
