# cluster-api-provider-metal-stack in TLA+

The provider (CAPMS) is one process that reconciles three kinds of objects:
`MetalStackCluster`, `MetalStackMachine` and `MetalStackFirewallDeployment`. It
acquires networks, IP addresses and servers from the metal-stack API for them
and gives these back when the objects are deleted. What can go wrong lies in
between: each reconciliation is a sequence of calls to two remote systems that
share no transaction, it starts from a cached copy of the object, and it may end
anywhere.

## Inventory

| part | state | operations |
|---|---|---|
| `MetalStackCluster` controller (`internal/controller/metalstackcluster_controller.go`) | `spec.nodeNetworkID`, `spec.controlPlaneIP`, `spec.controlPlaneEndpoint`, `status.ready`, finalizer | add finalizer; ensure network, firewall deployment, endpoint; delete: wait for machines, delete and await the firewall deployment, free IP, free network |
| `MetalStackMachine` controller (`metalstackmachine_controller.go`) | `spec.providerID`, `status.ready`, `status.failureReason`, finalizer | add finalizer; create or look up the server; delete: look up, free, grace period of control plane machines |
| `MetalStackFirewallDeployment` controller (`metalstackfirewalldeployment_controller.go`) | `spec.managedResourceRef`, `status.ready`, finalizer; owner reference on its template | add finalizer; own the template; allocate a firewall; delete: wait for machines, look up all firewalls by tag, free each |
| API types (`api/v1alpha1`) | the objects above, firewall and machine templates | none (generated copies) |
| owner lookup (`util/owners.go`) | none | from a deployment to its `MetalStackCluster` |
| watches (`SetupWithManager`, map functions, predicates) | work queues, caches | enqueue requests when the cache learns of a change; `Reconcile` results put requests back or drop them |
| manager (`cmd/main.go`) | leader lease | starts the three controllers on shared caches, ends the process when the lease is lost |

How they interact: only through objects in the API server and resources of the
metal-stack API. The cluster controller writes the node network ID that the two
others wait for and put into the tags of their servers; it adopts the firewall
deployment and deletes it; it and the firewall controller list the machines and
wait for them to be gone. Users and Cluster API create and delete objects,
users roll firewalls (README, "I'd like to update the firewall"), and other
clients of the metal-stack API free and allocate servers.

Hard behaviours, with the lines in `PROJECT.json` ("hazards"): an answer or a
patch that is lost after a resource was taken; a stale cache that hides what the
last reconciliation wrote; spec and status that are patched separately; objects
deleted in the wrong order; retries of a deletion that was half done; servers
that change hands; early returns and nil dereferences that make a deletion hang;
wake-ups that are never sent.

What makes each part correct:

* firewall deployment: no firewall outlives it; its reference names a live
  firewall; one firewall unless something was lost; it comes up; its deletion
  ends.
* machine: the recorded server is freed; a machine in use keeps its server; the
  provider ID is stable; the grace period is kept; deletions end; an external
  deletion is reported.
* cluster: network and endpoint are stable; resources are given back last and
  completely; static IPs are kept; it becomes ready, with a network and with its
  firewall deployment adopted; its deletion ends.
* the three together: what each relies on is what the others do; network,
  firewalls and servers go in order; a teardown ends.
* watches: whoever has something to do is woken.

## Modules

| module | models |
|---|---|
| `ApiObjects` | finalizers, delete calls and merge patches of the API server |
| `FinalizerContract` | abstract: resources are taken only under the finalizer, the object goes when none is held |
| `MetalStackFirewallDeployment` | firewall controller, one deployment |
| `MetalStackMachine` | machine controller, several machines of one cluster |
| `MetalStackCluster` | cluster controller, one cluster |
| `CapmsManager` | the manager: the three controllers over one shared state, each an instance of its module |
| `WorkQueue` | watches, predicates, map functions, queues and results of `Reconcile` |
| `MetalStackFirewallDeployment_proofs`, `MetalStackMachine_proofs`, `MetalStackCluster_proofs`, `CapmsManager_proofs`, `WorkQueue_proofs` | theorems about the module of that name, whose last section defines the inductive invariant `IInv` |
| `MC...` | the instances that TLC checks |

The three controller modules are built alike. `pc` says before which call the
running reconciliation stands (one worker reconciles one object at a time, the
default of `MaxConcurrentReconciles`). `Begin` reads the object from the cache
(`...C`) into `before` and `after`, the copy of the patch helper and the copy
that is changed. Each call to the API server or to the metal-stack API is an
action; code between two calls belongs to the action before it. `Patch` is
`helper.Patch`: a merge patch of metadata and spec, and one of the status, which
fail independently, without a resource version, so a field that was not changed
keeps what the server has (`Merged`). An object that is removed keeps its last
field values so that properties can refer to them (`exists` is false).

| code | action |
|---|---|
| switch at the end of each `Reconcile` | `AddFinalizer`, `StartReconcile`, `StartDelete` |
| firewall: `ensureFirewallTemplateOwnerRefAndFinalizer` | `EnsureTemplateOwnerRef` |
| firewall: `ensureFirewallDeployment` | `KeepFirewall`, `RefuseTemplate`, `AllocateFirewall`, `AllocationRefused` |
| firewall: `deleteFirewallDeployment` | `FindFirewalls`, `FindFails`, `FreeFirewall` per loop turn, `FinishDelete` |
| machine: `findProviderMachine` in `reconcile` | `LookUp`, `FindFails` |
| machine: `create` | `AllocateMachine`, `AllocationRefused` |
| machine: `delete` | `DeleteMissing`, `DeleteFound`, `FreeMachine` |
| cluster: `ensureNodeNetwork` | `KeepNetwork`, `AllocateNetwork`, `NetworkRefused` |
| cluster: `ensureFirewallDeployment` | `AdoptFirewall`, `KeepFirewall` |
| cluster: `ensureControlPlaneIP`, end of `reconcile` | `KeepEndpoint`, `AllocateIP`, `IPRefused` |
| cluster: `ensureFirewallDeploymentIsGone` | `Panic`, `FirewallGone`, `DeleteFirewall` |
| cluster: `deleteControlPlaneIP`, `deleteNodeNetwork` | `ReleaseIP`, `ReleaseNetwork` |
| `helper.Patch` | `Patch` |
| process exit, lost leader lease | `Crash` |

A call that changes something at the metal-stack API may be refused, succeed, or
succeed and lose its answer. Everything that goes wrong without a reason in the
state (refused call, lost answer, failed half of a patch, crash) costs one of
`MaxFaults`; in the firewall and the cluster module, so does a reconciliation
that begins on a cache that lags behind, in the machine module it is free. What
goes wrong for a reason (no free server, a network that is
already freed, a patch of an object that is gone) costs none.

### The manager

`CapmsManager` has one set of variables for the stored objects, the caches and
the metal-stack API, and one set of local variables per controller (each
controller of controller-runtime has its own worker). `Cl`, `Fw` and `Ma` are
instances of the three modules. What is an environment variable there is a
function of the shared state here: the machines a controller lists are those in
the cache, the `nodeNetworkID` of the firewall module is that of the cached
cluster, a machine is prepared when the cached cluster has network and endpoint
and its secret exists. `ClusterStep`, `FirewallStep` and `MachineBegins`/
`MachineContinues` take the step of one instance, add the guard that
`Reconcile` has on the other objects, and leave the rest alone; the cluster's
adoption and deletion of the firewall deployment act on the real object. Then
`ClusterAsAssumed`, `FirewallAsAssumed` and `MachineAsAssumed` say that every
step of the whole is a step that the module of each controller allows: what
that module assumed of its environment (machines go away, the finalizer of the
firewall deployment is dropped at the end, the network ID is set once) is
implemented by the other two. A crash of the process ends every reconciliation
that is under way and counts for each of them. `placed` records which network
the machine controller asked for when it allocated a server. The endpoint is brought by the user, since the IP
concerns the cluster controller alone, and all machines are workers.

### The work queue

`WorkQueue` reduces each object to what the controllers wait for, makes a
reconciliation one step, and keeps what the other modules leave to fairness:
who is enqueued when the cache learns of a change (`Deliver...`, `Woken` and
the map functions under their names in the code), and which results put a
request back (`Finish`) or drop it (`Swallow`). The properties say that an
object with work to do is never asleep (nor a deletion that waits for nothing): its request is queued, or an event is
under way. They name the exceptions, all of which the code has and only the
periodic resync of the informers heals:

* the `Cluster` is resumed: `clusterToMetalStackCluster` looks the infra cluster
  up without a namespace and enqueues nothing, and the firewall controller has
  no watch that sees it (`predicates.ClusterUnpaused` sits on
  `MetalStackCluster` events). Machines are woken, and the patch of their
  Paused condition wakes the cluster in turn; a cluster without machines and
  the firewall deployment stay as they are.
* the first `Get` of the machine controller fails: the error is dropped.
* the call with which the cluster deletes its firewall deployment fails: the
  error is taken like the wait for the deployment, and dropped.
* the cluster's deletion waits for a firewall deployment that it never adopted:
  the deletion event of that object leads to no cluster.

Assumptions about what is not in `src/`:

* The owner objects of Cluster API stay. A paused object is not reconciled
  beyond a condition (`WorkQueue`; the other modules leave pausing out).
* A machine, or a firewall deployment, whose `MetalStackCluster` is gone is not
  reconciled; the modules of these controllers let it go at any time
  (`ClusterGone`), `CapmsManager` when the cluster controller is done.
* The firewall template is read as it is; a node network ID is set once (the
  firewall module; `CapmsManager` shows it for a cluster that is read fresh).
* FindIP and FreeIP are one step with the outcomes of both, and so are
  FindNetworks and AllocateIP: between them only others act, and the model has
  no others that touch these IPs.
* Nobody adds machines or a firewall deployment to a cluster that is being
  deleted.

## Runs

| run | instance | shows |
|---|---|---|
| `MCFirewall` | 3 servers, 1 network, 3 faults, users roll the firewall | no firewall outlives the deployment; the reference is live; one firewall unless something was lost; `FinalizerContract` is implemented; `IInv` holds; the firewall comes up; a deletion hangs only when the template, the network, the owner is missing or machines are left |
| `MCMachineOutsiders` | 1 control plane machine, 2 servers, stale reads, 1 fault, outsiders | a provider ID the cache has shown is final; ready machines have one; deletions end; external deletion is reported; `IInv` holds |
| `MCMachineFresh` | worker and control plane machine, 2 servers, fresh reads, 2 faults | recorded servers are freed; a machine in use loses its server only to the deletion of another; without faults the contract is kept; `IInv` holds |
| `MCCluster` | 2 networks, 3 IPs (one static), 1 fault or stale read | static IPs are kept; the recorded network stays allocated; becomes ready, and is not before its deployment is adopted; identity is stable; resources go last and completely; deletions end unless blocked; `IInv` holds |
| `MCManager` | 1 machine, 1 server of each size, 2 networks, 1 fault | each controller's module is implemented by the three together; the cluster goes last; servers stand in its network, which outlives them; `IInv` holds |
| `MCManagerTeardown` | the same with 1 network, and crashes that end two reconciliations at once | a teardown ends unless blocked |
| `MCWorkQueue` | 1 control plane machine, any number of pauses, failures and restarts | nobody with work to do is forgotten, but for the cases above; `IInv` holds |

Five runs end in a violation on purpose. Each shows that the code does not do
what a comment, an attribute or a test of the repository says:

| run | behaviour |
|---|---|
| `MCMachineLeak` | AllocateMachine succeeds, its answer or the patch is lost: the retry takes a second server, the first is never freed (firewalls are looked up by tag and do not have this problem) |
| `MCMachineReuse` | a deleted control plane machine keeps its finalizer after `FreeMachine` and is requeued after a minute; its server is allocated for another machine of the project, found again, and freed a second time. The same happens to a server that somebody else freed |
| `MCClusterIPLeak` | an acquired control plane IP is only recorded in the endpoint and never freed; no fault is needed |
| `MCClusterReady` | the status patch succeeds and the spec patch fails: ready without a network |
| `MCWorkQueueForgets` | the call with which a cluster deletes its firewall deployment fails; the error is dropped like the one that says to wait, and the cluster sleeps although nothing it waits for is on its way |

More hangs and leaks that came up are plain from the code, or named by a
property as its exception, and have no run: a cluster without
`firewallDeploymentRef` cannot be deleted (nil dereference on each attempt); nor
can a firewall deployment whose cluster names no network (the same), or whose
template is gone; a network that was freed while the answer or the patch was
lost cannot be freed again; a network whose allocation lost its answer leaks as
servers do. They are listed under "hazards".

Bounds. Two servers (networks, IPs) are what it takes for a second allocation
to appear next to the first, and for running out. Two machines compete for
them; what takes a third one (a server that is freed twice under changing
owners) came out in the proof. One fault separates what survives a
loss from what does not; `MCMachineFresh` has two, so that both the first free
of a server and the patch after it may be lost; the firewall
run has three, so that a stale read, a lost answer and a lost patch may meet,
each leaving a firewall behind. The proofs cover any number of machines,
servers, networks, addresses and faults. In
`MCManager` one machine is enough: order between machines concerns the machine
controller alone, and the two others only ask whether there is one. The second
network is what a retry of the cluster controller could confuse with the first. The
two are a symmetry set, as they differ in nothing but their identity and the run
checks no liveness. Its bound `AtMostOneFault` leaves out what follows a crash
with several reconciliations under way (which is the one fault allowed, and
counts for each controller). `MCManagerTeardown` has crashes of two at once, by
`AtMostTwoFaults`; the proofs have all of them. Its constraint `NotStuck` explores
nothing after a deletion has lost its template for good, which the property
excuses in every later state.
`MCWorkQueue` takes a control plane machine because it has both fewer events
(`machineToMetalStackMachine` wakes workers only) and the grace period; the
theorems about this module are for any mix of machines. All
other runs are finite without a constraint.

Stale and fresh reads. The code has no expectation tracking and no conflict
check, so with a cache that lags it may take a second server or network and
overwrite the reference to the first. `Begin` may read such a cache;
`stale` in the cluster module remembers it, and properties that only hold
when a reconciliation sees what the last one wrote (`ReleaseOrder`,
`SingleFirewall`) say so. What the code does guarantee about the identity of a
machine or a cluster is that it is final once the cache has shown it and no
reconciliation is left that began before: `ProviderIDStable` and
`IdentityStable` say that for stale reads, next to the stronger form for fresh
ones. `MCMachineFresh` and the manager read fresh (`StaleReads`): with a stale
cluster, `spec.nodeNetworkID` can be
overwritten while firewalls carry the old tag, the lookup by tag misses them,
and `FirewallAsAssumed` fails. This is listed under "hazards". In the manager
the other objects that a controller looks at (the cluster for a machine, the
list of machines) do come from the cache, which may lag at no cost.

Deadlock is checked for the firewall, for the control plane machine with
outsiders, and for the work queue. In the other runs the system may come to
rest when all objects are gone, and the check is off.

Fairness. `Controller` (`Continue`) is weakly fair: a started reconciliation
runs on, a failed one is requeued with back-off, and the informers resync.
For several machines, starting a reconciliation of each is strongly fair: the
work queue is first in, first out, so that an object that can be reconciled
again and again, whenever the worker is idle, gets its turn. Cache updates
are weakly fair (the watch catches up), and so is the passing of the 30 seconds.
Nothing else has to happen: no deletion, no user, no phone-home. Faults are
finitely many. `WorkQueue` shows how far watches and requeues carry this
assumption by themselves, and where it rests on the resync (every ten hours by
default). The manager's fairness is that of its three controllers, on a shared
state.

## Proofs

Each module with theorems is proved about in `<module>_proofs`, for every value
of its constants: any machines, servers, networks, addresses, and any number of
faults (stale reads among them). Nothing is assumed but the named `ASSUME` of
the module: values that stand for different things differ, `MaxFaults` is a
number, switches are Boolean. Every proof has the same shape: `IInv` holds at
the start, there is one lemma per kind of step that keeps it, and the
properties follow from it. TLC checks each `IInv` on a run as well.

### The firewall deployment

| theorem | states |
|---|---|
| `TypeCorrect`, `Invariance` | `Spec => []TypeOK`, `Spec => []IInv` |
| `NoFirewallLeft` | `FirewallsFreedBeforeRemoval` |
| `NamedFirewallAllocated` | `ReferenceIsAllocated` |
| `OneFirewall` | `SingleFirewall` |
| `ContractKept` | `Spec => KeepsContract`: the refinement of `FinalizerContract` |

`FirewallsFreedBeforeRemoval` is not inductive: a running reconciliation may be
about to remove the finalizer, from a cache that is out of date. `FinalizerInv`,
the first part of `IInv`, excludes that. `Presence` and `CacheLags` say how
object and cache relate: deletion timestamps are only ever set, so a cached
deletion is real, and a finalizer that the cache shows on an object it does not
show as deleted is still there. Hence a reconciliation that allocates
(`Creating`) holds the finalizer, one that frees (`Deleting`) works on a
deletion. `Tagged` says that the tag lookup finds every firewall, so at any point
of the loop without an error what is still held is among what is still to be
freed; hence a patch that takes the finalizer away (`Removing`) leaves nothing.
With one worker nothing is allocated between the lookup and that patch.

`Referenced` and `Single` are about the reference. Until the deletion is
requested, the firewall the spec names, the one a running reconciliation is
about to name and those the user rolls are different allocations, with any
number of stale reads: nothing frees one of them but the user who rolled it.
If nothing was lost either, there is no other allocation.

The refinement maps each step to one of the contract or to a stutter; it reuses
`PatchFinalizer`, which says what the last patch can do to the finalizer.

### The machine

| theorem | states | given |
|---|---|---|
| `TypeCorrect`, `Invariance` | `[]TypeOK`, `[]IInv` | |
| `ReadyIsKnown` | `ReadyImpliesProviderID` | |
| `GraceGiven` | `ControlPlaneGrace`, which no run checks on its own: it follows from `IInv`, which the runs check, and the steps | |
| `NamedMachineFreed` | `RecordedMachineFreed` | `~StaleReads` |
| `ProviderIDKept` | `ProviderIDStable` | |
| `ContractKept` | `KeepsContract` (which is about histories without a fault) | `~StaleReads` |
| `ServerKept` | `ServerLostToDeletion` | says `~StaleReads`, `~Outsiders` itself |

`~StaleReads` is not a way around a gap of the proof: with a cache that hides
the provider ID, the code takes a second server. `IInv` has three layers.
`Presence`, `CacheLags`, `PhonedHeld` and `Running` hold whatever happens:
a removed finalizer goes with a deletion and, for the control plane, with its
grace period; what a running reconciliation may have changed; nothing is ready
that has no provider ID, as the server that is allocated has not phoned home.
`Fresh` needs up-to-date reads: the copy a reconciliation started from is what
the server still has, so that when its patch takes the finalizer away the
recorded server is not the object's own any more. `Lossless` adds that no call
failed: a machine holds no server but the one it knows of. `Owned` needs fresh
reads and nobody else at work, but any call may fail: a machine in use holds the
server it knows of, or a machine that is being deleted names the same one.

That exception came out of the proof. For two machines TLC had agreed that none
share a server; but a control plane machine that was freed keeps its provider ID
and its finalizer, so that its next reconciliation frees the server under
whoever got it since, and a third machine can then be given the server the
second believes to have. With a lost answer a worker does the same, and so does
a deletion whose server changes hands between FindMachine and FreeMachine.
`ServerLostToDeletion` says that this is the only way, and `MCMachineReuse` shows
the first half of the story.

### The cluster

| theorem | states |
|---|---|
| `TypeCorrect`, `Invariance` | `[]TypeOK`, `[]IInv` |
| `NetworkAllocated` | `NetworkIsAllocated` |
| `NoNetworkLeaks` | `NoNetworkLeak` |
| `ReadyUnlessLost` | `ReadyImpliesNetworkUnlessLost` |
| `StaticIPsStay` | `StaticIPsKept` |
| `ReleasedLast` | `ReleaseOrder` |
| `IdentityKept` | `IdentityStable` |
| `AdoptedWhenReady` | `ReadyImpliesAdopted` |

All of them for any number of faults and stale reads; what depends on fresh
reads says so itself (`~stale`). `Allocated` is the heart of `NetworkAllocated`:
until the deletion is requested, every copy of the object, in the cache or in a
running reconciliation, names an allocated network, so no patch can bring back
a freed one. `Adopted` is its counterpart for the firewall deployment: no copy
is or becomes ready before the deployment is adopted, although the adoption is
an update of another object that is refused when that object changed. `Running` keeps apart what the branches of `Reconcile` may change,
`Fresh` what a reconciliation waited for (the machines, then the firewall
deployment) until it gives something back, and `Lossless` that the only network
allocated is the one the object, or the reconciliation at work, names.

### The work queue

| theorem | states |
|---|---|
| `TypeCorrect`, `Invariance` | `[]TypeOK`, `[]IInv` |
| `MachinesWoken` | `MachinesAreWoken` |
| `FirewallWoken` | `FirewallIsWoken` |
| `ClusterWoken` | `ClusterIsWoken` |

For any machines, any number of restarts, pauses and failures. "Asleep with
something to do" is not inductive, since it speaks of a cache that is up to date
about everything at once. `IInv` asks for less: an object is `Quiet` when it is
not queued and the cache is up to date about the object itself, and a quiet
object is settled, that is, it is what its reconciliation makes of it, or it
waits for something that is named (`MachinesSettled`, `FirewallSettled`,
`ClusterSettled`). A reconciliation that ends without a requeue leaves the
object settled (`OwnSettled`), or its own patch has changed it, so that it is
not quiet until the event arrives; an event that makes something possible for
others puts those back (`DeliverStep`, `WakeStep`). `CacheLags` and `Adopted`
say why an event of the firewall deployment finds its cluster, and `Retried`
that its controller drops no error.

### The manager

| theorem | states | given |
|---|---|---|
| `TypeCorrect` | `[]TypeOK` | |
| `Invariance` | `[]IInv` | `~StaleReads` |
| `ClusterRefined`, `FirewallRefined`, `MachineRefined` | `ClusterAsAssumed`, `FirewallAsAssumed`, `MachineAsAssumed` | `~StaleReads` |
| `AloneAndTogether` | `[]EachKept`: ten invariants of the three modules, in the manager | `~StaleReads` |
| `NetworkOutlives` | `NetworkOutlivesServers` | `~StaleReads` |
| `ClusterLast` | `ClusterGoesLast` | `~StaleReads` |

For any number of machines, servers, networks and faults, a firewall deployment
that is read from a stale cache among them. `~StaleReads` (clusters and machines
are read fresh) is needed: without it `FirewallAsAssumed` is false, see above.

The argument is one of assumption and guarantee. Each module describes the rest
of the world by actions of its own (`FirewallReleased`, `ClusterNetwork`,
`ClusterGone`, ...) whose guards say what that module relies on. `IInv` holds
the three invariants of the modules and five conjuncts about what one
controller knows of another: no machine is missing from the cached list
(`MachinesListed`); a deployment that is worked on is adopted, and once firewalls
are being freed no machine is listed (`FirewallWaits`); a cluster that is about
to lose its finalizer has outlived machines and deployment (`ClusterWaits`); as
long as one of them exists, every copy of the cluster names an allocated network
and a network the cache has shown stays (`NetworkStays`); the network a machine is
about to be created in is that of the cached cluster, and so is the one its
server was placed in (`ServersPlaced`). In a state with `IInv` each
step of the manager is a step of each module, or leaves its view unchanged
(`ClusterView`, `FirewallView`, `MachineView`). Therefore the invariant of each
module is kept by the lemma proved in its own module, used through an instance
(`ClP`, `FwP`, `MaP`; `SameCluster`, `SameFirewall` and `SameMachine` say that
the instances of a module and of its proofs are the same), and only the five
conjuncts are left to show. What they need of a controller is stated in the last
section of its proof module, in terms of that module alone: what it changes of
the objects of the others, and what it has waited for before.

`ClusterGoesLast` and `NetworkOutlivesServers` then take no further induction:
`ClusterWaits` with the `Lossless` conjuncts gives the first, `NetworkStays` with
`Tagged` and `ServersPlaced` the second.

### What is only model-checked

Liveness and ENABLED are out of the reach of the prover: `FirewallComesUp`,
`BecomesReady`, `ExternalDeletionNoticed` and the four properties about
deletions that hang, `TeardownHangsOnlyWhenBlocked` of the manager among them.
What the manager does with stale reads of clusters and machines is neither
checked nor proved, but for the types.

## Not modelled

Conditions other than the paused one, labels, addresses, tags other than the
ones a lookup uses, texts, firewall rules and networks, requests and their
validation. The provider ID stands for the server it encodes: partition and ID
are joined by a slash that neither contains. The annotations for paused and
externally managed objects, and the periodic resync. Start-up, metrics and flags
of the manager; generated code, manifests and test code. `spec.autoUpdate` is
read by no code. In `CapmsManager`, control plane machines and the control plane
IP, which concern one controller each and are checked in its module.

## Plan

What is left, most important first:

1. The manager with stale reads: which of its properties remain, what a
   reconciliation on an old copy of the cluster can do to the others, and which
   of that can be proved (the invariants of the modules do not depend on fresh
   reads, what the modules assume of each other does).
2. The action properties of the modules (`ReleaseOrder`, `IdentityStable`,
   `ProviderIDStable`, the finalizer contracts) in `AloneAndTogether`.
