------------------------------- MODULE WorkQueue -------------------------------
(***************************************************************************)
(* What wakes a controller: the watches that SetupWithManager registers,   *)
(* their predicates and map functions, the work queues, and the results of *)
(* Reconcile that put a request back.  The objects are reduced to what     *)
(* the three controllers wait for; a reconciliation is one step, because a *)
(* request that is added while it is processed is processed again.         *)
(***************************************************************************)
EXTENDS Integers, ApiObjects

CONSTANTS
    Nodes,          \* the MetalStackMachine objects
    ControlPlane    \* those whose Machine is a control plane machine

ASSUME QueueAssumption ==
    ControlPlane \subseteq Nodes /\ Nodes \cap {"cluster", "firewall"} = {}

VARIABLES
    obj, objC,              \* the objects, in the API server and in the cache
    paused, pausedC,        \* spec.paused of the Cluster; the annotation is left out
    template,               \* the cache has the MetalStackFirewallTemplate
    phoned,                 \* machines that phoned home
    queue,                  \* requests that wait to be reconciled, now or after a delay
    swallowed               \* requests dropped after an error

vars == <<obj, objC, paused, pausedC, template, phoned, queue, swallowed>>

(* One request per object: the MetalStackCluster, its firewall deployment and
   its machines. *)
Requests == {"cluster", "firewall"} \cup Nodes

(* owned: by Cluster, MetalStackCluster or Machine; done: a cluster has
   network and endpoint, a firewall or a machine is up; halted: the Paused
   condition of the object is true. *)
Object == [exists : BOOLEAN, owned : BOOLEAN, finalizer : BOOLEAN, deleting : BOOLEAN,
           done : BOOLEAN, halted : BOOLEAN]

Blank == [exists |-> TRUE, owned |-> FALSE, finalizer |-> FALSE, deleting |-> FALSE,
          done |-> FALSE, halted |-> FALSE]

(* Type correctness of the whole state. *)
TypeOK ==
    /\ obj \in [Requests -> Object] /\ objC \in [Requests -> Object]
    /\ paused \in BOOLEAN /\ pausedC \in BOOLEAN
    /\ template \in BOOLEAN
    /\ phoned \subseteq Nodes
    /\ queue \subseteq Requests /\ swallowed \subseteq Requests

Init ==
    /\ obj = [o \in Requests |-> Blank] /\ objC = obj
    /\ paused \in BOOLEAN /\ pausedC = paused
    /\ template \in BOOLEAN
    /\ phoned = {}
    /\ queue = Requests /\ swallowed = {}

-----------------------------------------------------------------------------
(* The watches *)

(* Machines the cache lists by the label with the name of their Cluster: those
   that clusterToMetalStackMachine wakes. *)
Listed == {n \in Nodes : objC[n].exists}

(* The MetalStackCluster gets the label when it gets its owner. *)
metalStackClusterToMetalStackMachine == IF obj["cluster"].owned THEN Listed ELSE {}

metalStackMachineToMetalStackCluster(n) ==
    {o \in {"cluster"} : obj[n].owned /\ objC[o].exists}

metalStackFirewallToMetalStackCluster ==
    {o \in {"cluster"} : obj["firewall"].owned /\ objC[o].exists}

(* Mutant of Woken: the cluster controller does not watch its firewall. *)
WokenByMachines(o) ==
    {o} \cup CASE o = "cluster"  -> metalStackClusterToMetalStackMachine
               [] o = "firewall" -> {}
               [] OTHER          -> metalStackMachineToMetalStackCluster(o)

(* Who is enqueued when the cache learns of a change of an object.  The
   firewall controller's watch on the MetalStackCluster has a predicate for
   Clusters, which drops every event. *)
Woken(o) ==
    {o} \cup CASE o = "cluster"  -> metalStackClusterToMetalStackMachine
               [] o = "firewall" -> metalStackFirewallToMetalStackCluster
               [] OTHER          -> metalStackMachineToMetalStackCluster(o)

Deliver(o) ==
    /\ objC[o] # obj[o]
    /\ objC' = [objC EXCEPT ![o] = obj[o]]
    /\ queue' = queue \cup Woken(o)
    /\ UNCHANGED <<obj, paused, pausedC, template, phoned, swallowed>>

(* Mutant of DeliverCluster: an unpaused Cluster wakes nobody. *)
DeliverClusterUnheard ==
    /\ pausedC # paused /\ pausedC' = paused
    /\ UNCHANGED <<obj, objC, paused, template, phoned, queue, swallowed>>

(* A Cluster that is unpaused wakes its machines.  clusterToMetalStackCluster
   looks for the MetalStackCluster without a namespace and finds none. *)
DeliverCluster ==
    /\ pausedC # paused /\ pausedC' = paused
    /\ queue' = IF paused THEN queue ELSE queue \cup Listed
    /\ UNCHANGED <<obj, objC, paused, template, phoned, swallowed>>

DeliverTemplate ==
    /\ ~template /\ template' = TRUE
    /\ queue' = IF objC["firewall"].exists THEN queue \cup {"firewall"} ELSE queue
    /\ UNCHANGED <<obj, objC, paused, pausedC, phoned, swallowed>>

(* A Machine changes.  machineToMetalStackMachine asks for the labels of a
   MachineDeployment and a MachineSet, which a control plane machine lacks. *)
DeliverMachine(n) ==
    /\ n \in Listed
    /\ queue' = queue \cup ({n} \ ControlPlane)
    /\ UNCHANGED <<obj, objC, paused, pausedC, template, phoned, swallowed>>

(* The process starts again: queues are empty and the informers list anew. *)
Restart ==
    /\ objC' = obj /\ pausedC' = paused
    /\ queue' = {o \in Requests : obj[o].exists} /\ swallowed' = {}
    /\ UNCHANGED <<obj, paused, template, phoned>>

-----------------------------------------------------------------------------
(* Reconciliations *)

(* The objects Reconcile looks up before it does anything. *)
Reaches(o) ==
    /\ objC[o].exists /\ objC[o].owned
    /\ o # "cluster" => objC["cluster"].exists
    /\ o = "firewall" => objC["cluster"].owned /\ template

(* The result of a reconciliation: nothing, or an error or RequeueAfter, which
   leave the request in the queue. *)
Finish(o, again) ==
    /\ queue' = IF again THEN queue ELSE queue \ {o}
    /\ swallowed' = swallowed \ {o}
    /\ UNCHANGED <<objC, paused, pausedC, template, phoned>>

(* The patch that ends it, on the object as it is now in the API server. *)
Patched(o, new) ==
    IF obj[o].exists
    THEN Settled([obj[o] EXCEPT
           !.finalizer = Merged(@, objC[o].finalizer, new.finalizer),
           !.done      = Merged(@, objC[o].done, new.done),
           !.halted    = Merged(@, objC[o].halted, new.halted)])
    ELSE obj[o]

Write(o, new) == obj' = [obj EXCEPT ![o] = Patched(o, new)]

(* Not there, not owned, no cluster, no template: Reconcile returns.  Only the
   owner of a firewall deployment that is not found is an error. *)
Ignore(o) ==
    /\ ~Reaches(o)
    /\ Finish(o, o = "firewall" /\ objC[o].exists /\ objC[o].owned /\ ~objC["cluster"].exists)
    /\ UNCHANGED <<obj>>

Halt(o) ==
    /\ Reaches(o) /\ pausedC
    /\ Write(o, [objC[o] EXCEPT !.halted = TRUE])
    /\ Finish(o, FALSE)

Running(o) == Reaches(o) /\ ~pausedC
Resumed(o) == [objC[o] EXCEPT !.halted = FALSE]

AddFinalizer(o) ==
    /\ Running(o) /\ ~objC[o].deleting /\ ~objC[o].finalizer
    /\ Write(o, [Resumed(o) EXCEPT !.finalizer = TRUE])
    /\ Finish(o, FALSE)

(* A call of reconcile or delete fails. *)
Fail(o) ==
    /\ Running(o) /\ objC[o].finalizer
    /\ Write(o, Resumed(o))
    /\ Finish(o, TRUE)

Wanted(o)    == Running(o) /\ objC[o].finalizer /\ ~objC[o].deleting
Condemned(o) == Running(o) /\ objC[o].finalizer /\ objC[o].deleting

(* reconcile of the cluster: an error without the firewall deployment, and when
   the Update that adopts it finds another one than the cache has.  Network and
   endpoint share one flag: what fails between them is Fail. *)
EnsureCluster ==
    /\ Wanted("cluster")
    /\ LET firewall == objC["firewall"]
           adopts   == firewall.exists /\ (firewall.owned \/ obj["firewall"] = firewall) IN
       /\ obj' = [obj EXCEPT
            !["cluster"] = Patched("cluster", [Resumed("cluster") EXCEPT !.done = @ \/ adopts]),
            !["firewall"].owned = @ \/ adopts]
       /\ Finish("cluster", ~adopts)

(* delete of the cluster waits for the machines with an error, and for the
   firewall deployment without. *)
DeleteCluster ==
    /\ Condemned("cluster")
    /\ IF Listed # {} THEN Write("cluster", Resumed("cluster"))
       ELSE IF objC["firewall"].exists
            THEN obj' = [obj EXCEPT
                   !["cluster"]  = Patched("cluster", Resumed("cluster")),
                   !["firewall"] = IF @.exists THEN Deleted(@) ELSE @]
            ELSE Write("cluster", [Resumed("cluster") EXCEPT !.finalizer = FALSE])
    /\ Finish("cluster", Listed # {})

(* Mutant of EnsureFirewall: without a node network there is nothing to do. *)
EnsureFirewallQuietly ==
    /\ Wanted("firewall")
    /\ Write("firewall", [Resumed("firewall") EXCEPT !.done = @ \/ objC["cluster"].done])
    /\ Finish("firewall", FALSE)

(* reconcile of the firewall deployment: an error without a node network. *)
EnsureFirewall ==
    /\ Wanted("firewall")
    /\ Write("firewall", [Resumed("firewall") EXCEPT !.done = @ \/ objC["cluster"].done])
    /\ Finish("firewall", ~objC["cluster"].done)

(* delete of the firewall deployment: an error as long as there are machines,
   a panic without a node network. *)
DeleteFirewall ==
    /\ Condemned("firewall")
    /\ LET ready == Listed = {} /\ objC["cluster"].done IN
       /\ Write("firewall", [Resumed("firewall") EXCEPT !.finalizer = ~ready])
       /\ Finish("firewall", ~ready)

(* Mutant of EnsureMachine: no RequeueAfter until the machine phones home. *)
EnsureMachineOnce(n) ==
    /\ Wanted(n)
    /\ Write(n, [Resumed(n) EXCEPT !.done = @ \/ (objC["cluster"].done /\ n \in phoned)])
    /\ Finish(n, ~objC["cluster"].done)

(* reconcile of a machine: an error until the cluster is done, RequeueAfter
   until the machine has phoned home. *)
EnsureMachine(n) ==
    /\ Wanted(n)
    /\ LET up == objC["cluster"].done /\ n \in phoned IN
       /\ Write(n, [Resumed(n) EXCEPT !.done = @ \/ up])
       /\ Finish(n, ~up)

(* delete of a machine: RequeueAfter in the grace period of the control plane. *)
DeleteMachine(n) ==
    /\ Condemned(n)
    /\ \E wait \in BOOLEAN :
         /\ wait => n \in ControlPlane
         /\ Write(n, [Resumed(n) EXCEPT !.finalizer = wait])
         /\ Finish(n, wait)

(* An error that Reconcile drops: nothing puts the request back. *)
Swallow(o) ==
    /\ queue' = queue \ {o} /\ swallowed' = swallowed \cup {o}
    /\ UNCHANGED <<objC, paused, pausedC, template, phoned>>

(* The first Get of the machine controller fails. *)
GetFails(n) == Swallow(n) /\ UNCHANGED obj

(* The call that deletes the firewall deployment fails; the cluster's delete
   takes this like the wait for the deployment. *)
DeleteCallFails ==
    /\ Condemned("cluster") /\ Listed = {}
    /\ objC["firewall"].exists /\ ~objC["firewall"].deleting
    /\ Write("cluster", Resumed("cluster"))
    /\ Swallow("cluster")

Reconcile(o) ==
    /\ o \in queue
    /\ \/ Ignore(o) \/ Halt(o) \/ AddFinalizer(o)
       \/ o = "cluster" /\ (EnsureCluster \/ DeleteCluster)
       \/ o = "firewall" /\ (EnsureFirewall \/ DeleteFirewall)
       \/ o \in Nodes /\ (EnsureMachine(o) \/ DeleteMachine(o))

ReconcileFails(o) ==
    /\ o \in queue
    /\ \/ Fail(o)
       \/ o \in Nodes /\ GetFails(o)
       \/ o = "cluster" /\ DeleteCallFails

-----------------------------------------------------------------------------
(* The rest of the world *)

internal == <<objC, pausedC, template, queue, swallowed>>

(* Users, clusterctl move and Cluster API pause and resume the Cluster. *)
Pause == paused' = ~paused /\ UNCHANGED <<obj, template, phoned, internal>>

(* Cluster API sets the owner references of cluster and machines. *)
Adopt(o) ==
    /\ o # "firewall" /\ obj[o].exists /\ ~obj[o].owned
    /\ obj' = [obj EXCEPT ![o].owned = TRUE]
    /\ UNCHANGED <<paused, template, phoned, internal>>

RequestDelete(o) ==
    /\ obj[o].exists /\ ~obj[o].deleting
    /\ obj' = [obj EXCEPT ![o] = Deleted(@)]
    /\ UNCHANGED <<paused, template, phoned, internal>>

(* A server was allocated for the machine, and installed. *)
PhoneHome(n) ==
    /\ n \notin phoned /\ obj[n].finalizer /\ obj["cluster"].done
    /\ phoned' = phoned \cup {n}
    /\ UNCHANGED <<obj, paused, template, internal>>

Environment ==
    \/ Pause
    \/ \E o \in Requests : Adopt(o) \/ RequestDelete(o)
    \/ \E n \in Nodes : PhoneHome(n)

Watch ==
    \/ \E o \in Requests : Deliver(o)
    \/ DeliverCluster \/ DeliverTemplate

Next ==
    \/ \E o \in Requests : Reconcile(o) \/ ReconcileFails(o)
    \/ Watch \/ (\E n \in Nodes : DeliverMachine(n))
    \/ Restart
    \/ Environment

Spec == Init /\ [][Next]_vars

-----------------------------------------------------------------------------
(* Properties *)

(* A reconciliation of the object, as it is now, would change something. *)
Unnoticed(o) == Running(o) /\ (objC[o].halted \/ ~(objC[o].deleting \/ objC[o].finalizer))

ClusterHasWork ==
    LET firewall == objC["firewall"] IN
    \/ Unnoticed("cluster")
    \/ Wanted("cluster") /\ firewall.exists /\ ~(firewall.owned /\ objC["cluster"].done)
    \/ Condemned("cluster") /\ Listed = {} /\ ~(firewall.exists /\ firewall.deleting)

FirewallHasWork ==
    \/ Unnoticed("firewall")
    \/ /\ objC["cluster"].done
       /\ (Wanted("firewall") /\ ~objC["firewall"].done) \/ (Condemned("firewall") /\ Listed = {})

MachineHasWork(n) ==
    \/ Unnoticed(n) \/ Condemned(n)
    \/ Wanted(n) /\ ~objC[n].done /\ objC["cluster"].done /\ n \in phoned

(* The request is not queued, nor is an event under way that would queue it. *)
Asleep(o) == o \notin queue /\ objC = obj /\ pausedC = paused

(* The Cluster was resumed and the object has not noticed. *)
LeftHalted(o) == objC[o].halted /\ ~pausedC

(* A machine for which there is something to do is never forgotten, whether it
   waits for its owner, its cluster, a server or a timer; the one exception is
   a request whose first Get failed. *)
MachinesAreWoken == \A n \in Nodes : Asleep(n) /\ MachineHasWork(n) => n \in swallowed

(* A firewall deployment is forgotten only when its Cluster is resumed: nothing
   tells its controller. *)
FirewallIsWoken == Asleep("firewall") /\ FirewallHasWork => LeftHalted("firewall")

(* A cluster is forgotten only when its Cluster is resumed and no machine makes
   up for the missing event, when the call that deletes its firewall deployment
   failed, or when its deletion waited for a firewall deployment that it had
   not adopted. *)
ClusterIsWoken ==
    Asleep("cluster") /\ ClusterHasWork =>
        \/ LeftHalted("cluster")
        \/ "cluster" \in swallowed
        \/ objC["cluster"].deleting /\ ~objC["firewall"].exists /\ ~objC["firewall"].owned

(* delete returns with the error "waiting for firewall deployment to be gone",
   which is dropped: a cluster that is to go, has no machines left and sleeps,
   waits for a firewall deployment that is being deleted.  It does not when the
   call that was to delete it failed, nor when it is gone already and told
   nobody, as the cluster had not adopted it. *)
SleepsOnlyForFirewall ==
    LET firewall == objC["firewall"] IN
    Asleep("cluster") /\ Condemned("cluster") /\ ~objC["cluster"].halted /\ Listed = {}
        => firewall.exists /\ firewall.deleting

-----------------------------------------------------------------------------
(* Why nobody is forgotten *)

(* An object is there unless its deletion was requested and its finalizer is
   gone. *)
Presence == \A o \in Requests : obj[o].exists = (obj[o].deleting => obj[o].finalizer)

(* The cache lags behind the server, and what it lags in never changes back. *)
CacheLags ==
    \A o \in Requests :
        /\ obj[o].exists => objC[o].exists
        /\ objC[o].owned => obj[o].owned
        /\ objC[o].deleting => obj[o].deleting

(* Only a cluster that has its owner adopts its firewall deployment. *)
Adopted == obj["firewall"].owned => objC["cluster"].owned

(* Every error of the firewall controller puts the request back. *)
Retried == "firewall" \notin swallowed

(* Neither queued nor about to be: the cache is up to date about the object
   itself, whatever else it has missed. *)
Quiet(o) == o \notin queue \cup swallowed /\ objC[o] = obj[o]

(* The object is what its reconciliation makes of it. *)
Up(o) == objC[o].finalizer /\ ~objC[o].deleting /\ objC[o].done /\ ~objC[o].halted

(* A machine leaves the queue when it is up, or can do nothing. *)
MachinesSettled == \A n \in Nodes : Quiet(n) /\ Running(n) => Up(n)

(* A firewall deployment leaves the queue when it is up, or can do nothing, or
   finds its Cluster paused. *)
FirewallSettled == Quiet("firewall") /\ Reaches("firewall") => objC["firewall"].halted \/ Up("firewall")

(* A cluster leaves the queue when it is up and has adopted its firewall
   deployment, when it waits for the deployment to go, or when it finds its
   Cluster paused. *)
Awaited ==
    IF objC["firewall"].exists THEN obj["firewall"].exists => obj["firewall"].deleting
                               ELSE ~objC["firewall"].owned

ClusterSettled ==
    Quiet("cluster") /\ Reaches("cluster") =>
        \/ objC["cluster"].halted
        \/ Up("cluster") /\ (objC["firewall"].exists => obj["firewall"].owned)
        \/ objC["cluster"].finalizer /\ objC["cluster"].deleting /\ Awaited

(* The inductive invariant: a request leaves its queue only for a reason, and
   what takes the reason away puts it back. *)
IInv ==
    /\ TypeOK /\ Presence /\ CacheLags /\ Adopted /\ Retried
    /\ MachinesSettled /\ FirewallSettled /\ ClusterSettled
=============================================================================
