--------------------------- MODULE MetalStackMachine ---------------------------
(***************************************************************************)
(* MetalStackMachineReconciler and the MetalStackMachines of one cluster.  *)
(* One worker reconciles one object at a time (MaxConcurrentReconciles is  *)
(* left at its default of one); a reconciliation reads the object from the *)
(* informer cache, calls the metal-stack API and ends with a merge patch.  *)
(***************************************************************************)
EXTENDS Integers, ApiObjects

CONSTANTS
    Nodes,          \* the MetalStackMachine objects
    ControlPlane,   \* those whose Machine is a control plane machine
    Hardware,       \* the servers of the partition
    None,           \* an empty provider ID, an unallocated server
    Neighbour,      \* an allocation in the same project that no object made
    Stranger,       \* an allocation in another project
    MaxFaults,      \* bound on failed calls, lost answers, partial patches, crashes
    StaleReads,     \* a reconciliation may read a cache that lags behind the server
    Outsiders       \* servers are freed and allocated by others, too

ASSUME MachineAssumption ==
    /\ ControlPlane \subseteq Nodes
    /\ None \notin Hardware \cup Nodes \cup {Neighbour, Stranger}
    /\ Neighbour \notin Nodes \cup {Stranger}
    /\ Stranger \notin Nodes
    /\ MaxFaults \in Nat
    /\ StaleReads \in BOOLEAN
    /\ Outsiders \in BOOLEAN

VARIABLES
    obj,            \* the objects in the API server
    objC,           \* the objects in the informer cache
    prepared,       \* objects whose cluster has network and endpoint, and whose
                    \* Machine has its bootstrap secret
    alloc,          \* metal-stack API: server -> who holds it
    phoned,         \* servers whose latest event is "Phoned Home"
    overdue,        \* deletion timestamp more than 30s ago
    pc,             \* where the running reconciliation stands
    cur,            \* the object it reconciles
    before, after,  \* the patch helper's copy, and the copy being changed
    faults

objects == <<obj, objC>>
env     == <<prepared, phoned, overdue>>
local   == <<pc, cur, before, after>>
vars    == <<objects, env, alloc, local, faults>>

Steps == {"idle", "lookup", "allocate", "find", "free", "patch"}

Machine ==
    [exists : BOOLEAN, finalizer : BOOLEAN, deleting : BOOLEAN,
     providerID : Hardware \cup {None}, ready : BOOLEAN, failure : BOOLEAN]

Blank == [exists |-> TRUE, finalizer |-> FALSE, deleting |-> FALSE,
          providerID |-> None, ready |-> FALSE, failure |-> FALSE]

Holders == Nodes \cup {None, Neighbour, Stranger}

(* Type correctness of the whole state: objects, metal-stack API, local copies. *)
TypeOK ==
    /\ obj \in [Nodes -> Machine] /\ objC \in [Nodes -> Machine]
    /\ prepared \subseteq Nodes
    /\ alloc \in [Hardware -> Holders] /\ phoned \subseteq Hardware
    /\ overdue \subseteq Nodes
    /\ pc \in Steps /\ cur \in Nodes \cup {None}
    /\ before \in Machine /\ after \in Machine
    /\ faults \in 0 .. MaxFaults

Init ==
    /\ obj = [n \in Nodes |-> Blank] /\ objC = obj
    /\ prepared = {}
    /\ alloc = [h \in Hardware |-> None] /\ phoned = {}
    /\ overdue = {}
    /\ pc = "idle" /\ cur = None /\ before = Blank /\ after = Blank
    /\ faults = 0

Held(n) == {h \in Hardware : alloc[h] = n}

(* Mutant of InProject: the project is not compared. *)
IsAllocated(h) == h # None /\ alloc[h] # None

(* findProviderMachine: an empty provider ID is not found; else it compares the
   project of the allocation and nothing else. *)
InProject(h) == h # None /\ alloc[h] \notin {None, Stranger}

Fault == faults < MaxFaults /\ faults' = faults + 1

(* A call answers, or it takes a fault. *)
Answered(ok) == IF ok THEN UNCHANGED faults ELSE Fault

(* The end of a reconciliation: its local state is forgotten. *)
Forget == pc' = "idle" /\ cur' = None /\ before' = Blank /\ after' = Blank

(* Go on to the patch that ends every reconciliation, with the copy changed
   to o.  After an error the copy is unchanged and the patch changes nothing. *)
ToPatch(o) == pc' = "patch" /\ after' = o /\ UNCHANGED <<cur, before>>

-----------------------------------------------------------------------------
(* Reconciliation *)

(* Reconcile reads the cache.  A paused object and a delete without finalizer
   change nothing and are left out. *)
Begin(n, step, o) ==
    /\ pc = "idle"
    /\ StaleReads \/ objC[n] = obj[n]
    /\ objC[n].exists
    /\ pc' = step /\ cur' = n /\ before' = objC[n] /\ after' = o
    /\ UNCHANGED <<objects, env, alloc, faults>>

AddFinalizer(n) ==
    /\ ~objC[n].deleting /\ ~objC[n].finalizer
    /\ Begin(n, "patch", [objC[n] EXCEPT !.finalizer = TRUE])

(* Mutants of StartReconcile: it runs before the finalizer is written; it does
   not look at the provider ID. *)
StartReconcileUnguarded(n) ==
    /\ ~objC[n].deleting /\ n \in prepared
    /\ Begin(n, IF objC[n].providerID = None THEN "allocate" ELSE "lookup", objC[n])

StartReconcileAnew(n) ==
    /\ ~objC[n].deleting /\ objC[n].finalizer /\ n \in prepared
    /\ Begin(n, "allocate", objC[n])

(* reconcile: an error until cluster and Machine are prepared; then the
   machine is looked up if the provider ID is set and created if not. *)
StartReconcile(n) ==
    /\ ~objC[n].deleting /\ objC[n].finalizer
    /\ n \in prepared
    /\ Begin(n, IF objC[n].providerID = None THEN "allocate" ELSE "lookup", objC[n])

(* Mutant of StartDelete: the deletion timestamp is not checked. *)
StartDeleteAnyway(n) == objC[n].finalizer /\ Begin(n, "find", objC[n])

StartDelete(n) ==
    /\ objC[n].deleting /\ objC[n].finalizer
    /\ Begin(n, "find", objC[n])

(* A machine is ready once its latest event is "Phoned Home". *)
getMachineStatus(m) == m \in phoned

(* Mutants of Described: the ID is encoded twice; any machine is ready. *)
DescribedTwice(o, m) == [o EXCEPT !.providerID = <<"metal", m>>]
DescribedReady(o, m) == [o EXCEPT !.providerID = m, !.ready = TRUE]

(* What reconcile writes about a machine m: the provider ID and readiness, which
   is never taken back. *)
Described(o, m) == [o EXCEPT !.providerID = m, !.ready = @ \/ getMachineStatus(m)]

(* findProviderMachine in reconcile; not found means deleted externally. *)
LookUp ==
    /\ pc = "lookup"
    /\ IF InProject(after.providerID)
       THEN ToPatch(Described(after, after.providerID))
       ELSE ToPatch([after EXCEPT !.failure = TRUE])
    /\ UNCHANGED <<objects, env, alloc, faults>>

(* create: when the answer of AllocateMachine is lost, the server is allocated
   and nobody wrote down which. *)
AllocateMachine ==
    /\ pc = "allocate"
    /\ \E h \in Held(None), answered \in BOOLEAN :
         /\ Answered(answered)
         /\ alloc' = [alloc EXCEPT ![h] = cur]
         /\ ToPatch(IF answered THEN Described(after, h) ELSE after)
    /\ UNCHANGED <<objects, env>>

(* AllocateMachine is refused: no server is free, or the call fails. *)
AllocationRefused ==
    /\ pc = "allocate"
    /\ Answered(Held(None) = {})
    /\ ToPatch(after)
    /\ UNCHANGED <<objects, env, alloc>>

(* Mutant of DeleteMissing: an empty provider ID is an error. *)
DeleteMissingKnown ==
    /\ pc = "find" /\ ~InProject(after.providerID)
    /\ ToPatch([after EXCEPT !.finalizer = after.providerID = None \/ cur \in ControlPlane \ overdue])
    /\ UNCHANGED <<objects, env, alloc, faults>>

(* delete without a machine at the provider: a worker is done; a control plane
   machine waits until 30s have passed since the deletion timestamp. *)
DeleteMissing ==
    /\ pc = "find"
    /\ ~InProject(after.providerID)
    /\ ToPatch([after EXCEPT !.finalizer = cur \in ControlPlane \ overdue])
    /\ UNCHANGED <<objects, env, alloc, faults>>

DeleteFound ==
    /\ pc = "find"
    /\ InProject(after.providerID)
    /\ pc' = "free"
    /\ UNCHANGED <<objects, env, alloc, cur, before, after, faults>>

(* Mutant of FreeMachine: its error is dropped. *)
FreeMachineAnyway ==
    /\ pc = "free"
    /\ \E arrived \in BOOLEAN :
         /\ Answered(arrived)
         /\ alloc' = [alloc EXCEPT ![after.providerID] = IF arrived THEN None ELSE @]
    /\ ToPatch([after EXCEPT !.finalizer = cur \in ControlPlane])
    /\ UNCHANGED <<objects, env>>

(* FreeMachine: afterwards a worker is done, a control plane machine keeps its
   finalizer and is requeued.  The call names the server and nothing else: it
   frees it under whoever holds it by now, and may be refused if somebody freed
   it since FindMachine or another project has it. *)
FreeMachine ==
    /\ pc = "free"
    /\ \E answered \in BOOLEAN, arrived \in BOOLEAN :
         /\ answered => arrived
         /\ Answered(answered \/ alloc[after.providerID] \in {None, Stranger})
         /\ alloc' = [alloc EXCEPT ![after.providerID] = IF arrived THEN None ELSE @]
         /\ phoned' = IF arrived THEN phoned \ {after.providerID} ELSE phoned
         /\ ToPatch([after EXCEPT !.finalizer = ~answered \/ cur \in ControlPlane])
    /\ UNCHANGED <<objects, prepared, overdue>>

(* helper.Patch: one patch for metadata and spec, one for the status.  Either
   may fail without the other; both fail on an object that is gone. *)
Patch ==
    /\ pc = "patch"
    /\ \E spec \in BOOLEAN, status \in BOOLEAN :
         /\ spec \/ status => obj[cur].exists
         /\ Answered((spec /\ status) \/ before = after \/ ~obj[cur].exists)
         /\ obj' = [obj EXCEPT ![cur] = Settled([obj[cur] EXCEPT
              !.finalizer  = IF spec   THEN Merged(@, before.finalizer, after.finalizer)   ELSE @,
              !.providerID = IF spec   THEN Merged(@, before.providerID, after.providerID) ELSE @,
              !.ready      = IF status THEN Merged(@, before.ready, after.ready)           ELSE @,
              !.failure    = IF status THEN Merged(@, before.failure, after.failure)       ELSE @])]
    /\ Forget
    /\ UNCHANGED <<objC, env, alloc>>

(* FindMachine fails for another reason than not found. *)
FindFails ==
    /\ pc \in {"lookup", "find"} /\ after.providerID # None
    /\ Fault
    /\ ToPatch(after)
    /\ UNCHANGED <<objects, env, alloc>>

(* The process dies, or loses the leader election, and starts again. *)
Crash ==
    /\ pc # "idle"
    /\ Fault
    /\ Forget
    /\ UNCHANGED <<objects, env, alloc>>

Reconcile(n) == AddFinalizer(n) \/ StartReconcile(n) \/ StartDelete(n)

Continue ==
    \/ LookUp \/ AllocateMachine \/ AllocationRefused
    \/ DeleteMissing \/ DeleteFound \/ FreeMachine
    \/ Patch

-----------------------------------------------------------------------------
(* The rest of the world *)

CacheSync(n) ==
    /\ objC[n] # obj[n]
    /\ objC' = [objC EXCEPT ![n] = obj[n]]
    /\ UNCHANGED <<obj, env, alloc, local, faults>>

(* The cluster gets network and endpoint, and Machines their bootstrap secret. *)
Prepare ==
    /\ \E s \in SUBSET (Nodes \ prepared) : s # {} /\ prepared' = prepared \cup s
    /\ UNCHANGED <<objects, phoned, overdue, alloc, local, faults>>

(* The cluster goes after its machines, and network and endpoint with it. *)
ClusterGone ==
    /\ prepared # {} /\ \A n \in Nodes : ~obj[n].exists
    /\ prepared' = {}
    /\ UNCHANGED <<objects, phoned, overdue, alloc, local, faults>>

RequestDelete(n) ==
    /\ obj[n].exists /\ ~obj[n].deleting
    /\ obj' = [obj EXCEPT ![n] = Deleted(@)]
    /\ UNCHANGED <<objC, env, alloc, local, faults>>

(* The events of a machine: it phones home, or something else happens to it. *)
PhoneHome(h) ==
    /\ alloc[h] # None
    /\ phoned' = IF h \in phoned THEN phoned \ {h} ELSE phoned \cup {h}
    /\ UNCHANGED <<objects, prepared, overdue, alloc, local, faults>>

(* 30s pass after the deletion timestamp. *)
DeletionAges(n) ==
    /\ obj[n].exists /\ obj[n].deleting /\ n \notin overdue
    /\ overdue' = overdue \cup {n}
    /\ UNCHANGED <<objects, prepared, phoned, alloc, local, faults>>

(* Somebody else frees a server, or allocates one, at any time: between the
   FindMachine and the FreeMachine call of a deletion, too. *)
OutsiderFrees(h) ==
    /\ Outsiders
    /\ alloc[h] # None
    /\ alloc' = [alloc EXCEPT ![h] = None]
    /\ phoned' = phoned \ {h}
    /\ UNCHANGED <<objects, prepared, overdue, local, faults>>

OutsiderAllocates(h) ==
    /\ Outsiders
    /\ alloc[h] = None
    /\ \E who \in {Neighbour, Stranger} : alloc' = [alloc EXCEPT ![h] = who]
    /\ UNCHANGED <<objects, env, local, faults>>

Environment ==
    \/ Prepare \/ ClusterGone
    \/ \E n \in Nodes : RequestDelete(n)
    \/ \E h \in Hardware : PhoneHome(h) \/ OutsiderFrees(h) \/ OutsiderAllocates(h)

Next ==
    \/ \E n \in Nodes : Reconcile(n) \/ CacheSync(n) \/ DeletionAges(n)
    \/ Continue
    \/ FindFails \/ Crash
    \/ Environment

Spec == Init /\ [][Next]_vars

(* Every object is reconciled again and again (errors are requeued, machines
   that are not ready are requeued after 30s, the informers resynchronise),
   a reconciliation runs to its end, the watch catches up and time passes. *)
Fairness ==
    /\ \A n \in Nodes : SF_vars(Reconcile(n)) /\ WF_vars(CacheSync(n)) /\ WF_vars(DeletionAges(n))
    /\ WF_vars(Continue)

FairSpec == Spec /\ Fairness

-----------------------------------------------------------------------------
(* Properties *)

(* A machine that reports itself ready has a provider ID, although the two are
   written by different patches and either may be lost. *)
ReadyImpliesProviderID == \A n \in Nodes : obj[n].ready => obj[n].providerID # None

(* The cache has shown the provider ID, and no reconciliation runs that began
   before. *)
Shown(n) == objC[n].providerID # None /\ (cur = n => before.providerID # None)

(* A provider ID is final, and so is the machine the node stands for, once the
   cache has shown it and no reconciliation is left that began without it,
   however far the cache may lag behind otherwise; at once, if every
   reconciliation sees what the one before it wrote. *)
ProviderIDStable ==
    [][\A n \in Nodes :
         /\ Shown(n) => Shown(n)'
         /\ Shown(n) \/ (~StaleReads /\ obj[n].providerID # None)
              => obj'[n].providerID = obj[n].providerID]_vars

(* When the object is gone, the machine its provider ID names has been freed. *)
RecordedMachineFreed ==
    \A n \in Nodes : ~obj[n].exists /\ obj[n].providerID # None => alloc[obj[n].providerID] # n

(* MachineFinalizer "allows to clean up resources associated with" the object
   "before removing it": no server is left that was allocated for it. *)
NoMachineLeak == \A n \in Nodes : ~obj[n].exists => Held(n) = {}

(* A machine in use keeps the server it names, whatever calls fail and whichever
   deletions are repeated, unless another machine that names the same server is
   deleted: a server that is freed while its machine is not gone yet (the free
   or the patch is repeated, or the grace period of the control plane runs) may
   be allocated again and freed under its new owner, as only the project is
   compared.  In particular machines in use do not share a server otherwise. *)
InUse(n) == obj[n].exists /\ ~obj[n].deleting

KeepsServer(n, h) ==
    InUse(n) /\ h # None =>
        alloc[h] = n \/ \E m \in Nodes \ {n} : obj[m].deleting /\ obj[m].providerID = h

ServerLostToDeletion ==
    ~StaleReads /\ ~Outsiders => \A n \in Nodes : KeepsServer(n, obj[n].providerID)

(* A control plane machine that was guarded by the finalizer stays for at
   least 30s after the deletion timestamp. *)
ControlPlaneGrace ==
    [][\A n \in ControlPlane :
         obj[n].exists /\ obj[n].finalizer /\ ~obj'[n].exists => n \in overdue]_vars

(* FreeMachine frees the machine that was created for the object. *)
FreesOwnMachine ==
    [][pc = "free" /\ pc' = "patch" =>
         \A h \in Hardware : alloc'[h] # alloc[h] => alloc[h] = cur]_vars

(* As long as no call fails and the cache is up to date, each object follows
   the contract of its finalizer: a server is taken only under the finalizer
   and the object goes only when its server is free. *)
Contract(n) == INSTANCE FinalizerContract WITH
    Resources <- Hardware,
    held <- Held(n),
    phase <- IF ~obj[n].exists THEN "removed"
             ELSE IF ~obj[n].finalizer THEN "unguarded"
             ELSE IF obj[n].deleting THEN "terminating" ELSE "guarded"

KeepsContract ==
    /\ \A n \in Nodes : Contract(n)!Init
    /\ [][faults' = 0 => \A n \in Nodes : Contract(n)!Next \/ UNCHANGED Contract(n)!vars]_vars

(* No deletion hangs: neither an unknown provider ID, nor a server that moved
   to another project, nor the grace period of the control plane keeps the
   object; only a server that is allocated in the project again and again can. *)
Reused(n) == obj[n].providerID # None /\ alloc[obj[n].providerID] \notin {None, Stranger, n}

DeletionHangsOnlyWhenReused ==
    \A n \in Nodes : []<>(obj[n].exists /\ obj[n].deleting => Reused(n))

(* A machine whose server is gone from the project for good, be it that it is
   free or that another project has it, is reported as failed. *)
ExternalDeletionNoticed ==
    \A n \in Nodes :
        []<>(n \in prepared /\ ~obj[n].deleting /\ obj[n].finalizer
               /\ obj[n].providerID # None /\ alloc[obj[n].providerID] \in {None, Stranger}
             => obj[n].failure)

-----------------------------------------------------------------------------
(* Why recorded servers are freed, and by whom *)

(* An object is there unless its deletion was requested and its finalizer is
   gone. *)
Presence == \A n \in Nodes : obj[n].exists = (obj[n].deleting => obj[n].finalizer)

(* The cache lags behind the server: deletions and provider IDs it shows are
   real.  Neither shows a ready machine without a provider ID. *)
CacheLags ==
    \A n \in Nodes :
        /\ objC[n].deleting => obj[n].deleting
        /\ objC[n].providerID # None => obj[n].providerID # None
        /\ objC[n].ready => objC[n].providerID # None
        /\ obj[n].ready => obj[n].providerID # None

(* A server that is free has not phoned home, so that nothing is ready at once. *)
PhonedHeld == \A h \in phoned : alloc[h] # None

(* What a running reconciliation knows and may have changed. *)
Removed == before.finalizer /\ ~after.finalizer

Running ==
    /\ pc = "idle" => cur = None /\ before = Blank /\ after = Blank
    /\ pc # "idle" =>
         /\ cur \in Nodes
         /\ before.providerID # None => obj[cur].providerID # None
    /\ pc \notin {"idle", "patch"} => before.finalizer /\ after = before
    /\ pc = "lookup" => before.providerID # None
    /\ pc = "allocate" => before.providerID = None
    /\ pc \in {"find", "free"} => obj[cur].deleting
    /\ pc = "free" => after.providerID \in Hardware
    /\ Removed => obj[cur].deleting /\ (cur \in ControlPlane => cur \in overdue)
    /\ Removed \/ ~before.finalizer => after.providerID = before.providerID
    /\ after.providerID # before.providerID => before.providerID = None
    /\ after.ready => before.providerID # None

(* With an up-to-date cache, the copy a reconciliation started from is what the
   server still has, and no server a machine without finalizer names is its
   own. *)
Fresh ==
    ~StaleReads =>
        /\ pc # "idle" =>
             before.finalizer = obj[cur].finalizer /\ before.providerID = obj[cur].providerID
        /\ Removed /\ after.providerID # None => alloc[after.providerID] # cur
        /\ \A n \in Nodes : ~obj[n].finalizer /\ obj[n].providerID # None => alloc[obj[n].providerID] # n

(* The server a machine knows of: that of the running reconciliation, or else
   the recorded one. *)
Known(n) == IF pc # "idle" /\ cur = n THEN after.providerID ELSE obj[n].providerID

(* If no call failed either, a machine holds no server but the one it knows of. *)
Lossless == ~StaleReads /\ faults = 0 => \A n \in Nodes : Held(n) \subseteq {Known(n)}

(* If nobody else frees servers, a machine in use holds the one it knows of, or
   lost it to a deletion. *)
Owned == ~StaleReads /\ ~Outsiders => \A n \in Nodes : KeepsServer(n, Known(n))

(* The inductive invariant: finalizer, provider ID, local copies and allocations
   agree as far as stale reads, lost answers and others who free servers let
   them. *)
IInv ==
    TypeOK /\ Presence /\ CacheLags /\ PhonedHeld /\ Running /\ Fresh /\ Lossless /\ Owned
=============================================================================
