---------------------------- MODULE WorkQueue_proofs ----------------------------
(***************************************************************************)
(* Proofs about WorkQueue for any number of machines: what leaves a work   *)
(* queue has nothing left to do, or waits for an event that puts it back.  *)
(***************************************************************************)
EXTENDS WorkQueue, TLAPS

-----------------------------------------------------------------------------
(* What writes do to an object *)

(* What the API server stores is an object with the other fields untouched. *)
LEMMA SettledEffect ==
    ASSUME NEW o \in Object
    PROVE  /\ Settled(o) \in Object
           /\ Settled(o).exists = (o.exists /\ (o.deleting => o.finalizer))
           /\ Settled(o).owned = o.owned /\ Settled(o).deleting = o.deleting
           /\ Settled(o).finalizer = o.finalizer /\ Settled(o).done = o.done
           /\ Settled(o).halted = o.halted
BY DEF Settled, Object

(* Two objects are the same when their fields are. *)
LEMMA SameObject ==
    ASSUME NEW o \in Object, NEW p \in Object, o.exists = p.exists, o.owned = p.owned,
           o.finalizer = p.finalizer, o.deleting = p.deleting, o.done = p.done, o.halted = p.halted
    PROVE  o = p
BY DEF Object

(* A delete call sets the deletion timestamp; an object without finalizer is
   gone. *)
LEMMA DeletedEffect ==
    ASSUME NEW o \in Object
    PROVE  /\ Deleted(o) \in Object
           /\ Deleted(o).deleting /\ Deleted(o).owned = o.owned /\ Deleted(o).finalizer = o.finalizer
           /\ Deleted(o).exists = (o.exists /\ o.finalizer)
           /\ o.exists /\ o.deleting /\ o.finalizer => Deleted(o) = o
<1>1. [o EXCEPT !.deleting = TRUE] \in Object
    BY DEF Object
<1>2. /\ Deleted(o) \in Object
      /\ Deleted(o).deleting /\ Deleted(o).owned = o.owned /\ Deleted(o).finalizer = o.finalizer
      /\ Deleted(o).exists = (o.exists /\ o.finalizer)
      /\ Deleted(o).done = o.done /\ Deleted(o).halted = o.halted
    BY <1>1, SettledEffect DEF Deleted, Object
<1> QED
    BY <1>2, SameObject DEF Object

(* The copy a reconciliation patches from: the fields it may not write are
   those of the cache. *)
Copy(o) == {new \in Object : /\ new.exists = objC[o].exists /\ new.owned = objC[o].owned
                             /\ new.deleting = objC[o].deleting}

(* The patch field by field. *)
LEMMA PatchedFields ==
    ASSUME TypeOK, NEW o \in Requests, obj[o].exists, NEW new \in Copy(o)
    PROVE  LET p == Patched(o, new) IN
           /\ p \in Object
           /\ p.owned = obj[o].owned /\ p.deleting = obj[o].deleting
           /\ p.exists = (p.deleting => p.finalizer)
           /\ p.finalizer = Merged(obj[o].finalizer, objC[o].finalizer, new.finalizer)
           /\ p.done = Merged(obj[o].done, objC[o].done, new.done)
           /\ p.halted = Merged(obj[o].halted, objC[o].halted, new.halted)
<1> DEFINE f == Merged(obj[o].finalizer, objC[o].finalizer, new.finalizer)
           d == Merged(obj[o].done, objC[o].done, new.done)
           h == Merged(obj[o].halted, objC[o].halted, new.halted)
           m == [obj[o] EXCEPT !.finalizer = f, !.done = d, !.halted = h]
<1>1. obj[o] \in Object /\ f \in BOOLEAN /\ d \in BOOLEAN /\ h \in BOOLEAN
    BY DEF TypeOK, Copy, Object, Merged
<1>2. Patched(o, new) = Settled(m)
    BY DEF Patched
<1> HIDE DEF f, d, h
<1>3. /\ m \in Object
      /\ m.exists = obj[o].exists /\ m.owned = obj[o].owned /\ m.deleting = obj[o].deleting
      /\ m.finalizer = f /\ m.done = d /\ m.halted = h
    BY <1>1 DEF Object
<1> HIDE DEF m
<1>4. /\ Settled(m) \in Object
      /\ Settled(m).owned = obj[o].owned /\ Settled(m).deleting = obj[o].deleting
      /\ Settled(m).exists = (Settled(m).deleting => Settled(m).finalizer)
      /\ Settled(m).finalizer = f /\ Settled(m).done = d /\ Settled(m).halted = h
    BY <1>3, SettledEffect
<1> QED
    BY <1>2, <1>4 DEF f, d, h

(* A patch that changes nothing leaves the object alone, and one that changes
   something leaves an object the cache has not seen. *)
LEMMA PatchedEffect ==
    ASSUME TypeOK, Presence, NEW o \in Requests, objC[o].exists, NEW new \in Copy(o)
    PROVE  LET p == Patched(o, new) IN
           /\ p \in Object
           /\ p.owned = obj[o].owned /\ p.deleting = obj[o].deleting
           /\ p.exists = (p.deleting => p.finalizer) /\ (p.exists => obj[o].exists)
           /\ new # objC[o] => p # objC[o]
<1> DEFINE p == Patched(o, new)
<1>0. obj[o] \in Object /\ objC[o] \in Object /\ new \in Object
    BY DEF TypeOK, Copy
<1>1. CASE ~obj[o].exists
    <2>1. p = obj[o]
        BY <1>1 DEF Patched
    <2> QED
        BY <1>0, <1>1, <2>1 DEF Presence
<1>2. CASE obj[o].exists
    <2>1. /\ p \in Object
          /\ p.owned = obj[o].owned /\ p.deleting = obj[o].deleting
          /\ p.exists = (p.deleting => p.finalizer)
          /\ p.finalizer = Merged(obj[o].finalizer, objC[o].finalizer, new.finalizer)
          /\ p.done = Merged(obj[o].done, objC[o].done, new.done)
          /\ p.halted = Merged(obj[o].halted, objC[o].halted, new.halted)
        BY <1>2, PatchedFields
    <2> HIDE DEF p
    <2>2. ASSUME new # objC[o] PROVE p # objC[o]
        <3>1. \/ new.finalizer # objC[o].finalizer \/ new.done # objC[o].done
              \/ new.halted # objC[o].halted
            BY <1>0, <2>2, SameObject DEF Copy
        <3> QED
            BY <2>1, <3>1 DEF Merged
    <2> QED
        BY <1>2, <2>1, <2>2 DEF p
<1> QED
    BY <1>1, <1>2

-----------------------------------------------------------------------------
(* Type correctness *)

(* The copies that reconciliations patch from. *)
LEMMA CopyUpdates ==
    ASSUME TypeOK, NEW o \in Requests, NEW new \in Copy(o), NEW b \in BOOLEAN
    PROVE  /\ objC[o] \in Copy(o)
           /\ [new EXCEPT !.halted = b] \in Copy(o) /\ [new EXCEPT !.finalizer = b] \in Copy(o)
           /\ [new EXCEPT !.done = b] \in Copy(o)
BY DEF Copy, TypeOK, Object

(* The copy in which the Paused condition is cleared. *)
LEMMA ResumedCopy ==
    ASSUME TypeOK, NEW o \in Requests
    PROVE  /\ Resumed(o) \in Copy(o) /\ ~Resumed(o).halted
           /\ Resumed(o).finalizer = objC[o].finalizer /\ Resumed(o).done = objC[o].done
<1>1. objC[o] \in Copy(o) /\ objC[o] \in Object
    BY DEF TypeOK, Copy
<1>2. Resumed(o) \in Copy(o)
    BY <1>1, CopyUpdates DEF Resumed
<1> QED
    BY <1>1, <1>2 DEF Resumed, Object

(* What a reconciliation does to its own object and to its request: it ignores
   an object it cannot reach, or patches it and then is queued again, finds the
   Cluster paused, has changed something, or has nothing left to do. *)
Waits ==
    /\ objC["cluster"].finalizer /\ objC["cluster"].deleting
    /\ objC["firewall"].exists /\ (obj'["firewall"].exists => obj'["firewall"].deleting)

Result(o) ==
    \/ obj'[o] = obj[o] /\ (~Reaches(o) \/ o \in queue' \cup swallowed')
    \/ /\ Reaches(o)
       /\ \E new \in Copy(o) :
            /\ obj'[o] = Patched(o, new)
            /\ \/ o \in queue' \cup swallowed'
               \/ pausedC /\ new.halted
               \/ ~pausedC /\ new # objC[o]
               \/ ~pausedC /\ Up(o) /\ (o = "cluster" => objC["firewall"].exists /\ obj'["firewall"].owned)
               \/ ~pausedC /\ o = "cluster" /\ Waits

(* What it does to everything else: the cluster adopts or deletes its firewall
   deployment. *)
Others(o) ==
    /\ UNCHANGED <<objC, paused, pausedC, template, phoned>>
    /\ queue' \subseteq Requests /\ swallowed' \subseteq Requests
    /\ \A p \in Requests \ {o} :
         (p \in queue' <=> p \in queue) /\ (p \in swallowed' <=> p \in swallowed)
    /\ obj' \in [Requests -> Object]
    /\ \A p \in Requests \ {o} :
         \/ obj'[p] = obj[p]
         \/ /\ o = "cluster" /\ p = "firewall" /\ obj[p].exists
            /\ \/ objC[o].owned /\ obj'[p] = [obj[p] EXCEPT !.owned = TRUE]
               \/ obj'[p] = Deleted(obj[p])

(* The end of a reconciliation concerns its own request only. *)
LEMMA FinishEffect ==
    ASSUME TypeOK, NEW o \in Requests, NEW again \in BOOLEAN, Finish(o, again) \/ Swallow(o)
    PROVE  /\ UNCHANGED <<objC, paused, pausedC, template, phoned>>
           /\ queue' \subseteq Requests /\ swallowed' \subseteq Requests
           /\ \A p \in Requests \ {o} :
                (p \in queue' <=> p \in queue) /\ (p \in swallowed' <=> p \in swallowed)
           /\ Finish(o, again) /\ again /\ o \in queue => o \in queue'
           /\ Swallow(o) => o \in swallowed'
BY DEF Finish, Swallow, TypeOK

(* A reconciliation that writes its own object only. *)
LEMMA WriteResult ==
    ASSUME TypeOK, Presence, NEW o \in Requests, o \in queue, Reaches(o),
           NEW new \in Copy(o), Write(o, new),
           NEW again \in BOOLEAN, Finish(o, again) \/ Swallow(o),
           \/ Finish(o, again) => again
           \/ pausedC /\ new.halted
           \/ ~pausedC /\ new # objC[o]
           \/ ~pausedC /\ Up(o) /\ o # "cluster"
    PROVE  Result(o) /\ Others(o)
<1>1. Patched(o, new) \in Object
    BY PatchedEffect DEF Reaches
<1>2. obj' = [obj EXCEPT ![o] = Patched(o, new)] /\ obj \in [Requests -> Object]
    BY DEF Write, TypeOK
<1>3. Others(o)
    BY <1>1, <1>2, FinishEffect DEF Others
<1>4. obj'[o] = Patched(o, new)
    BY <1>2
<1>5. (Finish(o, again) => again) => o \in queue' \cup swallowed'
    BY FinishEffect
<1> QED
    BY <1>3, <1>4, <1>5 DEF Result

(* An object that cannot be reached, one that is found paused, one without
   finalizer, and failures. *)
LEMMA CommonResult ==
    ASSUME TypeOK, Presence, NEW o \in Requests, o \in queue,
           Ignore(o) \/ Halt(o) \/ AddFinalizer(o) \/ Fail(o) \/ GetFails(o)
    PROVE  Result(o) /\ Others(o)
<1> USE DEF Requests
<1>0. objC[o] \in Copy(o) /\ Resumed(o) \in Copy(o) /\ objC[o] \in Object
    BY CopyUpdates, ResumedCopy DEF TypeOK
<1>1. CASE Ignore(o)
    <2>1. PICK again \in BOOLEAN : Finish(o, again)
        BY <1>1 DEF Ignore
    <2>2. obj' = obj /\ ~Reaches(o)
        BY <1>1 DEF Ignore
    <2> QED
        BY <2>1, <2>2, FinishEffect DEF Result, Others, TypeOK
<1>2. CASE Halt(o)
    <2>1. [objC[o] EXCEPT !.halted = TRUE] \in Copy(o) /\ [objC[o] EXCEPT !.halted = TRUE].halted
        BY <1>0, CopyUpdates DEF Object
    <2> QED
        BY <1>2, <2>1, WriteResult DEF Halt
<1>3. CASE AddFinalizer(o)
    <2>1. [Resumed(o) EXCEPT !.finalizer = TRUE] \in Copy(o)
        BY <1>0, CopyUpdates
    <2>2. [Resumed(o) EXCEPT !.finalizer = TRUE] # objC[o]
        BY <1>0, <1>3 DEF AddFinalizer, Copy, Object
    <2> QED
        BY <1>3, <2>1, <2>2, WriteResult DEF AddFinalizer, Running
<1>4. CASE Fail(o)
    BY <1>0, <1>4, WriteResult DEF Fail, Running
<1>5. CASE GetFails(o)
    BY <1>5, FinishEffect DEF GetFails, Result, Others, TypeOK
<1> QED
    BY <1>1, <1>2, <1>3, <1>4, <1>5

(* A machine leaves the queue when it is up or its finalizer goes. *)
LEMMA MachineResult ==
    ASSUME TypeOK, Presence, NEW n \in Nodes, n \in queue, EnsureMachine(n) \/ DeleteMachine(n)
    PROVE  Result(n) /\ Others(n)
<1>0. n \in Requests /\ n # "cluster" /\ Resumed(n) \in Copy(n) /\ objC[n] \in Object
    BY ResumedCopy, QueueAssumption DEF TypeOK, Requests
<1>1. CASE EnsureMachine(n)
    <2> DEFINE up == objC["cluster"].done /\ n \in phoned
               new == [Resumed(n) EXCEPT !.done = Resumed(n).done \/ up]
    <2>1. /\ Wanted(n) /\ Write(n, new) /\ Finish(n, ~up)
        BY <1>1 DEF EnsureMachine
    <2>2. (Resumed(n).done \/ up) \in BOOLEAN /\ (~up) \in BOOLEAN /\ up \in BOOLEAN
        OBVIOUS
    <2> HIDE DEF up
    <2>3. new \in Copy(n) /\ ~new.halted /\ (up => new.done)
        BY <1>0, <2>2, CopyUpdates, ResumedCopy DEF Copy, Object
    <2>4. up /\ new = objC[n] => Up(n)
        BY <2>1, <2>3 DEF Up, Wanted
    <2> HIDE DEF new
    <2> QED
        BY <1>0, <2>1, <2>2, <2>3, <2>4, WriteResult DEF Wanted, Running
<1>2. CASE DeleteMachine(n)
    <2>1. PICK wait \in BOOLEAN : Write(n, [Resumed(n) EXCEPT !.finalizer = wait]) /\ Finish(n, wait)
        BY <1>2 DEF DeleteMachine
    <2>2. Condemned(n)
        BY <1>2 DEF DeleteMachine
    <2>3. [Resumed(n) EXCEPT !.finalizer = wait] \in Copy(n)
        BY <1>0, CopyUpdates
    <2>4. ~wait => [Resumed(n) EXCEPT !.finalizer = wait] # objC[n]
        BY <1>0, <2>2 DEF Condemned, Copy, Object
    <2> QED
        BY <1>0, <2>1, <2>2, <2>3, <2>4, WriteResult DEF Condemned, Running
<1> QED
    BY <1>1, <1>2

(* A firewall deployment leaves the queue when it is up or its finalizer goes. *)
LEMMA FirewallResult ==
    ASSUME TypeOK, Presence, "firewall" \in queue, EnsureFirewall \/ DeleteFirewall
    PROVE  Result("firewall") /\ Others("firewall")
<1>0. /\ "firewall" \in Requests /\ "cluster" \in Requests /\ Resumed("firewall") \in Copy("firewall")
      /\ objC["firewall"] \in Object /\ objC["cluster"] \in Object
    BY ResumedCopy DEF TypeOK, Requests
<1>1. CASE EnsureFirewall
    <2> DEFINE new == [Resumed("firewall") EXCEPT
                         !.done = Resumed("firewall").done \/ objC["cluster"].done]
    <2>1. Wanted("firewall") /\ Write("firewall", new) /\ Finish("firewall", ~objC["cluster"].done)
        BY <1>1 DEF EnsureFirewall
    <2>2. (Resumed("firewall").done \/ objC["cluster"].done) \in BOOLEAN /\ (~objC["cluster"].done) \in BOOLEAN
        BY <1>0 DEF Copy, Object
    <2>3. new \in Copy("firewall") /\ ~new.halted /\ (objC["cluster"].done => new.done)
        BY <1>0, <2>2, CopyUpdates, ResumedCopy DEF Copy, Object
    <2>4. objC["cluster"].done /\ new = objC["firewall"] => Up("firewall")
        BY <2>1, <2>3 DEF Up, Wanted
    <2> HIDE DEF new
    <2> QED
        BY <1>0, <2>1, <2>2, <2>3, <2>4, WriteResult DEF Wanted, Running
<1>2. CASE DeleteFirewall
    <2> DEFINE ready == Listed = {} /\ objC["cluster"].done
               new == [Resumed("firewall") EXCEPT !.finalizer = ~ready]
    <2>1. Condemned("firewall") /\ Write("firewall", new) /\ Finish("firewall", ~ready)
        BY <1>2 DEF DeleteFirewall
    <2>2. (~ready) \in BOOLEAN
        OBVIOUS
    <2>3. new \in Copy("firewall")
        BY <1>0, <2>2, CopyUpdates
    <2>4. ready => new # objC["firewall"]
        BY <1>0, <2>1 DEF Condemned, Copy, Object
    <2> HIDE DEF new, ready
    <2> QED
        BY <1>0, <2>1, <2>2, <2>3, <2>4, WriteResult DEF Condemned, Running
<1> QED
    BY <1>1, <1>2

(* The cluster leaves the queue when it is up and has adopted its firewall
   deployment, when it waits for the deployment to go, or when its finalizer
   goes. *)
LEMMA ClusterResult ==
    ASSUME TypeOK, Presence, CacheLags, "cluster" \in queue, EnsureCluster \/ DeleteCluster \/ DeleteCallFails
    PROVE  Result("cluster") /\ Others("cluster")
<1> DEFINE C == "cluster"
           F == "firewall"
<1>0. /\ C \in Requests /\ F \in Requests /\ Resumed(C) \in Copy(C) /\ ~Resumed(C).halted
      /\ Resumed(C).finalizer = objC[C].finalizer /\ Resumed(C) \in Object
      /\ objC[C] \in Object /\ obj[F] \in Object /\ obj \in [Requests -> Object]
    BY ResumedCopy DEF TypeOK, Requests, Copy
<1>1. Running(C) /\ Reaches(C) /\ objC[C].exists /\ objC[C].owned
    BY DEF EnsureCluster, DeleteCluster, DeleteCallFails, Wanted, Condemned, Running, Reaches
<1>2. CASE EnsureCluster
    <2> DEFINE adopts == objC[F].exists /\ (objC[F].owned \/ obj[F] = objC[F])
               new == [Resumed(C) EXCEPT !.done = Resumed(C).done \/ adopts]
               fwd == [obj[F] EXCEPT !.owned = obj[F].owned \/ adopts]
    <2>1. /\ Wanted(C) /\ Finish(C, ~adopts)
          /\ obj' = [obj EXCEPT ![C] = Patched(C, new), ![F] = fwd]
        BY <1>0, <1>2 DEF EnsureCluster
    <2>2. adopts \in BOOLEAN /\ (~adopts) \in BOOLEAN /\ (adopts => objC[F].exists)
        BY <1>0 DEF Object
    <2>3. adopts => obj[F].exists \/ obj[F].owned
        BY <1>0 DEF CacheLags
    <2> HIDE DEF adopts
    <2>4. (Resumed(C).done \/ adopts) \in BOOLEAN /\ (obj[F].owned \/ adopts) \in BOOLEAN
        BY <1>0, <2>2 DEF Object
    <2>5. new \in Copy(C) /\ ~new.halted /\ (adopts => new.done) /\ new.finalizer = objC[C].finalizer
        BY <1>0, <2>4, CopyUpdates DEF Object
    <2>6. adopts /\ new = objC[C] => Up(C)
        BY <2>1, <2>5 DEF Up, Wanted
    <2>7. Patched(C, new) \in Object
        BY <1>0, <1>1, <2>5, PatchedEffect
    <2>8. fwd \in Object /\ (adopts => fwd.owned)
        BY <1>0, <2>4 DEF Object
    <2>9. fwd = obj[F] \/ (obj[F].exists /\ fwd = [obj[F] EXCEPT !.owned = TRUE])
        BY <1>0, <2>2, <2>3 DEF Object
    <2> HIDE DEF new, fwd
    <2>10. obj'[C] = Patched(C, new) /\ obj'[F] = fwd /\ obj' \in [Requests -> Object]
           /\ \A p \in Requests \ {C, F} : obj'[p] = obj[p]
        BY <1>0, <2>1, <2>7, <2>8
    <2>11. Others(C)
        BY <1>0, <1>1, <2>1, <2>2, <2>9, <2>10, FinishEffect DEF Others
    <2>12. ~adopts => C \in queue'
        BY <1>0, <2>1, <2>2, FinishEffect
    <2> QED
        BY <1>1, <2>1, <2>2, <2>5, <2>6, <2>8, <2>10, <2>11, <2>12 DEF Result, Running, Wanted
<1>4. CASE DeleteCluster /\ Listed # {}
    BY <1>0, <1>1, <1>4, WriteResult DEF DeleteCluster
<1>5. CASE DeleteCluster /\ Listed = {} /\ objC[F].exists
    <2> DEFINE fwd == IF obj[F].exists THEN Deleted(obj[F]) ELSE obj[F]
    <2>1. /\ Condemned(C) /\ Finish(C, FALSE)
          /\ obj' = [obj EXCEPT ![C] = Patched(C, Resumed(C)), ![F] = fwd]
        BY <1>5 DEF DeleteCluster
    <2>2. Patched(C, Resumed(C)) \in Object
        BY <1>0, <1>1, PatchedEffect
    <2>3. fwd \in Object /\ (fwd.exists => fwd.deleting)
        BY <1>0, DeletedEffect
    <2> HIDE DEF fwd
    <2>4. obj'[C] = Patched(C, Resumed(C)) /\ obj'[F] = fwd /\ obj' \in [Requests -> Object]
          /\ \A p \in Requests \ {C, F} : obj'[p] = obj[p]
        BY <1>0, <2>1, <2>2, <2>3
    <2>5. Others(C)
        BY <1>0, <1>1, <2>1, <2>4, FinishEffect DEF Others, fwd
    <2>6. Waits
        BY <1>5, <2>1, <2>3, <2>4 DEF Waits, Condemned
    <2> QED
        BY <1>0, <1>1, <2>4, <2>5, <2>6 DEF Result, Running
<1>6. CASE DeleteCluster /\ Listed = {} /\ ~objC[F].exists
    <2>1. /\ Condemned(C) /\ Finish(C, FALSE) /\ Write(C, [Resumed(C) EXCEPT !.finalizer = FALSE])
        BY <1>6 DEF DeleteCluster
    <2>2. [Resumed(C) EXCEPT !.finalizer = FALSE] \in Copy(C)
        BY <1>0, CopyUpdates
    <2>3. [Resumed(C) EXCEPT !.finalizer = FALSE] # objC[C]
        BY <1>0, <2>1 DEF Condemned, Copy, Object
    <2> QED
        BY <1>0, <1>1, <2>1, <2>2, <2>3, WriteResult DEF Running
<1>7. CASE DeleteCallFails
    <2>1. Write(C, Resumed(C)) /\ Swallow(C)
        BY <1>7 DEF DeleteCallFails
    <2>2. Finish(C, TRUE) \/ Swallow(C)
        BY <2>1
    <2> HIDE DEF C, F
    <2> QED
        BY <1>0, <1>1, <2>1, <2>2, WriteResult DEF C
<1> QED
    BY <1>2, <1>4, <1>5, <1>6, <1>7

(* All reconciliations. *)
LEMMA ReconcileResult ==
    ASSUME TypeOK, Presence, CacheLags, NEW o \in Requests, Reconcile(o) \/ ReconcileFails(o)
    PROVE  Result(o) /\ Others(o)
BY CommonResult, MachineResult, FirewallResult, ClusterResult DEF Reconcile, ReconcileFails

-----------------------------------------------------------------------------
(* The inductive invariant *)

(* Initially every request is queued. *)
LEMMA InitIInv == Init => IInv
<1> SUFFICES ASSUME Init PROVE IInv
    OBVIOUS
<1>1. TypeOK
    BY DEF Init, TypeOK, Blank, Object
<1>2. Presence /\ CacheLags /\ Adopted /\ Retried
    BY DEF Init, Presence, CacheLags, Adopted, Retried, Blank, Requests
<1>3. \A o \in Requests : ~Quiet(o)
    BY DEF Init, Quiet
<1> QED
    BY <1>1, <1>2, <1>3 DEF IInv, MachinesSettled, FirewallSettled, ClusterSettled, Requests

(* Nothing a reconciliation writes goes back on a deletion or an owner. *)
LEMMA WritesGrow ==
    ASSUME IInv, NEW o \in Requests, Result(o), Others(o), NEW p \in Requests
    PROVE  /\ obj'[p].exists => obj[p].exists
           /\ obj[p].owned => obj'[p].owned
           /\ obj'[p].owned => obj[p].owned \/ (p = "firewall" /\ objC["cluster"].owned)
           /\ obj[p].deleting => obj'[p].deleting
           /\ obj'[p].exists = (obj'[p].deleting => obj'[p].finalizer)
<1>1. obj[p] \in Object /\ obj[p].exists = (obj[p].deleting => obj[p].finalizer) /\ TypeOK /\ Presence
    BY DEF IInv, TypeOK, Presence
<1>2. CASE obj'[p] = obj[p]
    BY <1>1, <1>2
<1>3. CASE p = o /\ obj'[p] # obj[p]
    <2>1. PICK new \in Copy(o) : obj'[o] = Patched(o, new)
        BY <1>3 DEF Result
    <2>2. objC[o].exists
        BY <1>3 DEF Result, Reaches
    <2> QED
        BY <1>1, <1>3, <2>1, <2>2, PatchedEffect
<1>4. CASE p # o /\ obj'[p] # obj[p]
    <2>1. /\ p = "firewall" /\ o = "cluster" /\ obj[p].exists
          /\ \/ objC[o].owned /\ obj'[p] = [obj[p] EXCEPT !.owned = TRUE]
             \/ obj'[p] = Deleted(obj[p])
        BY <1>4 DEF Others
    <2>2. CASE objC[o].owned /\ obj'[p] = [obj[p] EXCEPT !.owned = TRUE]
        BY <1>1, <2>1, <2>2 DEF Object
    <2>3. CASE obj'[p] = Deleted(obj[p])
        BY <1>1, <2>1, <2>3, DeletedEffect
    <2> QED
        BY <2>1, <2>2, <2>3
<1> QED
    BY <1>2, <1>3, <1>4

(* An object that another reconciliation changes is one the cache has not
   seen. *)
LEMMA OthersSeen ==
    ASSUME IInv, NEW o \in Requests, Others(o), NEW p \in Requests \ {o}
    PROVE  obj'[p] = obj[p] \/ obj'[p] # objC[p]
<1>1. /\ obj[p] \in Object /\ objC[p] \in Object
      /\ obj[p].exists = (obj[p].deleting => obj[p].finalizer)
      /\ objC[p].owned => obj[p].owned
      /\ objC[p].deleting => obj[p].deleting
    BY DEF IInv, TypeOK, Presence, CacheLags
<1>2. CASE obj[p].exists /\ obj'[p] = [obj[p] EXCEPT !.owned = TRUE]
    <2>1. obj'[p] \in Object /\ obj'[p].owned
        BY <1>1, <1>2 DEF Object
    <2>2. obj[p].owned => obj'[p] = obj[p]
        BY <1>1, <1>2 DEF Object
    <2> QED
        BY <1>1, <2>1, <2>2
<1>3. CASE obj[p].exists /\ obj'[p] = Deleted(obj[p])
    <2>1. obj'[p].deleting
        BY <1>1, <1>3, DeletedEffect
    <2>2. CASE obj[p].deleting
        <3>1. obj[p].finalizer
            BY <1>1, <1>3, <2>2
        <3> QED
            BY <1>1, <1>3, <2>2, <3>1, DeletedEffect
    <2>3. CASE ~obj[p].deleting
        BY <1>1, <2>1, <2>3
    <2> QED
        BY <2>2, <2>3
<1> QED
    BY <1>2, <1>3 DEF Others

(* What a reconciliation that leaves its request alone, although the cache is
   up to date, has found. *)
LEMMA OwnSettled ==
    ASSUME IInv, NEW o \in Requests, Result(o), Others(o), Quiet(o)', Reaches(o)
    PROVE  \/ pausedC /\ objC[o].halted
           \/ ~pausedC /\ Up(o) /\ (o = "cluster" => objC["firewall"].exists /\ obj'["firewall"].owned)
           \/ ~pausedC /\ o = "cluster" /\ Waits
<1>1. objC[o] = obj'[o] /\ o \notin queue' \cup swallowed' /\ objC[o].exists
    BY DEF Quiet, Others, Reaches
<1>2. PICK new \in Copy(o) :
         /\ obj'[o] = Patched(o, new)
         /\ \/ pausedC /\ new.halted
            \/ ~pausedC /\ new # objC[o]
            \/ ~pausedC /\ Up(o) /\ (o = "cluster" => objC["firewall"].exists /\ obj'["firewall"].owned)
            \/ ~pausedC /\ o = "cluster" /\ Waits
    BY <1>1 DEF Result
<1>3. new = objC[o]
    BY <1>1, <1>2, PatchedEffect DEF IInv
<1> QED
    BY <1>2, <1>3

(* A reconciliation keeps the invariant. *)
LEMMA ReconcileStep ==
    ASSUME IInv, Retried', NEW o \in Requests, Reconcile(o) \/ ReconcileFails(o)
    PROVE  IInv'
<1> USE DEF Requests
<1>0. Result(o) /\ Others(o)
    BY ReconcileResult DEF IInv
<1>1. /\ UNCHANGED <<objC, pausedC, template>>
      /\ \A p \in Requests \ {o} : Quiet(p)' => Quiet(p)
    BY <1>0, OthersSeen DEF Others, Quiet
<1>2. TypeOK'
    BY <1>0 DEF Others, IInv, TypeOK
<1>3. Presence' /\ CacheLags' /\ Adopted'
    BY <1>0, <1>1, WritesGrow DEF IInv, Presence, CacheLags, Adopted
<1>4. \A p \in Requests : /\ Reaches(p)' = Reaches(p) /\ Running(p)' = Running(p) /\ Up(p)' = Up(p)
    BY <1>1 DEF Reaches, Running, Up
<1>5. MachinesSettled'
    <2> SUFFICES ASSUME NEW n \in Nodes, Quiet(n)', Running(n) PROVE Up(n)
        BY <1>4 DEF MachinesSettled
    <2>1. n # "cluster"
        BY QueueAssumption
    <2>2. CASE n = o
        BY <1>0, <2>1, <2>2, OwnSettled DEF Running
    <2>3. CASE n # o
        BY <1>1, <2>3 DEF IInv, MachinesSettled
    <2> QED
        BY <2>2, <2>3
<1>6. FirewallSettled'
    <2> SUFFICES ASSUME Quiet("firewall")', Reaches("firewall")
                 PROVE  objC["firewall"].halted \/ Up("firewall")
        BY <1>1, <1>4 DEF FirewallSettled
    <2>1. CASE o = "firewall"
        BY <1>0, <2>1, OwnSettled
    <2>2. CASE o # "firewall"
        BY <1>1, <2>2 DEF IInv, FirewallSettled
    <2> QED
        BY <2>1, <2>2
<1>7. ClusterSettled'
    <2> SUFFICES ASSUME Quiet("cluster")', Reaches("cluster")
                 PROVE  \/ objC["cluster"].halted
                        \/ Up("cluster") /\ (objC["firewall"].exists => obj'["firewall"].owned)
                        \/ objC["cluster"].finalizer /\ objC["cluster"].deleting /\ Awaited'
        BY <1>1, <1>4 DEF ClusterSettled
    <2>1. CASE o = "cluster"
        BY <1>0, <1>1, <2>1, OwnSettled DEF Waits, Awaited
    <2>2. CASE o # "cluster"
        <3>1. /\ obj'["firewall"].exists => obj["firewall"].exists
              /\ obj["firewall"].owned => obj'["firewall"].owned
              /\ obj["firewall"].deleting => obj'["firewall"].deleting
            BY <1>0, WritesGrow
        <3> QED
            BY <1>1, <2>2, <3>1 DEF IInv, ClusterSettled, Awaited
    <2> QED
        BY <2>1, <2>2
<1> QED
    BY <1>2, <1>3, <1>5, <1>6, <1>7 DEF IInv

(* The cache learns of a change of an object. *)
LEMMA DeliverStep ==
    ASSUME IInv, Retried', NEW o \in Requests, Deliver(o)
    PROVE  IInv'
<1> USE DEF Requests
<1>1. /\ objC' = [objC EXCEPT ![o] = obj[o]] /\ queue' = queue \cup Woken(o)
      /\ UNCHANGED <<obj, paused, pausedC, template, phoned, swallowed>>
      /\ objC \in [Requests -> Object] /\ obj \in [Requests -> Object]
    BY DEF Deliver, IInv, TypeOK
<1>2. o \in queue' /\ queue \subseteq queue' /\ queue' \subseteq Requests
    BY <1>1 DEF Woken, IInv, TypeOK, Listed, metalStackClusterToMetalStackMachine,
       metalStackFirewallToMetalStackCluster, metalStackMachineToMetalStackCluster
<1>3. TypeOK'
    BY <1>1, <1>2 DEF IInv, TypeOK
<1>4. objC'[o] = obj[o] /\ \A p \in Requests \ {o} : objC'[p] = objC[p]
    BY <1>1
<1>5. Presence' /\ CacheLags' /\ Adopted'
    BY <1>1, <1>4 DEF IInv, Presence, CacheLags, Adopted
<1>6. \A p \in Requests : Quiet(p)' => p # o /\ Quiet(p) /\ Up(p)' = Up(p)
    BY <1>1, <1>2, <1>4 DEF Quiet, Up
<1>7. \A p \in Requests : /\ objC'[p].exists => objC[p].exists
                          /\ objC[p].owned => objC'[p].owned
    BY <1>1, <1>4 DEF IInv, CacheLags
<1>8. MachinesSettled'
    <2> SUFFICES ASSUME NEW n \in Nodes, Quiet(n)', Running(n)' PROVE Up(n)'
        BY DEF MachinesSettled
    <2>1. n # "cluster" /\ n # "firewall" /\ n # o
        BY <1>6, QueueAssumption
    <2>2. Running(n)
        BY <1>1, <1>4, <1>7, <2>1 DEF Running, Reaches
    <2> QED
        BY <1>6, <2>2 DEF IInv, MachinesSettled
<1>9. FirewallSettled'
    <2> SUFFICES ASSUME Quiet("firewall")', Reaches("firewall")'
                 PROVE  objC'["firewall"].halted \/ Up("firewall")'
        BY DEF FirewallSettled
    <2>1. o # "firewall" /\ objC'["firewall"] = objC["firewall"]
        BY <1>4, <1>6
    <2>2. objC["cluster"].owned
        BY <2>1 DEF Reaches, IInv, CacheLags, Adopted
    <2>3. Reaches("firewall")
        BY <1>1, <1>7, <2>1, <2>2 DEF Reaches
    <2> QED
        BY <1>6, <2>1, <2>3 DEF IInv, FirewallSettled
<1>10. ClusterSettled'
    <2> SUFFICES ASSUME Quiet("cluster")', Reaches("cluster")'
                 PROVE  \/ objC'["cluster"].halted
                        \/ Up("cluster")' /\ (objC'["firewall"].exists => obj["firewall"].owned)
                        \/ objC'["cluster"].finalizer /\ objC'["cluster"].deleting /\ Awaited'
        BY <1>1 DEF ClusterSettled
    <2>1. o # "cluster" /\ objC'["cluster"] = objC["cluster"] /\ Reaches("cluster")
        BY <1>4, <1>6 DEF Reaches
    <2>2. \/ objC["cluster"].halted
          \/ Up("cluster") /\ (objC["firewall"].exists => obj["firewall"].owned)
          \/ objC["cluster"].finalizer /\ objC["cluster"].deleting /\ Awaited
        BY <1>6, <2>1 DEF IInv, ClusterSettled
    <2>3. CASE o # "firewall"
        BY <1>1, <1>4, <1>6, <2>1, <2>2, <2>3 DEF Awaited
    <2>4. CASE o = "firewall"
        <3>1. ~obj["firewall"].owned
            <4>1. Woken("firewall") = {"firewall"} \cup metalStackFirewallToMetalStackCluster
                BY DEF Woken
            <4>2. "cluster" \notin Woken("firewall")
                BY <1>1, <2>4 DEF Quiet
            <4> QED
                BY <2>1, <4>1, <4>2 DEF metalStackFirewallToMetalStackCluster, Reaches
        <3>2. objC'["firewall"] = obj["firewall"] /\ (obj["firewall"].exists => objC["firewall"].exists)
            BY <1>4, <2>4 DEF IInv, CacheLags
        <3> QED
            BY <1>1, <1>6, <2>1, <2>2, <3>1, <3>2 DEF Awaited
    <2> QED
        BY <2>3, <2>4
<1> QED
    BY <1>3, <1>5, <1>8, <1>9, <1>10 DEF IInv

(* Other events: they only add to the queue, and what they make possible they
   put there. *)
LEMMA WakeStep ==
    ASSUME IInv, Retried', DeliverCluster \/ DeliverTemplate \/ \E n \in Nodes : DeliverMachine(n)
    PROVE  IInv'
<1> USE DEF Requests
<1>1. UNCHANGED <<obj, objC, paused, phoned, swallowed>> /\ queue \subseteq queue'
    BY DEF DeliverCluster, DeliverTemplate, DeliverMachine
<1>2. TypeOK'
    BY <1>1 DEF DeliverCluster, DeliverTemplate, DeliverMachine, Listed, IInv, TypeOK
<1>3. Presence' /\ CacheLags' /\ Adopted'
    BY <1>1 DEF IInv, Presence, CacheLags, Adopted
<1>4. \A p \in Requests : (Quiet(p)' => Quiet(p)) /\ Up(p)' = Up(p)
    BY <1>1 DEF Quiet, Up
<1>5. MachinesSettled'
    <2> SUFFICES ASSUME NEW n \in Nodes, Quiet(n)', Running(n)' PROVE Up(n)
        BY <1>4 DEF MachinesSettled
    <2>1. n # "firewall"
        BY QueueAssumption
    <2>2. CASE Running(n)
        BY <1>4, <2>2 DEF IInv, MachinesSettled
    <2>3. CASE ~Running(n)
        <3>1. pausedC /\ ~pausedC' /\ objC[n].exists
            BY <1>1, <2>1, <2>3 DEF Running, Reaches
        <3>2. n \in queue'
            BY <3>1 DEF DeliverCluster, DeliverTemplate, DeliverMachine, Listed
        <3> QED
            BY <3>2 DEF Quiet
    <2> QED
        BY <2>2, <2>3
<1>6. FirewallSettled'
    <2> SUFFICES ASSUME Quiet("firewall")', Reaches("firewall")'
                 PROVE  objC["firewall"].halted \/ Up("firewall")
        BY <1>1, <1>4 DEF FirewallSettled
    <2>1. CASE Reaches("firewall")
        BY <1>4, <2>1 DEF IInv, FirewallSettled
    <2>2. CASE ~Reaches("firewall")
        <3>1. ~template /\ template' /\ objC["firewall"].exists
            BY <1>1, <2>2 DEF Reaches, IInv, TypeOK
        <3>2. "firewall" \in queue'
            BY <3>1 DEF DeliverCluster, DeliverTemplate, DeliverMachine
        <3> QED
            BY <3>2 DEF Quiet
    <2> QED
        BY <2>1, <2>2
<1>7. ClusterSettled'
    BY <1>1, <1>4 DEF IInv, ClusterSettled, Reaches, Awaited
<1> QED
    BY <1>2, <1>3, <1>5, <1>6, <1>7 DEF IInv

(* After a restart every object is queued. *)
LEMMA RestartStep ==
    ASSUME IInv, Retried', Restart
    PROVE  IInv'
<1> USE DEF Requests
<1>1. /\ objC' = obj /\ pausedC' = paused /\ queue' = {o \in Requests : obj[o].exists} /\ swallowed' = {}
      /\ UNCHANGED <<obj, paused, template, phoned>>
    BY DEF Restart
<1>2. TypeOK'
    BY <1>1 DEF IInv, TypeOK
<1>3. Presence' /\ CacheLags' /\ Adopted'
    BY <1>1 DEF IInv, Presence, CacheLags, Adopted
<1>4. \A o \in Requests : Quiet(o)' => ~Reaches(o)'
    BY <1>1 DEF Quiet, Reaches
<1> QED
    BY <1>2, <1>3, <1>4 DEF IInv, MachinesSettled, FirewallSettled, ClusterSettled, Running

(* What others do to objects, the cache has not seen yet. *)
LEMMA EnvironmentStep ==
    ASSUME IInv, Retried', Environment
    PROVE  IInv'
<1> USE DEF Requests
<1>1. UNCHANGED internal
    BY DEF Environment, Pause, Adopt, RequestDelete, PhoneHome
<1>2. CASE obj' = obj
    <2>1. TypeOK'
        BY <1>1, <1>2 DEF Environment, Pause, Adopt, RequestDelete, PhoneHome, IInv, TypeOK, internal
    <2> QED
        BY <1>1, <1>2, <2>1 DEF internal, IInv, Presence, CacheLags, Adopted, MachinesSettled, FirewallSettled,
           ClusterSettled, Quiet, Running, Reaches, Up, Awaited
<1>3. ASSUME NEW o \in Requests, Adopt(o) \/ RequestDelete(o) PROVE IInv'
    <2>1. PICK new \in Object :
             /\ obj' = [obj EXCEPT ![o] = new]
             /\ new.exists = (new.deleting => new.finalizer) /\ (new.exists => obj[o].exists)
             /\ obj[o].owned => new.owned
             /\ new.owned => obj[o].owned \/ o # "firewall"
             /\ obj[o].deleting => new.deleting
             /\ new # objC[o]
        <3>1. obj[o] \in Object /\ objC[o] \in Object
              /\ obj[o].exists = (obj[o].deleting => obj[o].finalizer)
              /\ (objC[o].owned => obj[o].owned) /\ (objC[o].deleting => obj[o].deleting)
            BY DEF IInv, TypeOK, Presence, CacheLags
        <3>2. CASE Adopt(o)
            <4> DEFINE new == [obj[o] EXCEPT !.owned = TRUE]
            <4>1. /\ new \in Object /\ new.owned /\ new.exists = obj[o].exists
                  /\ new.deleting = obj[o].deleting /\ new.finalizer = obj[o].finalizer
                BY <3>1 DEF Object
            <4>2. o # "firewall" /\ ~obj[o].owned /\ obj' = [obj EXCEPT ![o] = new]
                BY <3>2 DEF Adopt, IInv, TypeOK
            <4> HIDE DEF new
            <4> QED
                BY <3>1, <4>1, <4>2
        <3>3. CASE RequestDelete(o)
            <4> DEFINE new == Deleted(obj[o])
            <4>1. obj[o].exists /\ ~obj[o].deleting /\ obj' = [obj EXCEPT ![o] = new]
                BY <3>3 DEF RequestDelete
            <4>2. /\ new \in Object /\ new.deleting /\ new.owned = obj[o].owned
                  /\ new.exists = new.finalizer
                BY <3>1, <4>1, DeletedEffect DEF Object
            <4> HIDE DEF new
            <4>3. new # objC[o]
                BY <3>1, <4>1, <4>2
            <4>4. new.exists \in BOOLEAN /\ new.finalizer \in BOOLEAN /\ new.deleting
                BY <4>2 DEF Object
            <4>5. new.exists = (new.deleting => new.finalizer)
                BY <4>2, <4>4
            <4> QED
                BY <3>1, <4>1, <4>2, <4>3, <4>5
        <3> QED
            BY <1>3, <3>2, <3>3
    <2>2. /\ obj'[o] = new /\ \A p \in Requests \ {o} : obj'[p] = obj[p]
          /\ obj' \in [Requests -> Object] /\ objC' = objC
        BY <1>1, <2>1 DEF IInv, TypeOK, internal
    <2>3. TypeOK'
        BY <1>1, <1>3, <2>2 DEF Adopt, RequestDelete, IInv, TypeOK, internal
    <2>4. Presence' /\ CacheLags' /\ Adopted'
        BY <1>1, <2>1, <2>2 DEF internal, IInv, Presence, CacheLags, Adopted
    <2>5. \A p \in Requests : /\ Quiet(p)' => p # o /\ Quiet(p)
                              /\ Running(p)' = Running(p) /\ Reaches(p)' = Reaches(p) /\ Up(p)' = Up(p)
        BY <1>1, <2>1, <2>2 DEF internal, Quiet, Running, Reaches, Up
    <2>6. /\ obj'["firewall"].exists => obj["firewall"].exists
          /\ obj["firewall"].owned => obj'["firewall"].owned
          /\ obj["firewall"].deleting => obj'["firewall"].deleting
        BY <2>1, <2>2
    <2> QED
        BY <2>2, <2>3, <2>4, <2>5, <2>6 DEF IInv, MachinesSettled, FirewallSettled, ClusterSettled, Awaited
<1> QED
    BY <1>2, <1>3 DEF Environment, Pause, PhoneHome

(* No error of the firewall controller is dropped. *)
LEMMA RetriedStep == Retried /\ [Next]_vars => Retried'
<1> SUFFICES ASSUME Retried, [Next]_vars PROVE Retried'
    OBVIOUS
<1>1. "firewall" \notin Nodes
    BY QueueAssumption
<1>2. CASE swallowed' \subseteq swallowed
    BY <1>2 DEF Retried
<1>3. ASSUME NEW n \in Nodes, GetFails(n) PROVE Retried'
    BY <1>1, <1>3 DEF GetFails, Swallow, Retried
<1>4. CASE DeleteCallFails
    BY <1>4 DEF DeleteCallFails, Swallow, Retried
<1>5. ASSUME NEW o \in Requests, NEW again \in BOOLEAN, Finish(o, again) PROVE Retried'
    BY <1>2, <1>5 DEF Finish
<1>6. ASSUME NEW o \in Requests, Reconcile(o) PROVE Retried'
    BY <1>5, <1>6 DEF Reconcile, Ignore, Halt, AddFinalizer, EnsureCluster, DeleteCluster, EnsureFirewall,
       DeleteFirewall, EnsureMachine, DeleteMachine, Finish, Retried
<1>7. ASSUME NEW o \in Requests, ReconcileFails(o) PROVE Retried'
    BY <1>2, <1>3, <1>4, <1>7 DEF ReconcileFails, Fail, Finish
<1>8. CASE Watch \/ (\E n \in Nodes : DeliverMachine(n)) \/ Restart \/ Environment \/ UNCHANGED vars
    BY <1>2, <1>8 DEF Watch, Deliver, DeliverCluster, DeliverTemplate, DeliverMachine, Restart, Environment,
       Pause, Adopt, RequestDelete, PhoneHome, internal, vars
<1> QED
    BY <1>6, <1>7, <1>8 DEF Next

(* Every step keeps the inductive invariant. *)
LEMMA NextIInv == IInv /\ [Next]_vars => IInv'
<1> SUFFICES ASSUME IInv, [Next]_vars PROVE IInv'
    OBVIOUS
<1>0. Retried'
    BY RetriedStep DEF IInv
<1>1. CASE UNCHANGED vars
    BY <1>0, <1>1 DEF vars, IInv, TypeOK, Presence, CacheLags, Adopted, MachinesSettled, FirewallSettled,
       ClusterSettled, Quiet, Running, Reaches, Up, Awaited
<1>2. CASE Next
    BY <1>0, <1>2, ReconcileStep, DeliverStep, WakeStep, RestartStep, EnvironmentStep DEF Next, Watch
<1> QED
    BY <1>1, <1>2

(* The invariant holds in every reachable state. *)
THEOREM Invariance == Spec => []IInv
BY InitIInv, NextIInv, PTL DEF Spec

(* The state always has its type. *)
THEOREM TypeCorrect == Spec => []TypeOK
<1>1. IInv => TypeOK
    BY DEF IInv
<1> QED
    BY <1>1, Invariance, PTL

(* However many machines there are, one for which there is something to do is
   never forgotten, unless its first Get failed. *)
THEOREM MachinesWoken == Spec => []MachinesAreWoken
<1>1. IInv => MachinesAreWoken
    <2> SUFFICES ASSUME IInv, NEW n \in Nodes, Asleep(n), MachineHasWork(n), n \notin swallowed PROVE FALSE
        BY DEF MachinesAreWoken
    <2>1. Quiet(n) /\ Running(n)
        BY DEF Quiet, Asleep, MachineHasWork, Unnoticed, Condemned, Wanted
    <2>2. Up(n)
        BY <2>1 DEF IInv, MachinesSettled
    <2> QED
        BY <2>2 DEF Up, MachineHasWork, Unnoticed, Condemned, Wanted
<1> QED
    BY <1>1, Invariance, PTL

(* A firewall deployment is forgotten only when its Cluster is resumed. *)
THEOREM FirewallWoken == Spec => []FirewallIsWoken
<1>1. IInv => FirewallIsWoken
    <2> SUFFICES ASSUME IInv, Asleep("firewall"), FirewallHasWork, ~LeftHalted("firewall") PROVE FALSE
        BY DEF FirewallIsWoken
    <2>1. Quiet("firewall") /\ Running("firewall")
        BY DEF Quiet, Asleep, FirewallHasWork, Unnoticed, Condemned, Wanted, IInv, Retried
    <2>2. Up("firewall")
        BY <2>1 DEF IInv, FirewallSettled, LeftHalted, Running
    <2> QED
        BY <2>2 DEF Up, FirewallHasWork, Unnoticed, Condemned, Wanted
<1> QED
    BY <1>1, Invariance, PTL

(* A cluster is forgotten only when its Cluster is resumed, when the call that
   deletes its firewall deployment failed, or when it waits for a deployment it
   had not adopted. *)
THEOREM ClusterWoken == Spec => []ClusterIsWoken
<1>1. IInv => ClusterIsWoken
    <2> SUFFICES ASSUME IInv, Asleep("cluster"), ClusterHasWork, ~LeftHalted("cluster"),
                        "cluster" \notin swallowed,
                        ~(objC["cluster"].deleting /\ ~objC["firewall"].exists /\ ~objC["firewall"].owned)
                 PROVE  FALSE
        BY DEF ClusterIsWoken
    <2>1. /\ Quiet("cluster") /\ Running("cluster") /\ ~objC["cluster"].halted
          /\ objC["firewall"] = obj["firewall"]
        BY DEF Quiet, Asleep, ClusterHasWork, Unnoticed, Condemned, Wanted, LeftHalted, Running
    <2>2. CASE Up("cluster") /\ (objC["firewall"].exists => obj["firewall"].owned)
        BY <2>1, <2>2 DEF Up, ClusterHasWork, Unnoticed, Condemned, Wanted
    <2>3. CASE objC["cluster"].finalizer /\ objC["cluster"].deleting /\ Awaited
        BY <2>1, <2>3 DEF Awaited, ClusterHasWork, Unnoticed, Condemned, Wanted
    <2> QED
        BY <2>1, <2>2, <2>3 DEF IInv, ClusterSettled, Running
<1> QED
    BY <1>1, Invariance, PTL
=============================================================================
