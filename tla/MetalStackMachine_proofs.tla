----------------------- MODULE MetalStackMachine_proofs -----------------------
(***************************************************************************)
(* Proofs about MetalStackMachine for any machines and servers and any     *)
(* number of faults, with and without stale reads and others who free and  *)
(* allocate servers.                                                       *)
(***************************************************************************)
EXTENDS MetalStackMachine, TLAPS

-----------------------------------------------------------------------------
(* Type correctness *)

(* What an answer costs: the number of faults stays within its bound. *)
LEMMA AnsweredBound ==
    ASSUME faults \in 0 .. MaxFaults, NEW ok \in BOOLEAN, Answered(ok)
    PROVE  faults' \in 0 .. MaxFaults
BY MachineAssumption DEF Answered, Fault

(* What the controller writes into its copy keeps it a machine object. *)
LEMMA MachineUpdates ==
    ASSUME NEW o \in Machine, NEW b \in BOOLEAN, NEW h \in Hardware \cup {None}
    PROVE  /\ [o EXCEPT !.exists = b] \in Machine
           /\ [o EXCEPT !.deleting = b] \in Machine
           /\ [o EXCEPT !.finalizer = b] \in Machine
           /\ [o EXCEPT !.failure = b] \in Machine
           /\ [o EXCEPT !.providerID = h, !.ready = b] \in Machine
BY DEF Machine

(* What the API server stores after an update has the type of the update. *)
LEMMA SettledType == ASSUME NEW o \in Machine PROVE Settled(o) \in Machine
<1>1. (o.exists /\ (o.deleting => o.finalizer)) \in BOOLEAN
    OBVIOUS
<1> QED
    BY <1>1, MachineUpdates DEF Settled

(* A delete call sets the deletion timestamp and leaves the rest alone; an
   object without finalizer is gone. *)
LEMMA DeletedEffect ==
    ASSUME NEW o \in Machine
    PROVE  /\ Deleted(o) \in Machine
           /\ Deleted(o).deleting /\ Deleted(o).exists = (o.exists /\ o.finalizer)
           /\ Deleted(o).finalizer = o.finalizer /\ Deleted(o).providerID = o.providerID
           /\ Deleted(o).ready = o.ready
<1>1. [o EXCEPT !.deleting = TRUE] \in Machine
    BY MachineUpdates
<1> QED
    BY <1>1, SettledType DEF Deleted, Settled, Machine

(* What reconcile writes about a machine. *)
LEMMA DescribedType ==
    ASSUME NEW o \in Machine, NEW h \in Hardware
    PROVE  /\ Described(o, h) \in Machine
           /\ Described(o, h).providerID = h /\ Described(o, h).ready = (o.ready \/ h \in phoned)
           /\ Described(o, h).finalizer = o.finalizer
<1>1. (o.ready \/ h \in phoned) \in BOOLEAN
    OBVIOUS
<1> QED
    BY <1>1 DEF Described, getMachineStatus, Machine

(* What a patch does to the object, field by field: metadata and spec are
   merged together or not at all, the status likewise, and an object that lost
   its finalizer while it was being deleted is gone. *)
LEMMA PatchEffect ==
    ASSUME TypeOK, cur \in Nodes, Patch
    PROVE  \E spec \in BOOLEAN, status \in BOOLEAN, o \in Machine :
             /\ spec \/ status => obj[cur].exists
             /\ Answered((spec /\ status) \/ before = after \/ ~obj[cur].exists)
             /\ obj' = [obj EXCEPT ![cur] = o]
             /\ o.finalizer = IF spec THEN Merged(obj[cur].finalizer, before.finalizer, after.finalizer)
                                      ELSE obj[cur].finalizer
             /\ o.providerID = IF spec THEN Merged(obj[cur].providerID, before.providerID, after.providerID)
                                       ELSE obj[cur].providerID
             /\ o.ready = IF status THEN Merged(obj[cur].ready, before.ready, after.ready)
                                    ELSE obj[cur].ready
             /\ o.deleting = obj[cur].deleting
             /\ o.exists = (obj[cur].exists /\ (obj[cur].deleting => o.finalizer))
<1>1. PICK spec \in BOOLEAN, status \in BOOLEAN :
         /\ spec \/ status => obj[cur].exists
         /\ Answered((spec /\ status) \/ before = after \/ ~obj[cur].exists)
         /\ obj' = [obj EXCEPT ![cur] = Settled([obj[cur] EXCEPT
              !.finalizer  = IF spec   THEN Merged(@, before.finalizer, after.finalizer)   ELSE @,
              !.providerID = IF spec   THEN Merged(@, before.providerID, after.providerID) ELSE @,
              !.ready      = IF status THEN Merged(@, before.ready, after.ready)           ELSE @,
              !.failure    = IF status THEN Merged(@, before.failure, after.failure)       ELSE @])]
    BY DEF Patch
<1> DEFINE f == IF spec THEN Merged(obj[cur].finalizer, before.finalizer, after.finalizer)
                        ELSE obj[cur].finalizer
           p == IF spec THEN Merged(obj[cur].providerID, before.providerID, after.providerID)
                        ELSE obj[cur].providerID
           r == IF status THEN Merged(obj[cur].ready, before.ready, after.ready) ELSE obj[cur].ready
           x == IF status THEN Merged(obj[cur].failure, before.failure, after.failure)
                          ELSE obj[cur].failure
           m == [obj[cur] EXCEPT !.finalizer = f, !.providerID = p, !.ready = r, !.failure = x]
<1>2. /\ obj[cur] \in Machine
      /\ f \in BOOLEAN /\ p \in Hardware \cup {None} /\ r \in BOOLEAN /\ x \in BOOLEAN
    BY DEF TypeOK, Machine, Merged
<1>3. obj' = [obj EXCEPT ![cur] = Settled(m)]
    BY <1>1
<1> HIDE DEF f, p, r, x
<1>4. /\ m \in Machine
      /\ m.finalizer = f /\ m.providerID = p /\ m.ready = r
      /\ m.deleting = obj[cur].deleting /\ m.exists = obj[cur].exists
    BY <1>2 DEF Machine
<1> HIDE DEF m
<1>5. /\ Settled(m) \in Machine
      /\ Settled(m).finalizer = f /\ Settled(m).providerID = p /\ Settled(m).ready = r
      /\ Settled(m).deleting = obj[cur].deleting
      /\ Settled(m).exists = (obj[cur].exists /\ (obj[cur].deleting => f))
    BY <1>4, SettledType DEF Settled, Machine
<1> QED
    BY <1>1, <1>3, <1>5 DEF f, p, r

(* The blank copy is a machine object. *)
LEMMA BlankType == Blank \in Machine
BY DEF Blank, Machine

(* The initial state has its type. *)
LEMMA InitTypeOK == Init => TypeOK
BY MachineAssumption, BlankType DEF Init, TypeOK, Holders, Steps

(* A reconciliation that begins has read an object of the right type. *)
LEMMA BeginTypeOK ==
    ASSUME TypeOK, NEW n \in Nodes, NEW step \in Steps, NEW o \in Machine, Begin(n, step, o)
    PROVE  TypeOK'
BY DEF Begin, TypeOK, objects, env

(* A step to the patch with a well-typed copy, changing at most allocations,
   events and fault count. *)
LEMMA ToPatchTypeOK ==
    ASSUME TypeOK, NEW o \in Machine, ToPatch(o), UNCHANGED <<objects, prepared, overdue>>,
           alloc' \in [Hardware -> Holders], phoned' \subseteq Hardware, faults' \in 0 .. MaxFaults
    PROVE  TypeOK'
BY DEF ToPatch, TypeOK, Steps, objects

(* Every step of controller, cache and environment keeps the types. *)
LEMMA NextTypeOK == TypeOK /\ [Next]_vars => TypeOK'
<1> SUFFICES ASSUME TypeOK, [Next]_vars PROVE TypeOK'
    OBVIOUS
<1>0. /\ after \in Machine /\ objC \in [Nodes -> Machine] /\ obj \in [Nodes -> Machine]
      /\ alloc \in [Hardware -> Holders] /\ phoned \subseteq Hardware /\ faults \in 0 .. MaxFaults
    BY DEF TypeOK
<1>1. ASSUME NEW n \in Nodes, AddFinalizer(n) PROVE TypeOK'
    <2>1. [objC[n] EXCEPT !.finalizer = TRUE] \in Machine
        BY <1>0, MachineUpdates
    <2> QED
        BY <1>1, <2>1, BeginTypeOK DEF AddFinalizer, Steps
<1>2. ASSUME NEW n \in Nodes, StartReconcile(n) PROVE TypeOK'
    BY <1>0, <1>2, BeginTypeOK DEF StartReconcile, Steps
<1>3. ASSUME NEW n \in Nodes, StartDelete(n) PROVE TypeOK'
    BY <1>0, <1>3, BeginTypeOK DEF StartDelete, Steps
<1>4. CASE LookUp
    <2>1. UNCHANGED <<objects, prepared, overdue, alloc, phoned, faults>>
        BY <1>4 DEF LookUp, env
    <2>2. CASE InProject(after.providerID)
        <3>1. Described(after, after.providerID) \in Machine
            BY <1>0, <2>2, DescribedType DEF InProject, Machine
        <3> QED
            BY <1>0, <1>4, <2>1, <2>2, <3>1, ToPatchTypeOK DEF LookUp
    <2>3. CASE ~InProject(after.providerID)
        <3>1. [after EXCEPT !.failure = TRUE] \in Machine
            BY <1>0, MachineUpdates
        <3> QED
            BY <1>0, <1>4, <2>1, <2>3, <3>1, ToPatchTypeOK DEF LookUp
    <2> QED
        BY <2>2, <2>3
<1>5. CASE AllocateMachine
    <2>1. PICK h \in Held(None), answered \in BOOLEAN :
             /\ Answered(answered)
             /\ alloc' = [alloc EXCEPT ![h] = cur]
             /\ ToPatch(IF answered THEN Described(after, h) ELSE after)
        BY <1>5 DEF AllocateMachine
    <2>2. h \in Hardware /\ cur \in Holders
        BY DEF Held, TypeOK, Holders
    <2>3. (IF answered THEN Described(after, h) ELSE after) \in Machine
        BY <1>0, <2>2, DescribedType
    <2>4. alloc' \in [Hardware -> Holders] /\ faults' \in 0 .. MaxFaults
        BY <1>0, <2>1, <2>2, AnsweredBound
    <2>5. UNCHANGED <<objects, prepared, overdue, phoned>>
        BY <1>5 DEF AllocateMachine, env
    <2> QED
        BY <1>0, <2>1, <2>3, <2>4, <2>5, ToPatchTypeOK
<1>6. CASE AllocationRefused
    <2>1. faults' \in 0 .. MaxFaults
        BY <1>0, <1>6, AnsweredBound DEF AllocationRefused
    <2> QED
        BY <1>0, <1>6, <2>1, ToPatchTypeOK DEF AllocationRefused, env
<1>7. CASE DeleteMissing
    <2>1. [after EXCEPT !.finalizer = cur \in ControlPlane \ overdue] \in Machine
        <3>1. (cur \in ControlPlane \ overdue) \in BOOLEAN
            OBVIOUS
        <3> QED
            BY <1>0, <3>1, MachineUpdates
    <2> QED
        BY <1>0, <1>7, <2>1, ToPatchTypeOK DEF DeleteMissing, env
<1>8. CASE DeleteFound
    BY <1>8 DEF DeleteFound, TypeOK, Steps, objects, env
<1>9. CASE FreeMachine
    <2>1. PICK answered \in BOOLEAN, arrived \in BOOLEAN :
             /\ Answered(answered \/ alloc[after.providerID] \in {None, Stranger})
             /\ alloc' = [alloc EXCEPT ![after.providerID] = IF arrived THEN None ELSE @]
             /\ phoned' = IF arrived THEN phoned \ {after.providerID} ELSE phoned
             /\ ToPatch([after EXCEPT !.finalizer = ~answered \/ cur \in ControlPlane])
        BY <1>9 DEF FreeMachine
    <2>2. [after EXCEPT !.finalizer = ~answered \/ cur \in ControlPlane] \in Machine
        BY <1>0, MachineUpdates
    <2>3. alloc' \in [Hardware -> Holders] /\ phoned' \subseteq Hardware
        BY <1>0, <2>1 DEF Holders
    <2>4. faults' \in 0 .. MaxFaults
        BY <1>0, <2>1, AnsweredBound
    <2> QED
        BY <1>9, <2>1, <2>2, <2>3, <2>4, ToPatchTypeOK DEF FreeMachine
<1>10. CASE Patch
    <2>1. obj' \in [Nodes -> Machine]
        <3>1. CASE cur \in Nodes
            BY <1>0, <1>10, <3>1, PatchEffect
        <3>2. CASE cur \notin Nodes
            BY <1>0, <1>10, <3>2 DEF Patch
        <3> QED
            BY <3>1, <3>2
    <2>2. faults' \in 0 .. MaxFaults
        BY <1>0, <1>10, AnsweredBound DEF Patch
    <2> QED
        BY <1>10, <2>1, <2>2, BlankType DEF Patch, Forget, TypeOK, Steps, env
<1>11. CASE FindFails
    <2>1. faults' \in 0 .. MaxFaults
        BY <1>0, <1>11, MachineAssumption DEF FindFails, Fault
    <2> QED
        BY <1>0, <1>11, <2>1, ToPatchTypeOK DEF FindFails, env
<1>12. CASE Crash
    <2>1. faults' \in 0 .. MaxFaults
        BY <1>0, <1>12, MachineAssumption DEF Crash, Fault
    <2> QED
        BY <1>12, <2>1, BlankType DEF Crash, Forget, TypeOK, Steps, objects, env
<1>13. ASSUME NEW n \in Nodes, CacheSync(n) PROVE TypeOK'
    BY <1>13 DEF CacheSync, TypeOK, env, local
<1>14. ASSUME NEW n \in Nodes, DeletionAges(n) PROVE TypeOK'
    BY <1>14 DEF DeletionAges, TypeOK, objects, local
<1>15. CASE Prepare \/ ClusterGone
    BY <1>15 DEF Prepare, ClusterGone, TypeOK, objects, local
<1>16. ASSUME NEW n \in Nodes, RequestDelete(n) PROVE TypeOK'
    <2>1. Deleted(obj[n]) \in Machine
        BY <1>0, DeletedEffect
    <2> QED
        BY <1>16, <2>1 DEF RequestDelete, TypeOK, env, local
<1>17. ASSUME NEW h \in Hardware, PhoneHome(h) \/ OutsiderFrees(h) \/ OutsiderAllocates(h)
       PROVE  TypeOK'
    BY <1>17 DEF PhoneHome, OutsiderFrees, OutsiderAllocates, TypeOK, Holders, objects, env, local
<1>18. CASE UNCHANGED vars
    BY <1>18 DEF vars, objects, env, local, TypeOK
<1> QED
    BY <1>1, <1>2, <1>3, <1>4, <1>5, <1>6, <1>7, <1>8, <1>9, <1>10, <1>11, <1>12, <1>13, <1>14,
       <1>15, <1>16, <1>17, <1>18 DEF Next, Reconcile, Continue, Environment

(* The state always has its type. *)
THEOREM TypeCorrect == Spec => []TypeOK
BY InitTypeOK, NextTypeOK, PTL DEF Spec

-----------------------------------------------------------------------------
(* The inductive invariant *)

(* Initially nothing is allocated and no reconciliation is running. *)
LEMMA InitIInv == Init => IInv
<1> SUFFICES ASSUME Init PROVE IInv
    OBVIOUS
<1>1. TypeOK
    BY InitTypeOK
<1>2. \A n \in Nodes : obj[n] = Blank /\ objC[n] = Blank
    BY DEF Init
<1>3. \A n \in Nodes : Held(n) = {}
    BY MachineAssumption DEF Init, Held
<1> QED
    BY <1>1, <1>2, <1>3 DEF Init, Blank, IInv, Presence, CacheLags, PhonedHeld, Running, Removed, Fresh,
       Lossless, Owned, KeepsServer, Known

(* A machine that is deleted names what it named before, and a machine that is
   in use was in use before: then what a machine knows of is lost to deletions
   only, as long as its server is left alone. *)
LEMMA OwnedStep ==
    ASSUME Owned,
           ~StaleReads => \A n \in Nodes :
             /\ Known(n)' \in {None, Known(n)} /\ (InUse(n)' => InUse(n))
             /\ Known(n) # None => alloc'[Known(n)] = alloc[Known(n)] \/ alloc[Known(n)] # n \/ Outsiders
             /\ obj[n].deleting /\ obj[n].providerID # None =>
                  obj'[n].deleting /\ obj'[n].providerID = obj[n].providerID
    PROVE  Owned'
<1> SUFFICES ASSUME ~StaleReads, ~Outsiders, NEW n \in Nodes, InUse(n)', Known(n)' # None
             PROVE  \/ alloc'[Known(n)'] = n
                    \/ \E m \in Nodes \ {n} : obj'[m].deleting /\ obj'[m].providerID = Known(n)'
    BY DEF Owned, KeepsServer
<1>1. InUse(n) /\ Known(n)' = Known(n) /\ Known(n) # None
    OBVIOUS
<1>2. CASE alloc[Known(n)] = n
    BY <1>1, <1>2
<1>3. CASE \E m \in Nodes \ {n} : obj[m].deleting /\ obj[m].providerID = Known(n)
    BY <1>1, <1>3
<1> QED
    BY <1>1, <1>2, <1>3 DEF Owned, KeepsServer

(* Reconciliations begin on what the cache shows. *)
LEMMA BeginStep ==
    ASSUME IInv, TypeOK', NEW n \in Nodes, Reconcile(n)
    PROVE  IInv'
<1> USE DEF IInv, TypeOK
<1>1. /\ pc = "idle" /\ cur' = n /\ before' = objC[n] /\ pc' \in {"patch", "allocate", "lookup", "find"}
      /\ UNCHANGED <<obj, objC, alloc, phoned, overdue, prepared, faults>>
      /\ StaleReads \/ objC[n] = obj[n]
      /\ after'.finalizer /\ after'.providerID = objC[n].providerID /\ after'.ready = objC[n].ready
      /\ pc' # "patch" => objC[n].finalizer /\ after' = objC[n]
      /\ pc' = "lookup" => objC[n].providerID # None
      /\ pc' = "allocate" => objC[n].providerID = None
      /\ pc' = "find" => objC[n].deleting
    BY DEF Reconcile, AddFinalizer, StartReconcile, StartDelete, Begin, Machine, objects, env
<1>2. Presence' /\ CacheLags' /\ PhonedHeld'
    BY <1>1 DEF Presence, CacheLags, PhonedHeld
<1>3. Running'
    BY <1>1 DEF Running, Removed, CacheLags, Machine
<1>4. Fresh'
    BY <1>1 DEF Fresh, Removed, Machine
<1>5. \A m \in Nodes : ~StaleReads => Known(m)' = Known(m)
    BY <1>1 DEF Known, Machine
<1>6. Lossless'
    BY <1>1, <1>5 DEF Lossless, Held
<1>7. Owned'
    BY <1>1, <1>5, OwnedStep DEF InUse
<1> QED
    BY <1>2, <1>3, <1>4, <1>6, <1>7

(* Steps of a reconciliation that touch neither objects nor servers and leave
   the provider ID in the copy alone. *)
LEMMA QuietStep ==
    ASSUME IInv, TypeOK',
           LookUp \/ AllocationRefused \/ DeleteMissing \/ DeleteFound \/ FindFails
    PROVE  IInv'
<1> USE MachineAssumption DEF IInv, TypeOK
<1>1. /\ UNCHANGED <<obj, objC, alloc, phoned, overdue, cur, before>>
      /\ pc \in {"lookup", "allocate", "find"} /\ pc' \in {"patch", "free"} /\ faults' >= faults
    BY DEF LookUp, AllocationRefused, DeleteMissing, DeleteFound, FindFails, ToPatch, Answered, Fault,
           objects, env
<1>2. cur \in Nodes /\ before.finalizer /\ after = before /\ ~Removed
    BY <1>1 DEF Running, Removed
<1>3. after'.providerID = after.providerID
    BY DEF LookUp, AllocationRefused, DeleteMissing, DeleteFound, FindFails, ToPatch, Described, Machine
<1>4. after'.ready => before.providerID # None
    BY <1>1, <1>2 DEF LookUp, AllocationRefused, DeleteMissing, DeleteFound, FindFails, ToPatch,
       Described, Machine, Running
<1>5. Removed' => DeleteMissing
    BY <1>2 DEF LookUp, AllocationRefused, DeleteFound, FindFails, ToPatch, Described, Machine, Removed
<1>6. Removed' => /\ obj[cur].deleting /\ (cur \in ControlPlane => cur \in overdue)
                  /\ ~InProject(after.providerID)
    BY <1>2, <1>5 DEF DeleteMissing, ToPatch, Machine, Removed, Running
<1>7. pc' = "free" => /\ after' = after /\ obj[cur].deleting
                      /\ after.providerID \in Hardware
    BY DEF LookUp, AllocationRefused, DeleteMissing, DeleteFound, FindFails, ToPatch, InProject, Machine,
           Running
<1>8. Presence' /\ CacheLags' /\ PhonedHeld'
    BY <1>1 DEF Presence, CacheLags, PhonedHeld
<1>9. Running'
    BY <1>1, <1>2, <1>3, <1>4, <1>6, <1>7 DEF Running, Removed
<1>10. Fresh'
    BY <1>1, <1>2, <1>3, <1>6 DEF Fresh, InProject
<1>11. \A n \in Nodes : Known(n)' = Known(n)
    BY <1>1, <1>3 DEF Known
<1>12. faults' = 0 => faults = 0
    BY <1>1
<1>13. Lossless' /\ Owned'
    BY <1>1, <1>11, <1>12, OwnedStep DEF Lossless, Held, InUse
<1> QED
    BY <1>8, <1>9, <1>10, <1>13

(* An allocation: the server is nobody else's, and known unless the answer was
   lost. *)
LEMMA AllocateStep ==
    ASSUME IInv, TypeOK', AllocateMachine
    PROVE  IInv'
<1> USE MachineAssumption DEF IInv, TypeOK
<1>1. PICK h \in Hardware, answered \in BOOLEAN :
         /\ alloc[h] = None
         /\ Answered(answered)
         /\ alloc' = [alloc EXCEPT ![h] = cur]
         /\ ToPatch(IF answered THEN Described(after, h) ELSE after)
    BY DEF AllocateMachine, Held
<1>2. /\ UNCHANGED <<obj, objC, phoned, overdue, cur, before>> /\ pc = "allocate" /\ pc' = "patch"
    BY <1>1 DEF AllocateMachine, ToPatch, objects, env
<1>3. cur \in Nodes /\ before.finalizer /\ after = before /\ before.providerID = None /\ ~after.ready
    BY <1>2 DEF Running
<1>4. /\ answered => after'.providerID = h
      /\ ~answered => after' = after /\ faults' # 0
      /\ after'.finalizer /\ ~after'.ready
    <2>1. h \notin phoned
        BY <1>1 DEF PhonedHeld
    <2>2. CASE answered
        <3>1. after' = Described(after, h)
            BY <1>1, <2>2 DEF ToPatch
        <3> QED
            BY <1>3, <2>1, <2>2, <3>1, DescribedType
    <2>3. CASE ~answered
        BY <1>1, <1>3, <2>3 DEF ToPatch, Answered, Fault
    <2> QED
        BY <2>2, <2>3
<1>5. Presence' /\ CacheLags' /\ PhonedHeld'
    BY <1>1, <1>2, <1>3 DEF Presence, CacheLags, PhonedHeld
<1>6. Running'
    BY <1>2, <1>3, <1>4 DEF Running, Removed
<1>7. Fresh'
    <2> SUFFICES ASSUME ~StaleReads PROVE Fresh'
        BY DEF Fresh
    <2>1. obj[cur].finalizer /\ before.providerID = obj[cur].providerID /\ before.finalizer = obj[cur].finalizer
        BY <1>2, <1>3 DEF Fresh
    <2>2. ASSUME NEW n \in Nodes, ~obj[n].finalizer, obj[n].providerID # None
          PROVE  alloc'[obj[n].providerID] # n
        BY <1>1, <2>1, <2>2 DEF Fresh, Machine
    <2> QED
        BY <1>2, <1>4, <2>1, <2>2 DEF Fresh, Removed
<1>8. faults' = 0 => answered /\ faults = 0
    BY <1>1, <1>4 DEF Answered
<1>9. \A n \in Nodes : n # cur => Known(n)' = Known(n) /\ Held(n)' = Held(n)
    BY <1>1, <1>2, <1>3 DEF Known, Held
<1>10. \A n \in Nodes : n = cur => /\ Known(n) = None /\ (answered => Known(n)' = h)
                                  /\ Held(n)' = Held(n) \cup {h}
    BY <1>1, <1>2, <1>3, <1>4 DEF Known, Held
<1>11. Lossless'
    <2> SUFFICES ASSUME ~StaleReads, faults' = 0, NEW n \in Nodes PROVE Held(n)' \subseteq {Known(n)'}
        BY DEF Lossless
    <2>1. Held(n) \subseteq {Known(n)} /\ Held(n) \subseteq Hardware /\ answered
        BY <1>8 DEF Lossless, Held
    <2>2. CASE n = cur
        BY <1>10, <2>1, <2>2
    <2>3. CASE n # cur
        BY <1>9, <2>1, <2>3
    <2> QED
        BY <2>2, <2>3
<1>12. Owned'
    <2> SUFFICES ASSUME ~StaleReads, ~Outsiders, NEW n \in Nodes, InUse(n)', Known(n)' # None
                 PROVE  \/ alloc'[Known(n)'] = n
                        \/ \E m \in Nodes \ {n} : obj'[m].deleting /\ obj'[m].providerID = Known(n)'
        BY DEF Owned, KeepsServer
    <2>1. CASE n = cur
        <3>1. answered
            BY <1>3, <1>4, <1>10, <1>2, <2>1 DEF Known
        <3> QED
            BY <1>1, <1>10, <2>1, <3>1
    <2>2. CASE n # cur
        <3>1. Known(n)' = Known(n) /\ InUse(n) /\ Known(n) # None
            BY <1>2, <1>9, <2>2 DEF InUse
        <3>2. CASE alloc[Known(n)] = n
            BY <1>1, <2>2, <3>1, <3>2
        <3>3. CASE \E m \in Nodes \ {n} : obj[m].deleting /\ obj[m].providerID = Known(n)
            BY <1>2, <3>1, <3>3
        <3> QED
            BY <3>1, <3>2, <3>3 DEF Owned, KeepsServer
    <2> QED
        BY <2>1, <2>2
<1> QED
    BY <1>5, <1>6, <1>7, <1>11, <1>12

(* FreeMachine: afterwards the server is free, or the finalizer stays. *)
LEMMA FreeStep ==
    ASSUME IInv, TypeOK', FreeMachine
    PROVE  IInv'
<1> USE MachineAssumption DEF IInv, TypeOK
<1> DEFINE p == after.providerID
<1>1. PICK answered \in BOOLEAN, arrived \in BOOLEAN :
         /\ answered => arrived
         /\ Answered(answered \/ alloc[p] \in {None, Stranger})
         /\ alloc' = [alloc EXCEPT ![p] = IF arrived THEN None ELSE @]
         /\ phoned' = IF arrived THEN phoned \ {p} ELSE phoned
         /\ ToPatch([after EXCEPT !.finalizer = ~answered \/ cur \in ControlPlane])
    BY DEF FreeMachine
<1>2. /\ UNCHANGED <<obj, objC, overdue, cur, before>> /\ pc = "free" /\ pc' = "patch"
    BY <1>1 DEF FreeMachine, ToPatch, objects
<1>3. /\ cur \in Nodes /\ before.finalizer /\ after = before /\ obj[cur].deleting
      /\ p \in Hardware /\ ~Removed
    BY <1>2 DEF Running, Removed
<1>4. /\ after'.providerID = p /\ after'.ready = after.ready
      /\ after'.finalizer = (~answered \/ cur \in ControlPlane)
    BY <1>1 DEF ToPatch, Machine
<1>5. Presence' /\ CacheLags' /\ PhonedHeld'
    BY <1>1, <1>2, <1>3 DEF Presence, CacheLags, PhonedHeld
<1>6. Running'
    BY <1>2, <1>3, <1>4 DEF Running, Removed
<1>7. Fresh'
    <2> SUFFICES ASSUME ~StaleReads PROVE Fresh'
        BY DEF Fresh
    <2>1. before.providerID = obj[cur].providerID /\ before.finalizer = obj[cur].finalizer
        BY <1>2 DEF Fresh
    <2>2. \A h \in Hardware : alloc'[h] = alloc[h] \/ alloc'[h] = None
        BY <1>1
    <2>3. ASSUME NEW n \in Nodes, ~obj[n].finalizer, obj[n].providerID # None
          PROVE  alloc'[obj[n].providerID] # n
        BY <2>2, <2>3 DEF Fresh, Machine
    <2>4. Removed' => alloc'[p] = None
        BY <1>1, <1>3, <1>4 DEF Removed
    <2> QED
        BY <1>2, <1>3, <1>4, <2>1, <2>3, <2>4 DEF Fresh
<1>8. \A n \in Nodes : Known(n)' = Known(n) /\ Held(n)' \subseteq Held(n)
    BY <1>1, <1>2, <1>3, <1>4 DEF Known, Held
<1>9. faults' = 0 => faults = 0
    BY <1>1 DEF Answered, Fault
<1>10. Lossless'
    BY <1>8, <1>9 DEF Lossless
<1>11. Owned'
    <2> SUFFICES ASSUME ~StaleReads, ~Outsiders, NEW n \in Nodes, InUse(n), Known(n) # None
                 PROVE  \/ alloc'[Known(n)] = n
                        \/ \E m \in Nodes \ {n} : obj[m].deleting /\ obj[m].providerID = Known(n)
        BY <1>2, <1>8 DEF Owned, KeepsServer, InUse
    <2>1. cur # n /\ obj[cur].providerID = p
        BY <1>2, <1>3 DEF InUse, Fresh
    <2>2. CASE Known(n) = p
        BY <1>3, <2>1, <2>2
    <2>3. CASE Known(n) # p
        <3>1. Known(n) \in Hardware
            BY DEF Known, Machine
        <3>2. alloc'[Known(n)] = alloc[Known(n)]
            BY <1>1, <2>3, <3>1
        <3> QED
            BY <3>2 DEF Owned, KeepsServer
    <2> QED
        BY <2>2, <2>3
<1> QED
    BY <1>5, <1>6, <1>7, <1>10, <1>11

(* The patch at the end of every reconciliation.  What it writes over what
   others wrote in the meantime is no less than what the copy was taken from. *)
LEMMA PatchStep ==
    ASSUME IInv, TypeOK', Patch
    PROVE  IInv'
<1> USE MachineAssumption DEF IInv
<1>1. /\ cur \in Nodes /\ pc = "patch" /\ pc' = "idle" /\ cur' = None /\ before' = Blank /\ after' = Blank
      /\ UNCHANGED <<objC, alloc, phoned, overdue>>
    BY DEF Patch, Forget, Running, env
<1>2. PICK spec \in BOOLEAN, status \in BOOLEAN, o \in Machine :
         /\ spec \/ status => obj[cur].exists
         /\ Answered((spec /\ status) \/ before = after \/ ~obj[cur].exists)
         /\ obj' = [obj EXCEPT ![cur] = o]
         /\ o.finalizer = IF spec THEN Merged(obj[cur].finalizer, before.finalizer, after.finalizer)
                                  ELSE obj[cur].finalizer
         /\ o.providerID = IF spec THEN Merged(obj[cur].providerID, before.providerID, after.providerID)
                                   ELSE obj[cur].providerID
         /\ o.ready = IF status THEN Merged(obj[cur].ready, before.ready, after.ready) ELSE obj[cur].ready
         /\ o.deleting = obj[cur].deleting
         /\ o.exists = (obj[cur].exists /\ (obj[cur].deleting => o.finalizer))
    BY <1>1, PatchEffect
<1>3. /\ \A n \in Nodes : n # cur => obj'[n] = obj[n]
      /\ obj'[cur] = o /\ obj' \in [Nodes -> Machine] /\ obj \in [Nodes -> Machine]
    BY <1>1, <1>2 DEF TypeOK
<1>4. \A n \in Nodes : obj'[n].deleting = obj[n].deleting
    BY <1>2, <1>3
<1>5. Presence'
    BY <1>1, <1>2, <1>3 DEF Presence, Machine
<1>6. CacheLags'
    <2>1. obj[cur].providerID # None => o.providerID # None
        BY <1>1, <1>2 DEF Merged, Running
    <2>2. o.ready => o.providerID # None
        BY <1>1, <1>2, <2>1 DEF Merged, Running, CacheLags
    <2> QED
        BY <1>1, <1>3, <1>4, <2>1, <2>2 DEF CacheLags
<1>7. PhonedHeld' /\ Running'
    BY <1>1 DEF PhonedHeld, Running, Removed, Blank
<1>8. Fresh'
    <2> SUFFICES ASSUME ~StaleReads, NEW n \in Nodes, ~obj'[n].finalizer, obj'[n].providerID # None
                 PROVE  alloc[obj'[n].providerID] # n
        BY <1>1 DEF Fresh, Removed, Blank
    <2>1. before.finalizer = obj[cur].finalizer /\ before.providerID = obj[cur].providerID
        BY <1>1 DEF Fresh
    <2>2. CASE n # cur
        BY <1>3, <2>2 DEF Fresh
    <2>3. CASE n = cur /\ ~obj[cur].finalizer
        <3>1. o.providerID = obj[cur].providerID
            BY <1>2, <2>1, <2>3 DEF Merged, Running, TypeOK, Machine
        <3> QED
            BY <1>3, <2>3, <3>1 DEF Fresh
    <2>4. CASE n = cur /\ obj[cur].finalizer
        <3>1. Removed /\ after.providerID = before.providerID
            BY <1>2, <1>3, <2>1, <2>4 DEF Merged, Running, Removed
        <3>2. o.providerID = after.providerID
            BY <1>2, <2>1, <3>1 DEF Merged
        <3> QED
            BY <1>3, <2>4, <3>1, <3>2 DEF Fresh
    <2> QED
        BY <2>2, <2>3, <2>4
<1>9. ~StaleReads => \A n \in Nodes : Known(n)' \in {None, Known(n)}
    <2> SUFFICES ASSUME ~StaleReads, NEW n \in Nodes PROVE Known(n)' \in {None, Known(n)}
        OBVIOUS
    <2>1. CASE n = cur
        <3>1. Known(n) = after.providerID /\ Known(n)' = o.providerID
            BY <1>1, <1>3, <2>1 DEF Known
        <3>2. obj[cur].providerID = before.providerID
            BY <1>1 DEF Fresh
        <3>3. before.providerID = None \/ before.providerID = after.providerID
            BY DEF Running
        <3> QED
            BY <1>2, <3>1, <3>2, <3>3 DEF Merged
    <2>2. CASE n # cur
        BY <1>1, <1>3, <2>2 DEF Known
    <2> QED
        BY <2>1, <2>2
<1>10. Lossless'
    <2> SUFFICES ASSUME ~StaleReads, faults' = 0
                 PROVE  faults = 0 /\ \A n \in Nodes : Known(n)' = Known(n)
        BY <1>1 DEF Lossless, Held
    <2>1. faults = 0 /\ ((spec /\ status) \/ before = after \/ ~obj[cur].exists)
        BY <1>2 DEF Answered, Fault, TypeOK
    <2>2. before.finalizer = obj[cur].finalizer /\ before.providerID = obj[cur].providerID
        BY <1>1 DEF Fresh
    <2>3. o.providerID = after.providerID
        <3>1. CASE obj[cur].exists
            BY <1>2, <2>1, <2>2, <3>1 DEF Merged
        <3>2. CASE ~obj[cur].exists
            <4>1. ~before.finalizer
                BY <1>1, <2>2, <3>2 DEF Presence
            <4> QED
                BY <1>2, <2>2, <3>2, <4>1 DEF Running
        <3> QED
            BY <3>1, <3>2
    <2> QED
        BY <1>1, <1>3, <2>1, <2>3 DEF Known
<1>11. Owned'
    <2>1. \A n \in Nodes : InUse(n)' => InUse(n)
        BY <1>2, <1>3, <1>4 DEF InUse
    <2>2. ~StaleReads /\ obj[cur].providerID # None => o.providerID = obj[cur].providerID
        BY <1>1, <1>2 DEF Fresh, Merged, Running
    <2>3. ~StaleReads => \A n \in Nodes : obj[n].deleting /\ obj[n].providerID # None =>
            obj'[n].deleting /\ obj'[n].providerID = obj[n].providerID
        BY <1>3, <1>4, <2>2
    <2> QED
        BY <1>1, <1>9, <2>1, <2>3, OwnedStep
<1> QED
    BY <1>5, <1>6, <1>7, <1>8, <1>10, <1>11

(* A crash forgets the local copies and counts as a fault. *)
LEMMA CrashStep ==
    ASSUME IInv, TypeOK', Crash
    PROVE  IInv'
<1>1. /\ UNCHANGED <<obj, objC, alloc, phoned, overdue>> /\ faults' # 0
      /\ pc' = "idle" /\ cur' = None /\ before' = Blank /\ after' = Blank
    BY DEF Crash, Fault, Forget, IInv, TypeOK, objects, env
<1>2. ~StaleReads => \A n \in Nodes : Known(n)' \in {None, Known(n)}
    BY <1>1 DEF IInv, Known, Fresh, Running
<1>3. Owned'
    BY <1>1, <1>2, OwnedStep DEF IInv, InUse
<1> QED
    BY <1>1, <1>3 DEF IInv, Presence, CacheLags, PhonedHeld, Running, Fresh, Lossless, Removed, Blank

(* Caches catch up, time passes, clusters come and go. *)
LEMMA TimeStep ==
    ASSUME IInv, TypeOK', NEW n \in Nodes, CacheSync(n) \/ DeletionAges(n) \/ Prepare \/ ClusterGone
    PROVE  IInv'
<1> USE DEF IInv
<1>1. /\ UNCHANGED <<obj, alloc, phoned, local, faults>> /\ overdue \subseteq overdue'
      /\ \A m \in Nodes : objC'[m] = objC[m] \/ objC'[m] = obj[m]
    BY DEF CacheSync, DeletionAges, Prepare, ClusterGone, objects, env, TypeOK
<1>2. Presence' /\ CacheLags' /\ PhonedHeld'
    BY <1>1 DEF Presence, CacheLags, PhonedHeld
<1>3. Running' /\ Fresh'
    BY <1>1 DEF Running, Fresh, Removed, local
<1>4. Lossless' /\ Owned'
    BY <1>1, OwnedStep DEF Lossless, InUse, Known, Held, local
<1> QED
    BY <1>2, <1>3, <1>4

(* A deletion is requested, also of an object that is being reconciled. *)
LEMMA RequestDeleteStep ==
    ASSUME IInv, TypeOK', NEW n \in Nodes, RequestDelete(n)
    PROVE  IInv'
<1> USE DEF IInv
<1>1. /\ UNCHANGED <<objC, alloc, phoned, overdue, local, faults>>
      /\ obj' = [obj EXCEPT ![n] = Deleted(obj[n])] /\ ~obj[n].deleting /\ obj[n].exists
    BY DEF RequestDelete, env
<1>2. /\ Deleted(obj[n]).deleting /\ Deleted(obj[n]).exists = (obj[n].exists /\ obj[n].finalizer)
      /\ Deleted(obj[n]).finalizer = obj[n].finalizer /\ Deleted(obj[n]).providerID = obj[n].providerID
      /\ Deleted(obj[n]).ready = obj[n].ready
    BY DeletedEffect DEF TypeOK
<1>3. \A m \in Nodes : /\ obj'[m].finalizer = obj[m].finalizer /\ obj'[m].providerID = obj[m].providerID
                       /\ obj'[m].ready = obj[m].ready
                       /\ obj[m].deleting => obj'[m].deleting
                       /\ obj'[m].exists => obj[m].exists
    BY <1>1, <1>2 DEF TypeOK
<1>4. Presence'
    BY <1>1, <1>2 DEF Presence, TypeOK, Machine
<1>5. CacheLags' /\ PhonedHeld'
    BY <1>1, <1>3 DEF CacheLags, PhonedHeld
<1>6. Running' /\ Fresh'
    BY <1>1, <1>3 DEF Running, Fresh, Removed, local
<1>7. \A m \in Nodes : Known(m)' = Known(m) /\ Held(m)' = Held(m)
    BY <1>1, <1>3 DEF Known, Held, local
<1>8. Lossless'
    BY <1>1, <1>7 DEF Lossless
<1>9. \A m \in Nodes : InUse(m)' => InUse(m)
    BY <1>3 DEF InUse
<1>10. Owned'
    BY <1>1, <1>3, <1>7, <1>9, OwnedStep
<1> QED
    BY <1>4, <1>5, <1>6, <1>8, <1>10

(* What happens to the servers: they phone home, and others free and take
   them. *)
LEMMA ServerStep ==
    ASSUME IInv, TypeOK', NEW h \in Hardware, PhoneHome(h) \/ OutsiderFrees(h) \/ OutsiderAllocates(h)
    PROVE  IInv'
<1> USE MachineAssumption DEF IInv
<1>1. UNCHANGED <<obj, objC, overdue, local, faults>>
    BY DEF PhoneHome, OutsiderFrees, OutsiderAllocates, objects, env
<1>2. PhonedHeld'
    BY DEF PhoneHome, OutsiderFrees, OutsiderAllocates, PhonedHeld, env, TypeOK
<1>3. \A g \in Hardware : alloc'[g] # alloc[g] => Outsiders /\ alloc'[g] \notin Nodes
    BY DEF PhoneHome, OutsiderFrees, OutsiderAllocates, TypeOK, Running
<1>4. Presence' /\ CacheLags'
    BY <1>1 DEF Presence, CacheLags
<1>5. Running'
    BY <1>1, <1>3 DEF Running, Removed, local
<1>6. Fresh'
    <2> SUFFICES ASSUME ~StaleReads PROVE Fresh'
        BY <1>1 DEF Fresh
    <2>1. \A g \in Hardware, n \in Nodes : alloc[g] # n => alloc'[g] # n
        BY <1>3
    <2>2. Removed => cur \in Nodes
        BY DEF Running, Removed
    <2>3. after.providerID \in Hardware \cup {None} /\ \A n \in Nodes : obj[n].providerID \in Hardware \cup {None}
        BY DEF TypeOK, Machine
    <2>4. (Removed /\ after.providerID # None)' => alloc'[after'.providerID] # cur'
        BY <1>1, <2>1, <2>2, <2>3 DEF Fresh, Removed, local
    <2>5. \A n \in Nodes : ~obj'[n].finalizer /\ obj'[n].providerID # None => alloc'[obj'[n].providerID] # n
        BY <1>1, <2>1, <2>3 DEF Fresh
    <2>6. pc' # "idle" => before'.finalizer = obj'[cur'].finalizer /\ before'.providerID = obj'[cur'].providerID
        BY <1>1 DEF Fresh, local
    <2> QED
        BY <2>4, <2>5, <2>6 DEF Fresh, Removed
<1>7. \A n \in Nodes : Known(n)' = Known(n) /\ Held(n)' \subseteq Held(n)
    BY <1>1, <1>3 DEF Known, Held, local
<1>8. Lossless'
    BY <1>1, <1>7 DEF Lossless
<1>9. Owned'
    <2>1. \A n \in Nodes : Known(n) \in Hardware \cup {None}
        BY DEF Known, TypeOK, Machine
    <2> QED
        BY <1>1, <1>3, <1>7, <2>1, OwnedStep DEF InUse
<1> QED
    BY <1>2, <1>4, <1>5, <1>6, <1>8, <1>9

(* Every step keeps the inductive invariant. *)
LEMMA NextIInv == IInv /\ [Next]_vars => IInv'
<1> SUFFICES ASSUME IInv, [Next]_vars PROVE IInv'
    OBVIOUS
<1>1. TypeOK'
    BY NextTypeOK DEF IInv
<1>2. CASE UNCHANGED vars
    BY <1>1, <1>2 DEF vars, objects, env, local, IInv, Presence, CacheLags, PhonedHeld, Running, Fresh,
       Lossless, Owned, KeepsServer, InUse, Known, Held, Removed
<1>3. ASSUME NEW n \in Nodes, Reconcile(n) \/ CacheSync(n) \/ DeletionAges(n) \/ RequestDelete(n)
      PROVE  IInv'
    BY <1>1, <1>3, BeginStep, TimeStep, RequestDeleteStep
<1>4. CASE Continue \/ FindFails \/ Crash
    BY <1>1, <1>4, QuietStep, AllocateStep, FreeStep, PatchStep, CrashStep DEF Continue
<1>5. CASE Prepare \/ ClusterGone
    <2>1. CASE Nodes = {}
        BY <1>1, <1>5, <2>1 DEF Prepare, ClusterGone, IInv, TypeOK
    <2>2. CASE Nodes # {}
        BY <1>1, <1>5, <2>2, TimeStep
    <2> QED
        BY <2>1, <2>2
<1>6. ASSUME NEW h \in Hardware, PhoneHome(h) \/ OutsiderFrees(h) \/ OutsiderAllocates(h) PROVE IInv'
    BY <1>1, <1>6, ServerStep
<1> QED
    BY <1>2, <1>3, <1>4, <1>5, <1>6 DEF Next, Environment

(* The invariant holds in every reachable state. *)
THEOREM Invariance == Spec => []IInv
BY InitIInv, NextIInv, PTL DEF Spec

-----------------------------------------------------------------------------
(* What follows from the invariant *)

(* A machine that reports itself ready has a provider ID. *)
THEOREM ReadyIsKnown == Spec => []ReadyImpliesProviderID
<1>1. IInv => ReadyImpliesProviderID
    BY DEF IInv, CacheLags, ReadyImpliesProviderID
<1> QED
    BY <1>1, Invariance, PTL

(* When every reconciliation sees what the one before it wrote, the machine
   that a removed object names has been freed, whatever calls failed. *)
THEOREM NamedMachineFreed ==
    ASSUME ~StaleReads PROVE Spec => []RecordedMachineFreed
<1>1. IInv => RecordedMachineFreed
    BY DEF IInv, Presence, Fresh, RecordedMachineFreed, TypeOK, Machine
<1> QED
    BY <1>1, Invariance, PTL

(* A machine in use keeps the server it names, however many machines there are,
   whatever calls fail and however often a free is repeated, unless another
   machine that names the same server is being deleted. *)
THEOREM ServerKept == Spec => []ServerLostToDeletion
<1>1. IInv => ServerLostToDeletion
    <2> SUFFICES ASSUME IInv, ~StaleReads, ~Outsiders, NEW n \in Nodes, InUse(n), obj[n].providerID # None
                 PROVE  Known(n) = obj[n].providerID
        BY DEF IInv, Owned, KeepsServer, ServerLostToDeletion
    <2> QED
        BY DEF IInv, Known, Fresh, Running
<1> QED
    BY <1>1, Invariance, PTL

(* Objects are only written by the patch and by a deletion request; servers
   change hands in three steps, none of them one of these two. *)
LEMMA Writers ==
    IInv /\ [Next]_vars =>
        /\ obj' = obj \/ Patch \/ \E n \in Nodes : RequestDelete(n)
        /\ alloc' = alloc \/ AllocateMachine \/ FreeMachine
             \/ \E h \in Hardware : OutsiderFrees(h) \/ OutsiderAllocates(h)
        /\ pc = "free" /\ pc' = "patch" => FreeMachine
BY DEF Next, Reconcile, Continue, Environment, vars, objects, env, local, AddFinalizer, StartReconcile,
       StartDelete, Begin, LookUp, AllocateMachine, AllocationRefused, DeleteMissing, DeleteFound,
       FreeMachine, Patch, FindFails, Crash, CacheSync, Prepare, ClusterGone, RequestDelete, PhoneHome,
       DeletionAges, OutsiderFrees, OutsiderAllocates, ToPatch, Forget

(* The deletion request leaves finalizer and provider ID alone. *)
LEMMA RequestDeleteEffect ==
    ASSUME TypeOK, NEW n \in Nodes, RequestDelete(n)
    PROVE  /\ \A m \in Nodes : m # n => obj'[m] = obj[m]
           /\ obj[n].exists /\ ~obj[n].deleting /\ obj'[n].deleting
           /\ obj'[n].exists = obj[n].finalizer /\ obj'[n].finalizer = obj[n].finalizer
           /\ obj'[n].providerID = obj[n].providerID
<1>1. obj[n] \in Machine /\ obj' = [obj EXCEPT ![n] = Deleted(obj[n])] /\ obj \in [Nodes -> Machine]
    BY DEF RequestDelete, TypeOK
<1> QED
    BY <1>1, DeletedEffect DEF RequestDelete, Machine

(* Only the patch of a reconciliation that gives the finalizer up takes it
   away, and only the object of that reconciliation changes. *)
LEMMA PatchFinalizer ==
    ASSUME IInv, Patch
    PROVE  /\ cur \in Nodes /\ \A n \in Nodes : n # cur => obj'[n] = obj[n]
           /\ obj'[cur].deleting = obj[cur].deleting
           /\ obj'[cur].exists = (obj[cur].exists /\ (obj[cur].deleting => obj'[cur].finalizer))
           /\ obj[cur].finalizer /\ ~obj'[cur].finalizer => Removed
           /\ ~obj[cur].exists => obj'[cur].finalizer = obj[cur].finalizer
           /\ \/ obj'[cur].providerID = obj[cur].providerID
              \/ obj'[cur].providerID = after.providerID /\ before.providerID # after.providerID
<1>1. cur \in Nodes
    BY DEF Patch, IInv, Running
<1>2. PICK spec \in BOOLEAN, status \in BOOLEAN, o \in Machine :
         /\ spec \/ status => obj[cur].exists
         /\ obj' = [obj EXCEPT ![cur] = o]
         /\ o.finalizer = IF spec THEN Merged(obj[cur].finalizer, before.finalizer, after.finalizer)
                                  ELSE obj[cur].finalizer
         /\ o.providerID = IF spec THEN Merged(obj[cur].providerID, before.providerID, after.providerID)
                                   ELSE obj[cur].providerID
         /\ o.deleting = obj[cur].deleting
         /\ o.exists = (obj[cur].exists /\ (obj[cur].deleting => o.finalizer))
    BY <1>1, PatchEffect DEF IInv
<1>3. obj'[cur] = o /\ \A n \in Nodes : n # cur => obj'[n] = obj[n]
    BY <1>1, <1>2 DEF IInv, TypeOK
<1>4. before.finalizer \in BOOLEAN /\ after.finalizer \in BOOLEAN
    BY DEF IInv, TypeOK, Machine
<1> QED
    BY <1>1, <1>2, <1>3, <1>4 DEF Merged, Removed

(* A guarded control plane machine stays for at least 30s after its deletion
   was requested. *)
THEOREM GraceGiven == Spec => ControlPlaneGrace
<1>1. IInv /\ [Next]_vars =>
        [\A n \in ControlPlane : obj[n].exists /\ obj[n].finalizer /\ ~obj'[n].exists => n \in overdue]_vars
    <2> SUFFICES ASSUME IInv, [Next]_vars, NEW n \in ControlPlane,
                        obj[n].exists, obj[n].finalizer, ~obj'[n].exists
                 PROVE  n \in overdue
        OBVIOUS
    <2>1. n \in Nodes
        BY MachineAssumption
    <2>2. ASSUME NEW m \in Nodes, RequestDelete(m) PROVE FALSE
        BY <2>1, <2>2, RequestDeleteEffect DEF IInv
    <2>3. CASE Patch
        <3>1. cur = n /\ Removed
            BY <2>1, <2>3, PatchFinalizer
        <3> QED
            BY <3>1 DEF IInv, Running
    <2> QED
        BY <2>2, <2>3, Writers
<1> QED
    BY <1>1, Invariance, PTL DEF Spec, ControlPlaneGrace

(* A provider ID the cache has shown stays, however stale later reads are: the
   provider ID of the object and of the copies taken from the cache only grow
   from empty, and a copy that has one is not changed. *)
LEMMA ShownStays ==
    ASSUME IInv, [Next]_vars, NEW n \in Nodes, Shown(n)
    PROVE  Shown(n)'
<1>1. objC'[n].providerID # None
    <2>1. objC'[n] \in {objC[n], obj[n]}
        BY DEF Next, Reconcile, Continue, Environment, vars, objects, env, local, AddFinalizer,
           StartReconcile, StartDelete, Begin, LookUp, AllocateMachine, AllocationRefused, DeleteMissing,
           DeleteFound, FreeMachine, Patch, FindFails, Crash, CacheSync, Prepare, ClusterGone, RequestDelete,
           PhoneHome, DeletionAges, OutsiderFrees, OutsiderAllocates, IInv, TypeOK
    <2> QED
        BY <2>1 DEF Shown, IInv, CacheLags
<1>2. cur' = n => before'.providerID # None
    <2>1. UNCHANGED <<cur, before>> \/ cur' = None \/ (cur' \in Nodes /\ before' = objC[cur'])
        BY DEF Next, Reconcile, Continue, Environment, vars, objects, env, local, AddFinalizer,
           StartReconcile, StartDelete, Begin, LookUp, AllocateMachine, AllocationRefused, DeleteMissing,
           DeleteFound, FreeMachine, Patch, FindFails, Crash, CacheSync, Prepare, ClusterGone, RequestDelete,
           PhoneHome, DeletionAges, OutsiderFrees, OutsiderAllocates, ToPatch, Forget
    <2> QED
        BY <2>1, MachineAssumption DEF Shown
<1> QED
    BY <1>1, <1>2 DEF Shown

(* A provider ID is final once the cache has shown it, and at once if every
   reconciliation sees what the one before it wrote. *)
THEOREM ProviderIDKept == Spec => ProviderIDStable
<1>1. IInv /\ [Next]_vars =>
        [\A n \in Nodes :
           /\ Shown(n) => Shown(n)'
           /\ Shown(n) \/ (~StaleReads /\ obj[n].providerID # None)
                => obj'[n].providerID = obj[n].providerID]_vars
    <2> SUFFICES ASSUME IInv, [Next]_vars, NEW n \in Nodes,
                        Shown(n) \/ (~StaleReads /\ obj[n].providerID # None)
                 PROVE  obj'[n].providerID = obj[n].providerID
        BY ShownStays
    <2>1. ASSUME NEW m \in Nodes, RequestDelete(m) PROVE obj'[n].providerID = obj[n].providerID
        BY <2>1, RequestDeleteEffect DEF IInv
    <2>2. CASE Patch
        <3>1. n = cur => before.providerID = after.providerID
            BY <2>2 DEF Patch, IInv, Fresh, Running, Shown
        <3> QED
            BY <2>2, <3>1, PatchFinalizer
    <2> QED
        BY <2>1, <2>2, Writers
<1> QED
    BY <1>1, Invariance, PTL DEF Spec, ProviderIDStable

-----------------------------------------------------------------------------
(* Refinement of FinalizerContract *)

(* What the contract sees of an object. *)
Phase(n) == IF ~obj[n].exists THEN "removed"
            ELSE IF ~obj[n].finalizer THEN "unguarded"
            ELSE IF obj[n].deleting THEN "terminating" ELSE "guarded"

ContractStep(n) == Contract(n)!Next \/ UNCHANGED Contract(n)!vars

(* A step that leaves the phase of an object alone and takes or frees at most
   one server is a step of its contract, if it takes it under the finalizer. *)
LEMMA HeldStep ==
    ASSUME NEW n \in Nodes, Phase(n)' = Phase(n),
           \/ Held(n)' = Held(n)
           \/ \E h \in Held(n) : Held(n)' = Held(n) \ {h}
           \/ /\ Phase(n) \in {"guarded", "terminating"}
              /\ \E h \in Hardware \ Held(n) : Held(n)' = Held(n) \cup {h}
    PROVE  ContractStep(n)
BY DEF ContractStep, Contract!Next, Contract!Acquire, Contract!Release, Contract!vars, Phase

(* Allocating is acquiring: the finalizer is on the object. *)
LEMMA AllocateContract ==
    ASSUME IInv, ~StaleReads, AllocateMachine, NEW n \in Nodes
    PROVE  ContractStep(n)
<1>1. PICK h \in Held(None) : alloc' = [alloc EXCEPT ![h] = cur]
    BY DEF AllocateMachine
<1>2. Phase(n)' = Phase(n)
    BY DEF AllocateMachine, objects, Phase
<1>3. h \in Hardware /\ alloc[h] = None /\ alloc \in [Hardware -> Holders] /\ None \notin Nodes
    BY <1>1, MachineAssumption DEF Held, IInv, TypeOK
<1>4. CASE n # cur
    <2>1. Held(n)' = Held(n)
        BY <1>1, <1>3, <1>4 DEF Held
    <2> QED
        BY <1>2, <2>1, HeldStep
<1>5. CASE n = cur
    <2>1. obj[n].finalizer /\ obj[n].exists
        BY <1>5 DEF AllocateMachine, IInv, Running, Fresh, Presence
    <2>2. Held(n)' = Held(n) \cup {h} /\ h \in Hardware \ Held(n)
        BY <1>1, <1>3, <1>5 DEF Held
    <2> QED
        BY <1>2, <2>1, <2>2, HeldStep DEF Phase
<1> QED
    BY <1>4, <1>5

(* Freeing a server, by the controller or by others, is releasing it; that
   others take one is not seen. *)
LEMMA FreeContract ==
    ASSUME IInv, UNCHANGED obj, NEW n \in Nodes, NEW h \in Hardware,
           NEW x \in Holders \ Nodes, alloc' = alloc \/ alloc' = [alloc EXCEPT ![h] = x]
    PROVE  ContractStep(n)
<1>1. Phase(n)' = Phase(n)
    BY DEF Phase
<1>2. alloc \in [Hardware -> Holders]
    BY DEF IInv, TypeOK
<1>3. CASE alloc' = alloc \/ alloc[h] # n
    <2>1. Held(n)' = Held(n)
        BY <1>2, <1>3 DEF Held
    <2> QED
        BY <1>1, <2>1, HeldStep
<1>4. CASE alloc' = [alloc EXCEPT ![h] = x] /\ alloc[h] = n
    <2>1. h \in Held(n) /\ Held(n)' = Held(n) \ {h}
        BY <1>2, <1>4 DEF Held
    <2> QED
        BY <1>1, <2>1, HeldStep
<1> QED
    BY <1>3, <1>4

(* If no call failed, the patch guards the object, or removes it when its
   server is free, or does nothing the contract sees. *)
LEMMA PatchContract ==
    ASSUME IInv, ~StaleReads, faults = 0, Patch, NEW n \in Nodes
    PROVE  ContractStep(n)
<1>1. Held(n)' = Held(n)
    BY DEF Patch, Held
<1>2. obj[n].finalizer \in BOOLEAN /\ obj'[n].finalizer \in BOOLEAN
    BY NextTypeOK DEF IInv, TypeOK, Machine, Next, Continue
<1>3. CASE n # cur \/ obj'[n].finalizer = obj[n].finalizer
    <2>1. Phase(n)' = Phase(n)
        BY <1>3, PatchFinalizer DEF IInv, Presence, TypeOK, Machine, Phase
    <2> QED
        BY <1>1, <2>1, HeldStep
<1>4. CASE n = cur /\ ~obj[n].finalizer /\ obj'[n].finalizer
    <2>1. Phase(n) = "unguarded" /\ Phase(n)' = "guarded"
        BY <1>4, PatchFinalizer DEF IInv, Presence, Phase
    <2> QED
        BY <1>1, <2>1 DEF ContractStep, Contract!Next, Contract!Guard, Phase
<1>5. CASE n = cur /\ obj[n].finalizer /\ ~obj'[n].finalizer
    <2>1. Removed /\ obj[n].exists /\ obj[n].deleting
        BY <1>5, PatchFinalizer DEF IInv, Running, Presence
    <2>2. Held(n) = {}
        <3>1. Held(n) \subseteq {after.providerID}
            BY <1>5 DEF Patch, IInv, Lossless, Known
        <3>2. after.providerID # None => alloc[after.providerID] # n
            BY <1>5, <2>1 DEF Patch, IInv, Fresh
        <3> QED
            BY <3>1, <3>2, MachineAssumption DEF Held
    <2>3. Phase(n) = "terminating" /\ Phase(n)' = "removed"
        BY <1>5, <2>1, PatchFinalizer DEF Phase
    <2> QED
        BY <1>1, <2>2, <2>3 DEF ContractStep, Contract!Next, Contract!Remove, Phase
<1> QED
    BY <1>2, <1>3, <1>4, <1>5

(* The deletion request is the contract's. *)
LEMMA DeleteContract ==
    ASSUME IInv, NEW m \in Nodes, RequestDelete(m), NEW n \in Nodes
    PROVE  ContractStep(n)
<1>1. Held(n)' = Held(n)
    BY DEF RequestDelete, Held
<1>2. CASE n # m
    <2>1. Phase(n)' = Phase(n)
        BY <1>2, RequestDeleteEffect DEF IInv, Phase
    <2> QED
        BY <1>1, <2>1, HeldStep
<1>3. CASE n = m
    <2>1. \/ Phase(n) = "unguarded" /\ Phase(n)' = "removed"
          \/ Phase(n) = "guarded" /\ Phase(n)' = "terminating"
        BY <1>3, RequestDeleteEffect DEF IInv, Phase
    <2> QED
        BY <1>1, <2>1 DEF ContractStep, Contract!Next, Contract!Delete, Phase
<1> QED
    BY <1>2, <1>3

(* A fault is never forgotten. *)
LEMMA FaultsGrow == IInv /\ [Next]_vars /\ faults' = 0 => faults = 0
<1> SUFFICES ASSUME IInv, [Next]_vars, faults' = 0 PROVE faults = 0
    OBVIOUS
<1>1. faults' = faults \/ Fault
    BY DEF Next, Reconcile, Continue, Environment, vars, AddFinalizer, StartReconcile, StartDelete, Begin,
       LookUp, AllocateMachine, AllocationRefused, DeleteMissing, DeleteFound, FreeMachine, Patch,
       FindFails, Crash, CacheSync, Prepare, ClusterGone, RequestDelete, PhoneHome, DeletionAges,
       OutsiderFrees, OutsiderAllocates, Answered
<1> QED
    BY <1>1, MachineAssumption DEF Fault, IInv, TypeOK

(* When every reconciliation sees what the one before it wrote, and as long as
   no call fails, each object follows the contract of its finalizer: servers are
   taken only under it, and the object goes only when its server is free. *)
THEOREM ContractKept ==
    ASSUME ~StaleReads PROVE Spec => KeepsContract
<1>1. Init => \A n \in Nodes : Contract(n)!Init
    BY MachineAssumption DEF Init, Blank, Held, Contract!Init
<1>2. IInv /\ [Next]_vars =>
        [faults' = 0 => \A n \in Nodes : Contract(n)!Next \/ UNCHANGED Contract(n)!vars]_vars
    <2> SUFFICES ASSUME IInv, [Next]_vars, faults' = 0, NEW n \in Nodes PROVE ContractStep(n)
        BY DEF ContractStep
    <2>1. faults = 0
        BY FaultsGrow
    <2>2. CASE UNCHANGED <<obj, alloc>>
        BY <2>2, HeldStep DEF Phase, Held
    <2>3. CASE AllocateMachine
        BY <2>3, AllocateContract
    <2>4. CASE Patch
        BY <2>1, <2>4, PatchContract
    <2>5. ASSUME NEW m \in Nodes, RequestDelete(m) PROVE ContractStep(n)
        BY <2>5, DeleteContract
    <2>6. None \in Holders \ Nodes /\ Neighbour \in Holders \ Nodes /\ Stranger \in Holders \ Nodes
        BY MachineAssumption DEF Holders
    <2>7. CASE FreeMachine
        <3>1. after.providerID \in Hardware
            BY <2>7 DEF FreeMachine, IInv, Running
        <3>2. alloc' = alloc \/ alloc' = [alloc EXCEPT ![after.providerID] = None]
            BY <2>7, <3>1 DEF FreeMachine, IInv, TypeOK
        <3> QED
            BY <2>6, <2>7, <3>1, <3>2, FreeContract DEF FreeMachine, objects
    <2>8. ASSUME NEW h \in Hardware, OutsiderFrees(h) \/ OutsiderAllocates(h) PROVE ContractStep(n)
        BY <2>6, <2>8, FreeContract DEF OutsiderFrees, OutsiderAllocates, objects
    <2>9. obj' = obj \/ alloc' = alloc
        BY Writers DEF AllocateMachine, FreeMachine, OutsiderFrees, OutsiderAllocates, objects
    <2> QED
        BY <2>2, <2>3, <2>4, <2>5, <2>7, <2>8, Writers
           DEF AllocateMachine, FreeMachine, OutsiderFrees, OutsiderAllocates, objects, Patch, RequestDelete
<1> QED
    BY <1>1, <1>2, Invariance, PTL DEF Spec, KeepsContract

-----------------------------------------------------------------------------
(* What the other controllers notice *)

(* A machine object comes to an end and never back, and a server is taken for a
   machine whose cluster was prepared when its reconciliation began. *)
LEMMA ControllerEffect ==
    ASSUME IInv, (\E n \in Nodes : Reconcile(n)) \/ Continue \/ FindFails
    PROVE  /\ UNCHANGED <<objC, prepared>>
           /\ \A n \in Nodes : obj'[n].exists => obj[n].exists
           /\ pc' = "allocate" => prepared # {}
           /\ (\E n \in Nodes : Reconcile(n)) => UNCHANGED alloc
           /\ \A h \in Hardware : alloc'[h] \in {alloc[h], None} \/ (pc = "allocate" /\ alloc'[h] = cur)
<1>1. /\ UNCHANGED <<objC, prepared>>
      /\ pc' = "allocate" => prepared # {}
      /\ (\E n \in Nodes : Reconcile(n)) => UNCHANGED alloc
    BY DEF Reconcile, Continue, AddFinalizer, StartReconcile, StartDelete, Begin, LookUp, AllocateMachine,
       AllocationRefused, DeleteMissing, DeleteFound, FreeMachine, Patch, FindFails, ToPatch, Forget, objects, env
<1>2. \A n \in Nodes : obj'[n].exists => obj[n].exists
    <2>1. CASE Patch
        BY <2>1, PatchFinalizer
    <2>2. CASE ~Patch
        <3>1. obj' = obj
            BY <2>2 DEF Reconcile, Continue, AddFinalizer, StartReconcile, StartDelete, Begin, LookUp,
               AllocateMachine, AllocationRefused, DeleteMissing, DeleteFound, FreeMachine, FindFails, objects
        <3> QED
            BY <3>1
    <2> QED
        BY <2>1, <2>2
<1>3. \A h \in Hardware : alloc'[h] \in {alloc[h], None} \/ (pc = "allocate" /\ alloc'[h] = cur)
    <2>1. CASE AllocateMachine
        BY <2>1 DEF AllocateMachine, Held, IInv, TypeOK
    <2>2. CASE FreeMachine
        BY <2>2 DEF FreeMachine, IInv, TypeOK
    <2>3. ASSUME ~AllocateMachine, ~FreeMachine PROVE alloc' = alloc
        BY <2>3 DEF Reconcile, Continue, AddFinalizer, StartReconcile, StartDelete, Begin, LookUp,
           AllocationRefused, DeleteMissing, DeleteFound, Patch, FindFails
    <2> QED
        BY <2>1, <2>2, <2>3
<1> QED
    BY <1>1, <1>2, <1>3

(* Only the beginning of a reconciliation decides to create a machine. *)
LEMMA ContinueEffect == Continue \/ FindFails => pc' # "allocate"
BY DEF Continue, LookUp, AllocateMachine, AllocationRefused, DeleteMissing, DeleteFound, FreeMachine, Patch,
   FindFails, ToPatch, Forget

(* With an up-to-date cache, a server is taken for an object that is there. *)
LEMMA AllocatingExists ==
    ASSUME IInv, ~StaleReads, pc = "allocate"
    PROVE  cur \in Nodes /\ obj[cur].exists
BY DEF IInv, Running, Fresh, Presence

(* ... and, as long as no call failed, an object that is gone holds none. *)
LEMMA GoneHoldsNothing ==
    ASSUME IInv, ~StaleReads, faults = 0, NEW n \in Nodes, ~obj[n].exists
    PROVE  Held(n) = {}
<1>1. ~obj[n].finalizer
    BY DEF IInv, Presence
<1>2. Known(n) = obj[n].providerID
    BY <1>1 DEF Known, IInv, Fresh, Running
<1>3. Held(n) \subseteq {obj[n].providerID}
    BY <1>2 DEF IInv, Lossless
<1> QED
    BY <1>1, <1>3, MachineAssumption DEF Held, IInv, Fresh, TypeOK, Machine
=============================================================================
