--------------------------- MODULE PoolRecreation ---------------------------
(***************************************************************************)
(* An AgentPool is deleted and made again under the same name while its    *)
(* pods and PVCs are still being garbage collected.                        *)
(*                                                                         *)
(* Pods and PVCs carry an owner reference with the UID of the AgentPool    *)
(* that made them (SetControllerReference), and labels with its name.      *)
(* Reconcile finds them by label and by name only, so the new pool sees    *)
(* the old pool's children as its own: it counts the pods, takes a PVC     *)
(* that is on its way out for one of its own, and may assign it.           *)
(*                                                                         *)
(* PoolLifecycle has the object's own life.  The finalizer goes in a       *)
(* reconcile of its own (handleDeletion), and the pool it belongs to is    *)
(* gone after it, so no scaling reconcile of the old pool is under way     *)
(* when the new one appears.                                               *)
(***************************************************************************)
EXTENDS AgentScaling

CONSTANT MaxPools   \* bound: AgentPools of that name, one after the other

\* With a PVC cache in sync no patch is sent for a PVC that is gone.
ASSUME RecreationAssumption == MaxPools \in Nat \ {0} /\ PvcLag = 0

VARIABLES
    uid,          \* the UID of the current AgentPool
    podMaker,     \* the UID of the pool that created each pod; 0: no pod
    pvcMaker,     \* the UID of the pool that created each PVC; 0: no PVC
    terminating   \* PVCs with a deletionTimestamp

makerVars == <<podMaker, pvcMaker>>
recreationVars == <<vars, uid, makerVars, terminating>>

RecreationInit ==
    /\ Init
    /\ uid = 1
    /\ podMaker = [p \in Pods |-> 0]
    /\ pvcMaker = [s \in Slots |-> 0]
    /\ terminating = {}

-----------------------------------------------------------------------------
\* What a step creates is the current pool's.
Maker(made, isThere, maker) == IF made THEN uid ELSE IF isThere THEN maker ELSE 0

Made ==
    /\ podMaker' = [p \in Pods |->
          Maker(phase[p] = "none" /\ phase'[p] # "none", phase'[p] # "none", podMaker[p])]
    /\ pvcMaker' = [s \in Slots |->
          Maker(pvcs[s] = AbsentPVC /\ pvcs'[s] # AbsentPVC, pvcs'[s] # AbsentPVC, pvcMaker[s])]

\* Pods do not start on a PVC that is missing or on its way out.
Mountable(p) == \A s \in vols[p] : pvcs[s] # AbsentPVC /\ s \notin terminating

\* A step of AgentScaling.
Scaling ==
    /\ Next
    /\ \A p \in Pods : phase[p] = "Pending" /\ phase'[p] = "Running" => Mountable(p)
    /\ Made
    /\ UNCHANGED <<uid, terminating>>

\* The pool is deleted and made again.
RecreatePool ==
    /\ pc = "idle" /\ uid < MaxPools
    /\ uid' = uid + 1
    /\ UNCHANGED <<vars, makerVars, terminating>>

-----------------------------------------------------------------------------
(* The garbage collector and the PVC protection controller.                *)

\* Mutant of OwnerReference: the object has none.
OwnerReference_None(maker) == 0

\* SetControllerReference, before every Create: the object's owner is the
\* pool that made it.
OwnerReference(maker) == maker

\* The owner is gone; 0 is an object without an owner reference.
Orphan(maker) == OwnerReference(maker) \notin {0, uid}

CollectPod(p) ==
    /\ Orphan(podMaker[p]) /\ p \notin deleting
    /\ DeletePod(p)
    /\ UNCHANGED <<queued, reserved, pvcVars, pc, localVars, faults, uid, terminating>>
    /\ Made

CollectPVC(s) ==
    /\ Orphan(pvcMaker[s]) /\ s \notin terminating
    /\ terminating' = terminating \cup {s}
    /\ UNCHANGED <<vars, uid, makerVars>>

\* A PVC that a running pod mounts is kept until the pod is done; a pod that
\* has not been scheduled does not hold it.
RemovePVC(s) ==
    /\ s \in terminating
    /\ \A p \in Pods : phase[p] = "Running" => s \notin vols[p]
    /\ terminating' = terminating \ {s}
    /\ LabelPVC(s, AbsentPVC)
    /\ UNCHANGED <<kubeVars, adoVars, pc, localVars, faults, uid>>
    /\ Made

RecreationNext ==
    \/ Scaling \/ RecreatePool
    \/ \E p \in Pods : CollectPod(p)
    \/ \E s \in Slots : CollectPVC(s) \/ RemovePVC(s)

RecreationSpec == RecreationInit /\ [][RecreationNext]_recreationVars

\* As in AgentScaling, and the collectors do their work.  A PVC may stay as
\* long as a pod that has been scheduled waits for it.
RecreationFairness ==
    /\ WF_recreationVars(Scaling /\ Reconcile)
    /\ \A p \in Pods :
          /\ WF_recreationVars(Scaling /\ PodStep(p))
          /\ WF_recreationVars(CollectPod(p))
    /\ \A s \in Slots :
          /\ WF_recreationVars(CollectPVC(s))
          /\ WF_recreationVars(RemovePVC(s) /\ \A p \in LivePods : s \notin vols[p])
    /\ WF_recreationVars(Scaling /\ DeliverPods) /\ WF_recreationVars(Scaling /\ WatchPVCs)
    /\ \A j \in Jobs :
          /\ SF_recreationVars(Scaling /\ AssignJob(j))
          /\ WF_recreationVars(Scaling /\ FinishJob(j))

FairRecreationSpec == RecreationSpec /\ RecreationFairness

-----------------------------------------------------------------------------
(* Properties.                                                             *)

\* Pods of a pool that is gone do not stay: their jobs end or their grace
\* period does, whatever the new pool does with them (SetControllerReference).
FormerPodsGo ==
    \A p \in Pods : podMaker[p] \notin {0, uid} ~> podMaker[p] \in {0, uid}
=============================================================================
