------------------------- MODULE ScalingLeaseProofs -------------------------
(***************************************************************************)
(* AgentScaling and the lease protocol of CacheLease, for every lag of the *)
(* caches, every number of faults, and with lost replies.  A call that     *)
(* acts on a wrong reading (Misled) may break the protocol; every other    *)
(* step of the controller, of the pods and of Azure DevOps is one of its   *)
(* steps or leaves it alone, and keeps the labels a lock.  So no slot is   *)
(* counted as free while a live pod has it or the pod in creation does.    *)
(***************************************************************************)
EXTENDS ScalingCacheProofs

-----------------------------------------------------------------------------
(* The slots in hand.                                                      *)

\* The name of the pod being created is on every slot in hand, also while they
\* are given back; and a create has in hand every slot with that name, which
\* was on no label when it was drawn.
HandInv ==
    /\ pc \in {"assign", "rollback"} =>
          \A s \in slots : podName \in Pods /\ pvcs[s].pod = podName
    /\ pc = "assign" => \A s \in Slots : pvcs[s].pod = podName => s \in slots

Inv == CleanupInv /\ LabelInv /\ SlotsInv /\ HandInv

\* A release of slot s touches no other slot.
LEMMA ReleaseEffect ==
    ASSUME TypeInv, NEW s \in Slots, NEW seen, ReleasePVC(s, seen)
    PROVE  \A t \in Slots : t # s => pvcs'[t] = pvcs[t]
BY DEF ReleasePVC, LabelPVC, WritePVCs, TypeInv, TypeOK, PvcTypeOK

\* An assignment puts the name on slot s and touches no other slot.
LEMMA AssignEffect ==
    ASSUME TypeInv, NEW s \in Slots, AssignPVC(s, podName)
    PROVE  pvcs'[s].pod = podName /\ \A t \in Slots : t # s => pvcs'[t] = pvcs[t]
BY DEF AssignPVC, LabelPVC, WritePVCs, AssignedPVC, TypeInv, TypeOK, PvcTypeOK

\* Every step keeps HandInv.
LEMMA HandStep == Inv /\ [Next]_vars => HandInv'
<1> SUFFICES ASSUME Inv, [Next]_vars PROVE HandInv'
  OBVIOUS
<1> USE DEF Inv, CleanupInv
<1>0. slots \subseteq Slots
  BY DEF TypeInv, TypeOK
<1>1. CASE CreateAgentPod
  <2>1. UNCHANGED <<pvcs, slots>> /\ slots = {} /\ (pc' = "assign" => podName' \in FreshNames)
    BY <1>1 DEF CreateAgentPod, SlotsInv, pvcVars
  <2> QED
    BY <2>1 DEF HandInv, FreshNames
<1>2. CASE FindAndAssignPVC
  <2>1. pc = "assign" /\ podName \in Pods /\ podName' = podName
    BY <1>2 DEF FindAndAssignPVC, NewName
  <2>2. \A t \in slots : pvcs[t].pod = podName
    BY <2>1 DEF HandInv
  <2>3. ASSUME NEW s \in Slots, AssignPVC(s, podName)
        PROVE  /\ \A t \in slots \cup {s} : pvcs'[t].pod = podName
               /\ \A t \in Slots : pvcs'[t].pod = podName => t \in slots \cup {s}
    <3>1. pvcs'[s].pod = podName /\ \A t \in Slots : t # s => pvcs'[t] = pvcs[t]
      BY <2>3, AssignEffect
    <3> QED
      BY <1>0, <2>1, <2>2, <3>1 DEF HandInv
  <2>4. \/ pc' = "rollback" /\ UNCHANGED <<pvcs, slots>>
        \/ \E s \in Slots : AssignPVC(s, podName) /\ slots' = slots \cup {s} /\ UNCHANGED pc
        \/ \E s \in Slots : AssignPVC(s, podName) /\ pc' = "rollback" /\ UNCHANGED slots
    BY <1>2 DEF FindAndAssignPVC, FreeSlots, pvcVars
  <2>5. CASE pc' = "rollback" /\ UNCHANGED <<pvcs, slots>>
    BY <2>1, <2>2, <2>5 DEF HandInv
  <2>6. ASSUME NEW s \in Slots, AssignPVC(s, podName), slots' = slots \cup {s}, UNCHANGED pc
        PROVE  HandInv'
    BY <2>1, <2>3, <2>6 DEF HandInv
  <2>7. ASSUME NEW s \in Slots, AssignPVC(s, podName), pc' = "rollback", UNCHANGED slots
        PROVE  HandInv'
    BY <2>1, <2>3, <2>7 DEF HandInv
  <2> QED
    BY <2>4, <2>5, <2>6, <2>7
<1>3. CASE CreatePod
  <2>1. pc = "assign" /\ pc' \in {"scale", "rollback"} /\ UNCHANGED pvcs
    BY <1>3 DEF CreatePod, pvcVars
  <2>2. pc' = "rollback" => UNCHANGED <<podName, slots>>
    BY <1>3 DEF CreatePod
  <2> QED
    BY <2>1, <2>2 DEF HandInv
<1>4. CASE RollbackSlot
  <2>1. PICK s \in slots : slots' = slots \ {s} /\
          (UNCHANGED pvcs \/ ReleasePVC(s, PvcView[s]))
    BY <1>4 DEF RollbackSlot, pvcVars
  <2>2. \A t \in Slots : t # s => pvcs'[t] = pvcs[t]
    BY <1>0, <2>1, ReleaseEffect
  <2>3. pc = "rollback" /\ UNCHANGED <<pc, podName>>
    BY <1>4 DEF RollbackSlot
  <2> QED
    BY <1>0, <2>1, <2>2, <2>3 DEF HandInv
<1>5. CASE \/ EnsurePVCPool \/ GetJobStatus \/ ListPods \/ CleanupPod \/ ReleaseSlot
           \/ DeleteCompletedPod \/ CleanupDone
           \/ CreateFailed \/ ScaleDown \/ ScaleDone \/ Crash
  BY <1>5 DEF EnsurePVCPool, GetJobStatus, ListPods, CleanupPod, ReleaseSlot,
              DeleteCompletedPod, CleanupDone, CreateFailed, ScaleDown, ScaleDone, Crash,
              HandInv
<1>6. CASE \/ DeliverPods \/ WatchPVCs
           \/ \E p \in Pods : PodStep(p) \/ FailPod(p)
           \/ \E j \in Jobs : SubmitJob(j) \/ CancelJob(j) \/ AssignJob(j) \/ FinishJob(j)
           \/ UNCHANGED vars
  <2>1. UNCHANGED <<pvcs, pc, podName, slots>>
    BY <1>6 DEF DeliverPods, WatchPVCs, DeliverPVCs, PodStep, StartPod, ExitPod, KillPod,
                ReapPod, FailPod, SubmitJob, CancelJob, AssignJob, FinishJob, vars,
                pvcVars, localVars
  <2> QED
    BY <2>1 DEF HandInv
<1> QED
  BY <1>1, <1>2, <1>3, <1>4, <1>5, <1>6 DEF Next, Reconcile

\* Inv is an invariant.
LEMMA InvInvariant == Spec => []Inv
<1>1. Init => SlotsInv /\ HandInv
  BY DEF Init, SlotsInv, HandInv
<1>2. Inv <=> CleanupInv /\ LabelInv /\ SlotsInv /\ HandInv
  BY DEF Inv
<1> QED
  BY <1>1, <1>2, HandStep, SlotsStep, CleanupInvariant, LabelInvariant, TypeInvariant, PTL
     DEF Spec

-----------------------------------------------------------------------------
(* The steps of the controller and of pods, seen through the mapping.      *)

LeaseStep == Lease!Next \/ UNCHANGED Lease!vars

\* Only what lives, what it mounts and the names on the PVCs show.
SameOwners == \A s \in Slots : pvcs'[s].pod = pvcs[s].pod
SamePod(p) == (phase'[p] \in Live <=> phase[p] \in Live) /\ (phase[p] \in Live => vols'[p] = vols[p])

\* A step that changes none of them is invisible.
LEMMA LeaseStutter ==
    ASSUME SameOwners, \A p \in Pods : SamePod(p)
    PROVE  LeaseStep
<1>1. [s \in Slots |-> pvcs'[s].pod] = [s \in Slots |-> pvcs[s].pod]
  BY DEF SameOwners
<1>2. LivePods' = LivePods
  BY DEF LivePods, SamePod
<1>3. [p \in Pods |-> IF phase'[p] \in Live THEN vols'[p] ELSE {}]
        = [p \in Pods |-> IF phase[p] \in Live THEN vols[p] ELSE {}]
  BY DEF SamePod
<1> QED
  BY <1>1, <1>2, <1>3 DEF LeaseStep, Lease!vars

\* A pod that stops being live goes down.
LEMMA LeaseDown ==
    ASSUME NEW p \in Pods, phase[p] \in Live, phase'[p] \notin Live,
           \A q \in Pods \ {p} : SamePod(q), SameOwners
    PROVE  LeaseStep
<1>1. [s \in Slots |-> pvcs'[s].pod] = [s \in Slots |-> pvcs[s].pod]
  BY DEF SameOwners
<1>2. p \in LivePods /\ LivePods' = LivePods \ {p}
  BY DEF LivePods, SamePod
<1>3. [q \in Pods |-> IF phase'[q] \in Live THEN vols'[q] ELSE {}]
        = [[q \in Pods |-> IF phase[q] \in Live THEN vols[q] ELSE {}] EXCEPT ![p] = {}]
  BY DEF SamePod
<1>4. Lease!GoDown(p)
  BY <1>1, <1>2, <1>3 DEF Lease!GoDown
<1> QED
  BY <1>4 DEF LeaseStep, Lease!Next

\* Deleting a pod is invisible or takes it down.
LEMMA LeaseDelete ==
    ASSUME TypeInv, NEW p \in Pods, RemovePod(p) \/ DeletePod(p), UNCHANGED pvcs
    PROVE  LeaseStep
<1>1. SameOwners
  BY DEF SameOwners
<1>2. \A q \in Pods \ {p} : SamePod(q)
  BY DEF RemovePod, DeletePod, WritePhase, SamePod, TypeInv, TypeOK
<1>3. phase'[p] \notin Live \/ SamePod(p)
  BY DEF RemovePod, DeletePod, WritePhase, SamePod, TypeInv, TypeOK, Live
<1>4. CASE SamePod(p)
  BY <1>1, <1>2, <1>4, LeaseStutter
<1>5. CASE phase[p] \in Live /\ phase'[p] \notin Live
  BY <1>1, <1>2, <1>5, LeaseDown
<1> QED
  BY <1>3, <1>4, <1>5 DEF SamePod

\* releasePVC of a slot that carries the pod's name, or none, gives the slot back
\* or does nothing.
LEMMA LeaseRelease ==
    ASSUME TypeInv, UNCHANGED <<phase, vols>>, podName \in Pods, phase[podName] \notin Live,
           NEW s \in Slots, pvcs[s].pod \in {podName, None}, NEW seen, ReleasePVC(s, seen)
    PROVE  LeaseStep
<1>1. \A t \in Slots : t # s => pvcs'[t] = pvcs[t]
  BY ReleaseEffect
<1>2. pvcs'[s].pod \in {None, pvcs[s].pod}
  BY DEF ReleasePVC, LabelPVC, WritePVCs, ReleasePatch, TypeInv, TypeOK, PvcTypeOK
<1>3. LivePods' = LivePods /\ podName \notin LivePods
  BY DEF LivePods
<1>4. \A p \in Pods : SamePod(p)
  BY DEF SamePod
<1>5. CASE pvcs'[s].pod = pvcs[s].pod
  <2>1. SameOwners
    BY <1>1, <1>5 DEF SameOwners
  <2> QED
    BY <1>4, <2>1, LeaseStutter
<1>6. CASE pvcs'[s].pod = None /\ pvcs[s].pod = podName
  <2>1. [t \in Slots |-> pvcs'[t].pod] = [[t \in Slots |-> pvcs[t].pod] EXCEPT ![s] = None]
    BY <1>1, <1>6
  <2>2. podName # None
    BY PvcPoolAssumption
  <2>3. Lease!Release(s)
    BY <1>3, <1>6, <2>1, <2>2 DEF Lease!Release
  <2> QED
    BY <2>3 DEF LeaseStep, Lease!Next
<1> QED
  BY <1>2, <1>5, <1>6

\* findAndAssignPVCs' patch of a slot that is free claims it.
LEMMA LeaseClaim ==
    ASSUME TypeInv, NewName, UNCHANGED <<phase, vols>>,
           NEW s \in Slots, pvcs[s].pod = None, AssignPVC(s, podName)
    PROVE  LeaseStep
<1>1. [t \in Slots |-> pvcs'[t].pod] = [[t \in Slots |-> pvcs[t].pod] EXCEPT ![s] = podName]
  BY DEF AssignPVC, LabelPVC, WritePVCs, AssignedPVC, TypeInv, TypeOK, PvcTypeOK
<1>2. podName \in Pods /\ podName \notin LivePods /\ LivePods' = LivePods
  BY DEF NewName, LivePods, Live
<1>3. PICK a \in Pods : a = podName
  BY <1>2
<1>4. Lease!Claim(s, a)
  BY <1>1, <1>2, <1>3 DEF Lease!Claim
<1> QED
  BY <1>4 DEF LeaseStep, Lease!Next

\* A pod is created with a complete set: the slots that carry its name.
LEMMA LeaseUp ==
    ASSUME Inv, CreatePod, PodCreated
    PROVE  LeaseStep
<1> USE DEF Inv, CleanupInv
<1>1. NewName /\ UNCHANGED pvcs
  BY DEF CreatePod, pvcVars
<1>2. slots \subseteq Slots /\ phase \in [Pods -> Phases] /\ vols \in [Pods -> SUBSET Slots]
  BY DEF TypeInv, TypeOK
<1>3. Lease!Held(podName) = slots
  BY <1>2 DEF Lease!Held, CreatePod, HandInv
<1>4. Lease!Complete(slots)
  BY DEF Lease!Complete, CreatePod, Unassigned, SlotsInv, OnePerTemplate
<1>5. /\ phase' = [phase EXCEPT ![podName] = "Pending"]
      /\ vols' = [vols EXCEPT ![podName] = slots]
  BY DEF PodCreated, WritePhase
<1>6. podName \in Pods /\ podName \notin LivePods /\ LivePods' = LivePods \cup {podName}
  BY <1>1, <1>2, <1>5 DEF NewName, LivePods, Live
<1>7. [p \in Pods |-> IF phase'[p] \in Live THEN vols'[p] ELSE {}]
        = [[p \in Pods |-> IF phase[p] \in Live THEN vols[p] ELSE {}]
             EXCEPT ![podName] = slots]
  BY <1>1, <1>2, <1>5 DEF NewName, Live
<1>8. PICK a \in Pods : a = podName
  BY <1>6
<1>9. Lease!ComeUp(a)
  BY <1>1, <1>3, <1>4, <1>6, <1>7, <1>8 DEF Lease!ComeUp
<1> QED
  BY <1>9 DEF LeaseStep, Lease!Next

\* A slot about to be released, by a cleanup or a rollback that is not misled,
\* belongs to a pod that is not live, or to nobody.
LEMMA InHand ==
    ASSUME Inv, ~Misled, ReleaseSlot \/ RollbackSlot
    PROVE  /\ \A s \in slots : s \in Slots /\ pvcs[s].pod \in {podName, None}
           /\ slots # {} => podName \in Pods /\ phase[podName] \notin Live
<1> USE DEF Inv, CleanupInv, TypeInv, TypeOK
<1>1. CASE ReleaseSlot
  <2>1. pc = "release" /\ podName \in completed
    BY <1>1 DEF ReleaseSlot
  <2> QED
    BY <2>1 DEF Misled, CleanupSparesLive
<1>2. CASE RollbackSlot
  BY <1>2 DEF RollbackSlot, Misled, HandInv
<1> QED
  BY <1>1, <1>2

\* A create that is not misled claims a slot that nobody has.
LEMMA FreeInHand ==
    ASSUME Inv, ~Misled, FindAndAssignPVC
    PROVE  UNCHANGED pvcs \/ \E s \in Slots : pvcs[s].pod = None /\ AssignPVC(s, podName)
<1>1. \/ UNCHANGED pvcs
      \/ \E c \in Unassigned : \E s \in FreeSlots(c) : AssignPVC(s, podName)
  BY DEF FindAndAssignPVC, IsNextTemplate, pvcVars
<1>2. \A c \in Unassigned : \A s \in FreeSlots(c) : s \in Slots /\ pvcs[s].pod = None
  BY DEF FindAndAssignPVC, Misled, FreeSlots
<1> QED
  BY <1>1, <1>2

\* Such a step also leaves the labels a lock.
LEMMA LockStep == Inv /\ Locked /\ ~Misled /\ [Next]_vars => Locked'
<1> SUFFICES ASSUME Inv, Locked, ~Misled, [Next]_vars PROVE Locked'
  OBVIOUS
<1> USE DEF Inv, CleanupInv
<1>a. Mounts
  BY MountHistory
<1>b. /\ \A p \in Pods : vols[p] \subseteq Slots
      /\ slots \subseteq Slots
  BY DEF TypeInv, TypeOK
<1>c. \A p \in Pods : phase[p] \in Live => \A s \in vols[p] : s \in Slots /\ pvcs[s].pod = p
  BY <1>b DEF Locked, LivePods
<1>0. ASSUME ~CreatePod,
             \A s \in Slots : \A p \in Pods :
                 pvcs[s].pod = p /\ phase[p] \in Live => pvcs'[s].pod = p
      PROVE  Locked'
  <2> SUFFICES ASSUME NEW p \in Pods, phase'[p] \in Live, NEW s \in vols'[p]
               PROVE  pvcs'[s].pod = p
    BY DEF Locked, LivePods
  <2>1. phase[p] \in Live /\ vols'[p] = vols[p]
    BY <1>0, <1>a DEF Mounts
  <2> QED
    BY <1>0, <1>c, <2>1
<1>1. CASE EnsurePVCPool /\ ~CreatePod
  <2>1. PICK todo : EnsureSlots(todo)
    BY <1>1 DEF EnsurePVCPool
  <2>2. \A s \in Slots : pvcs[s] # AbsentPVC => pvcs'[s] = pvcs[s]
    BY <2>1 DEF EnsureSlots, WritePVCs
  <2>3. \A s \in Slots, p \in Pods : pvcs[s].pod = p => pvcs'[s].pod = p
    BY <2>2, PvcPoolAssumption DEF AbsentPVC
  <2> QED
    BY <1>0, <1>1, <2>3
<1>2. CASE (ReleaseSlot \/ RollbackSlot) /\ ~CreatePod
  <2>1. PICK s \in slots : UNCHANGED pvcs \/ \E seen : ReleasePVC(s, seen)
    BY <1>2 DEF ReleaseSlot, RollbackSlot, pvcVars
  <2>2. \A t \in Slots : t # s => pvcs'[t] = pvcs[t]
    BY <1>b, <2>1, ReleaseEffect
  <2>3. phase[podName] \notin Live /\ pvcs[s].pod \in {podName, None}
    BY <1>2, InHand
  <2> QED
    BY <1>0, <1>2, <2>2, <2>3, PvcPoolAssumption
<1>3. CASE FindAndAssignPVC /\ ~CreatePod
  <2>1. CASE UNCHANGED pvcs
    BY <1>0, <1>3, <2>1
  <2>2. ASSUME NEW s \in Slots, pvcs[s].pod = None, AssignPVC(s, podName) PROVE Locked'
    <3>1. \A t \in Slots : t # s => pvcs'[t] = pvcs[t]
      BY <2>2, AssignEffect
    <3> QED
      BY <1>0, <1>3, <2>2, <3>1, PvcPoolAssumption
  <2> QED
    BY <1>3, <2>1, <2>2, FreeInHand
<1>4. CASE CreatePod
  <2>1. UNCHANGED pvcs /\ pc = "assign"
    BY <1>4 DEF CreatePod, pvcVars
  <2> SUFFICES ASSUME NEW p \in Pods, phase'[p] \in Live, NEW s \in vols'[p]
               PROVE  pvcs[s].pod = p
    BY <2>1 DEF Locked, LivePods
  <2>2. CASE phase[p] \in Live /\ vols'[p] = vols[p]
    BY <1>c, <2>2
  <2>3. CASE PodCreated /\ p = podName
    <3>1. vols'[p] = slots
      BY <2>3 DEF PodCreated, TypeInv, TypeOK
    <3> QED
      BY <2>1, <2>3, <3>1 DEF HandInv
  <2> QED
    BY <1>a, <2>2, <2>3 DEF Mounts
<1>5. CASE /\ ~CreatePod
           /\ \/ GetJobStatus \/ ListPods \/ CleanupPod \/ DeleteCompletedPod \/ CleanupDone
              \/ CreateAgentPod \/ CreateFailed \/ ScaleDown \/ ScaleDone \/ Crash
              \/ DeliverPods \/ WatchPVCs
              \/ \E p \in Pods : PodStep(p) \/ FailPod(p)
              \/ \E j \in Jobs : SubmitJob(j) \/ CancelJob(j) \/ AssignJob(j) \/ FinishJob(j)
              \/ UNCHANGED vars
  <2>1. UNCHANGED pvcs
    BY <1>5 DEF GetJobStatus, ListPods, CleanupPod, DeleteCompletedPod, CleanupDone,
                CreateAgentPod, CreateFailed, ScaleDown, ScaleDone, Crash, DeliverPods,
                WatchPVCs, DeliverPVCs, PodStep, StartPod, ExitPod, KillPod, ReapPod,
                FailPod, SubmitJob, CancelJob, AssignJob, FinishJob, vars, pvcVars
  <2> QED
    BY <1>0, <1>5, <2>1
<1> QED
  BY <1>1, <1>2, <1>3, <1>4, <1>5 DEF Next, Reconcile

\* Every step that does not act on a wrong reading is a step of the lease
\* protocol, or invisible to it.
LEMMA LeaseSimulation == Inv /\ ~Misled /\ [Next]_vars => LeaseStep
<1> SUFFICES ASSUME Inv, ~Misled, [Next]_vars PROVE LeaseStep
  OBVIOUS
<1> USE DEF Inv, CleanupInv
<1>0. ASSUME UNCHANGED <<phase, vols, pvcs>> PROVE LeaseStep
  BY <1>0, LeaseStutter DEF SameOwners, SamePod
<1>1. CASE EnsurePVCPool
  <2>1. PICK todo : EnsureSlots(todo)
    BY <1>1 DEF EnsurePVCPool
  <2>2. SameOwners
    BY <2>1 DEF EnsureSlots, WritePVCs, SameOwners, AbsentPVC, FreePVC
  <2>3. \A p \in Pods : SamePod(p)
    BY <1>1 DEF EnsurePVCPool, kubeVars, SamePod
  <2> QED
    BY <2>2, <2>3, LeaseStutter
<1>2. CASE ReleaseSlot \/ RollbackSlot
  <2>1. UNCHANGED <<phase, vols>>
    BY <1>2 DEF ReleaseSlot, RollbackSlot, kubeVars
  <2>2. PICK s \in slots : UNCHANGED pvcs \/ \E seen : ReleasePVC(s, seen)
    BY <1>2 DEF ReleaseSlot, RollbackSlot, pvcVars
  <2>3. s \in Slots /\ podName \in Pods /\ phase[podName] \notin Live
        /\ pvcs[s].pod \in {podName, None}
    BY <1>2, InHand
  <2> QED
    BY <1>0, <2>1, <2>2, <2>3, LeaseRelease
<1>3. CASE FindAndAssignPVC
  <2>1. NewName /\ UNCHANGED <<phase, vols>>
    BY <1>3 DEF FindAndAssignPVC, kubeVars
  <2>2. UNCHANGED pvcs \/ \E s \in Slots : pvcs[s].pod = None /\ AssignPVC(s, podName)
    BY <1>3, FreeInHand
  <2> QED
    BY <1>0, <2>1, <2>2, LeaseClaim
<1>4. CASE CreatePod
  BY <1>0, <1>4, LeaseUp DEF CreatePod, kubeVars, pvcVars
<1>5. CASE DeleteCompletedPod
  <2>1. podName \in Pods /\ UNCHANGED pvcs
    BY <1>5 DEF DeleteCompletedPod, pvcVars, TypeInv
  <2> QED
    BY <1>0, <1>5, <2>1, LeaseDelete DEF DeleteCompletedPod, kubeVars
<1>6. CASE ScaleDown
  <2>1. ScaleDownCandidates \subseteq Pods /\ UNCHANGED pvcs
    BY <1>6 DEF ScaleDown, ScaleDownCandidates, pvcVars, TypeInv, TypeOK
  <2> QED
    BY <1>0, <1>6, <2>1, LeaseDelete DEF ScaleDown, kubeVars
<1>7. ASSUME NEW p \in Pods, PodStep(p) \/ FailPod(p) PROVE LeaseStep
  <2>1. SameOwners /\ UNCHANGED pvcs
    BY <1>7 DEF PodStep, StartPod, ExitPod, KillPod, ReapPod, FailPod, pvcVars, SameOwners
  <2>2. CASE ReapPod(p)
    BY <2>1, <2>2, LeaseDelete DEF ReapPod
  <2>3. CASE StartPod(p)
    <3>1. \A q \in Pods : SamePod(q)
      BY <2>3 DEF StartPod, WritePhase, SamePod, TypeInv, TypeOK, Live
    <3> QED
      BY <2>1, <3>1, LeaseStutter
  <2>4. CASE ExitPod(p) \/ KillPod(p) \/ FailPod(p)
    <3>1. phase[p] \in Live /\ phase'[p] \notin Live /\ \A q \in Pods \ {p} : SamePod(q)
      BY <2>4 DEF ExitPod, KillPod, FailPod, WritePhase, SamePod, TypeInv, TypeOK, Live, Terminal
    <3> QED
      BY <2>1, <3>1, LeaseDown
  <2> QED
    BY <1>7, <2>2, <2>3, <2>4 DEF PodStep
<1>8. CASE \/ GetJobStatus \/ ListPods \/ CleanupPod \/ CleanupDone \/ CreateAgentPod
           \/ CreateFailed \/ ScaleDone \/ Crash \/ DeliverPods \/ WatchPVCs
           \/ \E j \in Jobs : SubmitJob(j) \/ CancelJob(j) \/ AssignJob(j) \/ FinishJob(j)
           \/ UNCHANGED vars
  <2>1. UNCHANGED <<phase, vols, pvcs>>
    BY <1>8 DEF GetJobStatus, ListPods, CleanupPod, CleanupDone, CreateAgentPod,
                CreateFailed, ScaleDone, Crash, DeliverPods, WatchPVCs, DeliverPVCs,
                SubmitJob, CancelJob, AssignJob, FinishJob, kubeVars, pvcVars, vars
  <2> QED
    BY <1>0, <2>1
<1> QED
  BY <1>1, <1>2, <1>3, <1>4, <1>5, <1>6, <1>7, <1>8 DEF Next, Reconcile

\* However far the caches trail, whatever fails and whichever replies are lost,
\* there are three ways to break the protocol and no other: claiming a PVC
\* that a stale List shows as free, releasing one that a stale List shows as a
\* finished pod's, and rolling back a Create that took effect.
THEOREM LeaseUnless == Spec => LeaseUnlessMisled
<1>1. Inv /\ [Next]_vars =>
        [Locked /\ ~Misled => Locked' /\ (Lease!Next \/ UNCHANGED Lease!vars)]_vars
  BY LockStep, LeaseSimulation DEF LeaseStep
<1> QED
  BY <1>1, InvInvariant, PTL DEF Spec, LeaseUnlessMisled

\* So unless some call acts on such a reading the reconciler implements the lease
\* protocol: only free slots are claimed, pods come up with exactly the complete
\* set that carries their name, a slot is released only after its holder, and
\* "each agent pod gets an exclusive cache".
THEOREM LeaseRefined == Spec => <>Misled \/ (LeaseKept /\ []Exclusive)
<1>1. Init => Lease!Init
  <2> SUFFICES ASSUME Init PROVE Lease!Init
    OBVIOUS
  <2>1. [s \in Slots |-> pvcs[s].pod] = [s \in Slots |-> None]
    BY DEF Init, PvcInit, AbsentPVC
  <2>2. LivePods = {}
    BY DEF Init, LivePods, Live
  <2>3. [p \in Pods |-> IF phase[p] \in Live THEN vols[p] ELSE {}] = [p \in Pods |-> {}]
    BY DEF Init
  <2> QED
    BY <2>1, <2>2, <2>3 DEF Lease!Init
<1>2. Init => Locked
  BY DEF Init, Locked, LivePods, Live
<1>3. Inv /\ ~Misled /\ [Next]_vars => [Lease!Next]_(Lease!vars)
  BY LeaseSimulation DEF LeaseStep
<1>4. Locked => Exclusive
  BY DEF Locked, LivePods, Exclusive
<1> QED
  BY <1>1, <1>2, <1>3, <1>4, LockStep, InvInvariant, PTL DEF Spec, LeaseKept, Lease!Spec

-----------------------------------------------------------------------------
(* Slots on offer and slots in use.                                        *)

\* The least of a set of numbers is there, and is the bound it should be.
LEMMA MinBound ==
    ASSUME NEW S \in SUBSET Nat, NEW x \in S
    PROVE  Min(S) \in S /\ Min(S) <= x
<1>1. PICK m \in S : \A y \in S : ~(<<y, m>> \in OpToRel(<, Nat))
  BY NatLessThanWellFounded, WFMin, Zenon
<1>2. \A y \in S : m <= y
  <2> SUFFICES ASSUME NEW y \in S PROVE m <= y
    OBVIOUS
  <2>1. m \in Nat /\ y \in Nat /\ ~(<<y, m>> \in OpToRel(<, Nat))
    BY <1>1, Zenon
  <2> QED
    BY <2>1 DEF OpToRel
<1> QED
  BY <1>2 DEF Min

SlotsOf(c) == {s \in Slots : s[1] = c}

\* A template has no more than maxAgents slots.
LEMMA SlotsOfTemplate ==
    ASSUME NEW c
    PROVE  /\ IsFiniteSet(SlotsOf(c)) /\ Cardinality(SlotsOf(c)) \in Nat
           /\ Cardinality(SlotsOf(c)) <= MaxAgents
<1> DEFINE N == 0..(MaxAgents - 1)
           number == [s \in SlotsOf(c) |-> s[2]]
<1>1. MaxAgents \in Nat \ {0}
  BY PvcPoolAssumption
<1>2. IsFiniteSet(N) /\ Cardinality(N) = MaxAgents
  BY <1>1, FS_Interval
<1>3. number \in [SlotsOf(c) -> N]
  BY DEF SlotsOf, Slots
<1>4. \A s, t \in SlotsOf(c) : number[s] = number[t] => s = t
  BY DEF SlotsOf, Slots
<1>5. number \in Injection(SlotsOf(c), N)
  BY <1>3, <1>4 DEF Injection, IsInjective
<1> HIDE DEF number, N
<1>6. IsFiniteSet(SlotsOf(c)) /\ Cardinality(SlotsOf(c)) <= Cardinality(N)
  BY <1>2, <1>5, FS_Injection
<1> QED
  BY <1>2, <1>6, FS_CardinalityType

\* The pods that a slot of every template, or of those served so far, is kept for.
Users == LivePods \cup InCreation

\* With a cache that has caught up, every live pod has a slot of each template
\* that no other pod has and no List of free slots returns, and the pod in
\* creation has one of each template that is served.
LEMMA SlotsInUse ==
    ASSUME Inv, Locked, pvcLag = <<>>, FullyCached, NEW c \in Templates,
           InCreation # {} => \E s \in slots : s[1] = c
    PROVE  \E f : f \in Injection(Users, SlotsOf(c) \ FreeSlots(c))
<1> USE DEF Inv, CleanupInv
<1> DEFINE mount == [p \in Users |-> CHOOSE s \in Slots : s[1] = c /\ pvcs[s].pod = p]
<1>1. PvcView = pvcs
  BY DEF PvcView, View
<1>2. \A p \in LivePods : /\ p \in Pods /\ phase[p] \in Live
                          /\ vols[p] \subseteq Slots
  BY DEF LivePods, TypeInv, TypeOK
<1>3. \A p \in LivePods : \E s \in Slots : s[1] = c /\ pvcs[s].pod = p
  BY <1>2 DEF FullyCached, Locked
<1>4. \A p \in InCreation : p \in Pods /\ \E s \in Slots : s[1] = c /\ pvcs[s].pod = p
  BY DEF InCreation, HandInv, TypeInv, TypeOK
<1>5. \A p \in Users : p \in Pods /\ p # None
  BY <1>2, <1>4, PvcPoolAssumption DEF Users
<1>6. \A p \in Users : mount[p] \in Slots /\ mount[p][1] = c /\ pvcs[mount[p]].pod = p
  BY <1>3, <1>4 DEF Users
<1> HIDE DEF mount
<1>7. \A p \in Users : mount[p] \in SlotsOf(c) \ FreeSlots(c)
  BY <1>1, <1>5, <1>6 DEF SlotsOf, FreeSlots, LabelInv, LabelsAgree, Agree
<1>8. mount \in [Users -> SlotsOf(c) \ FreeSlots(c)]
  BY <1>7 DEF mount
<1>9. \A p, q \in Users : mount[p] = mount[q] => p = q
  BY <1>6
<1>10. mount \in Injection(Users, SlotsOf(c) \ FreeSlots(c))
  BY <1>8, <1>9 DEF Injection, IsInjective, mount
<1> QED
  BY <1>10

\* No slot is both on offer and in use.  The template to look at is one that the
\* pod in creation has a slot of, if there is such a pod.
LEMMA SlotsCounted ==
    ASSUME Inv, FullyCached
    PROVE  SlotsNotOversold
<1> SUFFICES ASSUME NumCaches > 0, pvcLag = <<>>, Locked
             PROVE  countFreePVCSlots + Cardinality(Users) <= MaxAgents
  BY DEF SlotsNotOversold, Users
<1>0. PICK k \in Templates : InCreation # {} => \E s \in slots : s[1] = k
  <2>1. 1 \in Templates
    BY PvcPoolAssumption DEF Templates
  <2>2. \A s \in slots : s[1] \in Templates
    BY DEF Inv, CleanupInv, TypeInv, TypeOK, Slots
  <2> QED
    BY <2>1, <2>2 DEF InCreation
<1>1. MaxAgents \in Nat
  BY PvcPoolAssumption
<1>2. \A c \in Templates : IsFiniteSet(FreeSlots(c)) /\ Cardinality(FreeSlots(c)) \in Nat
  <2> SUFFICES ASSUME NEW c \in Templates
               PROVE  IsFiniteSet(FreeSlots(c)) /\ Cardinality(FreeSlots(c)) \in Nat
    OBVIOUS
  <2>1. FreeSlots(c) \in SUBSET SlotsOf(c)
    BY DEF FreeSlots, SlotsOf
  <2> QED
    BY <2>1, SlotsOfTemplate, FS_Subset, FS_CardinalityType
<1>3. /\ countFreePVCSlots \in Nat
      /\ countFreePVCSlots <= Cardinality(FreeSlots(k))
  <2> DEFINE S == {MaxAgents} \cup {Cardinality(FreeSlots(c)) : c \in Templates}
  <2>1. S \in SUBSET Nat /\ Cardinality(FreeSlots(k)) \in S
    BY <1>1, <1>2
  <2> HIDE DEF S
  <2>2. Min(S) \in S /\ Min(S) <= Cardinality(FreeSlots(k))
    BY <2>1, MinBound
  <2> QED
    BY <2>1, <2>2 DEF countFreePVCSlots, S
<1>4. PICK f : f \in Injection(Users, SlotsOf(k) \ FreeSlots(k))
  BY <1>0, SlotsInUse
<1>5. SlotsOf(k) \cap FreeSlots(k) = FreeSlots(k)
  BY DEF FreeSlots, SlotsOf
<1>6. /\ IsFiniteSet(SlotsOf(k) \ FreeSlots(k))
      /\ Cardinality(SlotsOf(k) \ FreeSlots(k)) = Cardinality(SlotsOf(k)) - Cardinality(FreeSlots(k))
  BY <1>5, SlotsOfTemplate, FS_Difference
<1>7. /\ IsFiniteSet(Users)
      /\ Cardinality(Users) <= Cardinality(SlotsOf(k) \ FreeSlots(k))
  BY <1>4, <1>6, FS_Injection
<1>8. Cardinality(Users) \in Nat
  BY <1>7, FS_CardinalityType
<1>9. Cardinality(SlotsOf(k)) \in Nat /\ Cardinality(SlotsOf(k)) <= MaxAgents
  BY SlotsOfTemplate
<1> QED
  BY <1>1, <1>2, <1>3, <1>6, <1>7, <1>8, <1>9

\* The free slots that available_pvc_slots would report, the live pods and the
\* pod in creation never add up to more than maxAgents, whenever the gauge is
\* read from a cache that has caught up and the labels are a lock
\* (countFreePVCSlots, findAndAssignPVCs, rollbackAssignedPVCs).
THEOREM NeverOversold == Spec => []SlotsNotOversold
<1>1. Inv /\ FullyCached => SlotsNotOversold
  BY SlotsCounted
<1> QED
  BY <1>1, InvInvariant, FullyCachedAlways, PTL
=============================================================================
