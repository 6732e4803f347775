------------------------- MODULE AgentScalingProofs -------------------------
(***************************************************************************)
(* Theorems about AgentScaling, for every number of pods, jobs, templates, *)
(* agents, faults and cache versions.                                      *)
(***************************************************************************)
EXTENDS AgentScaling, KubeCacheProofs, FiniteSetTheorems

-----------------------------------------------------------------------------
(* Types of the operators.                                                 *)

\* clamp stays within the naturals when its arguments do.
LEMMA ClampType ==
    ASSUME NEW a \in Nat, NEW b \in Nat, NEW c \in Nat
    PROVE  clamp(a, b, c) \in Nat
BY DEF clamp

\* desired is a natural number.
LEMMA DesiredType == TypeOK => desired \in Nat
BY ClampType, PvcPoolAssumption, ScalingAssumption DEF TypeOK, desired

\* A write of well-typed labels keeps the PVCs and their backlog well typed.
LEMMA WritePVCsType ==
    ASSUME PvcTypeOK, NEW new \in [Slots -> Labels], WritePVCs(new)
    PROVE  PvcTypeOK'
<1>1. /\ Pushed(pvcLag, pvcs, new, PvcLag) \in Seq([Slots -> Labels])
      /\ Len(Pushed(pvcLag, pvcs, new, PvcLag)) <= PvcLag
  BY PushedType, PvcPoolAssumption DEF PvcTypeOK
<1> QED
  BY <1>1 DEF PvcTypeOK, WritePVCs

\* A PVC is only ever given well-typed labels.
LEMMA LabelPVCType ==
    ASSUME PvcTypeOK, NEW s \in Slots, NEW l \in Labels, LabelPVC(s, l)
    PROVE  PvcTypeOK'
<1>1. [pvcs EXCEPT ![s] = l] \in [Slots -> Labels]
  BY DEF PvcTypeOK
<1> QED
  BY <1>1, WritePVCsType DEF LabelPVC

\* The labels the cache shows are well typed.
LEMMA PvcViewType == PvcTypeOK => PvcView \in [Slots -> Labels]
BY ViewType DEF PvcTypeOK, PvcView

\* findAndAssignPVCs' patch keeps the PVCs well typed.
LEMMA AssignPVCType ==
    ASSUME PvcTypeOK, NEW s \in Slots, NEW p \in PodOrNone, AssignPVC(s, p)
    PROVE  PvcTypeOK'
<1>1. AssignedPVC(p) \in Labels
  BY DEF AssignedPVC, Labels
<1> QED
  BY <1>1, LabelPVCType DEF AssignPVC

\* releasePVC's patch keeps the PVCs well typed.
LEMMA ReleasePVCType ==
    ASSUME PvcTypeOK, NEW s \in Slots, NEW seen \in Labels, ReleasePVC(s, seen)
    PROVE  PvcTypeOK'
<1> DEFINE l == IF AbsentPVC \in {seen, pvcs[s]} THEN pvcs[s] ELSE ReleasePatch(pvcs[s], seen)
<1>1. pvcs[s] \in Labels
  BY DEF PvcTypeOK
<1>2. l \in Labels
  BY <1>1 DEF ReleasePatch, Labels, PodOrNone
<1> QED
  BY <1>2, LabelPVCType DEF ReleasePVC

\* A write of well-typed phases keeps the pods and their backlog well typed.
LEMMA WritePhaseType ==
    ASSUME TypeOK, NEW new \in [Pods -> Phases], WritePhase(new)
    PROVE  /\ phase' \in [Pods -> Phases]
           /\ podLag' \in Seq([Pods -> Phases])
           /\ Len(podLag') <= PodLag
<1>1. /\ Pushed(podLag, phase, new, PodLag) \in Seq([Pods -> Phases])
      /\ Len(Pushed(podLag, phase, new, PodLag)) <= PodLag
  BY PushedType, ScalingAssumption DEF TypeOK
<1> QED
  BY <1>1 DEF WritePhase

\* One pod changes its phase.
LEMMA SetPhaseType ==
    ASSUME TypeOK, NEW p \in Pods, NEW ph \in Phases,
           WritePhase([phase EXCEPT ![p] = ph])
    PROVE  /\ phase' \in [Pods -> Phases]
           /\ podLag' \in Seq([Pods -> Phases])
           /\ Len(podLag') <= PodLag
<1>1. [phase EXCEPT ![p] = ph] \in [Pods -> Phases]
  BY DEF TypeOK
<1> QED
  BY <1>1, WritePhaseType

KubeTypeOK ==
    /\ phase \in [Pods -> Phases]
    /\ deleting \subseteq Pods
    /\ vols \in [Pods -> SUBSET Slots]
    /\ podLag \in Seq([Pods -> Phases]) /\ Len(podLag) <= PodLag
    /\ served \subseteq Pods

\* Removing a pod keeps the Kubernetes state well typed.
LEMMA RemovePodType ==
    ASSUME TypeOK, NEW p \in Pods, RemovePod(p)
    PROVE  KubeTypeOK'
<1>1. /\ phase' \in [Pods -> Phases]
      /\ podLag' \in Seq([Pods -> Phases])
      /\ Len(podLag') <= PodLag
  BY SetPhaseType DEF RemovePod, Phases
<1>2. vols' \in [Pods -> SUBSET Slots]
  BY DEF RemovePod, TypeOK
<1> QED
  BY <1>1, <1>2 DEF RemovePod, TypeOK, KubeTypeOK

\* Deleting a pod keeps the Kubernetes state well typed.
LEMMA DeletePodType ==
    ASSUME TypeOK, NEW p \in Pods, DeletePod(p)
    PROVE  KubeTypeOK'
<1>1. CASE RemovePod(p)
  BY <1>1, RemovePodType
<1>2. CASE /\ deleting' = deleting \cup {p}
           /\ UNCHANGED <<phase, podLag, vols, served>>
  BY <1>2 DEF TypeOK, KubeTypeOK
<1> QED
  BY <1>1, <1>2 DEF DeletePod

\* An untouched Kubernetes state stays well typed.
LEMMA KubeUnchangedType ==
    ASSUME TypeOK, UNCHANGED <<kubeVars, served>>
    PROVE  KubeTypeOK'
BY DEF TypeOK, KubeTypeOK, kubeVars

-----------------------------------------------------------------------------
(* Type correctness.  TypeOK alone is not inductive: the Delete that ends a *)
(* cleanup names podName, which must then be a pod.                        *)

TypeInv == TypeOK /\ (pc = "release" => podName \in Pods)

\* Everything in TypeOK but the Kubernetes state and the PVCs.
RestTypeOK ==
    /\ queued \subseteq Jobs
    /\ reserved \in [Jobs -> PodOrNone]
    /\ pc \in PCs
    /\ jobStatus \in [pending: Nat, busy: SUBSET Pods]
    /\ completed \subseteq Pods /\ active \subseteq Pods
    /\ activeCount \in Nat
    /\ podName \in PodOrNone /\ slots \subseteq Slots
    /\ faults \in 0..MaxFaults
    /\ pc = "release" => podName \in Pods

\* TypeInv is the conjunction of its three parts.
LEMMA TypeInvParts == TypeInv <=> KubeTypeOK /\ PvcTypeOK /\ RestTypeOK
BY DEF TypeInv, TypeOK, KubeTypeOK, RestTypeOK

\* The same, after a step.
LEMMA TypeInvPartsNext == KubeTypeOK' /\ PvcTypeOK' /\ RestTypeOK' => TypeInv'
BY DEF TypeInv, TypeOK, KubeTypeOK, RestTypeOK

\* Untouched PVCs stay well typed.
LEMMA PvcUnchangedType ==
    ASSUME PvcTypeOK, UNCHANGED pvcVars
    PROVE  PvcTypeOK'
BY DEF PvcTypeOK, pvcVars

\* A counted fault keeps the count within its bound.
LEMMA FaultType ==
    ASSUME TypeOK, Fault
    PROVE  faults' \in 0..MaxFaults
BY ScalingAssumption DEF Fault, TypeOK

\* The number of active pods is a natural number.
LEMMA ActiveCountType ==
    ASSUME NEW view
    PROVE  Cardinality(ActivePods(view)) \in Nat
<1>1. ActivePods(view) \subseteq Pods
  BY DEF ActivePods
<1>2. IsFiniteSet(ActivePods(view))
  BY <1>1, FS_Subset, PvcPoolAssumption
<1> QED
  BY <1>2, FS_CardinalityType

\* The number of unfinished jobs is a natural number.
LEMMA PendingType == TypeOK => Cardinality(UnfinishedJobs) \in Nat
<1> SUFFICES ASSUME TypeOK PROVE Cardinality(UnfinishedJobs) \in Nat
  OBVIOUS
<1>1. UnfinishedJobs \subseteq Jobs
  BY DEF UnfinishedJobs, TypeOK
<1>2. IsFiniteSet(UnfinishedJobs)
  BY <1>1, FS_Subset, ScalingAssumption
<1> QED
  BY <1>2, FS_CardinalityType

\* Every step of Reconcile keeps the types.
LEMMA ReconcileType == TypeInv /\ Reconcile => TypeInv'
<1> SUFFICES ASSUME TypeInv, Reconcile
             PROVE  KubeTypeOK' /\ PvcTypeOK' /\ RestTypeOK'
  BY TypeInvPartsNext
<1> USE TypeInvParts DEF TypeInv
<1>1. CASE EnsurePVCPool
  <2>1. ASSUME NEW todo, EnsureSlots(todo) PROVE PvcTypeOK'
    <3> DEFINE new == [s \in Slots |->
                 IF s \in todo /\ PvcView[s] = AbsentPVC /\ pvcs[s] = AbsentPVC
                 THEN FreePVC ELSE pvcs[s]]
    <3>1. new \in [Slots -> Labels]
      BY DEF PvcTypeOK, FreePVC, Labels, PodOrNone
    <3>2. WritePVCs(new)
      BY <2>1 DEF EnsureSlots
    <3> HIDE DEF new
    <3> QED
      BY <3>1, <3>2, WritePVCsType
  <2>2. KubeTypeOK'
    BY <1>1, KubeUnchangedType DEF EnsurePVCPool, adoVars
  <2>3. PvcTypeOK'
    BY <1>1, <2>1 DEF EnsurePVCPool
  <2>4. RestTypeOK'
    BY <1>1, FaultType DEF EnsurePVCPool, RestTypeOK, PCs, adoVars, localVars
  <2> QED
    BY <2>2, <2>3, <2>4
<1>2. CASE GetJobStatus
  <2>1. KubeTypeOK' /\ PvcTypeOK'
    BY <1>2, KubeUnchangedType, PvcUnchangedType DEF GetJobStatus, adoVars
  <2>2. jobStatus' \in [pending: Nat, busy: SUBSET Pods]
    BY <1>2, PendingType DEF GetJobStatus, BusyPods, RestTypeOK
  <2>3. RestTypeOK'
    BY <1>2, <2>2, FaultType DEF GetJobStatus, RestTypeOK, PCs, adoVars
  <2> QED
    BY <2>1, <2>3
<1>3. CASE ListPods
  <2>1. KubeTypeOK' /\ PvcTypeOK'
    BY <1>3, KubeUnchangedType, PvcUnchangedType DEF ListPods, adoVars
  <2>2. RestTypeOK'
    BY <1>3, ActiveCountType
       DEF ListPods, RestTypeOK, PCs, adoVars, ActivePods, CompletedPods
  <2> QED
    BY <2>1, <2>2
<1>4. CASE CleanupPod
  <2>1. KubeTypeOK' /\ PvcTypeOK'
    BY <1>4, KubeUnchangedType, PvcUnchangedType DEF CleanupPod, adoVars
  <2>2. RestTypeOK'
    BY <1>4 DEF CleanupPod, RestTypeOK, PCs, adoVars, SlotsAssignedTo, PodOrNone
  <2> QED
    BY <2>1, <2>2
<1>5. CASE ReleaseSlot
  <2>1. KubeTypeOK'
    BY <1>5, KubeUnchangedType DEF ReleaseSlot, adoVars
  <2>2. AssignedPVC(podName) \in Labels
    BY DEF AssignedPVC, Labels, RestTypeOK
  <2>3. PvcTypeOK'
    BY <1>5, <2>2, ReleasePVCType, PvcUnchangedType DEF ReleaseSlot, RestTypeOK
  <2>4. RestTypeOK'
    BY <1>5, FaultType DEF ReleaseSlot, RestTypeOK, adoVars
  <2> QED
    BY <2>1, <2>3, <2>4
<1>6. CASE DeleteCompletedPod
  <2>1. KubeTypeOK'
    BY <1>6, DeletePodType, KubeUnchangedType DEF DeleteCompletedPod
  <2>2. PvcTypeOK'
    BY <1>6, PvcUnchangedType DEF DeleteCompletedPod
  <2>3. RestTypeOK'
    BY <1>6, FaultType DEF DeleteCompletedPod, RestTypeOK, PCs, PodOrNone
  <2> QED
    BY <2>1, <2>2, <2>3
<1>7. CASE CleanupDone
  <2>1. KubeTypeOK' /\ PvcTypeOK'
    BY <1>7, KubeUnchangedType, PvcUnchangedType DEF CleanupDone, adoVars
  <2>2. RestTypeOK'
    BY <1>7 DEF CleanupDone, RestTypeOK, PCs, adoVars, localVars
  <2> QED
    BY <2>1, <2>2
<1>8. CASE CreateAgentPod
  <2>1. KubeTypeOK' /\ PvcTypeOK'
    BY <1>8, KubeUnchangedType, PvcUnchangedType DEF CreateAgentPod, adoVars
  <2>2. RestTypeOK'
    BY <1>8 DEF CreateAgentPod, RestTypeOK, PCs, adoVars, FreshNames, PodOrNone
  <2> QED
    BY <2>1, <2>2
<1>9. CASE FindAndAssignPVC
  <2>1. KubeTypeOK'
    BY <1>9, KubeUnchangedType DEF FindAndAssignPVC, adoVars
  <2>2. PvcTypeOK'
    BY <1>9, AssignPVCType, PvcUnchangedType
       DEF FindAndAssignPVC, FreeSlots, RestTypeOK
  <2>3. RestTypeOK'
    BY <1>9, FaultType DEF FindAndAssignPVC, RestTypeOK, PCs, adoVars, FreeSlots
  <2> QED
    BY <2>1, <2>2, <2>3
<1>10. CASE CreatePod
  <2>1. ASSUME PodCreated PROVE KubeTypeOK' \/ served' # served
    <3>1. [phase EXCEPT ![podName] = "Pending"] \in [Pods -> Phases]
      BY DEF KubeTypeOK, Phases
    <3>2. /\ phase' \in [Pods -> Phases]
          /\ podLag' \in Seq([Pods -> Phases])
          /\ Len(podLag') <= PodLag
      BY <2>1, <3>1, WritePhaseType DEF PodCreated
    <3>3. vols' \in [Pods -> SUBSET Slots]
      BY <2>1 DEF PodCreated, KubeTypeOK, RestTypeOK
    <3> QED
      BY <2>1, <3>2, <3>3 DEF PodCreated, KubeTypeOK
  <2>2. KubeTypeOK'
    BY <1>10, <2>1, KubeUnchangedType DEF CreatePod, adoVars
  <2>3. PvcTypeOK'
    BY <1>10, PvcUnchangedType DEF CreatePod
  <2>4. RestTypeOK'
    BY <1>10, FaultType DEF CreatePod, RestTypeOK, PCs, adoVars, PodOrNone
  <2> QED
    BY <2>2, <2>3, <2>4
<1>11. CASE RollbackSlot
  <2>1. KubeTypeOK'
    BY <1>11, KubeUnchangedType DEF RollbackSlot, adoVars
  <2>2. ASSUME NEW s \in Slots PROVE PvcView[s] \in Labels
    BY PvcViewType
  <2>3. PvcTypeOK'
    BY <1>11, <2>2, ReleasePVCType, PvcUnchangedType DEF RollbackSlot, RestTypeOK
  <2>4. RestTypeOK'
    BY <1>11, FaultType DEF RollbackSlot, RestTypeOK, adoVars
  <2> QED
    BY <2>1, <2>3, <2>4
<1>12. CASE CreateFailed
  <2>1. KubeTypeOK' /\ PvcTypeOK'
    BY <1>12, KubeUnchangedType, PvcUnchangedType DEF CreateFailed, adoVars
  <2>2. RestTypeOK'
    BY <1>12 DEF CreateFailed, ResetLocals, RestTypeOK, PCs, adoVars, PodOrNone
  <2> QED
    BY <2>1, <2>2
<1>13. CASE ScaleDown
  <2>1. desired \in Nat
    BY DesiredType
  <2>2. PICK p \in ScaleDownCandidates :
          /\ active' = active \ {p}
          /\ \/ DeletePod(p) /\ activeCount' = activeCount - 1 /\ UNCHANGED faults
             \/ phase[p] = "none" /\ UNCHANGED <<kubeVars, served, activeCount, faults>>
             \/ /\ Fault /\ UNCHANGED activeCount
                /\ UNCHANGED <<kubeVars, served>> \/ (LostReplies /\ DeletePod(p))
    BY <1>13 DEF ScaleDown
  <2>3. p \in Pods
    BY DEF ScaleDownCandidates, RestTypeOK
  <2>4. KubeTypeOK'
    BY <2>2, <2>3, DeletePodType, KubeUnchangedType
  <2>5. PvcTypeOK'
    BY <1>13, PvcUnchangedType DEF ScaleDown
  <2>6. activeCount' \in Nat /\ faults' \in 0..MaxFaults
    BY <1>13, <2>1, <2>2, FaultType DEF ScaleDown, RestTypeOK
  <2>7. RestTypeOK'
    BY <1>13, <2>2, <2>6 DEF ScaleDown, RestTypeOK
  <2> QED
    BY <2>4, <2>5, <2>7
<1>14. CASE ScaleDone
  <2>1. KubeTypeOK' /\ PvcTypeOK'
    BY <1>14, KubeUnchangedType, PvcUnchangedType DEF ScaleDone, adoVars
  <2>2. RestTypeOK'
    BY <1>14 DEF ScaleDone, ResetLocals, RestTypeOK, PCs, adoVars, PodOrNone
  <2> QED
    BY <2>1, <2>2
<1> QED
  BY <1>1, <1>2, <1>3, <1>4, <1>5, <1>6, <1>7, <1>8, <1>9, <1>10, <1>11, <1>12,
     <1>13, <1>14 DEF Reconcile

\* Every step of the environment, and a crash, keeps the types.
LEMMA EnvironmentType ==
    ASSUME TypeInv,
           \/ Crash \/ DeliverPods \/ WatchPVCs
           \/ \E p \in Pods : PodStep(p) \/ FailPod(p)
           \/ \E j \in Jobs : SubmitJob(j) \/ CancelJob(j) \/ AssignJob(j) \/ FinishJob(j)
    PROVE  TypeInv'
<1> SUFFICES KubeTypeOK' /\ PvcTypeOK' /\ RestTypeOK'
  BY TypeInvPartsNext
<1> USE TypeInvParts DEF TypeInv
<1>1. CASE Crash
  <2>1. KubeTypeOK' /\ PvcTypeOK'
    BY <1>1, PvcPoolAssumption, ScalingAssumption
       DEF Crash, KubeTypeOK, PvcTypeOK, adoVars
  <2>2. RestTypeOK'
    BY <1>1, FaultType DEF Crash, ResetLocals, RestTypeOK, PCs, adoVars, PodOrNone
  <2> QED
    BY <2>1, <2>2
<1>2. CASE DeliverPods
  <2>1. podLag' \in Seq([Pods -> Phases]) /\ Len(podLag') <= PodLag
    BY <1>2, TailType, ScalingAssumption DEF DeliverPods, KubeTypeOK
  <2> QED
    BY <1>2, <2>1, PvcUnchangedType
       DEF DeliverPods, KubeTypeOK, RestTypeOK, adoVars, localVars
<1>3. CASE WatchPVCs
  <2>1. pvcLag' \in Seq([Slots -> Labels]) /\ Len(pvcLag') <= PvcLag
    BY <1>3, TailType, PvcPoolAssumption DEF WatchPVCs, DeliverPVCs, PvcTypeOK
  <2> QED
    BY <1>3, <2>1, KubeUnchangedType
       DEF WatchPVCs, DeliverPVCs, PvcTypeOK, RestTypeOK, adoVars, localVars
<1>4. ASSUME NEW p \in Pods, PodStep(p) \/ FailPod(p)
      PROVE  KubeTypeOK' /\ PvcTypeOK' /\ RestTypeOK'
  <2>1. ASSUME NEW ph \in Phases, WritePhase([phase EXCEPT ![p] = ph]),
               UNCHANGED <<deleting, vols, served>>
        PROVE  KubeTypeOK'
    BY <2>1, SetPhaseType DEF KubeTypeOK
  <2>2. {"Running", "Succeeded", "Failed"} \subseteq Phases
    BY DEF Phases
  <2>f. FailPod(p) => KubeTypeOK'
    <3> SUFFICES ASSUME FailPod(p) PROVE KubeTypeOK'
      OBVIOUS
    <3>1. PICK end \in Terminal : WritePhase([phase EXCEPT ![p] = end])
      BY DEF FailPod
    <3> QED
      BY <2>1, <2>2, <3>1 DEF FailPod, Terminal
  <2>3. KubeTypeOK'
    BY <1>4, <2>1, <2>2, <2>f, RemovePodType
       DEF PodStep, StartPod, ExitPod, KillPod, ReapPod, adoVars
  <2>4. PvcTypeOK'
    BY <1>4, PvcUnchangedType DEF PodStep, StartPod, ExitPod, KillPod, ReapPod, FailPod
  <2>5. reserved' \in [Jobs -> PodOrNone]
    BY <1>4 DEF PodStep, StartPod, ExitPod, KillPod, ReapPod, FailPod, Abandon,
                adoVars, RestTypeOK, PodOrNone
  <2>6. faults' \in 0..MaxFaults
    BY <1>4, FaultType
       DEF PodStep, StartPod, ExitPod, KillPod, ReapPod, FailPod, RestTypeOK
  <2>7. RestTypeOK'
    BY <1>4, <2>5, <2>6
       DEF PodStep, StartPod, ExitPod, KillPod, ReapPod, FailPod, adoVars,
           localVars, RestTypeOK
  <2> QED
    BY <2>3, <2>4, <2>7
<1>5. ASSUME NEW j \in Jobs, SubmitJob(j) \/ CancelJob(j) \/ AssignJob(j) \/ FinishJob(j)
      PROVE  KubeTypeOK' /\ PvcTypeOK' /\ RestTypeOK'
  <2>1. served' \subseteq Pods /\ queued' \subseteq Jobs /\ reserved' \in [Jobs -> PodOrNone]
    BY <1>5 DEF SubmitJob, CancelJob, AssignJob, FinishJob, KubeTypeOK, RestTypeOK, PodOrNone
  <2>2. faults' \in 0..MaxFaults
    BY <1>5, FaultType DEF SubmitJob, CancelJob, AssignJob, FinishJob, RestTypeOK
  <2>3. KubeTypeOK' /\ PvcTypeOK'
    BY <1>5, <2>1, PvcUnchangedType
       DEF SubmitJob, CancelJob, AssignJob, FinishJob, KubeTypeOK, kubeVars
  <2>4. RestTypeOK'
    BY <1>5, <2>1, <2>2
       DEF SubmitJob, CancelJob, AssignJob, FinishJob, RestTypeOK, localVars
  <2> QED
    BY <2>3, <2>4
<1> QED
  BY <1>1, <1>2, <1>3, <1>4, <1>5

\* A stuttering step keeps the types.
LEMMA StutterType == TypeInv /\ UNCHANGED vars => TypeInv'
BY DEF TypeInv, TypeOK, PvcTypeOK, vars, kubeVars, adoVars, pvcVars, localVars

\* The initial state is well typed.
LEMMA TypeInit == Init => TypeInv
<1> SUFFICES ASSUME Init PROVE TypeInv
  OBVIOUS
<1>1. PvcTypeOK
  BY PvcPoolAssumption DEF Init, PvcInit, PvcTypeOK, AbsentPVC, Labels, PodOrNone
<1> QED
  BY <1>1, PvcPoolAssumption, ScalingAssumption
     DEF Init, TypeInv, TypeOK, Phases, PCs, PodOrNone

\* TypeInv is an invariant.
LEMMA TypeInvariant == Spec => []TypeInv
<1>1. TypeInv /\ [Next]_vars => TypeInv'
  BY ReconcileType, EnvironmentType, StutterType DEF Next
<1> QED
  BY <1>1, TypeInit, PTL DEF Spec

\* The model is type correct: in particular a counter never goes below zero
\* (activeCount in Reconcile), a backlog never outgrows its bound, and the
\* pod that cleanup deletes is a pod.
THEOREM TypeCorrect == Spec => []TypeOK
<1>1. TypeInv => TypeOK
  BY DEF TypeInv
<1> QED
  BY <1>1, TypeInvariant, PTL
=============================================================================
