------------------------- MODULE ScalingCacheProofs -------------------------
(***************************************************************************)
(* What the labels and the mounts of the cache PVCs promise, for every lag *)
(* of the caches, every number of faults, and with lost replies.           *)
(***************************************************************************)
EXTENDS ScalingSafetyProofs

-----------------------------------------------------------------------------
(* The two labels agree, at the API server and in every cached version.    *)

LabelInv ==
    /\ LabelsAgree
    /\ \A i \in DOMAIN pvcLag : Agree(pvcLag[i])

\* A write of agreeing labels keeps LabelInv: the version it replaces agrees
\* as well.
LEMMA WriteAgree ==
    ASSUME PvcTypeOK, LabelInv, NEW new \in [Slots -> Labels], Agree(new), WritePVCs(new)
    PROVE  LabelInv'
<1> DEFINE S == [Slots -> Labels]
           P == Pushed(pvcLag, pvcs, new, PvcLag)
<1>1. /\ pvcs \in S /\ new \in S /\ pvcLag \in Seq(S)
      /\ Len(pvcLag) <= PvcLag /\ PvcLag \in Nat
  BY PvcPoolAssumption DEF PvcTypeOK
<1>2. pvcLag' = P /\ pvcs' = new
  BY DEF WritePVCs
<1> HIDE DEF S
<1>3. \A i \in DOMAIN P : (\E k \in DOMAIN pvcLag : P[i] = pvcLag[k]) \/ P[i] = pvcs
  BY <1>1, PushedVersions
<1>4. \A i \in DOMAIN P : Agree(P[i])
  BY <1>3 DEF LabelInv, LabelsAgree
<1> QED
  BY <1>2, <1>4 DEF LabelInv, LabelsAgree

\* The same for one PVC.
LEMMA LabelAgree ==
    ASSUME PvcTypeOK, LabelInv, NEW s \in Slots, NEW l \in Labels,
           l.state = "assigned" <=> l.pod # None, LabelPVC(s, l)
    PROVE  LabelInv'
<1>1. [pvcs EXCEPT ![s] = l] \in [Slots -> Labels]
  BY DEF PvcTypeOK
<1>2. Agree([pvcs EXCEPT ![s] = l])
  BY DEF Agree, LabelInv, LabelsAgree, PvcTypeOK
<1> QED
  BY <1>1, <1>2, WriteAgree DEF LabelPVC

\* releasePVC keeps the labels agreeing when they agree in the copy it read.
LEMMA ReleaseAgree ==
    ASSUME PvcTypeOK, LabelInv, NEW s \in Slots, NEW seen \in Labels,
           seen.state = "assigned" <=> seen.pod # None, ReleasePVC(s, seen)
    PROVE  LabelInv'
<1> DEFINE l == IF AbsentPVC \in {seen, pvcs[s]} THEN pvcs[s] ELSE ReleasePatch(pvcs[s], seen)
<1>1. pvcs[s] \in Labels /\ (pvcs[s].state = "assigned" <=> pvcs[s].pod # None)
  BY DEF PvcTypeOK, LabelInv, LabelsAgree, Agree
<1>2. l \in Labels
  BY <1>1 DEF ReleasePatch, Labels, PodOrNone
<1>3. seen = AbsentPVC \/ seen.state # "absent" \/ seen.pod # None
  BY DEF Labels, AbsentPVC
<1>4. l.state = "assigned" <=> l.pod # None
  BY <1>1, <1>3 DEF ReleasePatch, Labels
<1> QED
  BY <1>2, <1>4, LabelAgree DEF ReleasePVC

\* Every step keeps LabelInv.
LEMMA LabelStep == CleanupInv /\ LabelInv /\ [Next]_vars => LabelInv'
<1> SUFFICES ASSUME CleanupInv, LabelInv, [Next]_vars PROVE LabelInv'
  OBVIOUS
<1> USE DEF CleanupInv, TypeInv, TypeOK
<1>0. ASSUME UNCHANGED pvcVars PROVE LabelInv'
  BY <1>0 DEF LabelInv, LabelsAgree, Agree, pvcVars
<1>1. CASE EnsurePVCPool
  <2> SUFFICES ASSUME NEW todo, EnsureSlots(todo) PROVE LabelInv'
    BY <1>1 DEF EnsurePVCPool
  <2> DEFINE new == [s \in Slots |->
               IF s \in todo /\ PvcView[s] = AbsentPVC /\ pvcs[s] = AbsentPVC
               THEN FreePVC ELSE pvcs[s]]
  <2>1. new \in [Slots -> Labels]
    BY DEF PvcTypeOK, FreePVC, Labels, PodOrNone
  <2>2. Agree(new)
    BY DEF Agree, LabelInv, LabelsAgree, FreePVC
  <2>3. WritePVCs(new)
    BY DEF EnsureSlots
  <2> HIDE DEF new
  <2> QED
    BY <2>1, <2>2, <2>3, WriteAgree
<1>2. CASE ReleaseSlot
  <2>1. /\ AssignedPVC(podName) \in Labels
        /\ AssignedPVC(podName).state = "assigned" /\ AssignedPVC(podName).pod # None
    BY <1>2, PvcPoolAssumption DEF ReleaseSlot, AssignedPVC, Labels
  <2> QED
    BY <1>0, <1>2, <2>1, ReleaseAgree DEF ReleaseSlot
<1>3. CASE FindAndAssignPVC
  <2>1. /\ AssignedPVC(podName) \in Labels
        /\ AssignedPVC(podName).state = "assigned" /\ AssignedPVC(podName).pod # None
    BY <1>3, PvcPoolAssumption DEF FindAndAssignPVC, NewName, AssignedPVC, Labels, PodOrNone
  <2>2. ASSUME NEW s \in Slots, AssignPVC(s, podName) PROVE LabelInv'
    BY <2>1, <2>2, LabelAgree DEF AssignPVC
  <2> QED
    BY <1>0, <1>3, <2>2 DEF FindAndAssignPVC, FreeSlots
<1>4. CASE RollbackSlot
  <2>1. PvcView = pvcs \/ (1 \in DOMAIN pvcLag /\ PvcView = pvcLag[1])
    BY ViewVersion DEF PvcView, PvcTypeOK
  <2>2. Agree(PvcView)
    BY <2>1 DEF LabelInv, LabelsAgree
  <2>3. ASSUME NEW s \in Slots, ReleasePVC(s, PvcView[s]) PROVE LabelInv'
    <3>1. PvcView[s] \in Labels /\ (PvcView[s].state = "assigned" <=> PvcView[s].pod # None)
      BY <2>2, PvcViewType DEF Agree
    <3> QED
      BY <2>3, <3>1, ReleaseAgree
  <2> QED
    BY <1>0, <1>4, <2>3 DEF RollbackSlot
<1>5. CASE Crash
  BY <1>5 DEF Crash, LabelInv, LabelsAgree, Agree
<1>6. CASE WatchPVCs
  <2>1. \A i \in DOMAIN Tail(pvcLag) :
           i + 1 \in DOMAIN pvcLag /\ Tail(pvcLag)[i] = pvcLag[i + 1]
    BY <1>6 DEF WatchPVCs, DeliverPVCs, PvcTypeOK
  <2> QED
    BY <1>6, <2>1 DEF WatchPVCs, DeliverPVCs, LabelInv, LabelsAgree, Agree
<1>7. CASE \/ GetJobStatus \/ ListPods \/ CleanupPod \/ DeleteCompletedPod \/ CleanupDone
           \/ CreateAgentPod \/ CreatePod \/ CreateFailed \/ ScaleDown \/ ScaleDone
           \/ DeliverPods
           \/ \E p \in Pods : PodStep(p) \/ FailPod(p)
           \/ \E j \in Jobs : SubmitJob(j) \/ CancelJob(j) \/ AssignJob(j) \/ FinishJob(j)
           \/ UNCHANGED vars
  BY <1>0, <1>7
     DEF GetJobStatus, ListPods, CleanupPod, DeleteCompletedPod, CleanupDone,
         CreateAgentPod, CreatePod, CreateFailed, ScaleDown, ScaleDone, DeliverPods,
         PodStep, StartPod, ExitPod, KillPod, ReapPod, FailPod,
         SubmitJob, CancelJob, AssignJob, FinishJob, vars
<1> QED
  BY <1>1, <1>2, <1>3, <1>4, <1>5, <1>6, <1>7 DEF Next, Reconcile

\* LabelInv is an invariant.
LEMMA LabelInvariant == Spec => []LabelInv
<1>1. Init => LabelInv
  BY DEF Init, PvcInit, LabelInv, LabelsAgree, Agree, AbsentPVC
<1> QED
  BY <1>1, LabelStep, CleanupInvariant, PTL DEF Spec

\* The two labels of a PVC never contradict each other, although every patch
\* is computed against a copy that may be old and carries no resourceVersion.
THEOREM LabelsSafe == Spec => []LabelsAgree
<1>1. LabelInv => LabelsAgree
  BY DEF LabelInv
<1> QED
  BY <1>1, LabelInvariant, PTL

-----------------------------------------------------------------------------
(* What a live pod mounts.                                                 *)

\* A live pod keeps its mounts, and gets them when it is created.
Mounts ==
    \A p \in Pods : phase'[p] \in Live =>
        \/ phase[p] \in Live /\ vols'[p] = vols[p]
        \/ CreatePod /\ PodCreated /\ p = podName

\* Every step treats mounts so.
LEMMA MountHistory == TypeInv /\ [Next]_vars => Mounts
<1> SUFFICES ASSUME TypeInv, [Next]_vars PROVE Mounts
  OBVIOUS
<1> USE DEF TypeInv, TypeOK
<1>0. ASSUME UNCHANGED <<phase, vols>> PROVE Mounts
  BY <1>0 DEF Mounts
<1>1. ASSUME NEW q \in Pods, RemovePod(q) \/ DeletePod(q) PROVE Mounts
  BY <1>1 DEF RemovePod, DeletePod, WritePhase, Mounts, Live
<1>2. CASE CreatePod
  <2>1. CASE PodCreated
    BY <1>2, <2>1 DEF PodCreated, WritePhase, Mounts
  <2> QED
    BY <1>0, <1>2, <2>1 DEF CreatePod, kubeVars
<1>3. CASE DeleteCompletedPod
  BY <1>0, <1>1, <1>3 DEF DeleteCompletedPod, kubeVars
<1>4. CASE ScaleDown
  BY <1>0, <1>1, <1>4 DEF ScaleDown, ScaleDownCandidates, kubeVars
<1>5. ASSUME NEW p \in Pods, PodStep(p) \/ FailPod(p) PROVE Mounts
  <2>1. CASE ReapPod(p)
    BY <1>1, <2>1 DEF ReapPod
  <2>2. CASE StartPod(p) \/ ExitPod(p) \/ KillPod(p) \/ FailPod(p)
    BY <2>2 DEF StartPod, ExitPod, KillPod, FailPod, WritePhase, Mounts, Live
  <2> QED
    BY <1>5, <2>1, <2>2 DEF PodStep
<1>6. CASE \/ EnsurePVCPool \/ GetJobStatus \/ ListPods \/ CleanupPod \/ ReleaseSlot
           \/ CleanupDone \/ CreateAgentPod \/ FindAndAssignPVC \/ RollbackSlot
           \/ CreateFailed \/ ScaleDone \/ Crash \/ DeliverPods \/ WatchPVCs
           \/ \E j \in Jobs : SubmitJob(j) \/ CancelJob(j) \/ AssignJob(j) \/ FinishJob(j)
           \/ UNCHANGED vars
  BY <1>0, <1>6
     DEF EnsurePVCPool, GetJobStatus, ListPods, CleanupPod, ReleaseSlot, CleanupDone,
         CreateAgentPod, FindAndAssignPVC, RollbackSlot, CreateFailed, ScaleDone,
         Crash, DeliverPods, WatchPVCs, SubmitJob, CancelJob, AssignJob, FinishJob,
         kubeVars, vars
<1> QED
  BY <1>2, <1>3, <1>4, <1>5, <1>6 DEF Next, Reconcile

\* At most one slot of each template.
OnePerTemplate(ss) == \A s, t \in ss : s[1] = t[1] => s = t

\* Outside a cleanup or a create there are no slots to release or to mount,
\* and a create collects at most one slot of each template.
SlotsInv ==
    /\ pc \notin {"release", "assign", "rollback"} => slots = {}
    /\ pc = "assign" => OnePerTemplate(slots)

\* Every step keeps SlotsInv.
LEMMA SlotsStep == TypeInv /\ SlotsInv /\ [Next]_vars => SlotsInv'
<1> SUFFICES ASSUME TypeInv, SlotsInv, [Next]_vars PROVE SlotsInv'
  OBVIOUS
<1>0. ASSUME UNCHANGED <<pc, localVars>> PROVE SlotsInv'
  BY <1>0 DEF SlotsInv, OnePerTemplate, localVars
<1>1. CASE EnsurePVCPool \/ GetJobStatus \/ ListPods \/ CleanupPod \/ ReleaseSlot
  BY <1>1 DEF EnsurePVCPool, GetJobStatus, ListPods, CleanupPod, ReleaseSlot, SlotsInv,
              localVars
<1>2. CASE DeleteCompletedPod \/ CleanupDone
  BY <1>2 DEF DeleteCompletedPod, CleanupDone, SlotsInv, localVars
<1>3. CASE CreateAgentPod
  BY <1>3 DEF CreateAgentPod, SlotsInv, OnePerTemplate
<1>4. CASE FindAndAssignPVC
  <2>1. PICK c \in Templates : IsNextTemplate(c) /\
          \/ pc' = "rollback"
          \/ \E s \in FreeSlots(c) : slots' = slots \cup {s} /\ UNCHANGED pc
    BY <1>4 DEF FindAndAssignPVC
  <2>2. CASE pc' = "rollback"
    BY <2>2 DEF SlotsInv
  <2>3. ASSUME NEW s \in FreeSlots(c), slots' = slots \cup {s}, UNCHANGED pc PROVE SlotsInv'
    <3>1. s[1] = c /\ \A t \in slots : t[1] # c
      BY <2>1 DEF FreeSlots, IsNextTemplate, Unassigned
    <3>2. pc = "assign" /\ OnePerTemplate(slots)
      BY <1>4 DEF FindAndAssignPVC, SlotsInv
    <3> QED
      BY <2>3, <3>1, <3>2 DEF SlotsInv, OnePerTemplate
  <2> QED
    BY <2>1, <2>2, <2>3
<1>5. CASE CreatePod \/ RollbackSlot \/ CreateFailed
  BY <1>5 DEF CreatePod, RollbackSlot, CreateFailed, ResetLocals, SlotsInv
<1>6. CASE ScaleDown \/ ScaleDone \/ Crash
  BY <1>6 DEF ScaleDown, ScaleDone, Crash, ResetLocals, SlotsInv
<1>7. CASE \/ DeliverPods \/ WatchPVCs
           \/ \E p \in Pods : PodStep(p) \/ FailPod(p)
           \/ \E j \in Jobs : SubmitJob(j) \/ CancelJob(j) \/ AssignJob(j) \/ FinishJob(j)
           \/ UNCHANGED vars
  BY <1>0, <1>7 DEF DeliverPods, WatchPVCs, PodStep, StartPod, ExitPod, KillPod, ReapPod,
                    FailPod, SubmitJob, CancelJob, AssignJob, FinishJob, vars
<1> QED
  BY <1>1, <1>2, <1>3, <1>4, <1>5, <1>6, <1>7 DEF Next, Reconcile

\* FullyCached is inductive relative to the invariants above.
LEMMA FullyCachedStep == TypeInv /\ SlotsInv /\ FullyCached /\ [Next]_vars => FullyCached'
<1> SUFFICES ASSUME TypeInv, SlotsInv, FullyCached, [Next]_vars,
                    NEW p \in Pods, phase'[p] \in Live
             PROVE  /\ \A c \in Templates : \E s \in vols'[p] : s[1] = c
                    /\ \A s, t \in vols'[p] : s[1] = t[1] => s = t
  BY DEF FullyCached
<1>1. CASE phase[p] \in Live /\ vols'[p] = vols[p]
  BY <1>1 DEF FullyCached
<1>2. CASE CreatePod /\ PodCreated /\ p = podName
  <2>1. vols'[p] = slots
    BY <1>2 DEF PodCreated, TypeInv, TypeOK
  <2>2. \A c \in Templates : \E s \in slots : s[1] = c
    BY <1>2 DEF CreatePod, Unassigned
  <2>3. OnePerTemplate(slots)
    BY <1>2 DEF CreatePod, SlotsInv
  <2> QED
    BY <2>1, <2>2, <2>3 DEF OnePerTemplate
<1> QED
  BY <1>1, <1>2, MountHistory DEF Mounts

\* Every live pod mounts exactly one PVC of each template: a pod is never
\* created with part of its caches, even when an assignment fails half-way or
\* the cache shows PVCs as free that are not.
THEOREM FullyCachedAlways == Spec => []FullyCached
<1>1. Init => SlotsInv /\ FullyCached
  BY DEF Init, SlotsInv, FullyCached, Live
<1> QED
  BY <1>1, SlotsStep, FullyCachedStep, TypeInvariant, PTL DEF Spec

=============================================================================
