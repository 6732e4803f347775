------------------------ MODULE ScalingSafetyProofs ------------------------
(***************************************************************************)
(* What cleanup and scale-down may never do, and where scaling up stops,   *)
(* for every bound on the caches' lag, every number of faults, lost        *)
(* replies, and minAgents and maxAgents in either order.                   *)
(***************************************************************************)
EXTENDS AgentScalingProofs

-----------------------------------------------------------------------------
(* How phases and the pod cache move.                                      *)

\* A pod comes to life only in CreatePod, under the name just drawn.
Births ==
    \A p \in Pods :
        /\ phase'[p] \in Live => phase[p] \in Live \/ (CreatePod /\ p = podName)
        /\ phase[p] = "none" => phase'[p] = "none" \/ (CreatePod /\ p = podName)

\* Every version in the pod cache's backlog was there before, or is the one
\* just replaced, and it is one version older than before if a pod has
\* changed.
Backlog ==
    \A i \in DOMAIN podLag' :
        \/ \E k \in DOMAIN podLag :
              /\ podLag'[i] = podLag[k]
              /\ \/ Len(podLag') - i = Len(podLag) - k + 1
                 \/ UNCHANGED phase /\ Len(podLag') - i = Len(podLag) - k
        \/ podLag'[i] = phase

\* A write to a pod keeps the backlog a record of the past.
LEMMA WriteBacklog ==
    ASSUME TypeInv, NEW new \in [Pods -> Phases], WritePhase(new)
    PROVE  Backlog
<1> DEFINE S == [Pods -> Phases]
           P == Pushed(podLag, phase, new, PodLag)
<1>1. /\ phase \in S /\ new \in S /\ podLag \in Seq(S)
      /\ Len(podLag) <= PodLag /\ PodLag \in Nat
  BY ScalingAssumption DEF TypeInv, TypeOK
<1>2. podLag' = P /\ phase' = new
  BY DEF WritePhase
<1> HIDE DEF S
<1>3. \/ new = phase /\ P = podLag
      \/ \A i \in DOMAIN P :
            \/ P[i] = phase
            \/ \E k \in DOMAIN podLag :
                  P[i] = podLag[k] /\ Len(P) - i = Len(podLag) - k + 1
  BY <1>1, PushedAge
<1> HIDE DEF P
<1> QED
  BY <1>2, <1>3 DEF Backlog

\* A pod that is removed or deleted is not brought to life.
LEMMA DeleteHistory ==
    ASSUME TypeInv, NEW p \in Pods, RemovePod(p) \/ DeletePod(p)
    PROVE  Births /\ Backlog
<1>1. CASE RemovePod(p)
  <2>1. [phase EXCEPT ![p] = "none"] \in [Pods -> Phases]
    BY DEF TypeInv, TypeOK, Phases
  <2>2. Backlog
    BY <1>1, <2>1, WriteBacklog DEF RemovePod
  <2>3. Births
    BY <1>1 DEF RemovePod, WritePhase, Births, TypeInv, TypeOK, Live
  <2> QED
    BY <2>2, <2>3
<1>2. CASE UNCHANGED <<phase, podLag>>
  BY <1>2 DEF Births, Backlog
<1> QED
  BY <1>1, <1>2 DEF DeletePod

\* A pod that leaves a live phase is not brought to life.
LEMMA EndHistory ==
    ASSUME TypeInv, NEW p \in Pods, NEW ph \in {"Running", "Succeeded", "Failed"},
           phase[p] \in Live, WritePhase([phase EXCEPT ![p] = ph])
    PROVE  Births /\ Backlog
<1>1. [phase EXCEPT ![p] = ph] \in [Pods -> Phases]
  BY DEF TypeInv, TypeOK, Phases
<1>2. Backlog
  BY <1>1, WriteBacklog
<1>3. Births
  BY DEF WritePhase, Births, TypeInv, TypeOK, Live
<1> QED
  BY <1>2, <1>3

\* Births and Backlog describe every step but a delivery or a crash, which
\* only shorten the backlog.
LEMMA History == TypeInv /\ [Next]_vars => Births /\ Backlog
<1> SUFFICES ASSUME TypeInv, [Next]_vars PROVE Births /\ Backlog
  OBVIOUS
<1>0. ASSUME UNCHANGED <<phase, podLag>> PROVE Births /\ Backlog
  BY <1>0 DEF Births, Backlog
<1>1. CASE CreatePod
  <2>1. [phase EXCEPT ![podName] = "Pending"] \in [Pods -> Phases]
    BY DEF TypeInv, TypeOK, Phases
  <2>2. CASE PodCreated
    <3>1. Backlog
      BY <2>1, <2>2, WriteBacklog DEF PodCreated
    <3>2. Births
      BY <1>1, <2>2 DEF PodCreated, WritePhase, Births, TypeInv, TypeOK, Live
    <3> QED
      BY <3>1, <3>2
  <2> QED
    BY <1>0, <1>1, <2>2 DEF CreatePod, kubeVars
<1>2. CASE DeleteCompletedPod
  <2>1. podName \in Pods
    BY <1>2 DEF DeleteCompletedPod, TypeInv
  <2> QED
    BY <1>0, <1>2, <2>1, DeleteHistory DEF DeleteCompletedPod, kubeVars
<1>3. CASE ScaleDown
  BY <1>0, <1>3, DeleteHistory
     DEF ScaleDown, ScaleDownCandidates, kubeVars, TypeInv, TypeOK
<1>4. CASE Crash
  BY <1>4 DEF Crash, Births, Backlog
<1>5. CASE DeliverPods
  <2>1. \A i \in DOMAIN Tail(podLag) :
           /\ i + 1 \in DOMAIN podLag /\ Tail(podLag)[i] = podLag[i + 1]
           /\ Len(Tail(podLag)) - i = Len(podLag) - (i + 1)
    BY <1>5 DEF DeliverPods, TypeInv, TypeOK
  <2> QED
    BY <1>5, <2>1 DEF DeliverPods, Births, Backlog
<1>6. ASSUME NEW p \in Pods, PodStep(p) \/ FailPod(p) PROVE Births /\ Backlog
  <2>1. CASE ReapPod(p)
    BY <2>1, DeleteHistory DEF ReapPod
  <2>2. CASE StartPod(p)
    BY <2>2, EndHistory DEF StartPod, Live
  <2>3. CASE ExitPod(p)
    BY <2>3, EndHistory DEF ExitPod, Live
  <2>4. CASE KillPod(p)
    BY <2>4, EndHistory DEF KillPod, Live
  <2>5. CASE FailPod(p)
    <3>1. PICK end \in Terminal : WritePhase([phase EXCEPT ![p] = end])
      BY <2>5 DEF FailPod
    <3> QED
      BY <2>5, <3>1, EndHistory DEF FailPod, Terminal
  <2> QED
    BY <1>6, <2>1, <2>2, <2>3, <2>4, <2>5 DEF PodStep
<1>7. CASE \/ EnsurePVCPool \/ GetJobStatus \/ ListPods \/ CleanupPod \/ ReleaseSlot
           \/ CleanupDone \/ CreateAgentPod \/ FindAndAssignPVC \/ RollbackSlot
           \/ CreateFailed \/ ScaleDone \/ WatchPVCs
           \/ \E j \in Jobs : SubmitJob(j) \/ CancelJob(j) \/ AssignJob(j) \/ FinishJob(j)
           \/ UNCHANGED vars
  BY <1>0, <1>7
     DEF EnsurePVCPool, GetJobStatus, ListPods, CleanupPod, ReleaseSlot, CleanupDone,
         CreateAgentPod, FindAndAssignPVC, RollbackSlot, CreateFailed, ScaleDone,
         WatchPVCs, SubmitJob, CancelJob, AssignJob, FinishJob, kubeVars, vars
<1> QED
  BY <1>1, <1>2, <1>3, <1>4, <1>5, <1>6, <1>7 DEF Next, Reconcile

-----------------------------------------------------------------------------
(* How the local variables of Reconcile move.                              *)

\* Where completed and podName get their values.
Control ==
    /\ ListPods \/ completed' \subseteq completed
    /\ pc' \notin {"cleanup", "release"} =>
          completed' = {} \/ (pc \notin {"cleanup", "release"} /\ completed' = completed)
    /\ pc' = "release" =>
          \/ podName' \in completed /\ completed' = completed
          \/ pc = "release" /\ podName' = podName /\ completed' = completed
    /\ pc' = "assign" =>
          \/ podName' \in FreshNames /\ UNCHANGED <<phase, podLag>>
          \/ pc = "assign" /\ podName' = podName /\ ~CreatePod

\* The steps of Reconcile and of everybody else move them so.
LEMMA ControlFlow == TypeInv /\ [Next]_vars => Control
<1> SUFFICES ASSUME TypeInv, [Next]_vars PROVE Control
  OBVIOUS
<1>0. ASSUME UNCHANGED <<pc, localVars>>, ~CreatePod PROVE Control
  BY <1>0 DEF Control, localVars
<1>1. CASE EnsurePVCPool \/ GetJobStatus \/ ListPods
  BY <1>1 DEF EnsurePVCPool, GetJobStatus, ListPods, Control, localVars
<1>2. CASE CleanupPod \/ ReleaseSlot \/ DeleteCompletedPod \/ CleanupDone
  BY <1>2 DEF CleanupPod, ReleaseSlot, DeleteCompletedPod, CleanupDone, Control, localVars
<1>3. CASE CreateAgentPod
  BY <1>3 DEF CreateAgentPod, Control, kubeVars
<1>4. CASE FindAndAssignPVC /\ ~CreatePod
  BY <1>4 DEF FindAndAssignPVC, Control
<1>5. CASE CreatePod
  BY <1>5 DEF CreatePod, Control
<1>6. CASE RollbackSlot \/ CreateFailed
  BY <1>6 DEF RollbackSlot, CreateFailed, ResetLocals, Control
<1>7. CASE ScaleDown \/ ScaleDone
  BY <1>7 DEF ScaleDown, ScaleDone, ResetLocals, Control
<1>8. CASE Crash
  BY <1>8 DEF Crash, ResetLocals, Control
<1>9. ASSUME \/ DeliverPods \/ WatchPVCs
             \/ \E p \in Pods : PodStep(p) \/ FailPod(p)
             \/ \E j \in Jobs : SubmitJob(j) \/ CancelJob(j) \/ AssignJob(j) \/ FinishJob(j)
             \/ UNCHANGED vars
      PROVE  UNCHANGED <<pc, localVars>>
  BY <1>9 DEF DeliverPods, WatchPVCs, PodStep, StartPod, ExitPod, KillPod, ReapPod,
              FailPod, SubmitJob, CancelJob, AssignJob, FinishJob, vars
<1> QED
  BY <1>0, <1>1, <1>2, <1>3, <1>4, <1>5, <1>6, <1>7, <1>8, <1>9 DEF Next, Reconcile

-----------------------------------------------------------------------------
(* Cleanup and scale-down.                                                 *)

\* No version in the backlog shows as finished a pod that is still live: a
\* finished pod does not come back, and a name that is reused would have to
\* be in no version at all.
NoResurrection ==
    \A i \in DOMAIN podLag : \A p \in Pods :
        podLag[i][p] \in Terminal => phase[p] \notin Live

\* The name drawn by createAgentPod is new to the API server and the cache.
NewName ==
    /\ podName \in Pods
    /\ phase[podName] = "none"
    /\ \A i \in DOMAIN podLag : podLag[i][podName] = "none"

CleanupInv ==
    /\ TypeInv
    /\ CleanupSparesLive
    /\ NoResurrection
    /\ pc \notin {"cleanup", "release"} => completed = {}
    /\ pc = "release" => podName \in completed
    /\ pc = "assign" => NewName

\* CleanupInv is an invariant.
LEMMA CleanupInvariant == Spec => []CleanupInv
<1>1. Init => CleanupInv
  <2> SUFFICES ASSUME Init, TypeInv PROVE CleanupInv
    BY TypeInit
  <2> QED
    BY DEF Init, CleanupInv, CleanupSparesLive, NoResurrection
<1>2. CleanupInv /\ TypeInv' /\ [Next]_vars => CleanupInv'
  <2> SUFFICES ASSUME CleanupInv, TypeInv', [Next]_vars PROVE CleanupInv'
    OBVIOUS
  <2>1. Births /\ Backlog /\ Control
    BY History, ControlFlow DEF CleanupInv
  <2>2. CreatePod => NewName /\ completed = {}
    BY DEF CleanupInv, CreatePod
  <2>3. NoResurrection'
    <3> SUFFICES ASSUME NEW i \in DOMAIN podLag', NEW p \in Pods,
                        podLag'[i][p] \in Terminal, phase'[p] \in Live
                 PROVE  FALSE
      BY DEF NoResurrection
    <3>1. phase[p] \in Live \/ (NewName /\ p = podName)
      BY <2>1, <2>2 DEF Births
    <3>2. CASE podLag'[i] = phase
      BY <3>1, <3>2 DEF NewName, Live, Terminal
    <3>3. CASE \E k \in DOMAIN podLag : podLag'[i] = podLag[k]
      BY <3>1, <3>3 DEF CleanupInv, NoResurrection, NewName, Live, Terminal
    <3> QED
      BY <2>1, <3>2, <3>3 DEF Backlog
  <2>4. CleanupSparesLive'
    <3>1. ASSUME NEW p \in completed, p \in Pods PROVE phase'[p] \notin Live
      BY <2>1, <2>2, <3>1 DEF CleanupInv, CleanupSparesLive, Births
    <3>2. completed \subseteq Pods
      BY DEF CleanupInv, TypeInv, TypeOK
    <3>3. CASE completed' \subseteq completed
      BY <3>1, <3>2, <3>3 DEF CleanupSparesLive
    <3>4. CASE ListPods
      <4>1. UNCHANGED phase /\ completed' = CompletedPods(PodView)
        BY <3>4 DEF ListPods, kubeVars
      <4>2. PodView = phase \/ (1 \in DOMAIN podLag /\ PodView = podLag[1])
        BY ViewVersion DEF PodView, CleanupInv, TypeInv, TypeOK
      <4>3. \A p \in Pods : PodView[p] \in Terminal => phase[p] \notin Live
        BY <4>2 DEF CleanupInv, NoResurrection, Live, Terminal
      <4> QED
        BY <4>1, <4>3 DEF CompletedPods, CleanupSparesLive
    <3> QED
      BY <2>1, <3>3, <3>4 DEF Control
  <2>5. /\ pc' \notin {"cleanup", "release"} => completed' = {}
        /\ pc' = "release" => podName' \in completed'
    BY <2>1 DEF Control, CleanupInv
  <2>6. ASSUME pc' = "assign" PROVE NewName'
    <3>1. CASE podName' \in FreshNames /\ UNCHANGED <<phase, podLag>>
      BY <3>1 DEF FreshNames, NewName
    <3>2. CASE pc = "assign" /\ podName' = podName /\ ~CreatePod
      <4>1. NewName
        BY <3>2 DEF CleanupInv
      <4>2. phase'[podName] = "none"
        BY <2>1, <3>2, <4>1 DEF Births, NewName
      <4>3. \A i \in DOMAIN podLag' : podLag'[i][podName] = "none"
        BY <2>1, <4>1 DEF Backlog, NewName
      <4> QED
        BY <3>2, <4>1, <4>2, <4>3 DEF NewName
    <3> QED
      BY <2>1, <2>6, <3>1, <3>2 DEF Control
  <2> QED
    BY <2>3, <2>4, <2>5, <2>6 DEF CleanupInv
<1> QED
  BY <1>1, <1>2, TypeInvariant, PTL DEF Spec

\* However far the pod cache trails, whatever fails and whenever the
\* controller restarts, cleanupCompletedPods only frees the PVCs of and
\* deletes pods that are no longer live.
THEOREM CleanupSafe == Spec => []CleanupSparesLive
<1>1. CleanupInv => CleanupSparesLive
  BY DEF CleanupInv
<1> QED
  BY <1>1, CleanupInvariant, PTL

\* No call of a reconcile ends a build that its own GetJobStatus reported:
\* scaleDown skips the agent, cleanup only takes finished pods, and a create
\* never reuses a live pod's name.
THEOREM BuildSafe == Spec => PolledBuildSurvives
<1>1. CleanupInv /\ [Next]_vars =>
        [\A p \in jobStatus.busy :
            Reconcile /\ phase[p] \in Live =>
                phase'[p] = phase[p] /\ (p \in deleting' => p \in deleting)]_vars
  <2> SUFFICES ASSUME CleanupInv, NEW p \in jobStatus.busy, Reconcile, phase[p] \in Live
               PROVE  phase'[p] = phase[p] /\ (p \in deleting' => p \in deleting)
    OBVIOUS
  <2> USE DEF CleanupInv, TypeInv, TypeOK
  <2>1. p \in Pods
    OBVIOUS
  <2>2. ASSUME NEW q \in Pods, q # p, DeletePod(q)
        PROVE  phase'[p] = phase[p] /\ (p \in deleting' => p \in deleting)
    BY <2>1, <2>2 DEF DeletePod, RemovePod, WritePhase
  <2>3. CASE DeleteCompletedPod
    <3>1. podName \in Pods /\ podName # p
      BY <2>3 DEF DeleteCompletedPod, CleanupSparesLive
    <3> QED
      BY <2>2, <2>3, <3>1 DEF DeleteCompletedPod, kubeVars
  <2>4. CASE ScaleDown
    <3>1. \A q \in ScaleDownCandidates : q \in Pods /\ q # p
      BY DEF ScaleDownCandidates
    <3> QED
      BY <2>2, <2>4, <3>1 DEF ScaleDown, kubeVars
  <2>5. CASE CreatePod
    <3>1. podName # p
      BY <2>5 DEF CreatePod, NewName, Live
    <3> QED
      BY <2>1, <2>5, <3>1 DEF CreatePod, PodCreated, WritePhase, kubeVars
  <2>6. CASE \/ EnsurePVCPool \/ GetJobStatus \/ ListPods \/ CleanupPod \/ ReleaseSlot
             \/ CleanupDone \/ CreateAgentPod \/ FindAndAssignPVC \/ RollbackSlot
             \/ CreateFailed \/ ScaleDone
    BY <2>6 DEF EnsurePVCPool, GetJobStatus, ListPods, CleanupPod, ReleaseSlot,
                CleanupDone, CreateAgentPod, FindAndAssignPVC, RollbackSlot,
                CreateFailed, ScaleDone, kubeVars
  <2> QED
    BY <2>3, <2>4, <2>5, <2>6 DEF Reconcile
<1> QED
  BY <1>1, CleanupInvariant, PTL DEF Spec, PolledBuildSurvives

-----------------------------------------------------------------------------
(* Scale-up stays within the bound that spec.maxAgents sets.               *)

\* A version in the backlog misses at most one live pod for each write that
\* came after it: a write to a pod brings at most one to life.
LagInv ==
    \A i \in DOMAIN podLag :
        Cardinality(LivePods) <= Cardinality(ActivePods(podLag[i])) + (Len(podLag) - i + 1)

\* While a reconcile may still create pods, activeCount counts all the live pods
\* but those that its pod list may have missed; pods that end or are deleted
\* after the list only make it too large.
CountInv ==
    /\ MaxAgentsRespected
    /\ LagInv
    /\ pc \in {"cleanup", "release", "scale"} /\ activeCount < desired =>
          Cardinality(LivePods) <= activeCount + PodLag
    /\ pc = "assign" => activeCount < desired /\ Cardinality(LivePods) <= activeCount + PodLag

\* desired is at most the larger one of spec.minAgents and spec.maxAgents.
LEMMA DesiredBound ==
    ASSUME TypeOK
    PROVE  LargestDesired \in Nat /\ desired <= LargestDesired
BY PvcPoolAssumption, ScalingAssumption DEF TypeOK, desired, clamp, LargestDesired

\* There are finitely many pods.
LEMMA LiveFinite ==
    /\ IsFiniteSet(LivePods) /\ Cardinality(LivePods) \in Nat
    /\ \A S \in SUBSET LivePods :
          /\ IsFiniteSet(S) /\ Cardinality(S) \in Nat
          /\ Cardinality(S) <= Cardinality(LivePods)
<1>1. LivePods \subseteq Pods
  BY DEF LivePods
<1>2. IsFiniteSet(LivePods)
  BY <1>1, FS_Subset, PvcPoolAssumption
<1>3. \A S \in SUBSET LivePods : IsFiniteSet(S) /\ Cardinality(S) <= Cardinality(LivePods)
  BY <1>2, FS_Subset
<1> QED
  BY <1>2, <1>3, FS_CardinalityType

\* A step brings at most one pod to life, and only CreatePod does.
LEMMA OneBirth ==
    ASSUME TypeInv, [Next]_vars
    PROVE  /\ Cardinality(LivePods)' \in Nat
           /\ Cardinality(LivePods)' <= Cardinality(LivePods) + 1
           /\ ~CreatePod => Cardinality(LivePods)' <= Cardinality(LivePods)
<1>1. CASE ~CreatePod
  <2>1. LivePods' \subseteq LivePods
    BY <1>1, History DEF Births, LivePods
  <2>2. /\ Cardinality(LivePods) \in Nat /\ Cardinality(LivePods)' \in Nat
        /\ Cardinality(LivePods)' <= Cardinality(LivePods)
    BY <2>1, LiveFinite
  <2> QED
    BY <2>2
<1>2. CASE CreatePod
  <2>1. LivePods' \subseteq LivePods \cup {podName}
    BY History DEF Births, LivePods
  <2>2. /\ IsFiniteSet(LivePods \cup {podName})
        /\ Cardinality(LivePods \cup {podName}) <= Cardinality(LivePods) + 1
    BY LiveFinite, FS_AddElement
  <2>3. /\ IsFiniteSet(LivePods')
        /\ Cardinality(LivePods)' <= Cardinality(LivePods \cup {podName})
    BY <2>1, <2>2, FS_Subset
  <2>4. Cardinality(LivePods)' \in Nat /\ Cardinality(LivePods \cup {podName}) \in Nat
    BY <2>2, <2>3, FS_CardinalityType
  <2> QED
    BY <1>2, <2>2, <2>3, <2>4, LiveFinite
<1> QED
  BY <1>1, <1>2

\* A bound that holds for an age holds for one pod more at one version more.
LEMMA OneMore ==
    ASSUME NEW now \in Nat, NEW next \in Nat, NEW seen \in Nat,
           NEW i \in Nat, NEW k \in Nat, NEW n \in Nat, NEW m \in Nat,
           next <= now + 1, now <= seen + (n - k + 1), m - i = n - k + 1
    PROVE  next <= seen + (m - i + 1)
OBVIOUS

\* The backlog keeps up: a pod comes to life in the write that makes every
\* version one older.
LEMMA LagStep ==
    ASSUME TypeInv, TypeInv', LagInv, [Next]_vars
    PROVE  LagInv'
<1> DEFINE card == Cardinality(LivePods)
           act(v) == Cardinality(ActivePods(v))
<1> SUFFICES ASSUME NEW i \in DOMAIN podLag'
             PROVE  card' <= act(podLag'[i]) + (Len(podLag') - i + 1)
  BY DEF LagInv, ActivePods
<1>1. /\ card \in Nat /\ card' \in Nat /\ card' <= card + 1
      /\ act(podLag'[i]) \in Nat
  BY OneBirth, LiveFinite, ActiveCountType
<1>2. i \in Nat /\ Len(podLag') \in Nat /\ i <= Len(podLag')
  BY DEF TypeInv, TypeOK
<1>3. CASE podLag'[i] = phase
  <2>1. act(podLag'[i]) = card
    BY <1>3 DEF ActivePods, LivePods
  <2> HIDE DEF card, act
  <2> QED
    BY <1>1, <1>2, <2>1
<1>4. ASSUME NEW k \in DOMAIN podLag, podLag'[i] = podLag[k],
             \/ Len(podLag') - i = Len(podLag) - k + 1
             \/ UNCHANGED phase /\ Len(podLag') - i = Len(podLag) - k
      PROVE  card' <= act(podLag'[i]) + (Len(podLag') - i + 1)
  <2>1. k \in Nat /\ Len(podLag) \in Nat
    BY DEF TypeInv, TypeOK
  <2>2. card <= act(podLag'[i]) + (Len(podLag) - k + 1)
    BY <1>4 DEF LagInv
  <2>3. UNCHANGED phase => card' = card
    BY DEF LivePods
  <2>4. CASE Len(podLag') - i = Len(podLag) - k + 1
    BY <1>1, <1>2, <2>1, <2>2, <2>4, OneMore
  <2>5. CASE UNCHANGED phase /\ Len(podLag') - i = Len(podLag) - k
    <3>1. card' <= act(podLag'[i]) + (Len(podLag) - k + 1)
      BY <2>2, <2>3, <2>5
    <3> QED
      BY <2>5, <3>1
  <2> QED
    BY <1>4, <2>4, <2>5
<1> QED
  BY <1>3, <1>4, History DEF Backlog

\* Every step keeps CountInv.
LEMMA CountStep ==
    ASSUME CleanupInv, TypeInv', CountInv, [Next]_vars
    PROVE  CountInv'
<1> DEFINE card == Cardinality(LivePods)
<1>1. /\ desired \in Nat /\ desired <= LargestDesired /\ activeCount \in Nat
      /\ LargestDesired \in Nat /\ PodLag \in Nat /\ card \in Nat
  BY DesiredType, DesiredBound, LiveFinite, ScalingAssumption DEF CleanupInv, TypeInv, TypeOK
<1>L. LagInv'
  BY LagStep DEF CountInv, CleanupInv
<1>2. ASSUME ~CreatePod
      PROVE  card' \in Nat /\ card' <= card
  BY <1>2, OneBirth DEF CleanupInv
<1>3. ASSUME ~CreatePod PROVE MaxAgentsRespected'
  BY <1>1, <1>2, <1>3 DEF CountInv, MaxAgentsRespected, LargestDesired
<1>4. ASSUME ~CreatePod, pc' \in {"idle", "poll", "list", "rollback"} PROVE CountInv'
  BY <1>3, <1>4, <1>L DEF CountInv
<1>5. ASSUME ~CreatePod, UNCHANGED <<jobStatus, activeCount>>,
             \/ pc' = pc
             \/ pc \in {"cleanup", "release", "scale"} /\ pc' \in {"cleanup", "release", "scale"}
      PROVE  CountInv'
  <2>1. desired' = desired
    BY <1>5 DEF desired
  <2> QED
    BY <1>1, <1>2, <1>3, <1>5, <1>L, <2>1 DEF CountInv
<1>6. CASE ListPods /\ ~CreatePod
  <2>1. card <= Cardinality(ActivePods(PodView)) + PodLag
    <3>1. CASE podLag = <<>>
      <4>1. LivePods = ActivePods(PodView)
        BY <3>1 DEF LivePods, ActivePods, PodView, View
      <4> QED
        BY <1>1, <4>1
    <3>2. CASE podLag # <<>>
      <4>1. /\ 1 \in DOMAIN podLag /\ PodView = podLag[1]
            /\ Len(podLag) \in Nat /\ Len(podLag) <= PodLag
        BY <3>2 DEF PodView, View, CleanupInv, TypeInv, TypeOK
      <4>2. card <= Cardinality(ActivePods(PodView)) + (Len(podLag) - 1 + 1)
        BY <4>1 DEF CountInv, LagInv
      <4> QED
        BY <1>1, <4>1, <4>2, ActiveCountType
    <3> QED
      BY <3>1, <3>2
  <2>2. LivePods' = LivePods
    BY <1>6 DEF ListPods, kubeVars, LivePods
  <2>3. card <= activeCount' + PodLag /\ card' = card /\ pc' = "cleanup"
    BY <1>6, <2>1, <2>2 DEF ListPods
  <2> QED
    BY <1>1, <1>3, <1>6, <1>L, <2>3 DEF CountInv
<1>7. CASE CreateAgentPod /\ ~CreatePod
  <2>1. /\ pc = "scale" /\ activeCount < desired /\ UNCHANGED <<jobStatus, activeCount>>
        /\ pc' \in {"assign", "rollback"}
    BY <1>7 DEF CreateAgentPod
  <2>2. desired' = desired
    BY <2>1 DEF desired
  <2> QED
    BY <1>1, <1>2, <1>3, <1>7, <1>L, <2>1, <2>2 DEF CountInv
<1>8. CASE ScaleDown /\ ~CreatePod
  <2>1. /\ pc = "scale" /\ pc' = "scale" /\ activeCount > desired /\ UNCHANGED jobStatus
        /\ activeCount' \in {activeCount, activeCount - 1}
    BY <1>8 DEF ScaleDown
  <2>2. desired' = desired
    BY <2>1 DEF desired
  <2>3. ~(activeCount' < desired')
    BY <1>1, <2>1, <2>2
  <2> QED
    BY <1>3, <1>8, <1>L, <2>1, <2>3 DEF CountInv
<1>9. CASE CreatePod
  <2>1. /\ activeCount < desired /\ card <= activeCount + PodLag
        /\ pc = "assign" /\ UNCHANGED jobStatus
    BY <1>9 DEF CreatePod, CountInv
  <2>2. desired' = desired
    BY <2>1 DEF desired
  <2>3. card' \in Nat /\ card' <= card + 1
    BY OneBirth DEF CleanupInv
  <2>4. MaxAgentsRespected'
    BY <1>1, <2>1, <2>3 DEF MaxAgentsRespected, LargestDesired
  <2>5. pc' = "rollback" \/ (pc' = "scale" /\ activeCount' = activeCount + 1)
    BY <1>9 DEF CreatePod
  <2> QED
    BY <1>1, <1>L, <2>1, <2>3, <2>4, <2>5 DEF CountInv
<1>10. CASE /\ ~CreatePod
            /\ \/ EnsurePVCPool \/ GetJobStatus \/ CreateFailed \/ ScaleDone \/ Crash
  BY <1>4, <1>10 DEF EnsurePVCPool, GetJobStatus, CreateFailed, ScaleDone, Crash
<1>11. CASE /\ ~CreatePod
            /\ \/ CleanupPod \/ ReleaseSlot \/ DeleteCompletedPod \/ CleanupDone
               \/ FindAndAssignPVC \/ RollbackSlot
  BY <1>4, <1>5, <1>11 DEF CleanupPod, ReleaseSlot, DeleteCompletedPod, CleanupDone,
                           FindAndAssignPVC, RollbackSlot, localVars
<1>12. CASE /\ ~CreatePod
            /\ \/ DeliverPods \/ WatchPVCs
               \/ \E p \in Pods : PodStep(p) \/ FailPod(p)
               \/ \E j \in Jobs : SubmitJob(j) \/ CancelJob(j) \/ AssignJob(j) \/ FinishJob(j)
               \/ UNCHANGED vars
  <2>1. UNCHANGED <<pc, jobStatus, activeCount>>
    BY <1>12 DEF DeliverPods, WatchPVCs, PodStep, StartPod, ExitPod, KillPod, ReapPod,
                 FailPod, SubmitJob, CancelJob, AssignJob, FinishJob, vars, localVars
  <2> QED
    BY <1>5, <1>12, <2>1
<1> QED
  BY <1>6, <1>7, <1>8, <1>9, <1>10, <1>11, <1>12 DEF Next, Reconcile

\* spec.maxAgents bounds the pods that are live, terminating ones included, up
\* to one pod for each version the pod cache trails by, and with minAgents in
\* its place where it is the larger one: replies may be lost, calls may fail,
\* pods may die and the controller may restart at any point of the scaling loop.
THEOREM MaxAgentsSafe == Spec => []MaxAgentsRespected
<1>1. Init => CountInv
  <2> SUFFICES ASSUME Init PROVE CountInv
    OBVIOUS
  <2>1. LivePods = {} /\ pc = "idle" /\ podLag = <<>>
    BY DEF Init, LivePods, Live
  <2>2. Cardinality(LivePods) = 0
    BY <2>1, FS_EmptySet
  <2>3. LargestDesired + PodLag >= 0
    BY PvcPoolAssumption, ScalingAssumption DEF LargestDesired
  <2>4. MaxAgentsRespected
    BY <2>2, <2>3 DEF MaxAgentsRespected
  <2> QED
    BY <2>1, <2>4 DEF CountInv, LagInv
<1>2. CleanupInv /\ CleanupInv' /\ CountInv /\ [Next]_vars => CountInv'
  <2>1. CleanupInv' => TypeInv'
    BY DEF CleanupInv
  <2> QED
    BY <2>1, CountStep
<1>3. CountInv => MaxAgentsRespected
  BY DEF CountInv
<1> QED
  BY <1>1, <1>2, <1>3, CleanupInvariant, PTL DEF Spec
=============================================================================
