---------------------------- MODULE AgentScaling ----------------------------
(***************************************************************************)
(* The scaling half of AgentPoolReconciler.Reconcile                       *)
(* (internal/controller/agentpool_controller.go, lines 110-159), running   *)
(* against the API server, the kubelet and Azure DevOps.                   *)
(*                                                                         *)
(* One reconcile of one AgentPool is a sequential program whose steps are  *)
(* its API calls: between two of them pods change phase, jobs are queued,  *)
(* reserved and finished, watch events arrive and the process may die.     *)
(* controller-runtime never runs two reconciles of one key at once, so     *)
(* there is one program counter.  PoolLifecycle has the other half of      *)
(* Reconcile (finalizer, secret, pool ID, dummy agent, status).            *)
(***************************************************************************)
EXTENDS PvcPool

CONSTANTS
    Jobs,         \* identities of ADO job requests
    MinAgents,    \* spec.minAgents
    PodLag,       \* bound: pod versions the informer cache may trail by
    LostReplies,  \* may a call that took effect report an error?
    MaxFaults     \* bound: failed calls, pod failures, controller crashes and
                  \* cancelled builds

ASSUME ScalingAssumption ==
    /\ IsFiniteSet(Jobs)
    /\ MinAgents \in Nat           \* kubebuilder Minimum=0
    /\ PodLag \in Nat
    /\ LostReplies \in BOOLEAN
    /\ MaxFaults \in Nat

VARIABLES
    \* Kubernetes
    phase,        \* status.phase of each pod name; "none": no such pod
    deleting,     \* pods with a deletionTimestamp
    vols,         \* the slots each pod mounts
    podLag,       \* the versions of phase the pod cache has yet to move past
    \* Azure DevOps
    queued,       \* job requests that wait for an agent
    reserved,     \* the agent (pod) each running job request is reserved on
    served,       \* pods whose --once agent has finished its job
    \* the running Reconcile
    pc,           \* the next call
    jobStatus,    \* jobStatus.Pending and jobStatus.BusyAgentNames
    completed,    \* pods that cleanupCompletedPods has yet to visit
    active,       \* activePods that scaleDown has yet to visit
    activeCount,  \* activeCount, adjusted after each create and delete
    podName,      \* the pod being cleaned up or created
    slots,        \* its slots: still to release, or assigned so far
    faults        \* disturbances so far (bound)

kubeVars == <<phase, deleting, vols, podLag>>
adoVars == <<queued, reserved, served>>
pvcVars == <<pvcs, pvcLag>>
localVars == <<jobStatus, completed, active, activeCount, podName, slots>>
vars == <<kubeVars, adoVars, pvcVars, pc, localVars, faults>>

Phases == {"none", "Pending", "Running", "Succeeded", "Failed"}
Terminal == {"Succeeded", "Failed"}
Live == {"Pending", "Running"}
PCs == {"idle", "poll", "list", "cleanup", "release", "scale", "assign", "rollback"}

-----------------------------------------------------------------------------
(* Derived values.                                                         *)

PodView == View(phase, podLag)

LivePods == {p \in Pods : phase[p] \in Live}

\* Mutant of ActivePods: pods that are still Pending are not counted.
ActivePods_RunningOnly(view) == {p \in Pods : view[p] = "Running"}

\* countActivePods' test.  The deletionTimestamp is not looked at, so a
\* terminating pod still counts.
ActivePods(view) == {p \in Pods : view[p] \in Live}

\* Mutant of CompletedPods: everything that is not Running is completed.
CompletedPods_NotRunning(view) == {p \in Pods : view[p] \notin {"none", "Running"}}

\* cleanupCompletedPods' test.
CompletedPods(view) == {p \in Pods : view[p] \in Terminal}

clamp(val, minVal, maxVal) ==
    IF val < minVal THEN minVal ELSE IF val > maxVal THEN maxVal ELSE val

desired == clamp(jobStatus.pending, MinAgents, MaxAgents)

\* The agents GetJobStatus reports as busy.
BusyPods == {p \in Pods : \E j \in Jobs : reserved[j] = p}

\* Mutant of UnfinishedJobs: only requests with a reserved agent are counted.
UnfinishedJobs_ReservedOnly == {j \in Jobs : reserved[j] # None}

\* GetJobStatus counts every request without a FinishTime, running or not.
UnfinishedJobs == queued \cup {j \in Jobs : reserved[j] # None}

\* randomString(6) never repeats the name of a pod that still exists, is in
\* the cache, or is on a label.
FreshNames ==
    {p \in Pods :
        /\ phase[p] = "none"
        /\ \A i \in DOMAIN podLag : podLag[i][p] = "none"
        /\ \A s \in Slots :
              /\ pvcs[s].pod # p
              /\ \A i \in DOMAIN pvcLag : pvcLag[i][s].pod # p}

\* Mutant of Unassigned: a template with no free PVC is skipped.
Unassigned_SkipFull == {c \in Templates : FreeSlots(c) # {} /\ \A s \in slots : s[1] # c}

\* The templates findAndAssignPVCs has yet to serve, in spec order.
Unassigned == {c \in Templates : \A s \in slots : s[1] # c}
IsNextTemplate(c) == c \in Unassigned /\ \A d \in Unassigned : c <= d

-----------------------------------------------------------------------------
(* Building blocks.                                                        *)

Fault == faults < MaxFaults /\ faults' = faults + 1

\* One write to the pod type at the API server.
WritePhase(new) ==
    /\ phase' = new
    /\ podLag' = Pushed(podLag, phase, new, PodLag)

RemovePod(p) ==
    /\ WritePhase([phase EXCEPT ![p] = "none"])
    /\ deleting' = deleting \ {p}
    /\ vols' = [vols EXCEPT ![p] = {}]
    /\ served' = served \ {p}

\* DELETE on an existing pod.  The API server removes a pod that is finished
\* or on no node at once; any other pod gets a deletionTimestamp and its
\* grace period.
DeletePod(p) ==
    \/ phase[p] \in Terminal \cup {"Pending"} /\ RemovePod(p)
    \/ /\ phase[p] \in Live
       /\ deleting' = deleting \cup {p}
       /\ UNCHANGED <<phase, podLag, vols, served>>

\* A pod that dies takes its job with it: ADO closes the abandoned request.
Abandon(p) == reserved' = [j \in Jobs |-> IF reserved[j] = p THEN None ELSE reserved[j]]

ResetLocals ==
    /\ jobStatus' = [pending |-> 0, busy |-> {}]
    /\ completed' = {} /\ active' = {} /\ activeCount' = 0
    /\ podName' = None /\ slots' = {}

-----------------------------------------------------------------------------
Init ==
    /\ phase = [p \in Pods |-> "none"]
    /\ deleting = {} /\ podLag = <<>>
    /\ vols = [p \in Pods |-> {}]
    /\ queued = {} /\ served = {}
    /\ reserved = [j \in Jobs |-> None]
    /\ PvcInit
    /\ pc = "idle" /\ faults = 0
    /\ jobStatus = [pending |-> 0, busy |-> {}]
    /\ completed = {} /\ active = {} /\ activeCount = 0
    /\ podName = None /\ slots = {}

-----------------------------------------------------------------------------
(* Reconcile, call by call.                                                *)

\* ensurePVCPool.  Nobody but this controller reads free slots, so the loop
\* is one step; when the Create of slot f fails, only the slots before f (and
\* f itself, if just the reply was lost) are made, and Reconcile goes on.
EnsurePVCPool ==
    /\ pc = "idle" /\ pc' = "poll"
    /\ \/ EnsureSlots(Slots) /\ UNCHANGED faults
       \/ /\ Fault
          /\ \E f \in Slots :
                /\ PvcView[f] = AbsentPVC
                /\ \/ EnsureSlots({s \in Slots : Rank(s) < Rank(f)})
                   \/ LostReplies /\ EnsureSlots({s \in Slots : Rank(s) <= Rank(f)})
    /\ UNCHANGED <<kubeVars, adoVars, localVars>>

\* adoClient.GetJobStatus: unfinished requests and the agents they are
\* reserved on; an error ends this reconcile.
GetJobStatus ==
    /\ pc = "poll"
    /\ \/ /\ jobStatus' = [pending |-> Cardinality(UnfinishedJobs), busy |-> BusyPods]
          /\ pc' = "list" /\ UNCHANGED faults
       \/ Fault /\ pc' = "idle" /\ UNCHANGED jobStatus
    /\ UNCHANGED <<kubeVars, adoVars, pvcVars, completed, active, activeCount, podName, slots>>

\* r.List of the pool's pods, split the way cleanupCompletedPods and
\* countActivePods split it.  Reads of a synced cache do not fail, here and
\* below.
ListPods ==
    /\ pc = "list" /\ pc' = "cleanup"
    /\ completed' = CompletedPods(PodView)
    /\ active' = ActivePods(PodView)
    /\ activeCount' = Cardinality(ActivePods(PodView))
    /\ UNCHANGED <<kubeVars, adoVars, pvcVars, jobStatus, podName, slots, faults>>

\* cleanupCompletedPods takes the next completed pod, and releasePVCsForPod
\* lists the PVCs labelled with it.
CleanupPod ==
    /\ pc = "cleanup" /\ pc' = "release"
    /\ \E p \in completed :
          /\ podName' = p
          /\ slots' = SlotsAssignedTo(p)
    /\ UNCHANGED <<kubeVars, adoVars, pvcVars, jobStatus, completed, active, activeCount, faults>>

\* One releasePVC of releasePVCsForPod; a failed patch does not stop the loop.
ReleaseSlot ==
    /\ pc = "release"
    /\ \E s \in slots :
          /\ slots' = slots \ {s}
          /\ \/ ReleasePVC(s, AssignedPVC(podName)) /\ UNCHANGED faults
             \/ Fault /\ UNCHANGED pvcVars
    /\ UNCHANGED <<kubeVars, adoVars, pc, jobStatus, completed, active, activeCount, podName>>

\* The r.Delete that ends a pod's cleanup, whether or not its PVCs were
\* released.  NotFound is ignored.
DeleteCompletedPod ==
    /\ pc = "release" /\ slots = {} /\ pc' = "cleanup"
    /\ \/ DeletePod(podName) /\ UNCHANGED faults
       \/ phase[podName] = "none" /\ UNCHANGED <<kubeVars, served, faults>>
       \/ Fault /\ UNCHANGED <<kubeVars, served>>
    /\ completed' = completed \ {podName}
    /\ podName' = None
    /\ UNCHANGED <<queued, reserved, pvcVars, jobStatus, active, activeCount, slots>>

CleanupDone ==
    /\ pc = "cleanup" /\ completed = {} /\ pc' = "scale"
    /\ UNCHANGED <<kubeVars, adoVars, pvcVars, localVars, faults>>

\* createAgentPod draws a name.  When the model is out of names (a bound of
\* the model, not of the code) the create fails.
CreateAgentPod ==
    /\ pc = "scale" /\ activeCount < desired
    /\ \/ podName' \in FreshNames /\ pc' = "assign"
       \/ FreshNames = {} /\ pc' = "rollback" /\ UNCHANGED podName
    /\ UNCHANGED <<kubeVars, adoVars, pvcVars, jobStatus, completed, active, activeCount, slots, faults>>

\* One turn of findAndAssignPVCs: List the free PVCs of the next template and
\* patch the first.  The cache lists in no particular order.
FindAndAssignPVC ==
    /\ pc = "assign"
    /\ \E c \in Templates : IsNextTemplate(c) /\
          \/ /\ FreeSlots(c) = {}
             /\ pc' = "rollback" /\ UNCHANGED <<pvcVars, slots, faults>>
          \/ \E s \in FreeSlots(c) :
                /\ AssignPVC(s, podName)
                /\ slots' = slots \cup {s}
                /\ UNCHANGED <<pc, faults>>
          \/ \E s \in FreeSlots(c) :
                /\ Fault
                /\ UNCHANGED pvcVars \/ (LostReplies /\ AssignPVC(s, podName))
                /\ pc' = "rollback" /\ UNCHANGED slots
    /\ UNCHANGED <<kubeVars, adoVars, jobStatus, completed, active, activeCount, podName>>

PodCreated ==
    /\ WritePhase([phase EXCEPT ![podName] = "Pending"])
    /\ vols' = [vols EXCEPT ![podName] = slots]
    /\ UNCHANGED deleting

\* buildAgentPod and r.Create, once every template has its slot.
CreatePod ==
    /\ pc = "assign" /\ Unassigned = {}
    /\ \/ /\ PodCreated
          /\ activeCount' = activeCount + 1
          /\ podName' = None /\ slots' = {}
          /\ pc' = "scale" /\ UNCHANGED faults
       \/ /\ Fault
          /\ UNCHANGED kubeVars \/ (LostReplies /\ PodCreated)
          /\ pc' = "rollback" /\ UNCHANGED <<activeCount, podName, slots>>
    /\ UNCHANGED <<adoVars, pvcVars, jobStatus, completed, active>>

\* One turn of rollbackAssignedPVCs: Get the PVC (from the cache) and release
\* it against that copy.  Errors are swallowed.
RollbackSlot ==
    /\ pc = "rollback"
    /\ \E s \in slots :
          /\ slots' = slots \ {s}
          /\ \/ ReleasePVC(s, PvcView[s]) /\ UNCHANGED faults
             \/ Fault /\ UNCHANGED pvcVars
    /\ UNCHANGED <<kubeVars, adoVars, pc, jobStatus, completed, active, activeCount, podName>>

\* createAgentPod returns its error and the scale-up loop breaks, with
\* nothing to scale down.
CreateFailed ==
    /\ pc = "rollback" /\ slots = {} /\ pc' = "idle"
    /\ ResetLocals
    /\ UNCHANGED <<kubeVars, adoVars, pvcVars, faults>>

\* Mutant of ScaleDownCandidates: BusyAgentNames is not consulted.
ScaleDownCandidates_IgnoreBusy == active

\* The pods scaleDown may still delete.
ScaleDownCandidates == active \ jobStatus.busy

\* Mutant of ScaleDown: the PVCs of a deleted pod are freed at once, while it
\* still has its grace period.
ScaleDown_ReleaseEarly ==
    /\ pc = "scale" /\ activeCount > desired
    /\ \E p \in ScaleDownCandidates :
          /\ active' = active \ {p}
          /\ DeletePod(p) /\ activeCount' = activeCount - 1
          /\ WritePVCs([s \in Slots |-> IF pvcs[s].pod = p THEN FreePVC ELSE pvcs[s]])
    /\ UNCHANGED <<queued, reserved, pc, jobStatus, completed, podName, slots, faults>>

\* One turn of scaleDown: Delete the next active pod that was not busy at the
\* poll.  A failed Delete, NotFound included, does not count.
ScaleDown ==
    /\ pc = "scale" /\ activeCount > desired
    /\ \E p \in ScaleDownCandidates :
          /\ active' = active \ {p}
          /\ \/ DeletePod(p) /\ activeCount' = activeCount - 1 /\ UNCHANGED faults
             \/ phase[p] = "none" /\ UNCHANGED <<kubeVars, served, activeCount, faults>>
             \/ /\ Fault /\ UNCHANGED activeCount
                /\ UNCHANGED <<kubeVars, served>> \/ (LostReplies /\ DeletePod(p))
    /\ UNCHANGED <<queued, reserved, pvcVars, pc, jobStatus, completed, podName, slots>>

\* Neither loop has anything left to do.
ScaleDone ==
    /\ pc = "scale"
    /\ activeCount = desired \/ (activeCount > desired /\ ScaleDownCandidates = {})
    /\ pc' = "idle"
    /\ ResetLocals
    /\ UNCHANGED <<kubeVars, adoVars, pvcVars, faults>>

Reconcile ==
    \/ EnsurePVCPool \/ GetJobStatus \/ ListPods
    \/ CleanupPod \/ ReleaseSlot \/ DeleteCompletedPod \/ CleanupDone
    \/ CreateAgentPod \/ FindAndAssignPVC \/ CreatePod
    \/ RollbackSlot \/ CreateFailed \/ ScaleDown \/ ScaleDone

\* The controller dies between two calls and restarts (or another replica
\* takes the lease): locals are lost and the caches are listed afresh.
Crash ==
    /\ Fault
    /\ pc # "idle" /\ pc' = "idle"
    /\ ResetLocals
    /\ podLag' = <<>> /\ pvcLag' = <<>>
    /\ UNCHANGED <<phase, deleting, vols, adoVars, pvcs>>

-----------------------------------------------------------------------------
(* Kubernetes: the scheduler, the kubelet and the pod watch.               *)

\* The pod's containers start and its agent comes online.  A
\* ReadWriteOncePod claim keeps a second pod off a mounted PVC.
StartPod(p) ==
    /\ phase[p] = "Pending" /\ p \notin deleting
    /\ \A q \in Pods \ {p} : phase[q] = "Running" => vols[q] \cap vols[p] = {}
    /\ WritePhase([phase EXCEPT ![p] = "Running"])
    /\ UNCHANGED <<deleting, vols, adoVars, pvcVars, pc, localVars, faults>>

\* run.sh --once has returned and start.sh exits.
ExitPod(p) ==
    /\ phase[p] = "Running" /\ p \in served
    /\ WritePhase([phase EXCEPT ![p] = "Succeeded"])
    /\ UNCHANGED <<deleting, vols, adoVars, pvcVars, pc, localVars, faults>>

\* The grace period of a deleted pod ends; whatever it was running is killed.
KillPod(p) ==
    /\ phase[p] = "Running" /\ p \in deleting
    /\ WritePhase([phase EXCEPT ![p] = "Failed"])
    /\ Abandon(p)
    /\ UNCHANGED <<deleting, vols, queued, served, pvcVars, pc, localVars, faults>>

\* A deleted pod that runs nothing any more leaves the API server.
ReapPod(p) ==
    /\ p \in deleting /\ phase[p] \in Terminal \cup {"Pending"}
    /\ RemovePod(p)
    /\ UNCHANGED <<queued, reserved, pvcVars, pc, localVars, faults>>

\* Eviction, node loss, a failing container.  A container whose config.sh
\* fails exits 0 (start.sh's EXIT trap), so the pod may look Succeeded.
FailPod(p) ==
    /\ Fault
    /\ phase[p] \in Live
    /\ \E end \in Terminal : WritePhase([phase EXCEPT ![p] = end])
    /\ Abandon(p)
    /\ UNCHANGED <<deleting, vols, queued, served, pvcVars, pc, localVars>>

DeliverPods ==
    /\ podLag # <<>>
    /\ podLag' = Tail(podLag)
    /\ UNCHANGED <<phase, deleting, vols, adoVars, pvcVars, pc, localVars, faults>>

WatchPVCs ==
    /\ DeliverPVCs
    /\ UNCHANGED <<kubeVars, adoVars, pc, localVars, faults>>

-----------------------------------------------------------------------------
(* Azure DevOps.                                                           *)

SubmitJob(j) ==
    /\ j \notin UnfinishedJobs
    /\ queued' = queued \cup {j}
    /\ UNCHANGED <<kubeVars, reserved, served, pvcVars, pc, localVars, faults>>

\* Somebody cancels a build before it starts.
CancelJob(j) ==
    /\ Fault
    /\ j \in queued
    /\ queued' = queued \ {j}
    /\ UNCHANGED <<kubeVars, reserved, served, pvcVars, pc, localVars>>

\* ADO reserves an idle agent of the pool.  A --once agent takes one job.  An
\* agent whose pod has been told to go is still listening until start.sh's
\* cleanup has removed it, so it may be given one.
AssignJob(j) ==
    /\ j \in queued
    /\ \E p \in Pods \ (BusyPods \cup served) :
          /\ phase[p] = "Running"
          /\ reserved' = [reserved EXCEPT ![j] = p]
    /\ queued' = queued \ {j}
    /\ UNCHANGED <<kubeVars, served, pvcVars, pc, localVars, faults>>

FinishJob(j) ==
    /\ reserved[j] # None
    /\ served' = served \cup {reserved[j]}
    /\ reserved' = [reserved EXCEPT ![j] = None]
    /\ UNCHANGED <<kubeVars, queued, pvcVars, pc, localVars, faults>>

-----------------------------------------------------------------------------
PodStep(p) == StartPod(p) \/ ExitPod(p) \/ KillPod(p) \/ ReapPod(p)

Next ==
    \/ Reconcile
    \/ Crash
    \/ \E p \in Pods : PodStep(p) \/ FailPod(p)
    \/ DeliverPods \/ WatchPVCs
    \/ \E j \in Jobs : SubmitJob(j) \/ CancelJob(j) \/ AssignJob(j) \/ FinishJob(j)

Spec == Init /\ [][Next]_vars

\* Reconcile is requeued after every return; the kubelet, the watches and
\* running builds make progress; and ADO hands a queued job to an agent that
\* is idle again and again.  Nobody has to submit a job, and nothing has to
\* fail.
Fairness ==
    /\ WF_vars(Reconcile)
    /\ \A p \in Pods : WF_vars(PodStep(p))
    /\ WF_vars(DeliverPods) /\ WF_vars(WatchPVCs)
    /\ \A j \in Jobs : SF_vars(AssignJob(j)) /\ WF_vars(FinishJob(j))

FairSpec == Spec /\ Fairness

-----------------------------------------------------------------------------
(* Properties.                                                             *)

TypeOK ==
    /\ phase \in [Pods -> Phases]
    /\ deleting \subseteq Pods
    /\ vols \in [Pods -> SUBSET Slots]
    /\ podLag \in Seq([Pods -> Phases]) /\ Len(podLag) <= PodLag
    /\ PvcTypeOK
    /\ queued \subseteq Jobs
    /\ reserved \in [Jobs -> PodOrNone]
    /\ served \subseteq Pods
    /\ pc \in PCs
    /\ jobStatus \in [pending: Nat, busy: SUBSET Pods]
    /\ completed \subseteq Pods /\ active \subseteq Pods
    /\ activeCount \in Nat
    /\ podName \in PodOrNone /\ slots \subseteq Slots
    /\ faults \in 0..MaxFaults

\* The two labels of a PVC never contradict each other, whatever the cache
\* showed when the patches were computed: a PVC is in state "assigned"
\* exactly when it names a pod (pvc.go patches them together).
Agree(labels) == \A s \in Slots : labels[s].state = "assigned" <=> labels[s].pod # None
LabelsAgree == Agree(pvcs)

\* "each agent pod gets an exclusive cache": no two live pods mount the same
\* PVC (findAndAssignPVCs).
Exclusive ==
    \A p, q \in Pods :
        p # q /\ phase[p] \in Live /\ phase[q] \in Live => vols[p] \cap vols[q] = {}

\* A pod is created with one PVC per template or not at all: every live pod
\* mounts a slot of each template, and no second one (findAndAssignPVCs,
\* createAgentPod's early return).
FullyCached ==
    \A p \in Pods : phase[p] \in Live =>
        /\ \A c \in Templates : \E s \in vols[p] : s[1] = c
        /\ \A s, t \in vols[p] : s[1] = t[1] => s = t

\* spec.maxAgents bounds the pods that exist and have not finished, the
\* terminating ones included, up to one pod for each version that the pod cache
\* trails by: a list that misses a pod just created makes Reconcile create
\* another.  Where the bounds cross, clamp lets minAgents win.
LargestDesired == IF MinAgents > MaxAgents THEN MinAgents ELSE MaxAgents
MaxAgentsRespected == Cardinality(LivePods) <= LargestDesired + PodLag

\* A reconcile never ends a build it knew of: a live pod that was running a
\* job at the poll is neither marked for deletion nor removed by any later
\* call of the same reconcile, however old its pod list is.
PolledBuildSurvives ==
    [][\A p \in jobStatus.busy :
          Reconcile /\ phase[p] \in Live =>
              phase'[p] = phase[p] /\ (p \in deleting' => p \in deleting)]_vars

\* Cleanup takes finished pods only, even from an old pod list: what
\* cleanupCompletedPods frees or deletes is no longer running.
CleanupSparesLive ==
    \A p \in completed : phase[p] \notin Live

\* The labels of the PVCs, the pods and what they mount, seen as leases.
Lease == INSTANCE CacheLease WITH
    Kinds <- Templates, Agents <- Pods,
    owner <- [s \in Slots |-> pvcs[s].pod],
    up <- LivePods,
    mounted <- [p \in Pods |-> IF phase[p] \in Live THEN vols[p] ELSE {}]

\* Every call of a reconcile, every fault between two calls and everything
\* that happens to pods in the meantime is a step of the lease protocol: only
\* free slots are claimed, pods are created with a complete set and mount what
\* they hold, and no slot is released under a live pod, a terminating one
\* included.
LeaseKept == Lease!Spec

\* The labels are a lock: a live pod's name is on every PVC it mounts.
Locked == \A p \in LivePods : \A s \in vols[p] : pvcs[s].pod = p

\* The next call acts on a wrong reading: a PVC listed as free that carries a
\* name (findAndAssignPVCs), a PVC listed as a finished pod's that has another
\* owner by now (releasePVCsForPod), or a Create reported as failed that made
\* its pod (rollbackAssignedPVCs).
Misled ==
    \/ pc = "assign" /\ \E c \in Unassigned : \E s \in FreeSlots(c) : pvcs[s].pod # None
    \/ pc = "release" /\ \E s \in slots : pvcs[s].pod \notin {podName, None}
    \/ pc = "rollback" /\ slots # {} /\ phase[podName] \in Live

\* Those three are all that can go wrong: from a state in which the labels are
\* a lock, every step that does not act on a wrong reading leaves them one and
\* is a step of the lease protocol, however far the caches trail, with lost
\* replies, faults and crashes (findAndAssignPVCs, rollbackAssignedPVCs,
\* releasePVCsForPod).
LeaseUnlessMisled ==
    [][Locked /\ ~Misled => Locked' /\ (Lease!Next \/ UNCHANGED Lease!vars)]_vars

\* The pod that createAgentPod has claimed slots for, or is giving them back.
InCreation == IF pc \in {"assign", "rollback"} /\ slots # {} THEN {podName} ELSE {}

\* The free slots that the available_pvc_slots gauge would report, the live pods
\* and the pod in creation never add up to more than maxAgents: a slot is not
\* on offer while it is in use, also when the pod in creation has its slots of
\* some templates only (countFreePVCSlots).  The gauge is read from a cache
\* that has caught up, and the labels are a lock.
SlotsNotOversold ==
    NumCaches > 0 /\ pvcLag = <<>> /\ Locked =>
        countFreePVCSlots + Cardinality(LivePods \cup InCreation) <= MaxAgents

\* Scale up: a queued job does not wait forever.
JobServed == \A j \in Jobs : j \in queued ~> j \notin queued
=============================================================================
