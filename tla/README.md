# TLA+ models of the Azure DevOps agent operator

The operator watches `AgentPool` objects. Every 30 seconds, and on every
watched change, it asks Azure DevOps (ADO) for the unfinished job requests of a
pool and creates or deletes agent pods to match. It keeps warm-cache PVCs for
the pods and, when it scales to zero, an offline placeholder agent in ADO.

All paths below are relative to the repository (`src/`).

## 1. The system

| Part | Source | State | Operations |
| --- | --- | --- | --- |
| Reconcile: scaling | `internal/controller/agentpool_controller.go` 110-159, 275-482, 569-600 | none of its own: pods in the API server, a pod list and a poll result in locals | `GetJobStatus`, `List`, `cleanupCompletedPods`, `countActivePods`, `clamp`, `createAgentPod`, `scaleDown` |
| Warm-cache PVC pool | `internal/controller/pvc.go` | two labels on each PVC (`azp-pool-state`, `azp-assigned-pod`) | `ensurePVCPool`, `findAndAssignPVCs`, `releasePVCsForPod`, `releasePVC`, `rollbackAssignedPVCs`, `countFreePVCSlots`, `pvcSlotName` |
| Reconcile: object lifecycle | `agentpool_controller.go` 75-108, 160-273, 484-549 | the `AgentPool` object: finalizer, spec, status | finalizer, `fetchPAT`, `resolvePoolID`, `manageDummyAgent`, status updates, `handleDeletion` |
| ADO client | `internal/azuredevops/client.go` | none | REST calls, each of which may fail or lose its reply |
| Agent container | `docker/start.sh` | the agent's registration, the token, the exit code | install, `config.sh`, `run.sh --once`, the traps, `cleanup` |
| Owner references | `SetControllerReference` in `agentpool_controller.go` 331, `pvc.go` 80 | the owner's UID on every pod and PVC | set at `Create`; the garbage collector acts on them |
| Informer cache, API server | controller-runtime and Kubernetes (external) | the cache trails the API server | reads from the cache, writes to the server |
| Metrics, `cmd/main.go`, generated code | `metrics.go`, `cmd/main.go`, `zz_generated.deepcopy.go` | gauges, flags | not modelled |

### How the parts interact

`Reconcile` is the operator's only program, and `start.sh` the only one in a pod.
controller-runtime never runs two reconciles
of one object at a time, so there is one program counter per pool, but between
any two API calls everything else moves: pods change phase, ADO reserves
agents, users edit or delete the object, watches deliver, the process dies.

Three channels make this hard:

- **reads are stale.** `cmd/main.go` hands the reconciler `mgr.GetClient()`, so
  every `Get` and `List` reads an informer cache and every write goes to the
  API server. The cache need not show the reconciler's own last write.
- **writes differ in strength.** The `AgentPool` is written with `Update` and
  `Status().Update`, which carry a resourceVersion and conflict. PVCs are
  written with `client.MergeFrom` patches, which carry none and hold only the
  labels that differ from the copy that was read.
- **the two halves of a fact are written by two calls.** Slots are assigned
  before the pod that mounts them is created; the placeholder is registered in
  ADO before its ID is stored in the status. Every failure, crash and
  conflict can come between.

### What makes each part correct

- *Scaling*: no more than `maxAgents` pods; at least `minAgents`; a running
  build is not killed; a queued job gets an agent in the end; cleanup touches
  finished pods only.
- *PVC pool*: a PVC is mounted by one pod at a time; a pod has all of its
  caches or does not exist; the two labels agree; a slot comes back.
- *Lifecycle*: a placeholder exists exactly when the pool is idle, does not
  outlive its pool, is registered only while the finalizer promises a
  cleanup, and is in the ADO pool that the status names; concurrent writers lose
  nothing; a deletion completes.
- *Agent container*: it ends after one job; it never ends under a build by its
  own doing; the agent it configured is out of ADO when it ends.
- *Owner references*: the pods of a deleted pool go, and a pool of the same name
  gets agents of its own.

`PROJECT.json` lists the hazards behind these, each at its line.

## 2. Modules

| Module | Contents |
| --- | --- |
| `KubeCache` | the informer cache of one resource type: a bounded backlog of older versions |
| `PvcPool` | the PVCs' labels, the queries and patches of `pvc.go` |
| `CacheLease` | abstract: what the PVC pool promises, as a lease protocol |
| `AgentScaling` | extends `PvcPool`: pods, ADO's queue and the scaling half of `Reconcile`, one action per API call; implements `CacheLease` |
| `PoolRecreation` | extends `AgentScaling` with owner references and the garbage collector |
| `PvcNaming` | `pvcSlotName` and `ensurePVCPool` for two pools of one namespace |
| `PoolLifecycle` | the `AgentPool` object, the placeholder and the other half of `Reconcile` |
| `AgentPod` | `start.sh`, the programs it runs, the kubelet and ADO |
| `MCAgentScaling`, `MCPoolLifecycle`, `MCAgentPod`, `MCPoolRecreation`, `MCPvcNaming` | the instances TLC checks: symmetry and name sets |
| `KubeCacheProofs` | what a read returns and what a write does to the backlog |
| `AgentScalingProofs`, `ScalingSafetyProofs`, `ScalingCacheProofs`, `ScalingLeaseProofs` | theorems about `AgentScaling`: types; pods; labels and mounts; leases. Each extends the one before it |
| `PoolLifecycleProofs` | theorems about `PoolLifecycle` |
| `AgentPodProofs`, `PvcNamingProofs` | theorems about `AgentPod` and `PvcNaming` |

Definitions whose comment starts with "Mutant of" are variants of the next
definition with a plausible mistake in it. Nothing uses them; `PROJECT.json`
pairs each with the property that catches it.

### KubeCache

The cache of one type is the sequence of versions it has yet to move past.
`View` is what a read returns, `Pushed` the backlog after a write. The bound
(`PodLag`, `PvcLag`, `PoolLag`) says how many versions the cache may trail by;
0 is a cache in sync. Watches deliver in order, so a cache never goes back; a
restarted controller lists afresh.

### AgentScaling and PvcPool

| State | Code |
| --- | --- |
| `phase`, `deleting`, `vols` | pods: `status.phase`, `deletionTimestamp`, the PVCs in `spec.volumes` |
| `pvcs` | the two labels of each slot; a slot is a pair (template, index), as in `pvcSlotName` |
| `queued`, `reserved`, `served` | ADO job requests without `finishTime`: unreserved, or with the `reservedAgent` they run on; agents that are done |
| `pc`, `jobStatus`, `completed`, `active`, `activeCount`, `podName`, `slots` | the locals of `Reconcile` and of the functions it calls |

`activeCount` is adjusted at each create and delete and the loops stop when it
reaches `desired`. The code counts `created` and `deleted` up to `toCreate` and
`toDelete`; the sums are the same. A failed create ends the scale-up loop, and
then `activeCount < desired`, so that nothing is scaled down (`CreateFailed`).

`EnsurePVCPool` is the loop of `Create`s in `pvc.go` 66-87 as one write: the PVC
cache shows all of them or none. A cache that shows a part of them has fewer
slots on offer for a while and no wrong ones.

Each call can fail (`Fault`). With `LostReplies` a call may also take effect
and still report an error. The model leaves that variant out where the code
treats an error and a success alike (a release, the delete in cleanup).

`releasePVC` is the interesting write. `ReleasePatch` computes the merge patch
against the copy that was read: `releasePVCsForPod` uses the copy from its
`List`, which was selected by the pod label, while `rollbackAssignedPVCs`
`Get`s the PVC again, from a cache that may still show it as free.

Assumptions about what is outside `src/`:

- `randomString(6)` does not draw the name of a pod that exists, is in the
  cache or is on a label.
- A `--once` agent takes one job. ADO may hand it one although its pod is being
  deleted, as long as the pod runs: `AgentPod` shows that the agent listens until
  `cleanup` has removed it.
- A pod deleted while Pending does not start, and a pod whose PVC is mounted by
  a running pod does not start (the PVCs are `ReadWriteOncePod`). `Exclusive`
  is about pods that exist and name the PVC; Kubernetes then keeps one of them
  from starting, and its job waits.
- Reads of a synced cache do not return errors.

### CacheLease, and what implements it

`CacheLease` has three variables (who holds each slot, which agents are up,
what they mount) and four steps: claim a free slot for an agent that is not up,
come up with a complete set, go down, release a slot whose holder is not up.
`AgentScaling!Lease` maps `owner` to the pod labels, `up` to the pods that are
Pending or Running, terminating ones included, and `mounted` to their volumes.
`LeaseKept` says that every step of `AgentScaling` is a step of `CacheLease` or
leaves it alone: `findAndAssignPVCs` claims, `createAgentPod` comes up,
`releasePVC` releases in cleanup and in rollback, and `scaleDown`, crashes and
failures must not touch the labels of a live pod.

The code does not keep that promise unconditionally. `Misled` names the three
moments at which the next call is about to break it, because of what it read:
a PVC listed as free is not, a PVC listed as a finished pod's has been given
away, or a `Create` that worked was reported as failed. `Locked` says that a
live pod's name is on each PVC it mounts. `LeaseUnlessMisled` is then about
every step, whatever the lag and the replies: from a locked state, a step that
is not misled is a step of `CacheLease` and ends in a locked state.

### PoolRecreation

`uid` numbers the AgentPools that have had the name. `podMaker` and `pvcMaker`
remember which of them created each object; `OwnerReference` is what
`SetControllerReference` makes of that, and `Orphan` what the garbage collector
sees. `CollectPod` and `CollectPVC` are its `DELETE`s; a PVC stays, terminating,
until no running pod mounts it (`RemovePVC`). The reconciler is `AgentScaling`
unchanged: it finds pods and PVCs by label and name and does not look at owners
or deletionTimestamps. The PVC cache is in sync (`RecreationAssumption`), so that
no patch is sent for a PVC that is gone.

### PvcNaming

A name is the sequence of its parts between dashes and is cut after a number of
parts, where the code cuts after 40 and 20 characters: what matters is that a
cut loses the end of a name and that the separator `cache` may also be a part.
The numbers of the slots contain no dash (`%02d`). Each pool runs through
`ensurePVCPool` one `Get` and `Create` at a time, in any interleaving.

### AgentPod

| State | `start.sh` |
| --- | --- |
| `step` | where the script is: before the traps (`install`), waiting for `config.sh` (`configure`) or `run.sh` (`run`), in `cleanup`, or out |
| `config` | how far the background `config.sh` is: called ADO, registered, saved its settings, failed |
| `listening` | `run.sh` is alive |
| `code` | the exit code the trap will use: 0, 143 (TERM), 1 (before the traps), 137 (killed) |
| `tokens` | containers whose copy of the PAT works |
| `agents`, `busy`, `served` | ADO's side |

The script is PID 1. Before line 121 a TERM has no handler and is ignored, and
an error ends the script at once. Afterwards TERM interrupts the `wait` but not
the program waited for, so `config.sh` may register an agent, and a listening
agent may take a job, while `cleanup` is already running. `Remove` is the
attempt that succeeds; a failed one changes nothing and is made again.

Assumptions: `config.sh remove` of an agent whose settings were not saved
succeeds and removes nothing; ADO does not remove an agent that runs a job.

### PoolLifecycle

`pool` is the object at the API server; `obj` is the copy `Reconcile` works on
and `fresh` says whether its resourceVersion is still the newest. Every write
by anybody else clears `fresh`. `Saved`, `NotSaved` and `TrySave` are the three
ways the code writes: success, an error that ends the reconcile, and an update
whose error is discarded. Pool IDs are identified with pool names, for ADO maps
one to the other. `GetAgentByName`, `PostAgent` and `DeleteAgent` are the client's
three calls about the placeholder.

Scaling is summarised by `PollAndScale`: whether jobs are queued (`load`) gives
`desired`, and the number of active agents is 0 or "more than 0". At desired 0
agents may be left without any failed call: `scaleDown` does not delete a busy
pod, and a `Delete` that returns NotFound, as it does when the pod list trails,
is skipped without being counted (468-473). This module
takes `spec.minAgents` to be 0, the case in which the placeholder is used.

Assumptions: ADO answers the `DELETE` of an unknown agent ID with 404, refuses
to register a name that is taken, and does not reuse an ID that somebody still
remembers. The secret is read in sync.

## 3. What is checked

Bounds. `Pods`, `Jobs`, `AgentIds` and `PoolNames` are the names that can be in
use at the same time; names of removed pods are drawn again, so runs are
unbounded in length. `MaxFaults` bounds failed calls, crashes, failing pods,
cancelled builds, lost secrets and spec edits together. When all pod names are
in use a create fails, as it would for a quota.

### Runs that pass

| Run | Properties | Instance |
| --- | --- | --- |
| `scaling_podlag` | `Exclusive`, `CleanupSparesLive`, `PolledBuildSurvives`, `LeaseKept` | 3 pods, 2 jobs, 1 template, 0..2 agents, pod cache 1 version behind, 1 fault |
| `scaling_pvclag` | `TypeOK`, `LabelsAgree`, `FullyCached`, `SlotsNotOversold`, `LeaseUnlessMisled` | 2 pods, 1 job, 2 templates, 2 agents, PVC cache 2 versions behind, 1 fault, lost replies |
| `scaling_live` | `JobServed` | 2 pods, 2 jobs, no templates, 0..2 agents, caches in sync, 1 fault, lost replies |
| `lifecycle` | `TypeOK`, `PlaceholderInItsPool`, `RegisteredUnderFinalizer`, `NoLostUpdate`, `DeletionCompletes`, `SecretLossReported`, `PlaceholderAdopted` | 2 ADO pools, 3 IDs, cache 1 version behind, 1 fault, lost replies |
| `agent_pod` | `TypeOK`, `NoAgentLeft`, `ExitSparesBuild`, `EndsAfterJob` | 2 containers, 2 faults |
| `recreation` | `MaxAgentsRespected`, `FormerPodsGo` | 2 pools in a row, 2 pods, 1 job, 1 template, 1 agent, caches in sync, 1 fault, lost replies |
| `pvc_naming` | `NamesSuffice` | 2 pools, every choice of 4 pool names and up to 2 of 6 template names, 2 slots each, cuts after 2 parts |

Why these are enough. One pod more than `MaxAgents` (`scaling_podlag`,
`recreation`) lets a pool exceed its bound and lets a slot be fought over by an
old and a new pod. Two templates are the least with which an assignment can
fail half-way, so that one template has fewer free slots than the other
(`SlotsNotOversold`); two versions of PVC lag are the least with which a release
can miss an assignment that itself followed a release. Three agent
IDs are one in ADO, one remembered wrongly and one new; two ADO pools let an edit
of `spec.poolName` separate the status from the spec. `lifecycle` has one fault
for a crash, a failed call, a lost reply, an edit or a lost secret; conflicts and
deletions are free. Two containers share a PAT that is revoked
between their starts. The names of `pvc_naming` have the separator at the start
and at the end, one that continues another, and some that are longer than the
cuts. What a run leaves out of a safety property (the lag and the crossing
bounds of `MaxAgentsRespected`, more faults, more slots) is in its theorem,
section 4.

`recreation` is where `MaxAgentsRespected` is checked since there the count
includes pods that the running pool did not create: the terminating pods of the
former one count, and a second pod comes only when they have gone.

### Runs that end in a violation

Each of these checks what a comment or a page of the documentation says, and
the code does something else. `PROJECT.json` quotes the sentence.

| Run | Property | What happens |
| --- | --- | --- |
| `stale_pvc_cache` | `Exclusive` | two creates in one reconcile list the same PVC as free, since the cache has not seen the first patch, and patches do not conflict |
| `slot_leak_starves` | `JobServed` | `scaleDown` releases no PVCs; when all slots have leaked no pod can be created |
| `placeholder_left` | `NoPlaceholderLeft` | a `DELETE` between `RegisterDummyAgent` and the status update; `handleDeletion` finds no ID |
| `placeholder_lost` | `PlaceholderKept` | a reconcile with an older copy unregisters the placeholder and its status update conflicts; the status goes on naming it, so `manageDummyAgent` neither looks one up nor registers one |
| `shared_pvc_names` | `FullyProvisioned` | two templates that agree in what is kept of their names share their PVC names; the second gets no PVC, and every create fails for lack of one |

Together with the passing runs they delimit the guarantees:

- `MaxAgentsRespected` is `maxAgents`, plus one pod for each version that the pod
  cache trails by: a reconcile that starts before the watch has shown the last
  one's pods creates them again. Where `minAgents` is above `maxAgents`, which
  nothing prevents, it is `minAgents`: `clamp` tests the lower bound first.
- `Exclusive` and `LeaseKept` fail when a call is `Misled`: `stale_pvc_cache` is the
  first way; with `LostReplies = TRUE` in `scaling_podlag` a `Create` that worked is
  taken for a failure, and its slots are freed and given to the next pod.
  `LeaseUnlessMisled` says that there is no other way.
- `SlotsNotOversold` is about a gauge read from a cache that has caught up, in a
  locked state; a trailing list can show more free slots than there are.
- `PlaceholderAdopted` is about a placeholder that ADO has and the status does not
  name. The converse, a status that names one that is gone, is not repaired
  (`placeholder_lost`).
- The comment on `status.dummyAgentID`, "Non-zero only when activeAgents == 0"
  (`api/v1alpha1/agentpool_types.go` 193-196), is no property here because the code does
  not provide it: at desired 0 a `NotFound` that `scaleDown` does not count leaves
  `activeAgents` above 0 beside the new placeholder, and an error of
  `UnregisterAgent` is logged and the status, with the placeholder and the agents,
  is written all the same.
- `PolledBuildSurvives` is about the builds that the poll reported. A job that
  ADO hands to an idle agent between `GetJobStatus` and `scaleDown`'s `Delete` is
  not among them, and its pod is deleted ("never kills a running build",
  `docs/index.md`, is too much to say). `AgentPod` has the other side: the build
  then has the grace period, which the pod spec leaves at Kubernetes' 30 seconds.
- `NoAgentLeft` excepts agents whose settings were not saved: a TERM while
  `config.sh` is between its call and its settings file leaves an agent in ADO
  that `config.sh remove` does not know of. It also excepts kills.
- `EndsAfterJob` needs a token that works: with a revoked PAT `cleanup` repeats
  `config.sh remove` for ever, and the pod stays Running and counts as active.
- No property says that a recreated pool gets its agents to run. A terminating
  PVC can hold back the new pool: a pod that was given it waits until the PVC
  has gone and been made again. If that pod was scheduled before the PVC was
  marked, pod and PVC wait for each other, and `JobServed` fails with
  `MaxAgents = 1`. `Exclusive` does not hold across a recreation either: a PVC
  that is removed under a pod that still waits for it is made again, labelled
  free, and assigned a second time.
- `NamesSuffice` needs template names without `cache` as a part before the
  last: pool `a` with template `cache-b` and pool `a-cache` with template `b`
  have the same PVC names.

Two effects of the code are in the models without a property of their own: a
rollback whose cached copy predates the assignment sends an empty patch and
leaves the slot assigned; and `status.poolID` is resolved once, so that an edit
of `spec.poolName` is not followed (what the stale ID must not do is
`PlaceholderInItsPool`).

### Fairness

- `WF(Reconcile)`: a call that was made returns, and after a return there is
  another reconcile. An error requeues the object with a back-off, the end of a
  reconcile asks for one after `reconcileInterval`. The return after the finalizer
  was added (line 94) and the end of `handleDeletion` ask for nothing: there the
  watch event of their own `Update` brings the next reconcile, if there still is
  an object.
- `WF(DeliverPods)`, `WF(WatchPVCs)`, `WF(DeliverPool)`: watches deliver.
- `WF(PodStep(p))`: the kubelet starts pods, ends grace periods and removes
  pods; `WF(FinishJob(j))`: builds end.
- `SF(AssignJob(j))`: ADO hands a waiting job to an agent if agents are idle
  again and again. Weak fairness is too little: an idle agent may be scaled down
  and replaced for ever, and each replacement disables the assignment for a
  moment.

- `AgentPod`: `WF(Container(p) /\ UNCHANGED faults)`: the script and its
  programs go on, `cleanup`'s next attempt included, without having to fail;
  `WF(Kill(p))`: grace periods end; `WF(FinishJob(p))`.
- `PoolRecreation`: the garbage collector does its work; a PVC is only sure to
  go when no pod that exists names it.

No fairness on users, on cancellations or on faults. `JobServed` holds with the
pod cache in sync only: with a trailing cache, a reconcile can create too many
pods and the next one delete too many, in step with each other. It also needs
the number of cancelled builds to be bounded (`MaxFaults`), for every
cancellation may trigger a scale-down of the agent the next job would get.

Deadlock is checked in every run of `AgentScaling`, `PoolRecreation` and
`PoolLifecycle`: the operator never stops. Containers end and `ensurePVCPool`
returns, so `AgentPod` and `PvcNaming` may stop.

## 4. What is proved

The safety properties of the passing runs are theorems; `Exclusive` and `LeaseKept`
are theorems of the behaviours in which no call is `Misled`. The theorems hold for
every value of the constants that satisfies the modules' assumptions
(`PvcPoolAssumption`, `ScalingAssumption`, `LifecycleAssumption`,
`AgentPodAssumption`, `NamingAssumption`): any number of pods, jobs, templates,
slots, agent IDs, containers and faults, any lag of any cache, with or without
lost replies, `minAgents` above `maxAgents` included. No theorem has a
hypothesis about a cache being in sync or a reply arriving.

| Theorem | States | Inductive invariant |
| --- | --- | --- |
| `AgentScalingProofs!TypeCorrect` | `TypeOK` | `TypeInv`: adds that a cleanup or an assignment always has a pod's name in hand |
| `ScalingSafetyProofs!CleanupSafe` | `CleanupSparesLive` | `CleanupInv` |
| `ScalingSafetyProofs!BuildSafe` | `PolledBuildSurvives` | `CleanupInv` |
| `ScalingSafetyProofs!MaxAgentsSafe` | `MaxAgentsRespected` | `CountInv`, with `LagInv` |
| `ScalingCacheProofs!LabelsSafe` | `LabelsAgree` | `LabelInv` |
| `ScalingCacheProofs!FullyCachedAlways` | `FullyCached` | `SlotsInv` |
| `ScalingLeaseProofs!LeaseUnless` | `LeaseUnlessMisled` | `Inv`: `CleanupInv`, `LabelInv`, `SlotsInv` and `HandInv` |
| `ScalingLeaseProofs!LeaseRefined` | `<>Misled \/ (LeaseKept /\ []Exclusive)`: the refinement of `CacheLease` | `Inv`, and `Locked` as long as no call is misled |
| `ScalingLeaseProofs!NeverOversold` | `SlotsNotOversold` | `Inv` |
| `PoolLifecycleProofs!TypeCorrect` | `TypeOK` | `TypeInv`: adds that a live object has a name, and that the pool ID is resolved before it is used |
| `PoolLifecycleProofs!RegistrationSafe` | `RegisteredUnderFinalizer` | `LifeInv` |
| `PoolLifecycleProofs!UpdatesSafe` | `NoLostUpdate` | `LifeInv` |
| `PoolLifecycleProofs!PlaceholderFound` | `PlaceholderInItsPool` | `PlaceInv` |
| `AgentPodProofs!TypeCorrect` | `TypeOK` | itself |
| `AgentPodProofs!NoAgentLeftBehind` | `NoAgentLeft` | `PodInv` |
| `AgentPodProofs!BuildSpared` | `ExitSparesBuild` | `PodInv` |
| `PvcNamingProofs!NamesAreEnough` | `NamesSuffice` | `NamingInv` |

The arguments:

- **CleanupInv.** Cleanup acts on a list that may be old, so "the pods in
  `completed` are not live" is not inductive by itself. It becomes so with
  `NoResurrection`: a pod that any version in the backlog shows as finished is
  not live now. That holds because a finished pod never runs again and because
  a new pod gets a name that is new to the server and to the cache (`NewName`).
- **BuildSafe.** A pod that was busy at the poll can be touched by
  `scaleDown`, which skips it, by cleanup, which spares live pods, and by a
  create, whose name is new.
- **LabelInv.** The labels must agree in every version of the backlog, not
  only at the server: a patch computed against a copy whose labels agree changes
  both labels or neither.
- **SlotsInv.** A create holds at most one slot of each template, and
  `CreatePod` is only reached when none is missing.
- **CountInv.** The bound on live pods is kept by a count that was taken at the
  list. `LagInv`: a version in the backlog misses at most one live pod for each
  write that came after it, since a write to a pod brings at most one to life
  (`OneBirth`), and the backlog holds at most `PodLag` versions. So, while a
  reconcile may still create pods, the live pods are at most
  `activeCount + PodLag`: that holds at the list, `activeCount` grows with every
  create, and pods that end meanwhile only make it too large.
  `scaleDown` lowers it, also for a pod that is terminating and still lives, and
  so the invariant is about `activeCount < desired`, where `scaleDown` does
  nothing. A create whose reply is lost adds a pod that is not counted, and is
  the last one of its reconcile. `desired` is at most `LargestDesired`.
- **HandInv.** The name of the pod being created is on every slot in hand, and
  every PVC that carries the name is in hand, since it was on no label when it
  was drawn. So the pod comes up with exactly what it holds. This much needs no
  cache in sync, for `findAndAssignPVCs` patches the server.
- **LeaseUnless.** `Locked` is not an invariant of the code, so it is a hypothesis
  of the step and not of the theorem. A patch of `findAndAssignPVCs` on a PVC that
  is really free is a `Claim`; `CreatePod` is a `ComeUp`; a pod that stops being
  live is a `GoDown`; a patch of `releasePVC` is a `Release` or nothing, since in
  cleanup the pod is not live (`CleanupInv`) and in a rollback it does not exist,
  unless the call is misled. All other steps are invisible.
- **LeaseRefined.** The initial state is locked, so `Locked` holds until the first
  misled call; if there is none, every step is a step of `CacheLease`, and two
  live pods that mount one PVC would both have their name on it.
- **NeverOversold.** Take a template that the pod in creation has a slot of, or
  any if there is no such pod. Each live pod mounts a slot of it, by
  `FullyCached`; by `Locked`, `HandInv` and `LabelsAgree` these slots are one
  pod's each and none is listed as free. So the pods inject into the slots that
  are not free, and the template has at most `maxAgents` slots. The minimum over the templates
  exists because the natural numbers are well-founded.
- **LifeInv.** If any version of the object that the cache may still show
  carries the finalizer and no deletion, then the object at the server carries
  the finalizer: only a reconcile whose copy is the newest takes it off, its
  copy shows the deletion, and the cache does not go back. A fresh copy also has
  the newest name and pool ID, so that whole-object writes revert nothing.
- **PlaceInv.** The status comes from a copy, so the property must hold of every
  copy of the object: the stored one, the one in hand and the whole backlog. It
  is kept because an ID that somebody remembers is not given out again, because
  the pool ID is resolved only once, and because both IDs are saved together.
- **PodInv.** `run.sh` only lives after `config.sh` has saved the agent's
  settings, and a build only runs in a living `run.sh` (`Stages`). The script
  ends by itself after `Remove` or before there is an agent, and `Remove` does not
  succeed for an agent with a build.
- **NamingInv.** Every PVC is one that a pool would create for a slot of its
  own, and every slot whose turn has come has a PVC of its name. That the PVC is
  the slot's own follows from `JoinedApart`: if two joined names are equal and
  one pool's name is the shorter, the other's separator lies inside the first's
  template name, which `Fits` excludes, or at its very end, which leaves the other
  template without a name (`MinLength=1`). The PVCs of a template are then in
  bijection with the slot numbers.

Only model-checked: the liveness properties (`JobServed`, `DeletionCompletes`,
`SecretLossReported`, `PlaceholderAdopted`, `EndsAfterJob`, `FormerPodsGo`), and
`MaxAgentsRespected` across a recreation. For the first there is no proof, since the prover has neither fairness nor `ENABLED`. The
proof modules use no recursion, and nothing here depends on induction over
data.

## 5. What is not modelled

- Metrics, flag parsing, generated code and manifests: no state that anything
  reads back. `countFreePVCSlots`, whose value a gauge shows, is in `PvcPool`.
- URLs, headers, JSON, authentication and pagination of the ADO client: data.
  What matters of a call is its effect, its answer and its failure.
- The container spec and scheduling settings that `buildAgentPod` and `buildPVC`
  copy: passed through. `spec.podLabels` is assumed not to override the
  operator's own labels: a user label `agentpool` would hide every new pod from
  the reconciler, and the pool would grow without bound. It is listed as a hazard.
- The insides of `config.sh` and `run.sh`, and service-principal login in
  `start.sh`: external.
- The edit of `spec.maxAgents`, `spec.minAgents` or `spec.cacheVolumes` of a
  pool with pods: they are constants.

## 6. Plan

All modules of the plan are written, and the safety properties of the runs are
proved. What is left:

1. `PoolRecreation`: which of the scaling theorems survive a recreation of the
   pool. `MaxAgentsRespected`, `CleanupSparesLive`, `LabelsAgree` and `FullyCached`
   should (the garbage collector deletes pods the way `scaleDown` does, and a PVC
   it removes has no label left); `Exclusive` does not (section 3).
2. `CacheLease`: that its leases are exclusive, as a theorem of the abstract
   specification, so that `Exclusive` also follows from `LeaseKept`.
3. `PoolLifecycle`: that ADO never has two placeholders of one name is assumed of
   ADO; how many may be left in the pools of former names is not bounded by
   anything yet.
