------------------------------ MODULE PvcPool ------------------------------
(***************************************************************************)
(* The warm-cache PVC pool of internal/controller/pvc.go.                  *)
(*                                                                         *)
(* There is no table of assignments: the pool's state is two labels on     *)
(* each PVC, azp-pool-state and azp-assigned-pod, read through the         *)
(* informer cache and written with JSON merge patches that carry no        *)
(* resourceVersion.  A patch holds only the labels that differ from the    *)
(* copy the caller read, so a stale copy gives a patch that is too small.  *)
(***************************************************************************)
EXTENDS KubeCache, FiniteSetsExt

CONSTANTS
    NumCaches,  \* len(spec.cacheVolumes), the cache volume templates
    MaxAgents,  \* spec.maxAgents, the slots provisioned for each template
    PvcLag,     \* bound: PVC versions the informer cache may trail by
    Pods,       \* names a pod can draw
    None        \* no pod

ASSUME PvcPoolAssumption ==
    /\ NumCaches \in Nat
    /\ MaxAgents \in Nat \ {0}     \* kubebuilder Minimum=1
    /\ PvcLag \in Nat
    /\ IsFiniteSet(Pods)
    /\ None \notin Pods

VARIABLES
    pvcs,    \* the labels of every slot's PVC at the API server
    pvcLag   \* the versions of pvcs the cache has yet to move past

Templates == 1..NumCaches

\* pvcSlotName: template c's slot number i.  Distinct slots have distinct
\* names here; PvcNaming has the names and when that is so.
Slots == Templates \X (0..(MaxAgents - 1))

PodOrNone == Pods \cup {None}

\* The two labels that carry state; pod = None stands for a missing label.
Labels == [state: {"absent", "free", "assigned"}, pod: PodOrNone]

AbsentPVC == [state |-> "absent", pod |-> None]
FreePVC == [state |-> "free", pod |-> None]
AssignedPVC(p) == [state |-> "assigned", pod |-> p]

PvcInit == pvcs = [s \in Slots |-> AbsentPVC] /\ pvcLag = <<>>

PvcView == View(pvcs, pvcLag)

\* One write to the PVC type at the API server.
WritePVCs(new) ==
    /\ pvcs' = new
    /\ pvcLag' = Pushed(pvcLag, pvcs, new, PvcLag)

LabelPVC(s, labels) == WritePVCs([pvcs EXCEPT ![s] = labels])

\* The position of a slot in ensurePVCPool's two nested loops.
Rank(s) == s[1] * MaxAgents + s[2]

\* ensurePVCPool up to `todo`: Create every PVC the cache does not show; an
\* AlreadyExists answer is ignored.
EnsureSlots(todo) ==
    WritePVCs([s \in Slots |->
        IF s \in todo /\ PvcView[s] = AbsentPVC /\ pvcs[s] = AbsentPVC
        THEN FreePVC ELSE pvcs[s]])

\* Mutant of FreeSlots: the List drops the azp-pool-state selector.
FreeSlots_AnyState(c) == {s \in Slots : s[1] = c /\ PvcView[s].state # "absent"}

\* The slots of template c that a List on azp-pool-state=free returns.
FreeSlots(c) == {s \in Slots : s[1] = c /\ PvcView[s].state = "free"}

\* Mutant of countFreePVCSlots: the count of the last template is kept, not the
\* smallest.
countFreePVCSlots_Last == IF NumCaches = 0 THEN MaxAgents ELSE Cardinality(FreeSlots(NumCaches))

\* The fewest free slots of any template, and maxAgents without templates.
countFreePVCSlots ==
    Min({MaxAgents} \cup {Cardinality(FreeSlots(c)) : c \in Templates})

\* The slots that a List on azp-assigned-pod=p returns.
SlotsAssignedTo(p) == {s \in Slots : PvcView[s].pod = p}

\* findAndAssignPVCs' patch.  The copy it starts from was listed as free,
\* so both labels differ and both are in the patch.
AssignPVC(s, p) == LabelPVC(s, AssignedPVC(p))

\* Mutants of ReleasePatch: the label of the pod is kept, or emptied where it
\* should be removed.
ReleasePatch_KeepPod(now, seen) ==
    [now EXCEPT !.state = IF seen.state = "free" THEN @ ELSE "free"]
ReleasePatch_EmptyPod(now, seen) ==
    [state |-> IF seen.state = "free" THEN now.state ELSE "free", pod |-> ""]

\* releasePVC's patch, computed against the copy `seen`: state=free if the
\* copy does not say so already, azp-assigned-pod removed if the copy has it.
ReleasePatch(now, seen) ==
    [state |-> IF seen.state = "free" THEN now.state ELSE "free",
     pod |-> IF seen.pod = None THEN now.pod ELSE None]

\* A PVC that the Get before it does not find is skipped, and there is no
\* patching a PVC that is gone.
ReleasePVC(s, seen) ==
    LabelPVC(s, IF AbsentPVC \in {seen, pvcs[s]} THEN pvcs[s] ELSE ReleasePatch(pvcs[s], seen))

\* The PVC watch delivers one version.
DeliverPVCs ==
    /\ pvcLag # <<>>
    /\ pvcLag' = Tail(pvcLag)
    /\ UNCHANGED pvcs

PvcTypeOK ==
    /\ pvcs \in [Slots -> Labels]
    /\ pvcLag \in Seq([Slots -> Labels])
    /\ Len(pvcLag) <= PvcLag
=============================================================================
