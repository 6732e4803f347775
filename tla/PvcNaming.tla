----------------------------- MODULE PvcNaming -----------------------------
(***************************************************************************)
(* The names of the cache PVCs: pvcSlotName and ensurePVCPool of           *)
(* internal/controller/pvc.go, for two AgentPools of one namespace.        *)
(*                                                                         *)
(* A PVC is looked up and created by its name, and used by its labels.     *)
(* ensurePVCPool takes a PVC that has the name for the PVC it wants, so a  *)
(* slot whose name is taken by another template is never provisioned.      *)
(* PvcPool assumes that this does not happen: its slots are pairs.         *)
(*                                                                         *)
(* A name is the sequence of its parts between dashes, and is cut after a  *)
(* number of parts where the code cuts after a number of characters.       *)
(***************************************************************************)
EXTENDS Naturals, Sequences, FiniteSets

CONSTANTS
    PoolNames,   \* metadata.name of an AgentPool
    CacheNames,  \* spec.cacheVolumes[].name
    MaxCaches,   \* bound: len(spec.cacheVolumes)
    MaxAgents,   \* spec.maxAgents, the same for both pools
    PoolCut,     \* 40: what is kept of the pool's name
    CacheCut     \* 20: what is kept of the template's name

ASSUME NamingAssumption ==
    /\ MaxAgents \in Nat \ {0} /\ MaxCaches \in Nat
    /\ PoolCut \in Nat \ {0} /\ CacheCut \in Nat \ {0}
    /\ PoolNames \subseteq Seq(STRING)
    /\ CacheNames \subseteq Seq(STRING) \ {<<>>}   \* kubebuilder MinLength=1

VARIABLES
    pools,   \* the two AgentPools: name and templates
    pvcs,    \* the PVCs of the namespace: name and labels
    next     \* how many slots ensurePVCPool has seen to, for each pool

vars == <<pools, pvcs, next>>

Both == {1, 2}

\* Templates have distinct names, as the volumes of a pod must.
CacheLists ==
    {cs \in UNION {[1..k -> CacheNames] : k \in 0..MaxCaches} :
        \A i, j \in DOMAIN cs : cs[i] = cs[j] => i = j}

Init ==
    /\ pools \in [Both -> [name: PoolNames, caches: CacheLists]]
    /\ pools[1].name # pools[2].name
    /\ pvcs = {}
    /\ next = [i \in Both |-> 0]

truncate(s, max) == SubSeq(s, 1, IF Len(s) > max THEN max ELSE Len(s))

\* Mutant of pvcSlotName: the fixed part in the middle is left out.
pvcSlotName_NoSeparator(pool, cache, slot) ==
    <<truncate(pool, PoolCut) \o truncate(cache, CacheCut), slot>>

\* <pool>-cache-<template>-<slot>.  The slot's number has no dash in it, so it
\* can be told from what is before it.
pvcSlotName(pool, cache, slot) ==
    <<truncate(pool, PoolCut) \o <<"cache">> \o truncate(cache, CacheCut), slot>>

Total(i) == Len(pools[i].caches) * MaxAgents

\* One turn of ensurePVCPool's loops: Get by name, and Create if not found.
EnsureSlot(i) ==
    /\ next[i] < Total(i)
    /\ LET cache == pools[i].caches[next[i] \div MaxAgents + 1]
           slot == next[i] % MaxAgents
           name == pvcSlotName(pools[i].name, cache, slot)
       IN pvcs' = IF \E v \in pvcs : v.name = name THEN pvcs
                  ELSE pvcs \cup {[name |-> name, pool |-> pools[i].name,
                                   cache |-> cache, slot |-> slot]}
    /\ next' = [next EXCEPT ![i] = @ + 1]
    /\ UNCHANGED pools

Next == \E i \in Both : EnsureSlot(i)

Spec == Init /\ [][Next]_vars

-----------------------------------------------------------------------------
(* Properties.                                                             *)

\* What findAndAssignPVCs can list for a template.
Provisioned(i, cache) == {v \in pvcs : v.pool = pools[i].name /\ v.cache = cache}

\* "ensurePVCPool ensures that MaxAgents PVCs exist per CacheVolumeTemplate"
\* (pvc.go, line 58).
FullyProvisioned ==
    \A i \in Both : next[i] = Total(i) =>
        \A k \in DOMAIN pools[i].caches :
            Cardinality(Provisioned(i, pools[i].caches[k])) = MaxAgents

\* No name is cut, and a template's name has the part "cache" at its end if
\* anywhere ("agent-cache" is fine, "cache-npm" is not).
Fits(i) ==
    /\ Len(pools[i].name) <= PoolCut
    /\ \A k \in DOMAIN pools[i].caches :
          LET c == pools[i].caches[k]
          IN Len(c) <= CacheCut /\ \A n \in 1..(Len(c) - 1) : c[n] # "cache"

\* Pools whose names fit get all their PVCs, although names are put together
\* from parts that may hold the separator: the other pool, its templates and
\* the order of the reconciles do not matter (pvcSlotName, ensurePVCPool).
NamesSuffice == Fits(1) /\ Fits(2) => FullyProvisioned
=============================================================================
