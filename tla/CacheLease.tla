----------------------------- MODULE CacheLease -----------------------------
(***************************************************************************)
(* What the warm-cache PVC pool promises ("assigned exclusively to         *)
(* individual agent pods", api/v1alpha1/agentpool_types.go): cache slots   *)
(* are leased.  A free slot may be claimed for an agent that is not up     *)
(* yet; an agent comes up with a complete set of claimed slots and mounts  *)
(* exactly those; and a slot is given back only when its holder is no      *)
(* longer up.                                                              *)
(*                                                                         *)
(* Nothing here knows of labels, patches, caches or the order of a         *)
(* reconcile's calls: AgentScaling has those, and implements this.         *)
(***************************************************************************)
CONSTANTS
    Kinds,    \* the caches an agent needs one slot of each of
    Slots,    \* pairs of a kind and a number
    Agents,   \* who may hold a slot
    None      \* nobody

VARIABLES
    owner,    \* the holder of each slot, or None
    up,       \* the agents that are up
    mounted   \* the slots each of them mounts

vars == <<owner, up, mounted>>

Held(a) == {s \in Slots : owner[s] = a}

\* One slot of each kind.
Complete(S) ==
    /\ \A k \in Kinds : \E s \in S : s[1] = k
    /\ \A s, t \in S : s[1] = t[1] => s = t

Init ==
    /\ owner = [s \in Slots |-> None]
    /\ up = {}
    /\ mounted = [a \in Agents |-> {}]

Claim(s, a) ==
    /\ owner[s] = None /\ a \notin up
    /\ owner' = [owner EXCEPT ![s] = a]
    /\ UNCHANGED <<up, mounted>>

ComeUp(a) ==
    /\ a \notin up /\ Complete(Held(a))
    /\ up' = up \cup {a}
    /\ mounted' = [mounted EXCEPT ![a] = Held(a)]
    /\ UNCHANGED owner

GoDown(a) ==
    /\ a \in up
    /\ up' = up \ {a}
    /\ mounted' = [mounted EXCEPT ![a] = {}]
    /\ UNCHANGED owner

Release(s) ==
    /\ owner[s] # None /\ owner[s] \notin up
    /\ owner' = [owner EXCEPT ![s] = None]
    /\ UNCHANGED <<up, mounted>>

Next ==
    \/ \E s \in Slots : Release(s) \/ \E a \in Agents : Claim(s, a)
    \/ \E a \in Agents : ComeUp(a) \/ GoDown(a)

Spec == Init /\ [][Next]_vars
=============================================================================
