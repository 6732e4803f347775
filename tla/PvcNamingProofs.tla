--------------------------- MODULE PvcNamingProofs ---------------------------
(***************************************************************************)
(* The names of the cache PVCs are enough: for names of any length and any *)
(* maxAgents, two pools whose names fit never take each other's PVCs.      *)
(***************************************************************************)
EXTENDS PvcNaming, SequenceTheorems, FiniteSetTheorems, TLAPS

-----------------------------------------------------------------------------
(* Names.                                                                  *)

\* What stands between dashes: the separator has to be named, as the provers
\* do not know the members of STRING.
Part == STRING \cup {"cache"}

\* A pool's name, the separator and a template's name, put together.
Joined(pool, cache) == pool \o <<"cache">> \o cache

\* The parts of a joined name.
LEMMA JoinedParts ==
    ASSUME NEW P \in Seq(Part), NEW C \in Seq(Part)
    PROVE  /\ Joined(P, C) \in Seq(Part)
           /\ Len(Joined(P, C)) = Len(P) + 1 + Len(C)
           /\ \A n \in 1..Len(P) : Joined(P, C)[n] = P[n]
           /\ Joined(P, C)[Len(P) + 1] = "cache"
           /\ \A n \in 1..Len(C) : Joined(P, C)[Len(P) + 1 + n] = C[n]
<1>1. /\ Len(P) \in Nat /\ Len(C) \in Nat
      /\ <<"cache">> \in Seq(Part) /\ Len(<<"cache">>) = 1 /\ <<"cache">>[1] = "cache"
  <2>1. "cache" \in Part
    BY DEF Part
  <2>2. <<"cache">> \in Seq(Part)
    BY <2>1
  <2>3. Len(P) \in Nat /\ Len(C) \in Nat
    BY LenProperties
  <2>4. Len(<<"cache">>) = 1 /\ <<"cache">>[1] = "cache"
    OBVIOUS
  <2> QED
    BY <2>2, <2>3, <2>4
<1>2. /\ P \o <<"cache">> \in Seq(Part) /\ Len(P \o <<"cache">>) = Len(P) + 1
      /\ \A n \in 1..(Len(P) + 1) :
            (P \o <<"cache">>)[n] = IF n <= Len(P) THEN P[n] ELSE <<"cache">>[n - Len(P)]
  BY <1>1, ConcatProperties
<1>3. /\ Joined(P, C) \in Seq(Part) /\ Len(Joined(P, C)) = Len(P) + 1 + Len(C)
      /\ \A n \in 1..(Len(P) + 1 + Len(C)) :
            Joined(P, C)[n] = IF n <= Len(P) + 1 THEN (P \o <<"cache">>)[n]
                              ELSE C[n - (Len(P) + 1)]
  BY <1>2, ConcatProperties DEF Joined
<1>4. Joined(P, C)[Len(P) + 1] = "cache"
  BY <1>1, <1>2, <1>3
<1>5. \A n \in 1..Len(P) : Joined(P, C)[n] = P[n]
  BY <1>1, <1>2, <1>3
<1>6. ASSUME NEW n \in 1..Len(C) PROVE Joined(P, C)[Len(P) + 1 + n] = C[n]
  <2> DEFINE k == Len(P) + 1 + n
  <2>1. k \in 1..(Len(P) + 1 + Len(C)) /\ ~(k <= Len(P) + 1) /\ k - (Len(P) + 1) = n
    BY <1>1
  <2> HIDE DEF k
  <2>2. Joined(P, C)[k] = C[n]
    BY <1>3, <2>1
  <2> QED
    BY <2>2 DEF k
<1> QED
  BY <1>3, <1>4, <1>5, <1>6

\* The separator is not inside a template's name.
Clean(C) == \A n \in 1..(Len(C) - 1) : C[n] # "cache"

\* Names that are the same have the same length.
LEMMA JoinedSum ==
    ASSUME NEW P \in Seq(Part), NEW Q \in Seq(Part),
           NEW C \in Seq(Part), NEW D \in Seq(Part), Joined(P, C) = Joined(Q, D)
    PROVE  Len(P) + Len(C) = Len(Q) + Len(D)
<1> DEFINE p == Len(P)
           q == Len(Q)
           c == Len(C)
           d == Len(D)
<1>1. Len(Joined(P, C)) = p + 1 + c /\ Len(Joined(Q, D)) = q + 1 + d
  BY JoinedParts
<1>2. p \in Nat /\ q \in Nat /\ c \in Nat /\ d \in Nat
  BY LenProperties
<1> HIDE DEF p, q, c, d
<1>3. p + 1 + c = q + 1 + d
  BY <1>1
<1>4. p + c = q + d
  BY <1>2, <1>3
<1> QED
  BY <1>4 DEF p, q, c, d

\* The shorter of two pool names cannot be joined to what the longer is
\* joined to: the longer one's separator would be inside the template's name,
\* or end it and leave the other template without a name.
LEMMA JoinedLengths ==
    ASSUME NEW P \in Seq(Part), NEW Q \in Seq(Part),
           NEW C \in Seq(Part), NEW D \in Seq(Part) \ {<<>>},
           Clean(C), Joined(P, C) = Joined(Q, D)
    PROVE  ~(Len(P) < Len(Q))
<1>1. Len(P) \in Nat /\ Len(Q) \in Nat /\ Len(C) \in Nat /\ Len(D) \in Nat /\ Len(D) > 0
  BY EmptySeq
<1>2. Len(P) + Len(C) = Len(Q) + Len(D)
  BY JoinedSum
<1>3. Joined(Q, D)[Len(Q) + 1] = "cache"
  BY JoinedParts
<1>4. \A n \in 1..Len(C) : Joined(P, C)[Len(P) + 1 + n] = C[n]
  BY JoinedParts
<1>5. ASSUME Len(P) < Len(Q) PROVE FALSE
  <2>1. PICK n \in 1..(Len(C) - 1) : Len(P) + 1 + n = Len(Q) + 1
    <3>1. /\ Len(Q) - Len(P) \in 1..(Len(C) - 1)
          /\ Len(P) + 1 + (Len(Q) - Len(P)) = Len(Q) + 1
      BY <1>1, <1>2, <1>5
    <3> QED
      BY <3>1
  <2>2. n \in 1..Len(C)
    BY <1>1
  <2>3. Joined(P, C)[Len(Q) + 1] = C[n]
    BY <1>4, <2>1, <2>2
  <2> QED
    BY <1>3, <2>1, <2>3 DEF Clean
<1> QED
  BY <1>5

\* A joined name can be taken apart again.
LEMMA JoinedApart ==
    ASSUME NEW P \in Seq(Part), NEW Q \in Seq(Part),
           NEW C \in Seq(Part) \ {<<>>}, NEW D \in Seq(Part) \ {<<>>},
           Clean(C), Clean(D), Joined(P, C) = Joined(Q, D)
    PROVE  P = Q /\ C = D
<1>1. Len(P) \in Nat /\ Len(Q) \in Nat /\ Len(C) \in Nat /\ Len(D) \in Nat
  OBVIOUS
<1>2. Len(P) = Len(Q)
  <2>1. ~(Len(P) < Len(Q))
    BY JoinedLengths
  <2>2. ~(Len(Q) < Len(P))
    BY JoinedLengths
  <2> QED
    BY <1>1, <2>1, <2>2
<1>3. Len(C) = Len(D)
  <2>1. Len(P) + Len(C) = Len(Q) + Len(D)
    BY JoinedSum
  <2> QED
    BY <1>1, <1>2, <2>1
<1>4. \A n \in 1..Len(P) : P[n] = Q[n]
  <2>1. \A n \in 1..Len(P) : Joined(P, C)[n] = P[n]
    BY JoinedParts
  <2>2. \A n \in 1..Len(Q) : Joined(Q, D)[n] = Q[n]
    BY JoinedParts
  <2> QED
    BY <1>2, <2>1, <2>2
<1>5. \A n \in 1..Len(C) : C[n] = D[n]
  <2>1. \A n \in 1..Len(C) : Joined(P, C)[Len(P) + 1 + n] = C[n]
    BY JoinedParts
  <2>2. \A n \in 1..Len(D) : Joined(Q, D)[Len(Q) + 1 + n] = D[n]
    BY JoinedParts
  <2> QED
    BY <1>2, <1>3, <2>1, <2>2
<1> QED
  BY <1>2, <1>3, <1>4, <1>5, SeqEqual

\* A name that is not longer than the cut is not cut.
LEMMA NotCut ==
    ASSUME NEW S \in Seq(Part), NEW max \in Nat, Len(S) <= max
    PROVE  truncate(S, max) = S
<1>1. Len(S) \in Nat
  OBVIOUS
<1>2. SubSeq(S, 1, Len(S)) = S
  BY SubSeqFull
<1>3. (IF Len(S) > max THEN max ELSE Len(S)) = Len(S)
  BY <1>1
<1> QED
  BY <1>2, <1>3, Zenon DEF truncate

-----------------------------------------------------------------------------
(* The order in which ensurePVCPool visits the slots.                      *)

\* Rows of M numbers do not overlap.
LEMMA Rows ==
    ASSUME NEW M \in Nat \ {0}, NEW q \in Nat, NEW r \in Nat, q < r
    PROVE  q * M + M <= r * M
<1>1. (r - q - 1) \in Nat
  OBVIOUS
<1>2. (r - q - 1) * M >= 0
  BY <1>1
<1>3. r * M = q * M + M + (r - q - 1) * M
  BY <1>1
<1> QED
  BY <1>2, <1>3

\* The turn of a slot tells its template and its number.
LEMMA Turn ==
    ASSUME NEW M \in Nat \ {0}, NEW q \in Nat, NEW s \in 0..(M - 1), NEW n \in Nat,
           q * M + s = n
    PROVE  n \div M = q /\ n % M = s
<1> DEFINE d == n \div M
           m == n % M
<1>1. d \in Nat /\ m \in 0..(M - 1) /\ d * M + m = n
  OBVIOUS
<1> HIDE DEF d, m
<1>2. ~(d < q)
  BY <1>1, Rows
<1>3. ~(q < d)
  BY <1>1, Rows
<1>4. d = q
  BY <1>1, <1>2, <1>3
<1>5. m = s
  BY <1>1, <1>4
<1> QED
  BY <1>4, <1>5 DEF d, m

\* A turn before the last belongs to a template of the list.
LEMMA TurnInList ==
    ASSUME NEW M \in Nat \ {0}, NEW n \in Nat, NEW len \in Nat, n < len * M
    PROVE  n \div M + 1 \in 1..len /\ n % M \in 0..(M - 1)
<1> DEFINE d == n \div M
           m == n % M
<1>1. d \in Nat /\ m \in 0..(M - 1) /\ d * M + m = n
  OBVIOUS
<1> HIDE DEF d, m
<1>2. ~(len < d)
  BY <1>1, Rows
<1>3. len # d
  BY <1>1
<1>4. d + 1 \in 1..len
  BY <1>1, <1>2, <1>3
<1> QED
  BY <1>1, <1>4 DEF d, m

\* The turn of a slot of the list comes before the end.
LEMMA TurnBeforeEnd ==
    ASSUME NEW M \in Nat \ {0}, NEW len \in Nat, NEW k \in 1..len, NEW s \in 0..(M - 1)
    PROVE  (k - 1) * M + s < len * M /\ (k - 1) * M + s \in Nat
<1> DEFINE q == k - 1
<1>1. q \in Nat /\ q < len
  OBVIOUS
<1> HIDE DEF q
<1>2. q * M + M <= len * M /\ q * M \in Nat /\ len * M \in Nat
  BY <1>1, Rows
<1>3. q * M + s < len * M /\ q * M + s \in Nat
  BY <1>2
<1> QED
  BY <1>3 DEF q

-----------------------------------------------------------------------------
(* What ensurePVCPool has made.                                            *)

Numbers == 0..(MaxAgents - 1)

\* The PVC that pool i creates for slot s of its template k.
Pvc(i, k, s) ==
    [name |-> pvcSlotName(pools[i].name, pools[i].caches[k], s), pool |-> pools[i].name,
     cache |-> pools[i].caches[k], slot |-> s]

NameType ==
    /\ pools \in [Both -> [name: PoolNames, caches: CacheLists]]
    /\ pools[1].name # pools[2].name
    /\ next \in [Both -> Nat]

\* Every PVC is one that a pool would create for a slot of its own.
Made ==
    \A v \in pvcs : \E i \in Both : \E k \in DOMAIN pools[i].caches : \E s \in Numbers :
        v = Pvc(i, k, s)

\* Every slot whose turn has come has a PVC of its name, its own or not.
Seen ==
    \A i \in Both : \A k \in DOMAIN pools[i].caches : \A s \in Numbers :
        (k - 1) * MaxAgents + s < next[i] =>
            \E v \in pvcs : v.name = Pvc(i, k, s).name

NamingInv == NameType /\ Made /\ Seen

\* The template lists are sequences of names.
LEMMA ListType ==
    ASSUME NameType, NEW i \in Both
    PROVE  /\ pools[i].name \in PoolNames
           /\ pools[i].caches \in Seq(CacheNames)
           /\ Len(pools[i].caches) \in Nat
           /\ DOMAIN pools[i].caches = 1..Len(pools[i].caches)
<1>1. pools[i] \in [name: PoolNames, caches: CacheLists]
  BY DEF NameType
<1>2. PICK k \in 0..MaxCaches : pools[i].caches \in [1..k -> CacheNames]
  BY <1>1 DEF CacheLists
<1>3. k \in Nat
  BY <1>2, NamingAssumption
<1>4. pools[i].caches \in Seq(CacheNames)
  BY <1>2, <1>3
<1> QED
  BY <1>1, <1>4, LenProperties

\* Every turn keeps the invariant.
LEMMA NamingStep == NamingInv /\ [Next]_vars => NamingInv'
<1> SUFFICES ASSUME NamingInv, [Next]_vars PROVE NamingInv'
  OBVIOUS
<1> USE DEF NamingInv
<1>1. CASE UNCHANGED vars
  BY <1>1 DEF vars, NameType, Made, Seen, Pvc
<1>2. ASSUME NEW i \in Both, EnsureSlot(i) PROVE NamingInv'
  <2> DEFINE n == next[i]
             k == n \div MaxAgents + 1
             s == n % MaxAgents
             len == Len(pools[i].caches)
  <2>0. MaxAgents \in Nat \ {0}
    BY NamingAssumption
  <2>1. n \in Nat /\ n < len * MaxAgents /\ len \in Nat
    BY <1>2, ListType DEF NameType, EnsureSlot, Total
  <2>2. k \in DOMAIN pools[i].caches /\ s \in Numbers
    <3>1. DOMAIN pools[i].caches = 1..len
      BY ListType
    <3> HIDE DEF n, len
    <3>2. k \in 1..len /\ s \in 0..(MaxAgents - 1)
      BY <2>0, <2>1, TurnInList
    <3> QED
      BY <3>1, <3>2 DEF Numbers
  <2>3. /\ pools' = pools /\ next' = [next EXCEPT ![i] = n + 1]
        /\ pvcs' = IF \E v \in pvcs : v.name = Pvc(i, k, s).name THEN pvcs
                   ELSE pvcs \cup {Pvc(i, k, s)}
    BY <1>2 DEF EnsureSlot, Pvc
  <2>4. NameType'
    BY <2>1, <2>3 DEF NameType
  <2>5. \A j, l, t : Pvc(j, l, t)' = Pvc(j, l, t)
    BY <2>3 DEF Pvc
  <2>6. Made'
    BY <2>2, <2>3 DEF Made, Pvc
  <2>7. Seen'
    <3> SUFFICES ASSUME NEW j \in Both, NEW l \in DOMAIN pools[j].caches, NEW t \in Numbers,
                        (l - 1) * MaxAgents + t < next'[j]
                 PROVE  \E v \in pvcs' : v.name = Pvc(j, l, t).name
      BY <2>3 DEF Seen, Pvc
    <3>1. CASE (l - 1) * MaxAgents + t < next[j]
      BY <2>3, <3>1 DEF Seen
    <3>2. CASE ~((l - 1) * MaxAgents + t < next[j])
      <4>0. l \in 1..Len(pools[j].caches) /\ Len(pools[j].caches) \in Nat
        BY ListType
      <4>1. l - 1 \in Nat /\ (l - 1) * MaxAgents + t \in Nat /\ t \in 0..(MaxAgents - 1)
        BY <2>0, <4>0, TurnBeforeEnd DEF Numbers
      <4>2. j = i /\ (l - 1) * MaxAgents + t = n
        BY <2>1, <2>3, <3>2, <4>1 DEF NameType
      <4>3. n \div MaxAgents = l - 1 /\ n % MaxAgents = t
        BY <2>0, <2>1, <4>1, <4>2, Turn
      <4>4. k = l /\ s = t
        BY <4>0, <4>3
      <4> HIDE DEF k, s
      <4>5. Pvc(j, l, t) = Pvc(i, k, s)
        BY <4>2, <4>4
      <4> QED
        BY <2>3, <4>5
    <3> QED
      BY <3>1, <3>2
  <2> QED
    BY <2>4, <2>6, <2>7
<1> QED
  BY <1>1, <1>2 DEF Next

-----------------------------------------------------------------------------
(* Names that fit are enough.                                              *)

\* A fitting pool's PVC is named after the whole names.
LEMMA FittingName ==
    ASSUME NameType, NEW i \in Both, Fits(i), NEW k \in DOMAIN pools[i].caches, NEW s
    PROVE  /\ pools[i].name \in Seq(Part)
           /\ pools[i].caches[k] \in Seq(Part) \ {<<>>}
           /\ Clean(pools[i].caches[k])
           /\ Pvc(i, k, s).name = <<Joined(pools[i].name, pools[i].caches[k]), s>>
<1> DEFINE P == pools[i].name
           C == pools[i].caches[k]
<1>1. P \in PoolNames /\ C \in CacheNames
  BY ListType, ElementOfSeq
<1>2. P \in Seq(STRING) /\ C \in Seq(STRING) /\ C # <<>>
  BY <1>1, NamingAssumption
<1>3. P \in Seq(Part) /\ C \in Seq(Part)
  BY <1>2, SeqMonotonic DEF Part
<1>4. Len(P) <= PoolCut /\ Len(C) <= CacheCut /\ Clean(C)
  BY DEF Fits, Clean
<1>5. PoolCut \in Nat /\ CacheCut \in Nat
  BY NamingAssumption
<1>6. truncate(P, PoolCut) = P /\ truncate(C, CacheCut) = C
  BY <1>3, <1>4, <1>5, NotCut
<1>7. Pvc(i, k, s).name = <<Joined(P, C), s>>
  BY <1>6 DEF Pvc, pvcSlotName, Joined
<1> QED
  BY <1>2, <1>3, <1>4, <1>7

\* A PVC that has the name a fitting pool wants is the PVC it wants.
LEMMA NameTells ==
    ASSUME NamingInv, Fits(1), Fits(2), NEW i \in Both,
           NEW k \in DOMAIN pools[i].caches, NEW s \in Numbers,
           NEW v \in pvcs, v.name = Pvc(i, k, s).name
    PROVE  v = Pvc(i, k, s)
<1> USE DEF NamingInv
<1>0. PICK j \in Both : \E l \in DOMAIN pools[j].caches : \E t \in Numbers : v = Pvc(j, l, t)
  BY DEF Made
<1>1. PICK l \in DOMAIN pools[j].caches, t \in Numbers : v = Pvc(j, l, t)
  BY <1>0
<1> DEFINE P == pools[i].name
           C == pools[i].caches[k]
           Q == pools[j].name
           D == pools[j].caches[l]
<1>2. Fits(i) /\ Fits(j)
  BY DEF Both
<1>3. /\ P \in Seq(Part) /\ C \in Seq(Part) \ {<<>>} /\ Clean(C)
      /\ Pvc(i, k, s).name = <<Joined(P, C), s>>
  BY <1>2, FittingName
<1>4. /\ Q \in Seq(Part) /\ D \in Seq(Part) \ {<<>>} /\ Clean(D)
      /\ Pvc(j, l, t).name = <<Joined(Q, D), t>>
  BY <1>2, FittingName
<1>5. Joined(P, C) = Joined(Q, D) /\ s = t
  BY <1>1, <1>3, <1>4
<1>6. P = Q /\ C = D
  <2> HIDE DEF P, C, Q, D
  <2> QED
    BY <1>3, <1>4, <1>5, JoinedApart
<1> QED
  BY <1>1, <1>5, <1>6 DEF Pvc

\* Once ensurePVCPool has been through its list, the PVCs of a template are
\* its slots, one for each number.
LEMMA ProvisionedSlots ==
    ASSUME NamingInv, Fits(1), Fits(2), NEW i \in Both, next[i] = Total(i),
           NEW k \in DOMAIN pools[i].caches
    PROVE  Provisioned(i, pools[i].caches[k]) = {Pvc(i, k, s) : s \in Numbers}
<1> USE DEF NamingInv
<1>1. ASSUME NEW s \in Numbers
      PROVE  Pvc(i, k, s) \in Provisioned(i, pools[i].caches[k])
  <2>1. MaxAgents \in Nat \ {0} /\ Len(pools[i].caches) \in Nat /\ k \in 1..Len(pools[i].caches)
    BY ListType, NamingAssumption
  <2>2. (k - 1) * MaxAgents + s < next[i]
    BY <2>1, TurnBeforeEnd DEF Total, Numbers
  <2>3. PICK v \in pvcs : v.name = Pvc(i, k, s).name
    BY <2>2 DEF Seen
  <2>4. v = Pvc(i, k, s)
    BY <2>3, NameTells
  <2> QED
    BY <2>4 DEF Provisioned, Pvc
<1>2. ASSUME NEW v \in Provisioned(i, pools[i].caches[k])
      PROVE  \E s \in Numbers : v = Pvc(i, k, s)
  <2>1. v \in pvcs /\ v.pool = pools[i].name /\ v.cache = pools[i].caches[k]
    BY <1>2 DEF Provisioned
  <2>2. PICK j, l : \E t \in Numbers : v = Pvc(j, l, t)
    BY <2>1 DEF Made
  <2>3. pools[j].name = pools[i].name /\ pools[j].caches[l] = pools[i].caches[k]
    BY <2>1, <2>2 DEF Pvc
  <2> QED
    BY <2>2, <2>3 DEF Pvc
<1> QED
  BY <1>1, <1>2

\* There are maxAgents of them.
LEMMA SlotCount ==
    ASSUME NEW i, NEW k
    PROVE  Cardinality({Pvc(i, k, s) : s \in Numbers}) = MaxAgents
<1> DEFINE T == {Pvc(i, k, s) : s \in Numbers}
           f == [s \in Numbers |-> Pvc(i, k, s)]
<1>1. MaxAgents \in Nat \ {0}
  BY NamingAssumption
<1>2. IsFiniteSet(Numbers) /\ Cardinality(Numbers) = MaxAgents
  BY <1>1, FS_Interval DEF Numbers
<1>3. f \in [Numbers -> T]
  OBVIOUS
<1>4. \A s, t \in Numbers : f[s] = f[t] => s = t
  BY DEF Pvc
<1>5. \A v \in T : \E s \in Numbers : f[s] = v
  OBVIOUS
<1>6. f \in Bijection(Numbers, T)
  BY <1>3, <1>4, <1>5 DEF Bijection, Injection, Surjection, IsInjective
<1>7. ExistsBijection(Numbers, T)
  BY <1>6 DEF ExistsBijection
<1> HIDE DEF T
<1>8. Cardinality(T) = Cardinality(Numbers)
  BY <1>2, <1>7, FS_Bijection
<1> QED
  BY <1>2, <1>8 DEF T

\* Two pools of one namespace whose names fit get maxAgents PVCs for each of
\* their templates, for names of any length and any parts, any number of
\* templates, any maxAgents and any order of their turns: a name that holds
\* the separator cannot be taken for another (pvcSlotName, ensurePVCPool).
THEOREM NamesAreEnough == Spec => []NamesSuffice
<1>1. Init => NamingInv
  <2> SUFFICES ASSUME Init PROVE NamingInv
    OBVIOUS
  <2>1. NameType /\ Made
    BY DEF Init, NameType, Made
  <2>2. Seen
    <3> SUFFICES ASSUME NEW i \in Both, NEW k \in DOMAIN pools[i].caches, NEW s \in Numbers
                 PROVE  ~((k - 1) * MaxAgents + s < next[i])
      BY DEF Seen
    <3>1. MaxAgents \in Nat \ {0} /\ Len(pools[i].caches) \in Nat /\ k \in 1..Len(pools[i].caches)
      BY <2>1, ListType, NamingAssumption
    <3>2. (k - 1) * MaxAgents + s \in Nat
      BY <3>1, TurnBeforeEnd DEF Numbers
    <3> QED
      BY <3>2 DEF Init
  <2> QED
    BY <2>1, <2>2 DEF NamingInv
<1>2. NamingInv => NamesSuffice
  BY ProvisionedSlots, SlotCount DEF NamesSuffice, FullyProvisioned
<1> QED
  BY <1>1, <1>2, NamingStep, PTL DEF Spec
=============================================================================
