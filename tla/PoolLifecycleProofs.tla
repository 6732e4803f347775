------------------------ MODULE PoolLifecycleProofs ------------------------
(***************************************************************************)
(* Theorems about PoolLifecycle, for every set of ADO pools and agent IDs, *)
(* every lag of the AgentPool cache, every number of faults, and with or   *)
(* without lost replies.                                                   *)
(***************************************************************************)
EXTENDS PoolLifecycle, KubeCacheProofs

-----------------------------------------------------------------------------
(* Type correctness.  TypeOK alone is not inductive: LookupDummyAgent reads *)
(* dummy[obj.poolID], so the ID must be resolved by then, and it is         *)
(* resolved to spec.poolName, which every live object has.                 *)

Named(o) == o.live => o.poolName # None

PoolTypeOK ==
    /\ pool \in PoolObjects /\ Named(pool)
    /\ poolLag \in Seq(PoolObjects) /\ Len(poolLag) <= PoolLag
    /\ \A i \in DOMAIN poolLag : Named(poolLag[i])

LocalTypeOK ==
    /\ pc \in PCs
    /\ obj \in PoolObjects /\ fresh \in BOOLEAN
    /\ desired \in {0, 1} /\ active \in {0, 1}
    /\ pc # "idle" => obj.live /\ obj.poolName # None
    /\ pc \in {"poll", "lookup", "register", "unregister", "status"} =>
          obj.poolID # None

EnvTypeOK ==
    /\ secret \in BOOLEAN /\ load \in BOOLEAN /\ agents \in BOOLEAN
    /\ dummy \in [PoolNames -> IdOrNone]

TypeInv == PoolTypeOK /\ LocalTypeOK /\ EnvTypeOK /\ faults \in 0..MaxFaults

\* The absent object is an object.
LEMMA NoPoolType == NoPool \in PoolObjects /\ Named(NoPool)
BY DEF NoPool, PoolObjects, NameOrNone, IdOrNone, Named

\* A write of a well-typed object keeps the object and its backlog well typed.
LEMMA WriteType ==
    ASSUME TypeInv, NEW new \in PoolObjects, Named(new), WritePool(new)
    PROVE  PoolTypeOK'
<1> DEFINE P == Pushed(poolLag, pool, new, PoolLag)
<1>1. /\ pool \in PoolObjects /\ poolLag \in Seq(PoolObjects)
      /\ Len(poolLag) <= PoolLag /\ PoolLag \in Nat
  BY LifecycleAssumption DEF TypeInv, PoolTypeOK
<1>2. P \in Seq(PoolObjects) /\ Len(P) <= PoolLag
  BY <1>1, PushedType
<1>3. \A i \in DOMAIN P : (\E k \in DOMAIN poolLag : P[i] = poolLag[k]) \/ P[i] = pool
  BY <1>1, PushedVersions
<1>4. \A i \in DOMAIN P : Named(P[i])
  BY <1>3 DEF TypeInv, PoolTypeOK
<1>5. poolLag' = P /\ pool' = new
  BY DEF WritePool
<1> HIDE DEF P
<1> QED
  BY <1>2, <1>4, <1>5 DEF PoolTypeOK, Named

\* r.Update writes a well-typed object.
LEMMA UpdatedType ==
    ASSUME TypeInv, pc # "idle", NEW b \in BOOLEAN
    PROVE  /\ Updated([obj EXCEPT !.finalizer = b]) \in PoolObjects
           /\ Named(Updated([obj EXCEPT !.finalizer = b]))
<1> DEFINE o == [obj EXCEPT !.finalizer = b]
<1>1. o.finalizer \in BOOLEAN /\ o.poolName \in NameOrNone /\ o.poolName # None
  BY DEF TypeInv, LocalTypeOK, PoolObjects
<1> HIDE DEF o
<1>2. /\ [pool EXCEPT !.finalizer = o.finalizer, !.poolName = o.poolName] \in PoolObjects
      /\ [pool EXCEPT !.finalizer = o.finalizer, !.poolName = o.poolName].poolName # None
  BY <1>1 DEF TypeInv, PoolTypeOK, PoolObjects
<1>3. Updated(o) \in PoolObjects /\ Named(Updated(o))
  BY <1>2, NoPoolType DEF Updated, Named
<1> QED
  BY <1>3 DEF o

\* r.Status().Update writes a well-typed object.
LEMMA StatusType ==
    ASSUME TypeInv, NEW o \in PoolObjects
    PROVE  StatusUpdated(o) \in PoolObjects /\ Named(StatusUpdated(o))
BY DEF StatusUpdated, PoolObjects, Named, TypeInv, PoolTypeOK

\* Whether or not a write goes through, the types are kept.
LEMMA SaveType ==
    ASSUME TypeInv, NEW new \in PoolObjects, Named(new), Saved(new) \/ NotSaved(new)
    PROVE  PoolTypeOK' /\ faults' \in 0..MaxFaults
<1>1. ASSUME UNCHANGED poolVars PROVE PoolTypeOK'
  BY <1>1 DEF TypeInv, PoolTypeOK, poolVars, Named
<1>2. ASSUME Fault PROVE faults' \in 0..MaxFaults
  BY <1>2, LifecycleAssumption DEF Fault, TypeInv
<1> QED
  BY <1>1, <1>2, WriteType DEF Saved, NotSaved, TypeInv

\* A status update whose error is discarded keeps the types.
LEMMA TrySaveType ==
    ASSUME TypeInv, TrySave(Unavailable(obj))
    PROVE  PoolTypeOK'
<1>1. [obj EXCEPT !.available = "False"] \in PoolObjects
  BY DEF TypeInv, LocalTypeOK, PoolObjects
<1>2. Unavailable(obj) \in PoolObjects /\ Named(Unavailable(obj))
  BY <1>1, StatusType DEF Unavailable
<1>3. CASE WritePool(Unavailable(obj))
  BY <1>2, <1>3, WriteType
<1>4. CASE UNCHANGED poolVars
  BY <1>4 DEF TypeInv, PoolTypeOK, poolVars, Named
<1> QED
  BY <1>3, <1>4 DEF TrySave

\* Returning from Reconcile keeps the types.
LEMMA ReturnType == Return => LocalTypeOK'
BY NoPoolType DEF Return, LocalTypeOK, PCs

\* A counted fault keeps the count within its bound.
LEMMA FaultType ==
    ASSUME TypeInv, Fault
    PROVE  faults' \in 0..MaxFaults
BY LifecycleAssumption DEF Fault, TypeInv

\* An untouched object stays well typed.
LEMMA PoolUnchanged ==
    ASSUME TypeInv, UNCHANGED poolVars
    PROVE  PoolTypeOK'
BY DEF TypeInv, PoolTypeOK, poolVars, Named

\* Untouched surroundings stay well typed.
LEMMA EnvUnchanged ==
    ASSUME TypeInv, UNCHANGED <<envVars, dummy>>
    PROVE  EnvTypeOK'
BY DEF TypeInv, EnvTypeOK, envVars

\* Every step of Reconcile keeps the types.
LEMMA ReconcileType == TypeInv /\ Reconcile => TypeInv'
<1> SUFFICES ASSUME TypeInv, Reconcile PROVE TypeInv'
  OBVIOUS
<1>1. CASE GetPool
  <2>1. PoolTypeOK' /\ EnvTypeOK' /\ faults' \in 0..MaxFaults
    BY <1>1, PoolUnchanged, EnvUnchanged DEF GetPool, TypeInv
  <2>2. PoolView = pool \/ (1 \in DOMAIN poolLag /\ PoolView = poolLag[1])
    BY ViewVersion DEF PoolView, TypeInv, PoolTypeOK
  <2>3. PoolView \in PoolObjects /\ Named(PoolView)
    BY <2>2, ViewType DEF PoolView, TypeInv, PoolTypeOK
  <2>4. LocalTypeOK'
    BY <1>1, <2>3 DEF GetPool, TypeInv, LocalTypeOK, PCs, Named
  <2> QED
    BY <2>1, <2>4 DEF TypeInv
<1>2. CASE AddFinalizer
  BY <1>2, UpdatedType, SaveType, ReturnType, EnvUnchanged DEF AddFinalizer, TypeInv
<1>3. CASE FetchPAT
  <2>1. EnvTypeOK' /\ faults' \in 0..MaxFaults
    BY <1>3, EnvUnchanged, FaultType DEF FetchPAT, TypeInv
  <2>2. PoolTypeOK'
    BY <1>3, PoolUnchanged, TrySaveType DEF FetchPAT
  <2>3. LocalTypeOK'
    BY <1>3, ReturnType DEF Resolved, FetchPAT, TypeInv, LocalTypeOK, PCs, localVars
  <2> QED
    BY <2>1, <2>2, <2>3 DEF TypeInv
<1>4. CASE ResolvePoolID
  <2> DEFINE o == [obj EXCEPT !.poolID = obj.poolName]
  <2>1. /\ o \in PoolObjects
        /\ o.live /\ o.poolName # None /\ o.poolID # None
    BY <1>4 DEF ResolvePoolID, TypeInv, LocalTypeOK, PoolObjects
  <2>2. StatusUpdated(o) \in PoolObjects /\ Named(StatusUpdated(o))
    BY <2>1, StatusType
  <2>3. EnvTypeOK'
    BY <1>4, EnvUnchanged DEF ResolvePoolID
  <2>4. PoolTypeOK' /\ faults' \in 0..MaxFaults
    BY <1>4, <2>2, SaveType, TrySaveType, PoolUnchanged, FaultType DEF ResolvePoolID
  <2>5. CASE Return
    BY <2>3, <2>4, <2>5, ReturnType DEF TypeInv
  <2>6. CASE obj' = o /\ pc' = "poll" /\ UNCHANGED <<fresh, desired, active>>
    BY <2>1, <2>3, <2>4, <2>6 DEF TypeInv, LocalTypeOK, PCs
  <2> QED
    BY <1>4, <2>5, <2>6 DEF ResolvePoolID
<1>5. CASE PollAndScale
  <2>1. EnvTypeOK'
    BY <1>5 DEF PollAndScale, TypeInv, EnvTypeOK
  <2>2. PoolTypeOK' /\ faults' \in 0..MaxFaults
    BY <1>5, PoolUnchanged, TrySaveType, FaultType DEF PollAndScale, TypeInv
  <2>3. CASE Return
    BY <2>1, <2>2, <2>3, ReturnType DEF TypeInv
  <2>4. CASE /\ pc = "poll" /\ desired' = IF load THEN 1 ELSE 0
             /\ active' \in 0..desired' \/ active' = 1
             /\ pc' = DummyStep(desired', obj) /\ UNCHANGED <<obj, fresh>>
    <3>1. desired' \in {0, 1} /\ active' \in {0, 1}
      BY <2>4
    <3>2. pc' \in {"lookup", "unregister", "status"}
      BY <2>4 DEF DummyStep
    <3>3. LocalTypeOK'
      BY <2>4, <3>1, <3>2 DEF TypeInv, LocalTypeOK, PCs
    <3> QED
      BY <2>1, <2>2, <3>3 DEF TypeInv
  <2> QED
    BY <1>5, <2>3, <2>4 DEF PollAndScale
<1>6. CASE LookupDummyAgent
  <2>1. EnvTypeOK' /\ PoolTypeOK' /\ faults' \in 0..MaxFaults
    BY <1>6, PoolUnchanged, EnvUnchanged, FaultType DEF LookupDummyAgent, TypeInv
  <2>2. dummy[obj.poolID] \in IdOrNone
    BY <1>6 DEF LookupDummyAgent, TypeInv, LocalTypeOK, EnvTypeOK, PoolObjects,
                NameOrNone
  <2>3. ASSUME obj' = [obj EXCEPT !.dummyAgentID = dummy[obj.poolID]]
        PROVE  /\ obj' \in PoolObjects
               /\ obj'.live = obj.live /\ obj'.poolName = obj.poolName
               /\ obj'.poolID = obj.poolID
    BY <2>2, <2>3 DEF TypeInv, LocalTypeOK, PoolObjects
  <2>4. LocalTypeOK'
    BY <1>6, <2>3 DEF GetAgentByName, LookupDummyAgent, TypeInv, LocalTypeOK, PCs
  <2> QED
    BY <2>1, <2>4 DEF TypeInv
<1>7. CASE RegisterDummyAgent \/ UnregisterAgent
  <2>1. PoolTypeOK' /\ faults' \in 0..MaxFaults
    BY <1>7, PoolUnchanged, FaultType DEF RegisterDummyAgent, UnregisterAgent, TypeInv
  <2>2. EnvTypeOK'
    BY <1>7 DEF PostAgent, DeleteAgent, RegisterDummyAgent, UnregisterAgent,
                FreshIds, TypeInv, EnvTypeOK, IdOrNone,
                envVars
  <2>3. ASSUME NEW i \in IdOrNone, obj' = [obj EXCEPT !.dummyAgentID = i]
        PROVE  /\ obj' \in PoolObjects
               /\ obj'.live = obj.live /\ obj'.poolName = obj.poolName
               /\ obj'.poolID = obj.poolID
    BY <2>3 DEF TypeInv, LocalTypeOK, PoolObjects
  <2>4. UNCHANGED obj \/ \E i \in IdOrNone : obj' = [obj EXCEPT !.dummyAgentID = i]
    BY <1>7 DEF RegisterDummyAgent, UnregisterAgent, FreshIds, IdOrNone
  <2>5. LocalTypeOK'
    BY <1>7, <2>3, <2>4 DEF RegisterDummyAgent, UnregisterAgent, TypeInv,
                            LocalTypeOK, PCs
  <2> QED
    BY <2>1, <2>2, <2>5 DEF TypeInv
<1>8. CASE UpdateStatus
  <2>1. [obj EXCEPT !.activeAgents = active, !.available = "True"] \in PoolObjects
    BY DEF TypeInv, LocalTypeOK, PoolObjects
  <2> QED
    BY <1>8, <2>1, StatusType, SaveType, ReturnType, EnvUnchanged DEF UpdateStatus,
         TypeInv
<1>9. CASE CleanupDummyAgent
  <2>1. PoolTypeOK' /\ faults' \in 0..MaxFaults
    BY <1>9, PoolUnchanged, FaultType DEF CleanupDummyAgent, TypeInv
  <2>2. EnvTypeOK'
    BY <1>9 DEF DeleteAgent, CleanupDummyAgent, TypeInv, EnvTypeOK, IdOrNone, envVars
  <2>3. LocalTypeOK'
    BY <1>9 DEF CleanupDummyAgent, TypeInv, LocalTypeOK, PCs, localVars
  <2> QED
    BY <2>1, <2>2, <2>3 DEF TypeInv
<1>10. CASE RemoveFinalizer
  BY <1>10, UpdatedType, SaveType, ReturnType, EnvUnchanged DEF RemoveFinalizer, TypeInv
<1> QED
  BY <1>1, <1>2, <1>3, <1>4, <1>5, <1>6, <1>7, <1>8, <1>9, <1>10 DEF Reconcile

\* The user, the watch, the secret, the queue, a crash and stuttering keep
\* the types.
LEMMA EnvironmentType ==
    ASSUME TypeInv,
           \/ Crash \/ DeletePool \/ DeliverPool \/ LoseSecret \/ RestoreSecret
           \/ ChangeLoad \/ UNCHANGED vars
           \/ \E n \in PoolNames : CreatePool(n) \/ EditPoolName(n)
    PROVE  TypeInv'
<1>1. CASE Crash
  BY <1>1, ReturnType, EnvUnchanged, FaultType, LifecycleAssumption
     DEF Crash, TypeInv, PoolTypeOK, Named
<1>2. ASSUME NEW n \in PoolNames, CreatePool(n) PROVE TypeInv'
  <2> DEFINE o == [NoPool EXCEPT !.live = TRUE, !.poolName = n]
  <2>1. o \in PoolObjects /\ Named(o)
    BY LifecycleAssumption DEF NoPool, PoolObjects, Named, NameOrNone, IdOrNone
  <2> QED
    BY <1>2, <2>1, WriteType, EnvUnchanged DEF CreatePool, TypeInv, LocalTypeOK
<1>3. ASSUME NEW n \in PoolNames, EditPoolName(n) PROVE TypeInv'
  <2> DEFINE o == [pool EXCEPT !.poolName = n]
  <2>1. o \in PoolObjects /\ Named(o)
    BY LifecycleAssumption DEF PoolObjects, Named, NameOrNone, TypeInv, PoolTypeOK
  <2> QED
    BY <1>3, <2>1, WriteType, EnvUnchanged, FaultType
       DEF EditPoolName, TypeInv, LocalTypeOK
<1>4. CASE DeletePool
  <2> DEFINE o == IF pool.finalizer THEN [pool EXCEPT !.deleting = TRUE] ELSE NoPool
  <2>1. o \in PoolObjects /\ Named(o)
    BY NoPoolType DEF PoolObjects, Named, TypeInv, PoolTypeOK
  <2> QED
    BY <1>4, <2>1, WriteType, EnvUnchanged DEF DeletePool, TypeInv, LocalTypeOK
<1>5. CASE DeliverPool
  <2>1. Tail(poolLag) \in Seq(PoolObjects) /\ Len(Tail(poolLag)) <= PoolLag
    BY <1>5, TailType, LifecycleAssumption DEF DeliverPool, TypeInv, PoolTypeOK
  <2>2. \A i \in DOMAIN Tail(poolLag) :
           i + 1 \in DOMAIN poolLag /\ Tail(poolLag)[i] = poolLag[i + 1]
    BY <1>5 DEF DeliverPool, TypeInv, PoolTypeOK
  <2>3. PoolTypeOK'
    BY <1>5, <2>1, <2>2 DEF DeliverPool, TypeInv, PoolTypeOK, Named
  <2> QED
    BY <1>5, <2>3, EnvUnchanged DEF DeliverPool, TypeInv, LocalTypeOK, localVars
<1>6. CASE LoseSecret \/ RestoreSecret \/ ChangeLoad \/ UNCHANGED vars
  <2>1. PoolTypeOK' /\ faults' \in 0..MaxFaults
    BY <1>6, PoolUnchanged, FaultType
       DEF LoseSecret, RestoreSecret, ChangeLoad, vars, TypeInv
  <2>2. EnvTypeOK'
    BY <1>6 DEF LoseSecret, RestoreSecret, ChangeLoad, vars, envVars, TypeInv, EnvTypeOK
  <2>3. LocalTypeOK'
    BY <1>6 DEF LoseSecret, RestoreSecret, ChangeLoad, vars, localVars, TypeInv,
                LocalTypeOK
  <2> QED
    BY <2>1, <2>2, <2>3 DEF TypeInv
<1> QED
  BY <1>1, <1>2, <1>3, <1>4, <1>5, <1>6

\* TypeInv is an invariant.
LEMMA TypeInvariant == Spec => []TypeInv
<1>1. Init => TypeInv
  <2> SUFFICES ASSUME Init PROVE TypeInv
    OBVIOUS
  <2>1. PoolTypeOK
    BY NoPoolType, LifecycleAssumption DEF Init, PoolTypeOK
  <2>2. LocalTypeOK
    BY NoPoolType DEF Init, LocalTypeOK, PCs
  <2>3. secret \in BOOLEAN /\ load \in BOOLEAN /\ agents \in BOOLEAN
    BY DEF Init
  <2>4. dummy \in [PoolNames -> IdOrNone]
    BY DEF Init, IdOrNone
  <2>5. faults \in 0..MaxFaults
    BY LifecycleAssumption DEF Init
  <2> QED
    BY <2>1, <2>2, <2>3, <2>4, <2>5 DEF TypeInv, EnvTypeOK
<1>2. TypeInv /\ [Next]_vars => TypeInv'
  BY ReconcileType, EnvironmentType DEF Next
<1> QED
  BY <1>1, <1>2, PTL DEF Spec

\* The lifecycle is type correct.
THEOREM TypeCorrect == Spec => []TypeOK
<1>1. TypeInv => TypeOK
  BY DEF TypeInv, PoolTypeOK, LocalTypeOK, EnvTypeOK, TypeOK
<1> QED
  BY <1>1, TypeInvariant, PTL

-----------------------------------------------------------------------------
(* The finalizer holds while Reconcile works, and writes lose nothing.     *)

Armed(o) == o.live /\ o.finalizer /\ ~o.deleting
Held(o) == o.live /\ o.finalizer

\* The states of a reconcile that found the finalizer and no deletion.
Working == {"fetchPAT", "resolve", "poll", "lookup", "register", "unregister", "status"}

(***************************************************************************)
(* The argument about a trailing cache.  If any version the cache may still *)
(* show is armed, the object still carries the finalizer: only a fresh     *)
(* handleDeletion takes it off, fresh means that the cache had caught up   *)
(* with the deletion, and a cache does not go back.  A write that carries  *)
(* the newest resourceVersion starts from the newest name and pool ID.     *)
(***************************************************************************)
LifeInv ==
    /\ \A i \in DOMAIN poolLag : Armed(poolLag[i]) => Held(pool)
    /\ pc \in Working => Held(pool)
    /\ pc \in {"cleanup", "removeFinalizer"} /\ fresh => poolLag = <<>> /\ pool.deleting
    /\ fresh => obj.poolName = pool.poolName /\ obj.poolID = pool.poolID
    /\ pc = "resolve" => obj.poolID = None

\* The object and its backlog either keep their past or gain one version.
Past ==
    \A i \in DOMAIN poolLag' :
        (\E k \in DOMAIN poolLag : poolLag'[i] = poolLag[k]) \/ poolLag'[i] = pool

\* A write records the version it replaces.
LEMMA WritePast ==
    ASSUME TypeInv, NEW new \in PoolObjects, WritePool(new)
    PROVE  Past
<1> DEFINE P == Pushed(poolLag, pool, new, PoolLag)
<1>1. /\ pool \in PoolObjects /\ poolLag \in Seq(PoolObjects)
      /\ Len(poolLag) <= PoolLag /\ PoolLag \in Nat
  BY LifecycleAssumption DEF TypeInv, PoolTypeOK
<1>2. \A i \in DOMAIN P : (\E k \in DOMAIN poolLag : P[i] = poolLag[k]) \/ P[i] = pool
  BY <1>1, PushedVersions
<1>3. poolLag' = P
  BY DEF WritePool
<1> QED
  BY <1>2, <1>3 DEF Past

\* What a write of the controller may do to the object: r.Status().Update
\* and a first r.Update leave it held, and change neither the name nor a
\* resolved ID.
Benign(new) ==
    /\ new \in PoolObjects
    /\ Held(pool) => Held(new)
    /\ new.poolName = pool.poolName
    /\ pool.poolID # None => new.poolID = pool.poolID

\* A status update from a fresh copy is benign.
LEMMA StatusBenign ==
    ASSUME TypeInv, LifeInv, fresh, NEW o \in PoolObjects,
           o.poolID = obj.poolID \/ pc = "resolve"
    PROVE  Benign(StatusUpdated(o))
BY StatusType DEF Benign, StatusUpdated, Held, LifeInv, TypeInv, PoolTypeOK, PoolObjects

\* The outcomes of a step of Reconcile, as far as the object is concerned:
\* untouched, a benign write, or gone.
Outcome ==
    \/ UNCHANGED poolVars
    \/ fresh /\ WritePool(pool') /\ Benign(pool')
    \/ fresh /\ WritePool(pool') /\ pc = "removeFinalizer" /\ pool' = NoPool

\* A status update, tried or not, has one of these outcomes.
LEMMA TryOutcome ==
    ASSUME TypeInv, LifeInv, TrySave(Unavailable(obj))
    PROVE  Outcome
<1>1. [obj EXCEPT !.available = "False"] \in PoolObjects
  BY DEF TypeInv, LocalTypeOK, PoolObjects
<1>2. [obj EXCEPT !.available = "False"].poolID = obj.poolID
  BY DEF TypeInv, LocalTypeOK, PoolObjects
<1>3. fresh => Benign(Unavailable(obj))
  BY <1>1, <1>2, StatusBenign DEF Unavailable
<1> QED
  BY <1>3 DEF TrySave, MayWrite, WritePool, Outcome

\* A write of a benign object has one of these outcomes, whether it succeeds
\* or not.
LEMMA SaveOutcome ==
    ASSUME NEW new, fresh => Benign(new), Saved(new) \/ NotSaved(new)
    PROVE  Outcome
BY DEF Saved, NotSaved, MayWrite, WritePool, Outcome

\* Every step of Reconcile has one of these outcomes.
LEMMA ReconcileOutcome == TypeInv /\ LifeInv /\ Reconcile => Outcome
<1> SUFFICES ASSUME TypeInv, LifeInv, Reconcile PROVE Outcome
  OBVIOUS
<1>1. CASE \/ GetPool \/ LookupDummyAgent \/ RegisterDummyAgent \/ UnregisterAgent
           \/ CleanupDummyAgent
  BY <1>1 DEF GetPool, LookupDummyAgent, RegisterDummyAgent, UnregisterAgent,
              CleanupDummyAgent, Outcome
<1>2. CASE AddFinalizer
  <2> DEFINE new == Updated([obj EXCEPT !.finalizer = TRUE])
  <2>1. new \in PoolObjects
    BY <1>2, UpdatedType DEF AddFinalizer
  <2>2. new = [pool EXCEPT !.finalizer = TRUE, !.poolName = obj.poolName]
    BY DEF Updated, TypeInv, LocalTypeOK, PoolObjects
  <2>3. fresh => Benign(new)
    BY <2>1, <2>2 DEF Benign, Held, LifeInv, TypeInv, PoolTypeOK, PoolObjects
  <2> QED
    BY <1>2, <2>3, SaveOutcome DEF AddFinalizer
<1>3. CASE FetchPAT \/ PollAndScale
  BY <1>3, TryOutcome DEF FetchPAT, PollAndScale, Outcome
<1>4. CASE ResolvePoolID
  <2> DEFINE o == [obj EXCEPT !.poolID = obj.poolName]
  <2>1. o \in PoolObjects
    BY DEF TypeInv, LocalTypeOK, PoolObjects
  <2>2. fresh => Benign(StatusUpdated(o))
    BY <1>4, <2>1, StatusBenign DEF ResolvePoolID
  <2> QED
    BY <1>4, <2>2, SaveOutcome, TryOutcome DEF ResolvePoolID, Outcome
<1>5. CASE UpdateStatus
  <2> DEFINE o == [obj EXCEPT !.activeAgents = active, !.available = "True"]
  <2>1. o \in PoolObjects /\ o.poolID = obj.poolID
    BY DEF TypeInv, LocalTypeOK, PoolObjects
  <2>2. fresh => Benign(StatusUpdated(o))
    BY <2>1, StatusBenign
  <2> QED
    BY <1>5, <2>2, SaveOutcome DEF UpdateStatus
<1>6. CASE RemoveFinalizer
  <2> DEFINE new == Updated([obj EXCEPT !.finalizer = FALSE])
  <2>1. fresh => new = NoPool
    BY <1>6 DEF RemoveFinalizer, Updated, LifeInv, TypeInv, LocalTypeOK, PoolObjects
  <2> QED
    BY <1>6, <2>1 DEF RemoveFinalizer, Saved, NotSaved, MayWrite, WritePool, Outcome
<1> QED
  BY <1>1, <1>2, <1>3, <1>4, <1>5, <1>6 DEF Reconcile

\* A step keeps the first conjunct of LifeInv when it keeps the object held.
LEMMA HeldBacklog ==
    ASSUME LifeInv, Past, Held(pool) => Held(pool')
    PROVE  \A i \in DOMAIN poolLag' : Armed(poolLag'[i]) => Held(pool')
BY DEF LifeInv, Past, Armed, Held

\* Every step of Reconcile keeps LifeInv.
LEMMA ReconcileLife == TypeInv /\ LifeInv /\ Reconcile => LifeInv'
<1> SUFFICES ASSUME TypeInv, LifeInv, Reconcile PROVE LifeInv'
  OBVIOUS
<1>1. Outcome
  BY ReconcileOutcome
<1>2. Past
  <2>1. pool' \in PoolObjects /\ WritePool(pool') => Past
    BY WritePast
  <2>2. UNCHANGED poolVars => Past
    BY DEF Past, poolVars
  <2> QED
    BY <1>1, <2>1, <2>2, NoPoolType DEF Outcome, Benign
<1>3. CASE fresh /\ WritePool(pool') /\ pc = "removeFinalizer" /\ pool' = NoPool
  <2>1. poolLag = <<>> /\ pool.deleting
    BY <1>3 DEF LifeInv
  <2>2. \A i \in DOMAIN poolLag' : ~Armed(poolLag'[i])
    BY <1>2, <2>1 DEF Past, Armed
  <2>3. Return
    BY <1>3 DEF Reconcile, GetPool, AddFinalizer, FetchPAT, ResolvePoolID, PollAndScale,
                LookupDummyAgent, RegisterDummyAgent, UnregisterAgent, UpdateStatus,
                CleanupDummyAgent, RemoveFinalizer
  <2> QED
    BY <2>2, <2>3 DEF LifeInv, Return, Working
<1>4. CASE Held(pool) => Held(pool')
  <2>1. \A i \in DOMAIN poolLag' : Armed(poolLag'[i]) => Held(pool')
    BY <1>2, <1>4, HeldBacklog
  <2>2. CASE Return
    BY <2>1, <2>2 DEF LifeInv, Return, Working
  <2>3. CASE GetPool
    <3>1. PoolView = pool \/ (poolLag # <<>> /\ 1 \in DOMAIN poolLag /\ PoolView = poolLag[1])
      BY ViewVersion DEF PoolView, TypeInv, PoolTypeOK
    <3>2. Armed(PoolView) => Held(pool)
      BY <3>1 DEF LifeInv, Armed, Held
    <3>3. poolLag = <<>> => PoolView = pool
      BY <3>1
    <3>4. pc' = "fetchPAT" => Armed(PoolView)
      BY <2>3 DEF GetPool, Armed
    <3>5. pc' = "cleanup" => PoolView.deleting
      BY <2>3 DEF GetPool
    <3> QED
      BY <2>1, <2>3, <3>2, <3>3, <3>4, <3>5 DEF GetPool, LifeInv, Working, poolVars,
                                                Held
  <2>4. CASE /\ pc \in Working /\ pc' \in Working
             /\ UNCHANGED <<poolVars, obj, fresh>>
             /\ pc' = "resolve" => obj.poolID = None
    BY <2>1, <2>4 DEF LifeInv, Working, poolVars, Held
  <2>5. CASE LookupDummyAgent \/ RegisterDummyAgent \/ UnregisterAgent
    <3>1. /\ pc \in Working /\ pc' \in Working \ {"resolve"}
          /\ UNCHANGED <<poolVars, fresh>>
          /\ obj'.poolID = obj.poolID /\ obj'.poolName = obj.poolName
      BY <2>5 DEF LookupDummyAgent, RegisterDummyAgent, UnregisterAgent, Working,
                  TypeInv, LocalTypeOK, PoolObjects
    <3> QED
      BY <2>1, <3>1 DEF LifeInv, Working, poolVars, Held
  <2>6. CASE CleanupDummyAgent
    BY <2>1, <2>6 DEF CleanupDummyAgent, LifeInv, Working, poolVars, localVars
  <2>7. CASE ResolvePoolID /\ ~Return
    <3>1. /\ fresh /\ pool' = StatusUpdated([obj EXCEPT !.poolID = obj.poolName])
          /\ obj' = [obj EXCEPT !.poolID = obj.poolName]
          /\ pc = "resolve" /\ pc' = "poll"
      BY <2>7 DEF ResolvePoolID, Saved, MayWrite, WritePool
    <3>2. pool'.poolName = pool.poolName /\ pool'.poolID = obj.poolName
      BY <3>1 DEF StatusUpdated, TypeInv, PoolTypeOK, LocalTypeOK, PoolObjects
    <3>3. obj'.poolName = obj.poolName /\ obj'.poolID = obj.poolName
      BY <3>1 DEF TypeInv, LocalTypeOK, PoolObjects
    <3> QED
      BY <1>4, <2>1, <3>1, <3>2, <3>3 DEF LifeInv, Working
  <2>8. CASE FetchPAT /\ ~Return
    BY <2>4, <2>8 DEF Resolved, FetchPAT, Working, localVars
  <2>9. CASE PollAndScale /\ ~Return
    BY <2>4, <2>9 DEF PollAndScale, DummyStep, Working
  <2> QED
    BY <2>2, <2>3, <2>5, <2>6, <2>7, <2>8, <2>9
       DEF Reconcile, AddFinalizer, UpdateStatus, RemoveFinalizer
<1> QED
  BY <1>1, <1>3, <1>4 DEF Outcome, Benign, poolVars, Held

\* Everybody else keeps LifeInv.
LEMMA EnvironmentLife ==
    ASSUME TypeInv, LifeInv,
           \/ Crash \/ DeletePool \/ DeliverPool \/ LoseSecret \/ RestoreSecret
           \/ ChangeLoad \/ UNCHANGED vars
           \/ \E n \in PoolNames : CreatePool(n) \/ EditPoolName(n)
    PROVE  LifeInv'
<1>1. CASE Crash
  BY <1>1 DEF Crash, Return, LifeInv, Working
<1>2. ASSUME NEW new \in PoolObjects, WritePool(new), Held(pool) => Held(new),
             fresh' = FALSE, UNCHANGED <<pc, obj>>
      PROVE  LifeInv'
  <2>1. Past /\ pool' = new
    BY <1>2, WritePast DEF WritePool
  <2>2. \A i \in DOMAIN poolLag' : Armed(poolLag'[i]) => Held(pool')
    BY <1>2, <2>1, HeldBacklog
  <2> QED
    BY <1>2, <2>1, <2>2 DEF LifeInv
<1>3. ASSUME NEW n \in PoolNames, CreatePool(n) PROVE LifeInv'
  <2> DEFINE o == [NoPool EXCEPT !.live = TRUE, !.poolName = n]
  <2>1. o \in PoolObjects
    BY DEF NoPool, PoolObjects, NameOrNone, IdOrNone
  <2> QED
    BY <1>2, <1>3, <2>1 DEF CreatePool, Held
<1>4. ASSUME NEW n \in PoolNames, EditPoolName(n) PROVE LifeInv'
  <2> DEFINE o == [pool EXCEPT !.poolName = n]
  <2>1. o \in PoolObjects /\ (Held(pool) => Held(o))
    BY DEF PoolObjects, NameOrNone, TypeInv, PoolTypeOK, Held
  <2> QED
    BY <1>2, <1>4, <2>1 DEF EditPoolName
<1>5. CASE DeletePool
  <2> DEFINE o == IF pool.finalizer THEN [pool EXCEPT !.deleting = TRUE] ELSE NoPool
  <2>1. o \in PoolObjects /\ (Held(pool) => Held(o))
    BY NoPoolType DEF PoolObjects, TypeInv, PoolTypeOK, Held
  <2> QED
    BY <1>2, <1>5, <2>1 DEF DeletePool
<1>6. CASE DeliverPool
  <2>1. \A i \in DOMAIN Tail(poolLag) :
           i + 1 \in DOMAIN poolLag /\ Tail(poolLag)[i] = poolLag[i + 1]
    BY <1>6 DEF DeliverPool, TypeInv, PoolTypeOK
  <2> QED
    BY <1>6, <2>1 DEF DeliverPool, LifeInv, localVars, Held
<1>7. CASE LoseSecret \/ RestoreSecret \/ ChangeLoad \/ UNCHANGED vars
  BY <1>7 DEF LoseSecret, RestoreSecret, ChangeLoad, vars, poolVars, localVars,
              LifeInv, Held
<1> QED
  BY <1>1, <1>3, <1>4, <1>5, <1>6, <1>7

\* LifeInv is an invariant.
LEMMA LifeInvariant == Spec => []LifeInv
<1>1. Init => LifeInv
  BY DEF Init, LifeInv, Working
<1>2. TypeInv /\ LifeInv /\ [Next]_vars => LifeInv'
  BY ReconcileLife, EnvironmentLife DEF Next
<1> QED
  BY <1>1, <1>2, TypeInvariant, PTL DEF Spec

\* No placeholder is registered for a pool that has lost its finalizer, so
\* handleDeletion runs after every registration, however far the cache of
\* AgentPools trails and whatever fails.
THEOREM RegistrationSafe == Spec => RegisteredUnderFinalizer
<1>1. LifeInv /\ TypeInv /\ [Next]_vars =>
        [\A n \in PoolNames :
            dummy[n] = None /\ dummy'[n] # None => pool.live /\ pool.finalizer]_vars
  <2> SUFFICES ASSUME LifeInv, TypeInv, Next, NEW n \in PoolNames,
                      dummy[n] = None, dummy'[n] # None
               PROVE  pool.live /\ pool.finalizer
    BY DEF vars
  <2>1. CASE RegisterDummyAgent
    BY <2>1 DEF RegisterDummyAgent, LifeInv, Working, Held
  <2>2. ASSUME dummy' = [dummy EXCEPT ![obj.poolID] = None] PROVE FALSE
    BY <2>2 DEF TypeInv, EnvTypeOK
  <2>3. CASE UnregisterAgent \/ CleanupDummyAgent
    BY <2>2, <2>3 DEF DeleteAgent, UnregisterAgent, CleanupDummyAgent
  <2>4. dummy' # dummy
    OBVIOUS
  <2> QED
    BY <2>1, <2>3, <2>4
       DEF Next, Reconcile, GetPool, AddFinalizer, FetchPAT, ResolvePoolID,
           PollAndScale,
           LookupDummyAgent, UpdateStatus, RemoveFinalizer, Crash, CreatePool,
           EditPoolName,
           DeletePool, DeliverPool, LoseSecret, RestoreSecret, ChangeLoad
<1> QED
  BY <1>1, LifeInvariant, TypeInvariant, PTL DEF Spec, RegisteredUnderFinalizer

\* No write of the controller reverts the user's spec or un-resolves the pool
\* ID, although it writes whole objects read from a trailing cache.
THEOREM UpdatesSafe == Spec => NoLostUpdate
<1>1. LifeInv /\ TypeInv /\ [Next]_vars =>
        [Reconcile /\ pool.live /\ pool'.live =>
            /\ pool'.poolName = pool.poolName
            /\ pool.poolID # None => pool'.poolID = pool.poolID]_vars
  <2> SUFFICES ASSUME LifeInv, TypeInv, Reconcile, pool.live, pool'.live
               PROVE  /\ pool'.poolName = pool.poolName
                      /\ pool.poolID # None => pool'.poolID = pool.poolID
    OBVIOUS
  <2>1. Outcome
    BY ReconcileOutcome
  <2> QED
    BY <2>1 DEF Outcome, Benign, NoPool, poolVars
<1> QED
  BY <1>1, LifeInvariant, TypeInvariant, PTL DEF Spec, NoLostUpdate

-----------------------------------------------------------------------------
(* Where the placeholder is.                                               *)

\* PlaceholderInItsPool for any copy of the object, which names a pool if it
\* names a placeholder.
InPlace(o) ==
    /\ o.dummyAgentID # None => o.poolID # None
    /\ \A n \in PoolNames : dummy[n] # None /\ dummy[n] = o.dummyAgentID => n = o.poolID

\* Every copy of the object, old ones included, names the pool of the
\* placeholder it names, and no ID is in two pools.
PlaceInv ==
    /\ InPlace(pool) /\ InPlace(obj)
    /\ \A i \in DOMAIN poolLag : InPlace(poolLag[i])
    /\ \A m, n \in PoolNames : dummy[m] # None /\ dummy[m] = dummy[n] => m = n

\* Every step leaves a backlog of versions that were there before.
LEMMA NextPast == TypeInv /\ LifeInv /\ [Next]_vars => Past
<1> SUFFICES ASSUME TypeInv, LifeInv, [Next]_vars PROVE Past
  OBVIOUS
<1>1. ASSUME UNCHANGED poolLag PROVE Past
  BY <1>1 DEF Past
<1>2. CASE Reconcile
  <2>1. UNCHANGED poolVars \/ (WritePool(pool') /\ pool' \in PoolObjects)
    BY <1>2, ReconcileOutcome, NoPoolType DEF Outcome, Benign
  <2>2. ASSUME WritePool(pool'), pool' \in PoolObjects PROVE Past
    BY <2>2, WritePast
  <2> QED
    BY <1>1, <2>1, <2>2 DEF poolVars
<1>3. ASSUME NEW n \in PoolNames, CreatePool(n) \/ EditPoolName(n) PROVE Past
  <2>1. /\ [NoPool EXCEPT !.live = TRUE, !.poolName = n] \in PoolObjects
        /\ [pool EXCEPT !.poolName = n] \in PoolObjects
    BY DEF NoPool, PoolObjects, NameOrNone, IdOrNone, TypeInv, PoolTypeOK
  <2> QED
    BY <1>3, <2>1, WritePast DEF CreatePool, EditPoolName
<1>4. CASE DeletePool
  <2>1. [pool EXCEPT !.deleting = TRUE] \in PoolObjects
    BY DEF PoolObjects, TypeInv, PoolTypeOK
  <2>2. (IF pool.finalizer THEN [pool EXCEPT !.deleting = TRUE] ELSE NoPool) \in PoolObjects
    BY <2>1, NoPoolType
  <2> QED
    BY <1>4, <2>2, WritePast DEF DeletePool
<1>5. CASE DeliverPool
  <2>1. \A i \in DOMAIN Tail(poolLag) :
           i + 1 \in DOMAIN poolLag /\ Tail(poolLag)[i] = poolLag[i + 1]
    BY <1>5 DEF DeliverPool, TypeInv, PoolTypeOK
  <2> QED
    BY <1>5, <2>1 DEF DeliverPool, Past
<1>6. CASE Crash
  BY <1>6 DEF Crash, Past
<1>7. CASE LoseSecret \/ RestoreSecret \/ ChangeLoad \/ UNCHANGED vars
  BY <1>1, <1>7 DEF LoseSecret, RestoreSecret, ChangeLoad, vars, poolVars
<1> QED
  BY <1>2, <1>3, <1>4, <1>5, <1>6, <1>7 DEF Next

\* Where the pool ID and the placeholder's ID of the stored object come from.
PoolSource ==
    \/ pool'.dummyAgentID = pool.dummyAgentID /\ pool'.poolID = pool.poolID
    \/ pool'.dummyAgentID = None
    \/ pool'.dummyAgentID = obj.dummyAgentID /\ pool'.poolID = obj.poolID
    \/ pc = "resolve" /\ pool'.dummyAgentID = obj.dummyAgentID

\* What the two kinds of update do to them.
LEMMA UpdateSource ==
    ASSUME TypeInv, NEW o \in PoolObjects
    PROVE  /\ StatusUpdated(o).dummyAgentID = o.dummyAgentID
           /\ StatusUpdated(o).poolID = o.poolID
           /\ \/ Updated(o) = NoPool
              \/ /\ Updated(o).dummyAgentID = pool.dummyAgentID
                 /\ Updated(o).poolID = pool.poolID
BY DEF StatusUpdated, Updated, PoolObjects, TypeInv, PoolTypeOK

\* They come from the object or from Reconcile's copy.
LEMMA NextSource == TypeInv /\ [Next]_vars => PoolSource
<1> SUFFICES ASSUME TypeInv, [Next]_vars PROVE PoolSource
  OBVIOUS
<1> USE DEF TypeInv, PoolTypeOK, LocalTypeOK
<1>0. ASSUME UNCHANGED poolVars PROVE PoolSource
  BY <1>0 DEF PoolSource, poolVars
<1>1. ASSUME NEW b \in BOOLEAN, NEW new, new = Updated([obj EXCEPT !.finalizer = b]),
             Saved(new) \/ NotSaved(new)
      PROVE  PoolSource
  <2>1. [obj EXCEPT !.finalizer = b] \in PoolObjects
    BY DEF PoolObjects
  <2>2. new = NoPool \/ (new.dummyAgentID = pool.dummyAgentID /\ new.poolID = pool.poolID)
    BY <1>1, <2>1, UpdateSource
  <2> QED
    BY <1>0, <1>1, <2>2 DEF Saved, NotSaved, WritePool, PoolSource, NoPool
<1>2. ASSUME NEW o \in PoolObjects, o.dummyAgentID = obj.dummyAgentID,
             o.poolID = obj.poolID \/ pc = "resolve", pool' = StatusUpdated(o)
      PROVE  PoolSource
  BY <1>2, UpdateSource DEF PoolSource
<1>3. ASSUME TrySave(Unavailable(obj)) PROVE PoolSource
  <2>1. /\ [obj EXCEPT !.available = "False"] \in PoolObjects
        /\ [obj EXCEPT !.available = "False"].dummyAgentID = obj.dummyAgentID
        /\ [obj EXCEPT !.available = "False"].poolID = obj.poolID
    BY DEF PoolObjects
  <2> QED
    BY <1>0, <1>2, <1>3, <2>1 DEF TrySave, Unavailable, WritePool
<1>4. CASE AddFinalizer \/ RemoveFinalizer
  BY <1>1, <1>4 DEF AddFinalizer, RemoveFinalizer
<1>5. CASE ResolvePoolID
  <2> DEFINE o == [obj EXCEPT !.poolID = obj.poolName]
  <2>1. o \in PoolObjects /\ o.dummyAgentID = obj.dummyAgentID
    BY DEF PoolObjects
  <2> HIDE DEF o
  <2>2. Saved(StatusUpdated(o)) \/ NotSaved(StatusUpdated(o)) => PoolSource
    BY <1>0, <1>2, <1>5, <2>1 DEF ResolvePoolID, Saved, NotSaved, WritePool
  <2> QED
    BY <1>0, <1>3, <1>5, <2>2 DEF ResolvePoolID, o
<1>6. CASE UpdateStatus
  <2> DEFINE o == [obj EXCEPT !.activeAgents = active, !.available = "True"]
  <2>1. o \in PoolObjects /\ o.dummyAgentID = obj.dummyAgentID /\ o.poolID = obj.poolID
    BY DEF PoolObjects
  <2> HIDE DEF o
  <2>2. Saved(StatusUpdated(o)) \/ NotSaved(StatusUpdated(o)) => PoolSource
    BY <1>0, <1>2, <2>1 DEF Saved, NotSaved, WritePool
  <2> QED
    BY <1>6, <2>2 DEF UpdateStatus, o
<1>7. CASE FetchPAT \/ PollAndScale
  BY <1>0, <1>3, <1>7 DEF FetchPAT, PollAndScale
<1>8. ASSUME NEW n \in PoolNames, CreatePool(n) \/ EditPoolName(n) PROVE PoolSource
  BY <1>8 DEF CreatePool, EditPoolName, WritePool, PoolSource, NoPool, PoolObjects
<1>9. CASE DeletePool
  BY <1>9 DEF DeletePool, WritePool, PoolSource, NoPool, PoolObjects
<1>10. CASE \/ GetPool \/ LookupDummyAgent \/ RegisterDummyAgent \/ UnregisterAgent
            \/ CleanupDummyAgent \/ LoseSecret \/ RestoreSecret \/ ChangeLoad
            \/ UNCHANGED vars
  BY <1>0, <1>10 DEF GetPool, LookupDummyAgent, RegisterDummyAgent, UnregisterAgent,
                     CleanupDummyAgent, LoseSecret, RestoreSecret, ChangeLoad, vars
<1>11. CASE Crash \/ DeliverPool
  BY <1>11 DEF Crash, DeliverPool, PoolSource
<1> QED
  BY <1>4, <1>5, <1>6, <1>7, <1>8, <1>9, <1>10, <1>11 DEF Next, Reconcile

\* What the stored object names, it names in its pool.
LEMMA SourceInPlace ==
    ASSUME TypeInv, LifeInv, PlaceInv, PoolSource
    PROVE  InPlace(pool')
<1>1. pc = "resolve" => obj.dummyAgentID = None
  BY DEF PlaceInv, InPlace, LifeInv
<1> QED
  BY <1>1 DEF PlaceInv, InPlace, PoolSource

\* As long as no placeholder is added, copies that were right stay right.
LEMMA PlaceKept ==
    ASSUME PlaceInv, Past, InPlace(pool'), InPlace(obj'),
           \A n \in PoolNames : dummy'[n] \in {None, dummy[n]}
    PROVE  PlaceInv'
<1>1. \A i \in DOMAIN poolLag' : InPlace(poolLag'[i])
  BY DEF Past, PlaceInv
<1>2. \A o : InPlace(o) => \A n \in PoolNames :
         dummy'[n] # None /\ dummy'[n] = o.dummyAgentID => n = o.poolID
  BY DEF InPlace
<1>3. InPlace(pool)' /\ InPlace(obj)' /\ \A i \in DOMAIN poolLag' : InPlace(poolLag[i])'
  BY <1>1, <1>2 DEF InPlace
<1>4. \A m, n \in PoolNames : dummy'[m] # None /\ dummy'[m] = dummy'[n] => m = n
  BY DEF PlaceInv
<1> QED
  BY <1>3, <1>4 DEF PlaceInv

\* Every step keeps PlaceInv.
LEMMA PlaceStep == TypeInv /\ LifeInv /\ PlaceInv /\ [Next]_vars => PlaceInv'
<1> SUFFICES ASSUME TypeInv, LifeInv, PlaceInv, [Next]_vars PROVE PlaceInv'
  OBVIOUS
<1> USE DEF TypeInv, PoolTypeOK, LocalTypeOK, EnvTypeOK
<1>1. Past /\ InPlace(pool')
  BY NextPast, NextSource, SourceInPlace
<1>2. ASSUME UNCHANGED dummy, InPlace(obj') PROVE PlaceInv'
  BY <1>1, <1>2, PlaceKept
<1>3. ASSUME UNCHANGED <<dummy, obj>> PROVE PlaceInv'
  BY <1>2, <1>3 DEF PlaceInv
<1>4. ASSUME UNCHANGED dummy, Return PROVE PlaceInv'
  BY <1>2, <1>4 DEF Return, NoPool, InPlace
<1>5. CASE GetPool
  <2>1. PoolView = pool \/ (1 \in DOMAIN poolLag /\ PoolView = poolLag[1])
    BY ViewVersion DEF PoolView
  <2>2. InPlace(PoolView)
    BY <2>1 DEF PlaceInv
  <2> QED
    BY <1>2, <1>5, <2>2 DEF GetPool
<1>6. CASE ResolvePoolID
  <2>1. ASSUME obj' = [obj EXCEPT !.poolID = obj.poolName] PROVE InPlace(obj')
    BY <1>6, <2>1 DEF ResolvePoolID, InPlace, PlaceInv, LifeInv, PoolObjects
  <2> QED
    BY <1>2, <1>4, <1>6, <2>1 DEF ResolvePoolID
<1>7. CASE LookupDummyAgent
  <2>1. ASSUME obj' = [obj EXCEPT !.dummyAgentID = dummy[obj.poolID]],
               obj.poolID \in PoolNames
        PROVE  InPlace(obj')
    BY <2>1, LifecycleAssumption DEF InPlace, PlaceInv, PoolObjects
  <2>2. obj.poolID \in PoolNames
    BY <1>7 DEF LookupDummyAgent, PoolObjects, NameOrNone
  <2> QED
    BY <1>2, <1>3, <1>7, <2>1, <2>2 DEF LookupDummyAgent, GetAgentByName
<1>8. CASE RegisterDummyAgent
  <2>1. obj.poolID \in PoolNames /\ UNCHANGED poolVars
    BY <1>8 DEF RegisterDummyAgent, PoolObjects, NameOrNone
  <2>2. ASSUME NEW i \in FreshIds, PostAgent(obj.poolID, i),
               obj' = obj \/ obj' = [obj EXCEPT !.dummyAgentID = i]
        PROVE  PlaceInv'
    <3>1. \A n \in PoolNames : dummy'[n] = IF n = obj.poolID THEN i ELSE dummy[n]
      BY <2>1, <2>2 DEF PostAgent
    <3>2. /\ i # obj.dummyAgentID /\ i # pool.dummyAgentID
          /\ \A n \in PoolNames : dummy[n] # i
          /\ \A k \in DOMAIN poolLag : poolLag[k].dummyAgentID # i
      BY DEF FreshIds
    <3>3. \A o : InPlace(o) /\ o.dummyAgentID # i => \A n \in PoolNames :
             dummy'[n] # None /\ dummy'[n] = o.dummyAgentID => n = o.poolID
      BY <3>1 DEF InPlace
    <3>4. InPlace(pool)' /\ \A k \in DOMAIN poolLag' : InPlace(poolLag[k])'
      BY <2>1, <3>2, <3>3 DEF PlaceInv, InPlace, poolVars
    <3>5. InPlace(obj)'
      <4>1. CASE obj' = obj
        BY <3>2, <3>3, <4>1 DEF PlaceInv, InPlace
      <4>2. CASE obj' = [obj EXCEPT !.dummyAgentID = i]
        <5>1. obj'.dummyAgentID = i /\ obj'.poolID = obj.poolID
          BY <4>2 DEF PoolObjects
        <5> QED
          BY <2>1, <3>1, <3>2, <5>1, LifecycleAssumption DEF InPlace
      <4> QED
        BY <2>2, <4>1, <4>2
    <3>6. \A m, n \in PoolNames : dummy'[m] # None /\ dummy'[m] = dummy'[n] => m = n
      BY <3>1, <3>2 DEF PlaceInv
    <3> QED
      BY <3>4, <3>5, <3>6 DEF PlaceInv
  <2> QED
    BY <1>3, <1>8, <2>2 DEF RegisterDummyAgent
<1>9. CASE UnregisterAgent \/ CleanupDummyAgent
  <2>1. \A n \in PoolNames : dummy'[n] \in {None, dummy[n]}
    BY <1>9 DEF UnregisterAgent, CleanupDummyAgent, DeleteAgent
  <2>2. obj' = obj \/ obj' = [obj EXCEPT !.dummyAgentID = None]
    BY <1>9 DEF UnregisterAgent, CleanupDummyAgent, localVars
  <2>3. InPlace(obj')
    BY <2>2 DEF PlaceInv, InPlace, PoolObjects
  <2> QED
    BY <1>1, <2>1, <2>3, PlaceKept
<1>10. CASE AddFinalizer \/ FetchPAT \/ PollAndScale \/ UpdateStatus \/ RemoveFinalizer \/ Crash
  BY <1>3, <1>4, <1>10 DEF AddFinalizer, FetchPAT, PollAndScale, UpdateStatus,
                           RemoveFinalizer, Crash, localVars
<1>11. CASE \/ DeletePool \/ DeliverPool \/ LoseSecret \/ RestoreSecret \/ ChangeLoad
            \/ UNCHANGED vars \/ \E n \in PoolNames : CreatePool(n) \/ EditPoolName(n)
  BY <1>3, <1>11 DEF DeletePool, DeliverPool, LoseSecret, RestoreSecret, ChangeLoad, vars,
                     CreatePool, EditPoolName, localVars
<1> QED
  BY <1>5, <1>6, <1>7, <1>8, <1>9, <1>10, <1>11 DEF Next, Reconcile

\* PlaceInv is an invariant.
LEMMA PlaceInvariant == Spec => []PlaceInv
<1>1. Init => PlaceInv
  BY DEF Init, PlaceInv, InPlace, NoPool
<1> QED
  BY <1>1, PlaceStep, LifeInvariant, TypeInvariant, PTL DEF Spec

\* A placeholder that the status names is registered in the pool the status
\* names, although spec.poolName is edited, status updates fail or conflict
\* and the AgentPool is deleted and made again: UnregisterAgent and
\* handleDeletion never look for it in the wrong pool.
THEOREM PlaceholderFound == Spec => []PlaceholderInItsPool
<1>1. PlaceInv => PlaceholderInItsPool
  BY DEF PlaceInv, InPlace, PlaceholderInItsPool
<1> QED
  BY <1>1, PlaceInvariant, PTL

=============================================================================
