--------------------------- MODULE PoolLifecycle ---------------------------
(***************************************************************************)
(* The life of one AgentPool object and of its placeholder agent: the half *)
(* of AgentPoolReconciler.Reconcile that AgentScaling leaves out           *)
(* (agentpool_controller.go: finalizer, secret, pool ID, dummy agent,      *)
(* status and handleDeletion) with the azuredevops client calls it makes.  *)
(*                                                                         *)
(* The object is read through the informer cache and written back whole    *)
(* with Update and Status().Update, which carry the resourceVersion read:  *)
(* a write from a copy that is not the newest version is refused.  The     *)
(* placeholder is registered in Azure DevOps first and remembered in       *)
(* status.dummyAgentID by the status update at the end of Reconcile, so    *)
(* everything between the two calls can separate them.                     *)
(***************************************************************************)
EXTENDS KubeCache

CONSTANTS
    PoolNames,    \* ADO agent pools, each standing for its numeric ID too
    AgentIds,     \* agent IDs that ADO hands out
    None,         \* 0 in the code: no ID
    PoolLag,      \* bound: AgentPool versions the cache may trail by
    LostReplies,  \* may a call that took effect report an error?
    MaxFaults     \* bound: failed calls, controller crashes, lost secrets and
                  \* spec edits

ASSUME LifecycleAssumption ==
    /\ None \notin PoolNames \cup AgentIds
    /\ PoolLag \in Nat
    /\ LostReplies \in BOOLEAN
    /\ MaxFaults \in Nat

VARIABLES
    pool,      \* the AgentPool at the API server
    poolLag,   \* the versions of it the cache has yet to move past
    secret,    \* does the PAT secret have its key?
    load,      \* does the ADO queue hold unfinished jobs?
    agents,    \* may agent pods be left from an earlier reconcile?
    dummy,     \* the placeholder registered in each ADO pool, or None
    \* the running Reconcile
    pc,        \* the next call
    obj,       \* the local copy `pool`
    fresh,     \* is obj's resourceVersion the newest one?
    desired,   \* 0 or more than 0
    active,    \* activeCount after scaling, 0 or more than 0
    faults     \* disturbances so far (bound)

poolVars == <<pool, poolLag>>
envVars == <<secret, load, agents>>
localVars == <<obj, fresh, desired, active>>
vars == <<poolVars, envVars, dummy, pc, localVars, faults>>

IdOrNone == AgentIds \cup {None}
NameOrNone == PoolNames \cup {None}

PoolObjects ==
    [live: BOOLEAN, deleting: BOOLEAN, finalizer: BOOLEAN,
     poolName: NameOrNone, poolID: NameOrNone, dummyAgentID: IdOrNone,
     activeAgents: {0, 1}, available: {"Unknown", "True", "False"}]

PCs == {"idle", "addFinalizer", "fetchPAT", "resolve", "poll", "lookup",
        "register", "unregister", "status", "cleanup", "removeFinalizer"}

NoPool ==
    [live |-> FALSE, deleting |-> FALSE, finalizer |-> FALSE,
     poolName |-> None, poolID |-> None, dummyAgentID |-> None,
     activeAgents |-> 0, available |-> "Unknown"]

PoolView == View(pool, poolLag)

Fault == faults < MaxFaults /\ faults' = faults + 1

-----------------------------------------------------------------------------
(* Writing the object back.                                                *)

WritePool(new) ==
    /\ pool' = new
    /\ poolLag' = Pushed(poolLag, pool, new, PoolLag)

\* r.Update stores metadata and spec; an object that is being deleted goes
\* when its last finalizer does.
Updated(o) ==
    IF pool.deleting /\ ~o.finalizer THEN NoPool
    ELSE [pool EXCEPT !.finalizer = o.finalizer, !.poolName = o.poolName]

\* r.Status().Update stores the status.
StatusUpdated(o) ==
    [pool EXCEPT !.poolID = o.poolID, !.dummyAgentID = o.dummyAgentID,
                 !.activeAgents = o.activeAgents, !.available = o.available]

\* Mutant of MayWrite: a write that carries no resourceVersion.
MayWrite_NoLock == pool.live

\* The resourceVersion check.
MayWrite == fresh

\* The write succeeds.
Saved(new) == MayWrite /\ WritePool(new) /\ UNCHANGED faults

\* The write returns an error: a conflict, or a failed call.
NotSaved(new) ==
    \/ ~MayWrite /\ UNCHANGED <<poolVars, faults>>
    \/ Fault /\ (UNCHANGED poolVars \/ (LostReplies /\ MayWrite /\ WritePool(new)))

\* Mutant of TrySave: the condition is set on the local copy only.
TrySave_Forgotten(new) == UNCHANGED poolVars

\* A status update whose error is discarded.  It may also fail on a fresh copy:
\* its callers have that case.
TrySave(new) == IF MayWrite THEN WritePool(new) ELSE UNCHANGED poolVars

\* Mutant of Unavailable: "Degraded" is stored as a condition status.
Unavailable_Degraded(o) == StatusUpdated([o EXCEPT !.available = "Degraded"])

\* Condition Available=False, whatever the reason.
Unavailable(o) == StatusUpdated([o EXCEPT !.available = "False"])

\* Reconcile returns.
Return ==
    /\ pc' = "idle"
    /\ obj' = NoPool /\ fresh' = FALSE /\ desired' = 0 /\ active' = 0

-----------------------------------------------------------------------------
(* The ADO client's calls about the placeholder, when they succeed.        *)

\* The first agent with the placeholder's name, or 0.  Names are unique within
\* a pool.
GetAgentByName(n) == dummy[n]

\* POST an agent; ADO refuses a name that is taken.
PostAgent(n, i) == dummy[n] = None /\ dummy' = [dummy EXCEPT ![n] = i]

\* DELETE an agent by ID; only 204 No Content is a success, so an unknown ID
\* is an error.
DeleteAgent(n, i) == dummy[n] = i /\ dummy' = [dummy EXCEPT ![n] = None]

-----------------------------------------------------------------------------
Init ==
    /\ pool = NoPool /\ poolLag = <<>>
    /\ secret = TRUE /\ load = FALSE /\ agents = FALSE
    /\ dummy = [n \in PoolNames |-> None]
    /\ pc = "idle" /\ faults = 0
    /\ obj = NoPool /\ fresh = FALSE /\ desired = 0 /\ active = 0

-----------------------------------------------------------------------------
(* Reconcile, call by call.                                                *)

\* Mutant of GetPool: the finalizer is not added first.
GetPool_NoFinalizer ==
    /\ pc = "idle" /\ PoolView.live
    /\ obj' = PoolView
    /\ fresh' = (poolLag = <<>>)
    /\ pc' = IF PoolView.deleting THEN "cleanup" ELSE "fetchPAT"
    /\ UNCHANGED <<poolVars, envVars, dummy, desired, active, faults>>

\* The Get that starts Reconcile, and the branch on what it returned.
GetPool ==
    /\ pc = "idle" /\ PoolView.live
    /\ obj' = PoolView
    /\ fresh' = (poolLag = <<>>)
    /\ pc' = IF PoolView.deleting THEN "cleanup"
             ELSE IF PoolView.finalizer THEN "fetchPAT" ELSE "addFinalizer"
    /\ UNCHANGED <<poolVars, envVars, dummy, desired, active, faults>>

AddFinalizer ==
    /\ pc = "addFinalizer"
    /\ LET new == Updated([obj EXCEPT !.finalizer = TRUE])
       IN Saved(new) \/ NotSaved(new)
    /\ Return
    /\ UNCHANGED <<envVars, dummy>>

\* Mutant of Resolved: the ID is looked up again when spec.poolName changes.
Resolved_ByName(o) == o.poolID = o.poolName

\* status.poolID is an answer that is kept for good.
Resolved(o) == o.poolID # None

FetchPAT ==
    /\ pc = "fetchPAT"
    /\ \/ /\ secret
          /\ pc' = IF Resolved(obj) THEN "poll" ELSE "resolve"
          /\ UNCHANGED <<poolVars, localVars, faults>>
       \/ /\ ~secret
          /\ \/ TrySave(Unavailable(obj)) /\ UNCHANGED faults
             \/ Fault /\ UNCHANGED poolVars
          /\ Return
    /\ UNCHANGED <<envVars, dummy>>

\* GetPoolID, and the status update that caches its answer.
ResolvePoolID ==
    /\ pc = "resolve"
    /\ LET o == [obj EXCEPT !.poolID = obj.poolName]
       IN \/ /\ Saved(StatusUpdated(o))
             /\ obj' = o /\ pc' = "poll"
             /\ UNCHANGED <<fresh, desired, active>>
          \/ NotSaved(StatusUpdated(o)) /\ Return
          \/ Fault /\ (TrySave(Unavailable(obj)) \/ UNCHANGED poolVars) /\ Return
    /\ UNCHANGED <<envVars, dummy>>

\* The branch of manageDummyAgent.
DummyStep(want, o) ==
    IF want = 0 /\ o.dummyAgentID = None THEN "lookup"
    ELSE IF want > 0 /\ o.dummyAgentID # None THEN "unregister"
    ELSE "status"

\* GetJobStatus, then scaling (AgentScaling) with spec.minAgents = 0.  No
\* agent may be up although one is wanted: no slot was free, or createAgentPod
\* failed.  An earlier one may be counted although none is wanted: scaleDown
\* counts no pod that is busy, whose Delete failed, or which is gone already and
\* only in the cached list still.  That list may also miss one that is there.
PollAndScale ==
    /\ pc = "poll"
    /\ \/ /\ desired' = IF load THEN 1 ELSE 0
          /\ active' \in 0..(IF agents THEN 1 ELSE desired')
          /\ agents' \in {active' = 1, agents \/ active' = 1 \/ (LostReplies /\ desired' = 1)}
          /\ pc' = DummyStep(desired', obj)
          /\ UNCHANGED <<poolVars, obj, fresh, faults>>
       \/ Fault /\ (TrySave(Unavailable(obj)) \/ UNCHANGED poolVars) /\ Return /\ UNCHANGED agents
    /\ UNCHANGED <<secret, load, dummy>>

\* Mutant of LookupDummyAgent: a placeholder whose ID was lost is not looked up.
LookupDummyAgent_Skip ==
    /\ pc = "lookup" /\ pc' = "register"
    /\ UNCHANGED <<poolVars, envVars, dummy, localVars, faults>>

\* GetAgentByName: recover a placeholder whose ID was lost.  After an error
\* the code goes on to register one.
LookupDummyAgent ==
    /\ pc = "lookup"
    /\ \/ /\ GetAgentByName(obj.poolID) # None
          /\ obj' = [obj EXCEPT !.dummyAgentID = GetAgentByName(obj.poolID)]
          /\ pc' = "status" /\ UNCHANGED faults
       \/ GetAgentByName(obj.poolID) = None /\ pc' = "register" /\ UNCHANGED <<obj, faults>>
       \/ Fault /\ pc' = "register" /\ UNCHANGED obj
    /\ UNCHANGED <<poolVars, envVars, dummy, fresh, desired, active>>

\* ADO never gives out an ID again while somebody remembers it.
FreshIds ==
    {i \in AgentIds :
        /\ i # obj.dummyAgentID /\ i # pool.dummyAgentID
        /\ \A n \in PoolNames : dummy[n] # i
        /\ \A k \in DOMAIN poolLag : poolLag[k].dummyAgentID # i}

RegisterDummyAgent ==
    /\ pc = "register" /\ pc' = "status"
    /\ \/ \E i \in FreshIds :
             /\ PostAgent(obj.poolID, i)
             /\ \/ obj' = [obj EXCEPT !.dummyAgentID = i] /\ UNCHANGED faults
                \/ LostReplies /\ Fault /\ UNCHANGED obj
       \/ dummy[obj.poolID] # None /\ UNCHANGED <<dummy, obj, faults>>
       \/ Fault /\ UNCHANGED <<dummy, obj>>
    /\ UNCHANGED <<poolVars, envVars, fresh, desired, active>>

\* When the call fails DummyAgentID keeps its value.
UnregisterAgent ==
    /\ pc = "unregister" /\ pc' = "status"
    /\ \/ /\ DeleteAgent(obj.poolID, obj.dummyAgentID)
          /\ \/ obj' = [obj EXCEPT !.dummyAgentID = None] /\ UNCHANGED faults
             \/ LostReplies /\ Fault /\ UNCHANGED obj
       \/ dummy[obj.poolID] # obj.dummyAgentID /\ UNCHANGED <<dummy, obj, faults>>
       \/ Fault /\ UNCHANGED <<dummy, obj>>
    /\ UNCHANGED <<poolVars, envVars, fresh, desired, active>>

\* The status update that ends Reconcile.
UpdateStatus ==
    /\ pc = "status"
    /\ LET new == StatusUpdated([obj EXCEPT !.activeAgents = active, !.available = "True"])
       IN Saved(new) \/ NotSaved(new)
    /\ Return
    /\ UNCHANGED <<envVars, dummy>>

\* Mutant of CleanupDummyAgent: deletion waits until the unregister works.
CleanupDummyAgent_Strict ==
    /\ pc = "cleanup" /\ pc' = "removeFinalizer"
    /\ obj.dummyAgentID # None => secret /\ dummy[obj.poolID] = obj.dummyAgentID
    /\ dummy' = [n \in PoolNames |-> IF dummy[n] = obj.dummyAgentID THEN None ELSE dummy[n]]
    /\ UNCHANGED <<poolVars, envVars, localVars, faults>>

\* handleDeletion: unregister the placeholder that the status names, if the
\* secret can be read.  It goes on whether or not that worked.
CleanupDummyAgent ==
    /\ pc = "cleanup" /\ pc' = "removeFinalizer"
    /\ \/ /\ obj.dummyAgentID # None /\ secret
          /\ DeleteAgent(obj.poolID, obj.dummyAgentID) /\ UNCHANGED faults
       \/ /\ (obj.dummyAgentID # None /\ secret) => dummy[obj.poolID] # obj.dummyAgentID
          /\ UNCHANGED <<dummy, faults>>
       \/ obj.dummyAgentID # None /\ Fault /\ UNCHANGED dummy
    /\ UNCHANGED <<poolVars, envVars, localVars>>

RemoveFinalizer ==
    /\ pc = "removeFinalizer"
    /\ LET new == Updated([obj EXCEPT !.finalizer = FALSE])
       IN Saved(new) \/ NotSaved(new)
    /\ Return
    /\ UNCHANGED <<envVars, dummy>>

Reconcile ==
    \/ GetPool \/ AddFinalizer \/ FetchPAT \/ ResolvePoolID \/ PollAndScale
    \/ LookupDummyAgent \/ RegisterDummyAgent \/ UnregisterAgent \/ UpdateStatus
    \/ CleanupDummyAgent \/ RemoveFinalizer

\* The controller dies between two calls; the new one lists afresh.
Crash ==
    /\ Fault
    /\ pc # "idle"
    /\ Return
    /\ poolLag' = <<>>
    /\ UNCHANGED <<pool, envVars, dummy>>

-----------------------------------------------------------------------------
(* The user, the watch, the secret and the ADO queue.                      *)

CreatePool(n) ==
    /\ ~pool.live
    /\ WritePool([NoPool EXCEPT !.live = TRUE, !.poolName = n])
    /\ fresh' = FALSE
    /\ UNCHANGED <<envVars, dummy, pc, obj, desired, active, faults>>

\* DELETE: an object with a finalizer is only marked.
DeletePool ==
    /\ pool.live /\ ~pool.deleting
    /\ WritePool(IF pool.finalizer THEN [pool EXCEPT !.deleting = TRUE] ELSE NoPool)
    /\ fresh' = FALSE
    /\ UNCHANGED <<envVars, dummy, pc, obj, desired, active, faults>>

EditPoolName(n) ==
    /\ Fault
    /\ pool.live /\ pool.poolName # n
    /\ WritePool([pool EXCEPT !.poolName = n])
    /\ fresh' = FALSE
    /\ UNCHANGED <<envVars, dummy, pc, obj, desired, active>>

DeliverPool ==
    /\ poolLag # <<>>
    /\ poolLag' = Tail(poolLag)
    /\ UNCHANGED <<pool, envVars, dummy, pc, localVars, faults>>

LoseSecret ==
    /\ Fault
    /\ secret /\ secret' = FALSE
    /\ UNCHANGED <<poolVars, load, agents, dummy, pc, localVars>>

RestoreSecret ==
    /\ ~secret /\ secret' = TRUE
    /\ UNCHANGED <<poolVars, load, agents, dummy, pc, localVars, faults>>

\* The first job arrives, or the last one finishes.
ChangeLoad ==
    /\ load' = ~load
    /\ UNCHANGED <<poolVars, secret, agents, dummy, pc, localVars, faults>>

-----------------------------------------------------------------------------
Next ==
    \/ Reconcile \/ Crash
    \/ \E n \in PoolNames : CreatePool(n) \/ EditPoolName(n)
    \/ DeletePool \/ DeliverPool
    \/ LoseSecret \/ RestoreSecret \/ ChangeLoad

Spec == Init /\ [][Next]_vars

\* Every return of Reconcile is followed by another one as long as the cache
\* shows the object: it asks for one (reconcileInterval), fails (rate limited),
\* or has written the object (AddFinalizer, RemoveFinalizer), whose watch event
\* asks for one.  And watches deliver.
Fairness == WF_vars(Reconcile) /\ WF_vars(DeliverPool)

FairSpec == Spec /\ Fairness

-----------------------------------------------------------------------------
(* Properties.                                                             *)

TypeOK ==
    /\ pool \in PoolObjects
    /\ poolLag \in Seq(PoolObjects) /\ Len(poolLag) <= PoolLag
    /\ secret \in BOOLEAN /\ load \in BOOLEAN /\ agents \in BOOLEAN
    /\ dummy \in [PoolNames -> IdOrNone]
    /\ pc \in PCs
    /\ obj \in PoolObjects /\ fresh \in BOOLEAN
    /\ desired \in {0, 1} /\ active \in {0, 1}
    /\ faults \in 0..MaxFaults

\* A placeholder is only ever registered for a pool that still carries the
\* finalizer, so that handleDeletion is sure to run after it: true however
\* far the cache trails, because a reconcile that removes the finalizer has
\* seen the deletion and the cache does not go back.
RegisteredUnderFinalizer ==
    [][\A n \in PoolNames :
          dummy[n] = None /\ dummy'[n] # None => pool.live /\ pool.finalizer]_vars

\* Whole-object writes from a trailing cache lose nothing: no step of the
\* controller reverts the user's spec (AddFinalizer, RemoveFinalizer) or
\* un-resolves the pool ID (the status updates).
NoLostUpdate ==
    [][Reconcile /\ pool.live /\ pool'.live =>
          /\ pool'.poolName = pool.poolName
          /\ pool.poolID # None => pool'.poolID = pool.poolID]_vars

\* Deleting an AgentPool terminates, whatever happened to its placeholder.
DeletionCompletes == pool.deleting ~> ~pool.deleting

\* A pool whose secret stays unreadable ends up not Available.
SecretLossReported ==
    (pool.live /\ ~secret) ~>
        (pool.available = "False" \/ secret \/ pool.deleting \/ ~pool.live)

\* A placeholder that the status forgot is found again: RegisterDummyAgent took
\* effect and then its reply was lost, the controller died, or the status
\* update failed or conflicted (manageDummyAgent).  GetAgentByName adopts it in
\* a later reconcile, unless jobs come, the secret goes or the pool does.
PlaceholderAdopted ==
    \A n \in PoolNames :
        (/\ pool.live /\ ~pool.deleting /\ pool.poolID = n
         /\ dummy[n] # None /\ pool.dummyAgentID = None)
        ~> (\/ pool.dummyAgentID # None /\ pool.dummyAgentID = dummy[n]
            \/ load \/ ~secret \/ pool.deleting \/ ~pool.live)

\* "The operator registers an offline dummy agent when idle so Azure DevOps can
\* queue jobs": a pool that stays idle ends up with a placeholder in the ADO
\* pool its status names, and keeps it (manageDummyAgent).
PlaceholderKept ==
    <>[](pool.live /\ ~pool.deleting /\ ~load /\ secret) =>
        <>[](pool.poolID # None /\ dummy[pool.poolID] # None)

\* handleDeletion "runs cleanup": no placeholder outlives its pool.
NoPlaceholderLeft ==
    ~pool.live => \A n \in PoolNames : dummy[n] = None

\* status.poolID and status.dummyAgentID go together although spec.poolName may
\* be edited and the pool deleted and made again: a placeholder that the
\* status names is registered in the very pool the status names, so that
\* UnregisterAgent and handleDeletion look for it in the right place.
PlaceholderInItsPool ==
    \A n \in PoolNames :
        dummy[n] # None /\ dummy[n] = pool.dummyAgentID => n = pool.poolID
=============================================================================
