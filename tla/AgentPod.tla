------------------------------ MODULE AgentPod ------------------------------
(***************************************************************************)
(* The agent container: docker/start.sh, the two programs it runs in the   *)
(* background (config.sh and run.sh of the Azure Pipelines agent), and     *)
(* what the kubelet and Azure DevOps do to them.                           *)
(*                                                                         *)
(* bash is PID 1 of the container.  Until start.sh sets its traps a TERM   *)
(* has no effect and a failing command (set -e) just ends the script;      *)
(* afterwards every way out goes through cleanup, which repeats            *)
(* `config.sh remove` until it succeeds.  A TERM interrupts the `wait` the *)
(* script is in, and not the background program it waits for.              *)
(*                                                                         *)
(* AgentScaling sees of all this the phase of the pod: Pending until the   *)
(* container starts, Running until it exits, then Succeeded (exit code 0)  *)
(* or Failed.                                                              *)
(***************************************************************************)
EXTENDS Naturals

CONSTANTS
    Pods,       \* agent pods of one pool; they share its PAT
    MaxFaults   \* bound: failing commands, dying agents, lost containers and
                \* revoked tokens

ASSUME AgentPodAssumption == MaxFaults \in Nat

VARIABLES
    step,       \* where start.sh is
    config,     \* how far config.sh has come
    listening,  \* containers whose run.sh is alive
    code,       \* the exit code the script is heading for
    deleting,   \* pods that the kubelet has sent TERM
    tokens,     \* containers whose copy of the PAT still works
    agents,     \* agents registered in Azure DevOps, by pod
    busy,       \* agents that run a job
    served,     \* agents that have finished their job
    faults      \* disturbances so far (bound)

shellVars == <<step, config, listening, code>>
adoVars == <<tokens, agents, busy, served>>
vars == <<shellVars, deleting, adoVars, faults>>

Steps == {"waiting", "install", "configure", "run", "cleanup", "exited"}

Killed == 137    \* 128 + SIGKILL

\* Mutant of Termed: the exit codes of INT and TERM are swapped.
Termed_Int == 130

\* trap "cleanup; exit 143" TERM
Termed == 143

Alive(p) == step[p] \notin {"waiting", "exited"}

Fault == faults < MaxFaults /\ faults' = faults + 1

\* A call to Azure DevOps with the container's token fails: the token no
\* longer works, or this one call fails.
CallFails(p) == (p \notin tokens /\ UNCHANGED faults) \/ Fault

\* PID 1 ends and takes the background programs with it.
Exit(p, c) ==
    /\ step' = [step EXCEPT ![p] = "exited"]
    /\ code' = [code EXCEPT ![p] = c]
    /\ listening' = listening \ {p}
    /\ busy' = busy \ {p}
    /\ UNCHANGED config

\* A trap runs.
GoToCleanup(p, c) ==
    /\ step' = [step EXCEPT ![p] = "cleanup"]
    /\ code' = [code EXCEPT ![p] = c]

Init ==
    /\ step = [p \in Pods |-> "waiting"]
    /\ config = [p \in Pods |-> "none"]
    /\ code = [p \in Pods |-> 0]
    /\ listening = {} /\ deleting = {} /\ tokens = {}
    /\ agents = {} /\ busy = {} /\ served = {} /\ faults = 0

-----------------------------------------------------------------------------
(* start.sh.                                                               *)

\* The container starts with the PAT the secret holds now, and start.sh
\* writes it to a file.
StartContainer(p) ==
    /\ step[p] = "waiting"
    /\ step' = [step EXCEPT ![p] = "install"]
    /\ tokens' = tokens \cup {p}
    /\ UNCHANGED <<config, listening, code, deleting, agents, busy, served, faults>>

\* The agent is in the image, or is downloaded; the traps are set and
\* config.sh starts.
Install(p) ==
    /\ step[p] = "install"
    /\ step' = [step EXCEPT ![p] = "configure"]
    /\ config' = [config EXCEPT ![p] = "calling"]
    /\ UNCHANGED <<listening, code, deleting, adoVars, faults>>

\* Before the traps are set a failure ends the script with its own code.
InstallFails(p) ==
    /\ step[p] = "install"
    /\ CallFails(p)
    /\ Exit(p, 1)
    /\ UNCHANGED <<deleting, tokens, agents, served>>

\* `wait` returns from a config.sh that worked, and run.sh starts.
RunAgent(p) ==
    /\ step[p] = "configure" /\ config[p] = "saved"
    /\ step' = [step EXCEPT ![p] = "run"]
    /\ listening' = listening \cup {p}
    /\ UNCHANGED <<config, code, deleting, adoVars, faults>>

\* `wait` returns from one that failed: set -e, and the EXIT trap.
ConfigureFailed(p) ==
    /\ step[p] = "configure" /\ config[p] = "failed"
    /\ GoToCleanup(p, 0)
    /\ UNCHANGED <<config, listening, deleting, adoVars, faults>>

\* Mutant of RunEnds: the agent does not get --once and waits for more jobs.
RunEnds_NoOnce(p) ==
    /\ p \in listening
    /\ Fault /\ busy' = busy \ {p}
    /\ listening' = listening \ {p}
    /\ IF step[p] = "run" THEN GoToCleanup(p, 0) ELSE UNCHANGED <<step, code>>
    /\ UNCHANGED <<config, deleting, tokens, agents, served>>

\* run.sh ends, after its one job or because the agent dies.  If start.sh is
\* still waiting for it, the EXIT trap runs.
RunEnds(p) ==
    /\ p \in listening
    /\ \/ p \in served /\ UNCHANGED <<busy, faults>>
       \/ Fault /\ busy' = busy \ {p}
    /\ listening' = listening \ {p}
    /\ IF step[p] = "run" THEN GoToCleanup(p, 0) ELSE UNCHANGED <<step, code>>
    /\ UNCHANGED <<config, deleting, tokens, agents, served>>

\* Mutant of Remove: one attempt, whatever comes of it.
Remove_Once(p) ==
    /\ step[p] = "cleanup"
    /\ agents' = IF p \in tokens \ busy THEN agents \ {p} ELSE agents
    /\ Exit(p, code[p])
    /\ UNCHANGED <<deleting, tokens, served, faults>>

\* cleanup: config.sh remove succeeds, and the script exits.  ADO does not
\* remove an agent that runs a job, nor for a token that does not work; an
\* agent without saved settings has, as far as config.sh knows, nothing to
\* remove.  A failed attempt is made again 30 seconds later.
Remove(p) ==
    /\ step[p] = "cleanup"
    /\ IF config[p] = "saved"
       THEN p \in tokens /\ p \notin busy /\ agents' = agents \ {p}
       ELSE UNCHANGED agents
    /\ Exit(p, code[p])
    /\ UNCHANGED <<deleting, tokens, served, faults>>

\* Mutant of Term: the TERM trap exits without cleanup.
Term_NoCleanup(p) ==
    /\ p \notin deleting /\ Alive(p)
    /\ deleting' = deleting \cup {p}
    /\ IF step[p] = "install" THEN UNCHANGED <<shellVars, busy>> ELSE Exit(p, Termed)
    /\ UNCHANGED <<tokens, agents, served, faults>>

\* The pod is deleted and the kubelet sends TERM.  In cleanup the trap makes
\* the script start cleanup over.
Term(p) ==
    /\ p \notin deleting /\ Alive(p)
    /\ deleting' = deleting \cup {p}
    /\ IF step[p] = "install" THEN UNCHANGED <<step, code>> ELSE GoToCleanup(p, Termed)
    /\ UNCHANGED <<config, listening, adoVars, faults>>

-----------------------------------------------------------------------------
(* config.sh.  It goes on in the background after a TERM.                  *)

Register(p) ==
    /\ Alive(p) /\ config[p] = "calling" /\ p \in tokens
    /\ agents' = agents \cup {p}
    /\ config' = [config EXCEPT ![p] = "registered"]
    /\ UNCHANGED <<step, listening, code, deleting, tokens, busy, served, faults>>

SaveSettings(p) ==
    /\ Alive(p) /\ config[p] = "registered"
    /\ config' = [config EXCEPT ![p] = "saved"]
    /\ UNCHANGED <<step, listening, code, deleting, adoVars, faults>>

ConfigFails(p) ==
    /\ Alive(p) /\ config[p] \in {"calling", "registered"}
    /\ CallFails(p)
    /\ config' = [config EXCEPT ![p] = "failed"]
    /\ UNCHANGED <<step, listening, code, deleting, adoVars>>

-----------------------------------------------------------------------------
(* The kubelet and Azure DevOps.                                           *)

\* The grace period of a deleted pod ends.
Kill(p) ==
    /\ p \in deleting /\ Alive(p)
    /\ Exit(p, Killed)
    /\ UNCHANGED <<deleting, tokens, agents, served, faults>>

\* Eviction, node loss, out of memory.
LoseContainer(p) ==
    /\ Alive(p) /\ Fault
    /\ Exit(p, Killed)
    /\ UNCHANGED <<deleting, tokens, agents, served>>

\* A registered agent that listens is given a job, cleanup or not.
AssignJob(p) ==
    /\ p \in (agents \cap listening) \ (busy \cup served)
    /\ busy' = busy \cup {p}
    /\ UNCHANGED <<shellVars, deleting, tokens, agents, served, faults>>

FinishJob(p) ==
    /\ p \in busy
    /\ busy' = busy \ {p} /\ served' = served \cup {p}
    /\ UNCHANGED <<shellVars, deleting, tokens, agents, faults>>

\* The PAT expires or is revoked; containers that start later get a new one.
RevokeToken ==
    /\ Fault
    /\ tokens' = {}
    /\ UNCHANGED <<shellVars, deleting, agents, busy, served>>

-----------------------------------------------------------------------------
\* What start.sh and the programs it starts do by themselves.
Container(p) ==
    \/ Install(p) \/ InstallFails(p) \/ RunAgent(p) \/ ConfigureFailed(p)
    \/ RunEnds(p) \/ Remove(p)
    \/ Register(p) \/ SaveSettings(p) \/ ConfigFails(p)

Next ==
    \/ \E p \in Pods :
          \/ StartContainer(p) \/ Container(p) \/ Term(p) \/ Kill(p)
          \/ LoseContainer(p) \/ AssignJob(p) \/ FinishJob(p)
    \/ RevokeToken

Spec == Init /\ [][Next]_vars

\* The script and its programs go on, builds end and grace periods end.  No
\* pod has to be deleted, no agent has to get a job, and nothing has to fail.
Fairness ==
    \A p \in Pods :
        /\ WF_vars(Container(p) /\ UNCHANGED faults)
        /\ WF_vars(Kill(p)) /\ WF_vars(FinishJob(p))

FairSpec == Spec /\ Fairness

-----------------------------------------------------------------------------
(* Properties.                                                             *)

TypeOK ==
    /\ step \in [Pods -> Steps]
    /\ config \in [Pods -> {"none", "calling", "registered", "saved", "failed"}]
    /\ code \in [Pods -> {0, 1, 137, 143}]
    /\ listening \subseteq Pods /\ deleting \subseteq Pods /\ tokens \subseteq Pods
    /\ agents \subseteq Pods /\ busy \subseteq Pods /\ served \subseteq Pods
    /\ faults \in 0..MaxFaults

\* An agent that was configured is out of the pool before its container ends
\* by itself, whatever was going on when the script was told to stop: only a
\* kill leaves it behind (start.sh, cleanup's loop).
NoAgentLeft ==
    \A p \in agents :
        step[p] = "exited" /\ config[p] = "saved" => code[p] = Killed

\* start.sh never ends a build: a container exits under a running job only
\* when it is killed, although a TERM may come at any time and an agent in
\* cleanup may still be given a job.
ExitSparesBuild ==
    [][\A p \in busy : step'[p] = "exited" => code'[p] = Killed]_vars

\* "--once": a container ends after its job, as long as its token works
\* (start.sh, lines 138-144; with a token that does not, cleanup never ends).
EndsAfterJob ==
    \A p \in Pods : p \in served ~> (step[p] = "exited" \/ p \notin tokens)
=============================================================================
