--------------------------- MODULE AgentPodProofs ---------------------------
(***************************************************************************)
(* What start.sh guarantees, for any number of pods and faults: the        *)
(* container's script never leaves a configured agent behind and never     *)
(* ends a build, unless it is killed.                                      *)
(***************************************************************************)
EXTENDS AgentPod, TLAPS

-----------------------------------------------------------------------------
(* Type correctness.  The variables of the container, then the others.     *)

ShellTypeOK ==
    /\ step \in [Pods -> Steps]
    /\ config \in [Pods -> {"none", "calling", "registered", "saved", "failed"}]
    /\ code \in [Pods -> {0, 1, 137, 143}]
    /\ listening \subseteq Pods /\ busy \subseteq Pods

AdoTypeOK ==
    /\ deleting \subseteq Pods /\ tokens \subseteq Pods
    /\ agents \subseteq Pods /\ served \subseteq Pods

\* The end of PID 1 keeps the container's variables well typed.
LEMMA ExitType ==
    ASSUME TypeOK, NEW p \in Pods, NEW c \in {0, 1, 137, 143}, Exit(p, c)
    PROVE  ShellTypeOK'
BY DEF TypeOK, ShellTypeOK, Exit, Steps

\* A trap keeps step and code well typed.
LEMMA CleanupType ==
    ASSUME TypeOK, NEW p \in Pods, NEW c \in {0, 143}, GoToCleanup(p, c)
    PROVE  /\ step' \in [Pods -> Steps]
           /\ code' \in [Pods -> {0, 1, 137, 143}]
BY DEF TypeOK, GoToCleanup, Steps

\* Faults are counted up to their bound.
LEMMA FaultType ==
    ASSUME TypeOK, Fault \/ UNCHANGED faults
    PROVE  faults' \in 0..MaxFaults
BY AgentPodAssumption DEF TypeOK, Fault

\* TypeOK is inductive.
LEMMA TypeStep == TypeOK /\ [Next]_vars => TypeOK'
<1> SUFFICES ASSUME TypeOK, [Next]_vars
             PROVE  ShellTypeOK' /\ AdoTypeOK' /\ faults' \in 0..MaxFaults
  BY DEF TypeOK, ShellTypeOK, AdoTypeOK
<1>1. ASSUME NEW p \in Pods, StartContainer(p)
      PROVE  ShellTypeOK' /\ AdoTypeOK' /\ faults' \in 0..MaxFaults
  BY <1>1 DEF StartContainer, TypeOK, ShellTypeOK, AdoTypeOK, Steps
<1>2. ASSUME NEW p \in Pods, Container(p)
      PROVE  ShellTypeOK' /\ AdoTypeOK' /\ faults' \in 0..MaxFaults
  <2>1. AdoTypeOK'
    BY <1>2 DEF Container, Install, InstallFails, RunAgent, ConfigureFailed, RunEnds,
                Remove, Register, SaveSettings, ConfigFails, adoVars, TypeOK, AdoTypeOK
  <2>2. faults' \in 0..MaxFaults
    BY <1>2, FaultType
       DEF Container, Install, InstallFails, RunAgent, ConfigureFailed, RunEnds,
           Remove, Register, SaveSettings, ConfigFails, CallFails
  <2>3. CASE Install(p) \/ RunAgent(p)
    BY <2>1, <2>2, <2>3 DEF Install, RunAgent, adoVars, TypeOK, ShellTypeOK, Steps
  <2>4. CASE InstallFails(p) \/ Remove(p)
    <3>1. code[p] \in {0, 1, 137, 143}
      BY DEF TypeOK
    <3> QED
      BY <2>1, <2>2, <2>4, <3>1, ExitType DEF InstallFails, Remove
  <2>5. CASE ConfigureFailed(p)
    BY <2>1, <2>2, <2>5, CleanupType DEF ConfigureFailed, adoVars, TypeOK, ShellTypeOK
  <2>6. CASE RunEnds(p)
    <3>1. step' \in [Pods -> Steps] /\ code' \in [Pods -> {0, 1, 137, 143}]
      BY <2>6, CleanupType DEF RunEnds, TypeOK
    <3> QED
      BY <2>1, <2>2, <2>6, <3>1 DEF RunEnds, TypeOK, ShellTypeOK
  <2>7. CASE Register(p) \/ SaveSettings(p) \/ ConfigFails(p)
    BY <2>1, <2>2, <2>7
       DEF Register, SaveSettings, ConfigFails, adoVars, TypeOK, ShellTypeOK
  <2> QED
    BY <1>2, <2>3, <2>4, <2>5, <2>6, <2>7 DEF Container
<1>3. ASSUME NEW p \in Pods, Term(p)
      PROVE  ShellTypeOK' /\ AdoTypeOK' /\ faults' \in 0..MaxFaults
  <2>1. step' \in [Pods -> Steps] /\ code' \in [Pods -> {0, 1, 137, 143}]
    BY <1>3, CleanupType DEF Term, Termed, TypeOK
  <2> QED
    BY <1>3, <2>1 DEF Term, adoVars, TypeOK, ShellTypeOK, AdoTypeOK
<1>4. ASSUME NEW p \in Pods, Kill(p) \/ LoseContainer(p)
      PROVE  ShellTypeOK' /\ AdoTypeOK' /\ faults' \in 0..MaxFaults
  <2>1. ShellTypeOK'
    BY <1>4, ExitType DEF Kill, LoseContainer, Killed
  <2> QED
    BY <1>4, <2>1, FaultType DEF Kill, LoseContainer, TypeOK, AdoTypeOK
<1>5. ASSUME NEW p \in Pods, AssignJob(p) \/ FinishJob(p)
      PROVE  ShellTypeOK' /\ AdoTypeOK' /\ faults' \in 0..MaxFaults
  BY <1>5 DEF AssignJob, FinishJob, shellVars, TypeOK, ShellTypeOK, AdoTypeOK
<1>6. CASE RevokeToken
  BY <1>6, FaultType DEF RevokeToken, shellVars, TypeOK, ShellTypeOK, AdoTypeOK
<1>7. CASE UNCHANGED vars
  BY <1>7 DEF vars, shellVars, adoVars, TypeOK, ShellTypeOK, AdoTypeOK
<1> QED
  BY <1>1, <1>2, <1>3, <1>4, <1>5, <1>6, <1>7 DEF Next

\* The model of the container is type correct; in particular start.sh has no
\* exit codes but 0, 1, 137 and 143.
THEOREM TypeCorrect == Spec => []TypeOK
<1>1. Init => TypeOK
  BY AgentPodAssumption DEF Init, TypeOK, Steps
<1> QED
  BY <1>1, TypeStep, PTL DEF Spec

-----------------------------------------------------------------------------
(* How a container ends.                                                   *)

\* config.sh starts after the traps are set; run.sh starts after config.sh
\* has saved the agent's settings, and is alive only while the script runs or
\* cleans up after it; a job is run by a live run.sh, which takes only one.
Stages ==
    /\ \A p \in Pods : step[p] \in {"waiting", "install"} => config[p] = "none"
    /\ \A p \in listening : step[p] \in {"run", "cleanup"} /\ config[p] = "saved"
    /\ busy \subseteq listening
    /\ busy \cap served = {}

PodInv == TypeOK /\ Stages /\ NoAgentLeft

\* The end of a container, when a job and a saved agent end with it only if
\* it is killed.
LEMMA ExitKeeps ==
    ASSUME PodInv, NEW p \in Pods, NEW c, Exit(p, c), Alive(p),
           c = Killed \/ config[p] # "saved" \/ p \notin agents',
           agents' \subseteq agents, UNCHANGED served
    PROVE  Stages' /\ NoAgentLeft'
<1> USE DEF PodInv, TypeOK, Stages, NoAgentLeft, Exit
<1>1. Stages'
  OBVIOUS
<1>2. NoAgentLeft'
  BY DEF Killed
<1> QED
  BY <1>1, <1>2

\* A trap keeps PodInv: the script is past the installation.
LEMMA TrapKeeps ==
    ASSUME PodInv, NEW p \in Pods, NEW c, GoToCleanup(p, c),
           step[p] \in {"configure", "run", "cleanup"},
           listening' \subseteq listening, busy' \subseteq busy, busy' \subseteq listening',
           UNCHANGED <<config, agents, served>>
    PROVE  Stages' /\ NoAgentLeft'
<1> USE DEF PodInv, TypeOK, Stages, NoAgentLeft, GoToCleanup
<1>1. Stages'
  OBVIOUS
<1>2. NoAgentLeft'
  OBVIOUS
<1> QED
  BY <1>1, <1>2

\* Every step keeps PodInv.
LEMMA PodStepKeeps == PodInv /\ [Next]_vars => Stages' /\ NoAgentLeft'
<1> SUFFICES ASSUME PodInv, [Next]_vars PROVE Stages' /\ NoAgentLeft'
  OBVIOUS
<1> USE DEF PodInv
<1>1. ASSUME NEW p \in Pods, StartContainer(p) \/ Install(p) \/ RunAgent(p)
      PROVE  Stages' /\ NoAgentLeft'
  BY <1>1 DEF StartContainer, Install, RunAgent, adoVars, TypeOK, Stages, NoAgentLeft
<1>2. ASSUME NEW p \in Pods, InstallFails(p) \/ Remove(p) \/ Kill(p) \/ LoseContainer(p)
      PROVE  Stages' /\ NoAgentLeft'
  <2>1. /\ Alive(p) /\ UNCHANGED served /\ agents' \subseteq agents
        /\ \E c : Exit(p, c) /\ (c = Killed \/ config[p] # "saved" \/ p \notin agents')
    BY <1>2 DEF InstallFails, Remove, Kill, LoseContainer, Alive, Stages
  <2> QED
    BY <2>1, ExitKeeps
<1>3. ASSUME NEW p \in Pods, ConfigureFailed(p) PROVE Stages' /\ NoAgentLeft'
  BY <1>3, TrapKeeps DEF ConfigureFailed, adoVars, Stages
<1>4. ASSUME NEW p \in Pods, RunEnds(p) PROVE Stages' /\ NoAgentLeft'
  <2>1. /\ listening' \subseteq listening /\ busy' \subseteq busy /\ busy' \subseteq listening'
        /\ UNCHANGED <<config, agents, served>>
    BY <1>4 DEF RunEnds, Stages
  <2>2. CASE step[p] = "run"
    BY <1>4, <2>1, <2>2, TrapKeeps DEF RunEnds
  <2>3. CASE UNCHANGED <<step, code>>
    BY <2>1, <2>3 DEF Stages, NoAgentLeft
  <2> QED
    BY <1>4, <2>2, <2>3 DEF RunEnds
<1>5. ASSUME NEW p \in Pods, Register(p) \/ SaveSettings(p) \/ ConfigFails(p)
      PROVE  Stages' /\ NoAgentLeft'
  BY <1>5 DEF Register, SaveSettings, ConfigFails, Alive, adoVars, TypeOK, Stages, NoAgentLeft
<1>6. ASSUME NEW p \in Pods, Term(p) PROVE Stages' /\ NoAgentLeft'
  <2>1. UNCHANGED <<config, listening, busy, agents, served>>
    BY <1>6 DEF Term, adoVars
  <2>2. CASE UNCHANGED <<step, code>>
    BY <2>1, <2>2 DEF Stages, NoAgentLeft
  <2>3. CASE GoToCleanup(p, Termed) /\ step[p] # "install"
    <3>1. step[p] \in {"configure", "run", "cleanup"}
      BY <1>6, <2>3 DEF Term, Alive, TypeOK, Steps
    <3> QED
      BY <2>1, <2>3, <3>1, TrapKeeps DEF Stages
  <2> QED
    BY <1>6, <2>2, <2>3 DEF Term
<1>7. ASSUME NEW p \in Pods, AssignJob(p) \/ FinishJob(p) PROVE Stages' /\ NoAgentLeft'
  BY <1>7 DEF AssignJob, FinishJob, shellVars, Stages, NoAgentLeft
<1>8. CASE RevokeToken \/ UNCHANGED vars
  BY <1>8 DEF RevokeToken, vars, shellVars, adoVars, Stages, NoAgentLeft
<1> QED
  BY <1>1, <1>2, <1>3, <1>4, <1>5, <1>6, <1>7, <1>8 DEF Next, Container

\* PodInv is an invariant.
LEMMA PodInvariant == Spec => []PodInv
<1>1. Init => Stages /\ NoAgentLeft
  BY DEF Init, Stages, NoAgentLeft
<1>2. PodInv <=> TypeOK /\ Stages /\ NoAgentLeft
  BY DEF PodInv
<1> QED
  BY <1>1, <1>2, PodStepKeeps, TypeCorrect, PTL DEF Spec

\* Whenever TERM arrives, whatever fails and however often, a container that
\* ends without being killed has taken its configured agent out of the pool
\* (start.sh's traps and cleanup's loop).
THEOREM NoAgentLeftBehind == Spec => []NoAgentLeft
<1>1. PodInv => NoAgentLeft
  BY DEF PodInv
<1> QED
  BY <1>1, PodInvariant, PTL

\* A container exits under a running job only when it is killed: the agent of
\* a running job is configured, and config.sh remove does not succeed for it.
THEOREM BuildSpared == Spec => ExitSparesBuild
<1>1. PodInv /\ [Next]_vars =>
        [\A p \in busy : step'[p] = "exited" => code'[p] = Killed]_vars
  <2> SUFFICES ASSUME PodInv, Next, NEW p \in busy, step'[p] = "exited"
               PROVE  code'[p] = Killed
    OBVIOUS
  <2> USE DEF PodInv, TypeOK, Stages
  <2>1. p \in Pods /\ step[p] \in {"run", "cleanup"} /\ config[p] = "saved"
    OBVIOUS
  <2>2. ASSUME NEW q \in Pods, Kill(q) \/ LoseContainer(q) PROVE code'[p] = Killed
    BY <2>1, <2>2 DEF Kill, LoseContainer, Exit
  <2>3. ASSUME NEW q \in Pods, InstallFails(q) \/ Remove(q) PROVE step'[p] = step[p]
    BY <2>1, <2>3 DEF InstallFails, Remove, Exit
  <2>4. ASSUME NEW q \in Pods, ConfigureFailed(q) \/ RunEnds(q) \/ Term(q)
        PROVE  step'[p] # "exited"
    BY <2>1, <2>4 DEF ConfigureFailed, RunEnds, Term, GoToCleanup
  <2>5. ASSUME NEW q \in Pods, StartContainer(q) \/ Install(q) \/ RunAgent(q)
        PROVE  step'[p] # "exited"
    BY <2>1, <2>5 DEF StartContainer, Install, RunAgent
  <2>6. ASSUME \/ RevokeToken
               \/ \E q \in Pods : \/ Register(q) \/ SaveSettings(q) \/ ConfigFails(q)
                                  \/ AssignJob(q) \/ FinishJob(q)
        PROVE  step'[p] = step[p]
    BY <2>6 DEF RevokeToken, Register, SaveSettings, ConfigFails, AssignJob, FinishJob, shellVars
  <2> QED
    BY <2>1, <2>2, <2>3, <2>4, <2>5, <2>6 DEF Next, Container
<1> QED
  BY <1>1, PodInvariant, PTL DEF Spec, ExitSparesBuild
=============================================================================
