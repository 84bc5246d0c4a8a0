------------------------- MODULE TaskControl_proofs -------------------------
(***************************************************************************)
(* Proofs about TaskControl, for every set of agents, runs and versions.   *)
(*                                                                         *)
(* HeldByItsAgent is inductive once it is known that an agent holds runs   *)
(* only while it carries them out, and that only queued runs are lost or   *)
(* carried out (HoldInv); the refinement of TaskHandout needs the same.    *)
(* That get_effective_config always finds a row is part of the invariant   *)
(* (SomeEffective): it would otherwise take an induction over the rows.    *)
(*                                                                         *)
(* The last part is about the status stream of the same control plane.     *)
(***************************************************************************)
EXTENDS TaskControl, StatusStream, FiniteSetTheorems, SequenceTheorems, TLAPS

HoldInv ==
    /\ \A a \in Agents : agent[a].pc # "exec" => agent[a].batch = {}
    /\ \A r \in Runs : r \in lost \/ times[r] > 0 => run[r].status = "QUEUED"

SomeEffective ==
    /\ configs # << >>
    /\ \E i \in DOMAIN configs : IsEffective(configs, i)

SavingInv ==
    \A a \in Agents : agent[a].pc = "saving" =>
        /\ a \in trusting
        /\ agent[a].got \in Versions /\ WasEffective(agent[a].got)
        /\ cache[a] = Broken

IInv ==
    /\ TypeOK /\ SomeEffective /\ RegisteredWithinLicense
    /\ HoldInv /\ HeldByItsAgent

-----------------------------------------------------------------------------
(***************************************************************************)
(* The licence's limit                                                     *)
(***************************************************************************)

\* Whatever changes a device keeps the table's type and the limit.
LEMMA RegistryKeeps ==
    ASSUME RegistryTypeOK, RegisteredWithinLicense, NEW d \in Devices,
           \/ RegisterNew(d) \/ RegisterAgain(d) \/ RegisterDenied(d)
           \/ Report(d) \/ RevokeDevice(d) \/ UNCHANGED registryVars
    PROVE  RegistryTypeOK' /\ RegisteredWithinLicense'
<1> USE RegistryAssumption DEF RegistryAssumption
<1>1. RegistryTypeOK'
  BY DEF RegistryTypeOK, RegisterNew, RegisterAgain, RegisterDenied, Report,
         RevokeDevice, SaveDevice, Statuses, registryVars
<1>2. IsFiniteSet(Counted) /\ Counted \subseteq Devices
  BY FS_Subset DEF Counted, Rows
<1>3. CASE RegisterNew(d)
  <2>1. Counted' = Counted \union {d} /\ d \notin Counted
    BY <1>3 DEF RegisterNew, SaveDevice, Counted, Rows, RegistryTypeOK, Statuses
  <2>2. Cardinality(Counted') = Cardinality(Counted) + 1
    BY <1>2, <2>1, FS_AddElement
  <2>3. QED
    BY <1>1, <1>2, <1>3, <2>2, FS_CardinalityType DEF RegisterNew, RegisteredWithinLicense
<1>4. CASE Report(d) \/ UNCHANGED registryVars \/ RegisterAgain(d) \/ RegisterDenied(d)
  <2>1. Counted' = Counted
    BY <1>4 DEF Report, RegisterAgain, RegisterDenied, registryVars, SaveDevice,
                Counted, Rows, Usable, RegistryTypeOK, Statuses
  <2>2. QED
    BY <1>1, <2>1 DEF RegisteredWithinLicense
<1>5. CASE RevokeDevice(d)
  <2>1. Counted' \subseteq Counted
    BY <1>5 DEF RevokeDevice, SaveDevice, Counted, Rows, RegistryTypeOK
  <2>2. Cardinality(Counted') <= Cardinality(Counted)
    BY <1>2, <2>1, FS_Subset
  <2>3. Cardinality(Counted) \in Nat /\ Cardinality(Counted') \in Nat
    BY <1>2, <2>1, FS_Subset, FS_CardinalityType
  <2>4. QED
    BY <1>1, <2>2, <2>3 DEF RegisteredWithinLicense
<1>6. QED
  BY <1>3, <1>4, <1>5

LEMMA RegistryStep ==
    ASSUME RegistryTypeOK, RegisteredWithinLicense, [Next]_vars
    PROVE  RegistryTypeOK' /\ RegisteredWithinLicense'
<1>1. CASE UNCHANGED registryVars
  BY <1>1 DEF RegistryTypeOK, RegisteredWithinLicense, registryVars, Counted, Rows
<1>2. ASSUME NEW a \in Agents,
             \/ RegisterNew(a) \/ RegisterAgain(a) \/ RegisterDenied(a)
             \/ Report(a) \/ RevokeDevice(a)
      PROVE  RegistryTypeOK' /\ RegisteredWithinLicense'
  BY <1>2, RegistryKeeps, TaskAssumption DEF TaskAssumption
<1>3. QED
  BY <1>1, <1>2 DEF Next, vars, Open, OpenOffline, RequestStop, Crash, AgentStep,
     Heartbeat, ConfigNotTaken, ConfigVerified, ConfigNotOpened, SaveConfig,
     PullTasks, PullUnanswered, PullFails, Execute, AbandonBatch, Publish, AddRun

\* The limit holds because the count and the insert are one step; nothing is
\* known of the licence's length or of how devices come and go.
THEOREM LicenseLimit == Spec => [](RegistryTypeOK /\ RegisteredWithinLicense)
<1>1. Init => RegistryTypeOK /\ RegisteredWithinLicense
  <2>1. Init => RegistryTypeOK /\ Counted = {}
    BY RegistryAssumption DEF RegistryAssumption, Init, RegistryInit, RegistryTypeOK,
       License, Statuses, Counted, Rows
  <2>2. QED
    BY <2>1, FS_EmptySet, RegistryAssumption
    DEF RegistryAssumption, RegisteredWithinLicense
<1>2. RegistryTypeOK /\ RegisteredWithinLicense /\ [Next]_vars
        => RegistryTypeOK' /\ RegisteredWithinLicense'
  BY RegistryStep
<1>3. QED
  BY <1>1, <1>2, PTL DEF Spec

-----------------------------------------------------------------------------
(***************************************************************************)
(* Types, and that an effective version can be found                       *)
(***************************************************************************)

\* After Goto the agent holds nothing and is where it was sent, or off.
LEMMA GotoDoes ==
    ASSUME TypeOK, NEW a \in Agents, NEW pc \in PCs, Goto(a, pc)
    PROVE  /\ agent' \in [Agents -> Agent]
           /\ agent'[a].pc \in {"off", pc} /\ agent'[a].batch = {}
           /\ \A b \in Agents \ {a} : agent'[b] = agent[b]
BY DEF TypeOK, Goto, Off, Agent, PCs

LEMMA EffectiveFound ==
    ASSUME TypeOK, SomeEffective
    PROVE  EffectiveOf(configs) \in Versions
<1>1. PICK i \in DOMAIN configs : IsEffective(configs, i)
  BY DEF SomeEffective
<1>2. (CHOOSE k \in DOMAIN configs : IsEffective(configs, k)) \in DOMAIN configs
  BY <1>1
<1>3. \A k \in DOMAIN configs : configs[k] \in Versions
  BY DEF TypeOK
<1>4. QED
  BY <1>2, <1>3 DEF EffectiveOf

\* A row added is effective itself or leaves the effective one so.
LEMMA EffectiveStep ==
    ASSUME TypeOK, SomeEffective, [Next]_vars
    PROVE  SomeEffective'
<1>1. CASE UNCHANGED configs
  BY <1>1 DEF SomeEffective, IsEffective
<1>2. ASSUME NEW v \in Versions, Publish(v) PROVE SomeEffective'
  <2>1. /\ configs \in Seq(Versions) /\ Len(configs) \in Nat
        /\ configs' = Append(configs, v)
        /\ DOMAIN configs = 1..Len(configs)
        /\ DOMAIN configs' = 1..(Len(configs) + 1)
        /\ \A j \in DOMAIN configs : configs'[j] = configs[j] /\ configs[j] \in Versions
        /\ configs'[Len(configs) + 1] = v
    BY <1>2 DEF Publish, TypeOK
  <2>2. PICK i \in DOMAIN configs : IsEffective(configs, i)
    BY DEF SomeEffective
  <2>3. /\ EffectiveAt[v] \in Nat
        /\ \A j \in DOMAIN configs : EffectiveAt[configs[j]] \in Nat
    BY <1>2, <2>1, TaskAssumption DEF TaskAssumption
  <2>4. CASE EffectiveAt[v] >= EffectiveAt[configs[i]]
    <3>1. IsEffective(configs', Len(configs) + 1)
      BY <2>1, <2>2, <2>3, <2>4 DEF IsEffective
    <3>2. QED
      BY <2>1, <3>1 DEF SomeEffective
  <2>5. CASE EffectiveAt[v] < EffectiveAt[configs[i]]
    <3>1. IsEffective(configs', i)
      BY <2>1, <2>2, <2>3, <2>5 DEF IsEffective
    <3>2. QED
      BY <2>1, <3>1 DEF SomeEffective
  <2>6. QED
    BY <2>3, <2>4, <2>5
<1>3. QED
  BY <1>1, <1>2 DEF Next, vars, taskVars, Open, OpenOffline, RequestStop, Crash,
     AgentStep, Heartbeat, ConfigNotTaken, ConfigVerified, ConfigNotOpened,
     SaveConfig, PullTasks, PullUnanswered, PullFails, Execute, AbandonBatch, AddRun

\* One step per group of actions that change the same variables.
LEMMA TypeStep ==
    ASSUME TypeOK, SomeEffective, RegisteredWithinLicense, [Next]_vars
    PROVE  TypeOK'
<1>1. RegistryTypeOK'
  BY RegistryStep DEF TypeOK
<1>2. CASE UNCHANGED taskVars
  BY <1>1, <1>2 DEF TypeOK, taskVars
<1>3. ASSUME NEW a \in Agents, Open(a) \/ RequestStop(a) \/ Crash(a)
      PROVE  TypeOK'
  <2>1. agent' \in [Agents -> Agent]
    <3>1. agent[a] \in Agent /\ [agent[a] EXCEPT !.stop = TRUE] \in Agent
      BY DEF TypeOK, Agent
    <3>2. Off \in Agent /\ [Off EXCEPT !.pc = "beat"] \in Agent
      BY DEF Off, Agent, PCs
    <3>3. QED
      BY <1>3, <3>1, <3>2 DEF TypeOK, Open, RequestStop, Crash
  <2>2. lost' \in SUBSET Runs
    BY <1>3 DEF TypeOK, Agent, Open, RequestStop, Crash
  <2>3. QED
    BY <1>1, <1>3, <2>1, <2>2 DEF TypeOK, Open, RequestStop, Crash
<1>4. ASSUME NEW a \in Agents,
             Heartbeat(a) \/ ConfigNotTaken(a) \/ PullFails(a) \/ AbandonBatch(a)
      PROVE  TypeOK'
  <2>1. agent' \in [Agents -> Agent]
    BY <1>4, GotoDoes DEF Heartbeat, ConfigNotTaken, PullFails, AbandonBatch, PCs
  <2>2. lost' \in SUBSET Runs
    BY <1>4 DEF TypeOK, Agent, Heartbeat, ConfigNotTaken, PullFails, AbandonBatch
  <2>3. QED
    BY <1>1, <1>4, <2>1, <2>2
    DEF TypeOK, Heartbeat, ConfigNotTaken, PullFails, AbandonBatch
<1>5. ASSUME NEW a \in Agents, ConfigVerified(a) \/ ConfigNotOpened(a) PROVE TypeOK'
  <2>1. EffectiveOf(configs) \in Versions
    BY EffectiveFound
  <2>2. CASE ConfigVerified(a)
    <3>1. [agent[a] EXCEPT !.pc = "saving", !.got = EffectiveOf(configs)] \in Agent
      <4>1. agent[a] \in Agent /\ "saving" \in PCs
        BY DEF TypeOK, PCs
      <4>2. QED
        BY <2>1, <4>1 DEF Agent
    <3>2. agent' = [agent EXCEPT ![a] =
                       [agent[a] EXCEPT !.pc = "saving", !.got = EffectiveOf(configs)]]
      BY <2>2, Zenon DEF ConfigVerified, TypeOK
    <3>3. agent' \in [Agents -> Agent]
      BY <3>1, <3>2 DEF TypeOK
    <3>4. cache' \in [Agents -> Versions \union {Unset, Broken}]
      BY <2>2 DEF TypeOK, ConfigVerified
    <3>5. UNCHANGED <<run, configs, trusting, applied, lost, times, stale>>
      BY <2>2 DEF ConfigVerified
    <3>6. QED
      BY <1>1, <3>3, <3>4, <3>5 DEF TypeOK
  <2>3. CASE ConfigNotOpened(a)
    <3>1. agent' \in [Agents -> Agent]
      BY <2>3, GotoDoes DEF ConfigNotOpened, PCs
    <3>2. QED
      BY <1>1, <2>1, <2>3, <3>1 DEF TypeOK, ConfigNotOpened
  <2>4. QED
    BY <1>5, <2>2, <2>3
<1>6. ASSUME NEW a \in Agents, SaveConfig(a) PROVE TypeOK'
  <2>1. agent' \in [Agents -> Agent]
    BY <1>6, GotoDoes DEF SaveConfig, PCs
  <2>2. agent[a].got \in Versions \union {Unset}
    BY DEF TypeOK, Agent
  <2>3. QED
    BY <1>1, <1>6, <2>1, <2>2 DEF TypeOK, SaveConfig
<1>7. ASSUME NEW a \in Agents, NEW S \in SUBSET Runs,
             PullTasks(a, S) \/ PullUnanswered(a, S)
      PROVE  TypeOK'
  <2>1. run' \in [Runs -> Run]
    BY <1>7 DEF TypeOK, Run, PullTasks, PullUnanswered, PullRuns
  <2>2. agent' \in [Agents -> Agent]
    <3>1. CASE Goto(a, "beat")
      BY <3>1, GotoDoes DEF PCs
    <3>2. CASE agent' = [agent EXCEPT ![a].pc = "exec", ![a].batch = S]
      <4>1. [agent[a] EXCEPT !.pc = "exec", !.batch = S] \in Agent
        <5>1. agent[a] \in Agent /\ "exec" \in PCs
          BY DEF TypeOK, PCs
        <5>2. QED
          BY <5>1 DEF Agent
      <4>2. agent' = [agent EXCEPT ![a] = [agent[a] EXCEPT !.pc = "exec", !.batch = S]]
        BY <3>2, Zenon DEF TypeOK
      <4>3. QED
        BY <4>1, <4>2 DEF TypeOK
    <3>3. QED
      BY <1>7, <3>1, <3>2 DEF PullTasks, PullUnanswered
  <2>3. lost' \in SUBSET Runs
    BY <1>7 DEF TypeOK, PullTasks, PullUnanswered
  <2>4. QED
    BY <1>1, <1>7, <2>1, <2>2, <2>3 DEF TypeOK, PullTasks, PullUnanswered
<1>8. ASSUME NEW a \in Agents, NEW r \in Runs, Execute(a, r) PROVE TypeOK'
  <2>1. agent' \in [Agents -> Agent]
    <3>1. CASE Goto(a, "beat")
      BY <3>1, GotoDoes DEF PCs
    <3>2. CASE agent' = [agent EXCEPT ![a].batch = @ \ {r}]
      <4>1. [agent[a] EXCEPT !.batch = @ \ {r}] \in Agent
        BY DEF TypeOK, Agent
      <4>2. agent' = [agent EXCEPT ![a] = [agent[a] EXCEPT !.batch = @ \ {r}]]
        BY <3>2, Zenon DEF TypeOK
      <4>3. QED
        BY <4>1, <4>2 DEF TypeOK
    <3>3. QED
      BY <1>8, <3>1, <3>2 DEF Execute
  <2>2. times' \in [Runs -> Nat]
    BY <1>8 DEF TypeOK, Execute
  <2>3. QED
    BY <1>1, <1>8, <2>1, <2>2 DEF TypeOK, Execute
<1>9. ASSUME NEW v \in Versions, Publish(v) PROVE TypeOK'
  BY <1>1, <1>9 DEF TypeOK, Publish
<1>10. ASSUME NEW r \in Runs, NEW d \in Agents \union {Nobody}, AddRun(r, d)
       PROVE  TypeOK'
  BY <1>1, <1>10 DEF TypeOK, Run, AddRun
<1>11. QED
  BY <1>2, <1>3, <1>4, <1>5, <1>6, <1>7, <1>8, <1>9, <1>10
  DEF Next, vars, OpenOffline, AgentStep

-----------------------------------------------------------------------------
(***************************************************************************)
(* Who holds a run                                                         *)
(***************************************************************************)

\* Steps that neither queue, carry out nor lose a run.
Quiet ==
    /\ UNCHANGED <<lost, times>>
    /\ \A r \in Runs : run'[r] = run[r]
    /\ \A a \in Agents : /\ agent'[a].batch = agent[a].batch
                         /\ agent[a].pc = "exec" => agent'[a].pc = "exec"

LEMMA QuietSteps ==
    ASSUME TypeOK, HoldInv, NEW a \in Agents,
           \/ Open(a) \/ RequestStop(a) \/ Heartbeat(a) \/ ConfigNotTaken(a)
           \/ ConfigVerified(a) \/ ConfigNotOpened(a) \/ SaveConfig(a)
           \/ PullFails(a) \/ UNCHANGED taskVars
    PROVE  Quiet
<1>1. CASE Open(a) \/ UNCHANGED taskVars
  BY <1>1 DEF TypeOK, HoldInv, Open, taskVars, Quiet, Off
<1>2. CASE RequestStop(a)
  BY <1>2 DEF TypeOK, Agent, RequestStop, Quiet
<1>3. CASE ConfigVerified(a)
  <2> DEFINE to == [agent[a] EXCEPT !.pc = "saving", !.got = EffectiveOf(configs)]
  <2>1. agent' = [agent EXCEPT ![a] = to]
    BY <1>3, Zenon DEF ConfigVerified, TypeOK
  <2>2. to.batch = agent[a].batch /\ agent[a].pc # "exec"
    BY <1>3 DEF ConfigVerified, TypeOK, Agent
  <2> HIDE DEF to
  <2>3. QED
    BY <1>3, <2>1, <2>2 DEF ConfigVerified, TypeOK, Quiet
<1>4. CASE \/ Heartbeat(a) \/ ConfigNotTaken(a) \/ ConfigNotOpened(a)
           \/ SaveConfig(a) \/ PullFails(a)
  <2>1. PICK pc \in PCs : Goto(a, pc)
    BY <1>4 DEF Heartbeat, ConfigNotTaken, ConfigNotOpened, SaveConfig, PullFails, PCs
  <2>2. agent[a].pc # "exec" /\ UNCHANGED <<run, lost, times>>
    BY <1>4 DEF Heartbeat, ConfigNotTaken, ConfigNotOpened, SaveConfig, PullFails
  <2>3. QED
    BY <2>1, <2>2, GotoDoes DEF Quiet, HoldInv
<1>5. QED
  BY <1>1, <1>2, <1>3, <1>4

\* A quiet step keeps whatever is said of the holders.
LEMMA QuietKeeps ==
    ASSUME TypeOK, HoldInv, HeldByItsAgent, Quiet
    PROVE  HoldInv' /\ HeldByItsAgent'
<1>1. HoldInv'
  BY DEF Quiet, HoldInv
<1>2. ASSUME NEW r \in Runs
      PROVE  /\ run'[r].status = "QUEUED" /\ r \notin lost' /\ times'[r] = 0 =>
                   run'[r].device \in Agents /\ r \in agent'[run'[r].device].batch
             /\ \A a \in Agents : r \in agent'[a].batch =>
                   /\ run'[r].status = "QUEUED" /\ run'[r].device = a
                   /\ r \notin lost' /\ times'[r] = 0
  <2>1. run'[r] = run[r] /\ lost' = lost /\ times' = times
    BY DEF Quiet
  <2>2. \A a \in Agents : agent'[a].batch = agent[a].batch
    BY DEF Quiet
  <2>3. QED
    BY <2>1, <2>2 DEF HeldByItsAgent
<1>3. QED
  BY <1>1, <1>2 DEF HeldByItsAgent

\* What an agent drops when it stops or crashes is lost.
DropsBatch(a) ==
    /\ lost' = lost \union agent[a].batch
    /\ UNCHANGED <<run, times>>
    /\ agent'[a].batch = {}
    /\ \A b \in Agents \ {a} : agent'[b] = agent[b]

LEMMA DropSteps ==
    ASSUME TypeOK, NEW a \in Agents, Crash(a) \/ AbandonBatch(a)
    PROVE  DropsBatch(a)
<1>1. CASE Crash(a)
  BY <1>1 DEF TypeOK, Crash, Off, DropsBatch
<1>2. CASE AbandonBatch(a)
  BY <1>2, GotoDoes DEF AbandonBatch, DropsBatch, PCs
<1>3. QED
  BY <1>1, <1>2

LEMMA DropKeeps ==
    ASSUME TypeOK, HoldInv, HeldByItsAgent, NEW a \in Agents, DropsBatch(a)
    PROVE  HoldInv' /\ HeldByItsAgent'
<1>1. HoldInv'
  BY DEF DropsBatch, HoldInv, HeldByItsAgent
<1>2. HeldByItsAgent'
  <2> SUFFICES ASSUME NEW r \in Runs
               PROVE  /\ run[r].status = "QUEUED" /\ r \notin lost' /\ times[r] = 0 =>
                           /\ run[r].device \in Agents
                           /\ r \in agent'[run[r].device].batch
                      /\ \A b \in Agents : r \in agent'[b].batch =>
                           /\ run[r].status = "QUEUED" /\ run[r].device = b
                           /\ r \notin lost' /\ times[r] = 0
    BY DEF HeldByItsAgent, DropsBatch
  <2> QED
    BY DEF HeldByItsAgent, DropsBatch
<1>3. QED
  BY <1>1, <1>2

\* The runs of a pull are queued for one agent; it gets them all or they are
\* lost.
PullEffect(a, S) ==
    /\ Usable(a) /\ S \subseteq Candidates(a)
    /\ \A r \in S : run'[r] = [status |-> "QUEUED", device |-> a]
    /\ \A r \in Runs \ S : run'[r] = run[r]
    /\ agent[a].batch = {} /\ UNCHANGED <<times, device>>
    /\ \A b \in Agents \ {a} : agent'[b] = agent[b]
    /\ \/ agent'[a].batch = {} /\ lost' = lost \union S
       \/ agent'[a].pc = "exec" /\ agent'[a].batch = S /\ lost' = lost

LEMMA PullDoes ==
    ASSUME TypeOK, HoldInv, NEW a \in Agents, NEW S \in SUBSET Runs,
           PullTasks(a, S) \/ PullUnanswered(a, S)
    PROVE  PullEffect(a, S)
<1>1. /\ Usable(a) /\ S \subseteq Candidates(a)
      /\ \A r \in S : run'[r] = [status |-> "QUEUED", device |-> a]
      /\ \A r \in Runs \ S : run'[r] = run[r]
  BY DEF PullTasks, PullUnanswered, PullRuns, IsPull
<1>2. agent[a].batch = {} /\ UNCHANGED <<times, device>>
  BY DEF PullTasks, PullUnanswered, HoldInv, registryVars
<1>3. CASE Goto(a, "beat") /\ lost' = lost \union S
  BY <1>1, <1>2, <1>3, GotoDoes DEF PCs, PullEffect
<1>4. CASE agent' = [agent EXCEPT ![a].pc = "exec", ![a].batch = S] /\ lost' = lost
  <2>1. agent' = [agent EXCEPT ![a] = [agent[a] EXCEPT !.pc = "exec", !.batch = S]]
    BY <1>4, Zenon DEF TypeOK
  <2>2. agent'[a] = [agent[a] EXCEPT !.pc = "exec", !.batch = S]
    BY <2>1 DEF TypeOK
  <2>3. agent'[a].pc = "exec" /\ agent'[a].batch = S
    BY <2>2 DEF TypeOK, Agent
  <2>4. \A b \in Agents \ {a} : agent'[b] = agent[b]
    BY <2>1 DEF TypeOK
  <2>5. QED
    BY <1>1, <1>2, <1>4, <2>3, <2>4 DEF PullEffect
<1>5. QED
  BY <1>3, <1>4 DEF PullTasks, PullUnanswered

LEMMA PullKeeps ==
    ASSUME TypeOK, HoldInv, HeldByItsAgent, NEW a \in Agents, NEW S \in SUBSET Runs,
           PullTasks(a, S) \/ PullUnanswered(a, S)
    PROVE  HoldInv' /\ HeldByItsAgent'
<1>0. PullEffect(a, S)
  BY PullDoes
<1>1. \A r \in S : /\ run[r].status = "CREATED" /\ run[r].device \in {Nobody, a}
                   /\ r \notin lost /\ times[r] = 0
                   /\ \A b \in Agents : r \notin agent[b].batch
  BY <1>0 DEF PullEffect, Candidates, HoldInv, HeldByItsAgent, TypeOK
<1>2. HoldInv'
  <2>1. \A b \in Agents : agent'[b].pc # "exec" => agent'[b].batch = {}
    BY <1>0 DEF PullEffect, HoldInv
  <2>2. \A r \in Runs : r \in lost' \/ times'[r] > 0 => run'[r].status = "QUEUED"
    BY <1>0 DEF PullEffect, HoldInv
  <2>3. QED
    BY <2>1, <2>2 DEF HoldInv
<1>3. ASSUME NEW r \in S
      PROVE  /\ run'[r].device = a /\ run'[r].status = "QUEUED" /\ times'[r] = 0
             /\ \A b \in Agents \ {a} : r \notin agent'[b].batch
             /\ r \in agent'[a].batch <=> r \notin lost'
  BY <1>0, <1>1 DEF PullEffect
<1>4. ASSUME NEW r \in Runs \ S
      PROVE  /\ run'[r] = run[r] /\ times'[r] = times[r]
             /\ r \in lost' <=> r \in lost
             /\ \A b \in Agents : r \in agent'[b].batch <=> r \in agent[b].batch
  BY <1>0 DEF PullEffect
<1>5. HeldByItsAgent'
  <2> SUFFICES ASSUME NEW r \in Runs
               PROVE  /\ run'[r].status = "QUEUED" /\ r \notin lost' /\ times'[r] = 0 =>
                           /\ run'[r].device \in Agents
                           /\ r \in agent'[run'[r].device].batch
                      /\ \A b \in Agents : r \in agent'[b].batch =>
                           /\ run'[r].status = "QUEUED" /\ run'[r].device = b
                           /\ r \notin lost' /\ times'[r] = 0
    BY DEF HeldByItsAgent
  <2>1. CASE r \in S
    BY <1>3, <2>1
  <2>2. CASE r \notin S
    BY <1>4, <2>2 DEF HeldByItsAgent
  <2>3. QED
    BY <2>1, <2>2
<1>6. QED
  BY <1>2, <1>5

\* The run carried out leaves the batch it is in.
LEMMA ExecuteDoes ==
    ASSUME TypeOK, NEW a \in Agents, NEW r \in Runs, Execute(a, r)
    PROVE  /\ r \in agent[a].batch
           /\ times' = [times EXCEPT ![r] = @ + 1]
           /\ UNCHANGED <<run, lost, device>>
           /\ \A b \in Agents \ {a} : agent'[b] = agent[b]
           /\ \/ agent'[a].batch = {} /\ agent[a].batch = {r}
              \/ agent'[a].batch = agent[a].batch \ {r} /\ agent'[a].pc = agent[a].pc
           /\ agent[a].pc = "exec"
<1>1. CASE Goto(a, "beat") /\ agent[a].batch = {r}
  BY <1>1, GotoDoes DEF Execute, PCs, registryVars
<1>2. CASE agent' = [agent EXCEPT ![a].batch = @ \ {r}]
  BY <1>2 DEF Execute, TypeOK, Agent, registryVars
<1>3. QED
  BY <1>1, <1>2 DEF Execute

LEMMA ExecuteKeeps ==
    ASSUME TypeOK, HoldInv, HeldByItsAgent, NEW a \in Agents, NEW r \in Runs,
           Execute(a, r)
    PROVE  HoldInv' /\ HeldByItsAgent'
<1>1. /\ times'[r] = times[r] + 1 /\ times[r] \in Nat
      /\ \A q \in Runs \ {r} : times'[q] = times[q]
  BY ExecuteDoes DEF TypeOK
<1>2. /\ run[r].status = "QUEUED" /\ run[r].device = a
      /\ \A b \in Agents \ {a} : r \notin agent[b].batch
  BY ExecuteDoes DEF HeldByItsAgent
<1>3. HoldInv'
  <2>1. \A b \in Agents : agent'[b].pc # "exec" => agent'[b].batch = {}
    BY ExecuteDoes DEF HoldInv
  <2>2. \A q \in Runs : q \in lost' \/ times'[q] > 0 => run'[q].status = "QUEUED"
    BY <1>1, <1>2, ExecuteDoes DEF HoldInv
  <2>3. QED
    BY <2>1, <2>2 DEF HoldInv
<1>4. HeldByItsAgent'
  <2> SUFFICES ASSUME NEW q \in Runs
               PROVE  /\ run[q].status = "QUEUED" /\ q \notin lost /\ times'[q] = 0 =>
                           /\ run[q].device \in Agents
                           /\ q \in agent'[run[q].device].batch
                      /\ \A b \in Agents : q \in agent'[b].batch =>
                           /\ run[q].status = "QUEUED" /\ run[q].device = b
                           /\ q \notin lost /\ times'[q] = 0
    BY ExecuteDoes DEF HeldByItsAgent
  <2>1. CASE q = r
    BY <1>1, <1>2, <2>1, ExecuteDoes
  <2>2. CASE q # r
    <3>1. \A b \in Agents : q \in agent'[b].batch <=> q \in agent[b].batch
      BY <2>2, ExecuteDoes
    <3>2. QED
      BY <1>1, <2>2, <3>1 DEF HeldByItsAgent
  <2>3. QED
    BY <2>1, <2>2
<1>5. QED
  BY <1>3, <1>4

\* A new run has been neither handed out nor lost.
LEMMA AddRunKeeps ==
    ASSUME TypeOK, HoldInv, HeldByItsAgent, NEW r \in Runs,
           NEW d \in Agents \union {Nobody}, AddRun(r, d)
    PROVE  HoldInv' /\ HeldByItsAgent'
<1>1. /\ run[r].status = "ABSENT" /\ run'[r].status = "CREATED"
      /\ \A q \in Runs \ {r} : run'[q] = run[q]
      /\ UNCHANGED <<agent, lost, times>>
  BY DEF AddRun, TypeOK
<1>2. /\ r \notin lost /\ times[r] = 0
      /\ \A b \in Agents : r \notin agent[b].batch
  BY <1>1 DEF HoldInv, HeldByItsAgent, TypeOK
<1>3. HoldInv'
  BY <1>1, <1>2 DEF HoldInv
<1>4. HeldByItsAgent'
  BY <1>1, <1>2 DEF HeldByItsAgent
<1>5. QED
  BY <1>3, <1>4

LEMMA HolderStep ==
    ASSUME IInv, [Next]_vars
    PROVE  HoldInv' /\ HeldByItsAgent'
<1> USE DEF IInv
<1>1. CASE UNCHANGED taskVars \/ \E v \in Versions : Publish(v)
  <2>1. Quiet
    BY <1>1 DEF Publish, taskVars, Quiet
  <2>2. QED
    BY <2>1, QuietKeeps
<1>2. ASSUME NEW a \in Agents,
             \/ Open(a) \/ RequestStop(a) \/ Heartbeat(a) \/ ConfigNotTaken(a)
             \/ ConfigVerified(a) \/ ConfigNotOpened(a) \/ SaveConfig(a)
             \/ PullFails(a)
      PROVE  HoldInv' /\ HeldByItsAgent'
  BY <1>2, QuietSteps, QuietKeeps
<1>3. ASSUME NEW a \in Agents, Crash(a) \/ AbandonBatch(a)
      PROVE  HoldInv' /\ HeldByItsAgent'
  BY <1>3, DropSteps, DropKeeps
<1>4. QED
  BY <1>1, <1>2, <1>3, PullKeeps, ExecuteKeeps, AddRunKeeps
  DEF Next, vars, AgentStep, OpenOffline

LEMMA InitIInv == Init => IInv
<1> SUFFICES ASSUME Init PROVE IInv
  OBVIOUS
<1> USE RegistryAssumption, TaskAssumption DEF RegistryAssumption, TaskAssumption
<1>1. RegistryTypeOK /\ RegisteredWithinLicense
  <2>1. RegistryTypeOK /\ Counted = {}
    BY DEF Init, RegistryInit, RegistryTypeOK, License, Statuses, Counted, Rows
  <2>2. QED
    BY <2>1, FS_EmptySet DEF RegisteredWithinLicense
<1>2. /\ run \in [Runs -> Run]
      /\ agent \in [Agents -> Agent]
      /\ times \in [Runs -> Nat]
  BY DEF Init, Run, Agent, PCs, Off
<1>3. /\ configs = <<SeedVersion>> /\ configs \in Seq(Versions)
      /\ DOMAIN configs = {1} /\ configs[1] = SeedVersion
  BY DEF Init
<1>4. TypeOK
  BY <1>1, <1>2, <1>3 DEF Init, TypeOK
<1>5. SomeEffective
  <2>1. IsEffective(configs, 1)
    BY <1>3 DEF IsEffective
  <2>2. QED
    BY <1>3, <2>1 DEF SomeEffective
<1>6. HoldInv /\ HeldByItsAgent
  BY DEF Init, HoldInv, HeldByItsAgent, Off
<1>7. QED
  BY <1>1, <1>4, <1>5, <1>6 DEF IInv

\* The inductive invariant holds in every reachable state.
THEOREM Invariance == Spec => []IInv
<1>1. IInv /\ [Next]_vars => IInv'
  BY TypeStep, EffectiveStep, HolderStep, RegistryStep DEF IInv, TypeOK
<1>2. QED
  BY InitIInv, <1>1, PTL DEF Spec

\* Type correctness of the agents and the control plane's tables; that a
\* version is found for every request is part of it.
THEOREM TypeCorrect == Spec => [](TypeOK /\ SomeEffective)
<1>1. IInv => TypeOK /\ SomeEffective
  BY DEF IInv
<1>2. QED
  BY <1>1, Invariance, PTL

\* No queued run is forgotten without a lost answer, a stop or a crash.
THEOREM NoRunForgotten == Spec => []HeldByItsAgent
<1>1. IInv => HeldByItsAgent
  BY DEF IInv
<1>2. QED
  BY <1>1, Invariance, PTL

-----------------------------------------------------------------------------
(***************************************************************************)
(* The refinement of TaskHandout                                           *)
(***************************************************************************)

Owner  == [r \in Runs |-> run[r].device]
Barred == {a \in Agents : device[a] = "REVOKED"}

LEMMA HandoutStart == Init => Handout!HandoutInit
<1> SUFFICES ASSUME Init PROVE Handout!HandoutInit
  OBVIOUS
<1>1. HandoutState \in [Runs -> {"absent", "open"}]
  BY DEF Init, HandoutState
<1>2. Owner = [r \in Runs |-> Nobody] /\ times = [r \in Runs |-> 0] /\ Barred = {}
  BY TaskAssumption DEF TaskAssumption, Init, RegistryInit, Owner, Barred
<1>3. QED
  BY <1>1, <1>2 DEF Handout!HandoutInit, Owner, Barred

\* A step that is quiet for runs and revokes no device is a stutter.
LEMMA QuietStutters ==
    ASSUME TypeOK, Quiet, NEW a \in Agents,
           \/ RegisterNew(a) \/ RegisterAgain(a) \/ RegisterDenied(a)
           \/ Report(a) \/ UNCHANGED device
    PROVE  UNCHANGED Handout!handoutVars
<1>1. lost' = lost /\ times' = times /\ \A r \in Runs : run'[r] = run[r]
  BY DEF Quiet
<1>2. HandoutState' = HandoutState /\ Owner' = Owner
  BY <1>1 DEF HandoutState, Owner
<1>3. Barred' = Barred
  BY TaskAssumption DEF TaskAssumption, Barred, RegisterNew, RegisterAgain,
     RegisterDenied, Report, SaveDevice, Usable, registryVars, TypeOK, RegistryTypeOK
<1>4. QED
  BY <1>1, <1>2, <1>3 DEF Handout!handoutVars, Owner, Barred

LEMMA RevokeBars ==
    ASSUME TypeOK, NEW a \in Agents, RevokeDevice(a), UNCHANGED taskVars
    PROVE  Handout!Bar(a)
<1>1. Barred' = Barred \union {a}
  BY TaskAssumption DEF TaskAssumption, Barred, RevokeDevice, SaveDevice, TypeOK,
     RegistryTypeOK
<1>2. HandoutState' = HandoutState /\ Owner' = Owner /\ times' = times
  BY DEF taskVars, HandoutState, Owner
<1>3. QED
  BY <1>1, <1>2 DEF Handout!Bar, Owner, Barred

LEMMA AddRunCreates ==
    ASSUME TypeOK, HoldInv, NEW r \in Runs, NEW d \in Agents \union {Nobody},
           AddRun(r, d)
    PROVE  Handout!Create(r, d)
<1>1. /\ run[r].status = "ABSENT"
      /\ run' = [run EXCEPT ![r] = [status |-> "CREATED", device |-> d]]
      /\ UNCHANGED <<device, lost, times>>
  BY DEF AddRun, registryVars
<1>2. HandoutState[r] = "absent"
  BY <1>1 DEF HandoutState
<1>3. HandoutState' = [HandoutState EXCEPT ![r] = "open"]
  BY <1>1 DEF HandoutState, TypeOK
<1>4. Owner' = [Owner EXCEPT ![r] = d]
  BY <1>1 DEF Owner, TypeOK
<1>5. QED
  BY <1>1, <1>2, <1>3, <1>4 DEF Handout!Create, Owner

LEMMA PullHands ==
    ASSUME TypeOK, HoldInv, NEW a \in Agents, NEW S \in SUBSET Runs,
           PullTasks(a, S) \/ PullUnanswered(a, S)
    PROVE  \E to \in {"held", "lost"} : Handout!Hand(a, S, to)
<1>1. PullEffect(a, S)
  BY PullDoes
<1>2. a \notin Barred
  BY <1>1 DEF PullEffect, Usable, Barred
<1>3. \A r \in S : /\ HandoutState[r] = "open" /\ Owner[r] \in {Nobody, a}
                   /\ times[r] = 0 /\ r \notin lost
  <2> TAKE r \in S
  <2>1. r \in Runs /\ run[r].status = "CREATED" /\ run[r].device \in {Nobody, a}
    BY <1>1 DEF PullEffect, Candidates
  <2>2. times[r] \in Nat /\ times[r] = 0 /\ r \notin lost
    BY <2>1 DEF HoldInv, TypeOK
  <2>3. HandoutState[r] = "open" /\ Owner[r] = run[r].device
    BY <2>1 DEF HandoutState, Owner
  <2>4. QED
    BY <2>1, <2>2, <2>3
<1>4. Owner' = [r \in Runs |-> IF r \in S THEN a ELSE Owner[r]]
  BY <1>1 DEF PullEffect, Owner
<1>5. PICK to \in {"held", "lost"} :
         \/ to = "held" /\ lost' = lost
         \/ to = "lost" /\ lost' = lost \union S
  BY <1>1 DEF PullEffect
<1>6. HandoutState' = [r \in Runs |-> IF r \in S THEN to ELSE HandoutState[r]]
  <2>1. ASSUME NEW r \in Runs
        PROVE  HandoutState'[r] = IF r \in S THEN to ELSE HandoutState[r]
    <3>1. CASE r \in S
      <4>1. /\ run'[r].status = "QUEUED" /\ times'[r] = 0
            /\ r \in lost' <=> to = "lost"
        BY <1>1, <1>3, <1>5, <3>1 DEF PullEffect
      <4>2. QED
        BY <1>5, <3>1, <4>1 DEF HandoutState
    <3>2. CASE r \notin S
      BY <1>1, <1>5, <3>2 DEF PullEffect, HandoutState
    <3>3. QED
      BY <3>1, <3>2
  <2>2. HandoutState' = [r \in Runs |-> HandoutState'[r]]
    BY DEF HandoutState
  <2>3. QED
    BY <2>1, <2>2
<1>7. Handout!Hand(a, S, to)
  BY <1>1, <1>2, <1>3, <1>4, <1>6 DEF PullEffect, Handout!Hand, Owner, Barred
<1>8. QED
  BY <1>7

LEMMA ExecuteFinishes ==
    ASSUME TypeOK, HoldInv, HeldByItsAgent, NEW a \in Agents, NEW r \in Runs,
           Execute(a, r)
    PROVE  Handout!Finish(r)
<1>1. /\ times' = [times EXCEPT ![r] = @ + 1] /\ times[r] \in Nat
      /\ UNCHANGED <<run, lost, device>> /\ r \in agent[a].batch
  BY ExecuteDoes DEF TypeOK
<1>2. run[r].status = "QUEUED" /\ times[r] = 0 /\ r \notin lost
  BY <1>1 DEF HeldByItsAgent
<1>3. HandoutState[r] = "held"
  BY <1>2 DEF HandoutState
<1>4. HandoutState' = [HandoutState EXCEPT ![r] = "done"]
  <2>1. times'[r] = times[r] + 1 /\ \A q \in Runs \ {r} : times'[q] = times[q]
    BY <1>1 DEF TypeOK
  <2>2. HandoutState'[r] = "done"
    BY <1>1, <1>2, <2>1 DEF HandoutState
  <2>3. \A q \in Runs \ {r} : HandoutState'[q] = HandoutState[q]
    BY <1>1, <2>1 DEF HandoutState
  <2>4. /\ HandoutState = [q \in Runs |-> HandoutState[q]]
        /\ HandoutState' = [q \in Runs |-> HandoutState'[q]]
    BY DEF HandoutState
  <2>5. QED
    BY <2>2, <2>3, <2>4
<1>5. Owner' = Owner /\ Barred' = Barred
  BY <1>1 DEF Owner, Barred
<1>6. QED
  BY <1>1, <1>3, <1>4, <1>5 DEF Handout!Finish, Owner, Barred

LEMMA DropLoses ==
    ASSUME TypeOK, HoldInv, HeldByItsAgent, NEW a \in Agents, DropsBatch(a),
           UNCHANGED device
    PROVE  Handout!Lose(agent[a].batch)
<1> DEFINE S == agent[a].batch
<1>1. S \in SUBSET Runs /\ lost' = lost \union S /\ run' = run /\ times' = times
  BY DEF DropsBatch, TypeOK, Agent
<1>2. \A r \in S : run[r].status = "QUEUED" /\ times[r] = 0 /\ r \notin lost
  BY <1>1 DEF HeldByItsAgent
<1>3. \A r \in S : HandoutState[r] = "held"
  BY <1>1, <1>2 DEF HandoutState
<1>4. HandoutState' = [r \in Runs |-> IF r \in S THEN "lost" ELSE HandoutState[r]]
  BY <1>1, <1>2 DEF HandoutState
<1>5. Owner' = Owner /\ Barred' = Barred
  BY <1>1 DEF Owner, Barred
<1>6. QED
  BY <1>1, <1>3, <1>4, <1>5 DEF Handout!Lose, Owner, Barred

\* Every step of the agents is a step of the hand-out or stutters.
LEMMA HandoutStep ==
    ASSUME IInv, [Next]_vars
    PROVE  [Handout!HandoutNext]_Handout!handoutVars
<1> USE DEF IInv
<1>1. CASE UNCHANGED vars
  BY <1>1 DEF vars, taskVars, registryVars, Handout!handoutVars, HandoutState
<1>2. ASSUME NEW a \in Agents,
             \/ Open(a) \/ RequestStop(a) \/ Heartbeat(a) \/ ConfigNotTaken(a)
             \/ ConfigVerified(a) \/ ConfigNotOpened(a) \/ SaveConfig(a)
             \/ PullFails(a) \/ OpenOffline(a)
      PROVE  UNCHANGED Handout!handoutVars
  <2>1. Quiet
    BY <1>2, QuietSteps DEF OpenOffline
  <2>2. \/ RegisterNew(a) \/ RegisterAgain(a) \/ RegisterDenied(a)
        \/ Report(a) \/ UNCHANGED device
    BY <1>2 DEF Open, RequestStop, Heartbeat, ConfigNotTaken, ConfigVerified,
       ConfigNotOpened, SaveConfig, PullFails, OpenOffline, registryVars
  <2>3. QED
    BY <2>1, <2>2, QuietStutters
<1>3. ASSUME NEW a \in Agents, RevokeDevice(a), UNCHANGED taskVars
      PROVE  Handout!HandoutNext
  BY <1>3, RevokeBars DEF Handout!HandoutNext
<1>4. ASSUME NEW v \in Versions, Publish(v) PROVE UNCHANGED Handout!handoutVars
  BY <1>4 DEF Publish, registryVars, Handout!handoutVars, HandoutState
<1>5. ASSUME NEW r \in Runs, NEW d \in Agents \union {Nobody}, AddRun(r, d)
      PROVE  Handout!HandoutNext
  BY <1>5, AddRunCreates DEF Handout!HandoutNext
<1>6. ASSUME NEW a \in Agents, NEW S \in SUBSET Runs,
             PullTasks(a, S) \/ PullUnanswered(a, S)
      PROVE  Handout!HandoutNext
  BY <1>6, PullHands DEF Handout!HandoutNext
<1>7. ASSUME NEW a \in Agents, NEW r \in Runs, Execute(a, r)
      PROVE  Handout!HandoutNext
  BY <1>7, ExecuteFinishes DEF Handout!HandoutNext
<1>8. ASSUME NEW a \in Agents, Crash(a) \/ AbandonBatch(a)
      PROVE  Handout!HandoutNext
  <2>1. DropsBatch(a) /\ UNCHANGED device
    BY <1>8, DropSteps DEF Crash, AbandonBatch, registryVars
  <2>2. Handout!Lose(agent[a].batch) /\ agent[a].batch \in SUBSET Runs
    BY <2>1, DropLoses DEF TypeOK, Agent
  <2>3. QED
    BY <2>2 DEF Handout!HandoutNext
<1>9. QED
  BY <1>1, <1>2, <1>3, <1>4, <1>5, <1>6, <1>7, <1>8 DEF Next, AgentStep

\* The agents and the task service implement TaskHandout, step by step.
THEOREM Refinement == Spec => HandoutSpec
<1>1. IInv /\ [Next]_vars => [Handout!HandoutNext]_Handout!handoutVars
  BY HandoutStep
<1>2. QED
  BY HandoutStart, <1>1, Invariance, PTL DEF Spec, HandoutSpec, Handout!HandoutSpec

-----------------------------------------------------------------------------
(***************************************************************************)
(* The cached configuration                                                *)
(***************************************************************************)

CacheInv == IInv /\ SavingInv /\ CacheIsVerified

LEMMA EffectiveNow ==
    ASSUME TypeOK, SomeEffective
    PROVE  WasEffective(EffectiveOf(configs))
<1>1. /\ Len(configs) \in DOMAIN configs
      /\ SubSeq(configs, 1, Len(configs)) = configs
  BY DEF TypeOK, SomeEffective
<1>2. QED
  BY <1>1 DEF WasEffective

\* What was effective once stays so, whatever is published later.
LEMMA EffectiveStays ==
    ASSUME TypeOK, NEW w, WasEffective(w), [Next]_vars
    PROVE  WasEffective(w)'
<1>1. CASE UNCHANGED configs
  BY <1>1 DEF WasEffective
<1>2. ASSUME NEW v \in Versions, Publish(v) PROVE WasEffective(w)'
  <2>1. configs \in Seq(Versions) /\ configs' = Append(configs, v)
    BY <1>2 DEF Publish, TypeOK
  <2>2. PICK n \in DOMAIN configs : w = EffectiveOf(SubSeq(configs, 1, n))
    BY DEF WasEffective
  <2>3. /\ n \in DOMAIN configs' /\ n \in Nat /\ n <= Len(configs)
        /\ \A i \in 1..n : configs'[i] = configs[i]
    BY <2>1
  <2>4. SubSeq(configs', 1, n) = SubSeq(configs, 1, n)
    BY <2>1, <2>3
  <2>5. QED
    BY <2>2, <2>3, <2>4 DEF WasEffective
<1>3. QED
  BY <1>1, <1>2 DEF Next, vars, taskVars, Open, OpenOffline, RequestStop, Crash,
     AgentStep, Heartbeat, ConfigNotTaken, ConfigVerified, ConfigNotOpened,
     SaveConfig, PullTasks, PullUnanswered, PullFails, Execute, AbandonBatch, AddRun

\* Steps that leave the file, what was applied and who is saving alone, or
\* make an agent stop saving.
NotSaving(a) ==
    /\ UNCHANGED <<trusting, cache, applied, stale>>
    /\ \A b \in Agents \ {a} : agent'[b] = agent[b]
    /\ agent'[a].pc = "saving" =>
          agent[a].pc = "saving" /\ agent'[a].got = agent[a].got

LEMMA NotSavingSteps ==
    ASSUME TypeOK, HoldInv, NEW a \in Agents,
           \/ Open(a) \/ OpenOffline(a) \/ RequestStop(a) \/ Crash(a) \/ Heartbeat(a)
           \/ ConfigNotTaken(a) \/ PullFails(a) \/ AbandonBatch(a)
           \/ \E S \in SUBSET Runs : PullTasks(a, S) \/ PullUnanswered(a, S)
           \/ \E r \in Runs : Execute(a, r)
    PROVE  NotSaving(a)
<1>1. CASE \/ Open(a) \/ OpenOffline(a) \/ RequestStop(a) \/ Crash(a)
  BY <1>1 DEF Open, OpenOffline, RequestStop, Crash, taskVars, NotSaving, TypeOK,
              Agent, Off
<1>2. CASE \/ Heartbeat(a) \/ ConfigNotTaken(a) \/ PullFails(a) \/ AbandonBatch(a)
  <2>1. PICK pc \in PCs \ {"saving"} : Goto(a, pc)
    BY <1>2 DEF Heartbeat, ConfigNotTaken, PullFails, AbandonBatch, PCs
  <2>2. QED
    BY <1>2, <2>1, GotoDoes
    DEF Heartbeat, ConfigNotTaken, PullFails, AbandonBatch, NotSaving
<1>3. ASSUME NEW S \in SUBSET Runs, PullTasks(a, S) \/ PullUnanswered(a, S)
      PROVE  NotSaving(a)
  <2>1. CASE Goto(a, "beat")
    BY <1>3, <2>1, GotoDoes DEF PullTasks, PullUnanswered, NotSaving, PCs
  <2>2. CASE agent'[a].pc = "exec"
    BY <1>3, <2>2, PullDoes DEF PullEffect, PullTasks, PullUnanswered, NotSaving
  <2>3. CASE agent' = [agent EXCEPT ![a].pc = "exec", ![a].batch = S]
    <3>1. agent' = [agent EXCEPT ![a] = [agent[a] EXCEPT !.pc = "exec", !.batch = S]]
      BY <2>3, Zenon DEF TypeOK
    <3>2. agent'[a] = [agent[a] EXCEPT !.pc = "exec", !.batch = S]
      BY <3>1 DEF TypeOK
    <3>3. agent'[a].pc = "exec"
      BY <3>2 DEF TypeOK, Agent
    <3>4. QED
      BY <2>2, <3>3
  <2>4. QED
    BY <1>3, <2>1, <2>3 DEF PullTasks, PullUnanswered
<1>4. ASSUME NEW r \in Runs, Execute(a, r) PROVE NotSaving(a)
  <2>1. CASE Goto(a, "beat")
    BY <1>4, <2>1, GotoDoes DEF Execute, NotSaving, PCs
  <2>2. CASE agent' = [agent EXCEPT ![a].batch = @ \ {r}]
    BY <1>4, <2>2 DEF Execute, NotSaving, TypeOK, Agent
  <2>3. QED
    BY <1>4, <2>1, <2>2 DEF Execute
<1>5. QED
  BY <1>1, <1>2, <1>3, <1>4

LEMMA CacheStep ==
    ASSUME CacheInv, [Next]_vars
    PROVE  SavingInv' /\ CacheIsVerified'
<1> USE DEF CacheInv, IInv
<1>1. \A w : WasEffective(w) => WasEffective(w)'
  BY EffectiveStays
<1>2. /\ EffectiveOf(configs) \in Versions /\ WasEffective(EffectiveOf(configs))
      /\ Unset \notin Versions /\ Broken \notin Versions /\ Unset # Broken
  BY EffectiveFound, EffectiveNow, TaskAssumption DEF TaskAssumption
<1>3. ASSUME NEW a \in Agents, NotSaving(a) PROVE SavingInv' /\ CacheIsVerified'
  BY <1>1, <1>3 DEF NotSaving, SavingInv, CacheIsVerified
<1>4. CASE UNCHANGED <<trusting, agent, cache, applied, stale>>
  BY <1>1, <1>4 DEF SavingInv, CacheIsVerified
<1>5. ASSUME NEW a \in Agents, ConfigVerified(a) PROVE SavingInv' /\ CacheIsVerified'
  <2> DEFINE to == [agent[a] EXCEPT !.pc = "saving", !.got = EffectiveOf(configs)]
  <2>1. agent' = [agent EXCEPT ![a] = to]
    BY <1>5, Zenon DEF ConfigVerified, TypeOK
  <2>2. to.got = EffectiveOf(configs)
    BY DEF TypeOK, Agent
  <2> HIDE DEF to
  <2>3. /\ a \in trusting /\ cache' = [cache EXCEPT ![a] = Broken]
        /\ UNCHANGED <<trusting, applied, stale>>
    BY <1>5 DEF ConfigVerified
  <2>4. SavingInv'
    BY <1>1, <1>2, <2>1, <2>2, <2>3 DEF SavingInv, TypeOK
  <2>5. CacheIsVerified'
    BY <1>1, <1>2, <2>3 DEF CacheIsVerified, TypeOK
  <2>6. QED
    BY <2>4, <2>5
<1>6. ASSUME NEW a \in Agents, ConfigNotOpened(a) PROVE SavingInv' /\ CacheIsVerified'
  <2>1. /\ agent'[a].pc # "saving"
        /\ \A b \in Agents \ {a} : agent'[b] = agent[b]
    BY <1>6, GotoDoes DEF ConfigNotOpened, PCs
  <2>2. /\ a \in trusting /\ applied' = [applied EXCEPT ![a] = EffectiveOf(configs)]
        /\ stale' = stale \union {a} /\ UNCHANGED <<trusting, cache>>
    BY <1>6 DEF ConfigNotOpened
  <2>3. SavingInv'
    BY <1>1, <2>1, <2>2 DEF SavingInv
  <2>4. CacheIsVerified'
    BY <1>1, <1>2, <2>2 DEF CacheIsVerified, TypeOK
  <2>5. QED
    BY <2>3, <2>4
<1>7. ASSUME NEW a \in Agents, SaveConfig(a) PROVE SavingInv' /\ CacheIsVerified'
  <2>1. /\ agent'[a].pc # "saving"
        /\ \A b \in Agents \ {a} : agent'[b] = agent[b]
    BY <1>7, GotoDoes DEF SaveConfig, PCs
  <2>2. /\ a \in trusting /\ agent[a].got \in Versions
        /\ WasEffective(agent[a].got) /\ cache[a] = Broken
    BY <1>7 DEF SaveConfig, SavingInv
  <2>3. /\ applied' = [applied EXCEPT ![a] = agent[a].got]
        /\ cache' \in {cache, [cache EXCEPT ![a] = agent[a].got]}
        /\ stale' = stale \ {a} /\ UNCHANGED trusting
    BY <1>7 DEF SaveConfig
  <2>4. SavingInv'
    BY <1>1, <2>1, <2>3 DEF SavingInv, TypeOK
  <2>5. CacheIsVerified'
    BY <1>1, <1>2, <2>2, <2>3 DEF CacheIsVerified, TypeOK
  <2>6. QED
    BY <2>4, <2>5
<1>8. QED
  BY <1>3, <1>4, <1>5, <1>6, <1>7, NotSavingSteps
  DEF Next, vars, taskVars, AgentStep, Publish, AddRun

\* What an agent has cached or applied was verified and effective once.
THEOREM CacheSound == Spec => []CacheIsVerified
<1>1. Init => CacheInv
  <2>1. Init => SavingInv /\ CacheIsVerified
    BY TaskAssumption DEF TaskAssumption, Init, SavingInv, CacheIsVerified, Off
  <2>2. QED
    BY <2>1, InitIInv DEF CacheInv
<1>2. CacheInv /\ [Next]_vars => CacheInv'
  BY CacheStep, TypeStep, EffectiveStep, HolderStep, RegistryStep
  DEF CacheInv, IInv, TypeOK
<1>3. CacheInv => CacheIsVerified
  BY DEF CacheInv
<1>4. QED
  BY <1>1, <1>2, <1>3, PTL DEF Spec

-----------------------------------------------------------------------------
(***************************************************************************)
(* The status stream.  While a connection is served from its queue and the *)
(* queue has lost nothing, the device table is what the client knows and   *)
(* what is still to come, drained or queued (KnownInv).  The ring buffer   *)
(* plays no part in it: what it replays is followed by a snapshot.         *)
(***************************************************************************)

\* The devices that the frames of a sequence tell of.
Told(s) == {s[i].dev : i \in DOMAIN s} \ {NoDevice}

\* A frame, whatever its id.
Frame == [id : Nat, dev : Devices \union {NoDevice}]

ConnShape(c) ==
    c = [state |-> c.state, todo |-> c.todo, queue |-> c.queue, dropped |-> c.dropped]

ClientShape(c) ==
    c = [channel |-> c.channel, web |-> c.web, last |-> c.last, known |-> c.known]

StreamTypes ==
    /\ device \in [Devices -> Statuses]
    /\ lastId \in Nat
    /\ ConnShape(conn)
    /\ conn.state \in {"none", "replay", "live"}
    /\ conn.state = "live" => conn.todo \in Seq(Frame)
    /\ conn.queue \in Seq(Frame) /\ Len(conn.queue) <= QueueSize
    /\ conn.dropped \in BOOLEAN
    /\ ClientShape(client)

\* Only a reader that takes itself to be connected is served.
ServedInv == conn.state # "none" => client.channel = "sse"

Sound == conn.state = "live" /\ ~conn.dropped

KnownInv ==
    /\ Sound => client.known \union Told(conn.todo) \union Told(conn.queue) = Rows
    /\ conn.state # "none" /\ ~conn.dropped => Told(conn.queue) \subseteq Rows

StreamIInv == StreamTypes /\ ServedInv /\ KnownInv

-----------------------------------------------------------------------------

\* What deque(maxlen = n) keeps.
LEMMA LastNFacts ==
    ASSUME NEW S, NEW s \in Seq(S), NEW n \in Nat
    PROVE  /\ LastN(s, n) \in Seq(S)
           /\ Len(LastN(s, n)) <= n
           /\ Len(s) <= n => LastN(s, n) = s
           /\ n > 0 /\ s # << >> => LastN(s, n) # << >>
<1>1. Len(s) \in Nat
  OBVIOUS
<1>2. Min({n, Len(s)}) = IF n <= Len(s) THEN n ELSE Len(s)
  BY <1>1 DEF Min
<1> DEFINE m == Min({n, Len(s)})
<1>3. m \in Nat /\ m <= n /\ m <= Len(s) /\ (Len(s) <= n => m = Len(s))
      /\ (n > 0 /\ Len(s) > 0 => m > 0)
  BY <1>1, <1>2
<1>4. LastN(s, n) = SubSeq(s, Len(s) - m + 1, Len(s))
  BY DEF LastN
<1> HIDE DEF m
<1> DEFINE first == Len(s) - m + 1
<1>5. /\ first \in Int /\ first >= 1 /\ Len(s) \in Int
      /\ Len(s) - first + 1 = m /\ (first > Len(s) => m = 0)
      /\ Len(s) <= n => first = 1
  BY <1>1, <1>3
<1>6. \A i \in first .. Len(s) : s[i] \in S
  BY <1>1, <1>5
<1>7. LastN(s, n) = SubSeq(s, first, Len(s))
  BY <1>4
<1> HIDE DEF first
<1>8. /\ SubSeq(s, first, Len(s)) \in Seq(S)
      /\ Len(SubSeq(s, first, Len(s)))
            = IF first <= Len(s) THEN Len(s) - first + 1 ELSE 0
  BY <1>5, <1>6, SubSeqProperties
<1>9. LastN(s, n) \in Seq(S) /\ Len(LastN(s, n)) = m
  BY <1>1, <1>5, <1>7, <1>8
<1>10. Len(s) <= n => LastN(s, n) = s
  BY <1>5, <1>7, SubSeqFull
<1>11. n > 0 /\ s # << >> => LastN(s, n) # << >>
  BY <1>1, <1>3, <1>9
<1>12. QED
  BY <1>3, <1>9, <1>10, <1>11

LEMMA ToldOfAppend ==
    ASSUME NEW s \in Seq(Frame), NEW e \in Frame
    PROVE  Told(Append(s, e)) = Told(s) \union ({e.dev} \ {NoDevice})
<1>1. /\ DOMAIN Append(s, e) = DOMAIN s \union {Len(s) + 1}
      /\ \A i \in DOMAIN s : Append(s, e)[i] = s[i]
      /\ Append(s, e)[Len(s) + 1] = e
  OBVIOUS
<1>2. QED
  BY <1>1 DEF Told

LEMMA ToldOfTail ==
    ASSUME NEW s \in Seq(Frame), s # << >>
    PROVE  /\ Head(s) \in Frame /\ Tail(s) \in Seq(Frame)
           /\ Told(s) = ({Head(s).dev} \ {NoDevice}) \union Told(Tail(s))
<1>1. /\ Len(s) \in Nat \ {0} /\ DOMAIN s = 1..Len(s)
      /\ Head(s) = s[1] /\ Head(s) \in Frame
  OBVIOUS
<1>2. /\ Tail(s) \in Seq(Frame) /\ DOMAIN Tail(s) = 1..Len(s) - 1
      /\ \A i \in 1..Len(s) - 1 : Tail(s)[i] = s[i + 1]
  BY <1>1, HeadTailProperties
<1>3. \A i \in DOMAIN s : i = 1 \/ (i - 1 \in DOMAIN Tail(s) /\ s[i] = Tail(s)[i - 1])
  BY <1>1, <1>2
<1>4. \A i \in DOMAIN Tail(s) : i + 1 \in DOMAIN s
  BY <1>1, <1>2
<1>5. {s[i].dev : i \in DOMAIN s}
        \subseteq {s[1].dev} \union {Tail(s)[i].dev : i \in DOMAIN Tail(s)}
  BY <1>3
<1>6. {Tail(s)[i].dev : i \in DOMAIN Tail(s)} \subseteq {s[i].dev : i \in DOMAIN s}
  BY <1>2, <1>4
<1>7. s[1].dev \in {s[i].dev : i \in DOMAIN s}
  BY <1>1
<1>8. QED
  BY <1>1, <1>2, <1>5, <1>6, <1>7 DEF Told

LEMMA ToldOfNone ==
    /\ Told(<< >>) = {} /\ << >> \in Seq(Frame)
    /\ QueueSize \in Nat /\ Len(<< >>) <= QueueSize
<1>1. QueueSize \in Nat
  BY StreamAssumption DEF StreamAssumption
<1>2. << >> \in Seq(Frame) /\ Len(<< >>) = 0 /\ DOMAIN << >> = {}
  OBVIOUS
<1>3. QED
  BY <1>1, <1>2 DEF Told

\* A new row is the only change of the table.
LEMMA RowsChange ==
    ASSUME StreamTypes, NEW d \in Devices
    PROVE  /\ RegisterNew(d) => Rows' = Rows \union {d} /\ device' \in [Devices -> Statuses]
           /\ Report(d) \/ RevokeDevice(d)
                => Rows' = Rows /\ device' \in [Devices -> Statuses]
BY DEF StreamTypes, RegisterNew, Report, RevokeDevice, SaveDevice, Usable, Rows, Statuses

\* A publish: the queue gains the frame, or it loses one and says so.
LEMMA PublishDoes ==
    ASSUME StreamTypes, NEW dev \in Devices \union {NoDevice}, HubPublish(dev)
    PROVE  /\ lastId' \in Nat /\ ConnShape(conn)' /\ conn'.dropped \in BOOLEAN
           /\ conn'.state = conn.state /\ conn'.todo = conn.todo
           /\ conn'.queue \in Seq(Frame) /\ Len(conn'.queue) <= QueueSize
           /\ conn.state = "live" => conn'.queue # << >>
           /\ conn.state # "none" /\ ~conn'.dropped =>
                 /\ ~conn.dropped
                 /\ Told(conn'.queue) = Told(conn.queue) \union ({dev} \ {NoDevice})
<1> DEFINE e == [id |-> lastId + 1, dev |-> dev]
<1>1. e \in Frame /\ lastId' = lastId + 1 /\ lastId' \in Nat
  BY DEF HubPublish, StreamTypes, Frame
<1>2. conn.queue \in Seq(Frame) /\ Len(conn.queue) \in Nat /\ Len(conn.queue) <= QueueSize
      /\ QueueSize \in Nat /\ QueueSize > 0
  BY StreamAssumption DEF StreamTypes, StreamAssumption
<1>3. CASE conn.state = "none"
  BY <1>1, <1>2, <1>3 DEF HubPublish, StreamTypes, Sound
<1>4. CASE conn.state # "none"
  <2> DEFINE longer == Append(conn.queue, e)
             kept   == LastN(longer, QueueSize)
  <2>1. /\ longer \in Seq(Frame) /\ Len(longer) = Len(conn.queue) + 1 /\ longer # << >>
        /\ Told(longer) = Told(conn.queue) \union ({dev} \ {NoDevice})
    BY <1>1, <1>2, ToldOfAppend
  <2>2. conn' = [conn EXCEPT !.queue = kept, !.dropped = @ \/ Len(conn.queue) = QueueSize]
    BY <1>4 DEF HubPublish
  <2> HIDE DEF longer
  <2>3. /\ kept \in Seq(Frame) /\ Len(kept) <= QueueSize /\ kept # << >>
        /\ Len(longer) <= QueueSize => kept = longer
    BY <1>2, <2>1, LastNFacts
  <2> HIDE DEF kept
  <2>4. /\ ConnShape(conn)' /\ conn'.state = conn.state /\ conn'.todo = conn.todo
        /\ conn'.queue = kept
        /\ conn'.dropped = (conn.dropped \/ Len(conn.queue) = QueueSize)
    BY <2>2 DEF StreamTypes, ConnShape
  <2>5. ~conn'.dropped => ~conn.dropped /\ Len(longer) <= QueueSize
    <3>1. ~conn'.dropped => ~conn.dropped /\ Len(conn.queue) # QueueSize
      BY <2>4, Zenon
    <3>2. QED
      BY <1>2, <2>1, <3>1
  <2>6. QED
    BY <1>1, <2>1, <2>3, <2>4, <2>5 DEF StreamTypes
<1>5. QED
  BY <1>3, <1>4

\* A request: it publishes a new device, an old one, or nothing.
LEMMA PublishKeeps ==
    ASSUME StreamIInv, NEW dev \in Devices \union {NoDevice}, HubPublish(dev),
           device' \in [Devices -> Statuses],
           Rows' = Rows \union ({dev} \ {NoDevice}), UNCHANGED client
    PROVE  StreamIInv'
<1>1. /\ lastId' \in Nat /\ ConnShape(conn)' /\ conn'.dropped \in BOOLEAN
      /\ conn'.state = conn.state /\ conn'.todo = conn.todo
      /\ conn'.queue \in Seq(Frame) /\ Len(conn'.queue) <= QueueSize
      /\ conn.state = "live" => conn'.queue # << >>
      /\ conn.state # "none" /\ ~conn'.dropped =>
            /\ ~conn.dropped
            /\ Told(conn'.queue) = Told(conn.queue) \union ({dev} \ {NoDevice})
  BY PublishDoes DEF StreamIInv
<1>2. StreamTypes'
  BY <1>1 DEF StreamIInv, StreamTypes
<1>3. ServedInv'
  BY <1>1 DEF StreamIInv, ServedInv
<1>4. KnownInv'
  BY <1>1 DEF StreamIInv, KnownInv, Sound
<1>5. QED
  BY <1>2, <1>3, <1>4 DEF StreamIInv

LEMMA ServerKeeps ==
    ASSUME StreamIInv, ServerStep
    PROVE  StreamIInv'
<1>1. UNCHANGED client
  BY DEF ServerStep
<1>2. ASSUME NEW d \in Devices, RegisterAndPublish(d)
      PROVE  StreamIInv'
  <2>1. d # NoDevice
    BY StreamAssumption DEF StreamAssumption
  <2>2. Rows' = Rows \union ({d} \ {NoDevice}) /\ device' \in [Devices -> Statuses]
    BY <1>2, <2>1, RowsChange DEF RegisterAndPublish, StreamIInv
  <2>3. QED
    BY <1>1, <1>2, <2>2, PublishKeeps DEF RegisterAndPublish
<1>3. ASSUME NEW d \in Devices, ReportAndPublish(d)
      PROVE  StreamIInv'
  <2>1. Rows' = Rows \union ({NoDevice} \ {NoDevice}) /\ device' \in [Devices -> Statuses]
    BY <1>3, RowsChange DEF ReportAndPublish, StreamIInv
  <2>2. QED
    BY <1>1, <1>3, <2>1, PublishKeeps DEF ReportAndPublish
<1>4. CASE RestartControlPlane
  <2>1. /\ ConnShape(conn)' /\ conn' = NoConn /\ conn'.state = "none"
        /\ conn'.queue = << >> /\ conn'.dropped = FALSE
        /\ lastId' = 0 /\ device' = device
    BY <1>4 DEF RestartControlPlane, NoConn, ConnShape, registryVars
  <2>2. StreamTypes'
    BY <1>1, <2>1, ToldOfNone DEF StreamIInv, StreamTypes
  <2>3. ServedInv' /\ KnownInv'
    BY <2>1 DEF ServedInv, KnownInv, Sound
  <2>4. QED
    BY <2>2, <2>3 DEF StreamIInv
<1>5. ASSUME \/ \E d \in Devices : RegisterOnly(d)
             \/ Operators /\ UNCHANGED <<lastId, buffer, conn>>
      PROVE  StreamIInv'
  <2>1. Rows' = Rows /\ device' \in [Devices -> Statuses] /\ UNCHANGED <<lastId, conn>>
    <3>1. CASE \E d \in Devices : RegisterOnly(d)
      BY <3>1 DEF RegisterOnly, RegisterAgain, RegisterDenied, registryVars, Rows,
                  StreamIInv, StreamTypes
    <3>2. CASE \E d \in Devices : RevokeDevice(d) /\ UNCHANGED <<lastId, buffer, conn>>
      BY <3>2, RowsChange DEF StreamIInv
    <3>3. CASE (NewDay \/ RevokeLicense) /\ UNCHANGED <<lastId, buffer, conn>>
      BY <3>3 DEF NewDay, RevokeLicense, Rows, StreamIInv, StreamTypes
    <3>4. QED
      BY <1>5, <3>1, <3>2, <3>3 DEF Operators
  <2>2. QED
    BY <1>1, <2>1 DEF StreamIInv, StreamTypes, ServedInv, KnownInv, Sound
<1>6. QED
  BY <1>2, <1>3, <1>4, <1>5 DEF ServerStep

-----------------------------------------------------------------------------

\* A snapshot on a connection with nothing left makes everything known.
LEMMA SnapshotSettles ==
    ASSUME StreamIInv, NEW id, Snapshot(id, "sse"),
           ConnShape(conn)', conn'.state = "live", conn'.todo = << >>,
           conn'.queue \in Seq(Frame), Len(conn'.queue) <= QueueSize,
           conn'.dropped \in BOOLEAN, ~conn'.dropped => Told(conn'.queue) \subseteq Rows,
           UNCHANGED <<registryVars, lastId>>
    PROVE  StreamIInv'
<1>1. Rows' = Rows /\ device' = device
  BY DEF Rows, registryVars
<1>2. /\ ClientShape(client)' /\ client'.channel = "sse" /\ client'.known = Rows
  BY DEF Snapshot, StreamIInv, StreamTypes, ClientShape
<1>3. StreamTypes'
  <2>1. conn'.todo \in Seq(Frame)
    OBVIOUS
  <2>2. QED
    BY <1>1, <1>2, <2>1 DEF StreamIInv, StreamTypes
<1>4. ServedInv'
  BY <1>1, <1>2 DEF ServedInv
<1>5. KnownInv'
  BY <1>1, <1>2, ToldOfNone DEF KnownInv, Sound
<1>6. QED
  BY <1>3, <1>4, <1>5 DEF StreamIInv

\* No connection: only the shape of the client matters.
LEMMA Unserved ==
    ASSUME StreamIInv, ClientShape(client)', conn' = NoConn,
           UNCHANGED <<registryVars, lastId>>
    PROVE  StreamIInv'
<1>1. /\ ConnShape(conn)' /\ conn'.state = "none" /\ conn'.dropped = FALSE
      /\ conn'.queue = << >> /\ device' = device
  BY DEF NoConn, ConnShape, registryVars
<1>2. StreamTypes'
  BY <1>1, ToldOfNone DEF StreamIInv, StreamTypes
<1>3. ServedInv' /\ KnownInv'
  BY <1>1 DEF ServedInv, KnownInv, Sound
<1>4. QED
  BY <1>2, <1>3 DEF StreamIInv

\* A reader that is not served may become what it likes.
LEMMA StaysUnserved ==
    ASSUME StreamIInv, client.channel # "sse", ClientShape(client)',
           UNCHANGED <<registryVars, lastId, conn>>
    PROVE  StreamIInv'
<1>1. conn.state = "none" /\ device' = device
  BY DEF StreamIInv, ServedInv, registryVars
<1>2. StreamTypes'
  BY <1>1 DEF StreamIInv, StreamTypes
<1>3. ServedInv' /\ KnownInv'
  BY <1>1 DEF ServedInv, KnownInv, Sound
<1>4. QED
  BY <1>2, <1>3 DEF StreamIInv

LEMMA Opens ==
    ASSUME StreamIInv, NEW from, StreamOpens(from)
    PROVE  StreamIInv'
<1>1. client.channel = "connecting" /\ UNCHANGED <<registryVars, lastId>>
  BY DEF StreamOpens
<1>2. device' = device
  BY <1>1 DEF registryVars
<1>3. CASE EventsSince(from) = << >>
  <2>1. /\ ConnShape(conn)' /\ conn'.state = "live" /\ conn'.todo = << >>
        /\ conn'.queue = << >> /\ conn'.dropped = FALSE
        /\ Snapshot(LatestId, "sse")
    BY <1>3 DEF StreamOpens, NoConn, ConnShape
  <2>2. conn'.queue \in Seq(Frame) /\ Len(conn'.queue) <= QueueSize
        /\ Told(conn'.queue) \subseteq Rows
    BY <2>1, ToldOfNone
  <2>3. QED
    BY <1>1, <2>1, <2>2, SnapshotSettles
<1>4. CASE EventsSince(from) # << >>
  <2>1. /\ ConnShape(conn)' /\ conn'.state = "replay"
        /\ conn'.queue = << >> /\ conn'.dropped = FALSE
    BY <1>4 DEF StreamOpens, NoConn, ConnShape
  <2>2. ClientShape(client)' /\ client'.channel = "sse"
    BY <1>4 DEF StreamOpens, StreamIInv, StreamTypes, ClientShape
  <2>3. StreamTypes'
    BY <1>1, <1>2, <2>1, <2>2, ToldOfNone DEF StreamIInv, StreamTypes
  <2>4. ServedInv' /\ KnownInv'
    BY <2>1, <2>2, ToldOfNone DEF ServedInv, KnownInv, Sound
  <2>5. QED
    BY <2>3, <2>4 DEF StreamIInv
<1>5. QED
  BY <1>3, <1>4

LEMMA ReaderKeeps ==
    ASSUME StreamIInv, ClientStep
    PROVE  StreamIInv'
<1>1. ASSUME NEW from, NEW to, Become(from, to)
      PROVE  StreamIInv'
  <2>1. ClientShape(client)'
    BY <1>1 DEF Become, StreamIInv, StreamTypes, ClientShape
  <2>2. QED
    BY <1>1, <2>1, Unserved DEF Become
<1>2. CASE StopWorker
  <2>1. ClientShape(client)'
    BY <1>2 DEF StopWorker, NoClient, ClientShape
  <2>2. QED
    BY <1>2, <2>1, Unserved DEF StopWorker
<1>3. CASE StartWorker \/ StartHook \/ Poll
  <2>1. /\ client.channel # "sse" /\ ClientShape(client)'
        /\ UNCHANGED <<registryVars, lastId, conn>>
    BY <1>3 DEF StartWorker, StartHook, Poll, Snapshot, StreamIInv, StreamTypes, ClientShape
  <2>2. QED
    BY <2>1, StaysUnserved
<1>4. ASSUME NEW from, StreamOpens(from)
      PROVE  StreamIInv'
  BY <1>4, Opens
<1>5. QED
  BY <1>1, <1>2, <1>3, <1>4
  DEF ClientStep, StreamEnds, PollFails, RetryStream, RefreshPage

-----------------------------------------------------------------------------

\* A frame of the live stream moves from what is to come to what is known.
LEMMA EventKeeps ==
    ASSUME StreamIInv, SendEvent
    PROVE  StreamIInv'
<1> DEFINE pending == IF conn.todo = << >> THEN conn.queue ELSE conn.todo
           e == Head(pending)
<1>1. /\ conn.state = "live" /\ pending # << >> /\ EventFrame(e)
      /\ conn' = [conn EXCEPT !.todo = Tail(pending),
                              !.queue = IF conn.todo = << >> THEN << >> ELSE @]
      /\ UNCHANGED <<registryVars, lastId>>
  BY DEF SendEvent
<1>2. /\ conn.todo \in Seq(Frame) /\ conn.queue \in Seq(Frame)
      /\ pending \in Seq(Frame)
  BY <1>1 DEF StreamIInv, StreamTypes
<1>3. /\ Told(conn.todo) \union Told(conn.queue)
           = Told(pending) \union (IF conn.todo = << >> THEN {} ELSE Told(conn.queue))
  BY ToldOfNone
<1> HIDE DEF pending
<1>4. /\ e \in Frame /\ Tail(pending) \in Seq(Frame)
      /\ Told(pending) = ({e.dev} \ {NoDevice}) \union Told(Tail(pending))
  BY <1>1, <1>2, ToldOfTail
<1>5. /\ ConnShape(conn)' /\ conn'.state = "live" /\ conn'.todo = Tail(pending)
      /\ conn'.queue = IF conn.todo = << >> THEN << >> ELSE conn.queue
      /\ conn'.dropped = conn.dropped
  BY <1>1 DEF StreamIInv, StreamTypes, ConnShape
<1> HIDE DEF e
<1>6. /\ ClientShape(client)' /\ client'.channel = client.channel
      /\ client'.known = client.known \union ({e.dev} \ {NoDevice})
  BY <1>1 DEF EventFrame, StreamIInv, StreamTypes, ClientShape
<1>7. Rows' = Rows /\ device' = device
  BY <1>1 DEF Rows, registryVars
<1>8. StreamTypes'
  <2>1. conn'.queue \in Seq(Frame) /\ Len(conn'.queue) <= QueueSize
    BY <1>5, StreamAssumption DEF StreamIInv, StreamTypes, StreamAssumption
  <2>2. QED
    BY <1>1, <1>4, <1>5, <1>6, <1>7, <2>1 DEF StreamIInv, StreamTypes
<1>9. ServedInv'
  BY <1>1, <1>6 DEF StreamIInv, ServedInv
<1>10. KnownInv'
  <2>1. Told(conn'.queue) = IF conn.todo = << >> THEN {} ELSE Told(conn.queue)
    BY <1>5, ToldOfNone
  <2>2. Sound' => client.known \union Told(conn.todo) \union Told(conn.queue) = Rows
    BY <1>1, <1>5 DEF StreamIInv, KnownInv, Sound
  <2>3. Sound' => client'.known \union Told(conn'.todo) \union Told(conn'.queue) = Rows
    <3>1. CASE conn.todo = << >>
      BY <1>3, <1>4, <1>5, <1>6, <2>1, <2>2, <3>1
    <3>2. CASE conn.todo # << >>
      BY <1>3, <1>4, <1>5, <1>6, <2>1, <2>2, <3>2
    <3>3. QED
      BY <3>1, <3>2
  <2>4. ~conn'.dropped => Told(conn'.queue) \subseteq Rows
    BY <1>1, <1>5, <2>1 DEF StreamIInv, KnownInv
  <2>5. QED
    BY <1>7, <2>3, <2>4 DEF KnownInv
<1>11. QED
  BY <1>8, <1>9, <1>10 DEF StreamIInv

\* During a replay nothing is claimed but that queued devices are in the table.
LEMMA ReplayKeeps ==
    ASSUME StreamIInv, SendReplayed
    PROVE  StreamIInv'
<1>1. /\ conn.state = "replay" /\ EventFrame(Head(conn.todo))
      /\ conn' = [conn EXCEPT !.todo = Tail(@)]
      /\ UNCHANGED <<registryVars, lastId>>
  BY DEF SendReplayed
<1>2. /\ ConnShape(conn)' /\ conn'.state = "replay" /\ conn'.queue = conn.queue
      /\ conn'.dropped = conn.dropped
  BY <1>1 DEF StreamIInv, StreamTypes, ConnShape
<1>3. ClientShape(client)' /\ client'.channel = client.channel
  BY <1>1 DEF EventFrame, StreamIInv, StreamTypes, ClientShape
<1>4. StreamTypes'
  <2>1. device' = device /\ lastId' = lastId
    BY <1>1 DEF registryVars
  <2>2. QED
    BY <1>1, <1>2, <1>3, <2>1 DEF StreamIInv, StreamTypes
<1>5. ServedInv'
  BY <1>1, <1>3 DEF StreamIInv, ServedInv
<1>6. ~Sound' /\ Rows' = Rows
  BY <1>1, <1>2 DEF Sound, Rows, registryVars
<1>7. KnownInv'
  BY <1>1, <1>2, <1>6 DEF StreamIInv, KnownInv
<1>8. QED
  BY <1>4, <1>5, <1>7 DEF StreamIInv

LEMMA ReplayEnds ==
    ASSUME StreamIInv, SendSnapshot
    PROVE  StreamIInv'
<1>1. /\ conn.state = "replay" /\ conn.todo = << >>
      /\ Snapshot(LatestId, "sse") /\ conn' = [conn EXCEPT !.state = "live"]
      /\ UNCHANGED <<registryVars, lastId>>
  BY DEF SendSnapshot
<1>2. /\ ConnShape(conn)' /\ conn'.state = "live" /\ conn'.todo = << >>
      /\ conn'.queue = conn.queue /\ conn'.dropped = conn.dropped
  BY <1>1 DEF StreamIInv, StreamTypes, ConnShape
<1>3. /\ conn'.queue \in Seq(Frame) /\ Len(conn'.queue) <= QueueSize
      /\ conn'.dropped \in BOOLEAN
      /\ ~conn'.dropped => Told(conn'.queue) \subseteq Rows
  BY <1>1, <1>2 DEF StreamIInv, StreamTypes, KnownInv
<1>4. QED
  BY <1>1, <1>2, <1>3, SnapshotSettles

LEMMA StreamStep ==
    ASSUME StreamIInv, [StreamNext]_varsOfStream
    PROVE  StreamIInv'
<1>1. CASE UNCHANGED varsOfStream
  <2>1. UNCHANGED <<device, lastId, conn, client>> /\ Rows' = Rows
    BY <1>1 DEF varsOfStream, registryVars, streamVars, Rows
  <2>2. StreamTypes' /\ ServedInv'
    BY <2>1 DEF StreamIInv, StreamTypes, ServedInv
  <2>3. KnownInv'
    BY <2>1 DEF StreamIInv, KnownInv, Sound
  <2>4. QED
    BY <2>2, <2>3 DEF StreamIInv
<1>2. QED
  BY <1>1, ServerKeeps, ReaderKeeps, EventKeeps, ReplayKeeps, ReplayEnds
  DEF StreamNext, SendStep

\* The invariant of the stream holds whatever is published, replayed, restarted
\* or closed.
THEOREM StreamInvariance == StreamSpec => []StreamIInv
<1>1. StreamInit => StreamIInv
  <2> SUFFICES ASSUME StreamInit PROVE StreamIInv
    OBVIOUS
  <2>1. /\ conn = NoConn /\ ConnShape(conn) /\ conn.state = "none"
        /\ conn.queue = << >> /\ conn.dropped = FALSE
    BY DEF StreamInit, NoConn, ConnShape
  <2>2. ClientShape(client)
    BY DEF StreamInit, NoClient, ClientShape
  <2>3. device \in [Devices -> Statuses] /\ lastId \in Nat
    BY DEF StreamInit, RegistryInit, Statuses
  <2>4. StreamTypes
    BY <2>1, <2>2, <2>3, ToldOfNone DEF StreamTypes
  <2>5. ServedInv /\ KnownInv
    BY <2>1 DEF ServedInv, KnownInv, Sound
  <2>6. QED
    BY <2>4, <2>5 DEF StreamIInv
<1>2. StreamIInv /\ [StreamNext]_varsOfStream => StreamIInv'
  BY StreamStep
<1>3. QED
  BY <1>1, <1>2, PTL DEF StreamSpec

\* For any number of devices and any sizes of buffer and queue: a client to which
\* nothing is left to be sent, and whose queue lost nothing, knows every device.
THEOREM StreamComplete == StreamSpec => []StreamKeepsUp
<1>1. StreamIInv => StreamKeepsUp
  <2> SUFFICES ASSUME StreamIInv, Settled, ~conn.dropped PROVE client.known = Rows
    BY DEF StreamKeepsUp
  <2>1. Told(conn.todo) = {} /\ Told(conn.queue) = {}
    BY ToldOfNone DEF Settled
  <2>2. QED
    BY <2>1 DEF StreamIInv, KnownInv, Sound, Settled
<1>2. QED
  BY <1>1, StreamInvariance, PTL
=============================================================================
