---------------------------- MODULE TaskControl ----------------------------
(***************************************************************************)
(* The agent of the workbench (AgentWorker) against the control plane's    *)
(* heartbeat, configuration and task services.                             *)
(*                                                                         *)
(* Each cycle of an agent is a heartbeat, a configuration and a pull of    *)
(* task runs, in that order and whether or not the one before succeeded;   *)
(* stop is looked at after each.  A call of HttpApiClient either fails     *)
(* before it reaches the control plane, or is handled there in one step    *)
(* and its answer arrives or is lost.  Waits are left out.                 *)
(*                                                                         *)
(* There is no route on which a device reports a run, so QUEUED is the     *)
(* last status a run reaches.  An agent's calls do not ask for a licence   *)
(* once its device is registered, so the licence stays valid here and     *)
(* only workbenches register; StatusStream has the rest.                   *)
(***************************************************************************)
EXTENDS DeviceRegistry, Sequences, FiniteSetsExt

CONSTANTS
    Agents,       \* the devices that are workbenches
    Nobody,       \* no device
    Runs,         \* task runs, numbered in the order of scheduled_at
    PullLimit,    \* task_pull_limit
    Versions,     \* configuration versions
    EffectiveAt,  \* the effective_at of each version
    SeedVersion,  \* the version seed_demo publishes
    Trusting,     \* agents that may have the control plane's signing secret
    Mixed,        \* bound: FALSE keeps new runs to behaviours in which no agent
                  \* has the secret, and new versions to those in which one has
    Unset,        \* no version
    Broken        \* a cache file that was cut short

ASSUME TaskAssumption ==
    /\ Agents \subseteq Devices
    /\ Nobody \notin Devices
    /\ Runs \subseteq Nat /\ IsFiniteSet(Runs)
    /\ PullLimit \in Nat \ {0}
    /\ EffectiveAt \in [Versions -> Nat]
    /\ SeedVersion \in Versions
    /\ Trusting \subseteq Agents
    /\ Mixed \in BOOLEAN
    /\ {Unset, Broken} \cap Versions = {} /\ Unset # Broken

VARIABLES
    run,        \* task_run
    configs,    \* config_version rows in the order of created_at
    trusting,   \* agents that have the secret; read once, from the environment
    agent,      \* each AgentWorker
    cache,      \* its configuration file
    applied,    \* the version its config_applied last named
    lost,       \* history: runs handed out and then dropped
    times,      \* history: how often a run was carried out
    stale       \* history: agents whose last save could not open the file

taskVars == <<run, configs, trusting, agent, cache, applied, lost, times,
              stale>>
vars     == <<registryVars, taskVars>>

Run == [status : {"ABSENT", "CREATED", "QUEUED"},
        device : Agents \union {Nobody}]

PCs == {"off", "beat", "config", "saving", "pull", "exec"}

Agent == [pc : PCs, stop : BOOLEAN,
          got   : Versions \union {Unset},    \* verified, not yet saved
          batch : SUBSET Runs]                \* pulled, not yet carried out

TypeOK ==
    /\ RegistryTypeOK
    /\ run \in [Runs -> Run]
    /\ configs \in Seq(Versions)
    /\ agent \in [Agents -> Agent]
    /\ cache \in [Agents -> Versions \union {Unset, Broken}]
    /\ applied \in [Agents -> Versions \union {Unset}]
    /\ lost \in SUBSET Runs
    /\ times \in [Runs -> Nat]
    /\ trusting \in SUBSET Trusting
    /\ stale \in SUBSET Agents

Off == [pc |-> "off", stop |-> FALSE, got |-> Unset, batch |-> {}]

\* seed_demo: one configuration is published, and the first task has a run.
Init ==
    /\ RegistryInit
    /\ \E seeded \in Runs : run = [r \in Runs |->
          [status |-> IF r = seeded THEN "CREATED" ELSE "ABSENT",
           device |-> Nobody]]
    /\ configs = <<SeedVersion>>
    /\ agent = [a \in Agents |-> Off]
    /\ cache = [a \in Agents |-> Unset]
    /\ applied = [a \in Agents |-> Unset]
    /\ lost = {}
    /\ times = [r \in Runs |-> 0]
    /\ trusting \in SUBSET Trusting
    /\ stale = {}

-----------------------------------------------------------------------------
(***************************************************************************)
(* Starting and stopping                                                   *)
(***************************************************************************)

\* Where an agent goes after a call: it leaves its loop if told to stop.
Goto(a, pc) ==
    agent' = [agent EXCEPT ![a] =
                IF agent[a].stop THEN Off ELSE [Off EXCEPT !.pc = pc]]

\* Login, registration and start of the thread; the UI does them in a row.
Open(a) ==
    /\ agent[a].pc = "off"
    /\ RegisterNew(a) \/ RegisterAgain(a)
    /\ agent' = [agent EXCEPT ![a] = [Off EXCEPT !.pc = "beat"]]
    /\ UNCHANGED <<run, configs, trusting, cache, applied, lost, times, stale>>

\* The registration is refused, or its answer lost: no agent is started.
OpenOffline(a) ==
    /\ agent[a].pc = "off"
    /\ RegisterNew(a) \/ RegisterDenied(a)
    /\ UNCHANGED taskVars

\* Quit in the tray menu.
RequestStop(a) ==
    /\ agent[a].pc # "off" /\ ~agent[a].stop
    /\ agent' = [agent EXCEPT ![a].stop = TRUE]
    /\ UNCHANGED <<registryVars, run, configs, trusting, cache, applied, lost,
                   times, stale>>

\* The process ends: a crash, or an agent that outlasted the wait at exit.
Crash(a) ==
    /\ agent[a].pc # "off"
    /\ agent' = [agent EXCEPT ![a] = Off]
    /\ lost' = lost \union agent[a].batch
    /\ UNCHANGED <<registryVars, run, configs, trusting, cache, applied, times,
                   stale>>

-----------------------------------------------------------------------------
(***************************************************************************)
(* Heartbeat and configuration                                             *)
(***************************************************************************)

Heartbeat(a) ==
    /\ agent[a].pc = "beat"
    /\ Report(a) \/ UNCHANGED registryVars    \* accepted, or refused or failed
    /\ Goto(a, "config")
    /\ UNCHANGED <<run, configs, trusting, cache, applied, lost, times, stale>>

\* get_effective_config: the latest effective_at, then the latest row.  A
\* time in the future counts as any other.
IsEffective(rows, i) ==
    \A j \in DOMAIN rows :
        \/ EffectiveAt[rows[i]] > EffectiveAt[rows[j]]
        \/ EffectiveAt[rows[i]] = EffectiveAt[rows[j]] /\ i >= j

EffectiveOf(rows) == rows[CHOOSE i \in DOMAIN rows : IsEffective(rows, i)]

\* Mutation: without a configuration the cycle starts anew.
SkipTasks(a) ==
    /\ agent[a].pc = "config"
    /\ Goto(a, "beat")
    /\ UNCHANGED <<registryVars, run, configs, trusting, cache, applied, lost,
                   times, stale>>

\* The call fails or the signature does not verify: the old file is kept.
ConfigNotTaken(a) ==
    /\ agent[a].pc = "config"
    /\ Goto(a, "pull")
    /\ UNCHANGED <<registryVars, run, configs, trusting, cache, applied, lost,
                   times, stale>>

\* It verifies: write_text empties the file and starts to fill it.
ConfigVerified(a) ==
    /\ agent[a].pc = "config" /\ ~agent[a].stop
    /\ a \in trusting
    /\ agent' = [agent EXCEPT ![a].pc = "saving",
                              ![a].got = EffectiveOf(configs)]
    /\ cache' = [cache EXCEPT ![a] = Broken]
    /\ UNCHANGED <<registryVars, run, configs, trusting, applied, lost,
                   times, stale>>

\* It verifies, but the file cannot be opened: it keeps what it held.
ConfigNotOpened(a) ==
    /\ agent[a].pc = "config" /\ ~agent[a].stop
    /\ a \in trusting
    /\ applied' = [applied EXCEPT ![a] = EffectiveOf(configs)]
    /\ stale' = stale \union {a}
    /\ Goto(a, "pull")
    /\ UNCHANGED <<registryVars, run, configs, trusting, cache, lost, times>>

\* Mutation: what is cached is what the control plane publishes by now.
SaveLatest(a) ==
    /\ agent[a].pc = "saving"
    /\ \/ cache' = [cache EXCEPT ![a] = EffectiveOf(configs)]
       \/ UNCHANGED cache
    /\ stale' = stale \ {a}
    /\ applied' = [applied EXCEPT ![a] = agent[a].got]
    /\ Goto(a, "pull")
    /\ UNCHANGED <<registryVars, run, configs, trusting, lost, times>>

\* The file is filled, or an OSError leaves it cut short; config_applied is
\* emitted either way.
SaveConfig(a) ==
    /\ agent[a].pc = "saving"
    /\ \/ cache' = [cache EXCEPT ![a] = agent[a].got]
       \/ UNCHANGED cache
    /\ stale' = stale \ {a}
    /\ applied' = [applied EXCEPT ![a] = agent[a].got]
    /\ Goto(a, "pull")
    /\ UNCHANGED <<registryVars, run, configs, trusting, lost, times>>

\* A version is published once; it may take effect before an older one.
Publish(v) ==
    /\ Mixed \/ trusting # {}
    /\ \A i \in DOMAIN configs : configs[i] # v
    /\ configs' = Append(configs, v)
    /\ UNCHANGED <<registryVars, run, trusting, agent, cache, applied, lost,
                   times, stale>>

-----------------------------------------------------------------------------
(***************************************************************************)
(* Tasks                                                                   *)
(***************************************************************************)

\* External: a run of a task is scheduled, for one device or for any.
AddRun(r, d) ==
    /\ Mixed \/ trusting = {}
    /\ run[r].status = "ABSENT"
    /\ run' = [run EXCEPT ![r] = [status |-> "CREATED", device |-> d]]
    /\ UNCHANGED <<registryVars, configs, trusting, agent, cache, applied,
                   lost, times, stale>>

\* Mutation: runs assigned to another device are candidates too.
AnyCreated(a) == {r \in Runs : run[r].status = "CREATED"}

\* The candidates of pull_runs_for_device.
Candidates(a) ==
    {r \in Runs : run[r].status = "CREATED" /\ run[r].device \in {Nobody, a}}

\* Its first `limit` of them, by scheduled_at.
IsPull(a, S) ==
    /\ S \subseteq Candidates(a)
    /\ \A r \in S, q \in Candidates(a) \ S : r < q
    /\ Cardinality(S) <= PullLimit
    /\ S # Candidates(a) => Cardinality(S) = PullLimit

\* Mutation: the rows are read but not locked.
PullOnly(a, S) == Usable(a) /\ IsPull(a, S) /\ UNCHANGED run

\* The device is looked up, the runs are locked as QUEUED.
PullRuns(a, S) ==
    /\ Usable(a) /\ IsPull(a, S)
    /\ run' = [r \in Runs |-> IF r \in S THEN [status |-> "QUEUED", device |-> a]
                                         ELSE run[r]]

\* The answer arrives.  An agent told to stop meanwhile drops it.
PullTasks(a, S) ==
    /\ agent[a].pc = "pull"
    /\ PullRuns(a, S)
    /\ IF agent[a].stop \/ S = {}
         THEN Goto(a, "beat") /\ lost' = lost \union S
         ELSE /\ agent' = [agent EXCEPT ![a].pc = "exec", ![a].batch = S]
              /\ UNCHANGED lost
    /\ UNCHANGED <<registryVars, configs, trusting, cache, applied, times,
                   stale>>

\* The answer is lost.
PullUnanswered(a, S) ==
    /\ agent[a].pc = "pull"
    /\ PullRuns(a, S)
    /\ lost' = lost \union S
    /\ Goto(a, "beat")
    /\ UNCHANGED <<registryVars, configs, trusting, cache, applied, times,
                   stale>>

\* The call fails or is refused.
PullFails(a) ==
    /\ agent[a].pc = "pull"
    /\ Goto(a, "beat")
    /\ UNCHANGED <<registryVars, run, configs, trusting, cache, applied, lost,
                   times, stale>>

\* _execute_task, a placeholder that cannot fail: one run of the batch.
Execute(a, r) ==
    /\ agent[a].pc = "exec" /\ ~agent[a].stop
    /\ r \in agent[a].batch /\ \A q \in agent[a].batch : r <= q
    /\ times' = [times EXCEPT ![r] = @ + 1]
    /\ IF agent[a].batch = {r}
         THEN Goto(a, "beat")
         ELSE agent' = [agent EXCEPT ![a].batch = @ \ {r}]
    /\ UNCHANGED <<registryVars, run, configs, trusting, cache, applied,
                   lost, stale>>

\* Told to stop, it leaves the rest of its batch.
AbandonBatch(a) ==
    /\ agent[a].pc = "exec" /\ agent[a].stop
    /\ lost' = lost \union agent[a].batch
    /\ Goto(a, "beat")
    /\ UNCHANGED <<registryVars, run, configs, trusting, cache, applied,
                   times, stale>>

-----------------------------------------------------------------------------

Pull(a) == \E S \in SUBSET Runs : PullTasks(a, S)

AgentStep(a) ==
    \/ Heartbeat(a)
    \/ ConfigNotTaken(a) \/ ConfigVerified(a) \/ ConfigNotOpened(a)
    \/ SaveConfig(a)
    \/ \E S \in SUBSET Runs : PullTasks(a, S) \/ PullUnanswered(a, S)
    \/ PullFails(a)
    \/ \E r \in Runs : Execute(a, r)
    \/ AbandonBatch(a)

Next ==
    \/ \E a \in Agents :
          \/ Open(a) \/ OpenOffline(a) \/ RequestStop(a) \/ Crash(a)
          \/ AgentStep(a)
    \/ \E v \in Versions : Publish(v)
    \/ \E r \in Runs, d \in Agents \union {Nobody} : AddRun(r, d)
    \/ \E a \in Agents : RevokeDevice(a) /\ UNCHANGED taskVars

Spec == Init /\ [][Next]_vars

\* The agent's thread runs on (waits end and calls time out), and a control
\* plane that is asked again and again answers now and then.
AgentFairness ==
    \A a \in Agents : WF_vars(AgentStep(a)) /\ SF_vars(Pull(a))

FairSpec == Spec /\ AgentFairness

-----------------------------------------------------------------------------
(***************************************************************************)
(* Properties                                                              *)
(***************************************************************************)

\* A QUEUED run that was neither carried out nor dropped is in the batch of
\* the agent it is queued for, and of no other: no run is forgotten without
\* a lost answer, a stop or a crash.
HeldByItsAgent ==
    \A r \in Runs :
        /\ run[r].status = "QUEUED" /\ r \notin lost /\ times[r] = 0 =>
              run[r].device \in Agents /\ r \in agent[run[r].device].batch
        /\ \A a \in Agents : r \in agent[a].batch =>
              /\ run[r].status = "QUEUED" /\ run[r].device = a
              /\ r \notin lost /\ times[r] = 0

HandoutState ==
    [r \in Runs |-> IF run[r].status = "ABSENT"  THEN "absent"
               ELSE IF run[r].status = "CREATED" THEN "open"
               ELSE IF times[r] > 0              THEN "done"
               ELSE IF r \in lost                THEN "lost" ELSE "held"]

Handout == INSTANCE TaskHandout WITH
    state  <- HandoutState,
    owner  <- [r \in Runs |-> run[r].device],
    barred <- {a \in Agents : device[a] = "REVOKED"}

\* Pulling, answers lost and agents that stop or crash implement the
\* promise of the task service: at most one device, the assigned one, never
\* one whose revocation came first, and at most once.
HandoutSpec == Handout!HandoutSpec

WasEffective(v) ==
    \E n \in DOMAIN configs : v = EffectiveOf(SubSeq(configs, 1, n))

\* A cached or applied version was verified by an agent with the right
\* secret and was the effective one at some time; a whole file differs from
\* what config_applied named only while the file could not be opened.
CacheIsVerified ==
    \A a \in Agents :
        /\ cache[a] \in Versions => a \in trusting /\ WasEffective(cache[a])
        /\ applied[a] \in Versions => a \in trusting /\ WasEffective(applied[a])
        /\ cache[a] \notin {Broken, applied[a]} => a \in stale

\* An open, registered agent does not leave runs that it may take waiting
\* for ever.
RunIsTaken ==
    \A a \in Agents :
        Candidates(a) # {}
            ~> \/ Candidates(a) = {}
               \/ agent[a].pc = "off" \/ agent[a].stop \/ ~Usable(a)
=============================================================================
