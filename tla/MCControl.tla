---------------------------- MODULE MCControl ----------------------------
(* The control plane's two protocols with the workbench share the device    *)
(* registry and nothing else, so a behaviour of this run follows one of     *)
(* them: `part` says which.                                                 *)
EXTENDS TaskControl, StatusStream

VARIABLE part

mcVars == <<vars, streamVars, part>>

MCEffectiveAt == [v \in Versions |-> v]

MCInit ==
    /\ part \in {"tasks", "stream"}
    /\ Init
    /\ StreamInit
    /\ run[1].status = "CREATED"
    /\ part = "stream" => trusting = {}

MCNext ==
    \/ part = "tasks"  /\ Next       /\ UNCHANGED <<streamVars, part>>
    \/ part = "stream" /\ StreamNext /\ UNCHANGED <<taskVars, part>>

MCFairness ==
    /\ \A a \in Agents :
          /\ WF_mcVars(part = "tasks" /\ AgentStep(a) /\ UNCHANGED <<streamVars, part>>)
          /\ SF_mcVars(part = "tasks" /\ Pull(a) /\ UNCHANGED <<streamVars, part>>)
    /\ WF_mcVars(part = "stream" /\ SendStep /\ UNCHANGED <<taskVars, part>>)
    /\ WF_mcVars(part = "stream" /\ NoticeEnd /\ UNCHANGED <<taskVars, part>>)

MCSpec == MCInit /\ [][MCNext]_mcVars /\ MCFairness

=============================================================================
