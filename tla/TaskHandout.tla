---------------------------- MODULE TaskHandout ----------------------------
(***************************************************************************)
(* What the route /tasks/pull promises of a run (it is locked and not      *)
(* handed out again): it goes to at most one device, the one it was        *)
(* assigned to if it was assigned, never to a barred one, and is carried   *)
(* out at most once.  It may be lost on the way, and is then lost for good.*)
(***************************************************************************)
EXTENDS Naturals

CONSTANTS Runs, Agents, Nobody

VARIABLES
    state,    \* of each run
    owner,    \* the device it is assigned or handed to, or Nobody
    times,    \* how often it was carried out
    barred    \* devices that may be handed nothing more

handoutVars == <<state, owner, times, barred>>

HandoutInit ==
    /\ state \in [Runs -> {"absent", "open"}]
    /\ owner = [r \in Runs |-> Nobody]
    /\ times = [r \in Runs |-> 0]
    /\ barred = {}

Create(r, a) ==
    /\ state[r] = "absent"
    /\ state' = [state EXCEPT ![r] = "open"]
    /\ owner' = [owner EXCEPT ![r] = a]
    /\ UNCHANGED <<times, barred>>

\* A set of open runs goes to one device, or is lost on the way to it.
Hand(a, S, to) ==
    /\ a \notin barred
    /\ \A r \in S : state[r] = "open" /\ owner[r] \in {Nobody, a}
    /\ state' = [r \in Runs |-> IF r \in S THEN to ELSE state[r]]
    /\ owner' = [r \in Runs |-> IF r \in S THEN a ELSE owner[r]]
    /\ UNCHANGED <<times, barred>>

Finish(r) ==
    /\ state[r] = "held"
    /\ state' = [state EXCEPT ![r] = "done"]
    /\ times' = [times EXCEPT ![r] = @ + 1]
    /\ UNCHANGED <<owner, barred>>

Lose(S) ==
    /\ \A r \in S : state[r] = "held"
    /\ state' = [r \in Runs |-> IF r \in S THEN "lost" ELSE state[r]]
    /\ UNCHANGED <<owner, times, barred>>

Bar(a) ==
    /\ barred' = barred \union {a}
    /\ UNCHANGED <<state, owner, times>>

HandoutNext ==
    \/ \E r \in Runs, a \in Agents \union {Nobody} : Create(r, a)
    \/ \E a \in Agents, S \in SUBSET Runs, to \in {"held", "lost"} :
          Hand(a, S, to)
    \/ \E r \in Runs : Finish(r)
    \/ \E S \in SUBSET Runs : Lose(S)
    \/ \E a \in Agents : Bar(a)

HandoutSpec == HandoutInit /\ [][HandoutNext]_handoutVars
=============================================================================
