--------------------------- MODULE MCAuthSession ---------------------------
(***************************************************************************)
(* Instances for TLC of the token protocol of the workbench (AuthSession)  *)
(* and of logging in and out (AccountLogin).  The two share the control    *)
(* plane's tables but no step, so a behaviour takes one of them, chosen at *)
(* the start; of AccountLogin it takes either the guessing of passwords    *)
(* with logins that no tab hears of, or the tabs with no wrong password.   *)
(***************************************************************************)
EXTENDS AuthSession, AccountLogin

VARIABLE part    \* what this behaviour is about

mcVars == <<vars, loginVars, part>>

MCInit ==
    /\ Init /\ LoginInit
    /\ part \in {"tokens", "guesses", "tabs"}

MCNext ==
    \/ part = "tokens" /\ Next /\ UNCHANGED <<loginVars, part>>
    \/ part = "guesses" /\ LoginNext /\ UNCHANGED <<vars, tab, part>>
    \/ part = "tabs" /\ LoginNext /\ UNCHANGED <<vars, wrong, part>>

Runs(A) == part = "tokens" /\ A /\ UNCHANGED <<loginVars, part>>

\* The fairness of FairSpec, of the part that has it.
MCSpec ==
    /\ MCInit /\ [][MCNext]_mcVars
    /\ \A t \in Threads : WF_mcVars(Runs(ClientStep(t)))
    /\ \A t \in Workers : /\ SF_mcVars(Runs(Unauthorized(t)))
                          /\ SF_mcVars(Runs(Refresh(t, TRUE)))
=============================================================================
