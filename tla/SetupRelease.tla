----------------------------- MODULE SetupRelease ------------------------------
(***************************************************************************)
(* The stages from aws_core to validate_final as `nusend setup continue`   *)
(* goes through them (SetupProgress), with the deployment (SetupDeploy),   *)
(* the validation (SetupValidate) and the simulator runs on the deployed   *)
(* service.                                                                *)
(***************************************************************************)
EXTENDS SetupDeploy, SetupValidate

vars == <<progressVars, deployVars, simulatorVars>>

Begun ==
    /\ setup = [done |-> 0, access |-> "none", gates |-> {}, plan |-> NoDeployPlan,
                deploy |-> Nothing, proofs |-> {}, last |-> Number("deploy")]
    /\ review = "none" /\ DeployInit

Deployed ==
    /\ setup = [done |-> Number("deploy"), access |-> "approved", gates |-> GateIds,
                plan |-> [commit |-> 1, empty |-> TRUE, checkpoint |-> Healthy],
                deploy |-> 1, proofs |-> {}, last |-> Number("validate_final")]
    /\ review = "granted" /\ DeployedInit

(* Bound: a behaviour goes through the stages up to the deployment, or      *)
(* through those after it, which read of it that it is complete.            *)
Init == (Begun \/ Deployed) /\ cli = NoCommand /\ SimulatorInit

Progress == (ProgressStep \/ Stop \/ ReviewEnds) /\ UNCHANGED <<deployVars, simulatorVars>>

Deploy ==
    /\ PlanDeploy \/ BeginApply \/ ApplyStep \/ VerifyDeploy \/ Others
    /\ UNCHANGED simulatorVars

Validate ==
    /\ VerifyFinalize \/ VerifyPreSimulator \/ BeginSimulator \/ ProductionGate \/ ValidateStep
    /\ UNCHANGED deployVars

Simulate == SimulatorNext /\ UNCHANGED <<progressVars, deployVars>>

Next == Progress \/ Deploy \/ Validate \/ Simulate

\* What a command waits for or verifies does not come about.
Refused == Stop /\ ~ENABLED (ProgressStep \/ ApplyStep \/ ValidateStep \/ SimulatorNext)

\* What need not be planned is planned, or what `continue` does is done by hand.
Detour ==
    \/ PlanDeploy /\ (Applicable \/ ENABLED VerifyDeploy)
    \/ (BeginSimulator \/ ProductionGate) /\ At("idle") /\ ~cli'.staged /\ cli' # cli

\* A run of the simulator is not answered in time.
RunLost == \E s \in Scenarios :
    \/ FeedbackIsDead(s) \/ RunFails(s)
    \/ SendDelivery(s) /\ runs'[s].delivery = "failed"
    \/ TimedOut(s) /\ runs[s].delivery \in {"pending", "sent"}

\* `continue` and the commands it asks for, and the steps of what runs.
Commands == (ProgressStep /\ UNCHANGED <<deployVars, simulatorVars>>)
            \/ (Deploy /\ ~Others) \/ Validate
            \/ (Refused /\ UNCHANGED <<deployVars, simulatorVars>>)

(***************************************************************************)
(* The operator goes on with the setup; from some time on he and the       *)
(* machine do not stop it, the release stays as it is, his detours end,    *)
(* and the runs of the simulator are answered in time.                     *)
(***************************************************************************)
Fairness ==
    /\ <>[][~((Stop /\ ~Refused) \/ Detour \/ RunLost)]_vars
    /\ <>[][~(TagMoves \/ EditEnv \/ ComposeByHand)]_vars
    /\ SF_vars((ImagesArePublished \/ CheckOutByHand) /\ UNCHANGED simulatorVars)
    /\ WF_vars(Simulate)
    /\ WF_vars(Commands)

Spec == Init /\ [][Next]_vars
FairSpec == Spec /\ Fairness

-------------------------------------------------------------------------------
\* README.md of setup-cli: `continue` takes the next incomplete stage until all are complete.
\* It does, whatever stopped it before, unless a simulator run that suppressed its address
\* was not the last of its stage: then the stage is stuck (the README says why).  The plan
\* and apply of the phase finalize are taken for done.
SetupCompletes ==
    [](Selected("validate_simulator") /\ listed # {} => ~At("idle")) => <>(setup.done = setup.last)
===============================================================================
