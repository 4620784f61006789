----------------------------- MODULE SetupValidate -----------------------------
(***************************************************************************)
(* The last four stages of `nusend setup continue` (src/apps/setup-cli/    *)
(* src/validate): the finalized stack and its alarms are verified, the     *)
(* readiness of the service, the simulator runs of module SesSimulator     *)
(* from end to end, and the evidence for production.  `nusend setup        *)
(* validate` does the same by hand and completes no stage.                 *)
(***************************************************************************)
EXTENDS SetupProgress, SesSimulator

CONSTANT ProductionGates    \* the gates of the operator, after the one for the alarm

ASSUME ProductionGatesAssumption == ProductionGates \in Seq(STRING)

SCENARIOS == <<"success", "bounce", "complaint">>
Scenario == SCENARIOS[cli.at]

\* productionGateProgress: the alarm exercise is the first of them.
AllGates == <<"alarm_delivery">> \o ProductionGates
GateSet == {AllGates[n] : n \in DOMAIN AllGates}

\* Bound: validations by hand end with the last stage.
MayValidate(before, staged) ==
    /\ At("idle") /\ Complete(before) /\ ~Complete("validate_final")
    /\ setup.done < setup.last /\ (staged => setup.done = Number(before))

-------------------------------------------------------------------------------
\* runAwsFinalizeStageVerification; the alarm exercise is typed once and kept.  That the
\* recorded stack is in the phase finalize and complete, so that its plan and apply are done
\* (module SetupStack), is left to the environment: a no stops the command.
VerifyFinalize ==
    /\ At("idle") /\ Selected("aws_finalize") /\ Go("checkpoint")
    /\ setup' = [setup EXCEPT !.proofs = @ \cup {"alarm_delivery"}]
    /\ UNCHANGED <<review, simulatorVars>>

\* runPreSimulatorValidation: readiness is ok, and assertDlqEmpty.
VerifyPreSimulator ==
    /\ At("idle") /\ Selected("validate_pre_simulator") /\ ~deadLetters /\ Go("checkpoint")
    /\ UNCHANGED <<setup, review, simulatorVars>>

\* runSimulatorValidation, by continue or by hand.
BeginSimulator ==
    /\ \E staged \in BOOLEAN :
          /\ MayValidate("validate_pre_simulator", staged)
          /\ cli' = [cli EXCEPT !.pc = "simulate", !.at = 1, !.staged = staged]
    /\ UNCHANGED <<setup, review, simulatorVars>>

RunScenario ==
    /\ At("simulate") /\ InsertRun(Scenario) /\ Go("await")
    /\ UNCHANGED <<setup, review>>

\* parseSimulatorResult: only a validated run leads on to the next.
ScenarioEnds ==
    /\ At("await") /\ ~runs[Scenario].alive
    /\ IF runs[Scenario].status = "validated" /\ cli.at < Len(SCENARIOS)
       THEN cli' = [cli EXCEPT !.pc = "simulate", !.at = cli.at + 1]
       ELSE IF runs[Scenario].status = "validated" /\ cli.staged THEN Go("checkpoint")
       ELSE Idle
    /\ UNCHANGED <<setup, review, simulatorVars>>

\* Slip: the evidence recorded before is not written back.
OnlyLastGate(gate) == {"alarm_delivery", gate} \ {"none"}

WithGate(gate) == setup.proofs \cup ({gate} \ {"none"})

\* runFinalValidation: one gate a run, and with the last one the rest.
ProductionGate ==
    /\ \E staged \in BOOLEAN :
          /\ MayValidate("validate_simulator", staged)
          /\ LET missing == {n \in DOMAIN AllGates : AllGates[n] \notin setup.proofs}
                 typed == IF missing = {} THEN "none"
                          ELSE AllGates[CHOOSE n \in missing : \A k \in missing : n <= k]
                 proofs == WithGate(typed)
             IN /\ setup' = [setup EXCEPT !.proofs = proofs]
                /\ IF GateSet \subseteq proofs
                   THEN cli' = [cli EXCEPT !.pc = "final", !.staged = staged]
                   ELSE UNCHANGED cli
    /\ UNCHANGED <<review, simulatorVars>>

\* validateProtectedSuppressions
Protected == expectedSuppressions \subseteq listed

\* Readiness, the suppressions, the dead letters and the attested removal of the assignment.
VerifyFinal ==
    /\ At("final") /\ Protected /\ ~deadLetters
    /\ IF cli.staged THEN Go("checkpoint") ELSE Idle
    /\ UNCHANGED <<setup, review, simulatorVars>>

ValidateStep == RunScenario \/ ScenarioEnds \/ VerifyFinal

-------------------------------------------------------------------------------
\* validate/workflow.test.ts: the stage of the simulator is completed by a run of its own in
\* which SES answered every scenario for the very delivery that was made for it, and the
\* bounce and the complaint suppressed their addresses.
SimulatorStageIsEarned ==
    [][Selected("validate_simulator") /\ setup'.done # setup.done
         => /\ \A s \in Scenarios : runs[s].status = "validated" /\ runs[s].event = "stored"
            /\ expectedSuppressions \subseteq listed]_<<setup, runs, listed>>
===============================================================================
