----------------------------- MODULE SetupProgress -----------------------------
(***************************************************************************)
(* The stages of `nusend setup continue` (src/apps/setup-cli/src/commands/ *)
(* continue.ts) up to the release: each run takes the first stage that is  *)
(* not complete, verifies it and records it; a stage of many questions     *)
(* asks one a run.  One command runs at a time and may stop at any step.   *)
(* With it the end of the stage aws_core, where SES production access is   *)
(* requested, and the human gates.                                         *)
(***************************************************************************)
EXTENDS Naturals, Sequences

CONSTANT Gates  \* the human gates, in their order

ASSUME GatesAssumption == Gates \in Seq(STRING)

VARIABLES
    setup,      \* state.json
    cli,        \* the command that runs
    review      \* SES's review of the production-access request

progressVars == <<setup, cli, review>>

STAGE_ORDER == <<"aws_core", "human_gates", "deploy", "aws_finalize",
                 "validate_pre_simulator", "validate_simulator", "validate_final">>

\* The stages complete in order, so their number says which.
Number(stage) == CHOOSE n \in 1..Len(STAGE_ORDER) : STAGE_ORDER[n] = stage
Complete(stage) == setup.done >= Number(stage)
Selected(stage) == setup.done = Number(stage) - 1 /\ setup.done < setup.last

NoCommand == [pc |-> "idle", at |-> 0, env |-> 0, staged |-> FALSE]
At(pc) == cli.pc = pc
Go(pc) == cli' = [cli EXCEPT !.pc = pc]
Idle == cli' = NoCommand

GateIds == {Gates[n] : n \in DOMAIN Gates}

-------------------------------------------------------------------------------
(* refreshProductionAccessStatus and runProductionAccessRequest            *)

\* A review that ends in a refusal does not change what was recorded as pending.
Refreshed == CASE review = "granted" -> "approved"
               [] review = "pending" -> "pending"
               [] OTHER              -> setup.access

RefreshAccess ==
    /\ At("idle") /\ Selected("aws_core") /\ Go("access")
    /\ setup' = [setup EXCEPT !.access = Refreshed]
    /\ UNCHANGED review

\* Slip: the request is held against what is recorded only.
NotRecorded == setup.access # "approved"

NotRequested == setup.access \notin {"pending", "approved"}

\* Nothing is asked for, the operator does not want to, or the brief is confirmed.
RequestAccess ==
    /\ At("access")
    /\ \/ Go("checkpoint") /\ UNCHANGED review
       \/ NotRequested /\ Go("requested") /\ review' = "pending"
    /\ UNCHANGED setup

RecordRequest ==
    /\ At("requested") /\ Go("checkpoint")
    /\ setup' = [setup EXCEPT !.access = "pending"]
    /\ UNCHANGED review

ReviewEnds ==
    /\ review = "pending" /\ review' \in {"granted", "denied"}
    /\ UNCHANGED <<setup, cli>>

-------------------------------------------------------------------------------
(* runHumanGatesStep                                                       *)

\* ensureAutoSatisfiedGates
AutoSatisfied == IF setup.access = "approved" THEN {"ses_approval"} \cap GateIds ELSE {}

\* The first gate without evidence is asked for; the stage is verified with the last.
HumanGate ==
    LET have == setup.gates \cup AutoSatisfied
        missing == {n \in DOMAIN Gates : Gates[n] \notin have}
        typed == {Gates[n] : n \in {m \in missing : \A k \in missing : m <= k}}
    IN /\ At("idle") /\ Selected("human_gates")
       /\ setup' = [setup EXCEPT !.gates = have \cup typed]
       /\ IF have \cup typed = GateIds THEN Go("checkpoint") ELSE UNCHANGED cli
       /\ UNCHANGED review

-------------------------------------------------------------------------------
\* checkpointStage: the evidence is verified.
Checkpoint ==
    /\ At("checkpoint") /\ Idle
    /\ setup' = [setup EXCEPT !.done = setup.done + 1]
    /\ UNCHANGED review

\* A crash, a call that fails, an answer that is no, a condition that does not hold.
Stop == ~At("idle") /\ Idle /\ UNCHANGED <<setup, review>>

ProgressStep == RefreshAccess \/ RequestAccess \/ RecordRequest \/ HumanGate \/ Checkpoint

-------------------------------------------------------------------------------
\* docs/aws-setup.md: "pending requests are not resubmitted", nor is a granted one, though
\* a crash may come between the request and its record.
RequestedOnce ==
    [][cli'.pc = "requested" /\ ~At("requested") => review \in {"none", "denied"}]_progressVars
===============================================================================
