----------------------------- MODULE SesSimulator ------------------------------
(***************************************************************************)
(* The runs of the SES mailbox simulator (src/apps/service/src/ses/        *)
(* simulator.ts): each makes a mailing with one delivery to an address     *)
(* that answers in a known way, and waits for the event of that delivery.  *)
(* The delivery is sent by a worker and the event comes back over SNS, or  *)
(* ends in the dead-letter queue; a bounce or a complaint suppresses the   *)
(* address for every later run (modules SendWorker, SesFeedback and        *)
(* Suppressions).  Of each scenario the last run is kept, and whether the  *)
(* feedback of an earlier one is still to come.                            *)
(***************************************************************************)
EXTENDS Naturals

VARIABLES
    runs,       \* ses_simulator_runs with their deliveries and events, by scenario
    late,       \* the scenarios with a suppression to come from an earlier run
    listed,     \* the scenarios whose address is suppressed
    deadLetters \* whether the dead-letter queue holds anything

simulatorVars == <<runs, late, listed, deadLetters>>

\* The scenarios the validation runs, in its order.
Scenarios == {"success", "bounce", "complaint"}
expectedSuppressions == {"bounce", "complaint"}

\* A delivery that is ambiguous counts as sent: SES may answer it.
NoRun == [status |-> "none", alive |-> FALSE, delivery |-> "none", event |-> "none"]

SimulatorInit ==
    /\ runs = [s \in Scenarios |-> NoRun]
    /\ late = {} /\ listed = {} /\ deadLetters = FALSE

Answers(s) == runs[s].delivery = "sent" /\ runs[s].event = "none"
MayAnswer(s) == runs[s].delivery \in {"pending", "sent"} /\ runs[s].event # "stored"
Waiting(s) == runs[s].alive /\ runs[s].delivery # "none"

-------------------------------------------------------------------------------
\* insertSimulatorRun; what was sent for the run before is still on its way.
InsertRun(s) ==
    /\ runs' = [runs EXCEPT ![s] = [NoRun EXCEPT !.status = "started", !.alive = TRUE]]
    /\ late' = IF MayAnswer(s) THEN late \cup ({s} \cap expectedSuppressions) ELSE late
    /\ UNCHANGED <<listed, deadLetters>>

\* createMailing and updateSimulatorRun.
CreateDelivery(s) ==
    /\ runs[s].alive /\ runs[s].delivery = "none"
    /\ runs' = [runs EXCEPT ![s].delivery = IF s \in listed THEN "suppressed" ELSE "pending"]
    /\ UNCHANGED <<late, listed, deadLetters>>

\* runSendWorkerOnce, or the worker beside it: the policy gates, and SES.
SendDelivery(s) ==
    /\ runs[s].delivery = "pending"
    /\ \E outcome \in {"sent", "failed", "suppressed"} :
          /\ (outcome = "suppressed") <=> (s \in listed)
          /\ runs' = [runs EXCEPT ![s].delivery = outcome]
    /\ UNCHANGED <<late, listed, deadLetters>>

FeedbackArrives(s) ==
    /\ Answers(s)
    /\ runs' = [runs EXCEPT ![s].event = "stored"]
    /\ listed' = listed \cup ({s} \cap expectedSuppressions) /\ UNCHANGED <<late, deadLetters>>

LateFeedbackArrives(s) ==
    /\ s \in late /\ late' = late \ {s}
    /\ listed' = listed \cup {s} /\ UNCHANGED <<runs, deadLetters>>

FeedbackIsDead(s) ==
    /\ Answers(s) /\ deadLetters' = TRUE
    /\ runs' = [runs EXCEPT ![s].event = "dead"]
    /\ UNCHANGED <<late, listed>>

\* By hand, after remediation.
Replay ==
    /\ deadLetters /\ deadLetters' = FALSE
    /\ runs' = [s \in Scenarios |-> IF runs[s].event = "dead"
                                    THEN [runs[s] EXCEPT !.event = "stored"] ELSE runs[s]]
    /\ listed' = listed \cup {s \in expectedSuppressions : runs[s].event = "dead"}
    /\ UNCHANGED late

\* Slip: an event of an earlier run will do.
EventOfScenario(s) == s \in listed \/ runs[s].event = "stored"

\* expectedEventStored: an event of the type for the delivery of the run itself.
ExpectedEventStored(s) == runs[s].event = "stored"

Finish(s, status) ==
    /\ runs' = [runs EXCEPT ![s].status = status, ![s].alive = FALSE]
    /\ UNCHANGED <<late, listed, deadLetters>>

Validated(s) ==
    /\ Waiting(s) /\ runs[s].delivery \in {"sent", "failed"}
    /\ ExpectedEventStored(s) /\ Finish(s, "validated")

TimedOut(s) == Waiting(s) /\ Finish(s, "timed_out")

\* A statement of the run fails and it says so; or its process ends and it never does.
RunFails(s) == runs[s].alive /\ (Finish(s, "failed") \/ Finish(s, "started"))

SimulatorNext ==
    \/ Replay
    \/ \E s \in Scenarios :
          \/ CreateDelivery(s) \/ SendDelivery(s) \/ Validated(s) \/ TimedOut(s) \/ RunFails(s)
          \/ FeedbackArrives(s) \/ LateFeedbackArrives(s) \/ FeedbackIsDead(s)
===============================================================================
