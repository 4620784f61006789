------------------------------ MODULE SendTables ------------------------------
(***************************************************************************)
(* The four SQLite tables of the sending pipeline: jobs, deliveries,       *)
(* send_attempts and mailings (src/apps/service/src/db/migrations/sql).    *)
(* There is exactly one job per delivery (a unique index), so a job is     *)
(* named by its delivery; a delivery created already suppressed has none.  *)
(* Mailings, deliveries, attempts and jobs are never deleted.              *)
(***************************************************************************)
EXTENDS Naturals, Sequences

CONSTANTS
    Deliveries,     \* rows of the table deliveries
    Mailings,       \* rows of the table mailings
    MailingOf,      \* deliveries.mailing_id
    Workers,        \* send-worker processes (jobs.locked_by)
    NoWorker,       \* locked_by IS NULL
    MaxAttempts     \* jobs.max_attempts (10 in the schema)

ASSUME MailingOfAssumption == MailingOf \in [Deliveries -> Mailings]
ASSUME NoWorkerAssumption == NoWorker \notin Workers
ASSUME MaxAttemptsAssumption == MaxAttempts \in Nat \ {0}

VARIABLES
    job,        \* one row per delivery
    delivery,   \* status and the SES MessageId of the accepted call
    attempts,   \* the rows of send_attempts, by attempt_no
    mailing     \* mailings.state

tables == <<job, delivery, attempts, mailing>>

(***************************************************************************)
(* Rows.  timeUp of a queued job says that run_at has passed, of a leased  *)
(* job that locked_until has; it is FALSE in the other states.  The        *)
(* MessageId SES returns to attempt n is written n; 0 is NULL.             *)
(***************************************************************************)
JobState == {"absent", "queued", "leased", "succeeded", "dead"}
JobRow == [state: JobState, attempts: 0..MaxAttempts,
           lockedBy: Workers \cup {NoWorker}, timeUp: BOOLEAN]

TerminalStatus == {"sent", "failed", "suppressed", "ambiguous"}
DeliveryStatus == {"queued", "sending"} \cup TerminalStatus
DeliveryRow == [status: DeliveryStatus, messageId: Nat]

AttemptStatus == {"started", "succeeded", "failed", "ambiguous"}
AttemptRow == [status: AttemptStatus, messageId: Nat]

MailingState == {"scheduled", "sending", "completed"}

TablesTypeOK ==
    /\ job \in [Deliveries -> JobRow]
    /\ delivery \in [Deliveries -> DeliveryRow]
    /\ attempts \in [Deliveries -> Seq(AttemptRow)]
    /\ mailing \in [Mailings -> MailingState]

IsTerminal(d) == delivery[d].status \in TerminalStatus
DeliveriesOf(m) == {d \in Deliveries : MailingOf[d] = m}
AllTerminal(m) == \A d \in DeliveriesOf(m) : IsTerminal(d)

NoJob == [state |-> "absent", attempts |-> 0, lockedBy |-> NoWorker, timeUp |-> FALSE]
NewJob == [NoJob EXCEPT !.state = "queued"]
NewDelivery(status) == [status |-> status, messageId |-> 0]

(***************************************************************************)
(* What createMailing commits: a scheduled mailing, deliveries queued or   *)
(* suppressed (at least one of each mailing queued), a job per queued one. *)
(***************************************************************************)
TablesInit ==
    \E queued \in SUBSET Deliveries :
        /\ \A m \in Mailings : \E d \in queued : MailingOf[d] = m
        /\ delivery = [d \in Deliveries |->
                        NewDelivery(IF d \in queued THEN "queued" ELSE "suppressed")]
        /\ job = [d \in Deliveries |-> IF d \in queued THEN NewJob ELSE NoJob]
        /\ attempts = [d \in Deliveries |-> <<>>]
        /\ mailing = [m \in Mailings |-> "scheduled"]
===============================================================================
