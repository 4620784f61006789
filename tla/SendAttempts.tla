----------------------------- MODULE SendAttempts -----------------------------
(***************************************************************************)
(* src/apps/service/src/sending/attempts.ts and mailings/lifecycle.ts: the *)
(* paired writes of a delivery and its latest attempt, each one a BEGIN    *)
(* IMMEDIATE transaction, and the state of the mailing they belong to.     *)
(* A guard that is false is the statement that matches no row: what the    *)
(* caller then does depends on whether the delivery is terminal            *)
(* ("SupersededTerminal") or not (an inconsistent-state DatabaseError).    *)
(***************************************************************************)
EXTENDS SendTables

LatestStatus(d) ==
    IF attempts[d] = <<>> THEN "none" ELSE attempts[d][Len(attempts[d])].status

\* The attempt is the latest of its delivery and the two rows have these states.
PairIs(d, n, attemptStatus, deliveryStatus) ==
    /\ n > 0
    /\ n = Len(attempts[d])
    /\ attempts[d][n].status = attemptStatus
    /\ delivery[d].status = deliveryStatus

MarkMailingSending(m) ==
    mailing' = IF mailing[m] = "scheduled"
               THEN [mailing EXCEPT ![m] = "sending"] ELSE mailing

\* Slips: the processor starts again what another attempt left without an answer,
\* or whatever is not settled yet.
StartsAmbiguousToo(d) == delivery[d].status \in {"queued", "ambiguous"}
StartsUnsettled(d) == ~IsTerminal(d)

(***************************************************************************)
(* startSendAttempt: only a queued delivery starts.                        *)
(***************************************************************************)
CanStart(d) == delivery[d].status = "queued"

StartSendAttempt(d) ==
    /\ CanStart(d)
    /\ delivery' = [delivery EXCEPT ![d].status = "sending"]
    /\ attempts' = [attempts EXCEPT
                      ![d] = Append(@, [status |-> "started", messageId |-> 0])]
    /\ MarkMailingSending(MailingOf[d])

(***************************************************************************)
(* recordSendSuccess: the started pair, or an ambiguous pair that a racing *)
(* worker wrote in the meantime, becomes succeeded and sent.               *)
(***************************************************************************)
CompatibleMessage(stored, messageId) == stored \in {0, messageId}

\* Slip: the success does not expect the pair a racing worker made ambiguous.
RecordsStartedOnly(d, n) == PairIs(d, n, "started", "sending")

CanRecordSuccess(d, n) ==
    /\ PairIs(d, n, "started", "sending") \/ PairIs(d, n, "ambiguous", "ambiguous")
    /\ CompatibleMessage(attempts[d][n].messageId, n)
    /\ CompatibleMessage(delivery[d].messageId, n)

RecordSendSuccess(d, n) ==
    /\ CanRecordSuccess(d, n)
    /\ attempts' = [attempts EXCEPT ![d] =
                      [@ EXCEPT ![n] = [status |-> "succeeded", messageId |-> n]]]
    /\ delivery' = [delivery EXCEPT ![d] = [status |-> "sent", messageId |-> n]]

\* Slip: the UPDATE of the attempt loses its condition on the two statuses.
RecordsLatestAnyStatus(d, n) == n > 0 /\ n = Len(attempts[d])

(***************************************************************************)
(* recordFailure, with the statuses of its four callers: permanent         *)
(* (failed, failed or suppressed), retryable (failed, queued), ambiguous.  *)
(***************************************************************************)
CanRecordFailure(d, n) == PairIs(d, n, "started", "sending")

WriteFailurePair(d, n, attemptStatus, deliveryStatus) ==
    /\ attempts' = [attempts EXCEPT ![d] = [@ EXCEPT ![n].status = attemptStatus]]
    /\ delivery' = [delivery EXCEPT ![d].status = deliveryStatus]

RecordFailure(d, n, attemptStatus, deliveryStatus) ==
    /\ CanRecordFailure(d, n)
    /\ WriteFailurePair(d, n, attemptStatus, deliveryStatus)

\* recordStaleSendingAsAmbiguous works on whatever attempt is now the latest.
CanMarkStale(d) == CanRecordFailure(d, Len(attempts[d]))

\* Slip: a stale attempt is put back in the queue.
RecordStaleSendingAsRetryable(d) ==
    /\ CanMarkStale(d)
    /\ WriteFailurePair(d, Len(attempts[d]), "failed", "queued")

RecordStaleSendingAsAmbiguous(d) ==
    /\ CanMarkStale(d)
    /\ WriteFailurePair(d, Len(attempts[d]), "ambiguous", "ambiguous")

\* Slip: the UPDATE fails every delivery that is not settled.
FailsUnsettled(d) == ~IsTerminal(d)

\* markDeliveryFailedForDeadJob: no attempt is in flight, the delivery fails.
CanFailForDeadJob(d) == delivery[d].status = "queued"

MarkDeliveryFailedForDeadJob(d) ==
    /\ CanFailForDeadJob(d)
    /\ delivery' = [delivery EXCEPT ![d].status = "failed"]
    /\ UNCHANGED attempts

(***************************************************************************)
(* refreshMailingStateForDelivery reads the counts, and in a later         *)
(* statement writes the state they call for.                               *)
(***************************************************************************)
\* Slip: queued deliveries are not counted as remaining.
RefreshVerdictNoneSending(m) ==
    IF \A d \in DeliveriesOf(m) : delivery[d].status # "sending" THEN "completed"
    ELSE "sending"

RefreshVerdict(m) ==
    IF AllTerminal(m) THEN "completed"
    ELSE IF \E d \in DeliveriesOf(m) : attempts[d] # <<>> THEN "sending"
    ELSE "scheduled"


CanRefreshTo(m, verdict) ==
    IF verdict = "sending" THEN mailing[m] = "scheduled" ELSE mailing[m] # "completed"

RefreshMailingState(m, verdict) ==
    mailing' = IF CanRefreshTo(m, verdict)
               THEN [mailing EXCEPT ![m] = verdict] ELSE mailing
===============================================================================
