--------------------------- MODULE SendWorkerProofs ---------------------------
(***************************************************************************)
(* Theorems about SendWorker, for any number of deliveries, mailings and   *)
(* workers and any max_attempts.                                           *)
(***************************************************************************)
EXTENDS SendWorker, FiniteSetTheorems, SequenceTheorems, TLAPS

(***************************************************************************)
(* The inductive invariant.                                                *)
(***************************************************************************)
Busy == {"reconcile", "repair", "count", "refresh", "stale", "gates", "dispatch",
         "record", "settle"}
InFlight == {"gates", "dispatch", "record"}

\* The rows of a delivery, its job and what SES has accepted of it.
PairInv(d) ==
    /\ delivery[d].status = "sending" <=> LatestStatus(d) = "started"
    /\ delivery[d].status = "ambiguous" <=> LatestStatus(d) = "ambiguous"
    /\ delivery[d].status = "sent" <=> LatestStatus(d) = "succeeded"
    /\ delivery[d].status = "sent" =>
          /\ attempts[d][Len(attempts[d])].messageId = Len(attempts[d])
          /\ delivery[d].messageId = Len(attempts[d])
    /\ delivery[d].status # "sent" => delivery[d].messageId = 0
    /\ \A n \in 1..Len(attempts[d]) :
          /\ n < Len(attempts[d]) => attempts[d][n].status = "failed"
          /\ attempts[d][n].status # "succeeded" => attempts[d][n].messageId = 0

AcceptedInv(d) ==
    /\ accepted[d] # {} => /\ accepted[d] = {Len(attempts[d])}
                           /\ delivery[d].status \in {"sending", "ambiguous", "sent"}
    /\ delivery[d].status = "sent" => accepted[d] # {}

JobInv(d) ==
    /\ job[d].state = "queued" => job[d].attempts < MaxAttempts
    /\ job[d].state \in {"absent", "succeeded"} => IsTerminal(d)

\* What a worker in the middle of a job may rely on.
InFlightPair(d, n) ==
    PairIs(d, n, "started", "sending") \/ PairIs(d, n, "ambiguous", "ambiguous")

WorkerInv(w) ==
    LET d == Current(w)
        n == worker[w].attempt
        note == worker[w].note
    IN  /\ worker[w].pc \in Busy => d \in Deliveries
        /\ worker[w].pc \in InFlight => InFlightPair(d, n)
        /\ worker[w].pc \in {"gates", "dispatch"} => accepted[d] = {}
        /\ worker[w].pc = "record" =>
              /\ note \in PreDispatch \cup PostDispatch
              /\ note = "accepted" => accepted[d] = {n}
              /\ note \notin {"accepted", "unknown"} => accepted[d] = {}
        /\ worker[w].pc = "settle" /\ note = "ok" => IsTerminal(d)
        /\ worker[w].pc = "refresh" =>
              /\ note \in MailingState
              /\ note = "completed" => AllTerminal(MailingOf[d])

IInv ==
    /\ TypeOK
    /\ \A d \in Deliveries : PairInv(d)
    /\ \A d \in Deliveries : AcceptedInv(d)
    /\ \A d \in Deliveries : JobInv(d)
    /\ \A w \in Workers : WorkerInv(w)
    /\ OneDispatcher
    /\ CompletedIsSettled

-------------------------------------------------------------------------------
(* What the paired writes do to the rows.                                  *)

LEMMA PairRows ==
    ASSUME TypeOK, NEW d \in Deliveries
    PROVE  /\ Len(attempts[d]) \in Nat
           /\ attempts[d] = <<>> <=> Len(attempts[d]) = 0
           /\ \A n \in 1..Len(attempts[d]) : attempts[d][n] \in AttemptRow
           /\ delivery[d] \in DeliveryRow
           /\ Len(attempts[d]) > 0 =>
                LatestStatus(d) = attempts[d][Len(attempts[d])].status
           /\ Len(attempts[d]) = 0 => LatestStatus(d) = "none"
  BY DEF TypeOK, TablesTypeOK, LatestStatus

\* A pair in flight is the latest one.
LEMMA InFlightFacts ==
    ASSUME TypeOK, NEW d \in Deliveries, NEW n, InFlightPair(d, n)
    PROVE  /\ n = Len(attempts[d]) /\ n \in 1..Len(attempts[d])
           /\ LatestStatus(d) = attempts[d][n].status
           /\ delivery[d].status \in {"sending", "ambiguous"}
  BY PairRows DEF InFlightPair, PairIs

StartWrites(d) ==
    /\ attempts' \in [Deliveries -> Seq(AttemptRow)]
    /\ delivery' \in [Deliveries -> DeliveryRow]
    /\ Len(attempts'[d]) = Len(attempts[d]) + 1
    /\ \A n \in 1..Len(attempts[d]) : attempts'[d][n] = attempts[d][n]
    /\ attempts'[d][Len(attempts[d]) + 1] = [status |-> "started", messageId |-> 0]
    /\ delivery'[d] = [status |-> "sending", messageId |-> delivery[d].messageId]
    /\ \A e \in Deliveries \ {d} : attempts'[e] = attempts[e] /\ delivery'[e] = delivery[e]

LEMMA StartRows ==
    ASSUME TypeOK, NEW d \in Deliveries, StartSendAttempt(d)
    PROVE  StartWrites(d)
<1> DEFINE row == [status |-> "started", messageId |-> 0]
<1>1. row \in AttemptRow
  BY DEF AttemptRow, AttemptStatus
<1>2. attempts[d] \in Seq(AttemptRow) /\ delivery[d] \in DeliveryRow
  BY DEF TypeOK, TablesTypeOK
<1>3. /\ attempts' = [attempts EXCEPT ![d] = Append(attempts[d], row)]
      /\ delivery' = [delivery EXCEPT ![d].status = "sending"]
  BY DEF StartSendAttempt
<1>4. /\ Append(attempts[d], row) \in Seq(AttemptRow)
      /\ Len(Append(attempts[d], row)) = Len(attempts[d]) + 1
      /\ \A n \in 1..Len(attempts[d]) : Append(attempts[d], row)[n] = attempts[d][n]
      /\ Append(attempts[d], row)[Len(attempts[d]) + 1] = row
  BY <1>1, <1>2, AppendProperties
<1>5. attempts'[d] = Append(attempts[d], row)
  BY <1>3 DEF TypeOK, TablesTypeOK
<1>6. delivery'[d] = [status |-> "sending", messageId |-> delivery[d].messageId]
  BY <1>2, <1>3 DEF TypeOK, TablesTypeOK, DeliveryRow
<1>7. attempts' \in [Deliveries -> Seq(AttemptRow)]
  BY <1>3, <1>4 DEF TypeOK, TablesTypeOK
<1>8. delivery' \in [Deliveries -> DeliveryRow]
  BY <1>2, <1>3 DEF TypeOK, TablesTypeOK, DeliveryRow, DeliveryStatus
<1>9. \A e \in Deliveries \ {d} : attempts'[e] = attempts[e] /\ delivery'[e] = delivery[e]
  BY <1>3 DEF TypeOK, TablesTypeOK
<1> QED
  BY <1>4, <1>5, <1>6, <1>7, <1>8, <1>9 DEF StartWrites

SuccessWrites(d, n) ==
    /\ attempts' \in [Deliveries -> Seq(AttemptRow)]
    /\ delivery' \in [Deliveries -> DeliveryRow]
    /\ n = Len(attempts[d]) /\ n > 0
    /\ delivery[d].status \in {"sending", "ambiguous"}
    /\ Len(attempts'[d]) = n
    /\ \A k \in 1..n : k < n => attempts'[d][k] = attempts[d][k]
    /\ attempts'[d][n] = [status |-> "succeeded", messageId |-> n]
    /\ delivery'[d] = [status |-> "sent", messageId |-> n]
    /\ \A e \in Deliveries \ {d} : attempts'[e] = attempts[e] /\ delivery'[e] = delivery[e]

LEMMA SuccessRows ==
    ASSUME TypeOK, NEW d \in Deliveries, NEW n, RecordSendSuccess(d, n)
    PROVE  SuccessWrites(d, n)
<1> DEFINE row == [status |-> "succeeded", messageId |-> n]
           rows == [attempts[d] EXCEPT ![n] = row]
<1>1. n \in Nat /\ n > 0 /\ n = Len(attempts[d])
      /\ delivery[d].status \in {"sending", "ambiguous"}
  BY PairRows DEF RecordSendSuccess, CanRecordSuccess, PairIs
<1>2. row \in AttemptRow
  BY <1>1 DEF AttemptRow, AttemptStatus
<1>3. attempts[d] \in Seq(AttemptRow) /\ delivery[d] \in DeliveryRow
  BY DEF TypeOK, TablesTypeOK
<1>4. /\ attempts' = [attempts EXCEPT ![d] = rows]
      /\ delivery' = [delivery EXCEPT ![d] = [status |-> "sent", messageId |-> n]]
  BY DEF RecordSendSuccess
<1>5. /\ rows \in Seq(AttemptRow)
      /\ Len(rows) = Len(attempts[d])
      /\ \A k \in 1..Len(attempts[d]) : rows[k] = IF k = n THEN row ELSE attempts[d][k]
  BY <1>1, <1>2, <1>3, ExceptSeq
<1>6. attempts'[d] = rows
  BY <1>4 DEF TypeOK, TablesTypeOK
<1>7. delivery'[d] = [status |-> "sent", messageId |-> n]
  BY <1>4 DEF TypeOK, TablesTypeOK
<1>8. attempts' \in [Deliveries -> Seq(AttemptRow)]
  BY <1>4, <1>5 DEF TypeOK, TablesTypeOK
<1>9. delivery' \in [Deliveries -> DeliveryRow]
  BY <1>1, <1>4 DEF TypeOK, TablesTypeOK, DeliveryRow, DeliveryStatus, TerminalStatus
<1>10. \A e \in Deliveries \ {d} : attempts'[e] = attempts[e] /\ delivery'[e] = delivery[e]
  BY <1>4 DEF TypeOK, TablesTypeOK
<1> QED
  BY <1>1, <1>5, <1>6, <1>7, <1>8, <1>9, <1>10 DEF SuccessWrites

\* What a recorded failure writes.
FailureWrites(d, n, a, s) ==
    /\ attempts' \in [Deliveries -> Seq(AttemptRow)]
    /\ delivery' \in [Deliveries -> DeliveryRow]
    /\ n = Len(attempts[d]) /\ n > 0
    /\ delivery[d].status = "sending"
    /\ attempts[d][n].status = "started"
    /\ Len(attempts'[d]) = n
    /\ \A k \in 1..n : k < n => attempts'[d][k] = attempts[d][k]
    /\ attempts'[d][n] = [status |-> a, messageId |-> attempts[d][n].messageId]
    /\ delivery'[d] = [status |-> s, messageId |-> delivery[d].messageId]
    /\ \A e \in Deliveries \ {d} : /\ attempts'[e] = attempts[e]
                                   /\ delivery'[e] = delivery[e]

LEMMA FailureRows ==
    ASSUME TypeOK, NEW d \in Deliveries, NEW n,
           NEW a \in {"failed", "ambiguous"}, NEW s \in DeliveryStatus,
           RecordFailure(d, n, a, s)
    PROVE  FailureWrites(d, n, a, s)
<1> DEFINE row == [attempts[d][n] EXCEPT !.status = a]
           rows == [attempts[d] EXCEPT ![n] = row]
<1>1. /\ n \in Nat /\ n > 0 /\ n = Len(attempts[d])
      /\ delivery[d].status = "sending" /\ attempts[d][n].status = "started"
  BY PairRows DEF RecordFailure, CanRecordFailure, PairIs
<1>2. attempts[d] \in Seq(AttemptRow) /\ delivery[d] \in DeliveryRow
  BY DEF TypeOK, TablesTypeOK
<1>3. attempts[d][n] \in AttemptRow
  BY <1>1, PairRows
<1>4. /\ row = [status |-> a, messageId |-> attempts[d][n].messageId]
      /\ row \in AttemptRow
  BY <1>3 DEF AttemptRow, AttemptStatus
<1>5. /\ attempts' = [attempts EXCEPT ![d] = rows]
      /\ delivery' = [delivery EXCEPT ![d].status = s]
  BY DEF RecordFailure, WriteFailurePair
<1>6. /\ rows \in Seq(AttemptRow)
      /\ Len(rows) = Len(attempts[d])
      /\ \A k \in 1..Len(attempts[d]) : rows[k] = IF k = n THEN row ELSE attempts[d][k]
  BY <1>1, <1>2, <1>4, ExceptSeq
<1>7. attempts'[d] = rows
  BY <1>5 DEF TypeOK, TablesTypeOK
<1>8. delivery'[d] = [status |-> s, messageId |-> delivery[d].messageId]
  BY <1>2, <1>5 DEF TypeOK, TablesTypeOK, DeliveryRow
<1>9. attempts' \in [Deliveries -> Seq(AttemptRow)]
  BY <1>5, <1>6 DEF TypeOK, TablesTypeOK
<1>10. delivery' \in [Deliveries -> DeliveryRow]
  BY <1>2, <1>5 DEF TypeOK, TablesTypeOK, DeliveryRow
<1>11. \A e \in Deliveries \ {d} : attempts'[e] = attempts[e] /\ delivery'[e] = delivery[e]
  BY <1>5 DEF TypeOK, TablesTypeOK
<1> QED
  BY <1>1, <1>4, <1>6, <1>7, <1>8, <1>9, <1>10, <1>11 DEF FailureWrites

-------------------------------------------------------------------------------
(* The steps of a worker, by what they touch.                              *)

\* Steps that only move a worker along.
Quiet == UNCHANGED <<tables, accepted>>

LEMMA StepKinds ==
    ASSUME NEW w \in Workers, WorkerStep(w) \/ Crash(w)
    PROVE  \/ Quiet
           \/ ReleaseLeases(w) \/ ClaimJobs(w) \/ RepairDeadJobDelivery(w)
           \/ WriteMailing(w) \/ (\E d \in Deliveries : StartDelivery(w, d))
           \/ MarkStale(w) \/ CallTransport(w) \/ RecordOutcome(w)
           \/ SettleSuccess(w) \/ SettleFailure(w)
  BY DEF WorkerStep, Quiet, ReconcileOrphanedDeadJobs, ReconcileStuckSendingMailings,
         VisitStuckMailing, FinishCycle, VisitDeadJob, ReadDeadJobDelivery,
         DeadJobDeliveryMoved, CountMailing, SkipDelivery, StartFails, StaleFails,
         DecideDispatch, OutcomeSuperseded, RecordFails, SkipStaleLease, Restart, Crash

\* A worker writes its own memory only.
LEMMA OwnMemory ==
    ASSUME TypeOK, NEW w \in Workers, WorkerStep(w) \/ Crash(w)
    PROVE  \E mem : worker' = [worker EXCEPT ![w] = mem]
<1>1. CASE ReconcileOrphanedDeadJobs(w) BY <1>1 DEF ReconcileOrphanedDeadJobs
<1>2. CASE ReconcileStuckSendingMailings(w) BY <1>2 DEF ReconcileStuckSendingMailings
<1>3. CASE \E d \in Deliveries : VisitStuckMailing(w, d) BY <1>3 DEF VisitStuckMailing
<1>4. CASE ReleaseLeases(w) BY <1>4 DEF ReleaseLeases
<1>5. CASE ClaimJobs(w) BY <1>5 DEF ClaimJobs
<1>6. CASE FinishCycle(w) BY <1>6 DEF FinishCycle, CycleEnds
<1>7. CASE \E d \in Deliveries : VisitDeadJob(w, d) BY <1>7 DEF VisitDeadJob
<1> DEFINE Noting == \E pc, note : GoNoting(w, pc, note)
<1>8. Noting => \E mem : worker' = [worker EXCEPT ![w] = mem]
  BY DEF GoNoting
<1>9. CASE ReadDeadJobDelivery(w) BY <1>8, <1>9 DEF ReadDeadJobDelivery
<1>10. CASE RepairDeadJobDelivery(w) BY <1>8, <1>10 DEF RepairDeadJobDelivery
<1>11. CASE DeadJobDeliveryMoved(w)
  BY <1>8, <1>11 DEF DeadJobDeliveryMoved, CycleEnds
<1>12. CASE CountMailing(w) BY <1>8, <1>12 DEF CountMailing
<1>13. CASE WriteMailing(w) BY <1>13 DEF WriteMailing, NextVisit
<1>14. CASE \E d \in Deliveries :
              StartDelivery(w, d) \/ SkipDelivery(w, d) \/ StartFails(w, d)
  BY <1>14 DEF StartDelivery, SkipDelivery, StartFails, Taking
<1>15. CASE MarkStale(w) BY <1>8, <1>15 DEF MarkStale
<1>16. CASE StaleFails(w) BY <1>8, <1>16 DEF StaleFails
<1>17. CASE DecideDispatch(w) BY <1>8, <1>17 DEF DecideDispatch, Go
<1>18. CASE CallTransport(w) BY <1>8, <1>18 DEF CallTransport
<1>19. CASE RecordOutcome(w) BY <1>8, <1>19 DEF RecordOutcome
<1>20. CASE OutcomeSuperseded(w) BY <1>8, <1>20 DEF OutcomeSuperseded
<1>21. CASE RecordFails(w) BY <1>8, <1>21 DEF RecordFails
<1>22. CASE SettleSuccess(w) BY <1>8, <1>22 DEF SettleSuccess
<1>23. CASE SettleFailure(w) BY <1>8, <1>23 DEF SettleFailure
<1>24. CASE SkipStaleLease(w) BY <1>24 DEF SkipStaleLease, NextVisit
<1>25. CASE Restart(w) BY <1>25 DEF Restart, CycleEnds
<1>26. CASE Crash(w) BY <1>26 DEF Crash
<1> QED
  BY <1>1, <1>2, <1>3, <1>4, <1>5, <1>6, <1>7, <1>9, <1>10, <1>11, <1>12, <1>13, <1>14,
     <1>15, <1>16, <1>17, <1>18, <1>19, <1>20, <1>21, <1>22, <1>23, <1>24, <1>25, <1>26
     DEF WorkerStep

-------------------------------------------------------------------------------
(* Type correctness, with the bound on jobs.attempts that it rests on.     *)

JobTypeInv == /\ job \in [Deliveries -> JobRow]
              /\ \A d \in Deliveries :
                    job[d].state = "queued" => job[d].attempts < MaxAttempts

LEMMA ReleasedRow ==
    ASSUME JobTypeInv, NEW d \in Deliveries
    PROVE  /\ Released(d) \in JobRow
           /\ Released(d).attempts = job[d].attempts
           /\ Released(d).state \in {"dead", "queued"}
           /\ Released(d).state = "queued" => job[d].attempts < MaxAttempts
<1>1. /\ job[d] \in JobRow
      /\ job[d].attempts \in 0..MaxAttempts
      /\ job[d].attempts \in Nat /\ MaxAttempts \in Nat
  BY MaxAttemptsAssumption DEF JobTypeInv, JobRow
<1> QED
  BY <1>1 DEF Released, Exhausted, JobRow, JobState

LEMMA JobTypeStep ==
    ASSUME JobTypeInv, TypeOK, Next
    PROVE  JobTypeInv'
<1>1. CASE UNCHANGED job
  BY <1>1 DEF JobTypeInv
<1>2. ASSUME NEW w \in Workers, ReleaseLeases(w)
      PROVE  JobTypeInv'
  <2>1. job' = [d \in Deliveries |-> IF d \in ExpiredLeases THEN Released(d) ELSE job[d]]
    BY <1>2 DEF ReleaseLeases, ReleaseExpiredSendDeliveryLeases
  <2> QED
    BY <2>1, ReleasedRow DEF JobTypeInv
<1>3. ASSUME NEW w \in Workers, ClaimJobs(w)
      PROVE  JobTypeInv'
  <2>1. PICK S \in Batches(Claimable \ worker[w].batch) : ClaimSendDeliveryJobs(w, S)
    BY <1>3 DEF ClaimJobs
  <2>2. S \subseteq Claimable
    BY DEF Batches
  <2>3. \A d \in S : job[d].attempts + 1 \in 0..MaxAttempts
    <3>1. ASSUME NEW d \in S
          PROVE  job[d].attempts \in 0..MaxAttempts /\ job[d].attempts < MaxAttempts
      BY <2>2 DEF Claimable, JobTypeInv, JobRow
    <3> QED
      BY <3>1, MaxAttemptsAssumption
  <2> QED
    BY <2>1, <2>3 DEF ClaimSendDeliveryJobs, JobTypeInv, JobRow, JobState
<1>4. ASSUME NEW w \in Workers, NEW d \in Deliveries, CompleteSendDeliveryJob(w, d)
      PROVE  JobTypeInv'
  BY <1>4 DEF CompleteSendDeliveryJob, JobTypeInv, JobRow, JobState
<1>5. ASSUME NEW w \in Workers, NEW d \in Deliveries, FailSendDeliveryJob(w, d)
      PROVE  JobTypeInv'
  BY <1>5, ReleasedRow DEF FailSendDeliveryJob, JobTypeInv
<1>6. ASSUME NEW d \in Deliveries, TimePasses(d)
      PROVE  JobTypeInv'
  BY <1>6 DEF TimePasses, DeadlinePasses, JobTypeInv, JobRow, JobState
<1>7. ASSUME NEW w \in Workers, SettleSuccess(w) \/ SettleFailure(w)
      PROVE  JobTypeInv'
  <2>1. Current(w) \in Deliveries \/ UNCHANGED job
    BY <1>7 DEF SettleSuccess, SettleFailure, CompleteSendDeliveryJob, FailSendDeliveryJob,
                JobTypeInv
  <2> QED
    BY <1>1, <1>4, <1>5, <1>7, <2>1 DEF SettleSuccess, SettleFailure
<1> QED
  BY <1>1, <1>2, <1>3, <1>6, <1>7, StepKinds
     DEF Next, Quiet, tables, RepairDeadJobDelivery, WriteMailing, StartDelivery,
         MarkStale, CallTransport, RecordOutcome

-------------------------------------------------------------------------------
(* The rows of a delivery change by one of the operations of attempts.ts.  *)

\* A paired write, with what is known of the provider at that moment.
PairWrite(d) ==
    \/ StartSendAttempt(d)
    \/ MarkDeliveryFailedForDeadJob(d)
    \/ \E n \in Nat : RecordSendSuccess(d, n) /\ accepted[d] = {n}
    \/ \E n \in Nat : RecordFailure(d, n, "ambiguous", "ambiguous")
    \/ \E n \in Nat, s \in {"queued", "failed", "suppressed"} :
          RecordFailure(d, n, "failed", s) /\ accepted[d] = {}

LEMMA PairWrites ==
    ASSUME TypeOK, \A w \in Workers : WorkerInv(w), Next
    PROVE  \/ UNCHANGED <<attempts, delivery>>
           \/ UNCHANGED accepted /\ \E d \in Deliveries : PairWrite(d)
<1>1. ASSUME NEW w \in Workers, RepairDeadJobDelivery(w)
      PROVE  UNCHANGED accepted /\ \E d \in Deliveries : PairWrite(d)
  <2>1. Current(w) \in Deliveries
    BY <1>1 DEF RepairDeadJobDelivery, WorkerInv, Busy, At
  <2>2. Len(attempts[Current(w)]) \in Nat
    BY <2>1, PairRows
  <2> QED
    BY <1>1, <2>1, <2>2 DEF RepairDeadJobDelivery, PairWrite, RecordStaleSendingAsAmbiguous,
                            CanMarkStale, RecordFailure
<1>2. ASSUME NEW w \in Workers, MarkStale(w)
      PROVE  \/ UNCHANGED <<attempts, delivery>>
             \/ UNCHANGED accepted /\ \E d \in Deliveries : PairWrite(d)
  <2>1. Current(w) \in Deliveries
    BY <1>2 DEF MarkStale, WorkerInv, Busy, At
  <2>2. Len(attempts[Current(w)]) \in Nat
    BY <2>1, PairRows
  <2> QED
    BY <1>2, <2>1, <2>2 DEF MarkStale, PairWrite, RecordStaleSendingAsAmbiguous,
                            CanMarkStale, RecordFailure
<1>3. ASSUME NEW w \in Workers, RecordOutcome(w)
      PROVE  UNCHANGED accepted /\ \E d \in Deliveries : PairWrite(d)
  <2> DEFINE d == Current(w)
             n == worker[w].attempt
             note == worker[w].note
  <2>1. /\ d \in Deliveries /\ n \in Nat
        /\ note \in PreDispatch \cup PostDispatch
        /\ note = "accepted" => accepted[d] = {n}
        /\ note \notin {"accepted", "unknown"} => accepted[d] = {}
    BY <1>3 DEF RecordOutcome, WorkerInv, Busy, At, TypeOK, WorkerMemory
  <2>2. CASE note = "accepted"
    BY <1>3, <2>1, <2>2 DEF RecordOutcome, PairWrite
  <2>3. CASE note = "unknown"
    BY <1>3, <2>1, <2>3 DEF RecordOutcome, PairWrite, FailedAttemptStatus,
                            FailedDeliveryStatus
  <2>4. CASE note \notin {"accepted", "unknown"}
    <3>1. /\ FailedAttemptStatus(note) = "failed"
          /\ FailedDeliveryStatus(note) \in {"queued", "failed", "suppressed"}
      BY <2>1, <2>4 DEF FailedAttemptStatus, FailedDeliveryStatus, PreDispatch, PostDispatch
    <3> QED
      BY <1>3, <2>1, <2>4, <3>1 DEF RecordOutcome, PairWrite
  <2> QED
    BY <2>2, <2>3, <2>4
<1>4. ASSUME NEW w \in Workers, NEW d \in Deliveries, StartDelivery(w, d)
      PROVE  UNCHANGED accepted /\ \E e \in Deliveries : PairWrite(e)
  BY <1>4 DEF StartDelivery, PairWrite
<1> QED
  BY <1>1, <1>2, <1>3, <1>4, StepKinds
     DEF Next, Quiet, tables, ReleaseLeases, ClaimJobs, WriteMailing, CallTransport,
         SettleSuccess, SettleFailure, TimePasses

\* What a paired write does to the rows, whichever it is.
LEMMA PairWriteRows ==
    ASSUME TypeOK, NEW d \in Deliveries, PairWrite(d)
    PROVE  /\ attempts' \in [Deliveries -> Seq(AttemptRow)]
           /\ delivery' \in [Deliveries -> DeliveryRow]
           /\ \A e \in Deliveries \ {d} : /\ attempts'[e] = attempts[e]
                                          /\ delivery'[e] = delivery[e]
           /\ IsTerminal(d) => delivery[d].status = "ambiguous" /\ delivery'[d].status = "sent"
<1>1. CASE StartSendAttempt(d)
  BY <1>1, StartRows DEF StartWrites, StartSendAttempt, CanStart, IsTerminal, TerminalStatus
<1>2. CASE MarkDeliveryFailedForDeadJob(d)
  BY <1>2 DEF MarkDeliveryFailedForDeadJob, CanFailForDeadJob, IsTerminal, TerminalStatus,
              TypeOK, TablesTypeOK, DeliveryRow, DeliveryStatus
<1>3. CASE \E n \in Nat : RecordSendSuccess(d, n) /\ accepted[d] = {n}
  <2>1. PICK n \in Nat : RecordSendSuccess(d, n)
    BY <1>3
  <2>2. /\ delivery[d].status \in {"sending", "ambiguous"}
        /\ delivery'[d] = [status |-> "sent", messageId |-> n]
    BY <2>1, SuccessRows DEF SuccessWrites
  <2>3. IsTerminal(d) => delivery[d].status = "ambiguous" /\ delivery'[d].status = "sent"
    BY <2>2 DEF IsTerminal, TerminalStatus
  <2>4. /\ attempts' \in [Deliveries -> Seq(AttemptRow)]
        /\ delivery' \in [Deliveries -> DeliveryRow]
        /\ \A e \in Deliveries \ {d} : attempts'[e] = attempts[e] /\ delivery'[e] = delivery[e]
    BY <2>1, SuccessRows DEF SuccessWrites
  <2> QED
    BY <2>3, <2>4
<1>4. CASE \E n \in Nat : RecordFailure(d, n, "ambiguous", "ambiguous")
  <2>1. PICK n \in Nat : RecordFailure(d, n, "ambiguous", "ambiguous")
    BY <1>4
  <2>2. "ambiguous" \in DeliveryStatus
    BY DEF DeliveryStatus, TerminalStatus
  <2> QED
    BY <2>1, <2>2, FailureRows DEF FailureWrites, IsTerminal, TerminalStatus
<1>5. CASE \E n \in Nat, s \in {"queued", "failed", "suppressed"} :
              RecordFailure(d, n, "failed", s) /\ accepted[d] = {}
  <2>1. PICK n \in Nat, s \in {"queued", "failed", "suppressed"} :
               RecordFailure(d, n, "failed", s)
    BY <1>5
  <2>2. s \in DeliveryStatus
    BY DEF DeliveryStatus, TerminalStatus
  <2> QED
    BY <2>1, <2>2, FailureRows DEF FailureWrites, IsTerminal, TerminalStatus
<1> QED
  BY <1>1, <1>2, <1>3, <1>4, <1>5 DEF PairWrite

\* Settled deliveries stay settled.
LEMMA TerminalStable ==
    ASSUME TypeOK, \A w \in Workers : WorkerInv(w), Next, NEW d \in Deliveries, IsTerminal(d)
    PROVE  /\ IsTerminal(d)'
           /\ \/ delivery'[d] = delivery[d]
              \/ delivery[d].status = "ambiguous" /\ delivery'[d].status = "sent"
<1>1. CASE UNCHANGED <<attempts, delivery>>
  BY <1>1 DEF IsTerminal
<1>2. ASSUME NEW e \in Deliveries, PairWrite(e)
      PROVE  \/ delivery'[d] = delivery[d]
             \/ delivery[d].status = "ambiguous" /\ delivery'[d].status = "sent"
  BY <1>2, PairWriteRows
<1>3. \/ delivery'[d] = delivery[d]
      \/ delivery[d].status = "ambiguous" /\ delivery'[d].status = "sent"
  BY <1>1, <1>2, PairWrites
<1> QED
  BY <1>3 DEF IsTerminal, TerminalStatus

-------------------------------------------------------------------------------
(* The rows and what SES has accepted keep agreeing.                       *)

LEMMA PairStep ==
    ASSUME TypeOK, NEW d \in Deliveries, PairInv(d), AcceptedInv(d), PairWrite(d),
           UNCHANGED accepted
    PROVE  PairInv(d)' /\ AcceptedInv(d)'
<1> DEFINE k == Len(attempts[d])
<1>1. attempts'[d] \in Seq(AttemptRow)
  BY PairWriteRows
<1>2. /\ Len(attempts'[d]) > 0 =>
           LatestStatus(d)' = attempts'[d][Len(attempts'[d])].status
      /\ Len(attempts'[d]) = 0 => LatestStatus(d)' = "none"
  BY <1>1 DEF LatestStatus
<1>3. CASE StartSendAttempt(d)
  <2>1. /\ Len(attempts'[d]) = k + 1 /\ k \in Nat
        /\ \A n \in 1..k : attempts'[d][n] = attempts[d][n]
        /\ attempts'[d][k + 1] = [status |-> "started", messageId |-> 0]
        /\ delivery'[d] = [status |-> "sending", messageId |-> delivery[d].messageId]
        /\ delivery[d].status = "queued"
    BY <1>3, StartRows, PairRows DEF StartWrites, StartSendAttempt, CanStart
  <2>2. k > 0 => attempts[d][k].status = "failed"
    <3>1. k > 0 => attempts[d][k].status \in AttemptStatus
                   /\ LatestStatus(d) = attempts[d][k].status
      BY <2>1, PairRows DEF AttemptRow
    <3> QED
      BY <2>1, <3>1 DEF PairInv, AttemptStatus
  <2>3. \A n \in 1..(k + 1) : n < k + 1 => attempts'[d][n].status = "failed"
    <3>1. ASSUME NEW n \in 1..(k + 1), n < k + 1
          PROVE  attempts'[d][n].status = "failed"
      <4>1. n \in 1..k /\ (n < k \/ n = k)
        BY <2>1, <3>1
      <4> QED
        BY <2>1, <2>2, <4>1 DEF PairInv
    <3> QED
      BY <3>1
  <2>4. \A n \in 1..(k + 1) : attempts'[d][n].status # "succeeded"
                                => attempts'[d][n].messageId = 0
    <3>1. \A n \in 1..(k + 1) : n \in 1..k \/ n = k + 1
      BY <2>1
    <3> QED
      BY <2>1, <3>1 DEF PairInv
  <2>5. LatestStatus(d)' = "started"
    BY <1>2, <2>1
  <2>6. accepted'[d] = {}
    BY <2>1 DEF AcceptedInv
  <2> QED
    BY <2>1, <2>3, <2>4, <2>5, <2>6 DEF PairInv, AcceptedInv
<1>4. CASE MarkDeliveryFailedForDeadJob(d)
  <2>1. /\ attempts' = attempts
        /\ delivery[d].status = "queued"
        /\ delivery'[d] = [status |-> "failed", messageId |-> delivery[d].messageId]
    BY <1>4 DEF MarkDeliveryFailedForDeadJob, CanFailForDeadJob, TypeOK, TablesTypeOK,
                DeliveryRow
  <2>2. LatestStatus(d)' = LatestStatus(d)
    BY <2>1 DEF LatestStatus
  <2> QED
    BY <2>1, <2>2 DEF PairInv, AcceptedInv
<1>5. CASE \E n \in Nat : RecordSendSuccess(d, n) /\ accepted[d] = {n}
  <2>1. PICK n \in Nat : RecordSendSuccess(d, n) /\ accepted[d] = {n}
    BY <1>5
  <2>2. /\ n = Len(attempts[d]) /\ n > 0
        /\ Len(attempts'[d]) = n
        /\ \A j \in 1..n : j < n => attempts'[d][j] = attempts[d][j]
        /\ attempts'[d][n] = [status |-> "succeeded", messageId |-> n]
        /\ delivery'[d] = [status |-> "sent", messageId |-> n]
    BY <2>1, SuccessRows DEF SuccessWrites
  <2>3. LatestStatus(d)' = "succeeded"
    BY <1>2, <2>2
  <2>4. \A j \in 1..n : /\ j < n => attempts'[d][j].status = "failed"
                        /\ attempts'[d][j].status # "succeeded"
                             => attempts'[d][j].messageId = 0
    <3>1. \A j \in 1..n : j < n \/ j = n
      BY <2>1
    <3> QED
      BY <2>2, <3>1 DEF PairInv
  <2> QED
    BY <2>1, <2>2, <2>3, <2>4 DEF PairInv, AcceptedInv
<1>6. ASSUME NEW n \in Nat, NEW a \in {"failed", "ambiguous"}, NEW s \in DeliveryStatus,
             RecordFailure(d, n, a, s),
             \/ a = "ambiguous" /\ s = "ambiguous"
             \/ a = "failed" /\ s \in {"queued", "failed", "suppressed"} /\ accepted[d] = {}
      PROVE  PairInv(d)' /\ AcceptedInv(d)'
  <2>1. /\ n = Len(attempts[d]) /\ n > 0
        /\ delivery[d].status = "sending" /\ attempts[d][n].status = "started"
        /\ Len(attempts'[d]) = n
        /\ \A j \in 1..n : j < n => attempts'[d][j] = attempts[d][j]
        /\ attempts'[d][n] = [status |-> a, messageId |-> attempts[d][n].messageId]
        /\ delivery'[d] = [status |-> s, messageId |-> delivery[d].messageId]
    <3>1. RecordFailure(d, n, a, s)
      BY <1>6
    <3>2. FailureWrites(d, n, a, s)
      BY <3>1, FailureRows
    <3> QED
      BY <3>2 DEF FailureWrites
  <2>2. LatestStatus(d)' = a
    BY <1>2, <2>1
  <2>3. \A j \in 1..n : /\ j < n => attempts'[d][j].status = "failed"
                        /\ attempts'[d][j].status # "succeeded"
                             => attempts'[d][j].messageId = 0
    <3>1. \A j \in 1..n : j < n \/ j = n
      BY <1>6
    <3> QED
      BY <2>1, <3>1 DEF PairInv
  <2> QED
    BY <1>6, <2>1, <2>2, <2>3 DEF PairInv, AcceptedInv
<1>7. {"queued", "failed", "suppressed", "ambiguous"} \subseteq DeliveryStatus
  BY DEF DeliveryStatus, TerminalStatus
<1> QED
  BY <1>3, <1>4, <1>5, <1>6, <1>7 DEF PairWrite

-------------------------------------------------------------------------------
(* The memory of the worker that acts.                                     *)

LEMMA NotingMemory ==
    ASSUME TypeOK, NEW w \in Workers, NEW pc \in Steps, NEW note \in Notes,
           GoNoting(w, pc, note)
    PROVE  /\ worker' \in [Workers -> WorkerMemory]
           /\ worker'[w].pc = pc /\ worker'[w].note = note
           /\ worker'[w].current = worker[w].current
           /\ worker'[w].attempt = worker[w].attempt
<1>1. worker[w] \in WorkerMemory
  BY DEF TypeOK
<1> DEFINE mem == [[worker[w] EXCEPT !.pc = pc] EXCEPT !.note = note]
<1>2. worker' = [worker EXCEPT ![w] = mem]
  BY DEF GoNoting, TypeOK
<1>3. mem \in WorkerMemory
  BY <1>1 DEF WorkerMemory
<1>4. worker' \in [Workers -> WorkerMemory] /\ worker'[w] = mem
  BY <1>2, <1>3 DEF TypeOK
<1> QED
  BY <1>1, <1>4 DEF WorkerMemory

\* What the step of a worker owes to its own memory: it may enter the flight of a
\* delivery by starting an attempt only.
ActorKeeps(w) ==
    /\ worker' \in [Workers -> WorkerMemory]
    /\ WorkerInv(w)'
    /\ worker'[w].pc \in InFlight =>
          \/ worker[w].pc \in InFlight /\ worker'[w].current = worker[w].current
          \/ delivery[worker'[w].current].status = "queued"

LEMMA Resting ==
    ASSUME NEW w \in Workers, worker' \in [Workers -> WorkerMemory],
           worker'[w].pc \in {"down", "idle", "visit", "claim"}
    PROVE  ActorKeeps(w)
  BY DEF ActorKeeps, WorkerInv, Busy, InFlight

LEMMA Heading ==
    ASSUME NEW w \in Workers, worker' \in [Workers -> WorkerMemory],
           worker'[w].pc \in {"reconcile", "repair", "count", "stale"},
           worker'[w].current \in Deliveries
    PROVE  ActorKeeps(w)
  BY DEF ActorKeeps, WorkerInv, Busy, InFlight, Current

\* The runner settles a job as done only when its delivery is terminal.
LEMMA Settling ==
    ASSUME NEW w \in Workers, worker' \in [Workers -> WorkerMemory],
           worker'[w].pc = "settle", worker'[w].current \in Deliveries,
           worker'[w].note = "ok" => IsTerminal(Current(w))'
    PROVE  ActorKeeps(w)
  BY DEF ActorKeeps, WorkerInv, Busy, InFlight, Current

LEMMA IdleMemory == IdleWorker \in WorkerMemory /\ IdleWorker.pc = "idle"
  BY DEF IdleWorker, WorkerMemory, Steps, Notes

LEMMA CycleEndsKeeps ==
    ASSUME TypeOK, NEW w \in Workers, CycleEnds(w)
    PROVE  ActorKeeps(w)
<1>1. worker' \in [Workers -> WorkerMemory] /\ worker'[w].pc = "idle"
  BY IdleMemory DEF CycleEnds, TypeOK
<1> QED
  BY <1>1, Resting

LEMMA NextVisitKeeps ==
    ASSUME TypeOK, NEW w \in Workers, NextVisit(w)
    PROVE  ActorKeeps(w)
<1> DEFINE mem == [worker[w] EXCEPT !.pc = "visit", !.current = NoDelivery, !.attempt = 0,
                                    !.note = "none"]
<1>1. worker[w] \in WorkerMemory
  BY DEF TypeOK
<1>2. mem \in WorkerMemory /\ mem.pc = "visit"
  BY <1>1 DEF WorkerMemory, Steps, Notes
<1>3. worker' = [worker EXCEPT ![w] = mem]
  BY DEF NextVisit, TypeOK
<1>4. worker' \in [Workers -> WorkerMemory] /\ worker'[w].pc = "visit"
  BY <1>2, <1>3 DEF TypeOK
<1> QED
  BY <1>4, Resting

LEMMA TakingMemory ==
    ASSUME TypeOK, NEW w \in Workers, NEW d \in Deliveries, NEW pc \in Steps,
           NEW n \in Nat, NEW note \in Notes, Taking(w, d, pc, n, note)
    PROVE  /\ worker' \in [Workers -> WorkerMemory]
           /\ worker'[w].pc = pc /\ worker'[w].note = note
           /\ worker'[w].current = d /\ worker'[w].attempt = n
<1> DEFINE mem == [worker[w] EXCEPT !.pc = pc, !.batch = worker[w].batch \ {d},
                                    !.current = d, !.attempt = n, !.note = note]
<1>1. worker[w] \in WorkerMemory
  BY DEF TypeOK
<1>2. /\ mem \in WorkerMemory
      /\ mem.pc = pc /\ mem.note = note /\ mem.current = d /\ mem.attempt = n
  BY <1>1 DEF WorkerMemory
<1>3. worker' = [worker EXCEPT ![w] = mem]
  BY DEF Taking, TypeOK
<1> QED
  BY <1>2, <1>3 DEF TypeOK

LEMMA ActorStep ==
    ASSUME TypeOK, NEW w \in Workers, WorkerInv(w), WorkerStep(w) \/ Crash(w),
           \A d \in Deliveries : AcceptedInv(d)
    PROVE  ActorKeeps(w)
<1> DEFINE d == Current(w)
           n == worker[w].attempt
           note == worker[w].note
<1>1. /\ worker[w] \in WorkerMemory
      /\ worker \in [Workers -> WorkerMemory]
      /\ n \in Nat /\ note \in Notes
      /\ worker[w].pc \in Busy => d \in Deliveries
  BY DEF TypeOK, WorkerMemory, WorkerInv
<1>2. /\ Steps = {"down", "idle", "visit", "claim", "reconcile", "repair", "count",
                  "refresh", "stale", "gates", "dispatch", "record", "settle"}
      /\ {"none", "ok", "error"} \cup PreDispatch \cup PostDispatch \cup DeliveryStatus
            \cup MailingState \subseteq Notes
  BY DEF Steps, Notes
<1>3. CASE ReconcileOrphanedDeadJobs(w)
  <2>1. Orphans \in SUBSET Deliveries
    BY DEF Orphans
  <2>2. worker' \in [Workers -> WorkerMemory] /\ worker'[w].pc = "visit"
    BY <1>1, <1>2, <1>3, <2>1 DEF ReconcileOrphanedDeadJobs, WorkerMemory
  <2> QED
    BY <2>2, Resting
<1>4. CASE ReconcileStuckSendingMailings(w)
  <2>1. PICK ds \in OnePerMailing(StuckMailings) :
           worker' = [worker EXCEPT ![w] = [@ EXCEPT !.phase = "stuck", !.todo = ds]]
    BY <1>4 DEF ReconcileStuckSendingMailings
  <2>2. ds \in SUBSET Deliveries /\ worker[w].pc = "visit"
    BY <1>4 DEF OnePerMailing, ReconcileStuckSendingMailings, At
  <2>3. worker' \in [Workers -> WorkerMemory] /\ worker'[w].pc = "visit"
    BY <1>1, <2>1, <2>2 DEF WorkerMemory
  <2> QED
    BY <2>3, Resting
<1>5. ASSUME NEW e \in Deliveries, NEW pc \in {"count", "reconcile"},
             worker' = [worker EXCEPT ![w] =
               [@ EXCEPT !.pc = pc, !.todo = worker[w].todo \ {e}, !.current = e]]
      PROVE  ActorKeeps(w)
  <2>1. /\ worker' \in [Workers -> WorkerMemory]
        /\ worker'[w].pc = pc /\ worker'[w].current = e
    BY <1>1, <1>2, <1>5 DEF WorkerMemory
  <2> QED
    BY <1>5, <2>1, Heading
<1>5b. CASE \E e \in Deliveries : VisitStuckMailing(w, e) \/ VisitDeadJob(w, e)
  BY <1>5, <1>5b DEF VisitStuckMailing, VisitDeadJob
<1>6. CASE ReleaseLeases(w)
  <2>1. ExpiredLeases \in SUBSET Deliveries
        /\ {e \in ExpiredLeases : Exhausted(e)} \in SUBSET Deliveries
    BY DEF ExpiredLeases
  <2>2. worker' \in [Workers -> WorkerMemory] /\ worker'[w].pc = "claim"
    BY <1>1, <1>2, <1>6, <2>1 DEF ReleaseLeases, WorkerMemory
  <2> QED
    BY <2>2, Resting
<1>7. CASE ClaimJobs(w)
  <2>1. PICK S \in Batches(Claimable \ worker[w].batch) :
           worker' = [worker EXCEPT ![w] = [@ EXCEPT !.pc = "visit", !.batch = S]]
    BY <1>7 DEF ClaimJobs
  <2>2. S \in SUBSET Deliveries
    BY DEF Batches, Claimable
  <2>3. worker' \in [Workers -> WorkerMemory] /\ worker'[w].pc = "visit"
    BY <1>1, <1>2, <2>1, <2>2 DEF WorkerMemory
  <2> QED
    BY <2>3, Resting
<1>8. CASE FinishCycle(w) \/ Restart(w)
  BY <1>8, CycleEndsKeeps DEF FinishCycle, Restart
<1>9. CASE Crash(w)
  <2>1. [IdleWorker EXCEPT !.pc = "down"] \in WorkerMemory
        /\ [IdleWorker EXCEPT !.pc = "down"].pc = "down"
    BY <1>2, IdleMemory DEF WorkerMemory
  <2>2. worker' \in [Workers -> WorkerMemory] /\ worker'[w].pc = "down"
    BY <1>1, <1>9, <2>1 DEF Crash
  <2> QED
    BY <2>2, Resting
<1>10. CASE WriteMailing(w) \/ SkipStaleLease(w)
  BY <1>10, NextVisitKeeps DEF WriteMailing, SkipStaleLease
\* The step moves on to a program counter that owes nothing but the delivery.
<1>11. ASSUME NEW pc \in {"reconcile", "repair", "count", "stale"}, NEW m \in Notes,
              GoNoting(w, pc, m), d \in Deliveries
       PROVE  ActorKeeps(w)
  <2>1. pc \in Steps
    BY <1>2
  <2>2. /\ worker' \in [Workers -> WorkerMemory]
        /\ worker'[w].pc = pc /\ worker'[w].current = d
    BY <1>11, <2>1, NotingMemory DEF Current
  <2> QED
    BY <1>11, <2>2, Heading
<1>12. ASSUME NEW m \in Notes, GoNoting(w, "settle", m), d \in Deliveries,
              m = "ok" => IsTerminal(d)'
       PROVE  ActorKeeps(w)
  <2>1. /\ worker' \in [Workers -> WorkerMemory]
        /\ worker'[w].pc = "settle" /\ worker'[w].note = m /\ worker'[w].current = d
    BY <1>2, <1>12, NotingMemory DEF Current
  <2>2. worker'[w].note = "ok" => IsTerminal(Current(w))'
    BY <1>12, <2>1 DEF IsTerminal, Current
  <2> QED
    BY <1>12, <2>1, <2>2, Settling
<1>13. CASE ReadDeadJobDelivery(w)
  <2>1. d \in Deliveries
    BY <1>1, <1>13 DEF ReadDeadJobDelivery, At, Busy
  <2>2. delivery[d].status \in Notes
    BY <1>2, <2>1 DEF TypeOK, TablesTypeOK, DeliveryRow
  <2> QED
    BY <1>2, <1>11, <1>13, <2>1, <2>2 DEF ReadDeadJobDelivery
<1>14. CASE RepairDeadJobDelivery(w)
  <2>1. d \in Deliveries
    BY <1>1, <1>14 DEF RepairDeadJobDelivery, At, Busy
  <2> QED
    BY <1>2, <1>11, <1>14, <2>1 DEF RepairDeadJobDelivery
<1>15. CASE DeadJobDeliveryMoved(w)
  <2>1. d \in Deliveries
    BY <1>1, <1>15 DEF DeadJobDeliveryMoved, At, Busy
  <2> QED
    BY <1>2, <1>11, <1>15, <2>1, CycleEndsKeeps DEF DeadJobDeliveryMoved
<1>16. CASE CountMailing(w)
  <2> DEFINE verdict == RefreshVerdict(MailingOf[d])
  <2>1. d \in Deliveries
    BY <1>1, <1>16 DEF CountMailing, At, Busy
  <2>2. verdict \in MailingState /\ (verdict = "completed" => AllTerminal(MailingOf[d]))
    BY DEF RefreshVerdict, MailingState
  <2>3. /\ worker' \in [Workers -> WorkerMemory]
        /\ worker'[w].pc = "refresh" /\ worker'[w].note = verdict
        /\ worker'[w].current = d
    BY <1>2, <1>16, <2>2, NotingMemory DEF CountMailing, Current
  <2>4. AllTerminal(MailingOf[d])' <=> AllTerminal(MailingOf[d])
    BY <1>16, <2>3 DEF CountMailing, tables, AllTerminal, IsTerminal, Current
  <2> QED
    BY <2>1, <2>2, <2>3, <2>4
       DEF ActorKeeps, WorkerInv, Busy, InFlight, Current, AllTerminal, IsTerminal,
           DeliveriesOf
<1>17. ASSUME NEW e \in Deliveries, StartDelivery(w, e)
       PROVE  ActorKeeps(w)
  <2>1. Len(attempts[e]) \in Nat
    BY PairRows
  <2>2. /\ worker' \in [Workers -> WorkerMemory]
        /\ worker'[w].pc = "gates" /\ worker'[w].current = e
        /\ worker'[w].attempt = Len(attempts[e]) + 1
    BY <1>2, <1>17, <2>1, TakingMemory DEF StartDelivery
  <2>3. /\ Len(attempts'[e]) = Len(attempts[e]) + 1
        /\ attempts'[e][Len(attempts[e]) + 1].status = "started"
        /\ delivery'[e].status = "sending"
    <3>1. StartWrites(e)
      BY <1>17, StartRows DEF StartDelivery
    <3> QED
      BY <3>1 DEF StartWrites
  <2>4. delivery[e].status = "queued"
    BY <1>17 DEF StartDelivery, StartSendAttempt, CanStart
  <2>5. accepted'[e] = {}
    BY <1>17, <2>4 DEF StartDelivery, AcceptedInv
  <2> QED
    BY <2>1, <2>2, <2>3, <2>4, <2>5
       DEF ActorKeeps, WorkerInv, Busy, InFlight, Current, InFlightPair, PairIs
<1>18. ASSUME NEW e \in Deliveries, SkipDelivery(w, e)
       PROVE  ActorKeeps(w)
  <2>1. CASE delivery[e].status = "sending"
    <3>1. /\ worker' \in [Workers -> WorkerMemory]
          /\ worker'[w].pc = "stale" /\ worker'[w].current = e
      BY <1>2, <1>18, <2>1, TakingMemory DEF SkipDelivery
    <3> QED
      BY <3>1, Heading
  <2>2. CASE delivery[e].status # "sending"
    <3>1. /\ worker' \in [Workers -> WorkerMemory]
          /\ worker'[w].pc = "settle" /\ worker'[w].current = e
      BY <1>2, <1>18, <2>2, TakingMemory DEF SkipDelivery
    <3>2. IsTerminal(e)
      BY <1>18, <2>2 DEF SkipDelivery, CanStart, IsTerminal, TypeOK, TablesTypeOK,
                         DeliveryRow, DeliveryStatus
    <3>3. IsTerminal(Current(w))'
      BY <1>18, <3>1, <3>2 DEF SkipDelivery, IsTerminal, Current, tables
    <3> QED
      BY <3>1, <3>3, Settling
  <2> QED
    BY <2>1, <2>2
<1>19. ASSUME NEW e \in Deliveries, StartFails(w, e)
       PROVE  ActorKeeps(w)
  <2>1. /\ worker' \in [Workers -> WorkerMemory]
        /\ worker'[w].pc = "settle" /\ worker'[w].current = e
        /\ worker'[w].note = "error"
    BY <1>2, <1>19, TakingMemory DEF StartFails
  <2> QED
    BY <2>1, Settling
<1>20. CASE MarkStale(w)
  <2>1. d \in Deliveries
    BY <1>1, <1>20 DEF MarkStale, At, Busy
  <2>2. CASE RecordStaleSendingAsAmbiguous(d) /\ GoNoting(w, "settle", "ok")
    <3>1. Len(attempts[d]) \in Nat /\ "ambiguous" \in DeliveryStatus
      BY <2>1, PairRows DEF DeliveryStatus, TerminalStatus
    <3>2. RecordFailure(d, Len(attempts[d]), "ambiguous", "ambiguous")
      BY <2>2 DEF RecordStaleSendingAsAmbiguous, CanMarkStale, RecordFailure
    <3>3. delivery'[d].status = "ambiguous"
      <4>1. FailureWrites(d, Len(attempts[d]), "ambiguous", "ambiguous")
        BY <2>1, <3>1, <3>2, FailureRows
      <4> QED
        BY <4>1 DEF FailureWrites
    <3>4. /\ worker' \in [Workers -> WorkerMemory]
          /\ worker'[w].pc = "settle" /\ worker'[w].current = d
      BY <1>2, <2>2, NotingMemory DEF Current
    <3>5. IsTerminal(Current(w))'
      BY <3>3, <3>4 DEF IsTerminal, Current, TerminalStatus
    <3> QED
      BY <2>1, <3>4, <3>5, Settling
  <2>3. CASE /\ GoNoting(w, "settle", IF IsTerminal(d) THEN "ok" ELSE "error")
             /\ UNCHANGED <<delivery, attempts>>
    <3>1. (IsTerminal(d))' <=> IsTerminal(d)
      <4>1. worker'[w].current = d
        BY <1>2, <2>3, NotingMemory DEF Current
      <4> QED
        BY <2>3, <4>1 DEF IsTerminal, Current
    <3> QED
      BY <1>2, <1>12, <2>1, <2>3, <3>1
  <2> QED
    BY <1>20, <2>2, <2>3 DEF MarkStale
<1>21. CASE StaleFails(w) \/ (RecordFails(w) /\ GoNoting(w, "settle", "error"))
  <2>1. d \in Deliveries
    BY <1>1, <1>21 DEF StaleFails, RecordFails, At, Busy
  <2> QED
    BY <1>2, <1>12, <1>21, <2>1 DEF StaleFails
\* The rows of a delivery in flight stay as they are while its worker moves on.
<1>22. ASSUME worker[w].pc \in InFlight, worker' \in [Workers -> WorkerMemory],
              worker'[w].current = d, worker'[w].attempt = n, UNCHANGED tables
       PROVE  InFlightPair(Current(w), worker[w].attempt)'
  BY <1>22 DEF WorkerInv, InFlightPair, PairIs, tables, Current
<1>23. CASE DecideDispatch(w)
  <2>1. /\ worker[w].pc = "gates" /\ UNCHANGED <<tables, accepted>>
        /\ d \in Deliveries /\ accepted[d] = {}
    BY <1>1, <1>23 DEF DecideDispatch, At, Busy, WorkerInv
  <2>2. /\ worker' \in [Workers -> WorkerMemory]
        /\ worker'[w].current = d /\ worker'[w].attempt = n
        /\ \/ worker'[w].pc = "dispatch"
           \/ worker'[w].pc = "record" /\ worker'[w].note \in PreDispatch
    <3>1. CASE Go(w, "dispatch")
      BY <1>1, <1>2, <3>1 DEF Go, WorkerMemory, Current
    <3>2. ASSUME NEW m \in PreDispatch, GoNoting(w, "record", m)
          PROVE  /\ worker' \in [Workers -> WorkerMemory]
                 /\ worker'[w].current = d /\ worker'[w].attempt = n
                 /\ worker'[w].pc = "record" /\ worker'[w].note \in PreDispatch
      <4>1. m \in Notes /\ "record" \in Steps
        BY <1>2
      <4> QED
        BY <3>2, <4>1, NotingMemory DEF Current
    <3> QED
      BY <1>23, <3>1, <3>2 DEF DecideDispatch
  <2>3. InFlightPair(Current(w), worker[w].attempt)'
    BY <1>22, <2>1, <2>2 DEF InFlight
  <2> QED
    BY <2>1, <2>2, <2>3
       DEF ActorKeeps, WorkerInv, Busy, InFlight, Current, PreDispatch, PostDispatch
<1>24. CASE CallTransport(w)
  <2>1. /\ worker[w].pc = "dispatch" /\ UNCHANGED tables
        /\ d \in Deliveries /\ accepted[d] = {}
    BY <1>1, <1>24 DEF CallTransport, At, Busy, WorkerInv
  <2>2. PICK reply \in PostDispatch, accepts \in BOOLEAN :
          /\ reply = "accepted" => accepts
          /\ reply \in {"rejected", "throttled"} => ~accepts
          /\ accepted' = IF accepts THEN [accepted EXCEPT ![d] = @ \cup {n}] ELSE accepted
          /\ GoNoting(w, "record", reply)
    BY <1>24 DEF CallTransport
  <2>3. /\ worker' \in [Workers -> WorkerMemory]
        /\ worker'[w].pc = "record" /\ worker'[w].note = reply
        /\ worker'[w].current = d /\ worker'[w].attempt = n
    BY <1>2, <2>2, NotingMemory DEF Current
  <2>4. accepted'[d] = IF accepts THEN {n} ELSE {}
    BY <2>1, <2>2 DEF TypeOK
  <2>5. InFlightPair(Current(w), worker[w].attempt)'
    BY <1>22, <2>1, <2>3 DEF InFlight
  <2>6. reply \notin {"accepted", "unknown"} => ~accepts
    BY <2>2 DEF PostDispatch
  <2> QED
    BY <2>1, <2>2, <2>3, <2>4, <2>5, <2>6
       DEF ActorKeeps, WorkerInv, Busy, InFlight, Current
<1>25. CASE RecordOutcome(w)
  <2>1. /\ d \in Deliveries /\ note \in PreDispatch \cup PostDispatch
        /\ GoNoting(w, "settle", Verdict(note))
    BY <1>1, <1>25 DEF RecordOutcome, At, Busy, WorkerInv
  <2>2. Verdict(note) = "ok" => delivery'[d].status \in TerminalStatus
    <3>1. CASE note = "accepted"
      <4>1. RecordSendSuccess(d, n)
        BY <1>25, <3>1 DEF RecordOutcome
      <4>2. SuccessWrites(d, n)
        BY <2>1, <4>1, SuccessRows
      <4> QED
        BY <4>2 DEF SuccessWrites, TerminalStatus
    <3>2. CASE note # "accepted"
      <4> DEFINE a == FailedAttemptStatus(note)
                 s == FailedDeliveryStatus(note)
      <4>1. /\ a \in {"failed", "ambiguous"} /\ s \in DeliveryStatus
            /\ Verdict(note) = "ok" => s \in TerminalStatus
        BY <2>1, <3>2 DEF FailedAttemptStatus, FailedDeliveryStatus, Verdict, PreDispatch,
                          PostDispatch, DeliveryStatus, TerminalStatus
      <4>2. RecordFailure(d, n, a, s)
        BY <1>25, <3>2 DEF RecordOutcome
      <4>3. FailureWrites(d, n, a, s)
        BY <2>1, <4>1, <4>2, FailureRows
      <4> QED
        BY <4>1, <4>3 DEF FailureWrites
    <3> QED
      BY <3>1, <3>2
  <2>3. Verdict(note) \in Notes
    BY <1>2 DEF Verdict
  <2>4. Verdict(note) = "ok" => IsTerminal(d)'
    <3>1. worker'[w].current = d
      BY <1>2, <2>1, <2>3, NotingMemory DEF Current
    <3> QED
      BY <2>2, <3>1 DEF IsTerminal, Current
  <2> QED
    BY <1>12, <2>1, <2>3, <2>4
<1>26. CASE OutcomeSuperseded(w)
  <2>1. /\ d \in Deliveries /\ Verdict(note) \in Notes
        /\ GoNoting(w, "settle", Verdict(note)) /\ IsTerminal(d) /\ UNCHANGED tables
    BY <1>1, <1>2, <1>26 DEF OutcomeSuperseded, At, Busy, Verdict
  <2>2. worker'[w].current = d
    BY <1>2, <2>1, NotingMemory DEF Current
  <2>3. IsTerminal(d)'
    BY <2>1, <2>2 DEF IsTerminal, Current, tables
  <2> QED
    BY <1>12, <2>1, <2>3
<1>27. CASE RecordFails(w) /\ note \in PreDispatch \ {"requeue"}
  <2>1. /\ worker[w].pc = "record" /\ UNCHANGED <<tables, accepted>>
        /\ d \in Deliveries /\ accepted[d] = {}
        /\ GoNoting(w, "record", "requeue")
    BY <1>1, <1>27 DEF RecordFails, At, Busy, WorkerInv, PreDispatch
  <2>2. "requeue" \in PreDispatch /\ "requeue" \in Notes
    BY <1>2 DEF PreDispatch
  <2>3. /\ worker' \in [Workers -> WorkerMemory]
        /\ worker'[w].pc = "record" /\ worker'[w].note = "requeue"
        /\ worker'[w].current = d /\ worker'[w].attempt = n
    BY <1>2, <2>1, <2>2, NotingMemory DEF Current
  <2>4. InFlightPair(Current(w), worker[w].attempt)'
    BY <1>22, <2>1, <2>3 DEF InFlight
  <2> QED
    BY <2>1, <2>2, <2>3, <2>4 DEF ActorKeeps, WorkerInv, Busy, InFlight, Current
<1>28. CASE RecordFails(w)
  BY <1>21, <1>27, <1>28 DEF RecordFails
<1>29. CASE SettleSuccess(w) \/ SettleFailure(w)
  <2>1. d \in Deliveries
    BY <1>1, <1>29 DEF SettleSuccess, SettleFailure, At, Busy
  <2> QED
    BY <1>2, <1>11, <1>29, <2>1 DEF SettleSuccess, SettleFailure
<1> QED
  BY <1>3, <1>4, <1>5b, <1>6, <1>7, <1>8, <1>9, <1>10, <1>13, <1>14, <1>15, <1>16, <1>17,
     <1>18, <1>19, <1>20, <1>21, <1>23, <1>24, <1>25, <1>26, <1>28, <1>29 DEF WorkerStep

-------------------------------------------------------------------------------
(* The other workers, while one acts.                                      *)

LEMMA OthersMemory ==
    ASSUME TypeOK, NEW w \in Workers, WorkerStep(w) \/ Crash(w), NEW v \in Workers \ {w}
    PROVE  worker'[v] = worker[v]
  BY OwnMemory DEF TypeOK

\* A delivery is in flight at one worker, so the other workers cannot start it, give
\* it up or record an outcome of it; all they can do is mark it ambiguous.
LEMMA InFlightStable ==
    ASSUME IInv, NEW w \in Workers, WorkerStep(w) \/ Crash(w),
           NEW v \in Workers \ {w}, worker[v].pc \in InFlight
    PROVE  /\ InFlightPair(Current(v), worker[v].attempt)'
           /\ accepted'[Current(v)] = accepted[Current(v)]
<1> DEFINE e == Current(v)
           n == worker[v].attempt
<1>1. /\ TypeOK /\ \A u \in Workers : WorkerInv(u)
      /\ e \in Deliveries /\ InFlightPair(e, n)
      /\ worker'[v] = worker[v]
  BY OthersMemory DEF IInv, WorkerInv, Busy, InFlight
<1>2. worker[w].pc \in InFlight => Current(w) # e
  BY DEF IInv, OneDispatcher, InFlight
<1>3. /\ n = Len(attempts[e]) /\ n > 0
      /\ delivery[e].status \in {"sending", "ambiguous"}
  BY <1>1, InFlightFacts
<1>4. accepted'[e] = accepted[e]
  <2>1. CASE CallTransport(w)
    BY <1>1, <1>2, <2>1 DEF CallTransport, At, InFlight, TypeOK
  <2>2. CASE UNCHANGED accepted
    BY <2>2
  <2> QED
    BY <2>1, <2>2, StepKinds
       DEF Quiet, ReleaseLeases, ClaimJobs, RepairDeadJobDelivery, WriteMailing,
           StartDelivery, MarkStale, RecordOutcome, SettleSuccess, SettleFailure
<1>5. ASSUME attempts'[e] = attempts[e], delivery'[e] = delivery[e]
      PROVE  InFlightPair(e, n)'
  BY <1>1, <1>5 DEF InFlightPair, PairIs, Current
<1>6. ASSUME NEW d \in Deliveries, RecordStaleSendingAsAmbiguous(d)
      PROVE  InFlightPair(e, n)'
  <2>1. FailureWrites(d, Len(attempts[d]), "ambiguous", "ambiguous")
    BY <1>1, <1>6, FailureRows
       DEF RecordStaleSendingAsAmbiguous, CanMarkStale, RecordFailure, DeliveryStatus,
           TerminalStatus
  <2>2. CASE d # e
    BY <1>1, <1>5, <2>1, <2>2 DEF FailureWrites
  <2>3. CASE d = e
    BY <1>1, <1>3, <2>1, <2>3 DEF FailureWrites, InFlightPair, PairIs, Current
  <2> QED
    BY <2>2, <2>3
<1>7. CASE RepairDeadJobDelivery(w) \/ MarkStale(w)
  <2>1. Current(w) \in Deliveries
    BY <1>1, <1>7 DEF RepairDeadJobDelivery, MarkStale, At, WorkerInv, Busy
  <2>2. CASE MarkDeliveryFailedForDeadJob(Current(w))
    <3>1. Current(w) # e
      BY <1>3, <2>2 DEF MarkDeliveryFailedForDeadJob, CanFailForDeadJob
    <3> QED
      BY <1>1, <1>4, <1>5, <2>2, <3>1 DEF MarkDeliveryFailedForDeadJob, TypeOK, TablesTypeOK
  <2> QED
    BY <1>5, <1>6, <1>7, <2>1, <2>2 DEF RepairDeadJobDelivery, MarkStale
<1>8. ASSUME NEW d \in Deliveries, StartDelivery(w, d)
      PROVE  InFlightPair(e, n)'
  <2>1. StartWrites(d) /\ delivery[d].status = "queued"
    BY <1>1, <1>8, StartRows DEF StartDelivery, StartSendAttempt, CanStart
  <2> QED
    BY <1>1, <1>3, <1>5, <2>1 DEF StartWrites
<1>9. CASE RecordOutcome(w)
  <2>1. worker[w].pc = "record"
    BY <1>9 DEF RecordOutcome, At
  <2>2. Current(w) # e
    BY <1>2, <2>1 DEF InFlight
  <2> QED
    BY <1>1, <1>5, <1>9, <2>2
       DEF RecordOutcome, RecordSendSuccess, RecordFailure, WriteFailurePair, TypeOK,
           TablesTypeOK
<1>10. CASE UNCHANGED <<attempts, delivery>>
  BY <1>4, <1>5, <1>10
<1> QED
  BY <1>4, <1>7, <1>8, <1>9, <1>10, StepKinds
     DEF Quiet, tables, ReleaseLeases, ClaimJobs, WriteMailing, CallTransport,
         SettleSuccess, SettleFailure

LEMMA OthersKeep ==
    ASSUME IInv, NEW w \in Workers, WorkerStep(w) \/ Crash(w), NEW v \in Workers \ {w}
    PROVE  WorkerInv(v)'
<1>1. TypeOK /\ (\A u \in Workers : WorkerInv(u)) /\ Next
  BY DEF IInv, Next
<1>2. worker'[v] = worker[v]
  BY <1>1, OthersMemory
<1>3. \A d \in Deliveries : IsTerminal(d) => IsTerminal(d)'
  BY <1>1, TerminalStable
<1>4. worker[v].pc \in Busy => Current(v) \in Deliveries
  BY <1>1 DEF WorkerInv
<1>5. worker[v].pc = "settle" /\ worker[v].note = "ok" => IsTerminal(Current(v))'
  BY <1>1, <1>2, <1>3, <1>4 DEF WorkerInv, Busy, Current, IsTerminal
<1>6. \A m : AllTerminal(m) => AllTerminal(m)'
  BY <1>3 DEF AllTerminal, DeliveriesOf
<1>7. worker[v].pc = "refresh" /\ worker[v].note = "completed"
        => AllTerminal(MailingOf[Current(v)])'
  <2>1. worker[v].pc = "refresh" /\ worker[v].note = "completed"
          => AllTerminal(MailingOf[Current(v)])
    BY <1>1 DEF WorkerInv
  <2>2. Current(v)' = Current(v)
    BY <1>2 DEF Current
  <2> QED
    BY <1>6, <2>1, <2>2 DEF AllTerminal, DeliveriesOf, IsTerminal
<1>8. worker[v].pc \in InFlight =>
        /\ InFlightPair(Current(v), worker[v].attempt)'
        /\ accepted'[Current(v)] = accepted[Current(v)]
  BY InFlightStable
<1> QED
  BY <1>1, <1>2, <1>4, <1>5, <1>7, <1>8 DEF WorkerInv, InFlight, Current

-------------------------------------------------------------------------------
(* The step of the inductive invariant, conjunct by conjunct.              *)

\* Only the runner ends a job, and only a delivery without one lacks it.
LEMMA JobEnds ==
    ASSUME JobTypeInv, TypeOK, Next, NEW d \in Deliveries,
           job'[d].state \in {"absent", "succeeded"}
    PROVE  \/ job[d].state \in {"absent", "succeeded"}
           \/ \E w \in Workers : SettleSuccess(w) /\ Current(w) = d
<1>1. CASE UNCHANGED job
  BY <1>1
<1>2. ASSUME NEW w \in Workers, ReleaseLeases(w)
      PROVE  job[d].state \in {"absent", "succeeded"}
  <2>1. job'[d] = IF d \in ExpiredLeases THEN Released(d) ELSE job[d]
    BY <1>2 DEF ReleaseLeases, ReleaseExpiredSendDeliveryLeases
  <2> QED
    BY <2>1, ReleasedRow
<1>3. ASSUME NEW w \in Workers, ClaimJobs(w)
      PROVE  job[d].state \in {"absent", "succeeded"}
  BY <1>3 DEF ClaimJobs, ClaimSendDeliveryJobs
<1>4. ASSUME NEW w \in Workers, SettleSuccess(w)
      PROVE  job[d].state \in {"absent", "succeeded"} \/ Current(w) = d
  BY <1>4 DEF SettleSuccess, CompleteSendDeliveryJob, JobTypeInv
<1>5. ASSUME NEW w \in Workers, SettleFailure(w)
      PROVE  job[d].state \in {"absent", "succeeded"}
  <2>1. job' = [job EXCEPT ![Current(w)] = Released(Current(w))]
    BY <1>5 DEF SettleFailure, FailSendDeliveryJob
  <2>2. CASE Current(w) = d
    BY <2>1, <2>2, ReleasedRow DEF JobTypeInv
  <2> QED
    BY <2>1, <2>2 DEF JobTypeInv
<1>6. ASSUME NEW e \in Deliveries, TimePasses(e)
      PROVE  job[d].state \in {"absent", "succeeded"}
  BY <1>6 DEF TimePasses, DeadlinePasses, JobTypeInv, JobRow
<1> QED
  BY <1>1, <1>2, <1>3, <1>4, <1>5, <1>6, StepKinds
     DEF Next, Quiet, tables, RepairDeadJobDelivery, WriteMailing, StartDelivery,
         MarkStale, CallTransport, RecordOutcome

LEMMA JobStep ==
    ASSUME IInv, Next, NEW d \in Deliveries
    PROVE  JobInv(d)'
<1>1. /\ TypeOK /\ \A w \in Workers : WorkerInv(w)
      /\ JobTypeInv /\ JobInv(d)
  BY DEF IInv, JobTypeInv, JobInv, TypeOK, TablesTypeOK
<1>2. job'[d].state = "queued" => job'[d].attempts < MaxAttempts
  BY <1>1, JobTypeStep DEF JobTypeInv
<1>3. ASSUME job'[d].state \in {"absent", "succeeded"}
      PROVE  IsTerminal(d)'
  <2>1. CASE job[d].state \in {"absent", "succeeded"}
    BY <1>1, <2>1, TerminalStable DEF JobInv
  <2>2. ASSUME NEW w \in Workers, SettleSuccess(w), Current(w) = d
        PROVE  IsTerminal(d)'
    BY <1>1, <2>2 DEF SettleSuccess, At, WorkerInv, IsTerminal
  <2> QED
    BY <1>1, <1>3, <2>1, <2>2, JobEnds
<1> QED
  BY <1>2, <1>3 DEF JobInv

LEMMA RowsStep ==
    ASSUME IInv, Next, NEW d \in Deliveries
    PROVE  PairInv(d)' /\ AcceptedInv(d)'
<1>1. /\ TypeOK /\ (\A w \in Workers : WorkerInv(w))
      /\ PairInv(d) /\ AcceptedInv(d)
  BY DEF IInv
<1>2. ASSUME UNCHANGED accepted, NEW e \in Deliveries, PairWrite(e)
      PROVE  PairInv(d)' /\ AcceptedInv(d)'
  <2>1. CASE e = d
    BY <1>1, <1>2, <2>1, PairStep
  <2>2. CASE e # d
    <3>1. attempts'[d] = attempts[d] /\ delivery'[d] = delivery[d]
      BY <1>1, <1>2, <2>2, PairWriteRows
    <3> QED
      BY <1>1, <1>2, <3>1 DEF PairInv, AcceptedInv, LatestStatus
  <2> QED
    BY <2>1, <2>2
<1>3. CASE UNCHANGED <<attempts, delivery>>
  <2>1. PairInv(d)'
    BY <1>1, <1>3 DEF PairInv, LatestStatus
  <2>2. ASSUME NEW w \in Workers, CallTransport(w)
        PROVE  AcceptedInv(d)'
    <3> DEFINE e == Current(w)
    <3>1. /\ e \in Deliveries /\ accepted[e] = {}
          /\ InFlightPair(e, worker[w].attempt)
      BY <1>1, <2>2 DEF CallTransport, At, WorkerInv, Busy, InFlight
    <3>2. /\ worker[w].attempt = Len(attempts[e])
          /\ delivery[e].status \in {"sending", "ambiguous"}
      BY <1>1, <3>1, InFlightFacts
    <3>3. PICK accepts \in BOOLEAN :
            accepted' = IF accepts
                        THEN [accepted EXCEPT ![e] = @ \cup {worker[w].attempt}]
                        ELSE accepted
      BY <2>2 DEF CallTransport
    <3>4. CASE d = e
      BY <1>1, <1>3, <3>1, <3>2, <3>3, <3>4 DEF AcceptedInv, TypeOK
    <3>5. CASE d # e
      BY <1>1, <1>3, <3>3, <3>5 DEF AcceptedInv, TypeOK
    <3> QED
      BY <3>4, <3>5
  <2>3. CASE UNCHANGED accepted
    BY <1>1, <1>3, <2>1, <2>3 DEF AcceptedInv
  <2> QED
    BY <2>1, <2>2, <2>3, StepKinds
       DEF Next, Quiet, ReleaseLeases, ClaimJobs, RepairDeadJobDelivery, WriteMailing,
           StartDelivery, MarkStale, RecordOutcome, SettleSuccess, SettleFailure,
           TimePasses
<1> QED
  BY <1>1, <1>2, <1>3, PairWrites

LEMMA MailingTypeStep ==
    ASSUME IInv, Next
    PROVE  mailing' \in [Mailings -> MailingState]
<1>1. /\ mailing \in [Mailings -> MailingState]
      /\ {"scheduled", "sending", "completed"} = MailingState
      /\ \A w \in Workers : WorkerInv(w)
  BY DEF IInv, TypeOK, TablesTypeOK, MailingState
<1>2. ASSUME NEW w \in Workers, WriteMailing(w)
      PROVE  mailing' \in [Mailings -> MailingState]
  <2>1. worker[w].note \in MailingState
    BY <1>1, <1>2 DEF WriteMailing, At, WorkerInv
  <2> QED
    BY <1>1, <1>2, <2>1 DEF WriteMailing, RefreshMailingState
<1>3. ASSUME NEW w \in Workers, NEW d \in Deliveries, StartDelivery(w, d)
      PROVE  mailing' \in [Mailings -> MailingState]
  BY <1>1, <1>3 DEF StartDelivery, StartSendAttempt, MarkMailingSending
<1> QED
  BY <1>1, <1>2, <1>3, StepKinds
     DEF Next, Quiet, tables, ReleaseLeases, ClaimJobs, RepairDeadJobDelivery, MarkStale,
         CallTransport, RecordOutcome, SettleSuccess, SettleFailure, TimePasses

LEMMA TypeStep ==
    ASSUME IInv, Next
    PROVE  TypeOK'
<1>1. /\ TypeOK /\ (\A w \in Workers : WorkerInv(w)) /\ JobTypeInv
      /\ \A d \in Deliveries : AcceptedInv(d)
  BY DEF IInv, JobTypeInv, JobInv, TypeOK, TablesTypeOK
<1>2. job' \in [Deliveries -> JobRow]
  BY <1>1, JobTypeStep DEF JobTypeInv
<1>3. /\ delivery' \in [Deliveries -> DeliveryRow]
      /\ attempts' \in [Deliveries -> Seq(AttemptRow)]
  <2>1. CASE UNCHANGED <<attempts, delivery>>
    BY <1>1, <2>1 DEF TypeOK, TablesTypeOK
  <2>2. ASSUME NEW d \in Deliveries, PairWrite(d)
        PROVE  /\ delivery' \in [Deliveries -> DeliveryRow]
               /\ attempts' \in [Deliveries -> Seq(AttemptRow)]
    BY <1>1, <2>2, PairWriteRows
  <2> QED
    BY <1>1, <2>1, <2>2, PairWrites
<1>4. worker' \in [Workers -> WorkerMemory]
  <2>1. ASSUME NEW w \in Workers, WorkerStep(w) \/ Crash(w)
        PROVE  worker' \in [Workers -> WorkerMemory]
    BY <1>1, <2>1, ActorStep DEF ActorKeeps
  <2>2. ASSUME NEW d \in Deliveries, TimePasses(d)
        PROVE  worker' \in [Workers -> WorkerMemory]
    BY <1>1, <2>2 DEF TimePasses, TypeOK
  <2> QED
    BY <2>1, <2>2 DEF Next
<1>5. accepted' \in [Deliveries -> SUBSET Nat]
  <2>1. accepted \in [Deliveries -> SUBSET Nat]
    BY <1>1 DEF TypeOK
  <2>2. ASSUME NEW w \in Workers, CallTransport(w)
        PROVE  accepted' \in [Deliveries -> SUBSET Nat]
    <3>1. worker[w].attempt \in Nat
      BY <1>1 DEF TypeOK, WorkerMemory
    <3> QED
      BY <2>1, <2>2, <3>1 DEF CallTransport
  <2> QED
    BY <2>1, <2>2, StepKinds
       DEF Next, Quiet, ReleaseLeases, ClaimJobs, RepairDeadJobDelivery, WriteMailing,
           StartDelivery, MarkStale, RecordOutcome, SettleSuccess, SettleFailure,
           TimePasses
<1> QED
  BY <1>2, <1>3, <1>4, <1>5, MailingTypeStep DEF TypeOK, TablesTypeOK

LEMMA WorkersStep ==
    ASSUME IInv, Next, NEW v \in Workers
    PROVE  WorkerInv(v)'
<1>1. TypeOK /\ (\A w \in Workers : WorkerInv(w)) /\ \A d \in Deliveries : AcceptedInv(d)
  BY DEF IInv
<1>2. ASSUME NEW w \in Workers, WorkerStep(w) \/ Crash(w)
      PROVE  WorkerInv(v)'
  <2>1. CASE v = w
    BY <1>1, <1>2, <2>1, ActorStep DEF ActorKeeps
  <2>2. CASE v # w
    BY <1>2, <2>2, OthersKeep
  <2> QED
    BY <2>1, <2>2
<1>3. ASSUME NEW d \in Deliveries, TimePasses(d)
      PROVE  WorkerInv(v)'
  BY <1>1, <1>3 DEF TimePasses, WorkerInv, Current, InFlightPair, PairIs, IsTerminal,
                    AllTerminal
<1> QED
  BY <1>2, <1>3 DEF Next

\* A worker enters the flight of a delivery that is queued, hence at nobody's hands.
LEMMA DispatcherStep ==
    ASSUME IInv, Next
    PROVE  OneDispatcher'
<1>1. TypeOK /\ (\A w \in Workers : WorkerInv(w)) /\ \A d \in Deliveries : AcceptedInv(d)
  BY DEF IInv
<1>2. \A u, v \in Workers : worker[u].pc \in InFlight /\ worker[v].pc \in InFlight
                              /\ worker[u].current = worker[v].current => u = v
  BY DEF IInv, OneDispatcher, InFlight, Current
<1>3. ASSUME NEW w \in Workers, WorkerStep(w) \/ Crash(w), NEW v \in Workers \ {w},
             worker'[w].pc \in InFlight, worker[v].pc \in InFlight,
             worker'[w].current = worker[v].current
      PROVE  FALSE
  <2>1. \/ worker[w].pc \in InFlight /\ worker'[w].current = worker[w].current
        \/ delivery[worker'[w].current].status = "queued"
    BY <1>1, <1>3, ActorStep DEF ActorKeeps
  <2>2. delivery[worker[v].current].status \in {"sending", "ambiguous"}
    BY <1>1, <1>3, InFlightFacts DEF WorkerInv, InFlight, Busy, Current
  <2> QED
    BY <1>2, <1>3, <2>1, <2>2
<1>4. ASSUME NEW w \in Workers, WorkerStep(w) \/ Crash(w)
      PROVE  \A u, v \in Workers : worker'[u].pc \in InFlight /\ worker'[v].pc \in InFlight
                              /\ worker'[u].current = worker'[v].current => u = v
  <2>1. \A v \in Workers \ {w} : worker'[v] = worker[v]
    BY <1>1, <1>4, OthersMemory
  <2> QED
    BY <1>2, <1>3, <1>4, <2>1
<1>5. CASE UNCHANGED worker
  BY <1>2, <1>5 DEF OneDispatcher, InFlight, Current
<1> QED
  BY <1>4, <1>5 DEF Next, TimePasses, OneDispatcher, InFlight, Current

LEMMA CompletedStep ==
    ASSUME IInv, Next
    PROVE  CompletedIsSettled'
<1>1. TypeOK /\ (\A w \in Workers : WorkerInv(w)) /\ CompletedIsSettled
      /\ mailing \in [Mailings -> MailingState]
  BY DEF IInv, TypeOK, TablesTypeOK
<1>2. \A m : AllTerminal(m) => AllTerminal(m)'
  BY <1>1, TerminalStable DEF AllTerminal, DeliveriesOf
<1>3. ASSUME NEW w \in Workers, WriteMailing(w)
      PROVE  CompletedIsSettled'
  <2> DEFINE d == Current(w)
  <2>1. d \in Deliveries /\ (worker[w].note = "completed" => AllTerminal(MailingOf[d]))
    BY <1>1, <1>3 DEF WriteMailing, At, WorkerInv, Busy
  <2>2. \/ UNCHANGED mailing
        \/ mailing' = [mailing EXCEPT ![MailingOf[d]] = worker[w].note]
    BY <1>3 DEF WriteMailing, RefreshMailingState
  <2>3. ASSUME NEW m \in Mailings, mailing'[m] = "completed"
        PROVE  AllTerminal(m)
    BY <1>1, <2>1, <2>2, <2>3 DEF CompletedIsSettled
  <2> QED
    BY <1>2, <2>3 DEF CompletedIsSettled
<1>4. ASSUME NEW w \in Workers, NEW d \in Deliveries, StartDelivery(w, d)
      PROVE  CompletedIsSettled'
  <2>1. \A m \in Mailings : mailing'[m] = "completed" => mailing[m] = "completed"
    BY <1>1, <1>4 DEF StartDelivery, StartSendAttempt, MarkMailingSending
  <2> QED
    BY <1>1, <1>2, <2>1 DEF CompletedIsSettled
<1>5. CASE UNCHANGED mailing
  BY <1>1, <1>2, <1>5 DEF CompletedIsSettled
<1> QED
  BY <1>3, <1>4, <1>5, StepKinds
     DEF Next, Quiet, tables, ReleaseLeases, ClaimJobs, RepairDeadJobDelivery, MarkStale,
         CallTransport, RecordOutcome, SettleSuccess, SettleFailure, TimePasses

-------------------------------------------------------------------------------
(* The inductive invariant holds initially and is preserved.               *)

LEMMA InvInit == Init => IInv
<1> SUFFICES ASSUME Init
             PROVE  IInv
  OBVIOUS
<1>1. PICK queued \in SUBSET Deliveries :
        /\ delivery = [d \in Deliveries |->
                        NewDelivery(IF d \in queued THEN "queued" ELSE "suppressed")]
        /\ job = [d \in Deliveries |-> IF d \in queued THEN NewJob ELSE NoJob]
        /\ attempts = [d \in Deliveries |-> <<>>]
        /\ mailing = [m \in Mailings |-> "scheduled"]
  BY DEF Init, TablesInit
<1>2. 0 \in 0..MaxAttempts /\ 0 < MaxAttempts
  BY MaxAttemptsAssumption
<1>3. job \in [Deliveries -> JobRow]
  BY <1>1, <1>2 DEF NewJob, NoJob, JobRow, JobState
<1>4. delivery \in [Deliveries -> DeliveryRow]
  BY <1>1 DEF NewDelivery, DeliveryRow, DeliveryStatus, TerminalStatus
<1>5. attempts \in [Deliveries -> Seq(AttemptRow)] /\ mailing \in [Mailings -> MailingState]
  BY <1>1 DEF MailingState
<1>6. /\ worker \in [Workers -> WorkerMemory]
      /\ \A w \in Workers : worker[w].pc = "idle"
      /\ accepted \in [Deliveries -> SUBSET Nat]
      /\ \A d \in Deliveries : accepted[d] = {}
  BY IdleMemory DEF Init
<1>7. TypeOK
  BY <1>3, <1>4, <1>5, <1>6 DEF TypeOK, TablesTypeOK
<1>8. ASSUME NEW d \in Deliveries
      PROVE  PairInv(d) /\ AcceptedInv(d) /\ JobInv(d)
  <2>1. /\ delivery[d].status \in {"queued", "suppressed"} /\ delivery[d].messageId = 0
        /\ delivery[d].status = "queued" => job[d].state = "queued" /\ job[d].attempts = 0
        /\ delivery[d].status = "suppressed" => job[d].state = "absent"
    BY <1>1 DEF NewDelivery, NewJob, NoJob
  <2>2. attempts[d] = <<>> /\ Len(attempts[d]) = 0
    BY <1>1
  <2>3. PairInv(d)
    BY <2>1, <2>2 DEF PairInv, LatestStatus
  <2> QED
    BY <1>2, <1>6, <2>1, <2>3 DEF AcceptedInv, JobInv, IsTerminal, TerminalStatus
<1>9. \A w \in Workers : WorkerInv(w)
  BY <1>6 DEF WorkerInv, Busy, InFlight
<1>10. OneDispatcher /\ CompletedIsSettled
  BY <1>1, <1>6 DEF OneDispatcher, CompletedIsSettled
<1> QED
  BY <1>7, <1>8, <1>9, <1>10 DEF IInv

LEMMA InvStep == IInv /\ [Next]_vars => IInv'
<1> SUFFICES ASSUME IInv, [Next]_vars
             PROVE  IInv'
  OBVIOUS
<1>1. CASE Next
  BY <1>1, TypeStep, RowsStep, JobStep, WorkersStep, DispatcherStep, CompletedStep DEF IInv
<1>2. CASE UNCHANGED vars
  <2>1. UNCHANGED <<job, delivery, attempts, mailing, worker, accepted>>
    BY <1>2 DEF vars, tables
  <2>2. TypeOK'
    BY <2>1 DEF IInv, TypeOK, TablesTypeOK
  <2>3. \A d \in Deliveries : PairInv(d)' /\ AcceptedInv(d)' /\ JobInv(d)'
    BY <2>1 DEF IInv, PairInv, AcceptedInv, JobInv, LatestStatus, IsTerminal
  <2>4. \A w \in Workers : WorkerInv(w)'
    BY <2>1 DEF IInv, WorkerInv, Current, InFlightPair, PairIs, IsTerminal, AllTerminal
  <2>5. OneDispatcher' /\ CompletedIsSettled'
    BY <2>1 DEF IInv, OneDispatcher, CompletedIsSettled, Current, AllTerminal, IsTerminal
  <2> QED
    BY <2>2, <2>3, <2>4, <2>5 DEF IInv
<1> QED
  BY <1>1, <1>2

\* The inductive invariant holds in every state the workers reach.
THEOREM Invariance == Spec => []IInv
<1> QED
  BY InvInit, InvStep, PTL DEF Spec

-------------------------------------------------------------------------------
(* The properties the model-checking runs check, for every instance.       *)

\* Every variable keeps its type; above all no claim exceeds max_attempts, and no
\* stale lease does (jobs.ts, the CHECK of the table jobs).
THEOREM TypeCorrect == Spec => []TypeOK
<1>1. IInv => TypeOK
  BY DEF IInv
<1> QED
  BY <1>1, Invariance, PTL

\* The paired writes of attempts.ts keep a delivery and its attempts in agreement.
THEOREM PairsAlwaysAgree == Spec => []PairsAgree
<1>1. IInv => PairsAgree
  BY DEF IInv, PairsAgree, PairInv
<1> QED
  BY <1>1, Invariance, PTL

\* No message is accepted by SES twice, whatever leases expire and workers crash
\* between startSendAttempt, the call and the record of its outcome.
THEOREM NeverAcceptedTwice == Spec => []AcceptedOnce
<1>1. IInv => AcceptedOnce
  BY DEF IInv, AcceptedOnce, AcceptedInv
<1> QED
  BY <1>1, Invariance, PTL

\* One worker at most is between start and record of a delivery.
THEOREM AlwaysOneDispatcher == Spec => []OneDispatcher
<1>1. IInv => OneDispatcher
  BY DEF IInv
<1> QED
  BY <1>1, Invariance, PTL

\* recordSendSuccess never finds its pair in a state it cannot record the MessageId in.
THEOREM SuccessAlwaysRecordable == Spec => []SuccessIsRecordable
<1>1. IInv => SuccessIsRecordable
  <2> SUFFICES ASSUME IInv, NEW w \in Workers, At(w, "record"),
                      worker[w].note = "accepted"
               PROVE  CanRecordSuccess(Current(w), worker[w].attempt)
    BY DEF SuccessIsRecordable
  <2> DEFINE d == Current(w)
             n == worker[w].attempt
  <2>1. TypeOK /\ d \in Deliveries /\ InFlightPair(d, n) /\ PairInv(d)
    BY DEF IInv, WorkerInv, At, Busy, InFlight
  <2>2. /\ n \in 1..Len(attempts[d]) /\ LatestStatus(d) = attempts[d][n].status
        /\ delivery[d].status \in {"sending", "ambiguous"}
    BY <2>1, InFlightFacts
  <2>3. attempts[d][n].messageId = 0 /\ delivery[d].messageId = 0
    BY <2>1, <2>2 DEF PairInv
  <2> QED
    BY <2>1, <2>3 DEF CanRecordSuccess, CompatibleMessage, InFlightPair
<1> QED
  BY <1>1, Invariance, PTL

\* What the processor cannot record has been settled by another worker.
THEOREM AlwaysConsistent == Spec => []NeverInconsistent
<1>1. IInv => NeverInconsistent
  <2> SUFFICES ASSUME IInv, NEW w \in Workers, At(w, "record")
               PROVE  Recordable(w) \/ IsTerminal(Current(w))
    BY DEF NeverInconsistent
  <2> DEFINE d == Current(w)
             n == worker[w].attempt
  <2>1. TypeOK /\ d \in Deliveries /\ InFlightPair(d, n) /\ PairInv(d)
    BY DEF IInv, WorkerInv, At, Busy, InFlight
  <2>2. CASE PairIs(d, n, "ambiguous", "ambiguous")
    BY <2>2 DEF PairIs, IsTerminal, TerminalStatus
  <2>3. CASE PairIs(d, n, "started", "sending")
    <3>1. /\ n \in 1..Len(attempts[d]) /\ LatestStatus(d) = attempts[d][n].status
      BY <2>1, InFlightFacts
    <3>2. attempts[d][n].messageId = 0 /\ delivery[d].messageId = 0
      BY <2>1, <2>3, <3>1 DEF PairInv, PairIs
    <3> QED
      BY <2>3, <3>2 DEF Recordable, CanRecordSuccess, CanRecordFailure, CompatibleMessage
  <2> QED
    BY <2>1, <2>2, <2>3 DEF InFlightPair
<1> QED
  BY <1>1, Invariance, PTL

\* A delivery that is not settled keeps a job, so that some cycle looks at it again.
THEOREM JobNeverLost == Spec => []JobNotLost
<1>1. IInv => JobNotLost
  BY DEF IInv, JobNotLost, JobInv, TypeOK, TablesTypeOK, JobRow, JobState
<1> QED
  BY <1>1, Invariance, PTL

\* refreshMailingStateForDelivery completes no mailing that still has work, although
\* its counts are stale when it writes.
THEOREM CompletedMailingsSettled == Spec => []CompletedIsSettled
<1>1. IInv => CompletedIsSettled
  BY DEF IInv
<1> QED
  BY <1>1, Invariance, PTL

\* A settled delivery stays as it is, but for the late success of an ambiguous one.
THEOREM OutcomesStayFinal == Spec => OutcomesAreFinal
<1>1. IInv /\ [Next]_vars =>
        [\A d \in Deliveries : IsTerminal(d) =>
           \/ delivery'[d] = delivery[d]
           \/ delivery[d].status = "ambiguous" /\ delivery'[d].status = "sent"]_delivery
  <2> SUFFICES ASSUME IInv, [Next]_vars, NEW d \in Deliveries, IsTerminal(d)
               PROVE  \/ delivery'[d] = delivery[d]
                      \/ delivery[d].status = "ambiguous" /\ delivery'[d].status = "sent"
    OBVIOUS
  <2>1. CASE Next
    BY <2>1, TerminalStable DEF IInv
  <2>2. CASE UNCHANGED vars
    BY <2>2 DEF vars, tables
  <2> QED
    BY <2>1, <2>2
<1> QED
  BY <1>1, Invariance, PTL DEF Spec, OutcomesAreFinal

-------------------------------------------------------------------------------
(* Each attempt was paid for by a claim.  A claim pays for the attempt of  *)
(* the worker that made it, whether or not the lease is still held when    *)
(* the attempt starts, so the claims that are not used up yet are counted  *)
(* at the workers and not in the table.                                    *)

\* The workers that hold the delivery claimed and not yet started.
Holders(d) == {w \in Workers : worker[w].pc # "claim" /\ d \in worker[w].batch}

PaidInv(d) ==
    /\ IsFiniteSet(Holders(d))
    /\ Len(attempts[d]) + Cardinality(Holders(d)) <= job[d].attempts

\* What GoNoting and Go leave alone.
LEMMA NotingBatch ==
    ASSUME TypeOK, NEW w \in Workers, NEW pc, NEW note, GoNoting(w, pc, note) \/ Go(w, pc)
    PROVE  worker'[w].batch = worker[w].batch
<1>1. worker[w] \in WorkerMemory
  BY DEF TypeOK
<1>2. CASE GoNoting(w, pc, note)
  BY <1>1, <1>2 DEF GoNoting, TypeOK, WorkerMemory
<1>3. CASE Go(w, pc)
  BY <1>1, <1>3 DEF Go, TypeOK, WorkerMemory
<1> QED
  BY <1>2, <1>3

\* Only a claim gives a worker deliveries to start.
LEMMA BatchStep ==
    ASSUME TypeOK, NEW w \in Workers, WorkerStep(w) \/ Crash(w), ~ClaimJobs(w)
    PROVE  \/ worker'[w].pc = "claim"
           \/ worker[w].pc # "claim" /\ worker'[w].batch \subseteq worker[w].batch
           \/ worker'[w].batch = {}
<1> DEFINE Fewer == worker[w].pc # "claim" /\ worker'[w].batch \subseteq worker[w].batch
<1>1. worker[w] \in WorkerMemory /\ worker \in [Workers -> WorkerMemory]
  BY DEF TypeOK
<1>2. CASE ReconcileOrphanedDeadJobs(w)
  BY <1>1, <1>2 DEF ReconcileOrphanedDeadJobs, At, WorkerMemory
<1>3. CASE ReconcileStuckSendingMailings(w)
  BY <1>1, <1>3 DEF ReconcileStuckSendingMailings, At, WorkerMemory
<1>4. CASE \E d \in Deliveries : VisitStuckMailing(w, d)
  BY <1>1, <1>4 DEF VisitStuckMailing, At, WorkerMemory
<1>5. CASE ReleaseLeases(w)
  BY <1>1, <1>5 DEF ReleaseLeases, WorkerMemory
<1>6. CASE FinishCycle(w) \/ Restart(w) \/ Crash(w)
  BY <1>1, <1>6 DEF FinishCycle, Restart, Crash, CycleEnds, IdleWorker
<1>7. CASE \E d \in Deliveries : VisitDeadJob(w, d)
  BY <1>1, <1>7 DEF VisitDeadJob, At, WorkerMemory
<1>8. CASE ReadDeadJobDelivery(w) \/ RepairDeadJobDelivery(w)
  BY <1>8, NotingBatch DEF ReadDeadJobDelivery, RepairDeadJobDelivery, At
<1>9. CASE DeadJobDeliveryMoved(w)
  <2>1. CASE CycleEnds(w)
    BY <1>1, <2>1 DEF CycleEnds, IdleWorker
  <2>2. CASE GoNoting(w, "count", "none")
    BY <1>9, <2>2, NotingBatch DEF DeadJobDeliveryMoved, At
  <2> QED
    BY <1>9, <2>1, <2>2 DEF DeadJobDeliveryMoved
<1>10. CASE CountMailing(w)
  BY <1>10, NotingBatch DEF CountMailing, At
<1>11. CASE WriteMailing(w) \/ SkipStaleLease(w)
  <2>1. worker[w].pc # "claim" /\ NextVisit(w)
    BY <1>11 DEF WriteMailing, SkipStaleLease, At
  <2>2. worker'[w].batch = worker[w].batch
    BY <1>1, <2>1 DEF NextVisit, WorkerMemory
  <2> QED
    BY <2>1, <2>2
<1>12. CASE \E d \in Deliveries : StartDelivery(w, d) \/ SkipDelivery(w, d) \/ StartFails(w, d)
  <2>1. PICK d \in Deliveries : StartDelivery(w, d) \/ SkipDelivery(w, d) \/ StartFails(w, d)
    BY <1>12
  <2>2. At(w, "visit") /\ \E pc, n, note : Taking(w, d, pc, n, note)
    BY <2>1 DEF StartDelivery, SkipDelivery, StartFails, Takes
  <2> QED
    BY <1>1, <2>2 DEF Taking, At, WorkerMemory
<1>13. CASE MarkStale(w) \/ StaleFails(w)
  BY <1>13, NotingBatch DEF MarkStale, StaleFails, At
<1>14. CASE DecideDispatch(w) \/ CallTransport(w)
  BY <1>14, NotingBatch DEF DecideDispatch, CallTransport, At
<1>15. CASE RecordOutcome(w) \/ OutcomeSuperseded(w) \/ RecordFails(w)
  BY <1>15, NotingBatch DEF RecordOutcome, OutcomeSuperseded, RecordFails, At
<1>16. CASE SettleSuccess(w) \/ SettleFailure(w)
  BY <1>16, NotingBatch DEF SettleSuccess, SettleFailure, At
<1> QED
  BY <1>2, <1>3, <1>4, <1>5, <1>6, <1>7, <1>8, <1>9, <1>10, <1>11, <1>12, <1>13, <1>14,
     <1>15, <1>16 DEF WorkerStep

\* Only a claim gives a worker deliveries, and a worker that starts one has it no more to start.
LEMMA HoldersStep ==
    ASSUME TypeOK, NEW w \in Workers, WorkerStep(w) \/ Crash(w), NEW d \in Deliveries
    PROVE  /\ Holders(d)' \subseteq Holders(d) \cup {w}
           /\ ~ClaimJobs(w) => Holders(d)' \subseteq Holders(d)
           /\ StartDelivery(w, d) => w \in Holders(d) /\ w \notin Holders(d)'
<1>1. \A v \in Workers \ {w} : worker'[v] = worker[v]
  BY OthersMemory
<1>2. ~ClaimJobs(w) => Holders(d)' \subseteq Holders(d)
  BY <1>1, BatchStep DEF Holders
<1>3. ASSUME StartDelivery(w, d)
      PROVE  w \in Holders(d) /\ w \notin Holders(d)'
  <2>1. worker[w] \in WorkerMemory /\ worker \in [Workers -> WorkerMemory]
    BY DEF TypeOK
  <2>2. \E pc, n, note : Taking(w, d, pc, n, note)
    BY <1>3 DEF StartDelivery
  <2>3. d \notin worker'[w].batch
    BY <2>1, <2>2 DEF Taking, WorkerMemory
  <2> QED
    BY <1>3, <2>3 DEF StartDelivery, Takes, At, Holders
<1> QED
  BY <1>1, <1>2, <1>3 DEF Holders

\* jobs.attempts never goes down.
LEMMA JobAttemptsStep ==
    ASSUME TypeOK, \A w \in Workers : WorkerInv(w), Next, NEW d \in Deliveries
    PROVE  job'[d].attempts >= job[d].attempts
<1>1. job[d] \in JobRow /\ job \in [Deliveries -> JobRow] /\ job[d].attempts \in Nat
  BY DEF TypeOK, TablesTypeOK, JobRow
<1>2. ASSUME NEW w \in Workers, ReleaseLeases(w)
      PROVE  job'[d].attempts = job[d].attempts
  BY <1>1, <1>2 DEF ReleaseLeases, ReleaseExpiredSendDeliveryLeases, Released
<1>3. ASSUME NEW w \in Workers, ClaimJobs(w)
      PROVE  job'[d].attempts \in {job[d].attempts, job[d].attempts + 1}
  BY <1>1, <1>3 DEF ClaimJobs, ClaimSendDeliveryJobs
<1>4. ASSUME NEW w \in Workers, SettleSuccess(w)
      PROVE  job'[d].attempts = job[d].attempts
  BY <1>1, <1>4 DEF SettleSuccess, CompleteSendDeliveryJob, JobRow
<1>5. ASSUME NEW w \in Workers, SettleFailure(w)
      PROVE  job'[d].attempts = job[d].attempts
  BY <1>1, <1>5 DEF SettleFailure, FailSendDeliveryJob, Released
<1>6. ASSUME NEW e \in Deliveries, TimePasses(e)
      PROVE  job'[d].attempts = job[d].attempts
  BY <1>1, <1>6 DEF TimePasses, DeadlinePasses, JobRow
<1>7. CASE UNCHANGED job
  BY <1>1, <1>7
<1> QED
  BY <1>1, <1>2, <1>3, <1>4, <1>5, <1>6, <1>7, StepKinds
     DEF Next, Quiet, tables, RepairDeadJobDelivery, WriteMailing, StartDelivery,
         MarkStale, CallTransport, RecordOutcome

\* Only startSendAttempt adds an attempt.
LEMMA AttemptsStep ==
    ASSUME TypeOK, \A w \in Workers : WorkerInv(w), Next, NEW d \in Deliveries
    PROVE  \/ Len(attempts'[d]) = Len(attempts[d])
           \/ /\ Len(attempts'[d]) = Len(attempts[d]) + 1
              /\ UNCHANGED job
              /\ \E w \in Workers : StartDelivery(w, d)
<1>1. ASSUME NEW w \in Workers, NEW e \in Deliveries, StartDelivery(w, e)
      PROVE  \/ Len(attempts'[d]) = Len(attempts[d])
             \/ /\ Len(attempts'[d]) = Len(attempts[d]) + 1
                /\ UNCHANGED job
                /\ StartDelivery(w, d)
  BY <1>1, StartRows DEF StartDelivery, StartWrites
<1>2. ASSUME NEW e \in Deliveries, NEW n, NEW a \in {"failed", "ambiguous"},
             NEW s \in DeliveryStatus, RecordFailure(e, n, a, s)
      PROVE  Len(attempts'[d]) = Len(attempts[d])
  <2>1. FailureWrites(e, n, a, s)
    BY <1>2, FailureRows
  <2> QED
    BY <2>1 DEF FailureWrites
<1>3. ASSUME NEW e \in Deliveries, NEW n, RecordSendSuccess(e, n)
      PROVE  Len(attempts'[d]) = Len(attempts[d])
  BY <1>3, SuccessRows DEF SuccessWrites
<1>4. {"queued", "failed", "suppressed", "ambiguous"} \subseteq DeliveryStatus
  BY DEF DeliveryStatus, TerminalStatus
<1>5. ASSUME NEW w \in Workers, RepairDeadJobDelivery(w) \/ MarkStale(w) \/ RecordOutcome(w)
      PROVE  Len(attempts'[d]) = Len(attempts[d])
  <2>1. Current(w) \in Deliveries
    BY <1>5 DEF RepairDeadJobDelivery, MarkStale, RecordOutcome, WorkerInv, Busy, At
  <2>2. CASE RepairDeadJobDelivery(w) \/ MarkStale(w)
    BY <1>2, <1>4, <2>1, <2>2 DEF RepairDeadJobDelivery, MarkStale, RecordFailure,
          MarkDeliveryFailedForDeadJob, RecordStaleSendingAsAmbiguous, CanMarkStale
  <2>3. CASE RecordOutcome(w)
    <3>1. \A note : /\ FailedAttemptStatus(note) \in {"failed", "ambiguous"}
                    /\ FailedDeliveryStatus(note) \in DeliveryStatus
      BY <1>4 DEF FailedAttemptStatus, FailedDeliveryStatus
    <3> QED
      BY <1>2, <1>3, <2>1, <2>3, <3>1 DEF RecordOutcome
  <2> QED
    BY <1>5, <2>2, <2>3
<1> QED
  BY <1>1, <1>5, StepKinds
     DEF Next, Quiet, tables, ReleaseLeases, ClaimJobs, WriteMailing, CallTransport,
         SettleSuccess, SettleFailure, TimePasses

\* Every step keeps the count of attempts paid.
LEMMA PaidStep ==
    ASSUME IInv, \A d \in Deliveries : PaidInv(d), Next, NEW d \in Deliveries
    PROVE  PaidInv(d)'
<1>1. /\ TypeOK /\ \A w \in Workers : WorkerInv(w)
      /\ Len(attempts[d]) \in Nat /\ job[d].attempts \in Nat
      /\ job[d] \in JobRow
  BY PairRows DEF IInv, TypeOK, TablesTypeOK, JobRow
<1>2. job'[d].attempts \in Nat
  BY <1>1, InvStep DEF IInv, TypeOK, TablesTypeOK, JobRow
<1>3. IsFiniteSet(Holders(d)) /\ Cardinality(Holders(d)) \in Nat
  BY FS_CardinalityType DEF PaidInv
<1>4. CASE Holders(d)' \subseteq Holders(d) /\ Len(attempts'[d]) = Len(attempts[d])
  <2>1. IsFiniteSet(Holders(d)') /\ Cardinality(Holders(d)') <= Cardinality(Holders(d))
    BY <1>3, <1>4, FS_Subset
  <2>2. Cardinality(Holders(d)') \in Nat
    BY <2>1, FS_CardinalityType
  <2>3. job'[d].attempts >= job[d].attempts
    BY <1>1, JobAttemptsStep
  <2> QED
    BY <1>1, <1>2, <1>3, <1>4, <2>1, <2>2, <2>3 DEF PaidInv
<1>5. ASSUME NEW w \in Workers, ClaimJobs(w)
      PROVE  PaidInv(d)'
  <2>1. PICK S \in Batches(Claimable \ worker[w].batch) :
           /\ ClaimSendDeliveryJobs(w, S)
           /\ worker' = [worker EXCEPT ![w] = [@ EXCEPT !.pc = "visit", !.batch = S]]
    BY <1>5 DEF ClaimJobs
  <2>2. UNCHANGED attempts /\ At(w, "claim")
    BY <1>5 DEF ClaimJobs
  <2>3. worker[w] \in WorkerMemory /\ worker \in [Workers -> WorkerMemory]
    BY <1>1 DEF TypeOK
  <2>4. worker'[w].batch = S /\ \A v \in Workers \ {w} : worker'[v] = worker[v]
    BY <2>1, <2>3 DEF WorkerMemory
  <2>5. CASE d \in S
    <3>1. job'[d].attempts = job[d].attempts + 1
      BY <2>1, <2>5 DEF ClaimSendDeliveryJobs
    <3>2. Holders(d)' \subseteq Holders(d) \cup {w}
      BY <2>4 DEF Holders
    <3>3. /\ IsFiniteSet(Holders(d) \cup {w})
          /\ Cardinality(Holders(d) \cup {w})
               = IF w \in Holders(d) THEN Cardinality(Holders(d))
                 ELSE Cardinality(Holders(d)) + 1
      BY <1>3, FS_AddElement
    <3>4. /\ IsFiniteSet(Holders(d)')
          /\ Cardinality(Holders(d)') <= Cardinality(Holders(d) \cup {w})
      BY <3>2, <3>3, FS_Subset
    <3>5. Cardinality(Holders(d)') \in Nat /\ Cardinality(Holders(d) \cup {w}) \in Nat
      BY <3>3, <3>4, FS_CardinalityType
    <3> QED
      BY <1>1, <1>3, <2>2, <3>1, <3>3, <3>4, <3>5 DEF PaidInv
  <2>6. CASE d \notin S
    BY <1>4, <2>2, <2>4, <2>6 DEF Holders
  <2> QED
    BY <2>5, <2>6
<1>6. ASSUME NEW w \in Workers, StartDelivery(w, d)
      PROVE  PaidInv(d)'
  <2>1. Holders(d)' \subseteq Holders(d) \ {w} /\ w \in Holders(d)
    <3>1. WorkerStep(w) /\ ~ClaimJobs(w)
      BY <1>6 DEF WorkerStep, ClaimJobs, StartDelivery, Takes, At
    <3> QED
      BY <1>1, <1>6, <3>1, HoldersStep
  <2>2. /\ IsFiniteSet(Holders(d) \ {w})
        /\ Cardinality(Holders(d) \ {w}) = Cardinality(Holders(d)) - 1
    BY <1>3, <2>1, FS_RemoveElement
  <2>3. /\ IsFiniteSet(Holders(d)')
        /\ Cardinality(Holders(d)') <= Cardinality(Holders(d) \ {w})
    BY <2>1, <2>2, FS_Subset
  <2>4. Cardinality(Holders(d)') \in Nat
    BY <2>3, FS_CardinalityType
  <2>5. Len(attempts'[d]) = Len(attempts[d]) + 1 /\ job' = job
    BY <1>1, <1>6, StartRows DEF StartDelivery, StartWrites
  <2> QED
    BY <1>1, <1>3, <2>2, <2>3, <2>4, <2>5 DEF PaidInv
<1>7. ASSUME NEW e \in Deliveries, TimePasses(e)
      PROVE  PaidInv(d)'
  BY <1>4, <1>7 DEF TimePasses, Holders
<1>8. ASSUME NEW w \in Workers, WorkerStep(w) \/ Crash(w), ~ClaimJobs(w)
      PROVE  PaidInv(d)'
  BY <1>1, <1>4, <1>6, <1>8, HoldersStep, AttemptsStep
<1> QED
  BY <1>5, <1>7, <1>8 DEF Next

\* Nothing is attempted before the first step.
LEMMA PaidInit == Init => \A d \in Deliveries : PaidInv(d)
<1> SUFFICES ASSUME Init, NEW d \in Deliveries
             PROVE  PaidInv(d)
  OBVIOUS
<1>1. Holders(d) = {}
  BY DEF Init, Holders, IdleWorker
<1>2. Len(attempts[d]) = 0 /\ job[d].attempts \in Nat
  BY DEF Init, TablesInit, NewJob, NoJob
<1> QED
  BY <1>1, <1>2, FS_EmptySet DEF PaidInv

\* max_attempts bounds the attempts of a delivery: each is paid for by a claim of its own
\* (claimSendDeliveryJobs), also one that starts when its lease has long been released.
THEOREM AttemptsAlwaysPaid == Spec => []AttemptsArePaid
<1> DEFINE Paid == \A d \in Deliveries : PaidInv(d)
<1>1. IInv /\ Paid /\ [Next]_vars => Paid'
  <2>1. ASSUME IInv, Paid, UNCHANGED vars
        PROVE  Paid'
    BY <2>1 DEF vars, tables, PaidInv, Holders
  <2> QED
    BY <2>1, PaidStep
<1>2. IInv /\ Paid => AttemptsArePaid
  <2> SUFFICES ASSUME IInv, NEW d \in Deliveries, PaidInv(d)
               PROVE  Len(attempts[d]) <= job[d].attempts /\ job[d].attempts <= MaxAttempts
    BY DEF AttemptsArePaid
  <2>1. Len(attempts[d]) \in Nat /\ job[d].attempts \in 0..MaxAttempts /\ MaxAttempts \in Nat
    BY PairRows, MaxAttemptsAssumption DEF IInv, TypeOK, TablesTypeOK, JobRow
  <2>2. Cardinality(Holders(d)) \in Nat
    BY FS_CardinalityType DEF PaidInv
  <2> QED
    BY <2>1, <2>2 DEF PaidInv
<1> QED
  BY <1>1, <1>2, PaidInit, Invariance, PTL DEF Spec
===============================================================================
