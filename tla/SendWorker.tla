------------------------------ MODULE SendWorker ------------------------------
(***************************************************************************)
(* The send worker: runSendWorkerOnce (src/apps/service/src/queue/         *)
(* runner.ts) and processSendDeliveryJob (sending/process-delivery.ts),    *)
(* run repeatedly by any number of processes on one SQLite database.       *)
(*                                                                         *)
(* A step of a worker is one database statement, one transaction, or one   *)
(* call of SES; between two steps the other workers, the clock and crashes *)
(* may act.  A worker that crashes, or whose cycle fails with a            *)
(* DatabaseError, forgets what it was doing and later starts a new cycle;  *)
(* the leases it held stay in the table.                                   *)
(***************************************************************************)
EXTENDS JobQueue, SendAttempts

CONSTANT NoDelivery

ASSUME NoDeliveryAssumption == NoDelivery \notin Deliveries

VARIABLES
    worker,     \* what each worker process holds in memory
    accepted    \* the attempts whose call SES accepted for sending (the provider's side)

vars == <<tables, worker, accepted>>

(***************************************************************************)
(* The memory of a worker.                                                 *)
(*   pc       the next step of the cycle                                   *)
(*   phase    the loop the cycle is in: the orphan sweep, the sweep of     *)
(*            stuck mailings, or the released and claimed jobs             *)
(*   todo     deliveries the sweep, or the loop over dead released jobs,   *)
(*            has still to visit                                           *)
(*   batch    claimed jobs not yet processed (while claiming: the jobs     *)
(*            this cycle has released)                                     *)
(*   current  the delivery being worked on, attempt its attempt number     *)
(*   note     what an earlier step read or decided and a later one uses    *)
(***************************************************************************)
PreDispatch == {"suppressed", "unsendable", "blocked", "requeue"}
PostDispatch == {"accepted", "rejected", "unknown", "throttled"}
Notes == PreDispatch \cup PostDispatch \cup DeliveryStatus \cup MailingState
            \cup {"none", "ok", "error"}
Steps == {"down", "idle", "visit", "claim", "reconcile", "repair", "count", "refresh",
          "stale", "gates", "dispatch", "record", "settle"}

WorkerMemory == [pc: Steps, phase: {"orphans", "stuck", "batch"},
                 todo: SUBSET Deliveries, batch: SUBSET Deliveries,
                 current: Deliveries \cup {NoDelivery}, attempt: Nat, note: Notes]

IdleWorker == [pc |-> "idle", phase |-> "orphans", todo |-> {}, batch |-> {},
               current |-> NoDelivery, attempt |-> 0, note |-> "none"]

TypeOK ==
    /\ TablesTypeOK
    /\ worker \in [Workers -> WorkerMemory]
    /\ accepted \in [Deliveries -> SUBSET Nat]

Init ==
    /\ TablesInit
    /\ worker = [w \in Workers |-> IdleWorker]
    /\ accepted = [d \in Deliveries |-> {}]

At(w, pc) == worker[w].pc = pc
Current(w) == worker[w].current

Go(w, pc) == worker' = [worker EXCEPT ![w].pc = pc]
GoNoting(w, pc, note) == worker' = [worker EXCEPT ![w].pc = pc, ![w].note = note]
NextVisit(w) == worker' = [worker EXCEPT ![w] =
    [@ EXCEPT !.pc = "visit", !.current = NoDelivery, !.attempt = 0, !.note = "none"]]
CycleEnds(w) == worker' = [worker EXCEPT ![w] = IdleWorker]

-------------------------------------------------------------------------------
(* The sweeps, the release of expired leases and the claim.                *)

\* Slips: a sweep that finds nothing.
NoOrphans == {}
NoStuckMailings == {}

Orphans == {d \in Deliveries : job[d].state = "dead" /\ ~IsTerminal(d)}

\* Each mailing that is 'sending' with nothing left to send, by one delivery of it.
StuckMailings == {m \in Mailings : mailing[m] = "sending" /\ AllTerminal(m)}
OnePerMailing(ms) ==
    {ds \in SUBSET Deliveries :
        /\ {MailingOf[d] : d \in ds} = ms
        /\ \A d, e \in ds : MailingOf[d] = MailingOf[e] => d = e}

ReconcileOrphanedDeadJobs(w) ==
    /\ At(w, "idle")
    /\ worker' = [worker EXCEPT ![w] = [@ EXCEPT !.pc = "visit", !.todo = Orphans]]
    /\ UNCHANGED <<tables, accepted>>

ReconcileStuckSendingMailings(w) ==
    /\ At(w, "visit") /\ worker[w].phase = "orphans" /\ worker[w].todo = {}
    /\ \E ds \in OnePerMailing(StuckMailings) :
        worker' = [worker EXCEPT ![w] = [@ EXCEPT !.phase = "stuck", !.todo = ds]]
    /\ UNCHANGED <<tables, accepted>>

VisitStuckMailing(w, d) ==
    /\ At(w, "visit") /\ worker[w].phase = "stuck" /\ d \in worker[w].todo
    /\ worker' = [worker EXCEPT ![w] =
         [@ EXCEPT !.pc = "count", !.todo = worker[w].todo \ {d}, !.current = d]]
    /\ UNCHANGED <<tables, accepted>>

ReleaseLeases(w) ==
    /\ At(w, "visit") /\ worker[w].phase = "stuck" /\ worker[w].todo = {}
    /\ ReleaseExpiredSendDeliveryLeases
    /\ worker' = [worker EXCEPT ![w] =
         [@ EXCEPT !.pc = "claim", !.phase = "batch", !.batch = ExpiredLeases,
                   !.todo = {d \in ExpiredLeases : Exhausted(d)}]]
    /\ UNCHANGED <<delivery, attempts, mailing, accepted>>

\* Release and claim share one reading of the clock, so a job put back by this
\* cycle, whose run_at lies after it, is not claimed by it.
ClaimJobs(w) ==
    /\ At(w, "claim")
    /\ \E S \in Batches(Claimable \ worker[w].batch) :
        /\ ClaimSendDeliveryJobs(w, S)
        /\ worker' = [worker EXCEPT ![w] = [@ EXCEPT !.pc = "visit", !.batch = S]]
    /\ UNCHANGED <<delivery, attempts, mailing, accepted>>

FinishCycle(w) ==
    /\ At(w, "visit") /\ worker[w].phase = "batch"
    /\ worker[w].todo = {} /\ worker[w].batch = {}
    /\ CycleEnds(w)
    /\ UNCHANGED <<tables, accepted>>

-------------------------------------------------------------------------------
(* reconcileDeadJobDelivery: the status is read, and acted upon in a later *)
(* transaction that fails the cycle when the delivery has become another   *)
(* non-terminal one in between.                                            *)

VisitDeadJob(w, d) ==
    /\ At(w, "visit") /\ worker[w].phase # "stuck" /\ d \in worker[w].todo
    /\ worker' = [worker EXCEPT ![w] =
         [@ EXCEPT !.pc = "reconcile", !.todo = worker[w].todo \ {d}, !.current = d]]
    /\ UNCHANGED <<tables, accepted>>

ReadDeadJobDelivery(w) ==
    /\ At(w, "reconcile")
    /\ IF IsTerminal(Current(w))
       THEN GoNoting(w, "count", "none")
       ELSE GoNoting(w, "repair", delivery[Current(w)].status)
    /\ UNCHANGED <<tables, accepted>>

RepairDeadJobDelivery(w) ==
    LET d == Current(w) IN
    /\ At(w, "repair")
    /\ \/ /\ worker[w].note = "queued" /\ MarkDeliveryFailedForDeadJob(d)
          /\ GoNoting(w, "count", "none")
       \/ /\ worker[w].note = "sending" /\ RecordStaleSendingAsAmbiguous(d)
          /\ GoNoting(w, "count", "none")
    /\ UNCHANGED <<job, mailing, accepted>>

DeadJobDeliveryMoved(w) ==
    LET d == Current(w) IN
    /\ At(w, "repair")
    /\ ~(worker[w].note = "queued" /\ CanFailForDeadJob(d))
    /\ ~(worker[w].note = "sending" /\ CanMarkStale(d))
    /\ IF IsTerminal(d) THEN GoNoting(w, "count", "none") ELSE CycleEnds(w)
    /\ UNCHANGED <<tables, accepted>>

-------------------------------------------------------------------------------
(* refreshMailingStateForDelivery: the counts are read, then the state is  *)
(* written.                                                                *)

CountMailing(w) ==
    /\ At(w, "count")
    /\ GoNoting(w, "refresh", RefreshVerdict(MailingOf[Current(w)]))
    /\ UNCHANGED <<tables, accepted>>

WriteMailing(w) ==
    /\ At(w, "refresh")
    /\ RefreshMailingState(MailingOf[Current(w)], worker[w].note)
    /\ NextVisit(w)
    /\ UNCHANGED <<job, delivery, attempts, accepted>>

-------------------------------------------------------------------------------
(* processSendDeliveryJob, for each claimed job in turn.                   *)

Takes(w, d) ==
    /\ At(w, "visit") /\ worker[w].phase = "batch"
    /\ worker[w].todo = {} /\ d \in worker[w].batch

Taking(w, d, pc, attempt, note) ==
    worker' = [worker EXCEPT ![w] =
      [@ EXCEPT !.pc = pc, !.batch = worker[w].batch \ {d}, !.current = d,
                !.attempt = attempt, !.note = note]]

StartDelivery(w, d) ==
    /\ Takes(w, d)
    /\ StartSendAttempt(d)
    /\ Taking(w, d, "gates", Len(attempts[d]) + 1, "none")
    /\ UNCHANGED <<job, accepted>>

\* "Skipped": an earlier attempt left the delivery sending, or it is settled.
SkipDelivery(w, d) ==
    /\ Takes(w, d)
    /\ ~CanStart(d)
    /\ IF delivery[d].status = "sending"
       THEN Taking(w, d, "stale", 0, "none")
       ELSE Taking(w, d, "settle", 0, "ok")
    /\ UNCHANGED <<tables, accepted>>

\* A DatabaseError while loading the context or starting the attempt.
StartFails(w, d) ==
    /\ Takes(w, d)
    /\ Taking(w, d, "settle", 0, "error")
    /\ UNCHANGED <<tables, accepted>>

MarkStale(w) ==
    LET d == Current(w) IN
    /\ At(w, "stale")
    /\ \/ RecordStaleSendingAsAmbiguous(d) /\ GoNoting(w, "settle", "ok")
       \/ /\ ~CanMarkStale(d)
          /\ GoNoting(w, "settle", IF IsTerminal(d) THEN "ok" ELSE "error")
          /\ UNCHANGED <<delivery, attempts>>
    /\ UNCHANGED <<job, mailing, accepted>>

\* beforeDispatch: the policy gates, rendering and preparing the message.  A
\* DatabaseError of the gates asks for the delivery to be put back.
DecideDispatch(w) ==
    /\ At(w, "gates")
    /\ \/ Go(w, "dispatch")
       \/ \E decision \in PreDispatch : GoNoting(w, "record", decision)
    /\ UNCHANGED <<tables, accepted>>

\* The call of SES.  It may accept the message whatever the client gets to know,
\* except that a rejection or a throttling reply says that it did not.
CallTransport(w) ==
    LET d == Current(w) IN
    /\ At(w, "dispatch")
    /\ \E reply \in PostDispatch, accepts \in BOOLEAN :
        /\ reply = "accepted" => accepts
        /\ reply \in {"rejected", "throttled"} => ~accepts
        /\ accepted' = IF accepts
                       THEN [accepted EXCEPT ![d] = @ \cup {worker[w].attempt}]
                       ELSE accepted
        /\ GoNoting(w, "record", reply)
    /\ UNCHANGED tables

\* Slips: an unknown outcome counts as a failure; a throttled call as done.
UnknownFails(note) == IF note \in {"blocked", "requeue", "throttled"} THEN "queued"
                      ELSE IF note = "suppressed" THEN note ELSE "failed"
ThrottledIsDone(note) == IF note \in {"blocked", "requeue"} THEN "error" ELSE "ok"

\* The attempt and delivery statuses a failure is recorded with, and whether the
\* processor then fails, so that the job is retried.
FailedAttemptStatus(note) == IF note = "unknown" THEN "ambiguous" ELSE "failed"
FailedDeliveryStatus(note) ==
    CASE note = "suppressed" -> "suppressed"
      [] note \in {"unsendable", "rejected"} -> "failed"
      [] note = "unknown" -> "ambiguous"
      [] OTHER -> "queued"
Verdict(note) == IF note \in {"blocked", "requeue", "throttled"} THEN "error" ELSE "ok"

RecordOutcome(w) ==
    LET d == Current(w)
        n == worker[w].attempt
        note == worker[w].note
    IN
    /\ At(w, "record")
    /\ \/ note = "accepted" /\ RecordSendSuccess(d, n)
       \/ /\ note # "accepted"
          /\ RecordFailure(d, n, FailedAttemptStatus(note), FailedDeliveryStatus(note))
    /\ GoNoting(w, "settle", Verdict(note))
    /\ UNCHANGED <<job, mailing, accepted>>

Recordable(w) ==
    IF worker[w].note = "accepted"
    THEN CanRecordSuccess(Current(w), worker[w].attempt)
    ELSE CanRecordFailure(Current(w), worker[w].attempt)

\* Another worker has meanwhile settled the delivery: nothing is written.
OutcomeSuperseded(w) ==
    /\ At(w, "record")
    /\ ~Recordable(w) /\ IsTerminal(Current(w))
    /\ GoNoting(w, "settle", Verdict(worker[w].note))
    /\ UNCHANGED <<tables, accepted>>

\* A DatabaseError of the paired write, an inconsistent pair included.  Before
\* the dispatch the delivery is put back; after it the rows stay as they are.
RecordFails(w) ==
    /\ At(w, "record")
    /\ IF worker[w].note \in PreDispatch \ {"requeue"}
       THEN GoNoting(w, "record", "requeue")
       ELSE GoNoting(w, "settle", "error")
    /\ UNCHANGED <<tables, accepted>>

StaleFails(w) ==
    /\ At(w, "stale")
    /\ GoNoting(w, "settle", "error")
    /\ UNCHANGED <<tables, accepted>>

-------------------------------------------------------------------------------
(* The runner settles the job.                                             *)

SettleSuccess(w) ==
    /\ At(w, "settle") /\ worker[w].note = "ok"
    /\ CompleteSendDeliveryJob(w, Current(w))
    /\ GoNoting(w, "count", "none")
    /\ UNCHANGED <<delivery, attempts, mailing, accepted>>

SettleFailure(w) ==
    LET d == Current(w) IN
    /\ At(w, "settle") /\ worker[w].note = "error"
    /\ FailSendDeliveryJob(w, d)
    /\ GoNoting(w, IF Exhausted(d) THEN "reconcile" ELSE "count", "none")
    /\ UNCHANGED <<delivery, attempts, mailing, accepted>>

\* JobNotLeasedError: the lease expired and was released.
SkipStaleLease(w) ==
    /\ At(w, "settle") /\ ~HoldsLease(w, Current(w))
    /\ NextVisit(w)
    /\ UNCHANGED <<tables, accepted>>

-------------------------------------------------------------------------------
\* The process dies, or a DatabaseError outside the processor fails the cycle: what
\* the worker held in memory is gone.  The supervisor, or the loop, starts it again.
Crash(w) ==
    /\ ~At(w, "down")
    /\ worker' = [worker EXCEPT ![w] = [IdleWorker EXCEPT !.pc = "down"]]
    /\ UNCHANGED <<tables, accepted>>

Restart(w) ==
    /\ At(w, "down")
    /\ CycleEnds(w)
    /\ UNCHANGED <<tables, accepted>>

TimePasses(d) ==
    /\ DeadlinePasses(d)
    /\ UNCHANGED <<delivery, attempts, mailing, worker, accepted>>

WorkerStep(w) ==
    \/ ReconcileOrphanedDeadJobs(w)
    \/ ReconcileStuckSendingMailings(w)
    \/ \E d \in Deliveries : VisitStuckMailing(w, d)
    \/ ReleaseLeases(w)
    \/ ClaimJobs(w)
    \/ FinishCycle(w)
    \/ \E d \in Deliveries : VisitDeadJob(w, d)
    \/ ReadDeadJobDelivery(w)
    \/ RepairDeadJobDelivery(w)
    \/ DeadJobDeliveryMoved(w)
    \/ CountMailing(w)
    \/ WriteMailing(w)
    \/ \E d \in Deliveries : StartDelivery(w, d)
    \/ \E d \in Deliveries : SkipDelivery(w, d)
    \/ \E d \in Deliveries : StartFails(w, d)
    \/ MarkStale(w)
    \/ StaleFails(w)
    \/ DecideDispatch(w)
    \/ CallTransport(w)
    \/ RecordOutcome(w)
    \/ OutcomeSuperseded(w)
    \/ RecordFails(w)
    \/ SettleSuccess(w)
    \/ SettleFailure(w)
    \/ SkipStaleLease(w)
    \/ Restart(w)

Next ==
    \/ \E w \in Workers : WorkerStep(w) \/ Crash(w)
    \/ \E d \in Deliveries : TimePasses(d)

Spec == Init /\ [][Next]_vars

-------------------------------------------------------------------------------
(* Fairness.  The loop runs cycle after cycle (the supervisor restarts the *)
(* process), the clock advances, and the failures that end a cycle do not  *)
(* go on for ever.                                                         *)
Fairness ==
    /\ \A w \in Workers : WF_vars(WorkerStep(w))
    /\ \A d \in Deliveries : WF_vars(TimePasses(d))

CrashesStop == <>[][\A w \in Workers : ~Crash(w)]_vars

FairSpec == Spec /\ Fairness /\ CrashesStop

\* The behaviours without a Crash: no worker dies and no DatabaseError outside the processor
\* fails a cycle.
SteadySpec == Init /\ [][Next /\ \A w \in Workers : ~Crash(w)]_vars /\ Fairness

-------------------------------------------------------------------------------
(* Safety.                                                                 *)

\* The two rows of an outcome always agree (attempts.ts writes them together): a
\* delivery is sending, ambiguous or sent exactly when its latest attempt is
\* started, ambiguous or succeeded, with the same MessageId; every earlier attempt
\* failed without the message having left.
PairsAgree ==
    \A d \in Deliveries :
        LET k == Len(attempts[d]) IN
        /\ delivery[d].status = "sending" <=> LatestStatus(d) = "started"
        /\ delivery[d].status = "ambiguous" <=> LatestStatus(d) = "ambiguous"
        /\ delivery[d].status = "sent" <=> LatestStatus(d) = "succeeded"
        /\ delivery[d].status = "sent" => attempts[d][k].messageId = k
                                          /\ delivery[d].messageId = k
        /\ \A n \in 1..k : n < k => attempts[d][n].status = "failed"

\* SES accepts a delivery's message at most once, through crashes, expired leases
\* and retries; an accepted message is that of the latest attempt and is never
\* reported failed, suppressed or put back in the queue, and only an accepted one
\* is reported sent (PROJECT.md: provider-unknown outcomes are never redispatched).
AcceptedOnce ==
    \A d \in Deliveries :
        /\ accepted[d] # {} => /\ accepted[d] = {Len(attempts[d])}
                               /\ delivery[d].status \in {"sending", "ambiguous", "sent"}
        /\ delivery[d].status = "sent" => accepted[d] # {}

\* Never two workers between the start of an attempt and the record of its outcome
\* for one delivery, although processing checks no lease.
OneDispatcher ==
    \A v, w \in Workers :
        worker[v].pc \in {"gates", "dispatch", "record"}
          /\ worker[w].pc \in {"gates", "dispatch", "record"}
          /\ Current(v) = Current(w) => v = w

\* A success SES reported can always be recorded, whatever the other workers wrote
\* while the call was in flight: the MessageId is not lost to a superseding repair.
SuccessIsRecordable ==
    \A w \in Workers :
        At(w, "record") /\ worker[w].note = "accepted"
            => CanRecordSuccess(Current(w), worker[w].attempt)

\* The paired writes of the processor never meet an inconsistent pair: what is not
\* recordable has been settled by another worker.
NeverInconsistent ==
    \A w \in Workers : At(w, "record") => Recordable(w) \/ IsTerminal(Current(w))

\* A delivery that is not settled keeps a job that some cycle still looks at.
JobNotLost ==
    \A d \in Deliveries : ~IsTerminal(d) => job[d].state \in {"queued", "leased", "dead"}

\* Every attempt was paid for by a claim of its own and a job is never claimed more often
\* than max_attempts, so that bounds the attempts too, even those of workers whose lease
\* has expired.
AttemptsArePaid ==
    \A d \in Deliveries : Len(attempts[d]) <= job[d].attempts /\ job[d].attempts <= MaxAttempts

\* lifecycle.ts: a completed mailing has nothing left to send, although the counts
\* are read in one statement and the state is written in a later one.
CompletedIsSettled ==
    \A m \in Mailings : mailing[m] = "completed" => AllTerminal(m)

\* A settled delivery stays as it is, except that an ambiguous one may turn out to
\* have been sent.
OutcomesAreFinal ==
    [][\A d \in Deliveries : IsTerminal(d) =>
          \/ delivery'[d] = delivery[d]
          \/ delivery[d].status = "ambiguous" /\ delivery'[d].status = "sent"]_delivery

\* The pipeline keeps its promise: jobs, leases, attempts and crashes are details.
PromisedOutcome ==
    [d \in Deliveries |-> IF IsTerminal(d) THEN delivery[d].status ELSE "pending"]
AcceptedDeliveries == {d \in Deliveries : accepted[d] # {}}
CompletedMailings == {m \in Mailings : mailing[m] = "completed"}

Promise == INSTANCE DeliveryPromise WITH
    outcome <- PromisedOutcome, taken <- AcceptedDeliveries, done <- CompletedMailings
KeepsPromise == Promise!Spec

-------------------------------------------------------------------------------
(* Liveness, under FairSpec or SteadySpec.                                 *)

\* Once no worker dies any more, every delivery is settled, every job ends, and no mailing
\* goes on saying 'sending', wherever the crashes before hit: the sweeps see what they left.
PipelineDrains ==
    <>[](/\ \A d \in Deliveries :
               IsTerminal(d) /\ job[d].state \in {"absent", "succeeded", "dead"}
         /\ \A m \in Mailings : mailing[m] # "sending")

\* PROJECT.md: "A mailing is `completed` when every delivery is terminal".  It holds under
\* SteadySpec, although other workers write states from counts read before the last delivery
\* was settled; not under FairSpec, for the sweep looks for 'sending' mailings only.
SettledMailingCompletes ==
    \A m \in Mailings : AllTerminal(m) ~> mailing[m] = "completed"
===============================================================================
