------------------------------- MODULE JobQueue -------------------------------
(***************************************************************************)
(* src/apps/service/src/queue/jobs.ts: the durable queue.  Each operator   *)
(* is one UPDATE ... RETURNING statement on the table jobs, hence atomic.  *)
(* A lease carries the worker's id and nothing else: completing or failing *)
(* a job checks that the worker still owns the lease, processing does not. *)
(***************************************************************************)
EXTENDS SendTables, FiniteSetsExt

CONSTANT BatchSize      \* NUSEND_WORKER_BATCH_SIZE, the LIMIT of a claim

ASSUME BatchSizeAssumption == BatchSize \in Nat \ {0}

HoldsLease(w, d) == job[d].state = "leased" /\ job[d].lockedBy = w

\* Slip: the comparison of the two counters allows one claim too many.
ExhaustedOneLate(d) == job[d].attempts > MaxAttempts

\* attempts >= max_attempts decides between giving up and another try.
Exhausted(d) == job[d].attempts >= MaxAttempts

\* A job given up or put back with a run_at in the future (createRetrySchedule).
Released(d) == [state |-> IF Exhausted(d) THEN "dead" ELSE "queued",
                attempts |-> job[d].attempts, lockedBy |-> NoWorker, timeUp |-> FALSE]

Claimable == {d \in Deliveries : job[d].state = "queued" /\ job[d].timeUp}
ExpiredLeases == {d \in Deliveries : job[d].state = "leased" /\ job[d].timeUp}

\* The oldest runnable jobs, at most BatchSize of them.  The order of run_at is
\* left open: any full batch may be the oldest.
Batches(runnable) ==
    {S \in SUBSET runnable :
        Cardinality(S) = Min({BatchSize, Cardinality(runnable)})}

\* Slip: the claim forgets attempts = attempts + 1.
ClaimUncounted(w, S) ==
    job' = [d \in Deliveries |->
              IF d \in S
              THEN [state |-> "leased", attempts |-> job[d].attempts,
                    lockedBy |-> w, timeUp |-> FALSE]
              ELSE job[d]]

ClaimSendDeliveryJobs(w, S) ==
    job' = [d \in Deliveries |->
              IF d \in S
              THEN [state |-> "leased", attempts |-> job[d].attempts + 1,
                    lockedBy |-> w, timeUp |-> FALSE]
              ELSE job[d]]

CompleteSendDeliveryJob(w, d) ==
    /\ HoldsLease(w, d)
    /\ job' = [job EXCEPT ![d].state = "succeeded", ![d].lockedBy = NoWorker,
                          ![d].timeUp = FALSE]

FailSendDeliveryJob(w, d) ==
    /\ HoldsLease(w, d)
    /\ job' = [job EXCEPT ![d] = Released(d)]

ReleaseExpiredSendDeliveryLeases ==
    job' = [d \in Deliveries |-> IF d \in ExpiredLeases THEN Released(d) ELSE job[d]]

\* The wall clock reaches run_at of a queued job or locked_until of a leased one.
DeadlinePasses(d) ==
    /\ job[d].state \in {"queued", "leased"}
    /\ ~job[d].timeUp
    /\ job' = [job EXCEPT ![d].timeUp = TRUE]
===============================================================================
