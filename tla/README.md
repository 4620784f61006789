# nusend: formal verification

nusend is a self-hosted e-mail sender on Amazon SES: an HTTP service and a send worker
share one SQLite database, SES reports bounces and complaints back through SNS, a
command-line tool (`nusend`) talks to the service and another (`nusend setup`) brings up
the AWS resources and the deployment. This directory holds TLA+ models of that code, TLC
configurations that model-check them on small instances, and TLAPS proofs of the
properties that matter most for every instance. Paths below are relative to the
repository.

## 1. The system

| Component | State it keeps | Operations | What is hard | What makes it correct |
|---|---|---|---|---|
| queue (`apps/service/src/queue`) | `jobs`: state, attempts, lease | claim, complete, fail, release expired leases; the runner's sweeps | leases expire under a working worker; crash between statements | an unsettled delivery never loses its job; claims bounded by `max_attempts` |
| sending (`sending`) | `deliveries`, `send_attempts` | start an attempt, gates, call SES, record success/failure/ambiguity, repair stale attempts | two workers on one delivery, lost replies, crash around the call | at most one acceptance by SES, outcome never contradicts it, the two rows agree |
| mailing lifecycle (`mailings/lifecycle.ts`) | `mailings.state` | mark sending, refresh | counts read and state written apart | completed only when every delivery is settled |
| mailings (`mailings`) | mailings, deliveries, jobs, idempotency keys | create, replay, conflict | concurrent requests with one key, lost answers; list deleted meanwhile | one mailing per key, a delivery per sendable recipient |
| contacts, lists, suppressions, unsubscribe | contacts, memberships, suppressions, tokens | import, unsubscribe, suppress, lift | read-then-write across statements | a withdrawn consent is not undone by a weaker event |
| SES feedback (`ses/process-event.ts`) | `ses_notifications`, `ses_events`, suppressions | store notification, record events, suppress | SNS redelivers, reorders, overlaps; crash between the two commits | each event counted once, none lost |
| SES simulator (`ses/simulator.ts`) | simulator runs, deliveries | send to the mailbox simulator, wait for its event | answer races with the time limit; late and dead-lettered events | a scenario is validated by an event of its own delivery |
| readiness (`aws/readiness.ts`) | none | checks over settings and AWS | checks named by id, several topics | what the setup accepts can send and hears every bounce |
| API keys, device authorization | `api_keys`, `device_authorizations`, the attempt limiter | create, rotate, revoke, verify; start, approve, deny, poll | concurrent polls, decisions and rotations | no key outgrows its maker; one key per approved code |
| start of the service (`db/migrate.ts`, `auth/bootstrap.ts`, `compose.yaml`) | `schema_migrations`, `users` | migrate, bootstrap, serve, restart | several processes at once, killed anywhere | a migration is applied once, one owner, it serves at last |
| database (`services/database.ts`) | the connection | statement, transaction | fibers share a connection | a transaction is atomic |
| CLI (`apps/cli`) | a local state file | login polling, logout, requests | lost answers | the stored key is the one granted |
| setup CLI (`apps/setup-cli`) | `state.json`, `deployment.env`, AWS resources, a remote host | init, plan and apply, deploy, validate, destroy, each resumable | crash between an external effect and its record; others act beside it | resumed without doubles; what is recorded is owned; only what was approved is destroyed |

The HTTP service writes mailings, deliveries and jobs in one transaction
(`createMailing`); the worker, usually another process, claims the jobs and drives the
deliveries; SES answers the worker's call at once and the webhook of the service later.
All of them meet only in the database: a statement or a transaction
(`services/database.ts`, `BEGIN IMMEDIATE` behind one semaphore per connection) is
atomic, everything between two of them interleaves. The setup CLI is a sequential
program whose state is on a disk, in AWS and on a host: there an atomic step is one call
or one write of a file, and a command may end between any two. Those are the grains of
the models. PROJECT.json lists every component, with what is modelled, and the hazards
of this code at their lines.

## 2. Modules

    SendTables      the four tables of the pipeline, and what createMailing commits
     |- JobQueue        queue/jobs.ts: one operator per UPDATE statement
     |- SendAttempts    sending/attempts.ts and mailings/lifecycle.ts: one per transaction
          \- SendWorker     queue/runner.ts and sending/process-delivery.ts: the workers
               |- SendWorkerMC        symmetry and the mailing of the small instances
               |- SendWorkerProofs    the inductive invariant and its theorems
               |    \- SendPromiseProofs   SendWorker implements DeliveryPromise,
               |                            and its steps are steps of Consent
    DeliveryPromise the abstract specification: no jobs, leases, attempts or workers

    Suppressions    suppressions/write.ts: the table and the statements that write it
     |- SesFeedback     ses/process-event.ts: the SNS webhook, beside worker and operator
     |    |- SesFeedbackMC       the notifications of the small instances
     |    |- SesFeedbackProofs   the inductive invariant, its theorems, the refinement
     |    \- FeedbackLedger      the abstract specification: no copies, requests or crashes
     \- Consent         contacts, lists, recipients, the policy gate, unsubscribe links
          |- ConsentMC           symmetry of the small instances
          \- ConsentProofs       the inductive invariant and its theorems

    AtomicStore     the abstract specification: a call is applied at one instant or not at all
    DatabaseService services/database.ts over SQLite, shown to implement it
          |- DatabaseServiceMC     the calls and connections of the small instances
          \- DatabaseServiceProofs the inductive invariant and its theorems

    ApiKeys         api-keys/service.ts: create, verify, revoke, rotate
     \- DeviceAuth      device-auth/service.ts and the login of the CLI
    ServiceStart    migrate, bootstrap and main as compose.yaml orders them
    MailingRequests mailings/idempotency.ts and clients that ask again
    AttemptLimiter  device-auth/attempt-limiter.ts
    SesReadiness    aws/readiness.ts, and what the setup CLI accepts of it
     \- ServiceAccess  composes the last six: the deployed service and its users
          |- ServiceAccessMC       the bodies the clients send
          \- ServiceAccessProofs   the inductive invariant and its theorems

    SetupStore      setup-cli: the files, their atomic writes, init
    SetupAws        setup-cli/aws: plan and apply of the stack, the runtime key
     \- SetupDestroy    setup-cli/destroy: plan, approval, intents, deletions
          \- SetupStack     composes SetupStore with them: from init to destroy
               \- SetupStackProofs      the inductive invariant and its theorems

    SetupProgress   setup-cli/commands/continue.ts: the stages; production access, human gates
     |- SetupDeploy     setup-cli/deploy: plan, apply with checkpoints, the stage
     |- SesSimulator    ses/simulator.ts: a run of a scenario in the deployed service
     \- SetupValidate   setup-cli/validate: the last four stages, over SesSimulator
          \- SetupRelease   composes them with SetupDeploy: from aws_core to validate_final
               |- SetupReleaseMC        the gates of the small instance
               \- SetupReleaseProofs    the inductive invariant and its theorems

**SendTables.** `job`, `delivery`, `attempts`, `mailing` are the rows of the tables of
the same name. A unique index gives each delivery one job, so a job is named by its
delivery. `run_at` and `locked_until` appear only in comparisons with the clock;
`timeUp` says whether the comparison succeeds. The MessageId SES returns to attempt n is
written n, 0 is NULL.

**JobQueue.** `ClaimSendDeliveryJobs`, `CompleteSendDeliveryJob`, `FailSendDeliveryJob`
and `ReleaseExpiredSendDeliveryLeases` are the four `UPDATE ... RETURNING` statements.
Completing and failing a job check that the worker still owns the lease; processing a
claimed job does not.

**SendAttempts.** Each paired write (attempt row and delivery row in one transaction)
has a guard `Can...`, its WHERE clauses, and an effect. What the code finds out by
reading back after a write that matched nothing is the negation of the guard.

**SendWorker.** `worker[w]` is the memory of a process, its `pc` the next statement. A
cycle sweeps orphaned dead jobs and stuck mailings, releases expired leases, claims a
batch, and visits dead released jobs and claimed ones; each visit runs
`processSendDeliveryJob`: start (`StartDelivery`, `SkipDelivery`, `StartFails`),
`DecideDispatch`, `CallTransport`, `RecordOutcome` and settle, then count and refresh
the mailing. `accepted` is the provider's side of the story: the attempts whose message
SES took. A `Crash`, or a DatabaseError outside the processor, empties the memory at any
step and keeps the tables.

**DeliveryPromise.** What users are promised: SES accepts a delivery's message at most
once, the outcome tells the truth about that, and a mailing is completed only when its
deliveries are settled. `SendWorker` implements it through the mapping `outcome <-
PromisedOutcome`, `taken <- AcceptedDeliveries`, `done <- CompletedMailings`.

**Suppressions.** Two partial unique indexes allow one row per address and scope (each
list is a scope), so the table is a function of both. `Promoted` is the `ON CONFLICT ...
DO UPDATE` of the automated upsert; `Deletable` the WHERE clause of the manual delete;
`Suppressed` the predicate `suppressionScopeSql`.

**SesFeedback.** `request[r]` is a webhook request, its `pc` the next statement or
transaction: verify, confirm a subscription, store the notification (the first commit),
look for an unfinished copy, record events with their suppressions (the second commit),
answer. `sns` is what SNS still has to do: it delivers copies at any time, also of what
was answered already, stops retrying after 204, and gives a notification up after a 4xx
status. Every statement can fail (500) and `Crash` forgets all requests.
`RecordMessageId` is the worker's success write, which races with feedback on the same
message; an operator creates and lifts suppressions meanwhile. What a payload says is a
record of `Messages`.

**FeedbackLedger.** What the webhook promises: an event is applied at one instant and
once, to all its recipients, what is known against an address only grows stronger, and
nothing is acknowledged before it is applied. `SesFeedback` implements it with `says <-
Says` (what the messages report), `applied <- Applied` (read, with all rows),
`condemned <- Condemned` (the automated reasons of scope 'all') and `acknowledged <-
Acknowledged`. That a copy handled late, or a second commit of an event already
recorded, changes nothing is what the mapping has to show.

**Consent.** Who may be mailed. `contact`, `list`, `member` and `suppression` are the
tables; an operator creates, edits, deletes and imports, feedback suppresses
(`SesFeedback` has the steps that lead there), and every cascade of the schema is part
of the action that sets it off. `CreateMailing` resolves the recipients and classifies
each; its `source` is the list a worker finds when it loads the mailing. The steps of a
delivery (`DeliveryStep`) are those of `SendAttempts` and `SendWorker` where it matters
who may be mailed, and `SendPromiseProofs` proves that they are: `worker` says whether
somebody is before the gates, stopped by them or between them and the call, also after
its lease was lost; every terminal status is `settled`, written by `Settle` when the
answer of SES, a refusal or a death is recorded. The unsubscribe handler reads in one statement
(`LoadDelivery`), writes suppression and membership in a later transaction
(`WriteMarketingUnsubscribe`) and answers (`Acknowledge`), and other actions come in
between. Left out: renaming a list and a contact's names, the GET page, the token's
signature (a click names a message that was sent).

**DatabaseService.** A fiber's call waits for the single permit of its connection, runs
one statement or `BEGIN IMMEDIATE`, its work and `COMMIT`, and returns. The work reads a
row in one statement and changes it in a later one, so that a lost update shows: the
value of a row is the set of calls applied to it. Work may fail or be interrupted
(`Fail`, then `Rollback`), nest a transaction (its BEGIN fails and is not rolled back),
or end with its process (`Crash`). Better Auth has a connection without semaphore, the
worker one of its own process. SQLite is external: one writer, statements on the
connection of the open transaction belong to it, an open transaction dies with its
process. Left out: `ping`; SQL of several statements outside a transaction, which no
caller sends.

**AtomicStore.** What all other modules take a statement or a transaction for.
`DatabaseService` implements it with `store <- committed`, and the answer of a call is
what its fiber was told.

**ApiKeys.** `keys.row[k]` is a row of `api_keys`: what it may do (`wide` or not), who
made it (`by`: a session or a key), what it was rotated from, the device authorization
it came of, and whether it is revoked. A request verifies its key in one statement and
acts in a later one (`Verify`, then `CreateKey`, `Rotate`, or `FindForRevoke` and
`Revoke`), so that a key may be revoked in between: a request that was verified before
still acts, as in the code.

**DeviceAuth.** `grants` are the rows of `device_authorizations`. A poll first reads the
row outside any transaction (`Preflight`) and, if it may have something to write, reads
it again in its transaction (`TokenTransaction`), where key and `consumed` are written
together. Approval and denial are one conditional UPDATE each. `local` is the CLI: the
key it has stored and the login it waits for; the answer to a poll may be lost.

**ServiceStart.** `schema.applied` counts how often a migration ran, `schema.recorded`
is `schema_migrations`. Each process reads what is applied before its first transaction
(`ReadApplied`) and migrates with that reading. `Container` is the one compose restarts;
the others are operators who run the commands by hand.

**MailingRequests.** `writer` is who holds BEGIN IMMEDIATE, `mailings.row` the row of
the Idempotency-Key. A request looks up, makes mailing and row, commits, and its answer
may be lost, upon which the client sends it again.

**AttemptLimiter.** One operator per call of the class, on sets of attempts. The clock is
a number that passes by `Gaps`; a window of 2 stands for that of the code.

**SesReadiness.** A world is what the settings say and what the calls of AWS answer;
`Checks` of a world are the checks of `readiness.ts` with their ids, `Accepted` the
decision of the setup CLI (`validate/pure.ts`) over them. `Worlds` are those that differ
from one in which everything is in order in one group of respects: the routes of
feedback, the configuration, the sender or the configuration sets.

**ServiceAccess.** The six together. They share `api_keys` and the running service;
parts that do not touch each other's state take turns, which the header names as bounds.

**SetupStore.** `seen` is what processes see of the files, `kept` what a loss of power
may leave: a rename is visible at once and durable when the directory is synced. `init`
does four such writes, and `removeUnpublishedInstallation` when one fails.

**SetupAws.** `state` and `env` are the two files, `stack`, `changes` and `keys` are
CloudFormation's and IAM's, `origin` is who made each stack. `cli.pc` is the next call
or write of the command that runs; `Stop` ends it anywhere, be it by a crash, by a
failed call or by an answer that is no. CloudFormation finishes, rolls back and deletes
by itself; others may delete the stack, make one of the same name, make or delete keys.
`deleted` is the recorded stack from its deletion until CloudFormation forgets it: until
then it is still described by its id, as DELETE_COMPLETE. A new template makes the old plan stale.

**SetupDestroy.** Plan, approval, and the order of `destroy/apply.ts`: stop the
services, record the intent, delete the key, record the intent, delete the stack, wait,
record its absence, take the credentials out of `deployment.env`, consume the plan. A
rerun goes on from what is recorded. A stack is `Live` while it stands and `Described` as
long as describe-stacks finds it by its id; `describeStack` (`aws/ops.ts:240`) says that
it exists whatever its status, so `Absent` waits for the latter. `QueueReadable` is the
read of the dead letters that precedes a plan and an apply of a described stack, which
fails without a queue.

**SetupProgress, SetupDeploy, SetupValidate, SesSimulator.** `setup` is `state.json`,
`setup.done` the number of completed stages. The deployment has a host with a checkout,
its `.env`, images and running services, which the operator may change by hand, and a
release whose tag and images move apart. A checkpoint is written after each step; an
apply that resumes begins with the second step whatever its checkpoint says. The
simulator run creates a delivery, the worker sends it or finds it suppressed, events
arrive in time, late or as dead letters that are replayed, and the run ends validated,
timed out, failed, or with its process.

## 3. Runs

| Run | Instance | Checks | Shows |
|---|---|---|---|
| `send_delivery` | 1 delivery, 2 workers, 3 claims | `PairsAgree`, `AcceptedOnce`, `SuccessIsRecordable`, `AttemptsArePaid` | no interleaving of two workers, lease expiry, crash and repair tears the rows, sends twice, makes an attempt no claim paid for, or claims a job more than `max_attempts` times |
| `send_mailing` | 2 deliveries, 2 workers that do not die, 1 claim | `KeepsPromise`, `SettledMailingCompletes` | the refinement; a mailing whose deliveries are settled is completed by somebody, although two workers write states from stale counts, 'scheduled' over 'sending' too |
| `send_live` | 2 deliveries, 1 worker that may die, 2 claims | `PipelineDrains` | wherever crashes hit, once they stop every delivery is settled, every job ended, and no mailing left 'sending' |
| `send_settled` | 1 delivery, 2 workers that may die, 1 claim | `SettledMailingCompletes` (violated) | first finding |
| `feedback_events` | 1 notification of any of 13 kinds, 2 requests, 2 deliveries, 2 addresses | `AcknowledgedIsHandled`, `RecordedOnceAndWhole`, `FeedbackIsAttributed`, `KeepsLedger`, `EveryEventIsRecorded` | the refinement; copies, overlap, crashes and failures neither lose nor double an event nor misattribute it; what a dying request left is finished by a retry |
| `feedback_malformed` | as above | `MalformedFeedbackIsRetryable` (violated) | second finding |
| `consent_people` | 2 addresses, 2 contacts, 1 list, 1 mailing, 1 click at a time | `TypeOK`, `WithdrawalHolds`, `ActiveMailingKeepsList` | contacts that take over addresses, imports, deletions, operators and feedback do not take an unsubscribe back or a list from its mailing |
| `consent_sending` | 1 address, 1 contact, 1 list, 2 mailings, 2 clicks, every scope and reason | `NoMailAfterWithdrawal`, `EvidenceIsKept` | a mailing created before or after the unsubscribe sends only what had passed the gates; suppressions are not weakened |
| `database_calls` | 2 transactions, 1 statement, 1 bare statement; the connections of service, authentication and worker | `OpenTransactionIsOwned`, `KeepsAtomicity`, `EveryCallReturns` | the refinement: atomic to each other on a connection and across; no permit is lost |
| `service_access` | 3 keys, 2 authorizations, 2 requests, 2 polls, 2 starters, 2 migrations, 2 owners' addresses, 3 clients, 2 limited sources, 2 topics | `KeysDescend`, `OneKeyPerGrant`, `StartedOnce`, `OneMailingPerKey`, `LimiterIsExact`, `AcceptedIsReady`, `ServiceServes` | whatever requests, polls and starts overlap, the rules of keys, codes, migrations and idempotency hold; the limiter and the readiness say what is the case; the service serves at last |
| `setup_stack` | 2 installations, 2 init processes; 2 stacks, 2 change sets, 2 keys, 2 templates | `PublishedIsWhole`, `OwnershipIsProven`, `EnvFollowsStack`, `OneRuntimeKey`, `LossIsExplained`, `DeletionIsApproved`, `DestroyCompletes` | an installation that is stopped at any step from init to destroy is resumed without doubles and without the deletion of what was not approved |
| `setup_release` | 2 commits, 2 versions of `deployment.env`, 2 human gates, 2 production gates | `RequestedOnce`, `HealthyRunsThePlan`, `SecretsGoWhereConfirmed`, `VerifiedDeployIsLive`, `SimulatorStageIsEarned`, `SetupCompletes` | the same from the request for production access to the last stage, while release, host and operator act beside it |

**Bounds.** A delivery interacts with others only through its mailing and a worker's
batch, so one delivery is enough for the properties of deliveries and two for those of
mailings. Two workers give every race of a stale lease holder with a new one; a third
adds nothing, since only the latest claim and those whose lease was lost matter.
`MaxAttempts` 3 (10 in the schema) allows first try, repair of a stale attempt, and
exhaustion; `BatchSize` 2 makes a worker hold two claimed jobs. The counters need no
other bound: attempts are bounded by `MaxAttempts`, and so is the number of rows of
`send_attempts`. Three things are checked on less than one would like, because crashes of
two workers with two deliveries are too many states for a run of minutes: `KeepsPromise`
is checked without crashes (the theorem `PromiseKept` has them, and any constants),
`SettledMailingCompletes` holds without crashes only, and the crashes of `PipelineDrains`
are those of one worker, so that no other worker's stale write meets them. For feedback, two requests give every overlap of two copies; two
deliveries make a wrong attribution possible; the two addresses let an event name more
recipients than its message had. What two notifications do to one address is in
`consent_sending`, where feedback of every reason meets operators and clicks, and in the
proofs. For consent, two contacts and two addresses are what an edit needs to hand an
address on; the second mailing is the one created after the unsubscribe; `ManualScopes`
and `FeedbackReasons` bound what operators and SES do in a run. A database call has two
rows at most, so that half of it can be visible; ids, notifications and calls are used
once, which bounds all histories.

In `service_access`, three keys are a key, its successor and one more that either of
them may make; two authorizations compete for one place among the pending
(`PendingLimit` 1; 30 and 5 in the code); the second body of three clients is the
conflict; four calls of the limiter fill a window of two attempts, leave it and come
back. In `setup_stack`, the second stack is the one that others make under the same name
after the first is gone, the second change set the one after a failure or for the phase
finalize, the second key would be the double. The stack commands work on one
installation and begin when no init runs: nothing in the code stops two commands from
running at once (see "Not modelled"). In `setup_release` a behaviour goes either up to
the deployment or from a healthy deployment to the end, because the later stages read of
the earlier ones only that they are complete; the second commit is the one the tag moves
to while an apply is stopped.

**Fairness.** `FairSpec` of `SendWorker` assumes weak fairness of each worker's next
step (a loop that a supervisor restarts) and of the clock, and that crashes stop
eventually (`CrashesStop`): a delivery is not settled by workers that always die.
`SteadySpec` assumes that there are none: `Crash` stands for the death of a process and
for a DatabaseError outside the processor, which ends the cycle in the same way.
Failing reads and writes inside the processor need no such assumption, because each of
them costs one of the job's attempts. Feedback assumes that SNS retries a pending
notification (strong fairness of `Retry`: the request it needs is not always free), that
the service takes each request's next step, and that crashes and failing statements
stop. It does not assume that SNS comes back after a 4xx answer, so
`EveryEventIsRecorded` excepts what was given up. For the database, fibers get the
permit in the order they asked for it (strong fairness of `Acquire`), and a fiber that
can run is resumed (weak fairness of `Step`); no assumption is made on failures and
crashes, since a call that fails returns too. `ServiceStart` assumes strong fairness of
each step of the container: it may be killed at any step, but `compose.yaml` restarts it
(`restart: unless-stopped`), so that each step it can take again and again is taken.
`SetupStack` and `SetupRelease` assume that the operator runs the command again (strong
fairness of `BeginDestroy`, weak fairness of `Commands`), that CloudFormation ends what
it has begun, that the services take their steps, and that from some time on nobody
stops the commands, moves the release or makes foreign keys. A command that runs ends
(`[]<>At("idle")`): it goes on, or what it waits for is refused. `SetupStack` assumes two
things more, without which `DestroyCompletes` is false: that CloudFormation forgets a
deleted stack in the end (`Forgotten`), and that somebody deletes by hand what remains of
a stack whose deletion failed when its queue was gone (`RemainsDeleted`); see section 5.

The runs of the database, of the service and of the setup do not check for deadlock:
each call is made once, a destroyed installation stays destroyed, and an installation
whose stack others have deleted is left to the operator.

**Premises of the liveness properties.** `ServiceServes` excepts a bootstrap by hand
with another address than the container's: `auth/bootstrap.ts` refuses to replace an
owner, so the container never comes up. `SetupCompletes` excepts a stage that is stuck:
if the simulator's scenarios have suppressed an address and the stage is not completed
in that command, each later run finds its delivery `suppressed`, of which no event
comes, and times out. The loop of `ses/simulator.ts:148` does not look for that status,
and `suppressions/write.ts:110` refuses to lift an automated suppression;
`validate/workflow.test.ts:234` calls the stage rerunnable, and shows it with a service
whose answers are played. It also takes the plan and apply of the phase finalize for
done: `VerifyFinalize` leaves it to the environment whether the recorded stack is in that
phase and complete (`validate/stages.ts:89-103`); `SetupStack` has that plan and apply.

**First finding.** `SettledMailingCompletes` states `PROJECT.md:105`, "A mailing is
`completed` when every delivery is terminal". The sweep `reconcileStuckSendingMailings`
(`queue/runner.ts:188`) looks at mailings in state `sending` only. If every delivery of
a mailing fails before an attempt starts and the cycle dies between settling the last
one and the refresh, the mailing stays `scheduled` for ever. (The stale counts of
`mailings/lifecycle.ts:80-86` lead there in a second way, which the run does not show
because it takes two deliveries: one worker counts no attempts, a second one starts the
other delivery and marks the mailing 'sending', the first writes 'scheduled' over it, and
the second settles its delivery and dies before the refresh.) What is left of the promise
is split between `send_mailing`, without crashes, and `send_live`, where a mailing that
says 'sending' does not stay so.

**Second finding.** `MalformedFeedbackIsRetryable` states `PROJECT.md:145`, "Verified
malformed Bounce/Complaint notifications keep one unprocessed raw record and return
retryable `503`". A payload that declares itself a Bounce or Complaint but does not
decode fails earlier (`ses/event-schema.ts:113`) and is answered 400, which SNS does not
retry.

Each property has a mutant in PROJECT.json: a slip in one mapped definition that makes
TLC find the property violated in the run.

## 4. Proofs

Every invariant, action property and refinement of the passing runs is proved. In each
module of proofs `IInv` is the inductive invariant, with one lemma per part of the
system that says that its steps preserve it. The only assumptions are the named ones of
the constants.

`SendWorkerProofs` proves, for any finite or infinite sets of workers and deliveries,
any mailing of each and any positive `MaxAttempts` and `BatchSize`, that `IInv` is
invariant, and from it `TypeOK`, `PairsAgree`, `AcceptedOnce`, `SuccessIsRecordable`,
`AttemptsArePaid`, and five that no run repeats: `OneDispatcher`, `NeverInconsistent`,
`JobNotLost`, `CompletedIsSettled` and the action property `OutcomesAreFinal`.

The properties alone are not inductive. That SES accepts once rests on what a worker in
the middle of a delivery knows: `IInv` adds, for each `pc`, how the worker's memory
relates to the tables (a worker that may dispatch holds the latest attempt, which is
still `started`, or was marked ambiguous by somebody who thought it dead), that such a
worker is the only one for its delivery, that SES has accepted nothing of an attempt
that has not reached its dispatch, and that a worker about to complete a mailing has
counted it when all its deliveries were settled. That terminal deliveries never become
pending again makes the stale count harmless. One lemma per step of the worker proves
that it preserves `IInv`.

`AttemptsArePaid` needs an invariant of its own (`PaidInv`): the attempts of a delivery
and the workers that still hold an unspent claim on it (`Holders`) are together no more
than the claims of its job. Claiming adds one to both sides, starting an attempt takes
its worker out of the holders, and a worker that loses its lease stays one, which is why
`attempts` of the job bounds its attempts too.

`SendPromiseProofs` proves `Spec => KeepsPromise`: every step of `SendWorker` maps to
one step of `DeliveryPromise` or to a stutter. It also proves `SendsAsInConsent`, which
joins `SendWorker` to `Consent`: where the gates let no suppressed delivery pass
(`PassesGates`), every step of a worker, a sweep or a crash is a `DeliveryStep` or the
`CompleteMailing` of `Consent`, or is not seen there. The mapping (`seen`) gives each
mailing its state and each delivery its status and what the worker in the middle of it is
about to do (`Standing`, from that worker's `pc`); it is a function of the state because
the inductive invariant says that there is one such worker at most. So what is proved of
`Consent`, in particular `NoMailAfterWithdrawal`, is about steps that include all of the
workers'. No run repeats this theorem.

`SesFeedbackProofs` proves, for any notifications, requests, deliveries and addresses,
and any set of messages, `TypeOK`, `AcknowledgedIsHandled`, `RecordedOnceAndWhole`,
`FeedbackIsAttributed` and `EvidenceIsKept`. Its `IInv` adds what a request's memory
knows (`RequestKnows`: a request in its second commit or answering 204 has seen the
first one), and that a row marked `suppressed` is backed by evidence of at least its
strength (`EvidenceBacksRows`), as is each address that a read event condemns
(`ReadIsCondemned`). Acknowledgement then follows because nothing is forgotten
(`Progressed`): tables only grow, except for manual suppressions. `LedgerKept` is the
refinement `Spec => KeepsLedger`: the second commit of a request is `Apply`, or a
stutter if another request has read the event before (then `ReadIsCondemned` says that
the upsert changes no reason); an answer of 204 is `Acknowledge`; no other step is seen.
The run has one notification; that two of them leave the stronger evidence is what the
theorem adds. `SuppressionsAsInConsent` says that all the webhook does to the table of
suppressions is what `Consent` lets feedback and the operator do to it, so that the two
modules speak of one table. The assumptions are those named in the modules: `TagsAssumption` says that
a message's tag, if it has one, is the delivery it was sent for, because the worker sets
it (`sending/process-delivery.ts`).

`ConsentProofs` proves, for any addresses, contacts, lists, mailings, concurrent
requests and any choice of the two bounds, `TypeOK` (with the unique index on addresses
and the foreign keys), `WithdrawalHolds`, `NoMailAfterWithdrawal` and
`ActiveMailingKeepsList`. The key lemmas say that no write to the table of suppressions
weakens a row with reason `unsubscribe`, whoever makes it; `RequestsKnow` adds that a
request about to answer has written. The last property holds because a list is deleted
only if no mailing needs it, and because no mailing is completed while something of it
is queued or being sent.

`DatabaseServiceProofs` proves, for any calls, rows and connections, `TypeOK`,
`OpenTransactionIsOwned` and the refinement `KeepsAtomicity`. Its `IInv` says which call
holds each permit (`Permits`), that the open transaction is that of a holder at work
(`Owners`), that it sees what is committed and its own changes to exactly the rows it is
done with (`Works`), that nothing is read before BEGIN (`Fresh`), and that a committed
call has touched all its rows and a failed one none (`Effects`). It rests on
`ConnectionsAssumption`: a connection is used through the service or bare, never both,
as `services/database-bun.ts` arranges.

`ServiceAccessProofs` proves `KeysDescend`, `OneKeyPerGrant`, `StartedOnce`,
`OneMailingPerKey`, `LimiterIsExact` and `AcceptedIsReady` for any number of keys,
authorizations, requests, polls, processes, migrations, clients, limited sources and
topics, and of `FreeSpec`, in which all parts act in any order, without the bounds of
`ServiceAccess` on who goes first and on which worlds are asked about (`Worlds`);
`BoundedIsFree` says that the checked specification is a case of it. Five invariants
carry it, one for each group of variables: `KeysInv` (whoever made a key is known, and
so is what a request found), `StartInv` (a process that migrates has read a part of what
is recorded, so that the least of the migrations it takes for pending is the next one or
is refused by its primary key), `MailingsInv` (mailing and row are there together, and
whoever is about to make them holds the writer), `LimiterInv` (the entry of a key holds
exactly the attempts that were counted within the window before the last call, so that
pruning at another key's call forgets none that still counts) and `ReadinessInv` (what
is asked about is a `World`: any settings, any answers of AWS and SNS). For the last one,
`ReadyIsAccepted` and its converse go through the checks one by one; the ids of checks
are topics' ARNs and words, and `TopicsAssumption` says that no ARN is such a word.

`SetupStackProofs` proves the five invariants of `setup_stack` and `DeletionIsApproved`
for any installations, processes, stacks, change sets, keys and templates. `StoreInv`
says who owns a directory, how far its init has written, and that the pointer that a
loss of power leaves names a whole installation. `AwsInv` adds that the stacks are known
(`StacksAreKnown`: each has an origin, and a key is recorded only of a recorded stack),
what the plan stands for (`PlanIsKnown`: until a stack is proven, it is to create one
that is the coordinator's), that one key at most is not foreign (`KeysAreOne`), and what
the command knows where it stands (`CommandKnows`): it is this last part that a crash
between an effect and its record tests, because a command that begins again knows only
what is recorded.

`SetupReleaseProofs` proves the five safety properties of `setup_release` for any gates,
commits, versions and choices of others, of `FreeSpec`: a behaviour may begin before any
of the stages and end after any, where the bound of the run gives it either the first or
the last ones (`BoundedIsFree`). They speak of steps, and follow from
`AccessIsKnown` (a review that runs is known to the command that may ask for one),
`ApplyKnows` (past its step n, an apply has done all steps up to n with the present
environment, `Past(n)`), `RunsAreAnswered` and `SimulatorKnows` (which runs a validation
has seen validated), and from one lemma that says which steps change a checkpoint, a
stage or the host's `.env`.

Only model-checked is liveness under fairness (`PipelineDrains`,
`SettledMailingCompletes` without crashes, `EveryEventIsRecorded`, `EveryCallReturns`, `ServiceServes`,
`DestroyCompletes`, `SetupCompletes`), which is out of the prover's reach, and the two
findings, which are single behaviours.

## 5. Not modelled, and known limits

**Not modelled.** In the pipeline: the text of messages, the value of the back-off, the
sleep between cycles. The gates before the call (`policy.ts`) are a free choice among
their verdicts there; `Consent` models what they decide from, and `SendsAsInConsent`
(section 4) joins the two. In mailings: the branch of
`createMailingIdempotent` that a UNIQUE violation leads to cannot be reached under BEGIN
IMMEDIATE. In the start: checksums and status of migrations, the password of the owner.
In the setup: questions and dialogue, the login of the AWS CLI, policies and their
simulation, templates, shell text, the schema of `state.json` and its migration. Message
rendering, the mailing read model, SNS signatures, observability and the release lookup
hold no state that changes, or are pure conversions; nothing of them is modelled. HTTP
parsing and the sessions of Better Auth are left out, too: a request is taken for
authenticated.

**No lock between two setup commands.** `state.json` is written whole from what the
command read (`services/setup-store.ts:207`). Two commands at once overwrite each
other's checkpoints; the models run one at a time once init has ended.

**Met while modelling, contradicted by no document.**

- A link leads to the contact its delivery was created for. If that contact's address
  has been edited since, a click from the old address takes the contact with its new
  address off the list, and a contact that has the old address now stays a member but is
  suppressed for marketing.
- When the answer of the poll that consumed an authorization is lost
  (`apps/cli/src/commands/login.ts:60`), the next poll is told `expired_token`, and a
  key that nobody holds stays live until it expires. A login overwrites the stored key
  of an earlier one without revoking it.
- A request verified before its key is revoked still acts.
- A runtime key whose creation was not recorded has to be deleted by hand
  (`aws/runtime-key.ts:85`); until then the stage stops, and no second key is made.
- A stack that others delete before the deletion was intended blocks `destroy`, which
  cannot tell its absence from a mistake.
- CloudFormation describes a deleted stack by its id for 90 days, as DELETE_COMPLETE, and
  `describeStack` (`aws/ops.ts:240-250`) takes it for one that exists. So
  `destroy apply` deletes the stack and then stops at "did not complete"
  (`destroy/apply.ts:639-656`), and until the stack is forgotten another `destroy plan`
  or `destroy apply` fails at the dead letters, whose queue is gone. The credentials stay
  in `deployment.env` and the plan unconsumed that long. The tests do not meet this,
  because their CloudFormation drops a stack at once. In the same way a stack in
  DELETE_FAILED without its queue is not deleted again by "Rerun destroy apply to retry
  this same exact stack" (`destroy/apply.ts:643`): it has to be deleted by hand.
- The phase finalize goes by the stack id of its own plan (`aws/plan.ts:69`,
  `aws/pure.ts:513`), and after the intent to delete the stack the inventory is not
  reviewed again.
- A refused production review stays recorded as pending (`aws/identity.ts:46`).
- `createManualSuppression` inserts or ignores and reads back in another statement: a
  delete in between leaves it without a row to answer with.
- More than one feedback topic makes ids of checks appear twice, which
  `validate/pure.ts` refuses: setup never completes with two topics, though the service
  runs with them.
- A signing certificate that cannot be fetched for a moment is answered 403 like a wrong
  signature, and SNS does not retry it.
- The limiter's `retryAfter` at its capacity may name a time that is too early;
  activation asks `isLocked` before it waits for the database.
- `config.ts:103` refuses a lease that equals the budget of a batch, which its message
  allows.

**Next.** An abstract specification of an installation's life, which `SetupStack` should
implement; two setup commands at once, as soon as the repository says what should hold
then; the inconsistent answers of AWS that `validate/refresh.ts` reads again.
