--------------------------- MODULE SetupReleaseProofs ---------------------------
(***************************************************************************)
(* What the stages of `continue` promise of the requests for production    *)
(* access, of the deployment and of the validation, for any human and      *)
(* production gates, any commits of the release and any versions of        *)
(* deployment.env, whatever stops the commands and changes beside them; in *)
(* behaviours that go through all stages, too, or end with any of them.    *)
(***************************************************************************)
EXTENDS SetupRelease, TLAPS

(* The gates and proofs are what the operator typed.                       *)
Setup == [done: Nat, access: {"none", "pending", "approved"}, gates: {setup.gates},
          plan: [commit: Nat, empty: BOOLEAN, checkpoint: Nat], deploy: Nat,
          proofs: {setup.proofs}, last: Nat]

Command == [pc: {"idle", "access", "requested", "checkpoint", "step", "resume", "persist",
                 "simulate", "await", "final"},
            at: Nat, env: Nat, staged: BOOLEAN]

Host == [checkout: Nat, env: Nat, pulled: Nat, running: [commit: Nat, env: Nat]]

Run == [status: {"none", "started", "validated", "timed_out", "failed"}, alive: BOOLEAN,
        delivery: {"none", "pending", "sent", "failed", "suppressed"},
        event: {"none", "stored", "dead"}]

TypeOK ==
    /\ setup \in Setup /\ cli \in Command
    /\ review \in {"none", "pending", "granted", "denied"}
    /\ host \in Host /\ release \in [tag: Nat, image: Nat] /\ localEnv \in Nat
    /\ runs \in [Scenarios -> Run]

\* A review that runs or was granted is known to the command that may ask for one.
AccessIsKnown ==
    /\ cli.pc \in {"access", "requested"} => setup.done = 0
    /\ At("access") /\ review \in {"pending", "granted"} => setup.access \in {"pending", "approved"}

\* What apply has done when it is past its step n.
Past(n) == (At("step") /\ n < cli.at) \/ (At("persist") /\ n <= cli.at)

ApplyKnows ==
    /\ cli.pc \in {"step", "persist"} => cli.at \in 1..7
    /\ cli.pc \in {"resume", "step", "persist"} =>
          /\ cli.env = localEnv /\ plan.commit \in typed /\ plan.checkpoint # Healthy
    /\ Past(1) => host.checkout = plan.commit
    /\ Past(2) => host.env = localEnv
    /\ Past(5) => host.pulled = plan.commit
    /\ Past(6) => host.running = [commit |-> plan.commit, env |-> localEnv]
    /\ plan.checkpoint # 0 => plan.commit \in typed
    /\ plan.checkpoint = Healthy => host.running.commit = host.pulled

\* A validated run has its event, and its address is suppressed if it should be.
RunsAreAnswered ==
    \A s \in Scenarios :
        /\ runs[s].status = "validated" => runs[s].event = "stored" /\ ~runs[s].alive
        /\ runs[s].event = "stored" /\ s \in expectedSuppressions => s \in listed

AllValidated == \A s \in Scenarios : runs[s].status = "validated"

SimulatorKnows ==
    /\ cli.pc \in {"simulate", "await"} =>
          /\ cli.at \in 1..3 /\ (cli.staged => setup.done = 5)
          /\ \A n \in 1..3 : n < cli.at => runs[SCENARIOS[n]].status = "validated"
    /\ At("final") /\ cli.staged => setup.done = 6
    /\ At("checkpoint") /\ setup.done = 5 => AllValidated

IInv == TypeOK /\ AccessIsKnown /\ ApplyKnows /\ RunsAreAnswered /\ SimulatorKnows

-------------------------------------------------------------------------------
\* The stages by their numbers.
LEMMA StageNumbers ==
    /\ Number("aws_core") = 1 /\ Number("human_gates") = 2 /\ Number("deploy") = 3
    /\ Number("aws_finalize") = 4 /\ Number("validate_pre_simulator") = 5
    /\ Number("validate_simulator") = 6 /\ Number("validate_final") = 7
<1>1. /\ STAGE_ORDER[1] = "aws_core" /\ STAGE_ORDER[2] = "human_gates"
      /\ STAGE_ORDER[3] = "deploy" /\ STAGE_ORDER[4] = "aws_finalize"
      /\ STAGE_ORDER[5] = "validate_pre_simulator" /\ STAGE_ORDER[6] = "validate_simulator"
      /\ STAGE_ORDER[7] = "validate_final" /\ Len(STAGE_ORDER) = 7
  BY DEF STAGE_ORDER
<1>2. 1..Len(STAGE_ORDER) = {1, 2, 3, 4, 5, 6, 7}
  BY <1>1
<1>3. ASSUME NEW n \in {1, 2, 3, 4, 5, 6, 7}
      PROVE  Number(STAGE_ORDER[n]) = n
  <2>1. \A k \in {1, 2, 3, 4, 5, 6, 7} : STAGE_ORDER[k] = STAGE_ORDER[n] => k = n
    BY <1>1
  <2> QED
    BY <1>2, <2>1 DEF Number
<1> QED
  BY <1>1, <1>3

\* The steps of apply by their numbers.
LEMMA StepNumbers ==
    /\ Healthy = 7
    /\ \A n \in 1..7 : /\ Steps[n] = "cloned" <=> n = 1
                       /\ Steps[n] = "env_transferred" <=> n = 2
                       /\ Steps[n] = "pulled" <=> n = 4
                       /\ Steps[n] = "images_verified" <=> n = 5
                       /\ Steps[n] = "up" <=> n = 6
                       /\ Steps[n] = "healthy" <=> n = 7
<1>1. /\ Steps[1] = "cloned" /\ Steps[2] = "env_transferred" /\ Steps[3] = "compose_config"
      /\ Steps[4] = "pulled" /\ Steps[5] = "images_verified" /\ Steps[6] = "up"
      /\ Steps[7] = "healthy" /\ Len(Steps) = 7
  BY DEF Steps
<1>2. \A n \in 1..7 : n \in {1, 2, 3, 4, 5, 6, 7}
  OBVIOUS
<1> QED
  BY <1>1, <1>2 DEF Healthy

\* The scenarios by their numbers.
LEMMA ScenarioNumbers ==
    /\ SCENARIOS[1] = "success" /\ SCENARIOS[2] = "bounce" /\ SCENARIOS[3] = "complaint"
    /\ Len(SCENARIOS) = 3 /\ Scenarios = {"success", "bounce", "complaint"}
BY DEF SCENARIOS, Scenarios

\* The first stages, a stage that ends and a command that stops.
LEMMA StagesMove ==
    ASSUME IInv, UNCHANGED <<deployVars, simulatorVars>>, setup' \in Setup', cli' \in Command,
           review' \in {"none", "pending", "granted", "denied"},
           setup'.plan = setup.plan,
           cli'.pc \in {"idle", "access", "requested", "checkpoint"}, AccessIsKnown',
           cli'.pc = "checkpoint" => setup'.done # 5
    PROVE  IInv'
<1>1. UNCHANGED <<host, release, localEnv, typed, runs, late, listed, deadLetters>>
  BY DEF deployVars, simulatorVars
<1>2. TypeOK'
  BY <1>1 DEF IInv, TypeOK
<1>3. ApplyKnows'
  BY <1>1 DEF IInv, ApplyKnows, Past, At, plan
<1>4. RunsAreAnswered' /\ SimulatorKnows'
  BY <1>1 DEF IInv, RunsAreAnswered, SimulatorKnows, At
<1> QED
  BY <1>2, <1>3, <1>4 DEF IInv

\* Each step of continue between the stages, and of the request for production access.
LEMMA ProgressKeeps ==
    ASSUME IInv, Progress
    PROVE  IInv'
<1> USE DEF At
<1>1. /\ UNCHANGED <<deployVars, simulatorVars>> /\ setup \in Setup /\ cli \in Command
      /\ review \in {"none", "pending", "granted", "denied"} /\ AccessIsKnown
  BY DEF IInv, TypeOK, Progress
<1>2. ASSUME NEW pc \in {"access", "requested", "checkpoint"}, Go(pc)
      PROVE  cli' \in Command /\ cli'.pc = pc
  BY <1>1, <1>2 DEF Go, Command
<1>3. ASSUME Idle
      PROVE  cli' \in Command /\ cli'.pc = "idle"
  BY <1>3 DEF Idle, NoCommand, Command
<1>4. CASE RefreshAccess
  <2>1. setup.done = 0 /\ Go("access") /\ UNCHANGED review
        /\ setup' = [setup EXCEPT !.access = Refreshed]
    BY <1>4, StageNumbers DEF RefreshAccess, Selected
  <2>2. Refreshed \in {"none", "pending", "approved"}
        /\ (review \in {"pending", "granted"} => Refreshed \in {"pending", "approved"})
    BY <1>1 DEF Refreshed, Setup
  <2>3. /\ setup' \in Setup' /\ setup'.plan = setup.plan /\ setup'.done = 0
        /\ setup'.access = Refreshed
    BY <1>1, <2>1, <2>2 DEF Setup
  <2>4. AccessIsKnown'
    BY <1>2, <2>1, <2>2, <2>3 DEF AccessIsKnown
  <2> QED
    BY <1>1, <1>2, <2>1, <2>3, <2>4, StagesMove
<1>5. CASE RequestAccess
  <2>1. setup.done = 0 /\ UNCHANGED setup
    BY <1>1, <1>5 DEF RequestAccess, AccessIsKnown
  <2>2. PICK pc \in {"checkpoint", "requested"} : Go(pc)
    BY <1>5 DEF RequestAccess
  <2>3. review' \in {"none", "pending", "granted", "denied"}
    BY <1>1, <1>5 DEF RequestAccess
  <2>4. cli' \in Command /\ cli'.pc = pc
    BY <1>2, <2>2
  <2>5. setup' \in Setup'
    BY <1>1, <2>1 DEF Setup
  <2>6. AccessIsKnown'
    BY <2>1, <2>4 DEF AccessIsKnown
  <2> QED
    BY <1>1, <2>1, <2>3, <2>4, <2>5, <2>6, StagesMove
<1>6. CASE RecordRequest
  <2>1. setup.done = 0 /\ Go("checkpoint") /\ UNCHANGED review
        /\ setup' = [setup EXCEPT !.access = "pending"]
    BY <1>1, <1>6 DEF RecordRequest, AccessIsKnown
  <2>2. setup' \in Setup' /\ setup'.plan = setup.plan /\ setup'.done = 0
    BY <1>1, <2>1 DEF Setup
  <2>3. AccessIsKnown'
    BY <1>2, <2>1 DEF AccessIsKnown
  <2> QED
    BY <1>1, <1>2, <2>1, <2>2, <2>3, StagesMove
<1>7. CASE HumanGate
  <2>1. PICK gates : setup' = [setup EXCEPT !.gates = gates]
    BY <1>7 DEF HumanGate
  <2>2. setup.done = 1 /\ cli.pc = "idle" /\ UNCHANGED review
        /\ (Go("checkpoint") \/ UNCHANGED cli)
    BY <1>7, StageNumbers DEF HumanGate, Selected
  <2>3. setup' \in Setup' /\ setup'.plan = setup.plan /\ setup'.done = 1
    BY <1>1, <2>1, <2>2 DEF Setup
  <2>4. cli' \in Command /\ cli'.pc \in {"idle", "checkpoint"}
    BY <1>1, <1>2, <2>2
  <2>5. AccessIsKnown'
    BY <2>4 DEF AccessIsKnown
  <2> QED
    BY <1>1, <2>2, <2>3, <2>4, <2>5, StagesMove
<1>8. CASE Checkpoint
  <2>1. Idle /\ UNCHANGED review /\ setup' = [setup EXCEPT !.done = setup.done + 1]
    BY <1>8 DEF Checkpoint
  <2>2. setup' \in Setup' /\ setup'.plan = setup.plan
    <3>1. setup.done + 1 \in Nat
      BY <1>1 DEF Setup
    <3> QED
      BY <1>1, <2>1, <3>1 DEF Setup
  <2>3. AccessIsKnown'
    BY <1>3, <2>1 DEF AccessIsKnown
  <2> QED
    BY <1>1, <1>3, <2>1, <2>2, <2>3, StagesMove
<1>9. CASE Stop
  <2>1. Idle /\ UNCHANGED <<setup, review>>
    BY <1>9 DEF Stop
  <2>2. setup' \in Setup'
    BY <1>1, <2>1 DEF Setup
  <2>3. AccessIsKnown'
    BY <1>3, <2>1 DEF AccessIsKnown
  <2> QED
    BY <1>1, <1>3, <2>1, <2>2, <2>3, StagesMove
<1>10. CASE ReviewEnds
  <2>1. UNCHANGED <<setup, cli>> /\ review = "pending" /\ review' \in {"granted", "denied"}
    BY <1>10 DEF ReviewEnds
  <2>2. UNCHANGED <<host, localEnv, typed, runs, listed, release>>
    BY <1>1 DEF deployVars, simulatorVars
  <2>3. TypeOK' /\ AccessIsKnown'
    BY <1>1, <2>1, <2>2 DEF IInv, TypeOK, AccessIsKnown, Setup
  <2>4. ApplyKnows'
    BY <2>1, <2>2 DEF IInv, ApplyKnows, Past, plan
  <2>5. RunsAreAnswered' /\ SimulatorKnows'
    BY <2>1, <2>2 DEF IInv, RunsAreAnswered, SimulatorKnows, AllValidated
  <2> QED
    BY <2>3, <2>4, <2>5 DEF IInv
<1> QED
  BY <1>4, <1>5, <1>6, <1>7, <1>8, <1>9, <1>10 DEF Progress, ProgressStep

-------------------------------------------------------------------------------
(* The deployment                                                          *)

\* A step of the deployment that leaves the stages, the review and the simulator.
LEMMA DeployMoves ==
    ASSUME IInv, UNCHANGED <<review, simulatorVars>>, setup' \in Setup',
           setup'.done = setup.done, setup'.access = setup.access, cli' \in Command,
           \/ cli' = cli \/ cli'.pc \in {"idle", "step", "resume", "persist"}
           \/ cli'.pc = "checkpoint" /\ setup.done # 5,
           host' \in Host, release' \in [tag: Nat, image: Nat], localEnv' \in Nat, ApplyKnows'
    PROVE  IInv'
<1>1. UNCHANGED <<review, runs, late, listed, deadLetters>>
  BY DEF simulatorVars
<1>2. TypeOK'
  BY <1>1 DEF IInv, TypeOK
<1>3. AccessIsKnown'
  BY <1>1 DEF IInv, AccessIsKnown, At
<1>4. RunsAreAnswered' /\ SimulatorKnows'
  BY <1>1 DEF IInv, RunsAreAnswered, SimulatorKnows, AllValidated, At
<1> QED
  BY <1>2, <1>3, <1>4 DEF IInv

\* A step of apply on the host.
LEMMA HostSteps ==
    ASSUME IInv, At("step"), UNCHANGED simulatorVars, NEW h \in Host, OnHost(h),
           h.checkout = plan.commit,
           2 <= cli.at => h.env = localEnv,
           5 <= cli.at => h.pulled = plan.commit,
           6 <= cli.at => h.running = [commit |-> plan.commit, env |-> localEnv]
    PROVE  IInv'
<1>1. /\ host' = h /\ UNCHANGED <<setup, review, release, localEnv, typed>>
      /\ cli' = [cli EXCEPT !.pc = "persist"] /\ cli \in Command /\ cli.at \in 1..7
  BY DEF OnHost, Go, IInv, TypeOK, ApplyKnows, At
<1>2. cli' \in Command /\ cli'.pc = "persist" /\ cli'.at = cli.at /\ cli'.env = cli.env
  BY <1>1 DEF Command
<1>3. ApplyKnows'
  BY <1>1, <1>2 DEF IInv, ApplyKnows, Past, At, plan
<1>4. setup' \in Setup'
  BY <1>1 DEF IInv, TypeOK, Setup
<1> QED
  BY <1>1, <1>2, <1>3, <1>4, DeployMoves DEF IInv, TypeOK

\* Each step of apply, the resumed one and the one that fails.
LEMMA ApplyStepKeeps ==
    ASSUME IInv, ApplyStep, UNCHANGED simulatorVars
    PROVE  IInv'
<1> USE DEF At
<1>1. /\ setup \in Setup /\ cli \in Command /\ host \in Host /\ localEnv \in Nat
      /\ release \in [tag: Nat, image: Nat] /\ plan \in [commit: Nat, empty: BOOLEAN, checkpoint: Nat]
  BY DEF IInv, TypeOK, Setup, plan
<1>2. ASSUME NEW h \in Host, cli.pc = "step", OnHost(h),
             h.checkout = plan.commit,
             2 <= cli.at => h.env = localEnv,
             5 <= cli.at => h.pulled = plan.commit,
             6 <= cli.at => h.running = [commit |-> plan.commit, env |-> localEnv]
      PROVE  IInv'
  BY <1>2, HostSteps
<1>3. cli.pc = "step" =>
          /\ cli.at \in 1..7 /\ (1 < cli.at => host.checkout = plan.commit)
          /\ 2 < cli.at => host.env = localEnv
          /\ 5 < cli.at => host.pulled = plan.commit
          /\ 6 < cli.at => host.running = [commit |-> plan.commit, env |-> localEnv]
          /\ cli.env = localEnv /\ plan.checkpoint # Healthy
  BY DEF IInv, ApplyKnows, Past
<1>4. CASE ResumeApply
  <2>1. /\ cli.pc = "resume" /\ host.checkout = plan.commit
        /\ cli' = [cli EXCEPT !.pc = "step", !.at = 2]
        /\ UNCHANGED <<review, host, release, localEnv, typed>>
    BY <1>4 DEF ResumeApply, CheckedOut, deployVars
  <2>2. cli' \in Command /\ cli'.pc = "step" /\ cli'.at = 2 /\ cli'.env = cli.env
    BY <1>1, <2>1 DEF Command
  <2>3. PICK next \in [commit: Nat, empty: BOOLEAN, checkpoint: Nat] :
            next = [plan EXCEPT !.checkpoint = 1]
    BY <1>1
  <2>4. next.commit = plan.commit /\ next.checkpoint = 1
    BY <1>1, <2>3
  <2>5. setup' = [setup EXCEPT !.plan = next]
    BY <1>1, <1>4, <2>3 DEF ResumeApply, Setup, plan
  <2>6. /\ setup' \in Setup' /\ setup'.plan = next /\ setup'.done = setup.done
        /\ setup'.access = setup.access
    BY <1>1, <2>3, <2>5 DEF Setup
  <2>7. ApplyKnows'
    BY <2>1, <2>2, <2>4, <2>6, StepNumbers DEF IInv, ApplyKnows, Past, plan
  <2> QED
    BY <1>1, <2>1, <2>2, <2>6, <2>7, DeployMoves
<1>5. CASE Clone
  <2>1. cli.pc = "step" /\ cli.at = 1
    BY <1>3, <1>5, StepNumbers DEF Clone, AtStep
  <2>2. UNCHANGED <<setup, review, release, localEnv, typed>>
    BY <1>5 DEF Clone
  <2>3. PICK c \in Nat : host' = [host EXCEPT !.checkout = c]
    <3>1. CASE host' \in {[host EXCEPT !.checkout = c] : c \in {release.tag, Partial}}
      BY <1>1, <3>1, DeployBoundsAssumption DEF Partial
    <3>2. CASE UNCHANGED host
      BY <1>1, <3>2 DEF Host
    <3> QED
      BY <1>5, <3>1, <3>2 DEF Clone
  <2>4. /\ host' \in Host /\ host'.checkout = c /\ host'.running = host.running
        /\ host'.pulled = host.pulled
    BY <1>1, <2>3 DEF Host
  <2>5. CASE Go("persist") /\ host'.checkout = plan.commit
    <3>1. OnHost(host')
      BY <2>2, <2>5 DEF OnHost
    <3>2. PICK h \in Host : h = host'
      BY <2>4
    <3> QED
      BY <1>2, <2>1, <2>5, <3>1, <3>2
  <2>6. CASE Idle
    <3>1. cli' \in Command /\ cli'.pc = "idle"
      BY <2>6 DEF Idle, NoCommand, Command
    <3>2. ApplyKnows'
      BY <2>2, <2>4, <3>1 DEF IInv, ApplyKnows, Past, plan
    <3>3. setup' \in Setup'
      BY <1>1, <2>2 DEF Setup
    <3> QED
      BY <1>1, <2>2, <2>4, <3>1, <3>2, <3>3, DeployMoves
  <2> QED
    BY <1>5, <2>5, <2>6 DEF Clone, CheckedOut
<1>6. CASE TransferEnv
  <2>1. cli.pc = "step" /\ cli.at = 2 /\ OnHost([host EXCEPT !.env = cli.env])
    BY <1>3, <1>6, StepNumbers DEF TransferEnv, AtStep
  <2>2. PICK h \in Host : h = [host EXCEPT !.env = cli.env]
    BY <1>1 DEF Host, Command
  <2>3. h.checkout = host.checkout /\ h.env = cli.env
    BY <1>1, <2>2 DEF Host
  <2>4. OnHost(h)
    BY <2>1, <2>2
  <2> QED
    BY <1>2, <1>3, <2>1, <2>3, <2>4
<1>7. CASE ComposeConfig
  <2>1. cli.pc = "step" /\ cli.at = 3 /\ OnHost(host)
    <3>1. Steps[cli.at] = "compose_config" /\ cli.pc = "step" /\ OnHost(host)
      BY <1>7 DEF ComposeConfig, AtStep
    <3>2. /\ Steps[1] = "cloned" /\ Steps[2] = "env_transferred" /\ Steps[4] = "pulled"
          /\ Steps[5] = "images_verified" /\ Steps[6] = "up" /\ Steps[7] = "healthy"
      BY DEF Steps
    <3>3. cli.at \in {1, 2, 3, 4, 5, 6, 7}
      BY <1>3, <3>1
    <3> QED
      BY <3>1, <3>2, <3>3
  <2> QED
    BY <1>1, <1>2, <1>3, <2>1
<1>8. CASE ComposePull
  <2>1. cli.pc = "step" /\ cli.at = 4 /\ OnHost([host EXCEPT !.pulled = release.image])
    BY <1>3, <1>8, StepNumbers DEF ComposePull, AtStep
  <2>2. PICK h \in Host : h = [host EXCEPT !.pulled = release.image]
    BY <1>1 DEF Host
  <2>3. h.checkout = host.checkout /\ h.env = host.env
    BY <1>1, <2>2 DEF Host
  <2>4. OnHost(h)
    BY <2>1, <2>2
  <2> QED
    BY <1>2, <1>3, <2>1, <2>3, <2>4
<1>9. CASE VerifyImages
  <2>1. cli.pc = "step" /\ cli.at = 5 /\ OnHost(host) /\ host.pulled = plan.commit
    BY <1>3, <1>9, StepNumbers DEF VerifyImages, AtStep, ImageRevision
  <2> QED
    BY <1>1, <1>2, <1>3, <2>1
<1>10. CASE ComposeUp
  <2>1. /\ cli.pc = "step" /\ cli.at = 6
        /\ OnHost([host EXCEPT !.running = [commit |-> host.pulled, env |-> host.env]])
    BY <1>3, <1>10, StepNumbers DEF ComposeUp, AtStep
  <2>2. PICK r \in [commit: Nat, env: Nat] : r = [commit |-> host.pulled, env |-> host.env]
    BY <1>1 DEF Host
  <2>3. PICK h \in Host : h = [host EXCEPT !.running = r]
    BY <1>1, <2>2 DEF Host
  <2>4. /\ h.checkout = host.checkout /\ h.env = host.env /\ h.pulled = host.pulled
        /\ h.running = r
    BY <1>1, <2>3 DEF Host
  <2>5. OnHost(h)
    BY <2>1, <2>2, <2>3
  <2> QED
    BY <1>2, <1>3, <2>1, <2>2, <2>4, <2>5
<1>11. CASE VerifyHealth
  <2>1. cli.pc = "step" /\ cli.at = 7 /\ OnHost(host)
    BY <1>3, <1>11, StepNumbers DEF VerifyHealth, AtStep
  <2> QED
    BY <1>1, <1>2, <1>3, <2>1
<1>12. CASE PersistCheckpoint
  <2>1. /\ cli.pc = "persist" /\ UNCHANGED <<review, host, release, localEnv, typed>>
        /\ cli.at \in 1..7 /\ cli.env = localEnv /\ plan.commit \in typed
        /\ host.checkout = plan.commit
        /\ 2 <= cli.at => host.env = localEnv
        /\ 5 <= cli.at => host.pulled = plan.commit
        /\ 6 <= cli.at => host.running = [commit |-> plan.commit, env |-> localEnv]
    BY <1>12 DEF PersistCheckpoint, deployVars, IInv, ApplyKnows, Past
  <2>2. PICK next \in [commit: Nat, empty: BOOLEAN, checkpoint: Nat] :
            next = [plan EXCEPT !.checkpoint = cli.at]
    <3>1. PICK at \in Nat : at = cli.at
      BY <1>1 DEF Command
    <3>2. [plan EXCEPT !.checkpoint = at] \in [commit: Nat, empty: BOOLEAN, checkpoint: Nat]
      BY <1>1
    <3> QED
      BY <3>1, <3>2
  <2>3. next.commit = plan.commit /\ next.checkpoint = cli.at
    BY <1>1, <2>1, <2>2
  <2>4. PICK deployed \in Nat : deployed = IF cli.at = Healthy THEN plan.commit ELSE setup.deploy
    BY <1>1 DEF Setup
  <2>5. setup' = [setup EXCEPT !.plan = next, !.deploy = deployed]
    BY <1>1, <1>12, <2>2, <2>4 DEF PersistCheckpoint, Setup, plan
  <2>6. /\ setup' \in Setup' /\ setup'.plan = next /\ setup'.done = setup.done
        /\ setup'.access = setup.access
    BY <1>1, <2>2, <2>4, <2>5 DEF Setup
  <2>7. CASE cli.at = 7
    <3>1. cli' \in Command /\ cli'.pc = "idle"
      <4>1. Idle
        BY <1>12, <2>7, StepNumbers DEF PersistCheckpoint
      <4> QED
        BY <4>1 DEF Idle, NoCommand, Command
    <3>2. ApplyKnows'
      BY <2>1, <2>3, <2>6, <2>7, <3>1 DEF ApplyKnows, Past, plan
    <3> QED
      BY <1>1, <2>1, <2>6, <3>1, <3>2, DeployMoves
  <2>8. CASE cli.at # 7
    <3>1. PICK at \in 2..7 : at = cli.at + 1
      BY <2>1, <2>8
    <3>2. cli' = [cli EXCEPT !.pc = "step", !.at = at]
      BY <1>12, <2>8, <3>1, StepNumbers DEF PersistCheckpoint
    <3>3. cli' \in Command /\ cli'.pc = "step" /\ cli'.at = at /\ cli'.env = cli.env
      <4>1. PICK later \in Nat : later = at
        BY <3>1
      <4>2. cli' = [cli EXCEPT !.pc = "step", !.at = later]
        BY <3>2, <4>1
      <4> QED
        BY <1>1, <4>1, <4>2 DEF Command
    <3>4. ApplyKnows'
      BY <2>1, <2>3, <2>6, <2>8, <3>1, <3>3, StepNumbers DEF ApplyKnows, Past, plan
    <3> QED
      BY <1>1, <2>1, <2>6, <3>3, <3>4, DeployMoves
  <2> QED
    BY <2>7, <2>8
<1> QED
  BY <1>4, <1>5, <1>6, <1>7, <1>8, <1>9, <1>10, <1>11, <1>12 DEF ApplyStep

\* Each step of plan, of apply, and of the release, the env and the host beside them.
LEMMA DeployKeeps ==
    ASSUME IInv, Deploy
    PROVE  IInv'
<1> USE DEF At
<1>1. /\ setup \in Setup /\ cli \in Command /\ host \in Host /\ localEnv \in Nat
      /\ release \in [tag: Nat, image: Nat] /\ plan \in [commit: Nat, empty: BOOLEAN, checkpoint: Nat]
      /\ UNCHANGED simulatorVars
  BY DEF IInv, TypeOK, Setup, plan, Deploy
<1>2. CASE PlanDeploy
  <2>1. PICK next \in [commit: Nat, empty: BOOLEAN, checkpoint: Nat] :
            next = Planned(release.tag) /\ next.checkpoint = 0
    <3>1. PICK empty \in BOOLEAN : empty = (host.checkout = Nothing)
      OBVIOUS
    <3>2. Planned(release.tag)
             = [[NoDeployPlan EXCEPT !.commit = release.tag] EXCEPT !.empty = empty]
      BY <3>1 DEF Planned
    <3>3. Planned(release.tag) = [commit |-> release.tag, empty |-> empty, checkpoint |-> 0]
      BY <3>2 DEF NoDeployPlan
    <3> QED
      BY <1>1, <3>3
  <2>2. /\ setup' = [setup EXCEPT !.plan = next] /\ cli.pc = "idle"
        /\ UNCHANGED <<cli, review, host, release, localEnv, typed>>
    BY <1>2, <2>1 DEF PlanDeploy, NewDeployPlan, deployVars
  <2>3. /\ setup' \in Setup' /\ setup'.plan = next /\ setup'.done = setup.done
        /\ setup'.access = setup.access
    BY <1>1, <2>1, <2>2 DEF Setup
  <2>4. ApplyKnows'
    BY <2>1, <2>2, <2>3, StepNumbers DEF ApplyKnows, Past, plan
  <2> QED
    BY <1>1, <2>2, <2>3, <2>4, DeployMoves
<1>3. CASE BeginApply
  <2>1. /\ UNCHANGED <<setup, review, host, release, localEnv>> /\ plan.checkpoint # Healthy
        /\ typed \subseteq typed' /\ plan.commit \in typed'
    BY <1>3 DEF BeginApply, Applicable, IInv, ApplyKnows
  <2>2. PICK pc \in {"step", "resume"} : cli' = [cli EXCEPT !.pc = pc, !.at = 1, !.env = localEnv]
    BY <1>3 DEF BeginApply
  <2>3. cli' \in Command /\ cli'.pc = pc /\ cli'.at = 1 /\ cli'.env = localEnv
    BY <1>1, <2>2 DEF Command
  <2>4. ApplyKnows'
    BY <2>1, <2>3, StepNumbers DEF IInv, ApplyKnows, Past, plan
  <2>5. setup' \in Setup'
    BY <1>1, <2>1 DEF Setup
  <2> QED
    BY <1>1, <2>1, <2>3, <2>4, <2>5, DeployMoves
<1>4. CASE ApplyStep
  BY <1>1, <1>4, ApplyStepKeeps
<1>5. CASE VerifyDeploy
  <2>1. /\ UNCHANGED <<setup, review, host, release, localEnv, typed>> /\ Go("checkpoint")
        /\ setup.done = 2
    BY <1>5, StageNumbers DEF VerifyDeploy, Selected, deployVars
  <2>2. cli' \in Command /\ cli'.pc = "checkpoint"
    BY <1>1, <2>1 DEF Go, Command
  <2>3. ApplyKnows'
    BY <2>1, <2>2 DEF IInv, ApplyKnows, Past, plan
  <2>4. setup' \in Setup'
    BY <1>1, <2>1 DEF Setup
  <2> QED
    BY <1>1, <2>1, <2>2, <2>3, <2>4, DeployMoves
<1>6. CASE Others
  <2>1. /\ UNCHANGED <<setup, cli, review, typed>>
        /\ localEnv' \in Nat /\ release' \in [tag: Nat, image: Nat]
    BY <1>1, <1>6 DEF Others, TagMoves, ImagesArePublished, EditEnv, CheckOutByHand,
                      ComposeByHand, progressVars
  <2>2. /\ host' \in Host
        /\ host' = host \/ cli.pc = "idle"
        /\ host.running.commit = host.pulled => host'.running.commit = host'.pulled
    <3>1. CASE UNCHANGED host
      BY <1>1, <3>1
    <3>2. CASE CheckOutByHand
      BY <1>1, <3>2 DEF CheckOutByHand, Host
    <3>3. CASE ComposeByHand
      <4>1. PICK r \in [commit: Nat, env: Nat] : r = [commit |-> release.image, env |-> host.env]
        BY <1>1 DEF Host
      <4>2. host' = [host EXCEPT !.pulled = release.image, !.running = r] /\ cli.pc = "idle"
        BY <3>3, <4>1 DEF ComposeByHand
      <4>3. host' \in Host /\ host'.running = r /\ host'.pulled = release.image
        BY <1>1, <4>1, <4>2 DEF Host
      <4> QED
        BY <4>1, <4>2, <4>3
    <3> QED
      BY <1>6, <3>1, <3>2, <3>3 DEF Others, TagMoves, ImagesArePublished, EditEnv
  <2>3. localEnv' = localEnv \/ cli.pc = "idle"
    BY <1>6 DEF Others, TagMoves, ImagesArePublished, EditEnv, CheckOutByHand, ComposeByHand
  <2>4. ApplyKnows'
    BY <2>1, <2>2, <2>3 DEF IInv, ApplyKnows, Past, plan
  <2>5. setup' \in Setup'
    BY <1>1, <2>1 DEF Setup
  <2> QED
    BY <1>1, <2>1, <2>2, <2>4, <2>5, DeployMoves
<1> QED
  BY <1>2, <1>3, <1>4, <1>5, <1>6 DEF Deploy

-------------------------------------------------------------------------------
(* The validation and the simulator                                        *)

\* A step of the validation that leaves the deployment, the review and the simulator.
LEMMA ValidateMoves ==
    ASSUME IInv, UNCHANGED <<review, deployVars>>, setup' \in Setup', setup'.plan = setup.plan,
           cli' \in Command,
           cli'.pc \in {"idle", "checkpoint", "simulate", "await", "final"},
           runs' \in [Scenarios -> Run], RunsAreAnswered', SimulatorKnows'
    PROVE  IInv'
<1>1. UNCHANGED <<host, release, localEnv, typed>>
  BY DEF deployVars
<1>2. TypeOK'
  BY <1>1 DEF IInv, TypeOK
<1>3. AccessIsKnown' /\ ApplyKnows'
  BY <1>1 DEF IInv, AccessIsKnown, ApplyKnows, Past, At, plan
<1> QED
  BY <1>2, <1>3 DEF IInv

\* Each step of the validation and of the human gates.
LEMMA ValidateKeeps ==
    ASSUME IInv, Validate
    PROVE  IInv'
<1> USE DEF At
<1>1. /\ UNCHANGED <<review, deployVars>> /\ setup \in Setup /\ cli \in Command
      /\ runs \in [Scenarios -> Run] /\ RunsAreAnswered
  BY DEF IInv, TypeOK, Validate, VerifyFinalize, VerifyPreSimulator, BeginSimulator,
         ProductionGate, ValidateStep, RunScenario, ScenarioEnds, VerifyFinal
<1>2. setup.done \in Nat
  BY <1>1 DEF Setup
<1>3. ASSUME UNCHANGED <<runs, listed>>
      PROVE  RunsAreAnswered' /\ runs' \in [Scenarios -> Run]
  BY <1>1, <1>3 DEF RunsAreAnswered
<1>4. ASSUME UNCHANGED setup
      PROVE  setup' \in Setup' /\ setup'.plan = setup.plan
  BY <1>1, <1>4 DEF Setup
<1>5. CASE VerifyFinalize
  <2>1. /\ setup.done = 3 /\ Go("checkpoint") /\ UNCHANGED <<runs, listed>>
        /\ setup' = [setup EXCEPT !.proofs = setup.proofs \cup {"alarm_delivery"}]
    BY <1>5, StageNumbers DEF VerifyFinalize, Selected, simulatorVars
  <2>2. setup' \in Setup' /\ setup'.plan = setup.plan /\ setup'.done = 3
    BY <1>1, <2>1 DEF Setup
  <2>3. cli' \in Command /\ cli'.pc = "checkpoint"
    BY <1>1, <2>1 DEF Go, Command
  <2>4. SimulatorKnows'
    BY <2>2, <2>3 DEF SimulatorKnows
  <2> QED
    BY <1>1, <1>3, <2>1, <2>2, <2>3, <2>4, ValidateMoves
<1>6. CASE VerifyPreSimulator
  <2>1. setup.done = 4 /\ Go("checkpoint") /\ UNCHANGED <<setup, runs, listed>>
    BY <1>6, StageNumbers DEF VerifyPreSimulator, Selected, simulatorVars
  <2>2. cli' \in Command /\ cli'.pc = "checkpoint"
    BY <1>1, <2>1 DEF Go, Command
  <2>3. SimulatorKnows'
    BY <2>1, <2>2 DEF SimulatorKnows
  <2> QED
    BY <1>1, <1>3, <1>4, <2>1, <2>2, <2>3, ValidateMoves
<1>7. CASE BeginSimulator
  <2>1. PICK staged \in BOOLEAN :
            /\ MayValidate("validate_pre_simulator", staged)
            /\ cli' = [cli EXCEPT !.pc = "simulate", !.at = 1, !.staged = staged]
    BY <1>7 DEF BeginSimulator
  <2>2. UNCHANGED <<setup, runs, listed>> /\ (staged => setup.done = 5)
    BY <1>7, <2>1, StageNumbers DEF BeginSimulator, MayValidate, simulatorVars
  <2>3. cli' \in Command /\ cli'.pc = "simulate" /\ cli'.at = 1 /\ cli'.staged = staged
    BY <1>1, <2>1 DEF Command
  <2>4. SimulatorKnows'
    BY <2>2, <2>3 DEF SimulatorKnows
  <2> QED
    BY <1>1, <1>3, <1>4, <2>2, <2>3, <2>4, ValidateMoves
<1>8. CASE RunScenario
  <2>1. /\ cli.pc = "simulate" /\ InsertRun(Scenario) /\ Go("await") /\ UNCHANGED setup
        /\ cli.at \in 1..3 /\ (cli.staged => setup.done = 5)
        /\ \A n \in 1..3 : n < cli.at => runs[SCENARIOS[n]].status = "validated"
    BY <1>8 DEF RunScenario, IInv, SimulatorKnows
  <2>2. PICK r \in Run : r = [NoRun EXCEPT !.status = "started", !.alive = TRUE]
    BY DEF NoRun, Run
  <2>3. r.status = "started" /\ r.event = "none"
    BY <2>2 DEF NoRun
  <2>4. Scenario \in Scenarios /\ \A n \in 1..3 : n < cli.at => SCENARIOS[n] # Scenario
    <3>1. cli.at = 1 \/ cli.at = 2 \/ cli.at = 3
      BY <2>1
    <3>2. \A n \in 1..3 : n = 1 \/ n = 2 \/ n = 3
      OBVIOUS
    <3> QED
      BY <3>1, <3>2, ScenarioNumbers DEF Scenario
  <2>5. runs' = [runs EXCEPT ![Scenario] = r] /\ UNCHANGED listed
    BY <2>1, <2>2 DEF InsertRun
  <2>6. /\ runs' \in [Scenarios -> Run] /\ runs'[Scenario] = r
        /\ \A s \in Scenarios : s # Scenario => runs'[s] = runs[s]
    BY <1>1, <2>2, <2>4, <2>5
  <2>7. RunsAreAnswered'
    BY <1>1, <2>3, <2>5, <2>6 DEF RunsAreAnswered
  <2>8. /\ cli' \in Command /\ cli'.pc = "await" /\ cli'.at = cli.at
        /\ cli'.staged = cli.staged
    BY <1>1, <2>1 DEF Go, Command
  <2>9. \A n \in 1..3 : SCENARIOS[n] \in Scenarios
    <3>1. \A n \in 1..3 : n = 1 \/ n = 2 \/ n = 3
      OBVIOUS
    <3> QED
      BY <3>1, ScenarioNumbers
  <2>10. SimulatorKnows'
    <3>1. \A n \in 1..3 : n < cli.at => runs'[SCENARIOS[n]].status = "validated"
      BY <2>1, <2>4, <2>6, <2>9
    <3> QED
      BY <2>1, <2>8, <3>1 DEF SimulatorKnows
  <2> QED
    BY <1>1, <1>4, <2>1, <2>6, <2>7, <2>8, <2>10, ValidateMoves
<1>9. CASE ScenarioEnds
  <2>1. /\ cli.pc = "await" /\ UNCHANGED <<setup, runs, listed>>
        /\ cli.at \in 1..3 /\ (cli.staged => setup.done = 5)
        /\ \A n \in 1..3 : n < cli.at => runs[SCENARIOS[n]].status = "validated"
    BY <1>9 DEF ScenarioEnds, simulatorVars, IInv, SimulatorKnows
  <2>2. CASE Idle
    <3>1. cli' \in Command /\ cli'.pc = "idle"
      BY <2>2 DEF Idle, NoCommand, Command
    <3>2. SimulatorKnows'
      BY <3>1 DEF SimulatorKnows
    <3> QED
      BY <1>1, <1>3, <1>4, <2>1, <3>1, <3>2, ValidateMoves
  <2>3. ASSUME runs[Scenario].status = "validated", cli.at < 3,
               cli' = [cli EXCEPT !.pc = "simulate", !.at = cli.at + 1]
        PROVE  IInv'
    <3>1. PICK later \in Nat : later = cli.at + 1
      BY <2>1
    <3>2. cli' = [cli EXCEPT !.pc = "simulate", !.at = later]
      BY <2>3, <3>1
    <3>3. /\ cli' \in Command /\ cli'.pc = "simulate" /\ cli'.at = later
          /\ cli'.staged = cli.staged
      BY <1>1, <3>1, <3>2 DEF Command
    <3>4. later \in 1..3
      BY <2>1, <2>3, <3>1
    <3>5. \A n \in 1..3 : n < later => runs[SCENARIOS[n]].status = "validated"
      <4>1. \A n \in 1..3 : n < later => n < cli.at \/ n = cli.at
        BY <2>1, <3>1
      <4> QED
        BY <2>1, <2>3, <4>1 DEF Scenario
    <3>6. SimulatorKnows'
      BY <2>1, <3>3, <3>4, <3>5 DEF SimulatorKnows
    <3> QED
      BY <1>1, <1>3, <1>4, <2>1, <3>3, <3>6, ValidateMoves
  <2>4. ASSUME runs[Scenario].status = "validated", ~(cli.at < 3), Go("checkpoint")
        PROVE  IInv'
    <3>1. cli' \in Command /\ cli'.pc = "checkpoint"
      BY <1>1, <2>4 DEF Go, Command
    <3>2. cli.at = 3
      BY <2>1, <2>4
    <3>3. AllValidated
      BY <2>1, <2>4, <3>2, ScenarioNumbers DEF AllValidated, Scenario
    <3>4. SimulatorKnows'
      BY <2>1, <3>1, <3>3 DEF SimulatorKnows, AllValidated
    <3> QED
      BY <1>1, <1>3, <1>4, <2>1, <3>1, <3>4, ValidateMoves
  <2>5. CASE runs[Scenario].status # "validated"
    BY <1>9, <2>2, <2>5 DEF ScenarioEnds
  <2>6. CASE runs[Scenario].status = "validated" /\ cli.at < 3
    <3>1. cli' = [cli EXCEPT !.pc = "simulate", !.at = cli.at + 1]
      BY <1>9, <2>6, ScenarioNumbers DEF ScenarioEnds
    <3> QED
      BY <2>3, <2>6, <3>1
  <2>7. CASE runs[Scenario].status = "validated" /\ ~(cli.at < 3)
    <3>1. Go("checkpoint") \/ Idle
      BY <1>9, <2>7, ScenarioNumbers DEF ScenarioEnds
    <3> QED
      BY <2>2, <2>4, <2>7, <3>1
  <2> QED
    BY <2>5, <2>6, <2>7
<1>10. CASE ProductionGate
  <2>1. PICK staged \in BOOLEAN :
            /\ MayValidate("validate_simulator", staged)
            /\ \E proofs : setup' = [setup EXCEPT !.proofs = proofs]
            /\ cli' = [cli EXCEPT !.pc = "final", !.staged = staged] \/ UNCHANGED cli
    BY <1>10 DEF ProductionGate
  <2>2. UNCHANGED <<runs, listed>> /\ (staged => setup.done = 6) /\ cli.pc = "idle"
    BY <1>10, <2>1, StageNumbers DEF ProductionGate, MayValidate, simulatorVars
  <2>3. setup' \in Setup' /\ setup'.plan = setup.plan /\ setup'.done = setup.done
    BY <1>1, <2>1 DEF Setup
  <2>4. cli' \in Command /\ (cli'.pc = "idle" \/ (cli'.pc = "final" /\ cli'.staged = staged))
    <3>1. CASE cli' = [cli EXCEPT !.pc = "final", !.staged = staged]
      BY <1>1, <3>1 DEF Command
    <3>2. CASE UNCHANGED cli
      BY <1>1, <2>2, <3>2
    <3> QED
      BY <2>1, <3>1, <3>2
  <2>5. SimulatorKnows'
    BY <2>2, <2>3, <2>4 DEF SimulatorKnows
  <2> QED
    BY <1>1, <1>3, <2>2, <2>3, <2>4, <2>5, ValidateMoves
<1>11. CASE VerifyFinal
  <2>1. /\ UNCHANGED <<setup, runs, listed>> /\ (cli.staged => setup.done = 6)
        /\ (cli.staged /\ Go("checkpoint")) \/ Idle
    BY <1>11 DEF VerifyFinal, simulatorVars, IInv, SimulatorKnows
  <2>2. cli' \in Command /\ (cli'.pc = "idle" \/ (cli'.pc = "checkpoint" /\ setup.done = 6))
    <3>1. CASE cli.staged /\ Go("checkpoint")
      BY <1>1, <2>1, <3>1 DEF Go, Command
    <3>2. CASE Idle
      BY <3>2 DEF Idle, NoCommand, Command
    <3> QED
      BY <2>1, <3>1, <3>2
  <2>3. SimulatorKnows'
    BY <2>1, <2>2 DEF SimulatorKnows
  <2> QED
    BY <1>1, <1>3, <1>4, <2>1, <2>2, <2>3, ValidateMoves
<1> QED
  BY <1>5, <1>6, <1>7, <1>8, <1>9, <1>10, <1>11 DEF Validate, ValidateStep

\* What happens to the runs takes no validation back.
LEMMA RunsMove ==
    ASSUME IInv, UNCHANGED <<progressVars, deployVars>>, runs' \in [Scenarios -> Run],
           \A s \in Scenarios : runs[s].status = "validated" => runs'[s].status = "validated",
           RunsAreAnswered'
    PROVE  IInv'
<1>1. UNCHANGED <<setup, cli, review, host, release, localEnv, typed>>
  BY DEF progressVars, deployVars
<1>2. TypeOK' /\ AccessIsKnown'
  BY <1>1 DEF IInv, TypeOK, AccessIsKnown, Setup, At
<1>3. ApplyKnows'
  BY <1>1 DEF IInv, ApplyKnows, Past, At, plan
<1>4. \A n \in 1..3 : SCENARIOS[n] \in Scenarios
  <2>1. \A n \in 1..3 : n = 1 \/ n = 2 \/ n = 3
    OBVIOUS
  <2> QED
    BY <2>1, ScenarioNumbers
<1>5. SimulatorKnows'
  BY <1>1, <1>4 DEF IInv, SimulatorKnows, AllValidated, At
<1> QED
  BY <1>2, <1>3, <1>5 DEF IInv

\* Each step of a simulator run, of the service that sends it and of its events.
LEMMA SimulateKeeps ==
    ASSUME IInv, Simulate
    PROVE  IInv'
<1>1. /\ UNCHANGED <<progressVars, deployVars>> /\ runs \in [Scenarios -> Run]
      /\ RunsAreAnswered
  BY DEF IInv, TypeOK, Simulate
<1>2. ASSUME NEW s \in Scenarios, NEW r \in Run, runs' = [runs EXCEPT ![s] = r],
             listed \subseteq listed', runs[s].status = "validated" => r.status = "validated",
             r.status = "validated" => r.event = "stored" /\ ~r.alive,
             r.event = "stored" /\ s \in expectedSuppressions => s \in listed'
      PROVE  IInv'
  <2>1. /\ runs' \in [Scenarios -> Run] /\ runs'[s] = r
        /\ \A t \in Scenarios : t # s => runs'[t] = runs[t]
    BY <1>1, <1>2
  <2>2. RunsAreAnswered'
    BY <1>1, <1>2, <2>1 DEF RunsAreAnswered
  <2> QED
    BY <1>1, <1>2, <2>1, <2>2, RunsMove
<1>3. ASSUME NEW s \in Scenarios
      PROVE  /\ runs[s] \in Run
             /\ runs[s].status = "validated" => runs[s].event = "stored" /\ ~runs[s].alive
             /\ runs[s].event = "stored" /\ s \in expectedSuppressions => s \in listed
  BY <1>1 DEF RunsAreAnswered
<1>4. ASSUME NEW s \in Scenarios, NEW outcome \in {"pending", "sent", "failed", "suppressed"},
             runs' = [runs EXCEPT ![s].delivery = outcome], UNCHANGED listed
      PROVE  IInv'
  <2>1. PICK r \in Run : r = [runs[s] EXCEPT !.delivery = outcome]
    BY <1>3 DEF Run
  <2>2. r.status = runs[s].status /\ r.event = runs[s].event /\ r.alive = runs[s].alive
    BY <1>3, <2>1 DEF Run
  <2> QED
    BY <1>2, <1>3, <1>4, <2>1, <2>2
<1>5. ASSUME NEW s \in Scenarios, NEW status \in {"validated", "timed_out", "failed", "started"},
             Finish(s, status), runs[s].alive,
             status = "validated" => runs[s].event = "stored"
      PROVE  IInv'
  <2>1. PICK r \in Run : r = [runs[s] EXCEPT !.status = status, !.alive = FALSE]
    BY <1>3 DEF Run
  <2>2. r.status = status /\ r.event = runs[s].event /\ ~r.alive
    BY <1>3, <2>1 DEF Run
  <2>3. runs' = [runs EXCEPT ![s] = r] /\ UNCHANGED listed
    BY <1>1, <1>5, <2>1 DEF Finish
  <2> QED
    BY <1>2, <1>3, <1>5, <2>1, <2>2, <2>3
<1>6. ASSUME NEW s \in Scenarios, NEW event \in {"stored", "dead"}, Answers(s),
             runs' = [runs EXCEPT ![s].event = event], listed \subseteq listed',
             event = "stored" /\ s \in expectedSuppressions => s \in listed'
      PROVE  IInv'
  <2>1. PICK r \in Run : r = [runs[s] EXCEPT !.event = event]
    BY <1>3 DEF Run
  <2>2. r.status = runs[s].status /\ r.event = event
    BY <1>3, <2>1 DEF Run
  <2>3. runs[s].status # "validated"
    BY <1>3, <1>6 DEF Answers
  <2> QED
    BY <1>2, <1>3, <1>6, <2>1, <2>2, <2>3
<1>7. CASE Replay
  <2>1. /\ runs' = [s \in Scenarios |-> IF runs[s].event = "dead"
                                        THEN [runs[s] EXCEPT !.event = "stored"] ELSE runs[s]]
        /\ listed' = listed \cup {s \in expectedSuppressions : runs[s].event = "dead"}
    BY <1>7 DEF Replay
  <2>2. ASSUME NEW s \in Scenarios
        PROVE  /\ runs'[s] \in Run
               /\ runs[s].status = "validated" => runs'[s].status = "validated"
               /\ runs'[s].status = "validated" => runs'[s].event = "stored" /\ ~runs'[s].alive
               /\ runs'[s].event = "stored" /\ s \in expectedSuppressions => s \in listed'
    <3>1. CASE runs[s].event = "dead"
      <4>1. runs'[s] = [runs[s] EXCEPT !.event = "stored"]
        BY <2>1, <3>1
      <4>2. /\ runs'[s] \in Run /\ runs'[s].status = runs[s].status
            /\ runs[s].status # "validated"
        BY <1>3, <3>1, <4>1 DEF Run
      <4> QED
        BY <2>1, <3>1, <4>2
    <3>2. CASE runs[s].event # "dead"
      BY <1>3, <2>1, <3>2
    <3> QED
      BY <3>1, <3>2
  <2>3. runs' \in [Scenarios -> Run] /\ RunsAreAnswered'
    <3>1. runs' = [s \in Scenarios |-> runs'[s]]
      BY <2>1
    <3> QED
      BY <2>2, <3>1 DEF RunsAreAnswered
  <2> QED
    BY <1>1, <2>2, <2>3, RunsMove
<1>8. ASSUME NEW s \in Scenarios, LateFeedbackArrives(s)
      PROVE  IInv'
  <2>1. UNCHANGED runs /\ listed \subseteq listed'
    BY <1>8 DEF LateFeedbackArrives
  <2>2. RunsAreAnswered'
    BY <1>1, <2>1 DEF RunsAreAnswered
  <2> QED
    BY <1>1, <2>1, <2>2, RunsMove
<1>9. ASSUME NEW s \in Scenarios, CreateDelivery(s) \/ SendDelivery(s)
      PROVE  IInv'
  <2>1. PICK outcome \in {"pending", "sent", "failed", "suppressed"} :
            runs' = [runs EXCEPT ![s].delivery = outcome]
    BY <1>9 DEF CreateDelivery, SendDelivery
  <2> QED
    BY <1>4, <1>9, <2>1 DEF CreateDelivery, SendDelivery
<1>10. ASSUME NEW s \in Scenarios, Validated(s) \/ TimedOut(s) \/ RunFails(s)
       PROVE  IInv'
  BY <1>5, <1>10 DEF Validated, TimedOut, RunFails, Waiting, ExpectedEventStored
<1>11. ASSUME NEW s \in Scenarios, FeedbackArrives(s) \/ FeedbackIsDead(s)
       PROVE  IInv'
  BY <1>6, <1>11 DEF FeedbackArrives, FeedbackIsDead
<1> QED
  BY <1>7, <1>8, <1>9, <1>10, <1>11 DEF Simulate, SimulatorNext

-------------------------------------------------------------------------------
(* The theorems                                                            *)

\* The stages from the first one on, without the bound of SetupRelease on where they end.
AnyBegun ==
    /\ \E last \in Nat :
          setup = [done |-> 0, access |-> "none", gates |-> {}, plan |-> NoDeployPlan,
                   deploy |-> Nothing, proofs |-> {}, last |-> last]
    /\ review = "none" /\ DeployInit

FreeInit == (AnyBegun \/ Deployed) /\ cli = NoCommand /\ SimulatorInit
FreeSpec == FreeInit /\ [][Next]_vars

\* Before the first continue nothing is completed, requested, deployed or simulated.
LEMMA Beginning == FreeInit => IInv
<1> SUFFICES ASSUME FreeInit
             PROVE  IInv
  OBVIOUS
<1>1. /\ cli = NoCommand /\ runs = [s \in Scenarios |-> NoRun] /\ listed = {}
      /\ release = [tag |-> 1, image |-> 1] /\ localEnv = 1
      /\ review \in {"none", "granted"}
  BY DEF FreeInit, AnyBegun, Deployed, DeployInit, DeployedInit, SimulatorInit
<1>2. cli \in Command /\ cli.pc = "idle"
  BY <1>1 DEF NoCommand, Command
<1>3. NoRun \in Run /\ NoRun.status = "none" /\ NoRun.event = "none"
  BY DEF NoRun, Run
<1>4. RunsAreAnswered /\ SimulatorKnows /\ AccessIsKnown /\ runs \in [Scenarios -> Run]
  BY <1>1, <1>2, <1>3 DEF RunsAreAnswered, SimulatorKnows, AccessIsKnown, At
<1>5. Number("validate_final") \in Nat
  BY StageNumbers
<1>6. CASE AnyBegun
  <2>1. PICK last \in Nat :
           setup = [done |-> 0, access |-> "none", gates |-> {}, plan |-> NoDeployPlan,
                    deploy |-> 0, proofs |-> {}, last |-> last]
    BY <1>6 DEF AnyBegun, Nothing
  <2>2. host = [checkout |-> 0, env |-> 0, pulled |-> 0, running |-> [commit |-> 0, env |-> 0]]
    BY <1>6 DEF AnyBegun, DeployInit, Nothing
  <2>3. /\ NoDeployPlan \in [commit: Nat, empty: BOOLEAN, checkpoint: Nat]
        /\ NoDeployPlan.checkpoint = 0
    BY DEF NoDeployPlan, Nothing
  <2>4. setup \in Setup /\ host \in Host /\ setup.plan = NoDeployPlan
    BY <2>1, <2>2, <2>3 DEF Setup, Host
  <2>5. TypeOK
    BY <1>1, <1>2, <1>4, <2>4 DEF TypeOK
  <2>6. ApplyKnows
    BY <1>2, <2>3, <2>4, StepNumbers DEF ApplyKnows, Past, At, plan
  <2> QED
    BY <1>4, <2>5, <2>6 DEF IInv
<1>7. CASE Deployed
  <2>1. /\ setup = [done |-> 3, access |-> "approved", gates |-> GateIds,
                    plan |-> [commit |-> 1, empty |-> TRUE, checkpoint |-> 7],
                    deploy |-> 1, proofs |-> {}, last |-> Number("validate_final")]
        /\ host = [checkout |-> 1, env |-> 1, pulled |-> 1, running |-> [commit |-> 1, env |-> 1]]
        /\ typed = {1}
    BY <1>7, StageNumbers, StepNumbers DEF Deployed, DeployedInit
  <2>2. setup \in Setup /\ host \in Host
    BY <1>5, <2>1 DEF Setup, Host
  <2>3. TypeOK
    BY <1>1, <1>2, <1>4, <2>2 DEF TypeOK
  <2>4. ApplyKnows
    BY <1>2, <2>1 DEF ApplyKnows, Past, At, plan
  <2> QED
    BY <1>4, <2>3, <2>4 DEF IInv
<1> QED
  BY <1>6, <1>7 DEF FreeInit

\* What holds of the stages without that bound holds of what the run checks.
THEOREM BoundedIsFree == Spec => FreeSpec
<1>1. Begun => AnyBegun
  <2>1. Number("deploy") \in Nat
    BY StageNumbers
  <2> QED
    BY <2>1 DEF Begun, AnyBegun
<1>2. Init => FreeInit
  BY <1>1 DEF Init, FreeInit
<1> QED
  BY <1>2 DEF Spec, FreeSpec

\* What the stages know of the review, of the host and of the simulator runs holds through
\* every step of the commands, of the release, of the operator and of the service.
THEOREM Invariance == FreeSpec => []IInv
<1>1. IInv /\ [Next]_vars => IInv'
  <2> SUFFICES ASSUME IInv, [Next]_vars
               PROVE  IInv'
    OBVIOUS
  <2>1. CASE UNCHANGED vars
    <3>1. UNCHANGED <<progressVars, deployVars>> /\ UNCHANGED <<runs, late, listed, deadLetters>>
      BY <2>1 DEF vars, simulatorVars
    <3>2. runs' \in [Scenarios -> Run] /\ RunsAreAnswered'
      BY <3>1 DEF IInv, TypeOK, RunsAreAnswered
    <3> QED
      BY <3>1, <3>2, RunsMove
  <2> QED
    BY <2>1, ProgressKeeps, DeployKeeps, ValidateKeeps, SimulateKeeps DEF Next
<1> QED
  BY <1>1, Beginning, PTL DEF FreeSpec

\* Where a command may go: only one step asks for production access, and to the end of a stage
\* lead its verifications.
LEMMA CommandsMove ==
    ASSUME IInv, Next
    PROVE  /\ cli'.pc = "requested" /\ cli.pc # "requested" => RequestAccess
           /\ cli'.pc = "checkpoint" /\ cli.pc = "idle"
                 => HumanGate \/ VerifyDeploy \/ VerifyFinalize \/ VerifyPreSimulator
<1> USE DEF At
<1>1. cli \in Command
  BY DEF IInv, TypeOK
<1>2. \A pc \in {"access", "requested", "checkpoint", "persist", "await"} :
          Go(pc) => cli'.pc = pc
  BY <1>1 DEF Go, Command
<1>3. Idle => cli'.pc = "idle"
  BY DEF Idle, NoCommand
<1>4. CASE Progress
  BY <1>2, <1>3, <1>4 DEF Progress, ProgressStep, RefreshAccess, RequestAccess, RecordRequest,
                          HumanGate, Checkpoint, Stop, ReviewEnds
<1>5. CASE Deploy
  <2>1. CASE PlanDeploy \/ Others
    BY <2>1 DEF PlanDeploy, Others, TagMoves, ImagesArePublished, EditEnv, CheckOutByHand,
                ComposeByHand, progressVars
  <2>2. CASE BeginApply
    BY <1>1, <2>2 DEF BeginApply, Command
  <2>3. CASE ResumeApply
    BY <1>1, <2>3 DEF ResumeApply, Command
  <2>4. CASE PersistCheckpoint
    <3>1. CASE cli' = [cli EXCEPT !.pc = "step", !.at = cli.at + 1]
      BY <1>1, <3>1 DEF Command
    <3> QED
      BY <1>3, <2>4, <3>1 DEF PersistCheckpoint
  <2>5. ASSUME NEW h, OnHost(h)
        PROVE  cli'.pc = "persist"
    BY <1>2, <2>5 DEF OnHost
  <2>6. CASE TransferEnv \/ ComposeConfig \/ ComposePull \/ VerifyImages \/ ComposeUp
             \/ VerifyHealth
    BY <2>5, <2>6 DEF TransferEnv, ComposeConfig, ComposePull, VerifyImages, ComposeUp,
                      VerifyHealth
  <2>7. CASE Clone
    <3>1. Go("persist") \/ Idle
      BY <2>7 DEF Clone
    <3> QED
      BY <1>2, <1>3, <3>1
  <2>8. CASE VerifyDeploy
    BY <1>2, <2>8 DEF VerifyDeploy
  <2> QED
    BY <1>5, <2>1, <2>2, <2>3, <2>4, <2>6, <2>7, <2>8 DEF Deploy, ApplyStep
<1>6. CASE Validate
  <2>1. CASE VerifyFinalize \/ VerifyPreSimulator
    BY <1>2, <2>1 DEF VerifyFinalize, VerifyPreSimulator
  <2>2. CASE BeginSimulator
    BY <1>1, <2>2 DEF BeginSimulator, Command
  <2>3. CASE ProductionGate
    <3>1. (\E staged \in BOOLEAN : cli' = [cli EXCEPT !.pc = "final", !.staged = staged])
          \/ UNCHANGED cli
      BY <2>3 DEF ProductionGate
    <3> QED
      BY <1>1, <3>1 DEF Command
  <2>4. CASE RunScenario
    BY <1>2, <2>4 DEF RunScenario
  <2>5. CASE ScenarioEnds
    <3>1. /\ cli.pc = "await"
          /\ cli' = [cli EXCEPT !.pc = "simulate", !.at = cli.at + 1] \/ Go("checkpoint") \/ Idle
      BY <2>5 DEF ScenarioEnds
    <3>2. CASE cli' = [cli EXCEPT !.pc = "simulate", !.at = cli.at + 1]
      BY <1>1, <3>2 DEF Command
    <3> QED
      BY <1>2, <1>3, <3>1, <3>2
  <2>6. CASE VerifyFinal
    BY <1>2, <1>3, <2>6 DEF VerifyFinal
  <2> QED
    BY <1>6, <2>1, <2>2, <2>3, <2>4, <2>5, <2>6 DEF Validate, ValidateStep
<1>7. CASE Simulate
  BY <1>7 DEF Simulate, progressVars
<1> QED
  BY <1>4, <1>5, <1>6, <1>7 DEF Next

\* Production access is asked for once: the refresh of aws/ops.ts before the request.
THEOREM AlwaysRequestedOnce == FreeSpec => RequestedOnce
<1> DEFINE Once == cli'.pc = "requested" /\ ~At("requested") => review \in {"none", "denied"}
<1>1. IInv /\ [Next]_vars => [Once]_progressVars
  <2> SUFFICES ASSUME IInv, Next, cli'.pc = "requested", ~At("requested")
               PROVE  review \in {"none", "denied"}
    BY DEF vars, progressVars, At
  <2>1. RequestAccess
    BY CommandsMove DEF At
  <2>2. At("access") /\ NotRequested
    <3>1. cli \in Command
      BY DEF IInv, TypeOK
    <3> QED
      BY <2>1, <3>1 DEF RequestAccess, Go, Command
  <2> QED
    BY <2>2 DEF IInv, TypeOK, AccessIsKnown, NotRequested
<1> QED
  BY <1>1, Invariance, PTL DEF FreeSpec, RequestedOnce

\* Which steps change the checkpoint of the plan, the number of completed stages and the .env
\* of the host.
LEMMA OneStepEach ==
    ASSUME IInv, Next
    PROVE  /\ setup'.plan.checkpoint \in {0, 1, plan.checkpoint} \/ PersistCheckpoint
           /\ setup'.done = setup.done \/ Checkpoint
           /\ host'.env = host.env \/ TransferEnv
<1>1. setup \in Setup /\ host \in Host /\ plan \in [commit: Nat, empty: BOOLEAN, checkpoint: Nat]
  BY DEF IInv, TypeOK, Setup, plan
<1>2. ASSUME UNCHANGED setup
      PROVE  setup'.plan.checkpoint = plan.checkpoint /\ setup'.done = setup.done
  BY <1>2 DEF plan
<1>3. CASE Progress
  <2>1. UNCHANGED host
    BY <1>3 DEF Progress, deployVars
  <2>2. CASE RefreshAccess
    BY <1>1, <2>1, <2>2 DEF RefreshAccess, Setup, plan
  <2>3. CASE RequestAccess \/ Stop \/ ReviewEnds
    BY <1>2, <2>1, <2>3 DEF RequestAccess, Stop, ReviewEnds
  <2>4. CASE RecordRequest
    BY <1>1, <2>1, <2>4 DEF RecordRequest, Setup, plan
  <2>5. CASE HumanGate
    <3>1. PICK gates : setup' = [setup EXCEPT !.gates = gates]
      BY <2>5 DEF HumanGate
    <3> QED
      BY <1>1, <2>1, <3>1 DEF Setup, plan
  <2>6. CASE Checkpoint
    <3>1. setup'.plan = setup.plan
      BY <1>1, <2>6 DEF Checkpoint, Setup
    <3> QED
      BY <2>1, <2>6, <3>1 DEF plan
  <2> QED
    BY <1>3, <2>2, <2>3, <2>4, <2>5, <2>6 DEF Progress, ProgressStep
<1>4. CASE Deploy
  <2>1. CASE PlanDeploy
    <3>1. PICK next : setup' = [setup EXCEPT !.plan = next] /\ next.checkpoint = 0
      <4>1. Planned(release.tag).checkpoint = 0
        BY DEF Planned, NoDeployPlan
      <4> QED
        BY <2>1, <4>1 DEF PlanDeploy, NewDeployPlan
    <3>2. setup'.plan = next /\ setup'.done = setup.done
      BY <1>1, <3>1 DEF Setup
    <3> QED
      BY <2>1, <3>1, <3>2 DEF PlanDeploy, deployVars
  <2>2. CASE ResumeApply
    <3>1. PICK next \in [commit: Nat, empty: BOOLEAN, checkpoint: Nat] :
              next = [plan EXCEPT !.checkpoint = 1]
      BY <1>1
    <3>2. setup' = [setup EXCEPT !.plan = next] /\ next.checkpoint = 1
      BY <1>1, <2>2, <3>1 DEF ResumeApply, plan, Setup
    <3>3. setup'.plan = next /\ setup'.done = setup.done
      BY <1>1, <3>2 DEF Setup
    <3> QED
      BY <2>2, <3>2, <3>3 DEF ResumeApply, deployVars
  <2>3. CASE PersistCheckpoint
    <3>1. PICK next, deployed : setup' = [setup EXCEPT !.plan = next, !.deploy = deployed]
      <4>1. setup' = [setup EXCEPT !.plan = [setup.plan EXCEPT !.checkpoint = cli.at],
                                   !.deploy = IF cli.at = Healthy THEN plan.commit
                                              ELSE setup.deploy]
        BY <1>1, <2>3 DEF PersistCheckpoint, Setup
      <4> QED
        BY <4>1
    <3>2. setup'.done = setup.done
      BY <1>1, <3>1 DEF Setup
    <3> QED
      BY <2>3, <3>2 DEF PersistCheckpoint, deployVars
  <2>4. ASSUME NEW h, OnHost(h)
        PROVE  host' = h /\ UNCHANGED setup
    BY <2>4 DEF OnHost
  <2>5. CASE ComposeConfig \/ VerifyImages \/ VerifyHealth
    BY <1>2, <2>4, <2>5 DEF ComposeConfig, VerifyImages, VerifyHealth
  <2>6. CASE ComposePull
    <3>1. OnHost([host EXCEPT !.pulled = release.image])
      BY <2>6 DEF ComposePull
    <3> QED
      BY <1>1, <1>2, <2>4, <3>1 DEF Host
  <2>7. CASE ComposeUp
    <3>1. OnHost([host EXCEPT !.running = [commit |-> host.pulled, env |-> host.env]])
      BY <2>7 DEF ComposeUp
    <3> QED
      BY <1>1, <1>2, <2>4, <3>1 DEF Host
  <2>8. CASE TransferEnv
    BY <1>2, <2>4, <2>8 DEF TransferEnv
  <2>9. CASE Clone
    <3>1. UNCHANGED setup
      BY <2>9 DEF Clone
    <3>2. (\E c : host' = [host EXCEPT !.checkout = c]) \/ UNCHANGED host
      BY <2>9 DEF Clone
    <3> QED
      BY <1>1, <1>2, <3>1, <3>2 DEF Host
  <2>10. CASE BeginApply \/ VerifyDeploy
    BY <1>2, <2>10 DEF BeginApply, VerifyDeploy, deployVars
  <2>11. CASE Others
    <3>1. UNCHANGED setup
      BY <2>11 DEF Others, TagMoves, ImagesArePublished, EditEnv, CheckOutByHand, ComposeByHand,
                   progressVars
    <3>2. CASE CheckOutByHand
      BY <1>1, <1>2, <3>1, <3>2 DEF CheckOutByHand, Host
    <3>3. CASE ComposeByHand
      BY <1>1, <1>2, <3>1, <3>3 DEF ComposeByHand, Host
    <3> QED
      BY <1>2, <2>11, <3>1, <3>2, <3>3 DEF Others, TagMoves, ImagesArePublished, EditEnv
  <2> QED
    BY <1>4, <2>1, <2>2, <2>3, <2>5, <2>6, <2>7, <2>8, <2>9, <2>10, <2>11 DEF Deploy, ApplyStep
<1>5. CASE Validate
  <2>1. UNCHANGED host
    BY <1>5 DEF Validate, deployVars
  <2>2. PICK proofs : setup' = [setup EXCEPT !.proofs = proofs] \/ UNCHANGED setup
    BY <1>5 DEF Validate, VerifyFinalize, VerifyPreSimulator, BeginSimulator, ProductionGate,
                ValidateStep, RunScenario, ScenarioEnds, VerifyFinal
  <2> QED
    BY <1>1, <1>2, <2>1, <2>2 DEF Setup, plan
<1>6. CASE Simulate
  BY <1>2, <1>6 DEF Simulate, progressVars, deployVars
<1> QED
  BY <1>3, <1>4, <1>5, <1>6 DEF Next

\* A healthy apply leaves the planned commit running with deployment.env as it is: the steps of
\* deploy/apply.ts, done again from the second one by an apply that resumes.
THEOREM HealthyAlwaysRunsThePlan == FreeSpec => HealthyRunsThePlan
<1> DEFINE Runs == plan.checkpoint # Healthy /\ setup'.plan.checkpoint = Healthy
                      => host.running = [commit |-> plan.commit, env |-> localEnv]
<1>1. IInv /\ [Next]_vars => [Runs]_<<setup, host>>
  <2> SUFFICES ASSUME IInv, Next, plan.checkpoint # Healthy, setup'.plan.checkpoint = Healthy
               PROVE  host.running = [commit |-> plan.commit, env |-> localEnv]
    BY DEF vars, progressVars, deployVars
  <2>1. PersistCheckpoint
    BY OneStepEach, StepNumbers
  <2>2. setup'.plan.checkpoint = cli.at
    <3>1. setup \in Setup
      BY DEF IInv, TypeOK
    <3>2. setup' = [setup EXCEPT !.plan = [setup.plan EXCEPT !.checkpoint = cli.at],
                                 !.deploy = IF cli.at = Healthy THEN plan.commit
                                            ELSE setup.deploy]
      BY <2>1, <3>1 DEF PersistCheckpoint, Setup
    <3>3. setup'.plan = [setup.plan EXCEPT !.checkpoint = cli.at]
      BY <3>1, <3>2 DEF Setup
    <3> QED
      BY <3>1, <3>3 DEF Setup
  <2>3. Past(6)
    BY <2>1, <2>2, StepNumbers DEF PersistCheckpoint, Past
  <2> QED
    BY <2>3 DEF IInv, ApplyKnows
<1> QED
  BY <1>1, Invariance, PTL DEF FreeSpec, HealthyRunsThePlan

\* The secrets go to a checkout of a commit that was confirmed: the confirmation phrase of
\* deploy/apply.ts, and the checkpoints it resumes from.
THEOREM SecretsAlwaysConfirmed == FreeSpec => SecretsGoWhereConfirmed
<1> DEFINE Confirmed == host'.env # host.env /\ cli' # cli
                           => plan.commit \in typed /\ host.checkout = plan.commit
<1>1. IInv /\ [Next]_vars => [Confirmed]_<<host, cli>>
  <2> SUFFICES ASSUME IInv, Next, host'.env # host.env
               PROVE  plan.commit \in typed /\ host.checkout = plan.commit
    BY DEF vars, progressVars, deployVars
  <2>1. At("step") /\ Steps[cli.at] = "env_transferred"
    BY OneStepEach DEF TransferEnv, AtStep
  <2>2. cli.at = 2
    BY <2>1, StepNumbers DEF IInv, ApplyKnows, At
  <2> QED
    BY <2>1, <2>2 DEF IInv, ApplyKnows, Past, At
<1> QED
  BY <1>1, Invariance, PTL DEF FreeSpec, SecretsGoWhereConfirmed

\* The stage deploy is verified while the recorded commit runs: runDeployStageVerification.
THEOREM VerifiedDeployAlwaysLive == FreeSpec => VerifiedDeployIsLive
<1> DEFINE Lives == Selected("deploy") /\ cli'.pc = "checkpoint" /\ At("idle")
                       => /\ host.running.commit = setup.deploy
                          /\ release.tag = setup.deploy
<1>1. IInv /\ [Next]_vars => [Lives]_<<setup, cli>>
  <2> SUFFICES ASSUME IInv, Next, Selected("deploy"), cli'.pc = "checkpoint", At("idle")
               PROVE  /\ host.running.commit = setup.deploy
                      /\ release.tag = setup.deploy
    BY DEF vars, progressVars
  <2>1. setup.done = 2
    BY StageNumbers DEF Selected
  <2>2. VerifyDeploy
    BY <2>1, CommandsMove, StageNumbers
    DEF HumanGate, VerifyFinalize, VerifyPreSimulator, Selected, At
  <2> QED
    BY <2>2 DEF VerifyDeploy, ImageRevision, IInv, ApplyKnows
<1> QED
  BY <1>1, Invariance, PTL DEF FreeSpec, VerifiedDeployIsLive

\* The stage of the simulator is completed by runs that were all answered:
\* runSimulatorValidation and ses/simulator.ts.
THEOREM SimulatorStageAlwaysEarned == FreeSpec => SimulatorStageIsEarned
<1> DEFINE Earned == Selected("validate_simulator") /\ setup'.done # setup.done
                        => /\ \A s \in Scenarios : runs[s].status = "validated"
                                                   /\ runs[s].event = "stored"
                           /\ expectedSuppressions \subseteq listed
<1>1. IInv /\ [Next]_vars => [Earned]_<<setup, runs, listed>>
  <2> SUFFICES ASSUME IInv, Next, Selected("validate_simulator"), setup'.done # setup.done
               PROVE  /\ \A s \in Scenarios : runs[s].status = "validated"
                                              /\ runs[s].event = "stored"
                      /\ expectedSuppressions \subseteq listed
    BY DEF vars, progressVars, simulatorVars
  <2>1. setup.done = 5
    BY StageNumbers DEF Selected
  <2>2. AllValidated
    BY <2>1, OneStepEach DEF Checkpoint, IInv, SimulatorKnows
  <2>3. expectedSuppressions \subseteq Scenarios
    BY DEF expectedSuppressions, Scenarios
  <2> QED
    BY <2>2, <2>3 DEF AllValidated, IInv, RunsAreAnswered
<1> QED
  BY <1>1, Invariance, PTL DEF FreeSpec, SimulatorStageIsEarned
===============================================================================
