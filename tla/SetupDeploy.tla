------------------------------ MODULE SetupDeploy ------------------------------
(***************************************************************************)
(* `nusend setup deploy` (src/apps/setup-cli/src/deploy): a plan pins the  *)
(* commit of the release tag; apply, once confirmed, clones it on the      *)
(* host, moves deployment.env there, pulls the images, checks that they    *)
(* were built from the commit, starts the services and records a           *)
(* checkpoint after each of these steps.  The tag and the images of the    *)
(* release may move, deployment.env may be edited, and the operator may    *)
(* work on the host by hand while no command runs.                         *)
(***************************************************************************)
EXTENDS SetupProgress, FiniteSets

CONSTANTS
    MaxCommits, \* bound: commits the release tag goes through
    MaxEnv      \* bound: versions of deployment.env

ASSUME DeployBoundsAssumption == {MaxCommits, MaxEnv} \subseteq Nat \ {0}

VARIABLES
    host,       \* the checkout on the server, its .env, its images and what runs there
    release,    \* the commit of the release tag, and the one its images were built from
    localEnv,   \* the version of deployment.env
    typed       \* the commits whose deployment the operator has confirmed

deployVars == <<host, release, localEnv, typed>>

Commits == 1..MaxCommits
Nothing == 0
Partial == MaxCommits + 1   \* a checkout that is not one of the commits, clean

\* The steps of apply and the checkpoints they end in.
Steps == <<"cloned", "env_transferred", "compose_config", "pulled", "images_verified",
           "up", "healthy">>
Healthy == Len(Steps)
AtStep(name) == At("step") /\ Steps[cli.at] = name

NoDeployPlan == [commit |-> Nothing, empty |-> TRUE, checkpoint |-> 0]
plan == setup.plan

DeployInit ==
    /\ host = [checkout |-> Nothing, env |-> 0, pulled |-> Nothing,
               running |-> [commit |-> Nothing, env |-> 0]]
    /\ release = [tag |-> 1, image |-> 1]
    /\ localEnv = 1 /\ typed = {}

\* The host after an apply that was healthy at once.
DeployedInit ==
    /\ host = [checkout |-> 1, env |-> 1, pulled |-> 1, running |-> [commit |-> 1, env |-> 1]]
    /\ release = [tag |-> 1, image |-> 1]
    /\ localEnv = 1 /\ typed = {1}

\* Bound: the release and the host change until the stage deploy is complete.
Deploying == Complete("human_gates") /\ ~Complete("deploy")

Planned(commit) == [NoDeployPlan EXCEPT !.commit = commit, !.empty = host.checkout = Nothing]

-------------------------------------------------------------------------------
\* Slip: a new plan goes on where the plan before was.
PlanGoesOn(commit) == [Planned(commit) EXCEPT !.checkpoint = plan.checkpoint % Healthy]

NewDeployPlan(commit) == Planned(commit)

\* runDeployPlan: an empty path, or a clean checkout of the commit.
PlanDeploy ==
    /\ At("idle") /\ Deploying
    /\ host.checkout \in {Nothing, release.tag}
    /\ setup' = [setup EXCEPT !.plan = NewDeployPlan(release.tag)]
    /\ UNCHANGED <<cli, review, deployVars>>

\* A plan that was carried through is not applied again, nor one whose tag has moved.
Applicable == plan.commit = release.tag /\ plan.checkpoint # Healthy

BeginApply ==
    /\ At("idle") /\ Deploying /\ Applicable
    /\ IF plan.checkpoint = 0
       THEN /\ typed' = typed \cup {plan.commit}
            /\ cli' = [cli EXCEPT !.pc = "step", !.at = 1, !.env = localEnv]
       ELSE /\ cli' = [cli EXCEPT !.pc = "resume", !.at = 1, !.env = localEnv]
            /\ UNCHANGED typed
    /\ UNCHANGED <<setup, review, host, release, localEnv>>

\* inspectExistingCheckout
CheckedOut == host.checkout = plan.commit

\* Slip: apply goes on with the step after the checkpoint.
ResumeAtCheckpoint ==
    /\ At("resume") /\ CheckedOut
    /\ cli' = [cli EXCEPT !.pc = "step", !.at = plan.checkpoint + 1]
    /\ UNCHANGED <<setup, review, deployVars>>

\* Whatever the checkpoint, all that follows the checkout is done again.
ResumeApply ==
    /\ At("resume") /\ CheckedOut
    /\ cli' = [cli EXCEPT !.pc = "step", !.at = 2]
    /\ setup' = [setup EXCEPT !.plan.checkpoint = 1]
    /\ UNCHANGED <<review, deployVars>>

\* git clone takes the commit the tag has now; the script then compares it.
Clone ==
    /\ AtStep("cloned")
    /\ IF host.checkout = Nothing /\ plan.empty
       THEN /\ host' \in {[host EXCEPT !.checkout = c] : c \in {release.tag, Partial}}
            /\ IF host'.checkout = plan.commit THEN Go("persist") ELSE Idle
       ELSE CheckedOut /\ Go("persist") /\ UNCHANGED host
    /\ UNCHANGED <<setup, review, release, localEnv, typed>>

OnHost(changed) == host' = changed /\ Go("persist")
                   /\ UNCHANGED <<setup, review, release, localEnv, typed>>

\* readSshHostKeyPolicy, and the script that renames a temporary file to .env.
TransferEnv == AtStep("env_transferred") /\ OnHost([host EXCEPT !.env = cli.env])

ComposeConfig == AtStep("compose_config") /\ OnHost(host)

ComposePull == AtStep("pulled") /\ OnHost([host EXCEPT !.pulled = release.image])

\* Slip: the label of the images is not read.
AnyImage(commit) == TRUE

\* assertRemoteImageRevision
ImageRevision(commit) == host.pulled = commit

VerifyImages == AtStep("images_verified") /\ ImageRevision(plan.commit) /\ OnHost(host)

ComposeUp ==
    /\ AtStep("up")
    /\ OnHost([host EXCEPT !.running = [commit |-> host.pulled, env |-> host.env]])

\* validateDeployHealth: the services and the two health endpoints answer.
VerifyHealth == AtStep("healthy") /\ OnHost(host)

\* persistCheckpoint: with the last one the deployment is recorded.
PersistCheckpoint ==
    /\ At("persist")
    /\ setup' = [setup EXCEPT !.plan.checkpoint = cli.at,
                              !.deploy = IF cli.at = Healthy THEN plan.commit ELSE setup.deploy]
    /\ IF cli.at = Healthy THEN Idle ELSE cli' = [cli EXCEPT !.pc = "step", !.at = cli.at + 1]
    /\ UNCHANGED <<review, deployVars>>

\* runDeployStageVerification
VerifyDeploy ==
    /\ At("idle") /\ Selected("deploy")
    /\ plan.checkpoint = Healthy /\ setup.deploy = plan.commit
    /\ release.tag = setup.deploy /\ CheckedOut /\ ImageRevision(setup.deploy)
    /\ Go("checkpoint") /\ UNCHANGED <<setup, review, deployVars>>

ApplyStep ==
    \/ ResumeApply \/ Clone \/ TransferEnv \/ ComposeConfig \/ ComposePull
    \/ VerifyImages \/ ComposeUp \/ VerifyHealth \/ PersistCheckpoint

-------------------------------------------------------------------------------
(* The release, the file and the host, changed by others.                  *)

TagMoves ==
    /\ Deploying /\ release.tag < MaxCommits
    /\ release' = [release EXCEPT !.tag = release.tag + 1]
    /\ UNCHANGED <<progressVars, host, localEnv, typed>>

ImagesArePublished ==
    /\ Deploying /\ release.image # release.tag
    /\ release' = [release EXCEPT !.image = release.tag]
    /\ UNCHANGED <<progressVars, host, localEnv, typed>>

EditEnv ==
    /\ At("idle") /\ Deploying /\ localEnv < MaxEnv
    /\ localEnv' = localEnv + 1
    /\ UNCHANGED <<progressVars, host, release, typed>>

\* "Nothing is deleted": the operator makes the checkout what the plan asks for.
CheckOutByHand ==
    /\ At("idle") /\ Deploying /\ host.checkout \notin {Nothing, release.tag}
    /\ host' = [host EXCEPT !.checkout = release.tag]
    /\ UNCHANGED <<progressVars, release, localEnv, typed>>

\* docs/deployment.md: direct Compose as the break-glass reference.
ComposeByHand ==
    /\ At("idle") /\ Deploying /\ host.checkout \in Commits /\ host.env # 0
    /\ host' = [host EXCEPT !.pulled = release.image,
                            !.running = [commit |-> release.image, env |-> host.env]]
    /\ UNCHANGED <<progressVars, release, localEnv, typed>>

Others == TagMoves \/ ImagesArePublished \/ EditEnv \/ CheckOutByHand \/ ComposeByHand

-------------------------------------------------------------------------------
\* When an apply is recorded as healthy, the services run the planned commit with
\* deployment.env as it is, whatever stopped the applies before it and was edited since.
HealthyRunsThePlan ==
    [][plan.checkpoint # Healthy /\ setup'.plan.checkpoint = Healthy
         => host.running = [commit |-> plan.commit, env |-> localEnv]]_<<setup, host>>

\* The secrets move to a checkout of a commit that the operator confirmed by its phrase:
\* a resumed apply asks for none, and a plan is resumed only where it began.
SecretsGoWhereConfirmed ==
    [][host'.env # host.env /\ cli' # cli
         => plan.commit \in typed /\ host.checkout = plan.commit]_<<host, cli>>

\* The stage deploy is verified while the recorded commit is what the services run and
\* what the release tag names.
VerifiedDeployIsLive ==
    [][Selected("deploy") /\ cli'.pc = "checkpoint" /\ At("idle")
         => /\ host.running.commit = setup.deploy
            /\ release.tag = setup.deploy]_<<setup, cli>>
===============================================================================
