------------------------------- MODULE SetupAws --------------------------------
(***************************************************************************)
(* `nusend setup aws` (src/apps/setup-cli/src/aws): plan and apply of the  *)
(* installation's CloudFormation stack, in the phases core and finalize,   *)
(* and the stage aws_core with the one access key of the runtime user.     *)
(* One command runs at a time and may stop at any step: a call that fails, *)
(* an answer that is no, a crash.  A command reads state.json when it      *)
(* starts and is the only one to write it, so `state` stands for what it   *)
(* has read.  CloudFormation goes on by itself; others in the account may  *)
(* delete the stack or make one of the same name.                          *)
(***************************************************************************)
EXTENDS Naturals, Sequences, FiniteSets

CONSTANTS
    MaxStacks,      \* bound: stacks that ever have the name of the installation
    MaxPlans,       \* bound: change sets that are created
    MaxKeys,        \* bound: access keys that are created
    MaxTemplate     \* bound: templates the operator's checkout goes through

ASSUME BoundsAssumption == {MaxStacks, MaxPlans, MaxKeys, MaxTemplate} \subseteq Nat \ {0}

VARIABLES
    state,      \* state.json
    env,        \* deployment.env: the stack whose outputs and the key whose secret it holds
    stack,      \* what CloudFormation has under the name of the installation
    origin,     \* who made each stack: the coordinator or another
    deleted,    \* recorded stacks, deleted, that CloudFormation still describes by their id
    changes,    \* the change sets, in the order they were created
    keys,       \* the access keys of the runtime user, and how many there ever were
    template,   \* the template in the operator's checkout
    cli         \* the command that runs

provider == <<stack, origin, deleted, changes, keys>>
awsVars == <<state, env, provider, template, cli>>

None == 0
Phases == {"core", "finalize"}
StackIds == 1..MaxStacks
Foreign == MaxKeys + 1      \* a key of the runtime user that others made

NoPlan == [change |-> None, phase |-> "core", template |-> 1, type |-> "CREATE",
           stack |-> None, noChange |-> FALSE, applied |-> FALSE, consumed |-> FALSE]

\* Module SetupDestroy: the plan, its checkpoints and what was reviewed.
NoDestroyPlan == [planned |-> FALSE, seen |-> None, approved |-> FALSE, stopped |-> FALSE,
                  keyIntent |-> FALSE, stackIntent |-> FALSE, verified |-> FALSE,
                  consumed |-> FALSE]

\* A stack is drained when its deletion has taken the dead-letter queue.
NoStack == [id |-> None, status |-> "none", phase |-> "core", template |-> None, change |-> None,
            drained |-> FALSE]

NoCommand == [pc |-> "idle", type |-> "none", number |-> None]

AwsInit ==
    /\ state = [plan |-> NoPlan, stack |-> None, creation |-> None, key |-> None,
                core |-> FALSE, deployed |-> FALSE, destroy |-> NoDestroyPlan]
    /\ env = [stack |-> None, key |-> None]
    /\ stack = NoStack /\ origin = [s \in StackIds |-> "none"]
    /\ deleted = {} /\ changes = <<>>
    /\ keys = [live |-> {}, made |-> 0]
    /\ template = 1
    /\ cli = NoCommand

At(pc) == cli.pc = pc
Go(pc) == cli' = [cli EXCEPT !.pc = pc]
Idle == cli' = NoCommand

-------------------------------------------------------------------------------
(* What the provider answers.                                              *)

Exists == stack.status # "none"
Active(status) == status \in {"review", "creating", "updating", "deleting"}
Healthy == stack.status = "complete"

\* Each stack has an id that none had before it.
NextStack(s) == origin[s] = "none" /\ \A t \in StackIds : t < s => origin[t] # "none"

\* requireNonActiveStack: a stack in review only holds a change set.
Plannable == stack.status \in {"none", "review", "complete", "update_rolled_back"}

\* assertExistingCoreStackProvenance
Proven == state.creation = stack.id

Subscribed == Exists /\ stack.phase = "finalize"

\* assertPreFinalizeSubscriptionAbsence: the topics of two stacks of one name have one ARN.
MayFinalize == state.deployed /\ env.stack = state.stack /\ Exists /\ ~Subscribed

DeterminePhase == IF state.core THEN "finalize" ELSE "core"

-------------------------------------------------------------------------------
(* runAwsPlan                                                              *)

BeginPlan ==
    /\ At("idle")
    /\ DeterminePhase = "finalize" => MayFinalize
    /\ Plannable
    /\ DeterminePhase = "core" /\ Exists => Proven
    /\ cli' = [cli EXCEPT !.pc = "drop", !.type = IF Exists THEN "UPDATE" ELSE "CREATE"]
    /\ UNCHANGED <<state, env, provider, template>>

\* deleteAbandonedChangeSet: by the name of the phase, and by the ARN of the last plan.
Abandoned(n) == changes[n].status = "available"
                /\ \/ changes[n].stack = stack.id /\ changes[n].phase = DeterminePhase
                   \/ n = state.plan.change

DropChangeSet ==
    /\ At("drop") /\ Go("create")
    /\ changes' = [n \in DOMAIN changes |->
                       IF Abandoned(n) THEN [changes[n] EXCEPT !.status = "deleted"]
                       ELSE changes[n]]
    /\ UNCHANGED <<state, env, stack, origin, deleted, keys, template>>

NewChange(id) ==
    [stack |-> id, phase |-> DeterminePhase, template |-> template,
     status |-> IF cli.type = "UPDATE" /\ stack.phase = DeterminePhase /\ stack.template = template
                THEN "no_change" ELSE "available"]

\* create-change-set makes the stack it is to create, in review.
CreateChangeSet ==
    /\ At("create") /\ Len(changes) < MaxPlans
    /\ IF cli.type = "UPDATE"
       THEN /\ stack.status \in {"complete", "update_rolled_back"}
            /\ changes' = Append(changes, NewChange(stack.id))
            /\ UNCHANGED <<stack, origin, deleted>>
       ELSE /\ stack.status = "none"
            /\ \E s \in StackIds :
                  /\ NextStack(s)
                  /\ changes' = Append(changes, NewChange(s))
                  /\ stack' = [NoStack EXCEPT !.id = s, !.status = "review"]
                  /\ origin' = [origin EXCEPT ![s] = "coordinator"]
            /\ UNCHANGED deleted
    /\ cli' = [cli EXCEPT !.pc = "store", !.number = Len(changes) + 1]
    /\ UNCHANGED <<state, env, keys, template>>

StorePlan ==
    LET made == changes[cli.number] IN
    /\ At("store") /\ Idle
    /\ state' = [state EXCEPT !.plan =
         [change |-> cli.number, phase |-> made.phase, template |-> made.template,
          type |-> cli.type, stack |-> made.stack, noChange |-> made.status = "no_change",
          applied |-> FALSE, consumed |-> FALSE]]
    /\ UNCHANGED <<env, provider, template>>

-------------------------------------------------------------------------------
(* runAwsApply                                                             *)

UsablePlan == state.plan.change # None /\ ~state.plan.consumed
              /\ state.plan.phase = DeterminePhase /\ state.plan.template = template

\* assertNoChangeStackReady
Unchanged == Healthy /\ stack.id = state.plan.stack

\* The confirmation phrase is asked for, except when only local steps are left.
BeginApply ==
    /\ At("idle") /\ UsablePlan
    /\ IF state.plan.applied THEN Go("bind")
       ELSE IF state.plan.noChange THEN Unchanged /\ Go("bind")
       ELSE Go("execute")
    /\ UNCHANGED <<state, env, provider, template>>

\* validateLiveChangeSet
OfPlannedStack(n) == changes[n].stack = state.plan.stack /\ stack.id = changes[n].stack

\* executeOrResumeChangeSet: one that runs or has run is not executed again.  Executing
\* one makes the others of its stack obsolete.
ExecuteChangeSet ==
    LET n == state.plan.change IN
    /\ At("execute") /\ Go("await")
    /\ \/ /\ changes[n].status = "available"
          /\ state.plan.phase = "finalize" => MayFinalize
          /\ OfPlannedStack(n) /\ stack.status \in {"review", "complete", "update_rolled_back"}
          /\ changes' = [m \in DOMAIN changes |->
                IF m = n THEN [changes[m] EXCEPT !.status = "executing"]
                ELSE IF changes[m].stack = stack.id /\ changes[m].status = "available"
                THEN [changes[m] EXCEPT !.status = "obsolete"] ELSE changes[m]]
          /\ stack' = [stack EXCEPT !.change = n,
                         !.status = IF stack.status = "review" THEN "creating" ELSE "updating"]
       \/ changes[n].status \in {"executing", "executed"} /\ UNCHANGED <<stack, changes>>
    /\ UNCHANGED <<state, env, origin, deleted, keys, template>>

\* The waiter watches the name of the stack.
AwaitStack ==
    /\ At("await") /\ Healthy /\ Go("bind")
    /\ UNCHANGED <<state, env, provider, template>>

\* Slip: the live stack is not compared with the planned one.
AdoptedStack == Healthy

\* expectedStackIdFromPlan, and stackCreationProofForApply, which compares an earlier proof
\* with the live stack and makes one for a core CREATE.
ExpectedStack ==
    LET expected == IF state.plan.stack # None THEN state.plan.stack ELSE state.stack IN
    Healthy /\ expected \in {None, stack.id} /\ state.creation \in {None, stack.id}

CreationProof ==
    IF state.creation = None /\ state.plan.phase = "core" /\ state.plan.type = "CREATE"
       /\ ~state.plan.noChange
    THEN stack.id ELSE state.creation

\* Slip: the plan is consumed with the checkpoint.
BindAndConsume ==
    /\ At("bind") /\ ExpectedStack /\ Go("map")
    /\ state.plan.phase = "finalize" => Subscribed
    /\ state' = [state EXCEPT !.plan.applied = TRUE, !.plan.stack = stack.id,
                              !.plan.consumed = TRUE,
                              !.stack = stack.id, !.creation = CreationProof]
    /\ UNCHANGED <<env, provider, template>>

\* The checkpoint local-finalization, with verifyFinalizedSubscription before it.
BindStack ==
    /\ At("bind") /\ ExpectedStack /\ Go("map")
    /\ state.plan.phase = "finalize" => Subscribed
    /\ state' = [state EXCEPT !.plan.applied = TRUE, !.plan.stack = stack.id,
                              !.stack = stack.id, !.creation = CreationProof]
    /\ UNCHANGED <<env, provider, template>>

MapOutputs ==
    /\ At("map") /\ Go("consume")
    /\ env' = [env EXCEPT !.stack = state.stack]
    /\ UNCHANGED <<state, provider, template>>

\* refreshAndStoreIdentity is asked first, and the plan is consumed.
ConsumePlan ==
    /\ At("consume") /\ Idle
    /\ state' = [state EXCEPT !.plan.consumed = TRUE]
    /\ UNCHANGED <<env, provider, template>>

-------------------------------------------------------------------------------
(* runAwsCoreVerification and runCreateRuntimeKey                          *)

\* The live stack is the recorded one, the SES identity is verified.
BeginCore ==
    /\ At("idle") /\ ~state.core /\ state.stack # None
    /\ Healthy /\ stack.id = state.stack
    /\ IF state.key = None THEN Go("key") ELSE env.key = state.key /\ Go("checkpoint")
    /\ UNCHANGED <<state, env, provider, template>>

\* Slip: the keys of the user are not listed first.
KeyIsWanted == TRUE

UserHasNoKey == keys.live = {}

CreateKey ==
    /\ At("key") /\ UserHasNoKey /\ keys.made < MaxKeys
    /\ keys' = [live |-> keys.live \cup {keys.made + 1}, made |-> keys.made + 1]
    /\ cli' = [cli EXCEPT !.pc = "record", !.number = keys.made + 1]
    /\ UNCHANGED <<state, env, stack, origin, deleted, changes, template>>

RecordKey ==
    /\ At("record") /\ Go("secret")
    /\ state' = [state EXCEPT !.key = cli.number]
    /\ UNCHANGED <<env, provider, template>>

StoreSecret ==
    /\ At("secret") /\ Go("checkpoint")
    /\ env' = [env EXCEPT !.key = cli.number]
    /\ UNCHANGED <<state, provider, template>>

CheckpointCore ==
    /\ At("checkpoint") /\ Idle
    /\ env.stack # None /\ env.key # None
    /\ state' = [state EXCEPT !.core = TRUE]
    /\ UNCHANGED <<env, provider, template>>

\* The stage deploy (module SetupDeploy).
DeployCompletes ==
    /\ At("idle") /\ state.core /\ ~state.deployed
    /\ state' = [state EXCEPT !.deployed = TRUE]
    /\ UNCHANGED <<env, provider, template, cli>>

\* A crash, a call that fails, an answer that is no, a condition that does not hold.
Stop == ~At("idle") /\ Idle /\ UNCHANGED <<state, env, provider, template>>

AwsCommand ==
    \/ BeginPlan \/ DropChangeSet \/ CreateChangeSet \/ StorePlan
    \/ BeginApply \/ ExecuteChangeSet \/ AwaitStack \/ BindStack \/ MapOutputs \/ ConsumePlan
    \/ BeginCore \/ CreateKey \/ RecordKey \/ StoreSecret \/ CheckpointCore

-------------------------------------------------------------------------------
(* CloudFormation, and others in the account.                              *)

\* An operation ends well, and its change set with it.
Finished ==
    /\ stack.status \in {"creating", "updating"}
    /\ stack' = [stack EXCEPT !.status = "complete", !.phase = changes[stack.change].phase,
                              !.template = changes[stack.change].template]
    /\ changes' = [changes EXCEPT ![stack.change].status = "executed"]
    /\ UNCHANGED <<origin, deleted, keys>>

RolledBack ==
    /\ stack.status \in {"creating", "updating"}
    /\ stack' = [stack EXCEPT !.status = IF stack.status = "creating" THEN "rolled_back"
                                         ELSE "update_rolled_back"]
    /\ changes' = [changes EXCEPT ![stack.change].status = "failed"]
    /\ UNCHANGED <<origin, deleted, keys>>

Gone == /\ stack' = NoStack /\ keys' = [keys EXCEPT !.live = {}]
        /\ changes' = [n \in DOMAIN changes |->
                           IF changes[n].stack = stack.id /\ changes[n].status = "available"
                           THEN [changes[n] EXCEPT !.status = "deleted"] ELSE changes[n]]
        /\ deleted' = deleted \cup ({state.stack} \cap {stack.id})
        /\ UNCHANGED origin

\* DELETE_COMPLETE stacks are described by their id for 90 days.
Forgotten(s) ==
    /\ s \in deleted /\ deleted' = deleted \ {s}
    /\ UNCHANGED <<stack, origin, changes, keys>>

\* The resources of a stack go one by one.
QueueDeleted ==
    /\ stack.status = "deleting" /\ ~stack.drained
    /\ stack' = [stack EXCEPT !.drained = TRUE]
    /\ UNCHANGED <<origin, deleted, changes, keys>>

\* A user with an access key cannot be deleted.
Deleted == stack.status = "deleting" /\ keys.live = {} /\ Gone

DeleteFails ==
    /\ stack.status = "deleting"
    /\ stack' = [stack EXCEPT !.status = "delete_failed"]
    /\ UNCHANGED <<origin, deleted, changes, keys>>

\* In the console: a stack that cannot be planned for, or any, is deleted.
DeletedByOther == Exists /\ (stack.status = "review" \/ ~Active(stack.status)) /\ Gone

\* A stack without its queue is of no use to any command.
RemainsDeleted == stack.drained /\ DeletedByOther

MadeByOther ==
    /\ ~Exists
    /\ \E s \in StackIds :
          /\ NextStack(s)
          /\ stack' = [NoStack EXCEPT !.id = s, !.status = "complete"]
          /\ origin' = [origin EXCEPT ![s] = "other"]
    /\ UNCHANGED <<deleted, changes, keys>>

KeyMadeByOther ==
    /\ Exists /\ state.key # None /\ Foreign \notin keys.live
    /\ keys' = [keys EXCEPT !.live = @ \cup {Foreign}]
    /\ UNCHANGED <<stack, origin, deleted, changes>>

\* A key nothing is known of has to be deleted by hand.
OrphanDeleted ==
    /\ ~At("record") /\ keys.live \ {state.key} # {}
    /\ keys' = [keys EXCEPT !.live = @ \cap {state.key}]
    /\ UNCHANGED <<stack, origin, deleted, changes>>

ByProvider(A) == A /\ UNCHANGED <<state, env, template, cli>>

Provider == ByProvider(\/ Finished \/ RolledBack \/ QueueDeleted \/ Deleted \/ DeleteFails
                       \/ (\E s \in StackIds : Forgotten(s))
                       \/ DeletedByOther \/ MadeByOther \/ KeyMadeByOther \/ OrphanDeleted)

TemplateChanges ==
    /\ template < MaxTemplate /\ template' = template + 1
    /\ UNCHANGED <<state, env, provider, cli>>

AwsNext == AwsCommand \/ DeployCompletes \/ Stop \/ Provider \/ TemplateChanges

-------------------------------------------------------------------------------
\* What is recorded as the installation's own stack was made by one of its change sets,
\* whatever others do with the name meanwhile.
OwnershipIsProven ==
    /\ state.creation # None => origin[state.creation] = "coordinator"
    /\ state.stack # None => state.creation = state.stack

\* The coordinator never makes a second key, and keeps a secret only of the recorded one.
OneRuntimeKey ==
    /\ Cardinality(keys.live \ {Foreign}) <= 1
    /\ env.key # None => env.key = state.key
===============================================================================
