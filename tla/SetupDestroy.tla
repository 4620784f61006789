----------------------------- MODULE SetupDestroy ------------------------------
(***************************************************************************)
(* `nusend setup destroy` (src/apps/setup-cli/src/destroy): a reviewed     *)
(* plan, and an apply that stops the deployment, deletes the runtime key   *)
(* and then the stack, and removes the credentials from deployment.env.    *)
(* Before each call that cannot be taken back it records the intent in     *)
(* state.json, so that what is missing later is told from what others took *)
(* away.  A new plan keeps these checkpoints, never the approval.          *)
(***************************************************************************)
EXTENDS SetupAws

destroy == state.destroy
Record(plan) == state' = [state EXCEPT !.destroy = plan]

\* assertInitialStackCreationProof
OwnStack == state.stack # None /\ state.creation = state.stack

\* The recorded stack stands; not one of its name.
Live == Exists /\ stack.id = state.stack

\* describeStack by the id finds a stack whatever its status, DELETE_COMPLETE too.
Described == Live \/ state.stack \in deleted

\* readDlqCounters fails when there is no queue any more.
QueueReadable == Live /\ ~stack.drained

\* assertRuntimeKeyInventory: no key but the recorded one, which may be missing only when
\* its deletion was intended.
KeysAreKnown(mayBeMissing) ==
    keys.live \subseteq {state.key} /\ (mayBeMissing \/ keys.live # {})

\* isExactStackDeleteIntent, isExactKeyDeleteIntent: `state.stack` and `state.key` never
\* change once they are proven, so an intent is always for the exact stack and key.
Explained == Described \/ destroy.stackIntent

-------------------------------------------------------------------------------
\* Slip: the checkpoints of the plan before are dropped.
ForgottenCheckpoints == NoDestroyPlan

\* "A new plan carries forward the resume checkpoints but never the approval."
CarriedCheckpoints == [destroy EXCEPT !.approved = FALSE]

\* runDestroyPlan; the version of the inventory is the last change set of the stack.
PlanDestroy ==
    /\ At("idle") /\ OwnStack /\ Explained /\ state.key # None
    /\ Live => ~Active(stack.status)
    /\ Described => QueueReadable
    /\ KeysAreKnown(destroy.keyIntent)
    /\ Record([CarriedCheckpoints EXCEPT !.planned = TRUE, !.consumed = FALSE,
                                         !.seen = IF Live THEN stack.change ELSE None])
    /\ UNCHANGED <<env, provider, template, cli>>

Applicable == destroy.planned /\ ~destroy.consumed /\ OwnStack /\ Explained
              /\ (Live /\ Active(stack.status)
                      => stack.status = "deleting" /\ destroy.stackIntent)
              /\ (Described => QueueReadable)
              /\ KeysAreKnown(destroy.keyIntent)

\* The inventory is compared again, unless the deletion was intended before.
Reviewed == Live /\ ~destroy.stackIntent => destroy.seen = stack.change

BeginDestroy ==
    /\ At("idle") /\ Applicable /\ Reviewed
    /\ cli' = [cli EXCEPT !.pc = IF destroy.approved THEN "compose" ELSE "approve",
                          !.type = IF ~Described THEN "absent"
                                   ELSE IF stack.status = "deleting" THEN "resuming" ELSE "live"]
    /\ UNCHANGED <<state, env, provider, template>>

Approve ==
    /\ At("approve") /\ Go("compose")
    /\ Record([destroy EXCEPT !.approved = TRUE])
    /\ UNCHANGED <<env, provider, template>>

\* The remote stop is done once: the services stop, or the host is out of reach or its
\* checkout unproven.
StopCompose ==
    /\ At("compose") /\ Go("intend")
    /\ Record([destroy EXCEPT !.stopped = TRUE])
    /\ UNCHANGED <<env, provider, template>>

\* A stop that fails on a host in reach is tried again by the next apply.
StopFails == At("compose") /\ ~destroy.stopped /\ Idle
             /\ UNCHANGED <<state, env, provider, template>>

\* Slip: the intent is not recorded.
KeyJustDeleted == destroy

IntendedKey == [destroy EXCEPT !.keyIntent = TRUE]

IntendKey ==
    /\ At("intend") /\ Go("unkey")
    /\ Record(IntendedKey)
    /\ UNCHANGED <<env, provider, template>>

\* Slip: the keys of the user are deleted without a look at them.
DeleteEveryKey ==
    /\ At("unkey") /\ Go("check")
    /\ keys' = [keys EXCEPT !.live = {}]
    /\ UNCHANGED <<state, env, stack, origin, deleted, changes, template>>

DeleteKey ==
    /\ At("unkey") /\ KeysAreKnown(TRUE) /\ Go("check")
    /\ keys' = [keys EXCEPT !.live = keys.live \ {state.key}]
    /\ UNCHANGED <<state, env, stack, origin, deleted, changes, template>>

\* Slip: the intent is not recorded.
StackJustDeleted == destroy

IntendedStack == [destroy EXCEPT !.stackIntent = TRUE]

\* The final look at the dead letters and the keys, and the intent to delete the stack.
IntendStack ==
    /\ At("check") /\ Go("delete")
    /\ cli.type # "absent" => QueueReadable /\ KeysAreKnown(TRUE)
    /\ Record(IntendedStack)
    /\ UNCHANGED <<env, provider, template>>

\* Slip: the stack is deleted by its name.
NamedStack == Exists

\* delete-stack takes the id, and succeeds when there is no such stack.
DeleteTarget == Live

DeleteStack ==
    /\ At("delete") /\ Go("gone")
    /\ IF cli.type = "live" /\ DeleteTarget
       THEN /\ stack.status = "deleting" \/ ~Active(stack.status)
            /\ stack' = [stack EXCEPT !.status = "deleting"]
       ELSE UNCHANGED stack
    /\ UNCHANGED <<state, env, origin, deleted, changes, keys, template>>

\* Slip: the wait is trusted.
Waited == TRUE

\* The waiter, describe-stacks after it, and the second look at stack and resources: a stack
\* that is described as DELETE_COMPLETE is not taken to be absent.
Absent == ~Described

VerifyAbsence ==
    /\ At("gone") /\ Absent /\ Go("forget")
    /\ Record([destroy EXCEPT !.verified = TRUE])
    /\ UNCHANGED <<env, provider, template>>

RemoveCredentials ==
    /\ At("forget") /\ Go("close")
    /\ env' = [env EXCEPT !.key = None]
    /\ UNCHANGED <<state, provider, template>>

ConsumeDestroyPlan ==
    /\ At("close") /\ Idle
    /\ Record([destroy EXCEPT !.consumed = TRUE])
    /\ UNCHANGED <<env, provider, template>>

DestroySteps ==
    \/ Approve \/ StopCompose \/ IntendKey \/ DeleteKey \/ IntendStack \/ DeleteStack
    \/ VerifyAbsence \/ RemoveCredentials \/ ConsumeDestroyPlan

DestroyCommand == PlanDestroy \/ BeginDestroy \/ DestroySteps \/ StopFails

-------------------------------------------------------------------------------
\* What is deleted or missing is explained by state.json, so that a rerun goes on with it: a
\* deletion that runs or has failed was intended, of the own stack, and so was that of a
\* recorded key that is gone while its stack stands.
LossIsExplained ==
    /\ stack.status \in {"deleting", "delete_failed"} => destroy.stackIntent /\ Live
    /\ Live /\ state.key # None /\ state.key \notin keys.live => destroy.keyIntent

\* deployment.env follows the stack on both ends of its life, wherever a command stops: a
\* plan is consumed only when the file names the outputs of the recorded stack, and the file
\* loses the credentials only after the stack is gone.
EnvFollowsStack ==
    /\ state.plan.consumed => env.stack = state.stack /\ state.plan.stack = state.stack
    /\ state.core /\ env.key = None => destroy.verified /\ ~Live

\* docs/aws-setup.md, "destroy is also review then apply": a deletion is begun for the
\* stack that was approved, with its recorded key already gone; and unknown keys block it,
\* no command ever deletes one.
DeletionIsApproved ==
    [][/\ stack'.status = "deleting" /\ stack.status # "deleting"
          => destroy.approved /\ OwnStack /\ stack.id = state.creation
             /\ state.key \notin keys.live
       /\ cli' # cli => keys.live \ {state.key} \subseteq keys'.live]_awsVars

\* A deletion that was intended is carried through by whoever runs the command again,
\* whatever stopped the command, failed in the provider or went away meanwhile: but only
\* once CloudFormation has forgotten the stack, which it does not owe for 90 days, and with
\* the remains of a failed deletion deleted by hand.
DestroyCompletes == destroy.stackIntent ~> destroy.consumed /\ env.key = None /\ ~Live
===============================================================================
