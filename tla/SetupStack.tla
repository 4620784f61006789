------------------------------ MODULE SetupStack -------------------------------
(***************************************************************************)
(* An installation from `init` to `destroy`: the files of SetupStore, and  *)
(* then the commands of SetupAws and SetupDestroy on the stack of the      *)
(* installation.  Two bounds: the stack commands work on one installation, *)
(* Worked, and begin when no init runs or has left anything else; from     *)
(* then on no init starts.                                                 *)
(***************************************************************************)
EXTENDS SetupStore, SetupDestroy

CONSTANT Worked

ASSUME WorkedAssumption == Worked \in Installations

VARIABLE started    \* whether the stack commands have begun

vars == <<storeVars, awsVars, started>>

Init == StoreInit /\ AwsInit /\ started = FALSE

\* resolveInstallationId and the eligibility of aws_core: the stage init is complete.
Start ==
    /\ ~started /\ started' = TRUE
    /\ seen.pointer = Worked /\ seen.state[Worked] = "initialised" /\ seen = kept
    /\ \A p \in Processes : Doing(p, "idle")
    /\ \A i \in Installations : i # Worked => ~seen.dir[i]
    /\ UNCHANGED <<storeVars, awsVars>>

Initialise == ~started /\ StoreNext /\ UNCHANGED <<awsVars, started>>

Operating(A) == started /\ A /\ UNCHANGED <<storeVars, started>>

Operate == Operating(AwsNext \/ DestroyCommand)

Next == Start \/ Initialise \/ Operate

\* What a command waits for or asks does not come about.
Refused == Stop /\ ~ENABLED (AwsCommand \/ DestroyCommand)

(***************************************************************************)
(* The operator runs `destroy apply` again whenever he can, and a command  *)
(* that runs ends; from some time on it ends by itself or refused, and     *)
(* CloudFormation deletes and others make no keys.  CloudFormation ends    *)
(* what it has begun, and forgets a deleted stack after its 90 days: until *)
(* then `destroy apply` fails.  What no command can help with is deleted   *)
(* by hand: a key nothing is known of, and what remains of a stack whose   *)
(* deletion failed when its queue was gone.                                *)
(***************************************************************************)
Fairness ==
    /\ <>[][~((Stop /\ ~Refused) \/ StopFails \/ DeleteFails \/ KeyMadeByOther)]_vars
    /\ WF_vars(Operating(ByProvider(\/ Finished \/ RolledBack \/ Deleted
                                    \/ (\E s \in StackIds : Forgotten(s))
                                    \/ OrphanDeleted \/ RemainsDeleted)))
    /\ []<>At("idle")
    /\ SF_vars(Operating(BeginDestroy))

Spec == Init /\ [][Next]_vars /\ Fairness
===============================================================================
