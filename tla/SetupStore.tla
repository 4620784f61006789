------------------------------ MODULE SetupStore -------------------------------
(***************************************************************************)
(* The files of the setup coordinator (src/apps/setup-cli/src): a private  *)
(* directory for each installation with state.json and deployment.env, and *)
(* the pointer "current" beside them.  `init` publishes an installation by *)
(* four atomic writes, each a rename followed by an fsync of the directory *)
(* (state/fs.ts), and takes it back when one of them fails.  Processes die *)
(* and power is lost between any two steps.                                *)
(***************************************************************************)
EXTENDS Naturals, Sequences

CONSTANTS Installations, Processes, NoInstallation

ASSUME NoInstallationAssumption == NoInstallation \notin Installations

VARIABLES
    seen,       \* the files as processes see them
    kept,       \* the files as a loss of power may leave them
    process     \* what each running `init` does next

storeVars == <<seen, kept, process>>

EmptyDisk == [dir |-> [i \in Installations |-> FALSE],
              state |-> [i \in Installations |-> "none"],
              env |-> [i \in Installations |-> FALSE],
              pointer |-> NoInstallation]

\* Slip: the stage is recorded before the pointer.
CheckpointFirst == <<"state", "env", "checkpoint", "pointer">>

\* The writes of `init`, in order: state.json without a stage, deployment.env, the
\* pointer, and state.json again with the stage init.
Writes == <<"state", "env", "pointer", "checkpoint">>

Resting == [pc |-> "idle", installation |-> NoInstallation, at |-> 1]

StoreInit ==
    /\ seen = EmptyDisk /\ kept = EmptyDisk
    /\ process = [p \in Processes |-> Resting]

Doing(p, pc) == process[p].pc = pc
Goes(p, pc) == process' = [process EXCEPT ![p].pc = pc]
Rests(p) == process' = [process EXCEPT ![p] = Resting]

-------------------------------------------------------------------------------
\* assertInstallationNotInitialized, and the questions and the login after it.
BeginInit(p, i) ==
    /\ Doing(p, "idle") /\ ~seen.dir[i]
    /\ process' = [process EXCEPT ![p] = [Resting EXCEPT !.pc = "reserve", !.installation = i]]
    /\ UNCHANGED <<seen, kept>>

\* reserveInstallationDirectory: mkdir fails when another process was first.
Reserve(p) ==
    LET i == process[p].installation IN
    /\ Doing(p, "reserve")
    /\ IF seen.dir[i] THEN Rests(p) /\ UNCHANGED seen
       ELSE Goes(p, "write") /\ seen' = [seen EXCEPT !.dir[i] = TRUE]
    /\ UNCHANGED kept

\* The file a write replaces, whole: the temporary file is complete when it is renamed.
Replaced(disk, i, write) ==
    CASE write = "state"      -> [disk EXCEPT !.state[i] = "published"]
      [] write = "env"        -> [disk EXCEPT !.env[i] = TRUE]
      [] write = "pointer"    -> [disk EXCEPT !.pointer = i]
      [] write = "checkpoint" -> [disk EXCEPT !.state[i] = "initialised"]

Rename(p) ==
    /\ Doing(p, "write")
    /\ seen' = Replaced(seen, process[p].installation, Writes[process[p].at])
    /\ Goes(p, "sync") /\ UNCHANGED kept

\* syncDirectory: what was renamed is durable, and with it all that was done before.
Flushed(i) == seen

SyncDirectory(p) ==
    LET at == process[p].at IN
    /\ Doing(p, "sync")
    /\ kept' = Flushed(process[p].installation)
    /\ IF at = Len(Writes) THEN Rests(p)
       ELSE process' = [process EXCEPT ![p].pc = "write", ![p].at = at + 1]
    /\ UNCHANGED seen

WriteFails(p) ==
    /\ process[p].pc \in {"write", "sync"}
    /\ Goes(p, "unpublish") /\ UNCHANGED <<seen, kept>>

\* Slip: a failed init always takes its directory back.
NeverPublished(i) == TRUE

\* removeUnpublishedInstallation keeps what the pointer names.
Unpublished(i) == seen.pointer # i

Unpublish(p) ==
    /\ Doing(p, "unpublish")
    /\ IF Unpublished(process[p].installation) THEN Goes(p, "remove") ELSE Rests(p)
    /\ UNCHANGED <<seen, kept>>

Remove(p) ==
    LET i == process[p].installation IN
    /\ Doing(p, "remove")
    /\ seen' = [seen EXCEPT !.dir[i] = FALSE, !.state[i] = "none", !.env[i] = FALSE]
    /\ Rests(p) /\ UNCHANGED kept

-------------------------------------------------------------------------------
Die(p) == ~Doing(p, "idle") /\ Rests(p) /\ UNCHANGED <<seen, kept>>

\* A journaling file system falls back to what the last fsync made durable, or to more.
LosePower ==
    /\ seen # kept
    /\ seen' \in {seen, kept} /\ kept' = seen'
    /\ process' = [p \in Processes |-> Resting]

InitStep(p) ==
    \/ \E i \in Installations : BeginInit(p, i)
    \/ Reserve(p) \/ Rename(p) \/ SyncDirectory(p) \/ WriteFails(p)
    \/ Unpublish(p) \/ Remove(p) \/ Die(p)

StoreNext == LosePower \/ \E p \in Processes : InitStep(p)

-------------------------------------------------------------------------------
Whole(disk, i) == disk.dir[i] /\ disk.state[i] # "none" /\ disk.env[i]

\* What the pointer names can be worked on: state.json and deployment.env are there,
\* whatever init died, failed or lost its power.  commands/init.ts: "a crash mid-publish
\* never leaves a complete-but-unreachable installation": the stage init is recorded only
\* behind a pointer that survives.
PublishedIsWhole ==
    /\ seen.pointer # NoInstallation => Whole(seen, seen.pointer)
    /\ \A i \in Installations : seen.state[i] = "initialised" => kept.pointer # NoInstallation
===============================================================================
