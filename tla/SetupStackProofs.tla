---------------------------- MODULE SetupStackProofs ----------------------------
(***************************************************************************)
(* What setup keeps of an installation, for any installations, processes,  *)
(* stacks, change sets, keys and templates: the published installation is  *)
(* whole, the recorded stack is the coordinator's own, there is one        *)
(* runtime key, what is missing is explained by what was intended, and     *)
(* only what was approved is deleted.                                      *)
(***************************************************************************)
EXTENDS SetupStack, FiniteSetTheorems, SequenceTheorems, TLAPS

(* The files of the coordinator                                            *)

Disk == [dir: [Installations -> BOOLEAN],
         state: [Installations -> {"none", "published", "initialised"}],
         env: [Installations -> BOOLEAN],
         pointer: Installations \cup {NoInstallation}]

StoreTypeOK ==
    /\ seen \in Disk /\ kept \in Disk
    /\ process \in [Processes -> [pc: {"idle", "reserve", "write", "sync", "unpublish", "remove"},
                                  installation: Installations \cup {NoInstallation},
                                  at: 1..4]]

\* p has the directory of its installation to itself.
Owns(p) == process[p].pc \in {"write", "sync", "unpublish", "remove"}

\* How far p has come: which of its writes are done.
Written(p, n) == \/ Doing(p, "write") /\ n < process[p].at
                 \/ Doing(p, "sync") /\ n <= process[p].at

OwnerKnows(p) ==
    LET i == process[p].installation IN
    /\ Owns(p) => i \in Installations /\ seen.dir[i]
    /\ Doing(p, "reserve") => i \in Installations /\ process[p].at = 1
    /\ Written(p, 1) => seen.state[i] # "none"
    /\ Written(p, 2) => seen.env[i]
    /\ Written(p, 3) => seen.pointer # NoInstallation
    /\ Doing(p, "remove") => seen.pointer # i
    /\ Doing(p, "write") /\ process[p].at = 4 => kept.pointer # NoInstallation
    /\ Doing(p, "sync") /\ process[p].at = 4 => kept.pointer # NoInstallation

StoreInv ==
    /\ StoreTypeOK
    /\ \A p \in Processes : OwnerKnows(p)
    /\ \A p, q \in Processes : p # q /\ Owns(p) /\ Owns(q)
                                  => process[p].installation # process[q].installation
    /\ PublishedIsWhole
    /\ kept.pointer # NoInstallation
          => Whole(kept, kept.pointer) /\ seen.pointer # NoInstallation
    /\ \A i \in Installations : kept.state[i] = "initialised" => kept.pointer # NoInstallation

-------------------------------------------------------------------------------
(* The stack and what is recorded of it                                    *)

Plan == [change: Nat, phase: Phases, template: Nat, type: {"CREATE", "UPDATE"},
         stack: {None} \cup StackIds, noChange: BOOLEAN, applied: BOOLEAN, consumed: BOOLEAN]

DestroyPlan == [planned: BOOLEAN, seen: Nat, approved: BOOLEAN, stopped: BOOLEAN,
                keyIntent: BOOLEAN, stackIntent: BOOLEAN, verified: BOOLEAN,
                consumed: BOOLEAN]

State == [plan: Plan, stack: {None} \cup StackIds, creation: {None} \cup StackIds,
          key: {None} \cup 1..MaxKeys, core: BOOLEAN, deployed: BOOLEAN, destroy: DestroyPlan]

Stack == [id: {None} \cup StackIds,
          status: {"none", "review", "creating", "updating", "deleting", "complete",
                   "rolled_back", "update_rolled_back", "delete_failed"},
          phase: Phases, template: Nat, change: Nat, drained: BOOLEAN]

Change == [stack: StackIds, phase: Phases, template: Nat,
           status: {"no_change", "available", "deleted", "executing", "obsolete", "executed",
                    "failed"}]

Pcs == {"idle", "drop", "create", "store", "execute", "await", "bind", "map", "consume",
        "key", "record", "secret", "checkpoint", "approve", "compose", "intend", "unkey",
        "check", "delete", "gone", "forget", "close"}

Command == [pc: Pcs,
            type: {"none", "CREATE", "UPDATE", "absent", "resuming", "live"}, number: Nat]

AwsTypeOK ==
    /\ state \in State
    /\ env \in [stack: {None} \cup StackIds, key: {None} \cup 1..MaxKeys]
    /\ stack \in Stack
    /\ origin \in [StackIds -> {"none", "coordinator", "other"}]
    /\ changes \in Seq(Change)
    /\ keys \in [live: SUBSET (1..MaxKeys + 1), made: 0..MaxKeys]
    /\ template \in Nat
    /\ cli \in Command

\* A stack that is there is the last of its name; what was proven is the coordinator's.
StacksAreKnown ==
    /\ Exists => stack.id \in StackIds /\ origin[stack.id] # "none"
    /\ stack.status \in {"creating", "updating"} => stack.change \in DOMAIN changes
    /\ OwnershipIsProven
    /\ state.core \/ state.key # None => state.stack # None
    /\ \A n \in DOMAIN changes : changes[n].phase = "finalize" => state.core

\* Before a stack is proven, what was planned is to create it.
PlanIsKnown ==
    /\ state.plan.change # None =>
          /\ state.plan.change \in DOMAIN changes
          /\ state.plan.stack \in StackIds
          /\ state.creation = None =>
                /\ state.plan.phase = "core" /\ state.plan.type = "CREATE"
                /\ ~state.plan.noChange /\ origin[state.plan.stack] = "coordinator"
    /\ state.plan.consumed => env.stack = state.stack /\ state.plan.stack = state.stack

KeysAreOne ==
    /\ \E k \in 1..MaxKeys : keys.live \subseteq {k, Foreign}
    /\ env.key # None => env.key = state.key
    /\ state.core /\ env.key = None => destroy.verified /\ ~Live

\* What the command knows where it stands.
PlannerKnows ==
    /\ cli.pc \in {"drop", "create", "store"} =>
          /\ cli.type \in {"CREATE", "UPDATE"}
          /\ cli.type = "UPDATE" => state.creation # None
    /\ At("store") =>
          /\ cli.number \in DOMAIN changes
          /\ cli.type = "CREATE" => /\ origin[changes[cli.number].stack] = "coordinator"
                                    /\ changes[cli.number].status # "no_change"

ApplierKnows ==
    /\ cli.pc \in {"execute", "await", "bind", "map", "consume"} =>
          state.plan.change # None /\ ~state.plan.consumed
    /\ cli.pc \in {"map", "consume"} => state.stack # None /\ state.plan.stack = state.stack
    /\ At("consume") => env.stack = state.stack

CoreKnows ==
    /\ cli.pc \in {"key", "record", "secret", "checkpoint"} => state.stack # None
    /\ cli.pc \in {"key", "record"} => state.key = None
    /\ At("record") =>
          cli.number \in 1..MaxKeys /\ (Live => cli.number \in keys.live)
    /\ At("secret") => cli.number = state.key /\ state.key # None

DestroyerKnows ==
    /\ cli.pc \in {"approve", "compose", "intend", "unkey", "check", "delete", "gone", "forget",
                   "close"} => OwnStack
    /\ cli.pc \in {"compose", "intend", "unkey", "check", "delete", "gone", "forget", "close"}
          => destroy.approved
    /\ cli.pc \in {"unkey", "check", "delete"} => destroy.keyIntent
    /\ cli.pc \in {"check", "delete"} => state.key \notin keys.live
    /\ At("delete") => destroy.stackIntent
    /\ cli.pc \in {"forget", "close"} => destroy.verified /\ ~Live

CommandKnows == PlannerKnows /\ ApplierKnows /\ CoreKnows /\ DestroyerKnows

AwsInv ==
    /\ AwsTypeOK
    /\ StacksAreKnown /\ PlanIsKnown /\ KeysAreOne /\ LossIsExplained
    /\ CommandKnows

IInv == StoreInv /\ AwsInv

-------------------------------------------------------------------------------
(* init and its files                                                      *)

\* What each write of init makes of the files.
LEMMA ReplacedDisk ==
    ASSUME NEW d \in Disk, NEW i \in Installations
    PROVE  /\ Replaced(d, i, "state") =
                  [dir |-> d.dir, state |-> [d.state EXCEPT ![i] = "published"],
                   env |-> d.env, pointer |-> d.pointer]
           /\ Replaced(d, i, "env") =
                  [dir |-> d.dir, state |-> d.state, env |-> [d.env EXCEPT ![i] = TRUE],
                   pointer |-> d.pointer]
           /\ Replaced(d, i, "pointer") =
                  [dir |-> d.dir, state |-> d.state, env |-> d.env, pointer |-> i]
           /\ Replaced(d, i, "checkpoint") =
                  [dir |-> d.dir, state |-> [d.state EXCEPT ![i] = "initialised"],
                   env |-> d.env, pointer |-> d.pointer]
<1>1. d = [dir |-> d.dir, state |-> d.state, env |-> d.env, pointer |-> d.pointer]
  BY DEF Disk
<1> QED
  BY <1>1 DEF Replaced

\* A step of p that leaves the files, and after which p knows no more than before.
LEMMA MoveKeepsStore ==
    ASSUME StoreInv, NEW p \in Processes, UNCHANGED <<seen, kept>>,
           \A q \in Processes : q # p => process'[q] = process[q],
           process' \in [Processes -> [pc: {"idle", "reserve", "write", "sync", "unpublish",
                                            "remove"},
                                       installation: Installations \cup {NoInstallation},
                                       at: 1..4]],
           Owns(p)' => Owns(p) /\ process'[p].installation = process[p].installation,
           OwnerKnows(p)'
    PROVE  StoreInv'
<1>1. StoreTypeOK' /\ PublishedIsWhole'
  BY DEF StoreInv, StoreTypeOK, PublishedIsWhole, Whole
<1>2. \A q \in Processes : OwnerKnows(q)'
  BY DEF StoreInv, OwnerKnows, Owns, Written, Doing
<1>3. \A q, r \in Processes : q # r /\ Owns(q)' /\ Owns(r)'
                                  => process'[q].installation # process'[r].installation
  BY DEF StoreInv, Owns
<1> QED
  BY <1>1, <1>2, <1>3 DEF StoreInv, Whole

\* The rename of the new pointer: what it then names was written whole by its process.
LEMMA RenameKeepsStore ==
    ASSUME StoreInv, NEW p \in Processes, Rename(p)
    PROVE  StoreInv'
<1> DEFINE i == process[p].installation
           at == process[p].at
<1>1. /\ seen \in Disk /\ i \in Installations /\ at \in 1..4 /\ UNCHANGED kept
      /\ seen' = Replaced(seen, i, Writes[at]) /\ Doing(p, "write") /\ OwnerKnows(p)
      /\ seen.dir[i]
  BY DEF StoreInv, StoreTypeOK, Rename, OwnerKnows, Owns, Doing
<1>2. /\ process'[p].pc = "sync" /\ process'[p].installation = i /\ process'[p].at = at
      /\ \A q \in Processes : q # p => process'[q] = process[q]
      /\ StoreTypeOK => process' \in [Processes -> [pc: {"idle", "reserve", "write", "sync",
                                                       "unpublish", "remove"},
                                       installation: Installations \cup {NoInstallation},
                                       at: 1..4]]
  BY DEF Rename, Goes, StoreInv, StoreTypeOK
<1>3. /\ seen' \in Disk /\ seen'.dir = seen.dir
      /\ \A j \in Installations : /\ j # i => seen'.state[j] = seen.state[j]
                                  /\ seen'.env[j] = seen.env[j] \/ (j = i /\ seen'.env[j])
      /\ seen'.state[i] = IF at = 1 THEN "published" ELSE IF at = 4 THEN "initialised"
                          ELSE seen.state[i]
      /\ at = 2 => seen'.env[i]
      /\ seen'.pointer = IF at = 3 THEN i ELSE seen.pointer
  <2>1. CASE at = 1
    <3>1. seen' = [dir |-> seen.dir, state |-> [seen.state EXCEPT ![i] = "published"],
                   env |-> seen.env, pointer |-> seen.pointer]
      BY <1>1, <2>1, ReplacedDisk DEF Writes
    <3> QED
      BY <1>1, <2>1, <3>1 DEF Disk
  <2>2. CASE at = 2
    <3>1. seen' = [dir |-> seen.dir, state |-> seen.state,
                   env |-> [seen.env EXCEPT ![i] = TRUE], pointer |-> seen.pointer]
      <4>1. seen' = Replaced(seen, i, "env")
        BY <1>1, <2>2 DEF Writes
      <4> QED
        BY <1>1, <4>1, ReplacedDisk
    <3>2. /\ seen'.env = [seen.env EXCEPT ![i] = TRUE] /\ seen.env \in [Installations -> BOOLEAN]
          /\ seen'.dir = seen.dir /\ seen'.state = seen.state /\ seen'.pointer = seen.pointer
      BY <1>1, <3>1 DEF Disk
    <3>3. /\ \A j \in Installations : seen'.env[j] = IF j = i THEN TRUE ELSE seen.env[j]
          /\ seen'.env \in [Installations -> BOOLEAN]
      <4>1. i \in Installations
        BY <1>1
      <4> HIDE DEF i
      <4> QED
        BY <3>2, <4>1
    <3>4. seen' \in Disk
      <4>1. seen' = [dir |-> seen.dir, state |-> seen.state, env |-> seen'.env,
                     pointer |-> seen.pointer]
        BY <3>1, <3>2
      <4> QED
        BY <1>1, <3>3, <4>1 DEF Disk
    <3> QED
      BY <1>1, <2>2, <3>2, <3>3, <3>4
  <2>3. CASE at = 3
    <3>1. seen' = [dir |-> seen.dir, state |-> seen.state, env |-> seen.env, pointer |-> i]
      BY <1>1, <2>3, ReplacedDisk DEF Writes
    <3> QED
      BY <1>1, <2>3, <3>1 DEF Disk
  <2>4. CASE at = 4
    <3>1. seen' = [dir |-> seen.dir, state |-> [seen.state EXCEPT ![i] = "initialised"],
                   env |-> seen.env, pointer |-> seen.pointer]
      BY <1>1, <2>4, ReplacedDisk DEF Writes
    <3>2. /\ seen'.state = [seen.state EXCEPT ![i] = "initialised"]
          /\ seen'.dir = seen.dir /\ seen'.env = seen.env /\ seen'.pointer = seen.pointer
      BY <3>1
    <3>3. /\ \A j \in Installations : j # i => seen'.state[j] = seen.state[j]
          /\ seen'.state[i] = "initialised"
          /\ seen'.state \in [Installations -> {"none", "published", "initialised"}]
      BY <1>1, <3>2 DEF Disk
    <3>4. seen' \in Disk
      <4>1. seen' = [dir |-> seen.dir, state |-> seen'.state, env |-> seen.env,
                     pointer |-> seen.pointer]
        BY <3>1, <3>2
      <4> QED
        BY <1>1, <3>3, <4>1 DEF Disk
    <3> QED
      BY <1>1, <2>4, <3>2, <3>3, <3>4
  <2>5. at = 1 \/ at = 2 \/ at = 3 \/ at = 4
    BY <1>1
  <2> HIDE DEF i, at
  <2> QED
    BY <2>1, <2>2, <2>3, <2>4, <2>5
<1>4. /\ at > 1 => seen.state[i] # "none"
      /\ at > 2 => seen.env[i]
      /\ at > 3 => seen.pointer # NoInstallation
      /\ at = 4 => kept.pointer # NoInstallation
  BY <1>1 DEF OwnerKnows, Written, Doing
<1> HIDE DEF i, at
<1>5. StoreTypeOK'
  BY <1>1, <1>2, <1>3 DEF StoreInv, StoreTypeOK
<1>6. \A q \in Processes : q # p => OwnerKnows(q)'
  <2> SUFFICES ASSUME NEW q \in Processes, q # p
               PROVE  OwnerKnows(q)'
    OBVIOUS
  <2>1. process'[q] = process[q] /\ OwnerKnows(q) /\ (Owns(q) => process[q].installation # i)
    BY <1>1, <1>2 DEF StoreInv, Owns, Doing, i
  <2> QED
    BY <1>1, <1>3, <2>1, NoInstallationAssumption
    DEF OwnerKnows, Owns, Written, Doing
<1>7. OwnerKnows(p)'
  BY <1>1, <1>2, <1>3, <1>4, NoInstallationAssumption DEF OwnerKnows, Owns, Written, Doing
<1>8. \A q, r \in Processes : q # r /\ Owns(q)' /\ Owns(r)'
                                  => process'[q].installation # process'[r].installation
  BY <1>1, <1>2 DEF StoreInv, Owns, Doing, i
<1>9. PublishedIsWhole'
  BY <1>1, <1>3, <1>4, NoInstallationAssumption DEF StoreInv, PublishedIsWhole, Whole, Disk
<1> QED
  BY <1>1, <1>3, <1>5, <1>6, <1>7, <1>8, <1>9, NoInstallationAssumption DEF StoreInv, Whole

\* The fsync of the directory: what is seen is durable, and its process goes on.
LEMMA SyncKeepsStore ==
    ASSUME StoreInv, NEW p \in Processes, SyncDirectory(p)
    PROVE  StoreInv'
<1> DEFINE i == process[p].installation
           at == process[p].at
<1>1. /\ seen \in Disk /\ i \in Installations /\ at \in 1..4 /\ UNCHANGED seen
      /\ kept' = seen /\ Doing(p, "sync") /\ OwnerKnows(p) /\ seen.dir[i]
      /\ process \in [Processes -> [pc: {"idle", "reserve", "write", "sync", "unpublish",
                                         "remove"},
                                    installation: Installations \cup {NoInstallation},
                                    at: 1..4]]
  BY DEF StoreInv, StoreTypeOK, SyncDirectory, OwnerKnows, Owns, Doing, Flushed
<1>2. CASE at = 4
  <2>1. process' = [process EXCEPT ![p] = [pc |-> "idle", installation |-> NoInstallation,
                                           at |-> 1]]
    BY <1>2 DEF SyncDirectory, Rests, Resting, Writes
  <2>2. /\ process'[p].pc = "idle" /\ \A q \in Processes : q # p => process'[q] = process[q]
        /\ process' \in [Processes -> [pc: {"idle", "reserve", "write", "sync", "unpublish",
                                            "remove"},
                                       installation: Installations \cup {NoInstallation},
                                       at: 1..4]]
    BY <1>1, <2>1
  <2>3. seen.pointer # NoInstallation
    BY <1>1, <1>2 DEF OwnerKnows, Written
  <2>4. StoreTypeOK' /\ PublishedIsWhole'
    BY <1>1, <2>2, <2>3 DEF StoreInv, StoreTypeOK, PublishedIsWhole, Whole
  <2>5. \A q \in Processes : OwnerKnows(q)'
    BY <1>1, <2>2, <2>3 DEF StoreInv, OwnerKnows, Owns, Written, Doing
  <2>6. \A q, r \in Processes : q # r /\ Owns(q)' /\ Owns(r)'
                                  => process'[q].installation # process'[r].installation
    BY <2>2 DEF StoreInv, Owns
  <2> QED
    BY <1>1, <2>3, <2>4, <2>5, <2>6 DEF StoreInv, PublishedIsWhole, Whole
<1>3. CASE at < 4
  <2>1. process' = [process EXCEPT ![p].pc = "write", ![p].at = at + 1]
    BY <1>1, <1>3 DEF SyncDirectory, Writes
  <2>2. process'[p] = [process[p] EXCEPT !.pc = "write", !.at = at + 1]
        /\ \A q \in Processes : q # p => process'[q] = process[q]
    BY <1>1, <2>1
  <2>3. process'[p] = [pc |-> "write", installation |-> i, at |-> at + 1]
    <3>1. process[p] \in [pc: {"idle", "reserve", "write", "sync", "unpublish", "remove"},
                          installation: Installations \cup {NoInstallation}, at: 1..4]
      BY <1>1
    <3> QED
      BY <2>2, <3>1
  <2>4. process' \in [Processes -> [pc: {"idle", "reserve", "write", "sync", "unpublish",
                                         "remove"},
                                    installation: Installations \cup {NoInstallation},
                                    at: 1..4]]
    BY <1>1, <1>3, <2>1, <2>3
  <2>5. at >= 3 => seen.pointer # NoInstallation
    BY <1>1 DEF OwnerKnows, Written
  <2>6. kept.pointer # NoInstallation => kept'.pointer # NoInstallation
    BY <1>1 DEF StoreInv
  <2>7. StoreTypeOK' /\ PublishedIsWhole'
    BY <1>1, <2>4, <2>6 DEF StoreInv, StoreTypeOK, PublishedIsWhole, Whole
  <2>8. \A q \in Processes : q # p => OwnerKnows(q)'
    BY <1>1, <2>2, <2>6 DEF StoreInv, OwnerKnows, Owns, Written, Doing
  <2>9. OwnerKnows(p)'
    BY <1>1, <1>3, <2>3, <2>5, <2>6 DEF OwnerKnows, Owns, Written, Doing
  <2>10. \A q, r \in Processes : q # r /\ Owns(q)' /\ Owns(r)'
                                  => process'[q].installation # process'[r].installation
    BY <1>1, <2>2, <2>3 DEF StoreInv, Owns, Doing
  <2> QED
    BY <1>1, <2>6, <2>7, <2>8, <2>9, <2>10 DEF StoreInv, PublishedIsWhole, Whole
<1> QED
  BY <1>1, <1>2, <1>3

\* A directory that p makes, or removes with what is in it, is nobody else's, and not what the
\* pointer names.
LEMMA DirectoryKeepsStore ==
    ASSUME StoreInv, NEW p \in Processes, NEW i \in Installations,
           i = process[p].installation, UNCHANGED kept, seen' \in Disk,
           seen'.pointer = seen.pointer,
           \A j \in Installations : /\ j # i => /\ seen'.dir[j] = seen.dir[j]
                                               /\ seen'.state[j] = seen.state[j]
                                               /\ seen'.env[j] = seen.env[j]
                                   /\ seen'.state[j] \in {"none", seen.state[j]},
           i # seen.pointer \/ ~seen.dir[i],
           \A q \in Processes : q # p /\ Owns(q) => process[q].installation # i,
           \A q \in Processes : q # p => process'[q] = process[q],
           process' \in [Processes -> [pc: {"idle", "reserve", "write", "sync", "unpublish",
                                            "remove"},
                                       installation: Installations \cup {NoInstallation},
                                       at: 1..4]],
           Owns(p)' => process'[p].installation = i,
           OwnerKnows(p)'
    PROVE  StoreInv'
<1>1. StoreTypeOK'
  BY DEF StoreInv, StoreTypeOK
<1>2. \A q \in Processes : q # p => OwnerKnows(q)'
  BY DEF StoreInv, OwnerKnows, Owns, Written, Doing
<1>3. \A q, r \in Processes : q # r /\ Owns(q)' /\ Owns(r)'
                                  => process'[q].installation # process'[r].installation
  BY DEF StoreInv, Owns
<1>4. seen.pointer # NoInstallation => seen.pointer \in Installations /\ seen.pointer # i
  BY DEF StoreInv, StoreTypeOK, Disk, PublishedIsWhole, Whole
<1>5. PublishedIsWhole'
  BY <1>4 DEF StoreInv, PublishedIsWhole, Whole
<1> QED
  BY <1>1, <1>2, <1>3, <1>5 DEF StoreInv, Whole

\* Each step of init, a crash and a loss of power.
LEMMA StoreNextKeepsStore == StoreInv /\ StoreNext => StoreInv'
<1> SUFFICES ASSUME StoreInv, StoreNext
             PROVE  StoreInv'
  OBVIOUS
<1> DEFINE Process == [pc: {"idle", "reserve", "write", "sync", "unpublish", "remove"},
                       installation: Installations \cup {NoInstallation}, at: 1..4]
<1>1. /\ process \in [Processes -> Process] /\ seen \in Disk /\ kept \in Disk
      /\ Resting \in Process /\ Resting.pc = "idle"
  BY DEF StoreInv, StoreTypeOK, Resting
<1>2. ASSUME NEW p \in Processes, NEW to \in Process, process' = [process EXCEPT ![p] = to],
             to.pc \in {"idle", "reserve", "unpublish"} \/ (to.pc = "remove" /\
                                                         seen.pointer # to.installation),
             to.pc = "reserve" => to.installation \in Installations /\ to.at = 1,
             to.pc \in {"unpublish", "remove"} =>
                 Owns(p) /\ to.installation = process[p].installation,
             UNCHANGED <<seen, kept>>
      PROVE  StoreInv'
  <2>1. process'[p] = to /\ (\A q \in Processes : q # p => process'[q] = process[q])
        /\ process' \in [Processes -> Process]
    BY <1>1, <1>2
  <2>2. OwnerKnows(p)'
    BY <1>2, <2>1 DEF StoreInv, OwnerKnows, Owns, Written, Doing
  <2>3. Owns(p)' => Owns(p) /\ process'[p].installation = process[p].installation
    BY <1>2, <2>1 DEF Owns
  <2> QED
    BY <1>2, <2>1, <2>2, <2>3, MoveKeepsStore
<1>3. ASSUME NEW p \in Processes, InitStep(p)
      PROVE  StoreInv'
  <2> DEFINE i == process[p].installation
  <2>0. \A pc \in {"idle", "reserve", "write", "sync", "unpublish", "remove"} :
            [process[p] EXCEPT !.pc = pc]
               = [pc |-> pc, installation |-> i, at |-> process[p].at]
            /\ [process[p] EXCEPT !.pc = pc] \in Process
    BY <1>1
  <2>1. ASSUME NEW j \in Installations, BeginInit(p, j)
        PROVE  StoreInv'
    <3>1. PICK to \in Process : to = [Resting EXCEPT !.pc = "reserve", !.installation = j]
      BY <1>1
    <3>2. to.pc = "reserve" /\ to.installation = j /\ to.at = 1
      BY <1>1, <3>1 DEF Resting
    <3> QED
      BY <1>2, <2>1, <3>1, <3>2 DEF BeginInit
  <2>2. CASE Reserve(p)
    <3>1. i \in Installations
      BY <2>2 DEF Reserve, StoreInv, OwnerKnows
    <3>2. CASE seen.dir[i]
      BY <1>1, <1>2, <2>2, <3>2 DEF Reserve, Rests
    <3>3. CASE ~seen.dir[i]
      <4>1. /\ process' = [process EXCEPT ![p] = [process[p] EXCEPT !.pc = "write"]]
            /\ seen' = [seen EXCEPT !.dir[i] = TRUE] /\ UNCHANGED kept
        BY <2>2, <3>3 DEF Reserve, Goes
      <4>2. /\ seen' = [dir |-> [seen.dir EXCEPT ![i] = TRUE], state |-> seen.state,
                        env |-> seen.env, pointer |-> seen.pointer]
            /\ seen.dir \in [Installations -> BOOLEAN]
        BY <1>1, <4>1 DEF Disk
      <4>3. /\ seen'.dir = [seen.dir EXCEPT ![i] = TRUE] /\ seen'.state = seen.state
            /\ seen'.env = seen.env /\ seen'.pointer = seen.pointer
            /\ seen'.dir \in [Installations -> BOOLEAN]
        BY <4>2
      <4>4. seen' \in Disk
        BY <1>1, <4>2, <4>3 DEF Disk
      <4>5. /\ process'[p] = [pc |-> "write", installation |-> i, at |-> process[p].at]
            /\ \A q \in Processes : q # p => process'[q] = process[q]
            /\ process' \in [Processes -> Process]
        BY <1>1, <2>0, <4>1
      <4>6. process[p].at = 1
        BY <2>2 DEF Reserve, StoreInv, OwnerKnows
      <4>7. OwnerKnows(p)'
        BY <3>1, <4>2, <4>3, <4>5, <4>6 DEF OwnerKnows, Owns, Written, Doing, Disk
      <4>8. \A q \in Processes : Owns(q) => process[q].installation # i
        BY <3>3 DEF StoreInv, OwnerKnows
      <4>9. \A j \in Installations : j # i => seen'.dir[j] = seen.dir[j]
        BY <4>2, <4>3
      <4> QED
        <5>1. \A j \in Installations : /\ j # i => /\ seen'.dir[j] = seen.dir[j]
                                                  /\ seen'.state[j] = seen.state[j]
                                                  /\ seen'.env[j] = seen.env[j]
                                      /\ seen'.state[j] \in {"none", seen.state[j]}
          BY <4>3, <4>9
        <5>2. UNCHANGED kept /\ seen'.pointer = seen.pointer /\ process'[p].installation = i
          BY <4>1, <4>3, <4>5
        <5> HIDE DEF i
        <5> QED
          BY <3>1, <3>3, <4>4, <4>5, <4>7, <4>8, <5>1, <5>2, DirectoryKeepsStore DEF i
    <3> QED
      BY <3>2, <3>3
  <2>3. CASE Rename(p)
    BY <2>3, RenameKeepsStore
  <2>4. CASE SyncDirectory(p)
    BY <2>4, SyncKeepsStore
  <2>5. CASE WriteFails(p)
    <3>1. PICK to \in Process : to = [process[p] EXCEPT !.pc = "unpublish"]
      BY <2>0
    <3>2. /\ to.pc = "unpublish" /\ to.installation = i /\ Owns(p)
          /\ process' = [process EXCEPT ![p] = to] /\ UNCHANGED <<seen, kept>>
      BY <1>3, <2>0, <2>5, <3>1 DEF WriteFails, Goes, Owns
    <3> HIDE DEF Process
    <3> QED
      BY <1>2, <1>3, <3>1, <3>2
  <2>6. CASE Unpublish(p)
    <3>1. CASE seen.pointer # i
      <4>1. PICK to \in Process : to = [process[p] EXCEPT !.pc = "remove"]
        BY <2>0
      <4>2. /\ to.pc = "remove" /\ to.installation = i /\ Owns(p)
            /\ process' = [process EXCEPT ![p] = to] /\ UNCHANGED <<seen, kept>>
        BY <1>3, <2>0, <2>6, <3>1, <4>1 DEF Unpublish, Unpublished, Goes, Owns, Doing
      <4> HIDE DEF Process
      <4> QED
        BY <1>2, <1>3, <3>1, <4>1, <4>2
    <3>2. CASE seen.pointer = i
      BY <1>1, <1>2, <1>3, <2>6, <3>2 DEF Unpublish, Unpublished, Rests
    <3> QED
      BY <3>1, <3>2
  <2>7. CASE Remove(p)
    <3>1. /\ seen' = [seen EXCEPT !.dir[i] = FALSE, !.state[i] = "none", !.env[i] = FALSE]
          /\ process' = [process EXCEPT ![p] = Resting] /\ UNCHANGED kept
          /\ i \in Installations /\ seen.pointer # i /\ Owns(p)
      BY <2>7 DEF Remove, Rests, Owns, Doing, StoreInv, OwnerKnows
    <3>2. seen' = [dir |-> [seen.dir EXCEPT ![i] = FALSE],
                   state |-> [seen.state EXCEPT ![i] = "none"],
                   env |-> [seen.env EXCEPT ![i] = FALSE], pointer |-> seen.pointer]
          /\ seen.dir \in [Installations -> BOOLEAN] /\ seen.env \in [Installations -> BOOLEAN]
          /\ seen.state \in [Installations -> {"none", "published", "initialised"}]
      BY <1>1, <3>1 DEF Disk
    <3>3. /\ seen'.dir = [seen.dir EXCEPT ![i] = FALSE]
          /\ seen'.state = [seen.state EXCEPT ![i] = "none"]
          /\ seen'.env = [seen.env EXCEPT ![i] = FALSE] /\ seen'.pointer = seen.pointer
          /\ seen'.dir \in [Installations -> BOOLEAN] /\ seen'.env \in [Installations -> BOOLEAN]
          /\ seen'.state \in [Installations -> {"none", "published", "initialised"}]
      BY <3>2
    <3>4. seen' \in Disk
      <4>1. seen' = [dir |-> seen'.dir, state |-> seen'.state, env |-> seen'.env,
                     pointer |-> seen.pointer]
        BY <3>2, <3>3
      <4> QED
        BY <1>1, <3>3, <4>1 DEF Disk
    <3>5. \A j \in Installations : /\ j # i => /\ seen'.dir[j] = seen.dir[j]
                                              /\ seen'.state[j] = seen.state[j]
                                              /\ seen'.env[j] = seen.env[j]
                                  /\ seen'.state[j] \in {"none", seen.state[j]}
      <4>1. i \in Installations
        BY <3>1
      <4> HIDE DEF i
      <4> SUFFICES ASSUME NEW j \in Installations
                   PROVE  /\ j # i => /\ seen'.dir[j] = seen.dir[j]
                                      /\ seen'.state[j] = seen.state[j]
                                      /\ seen'.env[j] = seen.env[j]
                          /\ seen'.state[j] \in {"none", seen.state[j]}
        OBVIOUS
      <4>2. seen'.dir[j] = IF j = i THEN FALSE ELSE seen.dir[j]
        BY <3>2, <3>3
      <4>3. seen'.state[j] = IF j = i THEN "none" ELSE seen.state[j]
        BY <3>2, <3>3
      <4>4. seen'.env[j] = IF j = i THEN FALSE ELSE seen.env[j]
        BY <3>2, <3>3
      <4> QED
        BY <4>2, <4>3, <4>4
    <3>6. /\ process'[p] = Resting /\ process' \in [Processes -> Process]
          /\ \A q \in Processes : q # p => process'[q] = process[q]
      BY <1>1, <3>1
    <3>7. OwnerKnows(p)' /\ ~Owns(p)'
      BY <1>1, <3>6 DEF OwnerKnows, Owns, Written, Doing
    <3>8. \A q \in Processes : q # p /\ Owns(q) => process[q].installation # i
      BY <3>1 DEF StoreInv
    <3> QED
      BY <3>1, <3>3, <3>4, <3>5, <3>6, <3>7, <3>8, DirectoryKeepsStore
  <2>8. CASE Die(p)
    BY <1>1, <1>2, <2>8 DEF Die, Rests
  <2> QED
    BY <1>3, <2>1, <2>2, <2>3, <2>4, <2>5, <2>6, <2>7, <2>8 DEF InitStep
<1>4. CASE LosePower
  <2>1. seen' \in {seen, kept} /\ kept' = seen' /\ process' = [p \in Processes |-> Resting]
    BY <1>4 DEF LosePower
  <2>2. \A p \in Processes : OwnerKnows(p)' /\ ~Owns(p)'
    BY <1>1, <2>1 DEF OwnerKnows, Owns, Written, Doing
  <2>3. StoreTypeOK'
    BY <1>1, <2>1 DEF StoreTypeOK
  <2>4. PublishedIsWhole'
    BY <2>1 DEF StoreInv, PublishedIsWhole, Whole
  <2> QED
    BY <2>1, <2>2, <2>3, <2>4 DEF StoreInv, PublishedIsWhole, Whole
<1> QED
  BY <1>3, <1>4 DEF StoreNext

-------------------------------------------------------------------------------
(* The commands on the stack                                               *)

\* The next step of a command changes nothing else of it.
LEMMA CommandGoes ==
    ASSUME AwsInv, NEW pc \in Pcs, Go(pc)
    PROVE  cli' \in Command /\ cli'.pc = pc /\ cli'.type = cli.type /\ cli'.number = cli.number
BY DEF AwsInv, AwsTypeOK, Command, Go

\* No command knows nothing.
LEMMA CommandEnds ==
    ASSUME Idle
    PROVE  cli' \in Command /\ cli'.pc = "idle" /\ CommandKnows'
BY DEF Idle, NoCommand, Command, Pcs, None, CommandKnows, PlannerKnows, ApplierKnows, CoreKnows,
       DestroyerKnows, At

\* A step that changes the command, or one by which a deleted stack is forgotten.
LEMMA StackStays ==
    ASSUME AwsInv, UNCHANGED <<state, env, stack, origin, changes, keys, template>>,
           cli' \in Command, CommandKnows'
    PROVE  AwsInv'
BY DEF AwsInv, AwsTypeOK, StacksAreKnown, OwnershipIsProven, PlanIsKnown, KeysAreOne,
       LossIsExplained, Live, Exists, destroy

\* A step of the command alone.
LEMMA CommandMoves ==
    ASSUME AwsInv, UNCHANGED <<state, env, provider, template>>, cli' \in Command, CommandKnows'
    PROVE  AwsInv'
BY StackStays DEF provider

\* A step that records something about the deletion, and takes no intent back.
LEMMA DestroyRecords ==
    ASSUME AwsInv, NEW d \in DestroyPlan, Record(d), UNCHANGED <<env, provider, template>>,
           destroy.keyIntent => d.keyIntent, destroy.stackIntent => d.stackIntent,
           destroy.verified => d.verified,
           cli' \in Command, CommandKnows'
    PROVE  AwsInv'
<1>1. UNCHANGED <<env, stack, origin, changes, keys, template>>
  BY DEF provider
<1>2. /\ state' \in State /\ state'.destroy = d /\ state'.plan = state.plan
      /\ state'.stack = state.stack /\ state'.creation = state.creation
      /\ state'.key = state.key /\ state'.core = state.core
  BY DEF AwsInv, AwsTypeOK, State, Record
<1>3. AwsTypeOK'
  BY <1>1, <1>2 DEF AwsInv, AwsTypeOK
<1>4. StacksAreKnown' /\ PlanIsKnown'
  BY <1>1, <1>2 DEF AwsInv, StacksAreKnown, OwnershipIsProven, PlanIsKnown, Exists
<1>5. KeysAreOne' /\ LossIsExplained'
  BY <1>1, <1>2 DEF AwsInv, KeysAreOne, LossIsExplained, Live, Exists, destroy
<1> QED
  BY <1>3, <1>4, <1>5 DEF AwsInv

\* A command that begins knows what it reads, and the approval of a destroy plan.
LEMMA BeginningsKeepAws ==
    ASSUME AwsInv,
           \/ BeginPlan \/ BeginApply \/ AwaitStack \/ BeginCore \/ BeginDestroy
           \/ StopFails \/ Stop
    PROVE  AwsInv'
<1> USE DEF At
<1>1. state \in State /\ cli \in Command /\ UNCHANGED <<state, env, provider, template>>
      /\ UNCHANGED <<state, env, stack, origin, changes, keys, template>>
  BY DEF AwsInv, AwsTypeOK, BeginPlan, BeginApply, AwaitStack, BeginCore, BeginDestroy,
         StopFails, Stop, provider
<1>2. CASE BeginPlan
  <2>1. /\ cli' = [cli EXCEPT !.pc = "drop", !.type = IF Exists THEN "UPDATE" ELSE "CREATE"]
        /\ DeterminePhase = "core" /\ Exists => Proven
    BY <1>2 DEF BeginPlan
  <2>2. /\ cli' \in Command /\ cli'.pc = "drop"
        /\ cli'.type = IF Exists THEN "UPDATE" ELSE "CREATE"
    BY <1>1, <2>1 DEF Command, Pcs
  <2>3. Exists => state.creation # None
    BY <2>1 DEF AwsInv, StacksAreKnown, OwnershipIsProven, DeterminePhase, Proven, StackIds, None
  <2>4. CommandKnows'
    BY <1>1, <2>2, <2>3 DEF CommandKnows, PlannerKnows, ApplierKnows, CoreKnows, DestroyerKnows
  <2> QED
    BY <1>1, <2>2, <2>4, CommandMoves
<1>3. CASE BeginApply
  <2>1. PICK pc \in {"bind", "execute"} : Go(pc)
    BY <1>3 DEF BeginApply
  <2>2. cli' \in Command /\ cli'.pc = pc
    BY <2>1, CommandGoes DEF Pcs
  <2>3. CommandKnows'
    BY <1>1, <1>3, <2>2 DEF BeginApply, UsablePlan, CommandKnows, PlannerKnows, ApplierKnows,
                            CoreKnows, DestroyerKnows
  <2> QED
    BY <1>1, <2>2, <2>3, CommandMoves
<1>4. CASE AwaitStack
  <2>1. cli' \in Command /\ cli'.pc = "bind"
    BY <1>4, CommandGoes DEF AwaitStack, Pcs
  <2>2. CommandKnows'
    BY <1>1, <1>4, <2>1 DEF AwaitStack, AwsInv, CommandKnows, PlannerKnows, ApplierKnows,
                            CoreKnows, DestroyerKnows
  <2> QED
    BY <1>1, <2>1, <2>2, CommandMoves
<1>5. CASE BeginCore
  <2>1. PICK pc \in {"key", "checkpoint"} : Go(pc) /\ (pc = "key" => state.key = None)
    BY <1>5 DEF BeginCore
  <2>2. cli' \in Command /\ cli'.pc = pc
    BY <2>1, CommandGoes DEF Pcs
  <2>3. CommandKnows'
    BY <1>1, <1>5, <2>1, <2>2 DEF BeginCore, CommandKnows, PlannerKnows, ApplierKnows,
                                  CoreKnows, DestroyerKnows
  <2> QED
    BY <1>1, <2>2, <2>3, CommandMoves
<1>6. CASE BeginDestroy
  <2>1. PICK pc \in {"compose", "approve"}, type \in {"absent", "resuming", "live"} :
            /\ cli' = [cli EXCEPT !.pc = pc, !.type = type]
            /\ pc = "compose" => destroy.approved
    BY <1>6 DEF BeginDestroy
  <2>2. cli' \in Command /\ cli'.pc = pc
    BY <1>1, <2>1 DEF Command, Pcs
  <2>3. OwnStack
    BY <1>6 DEF BeginDestroy, Applicable
  <2>4. CommandKnows'
    BY <1>1, <2>1, <2>2, <2>3 DEF CommandKnows, PlannerKnows, ApplierKnows, CoreKnows,
                                  DestroyerKnows, OwnStack, destroy
  <2> QED
    BY <1>1, <2>2, <2>4, CommandMoves
<1>7. CASE StopFails \/ Stop
  BY <1>1, <1>7, CommandEnds, CommandMoves DEF StopFails, Stop
<1> QED
  BY <1>2, <1>3, <1>4, <1>5, <1>6, <1>7

\* What the steps of destroy record.
LEMMA DestroyKeepsAws ==
    ASSUME AwsInv,
           \/ PlanDestroy \/ Approve \/ StopCompose \/ IntendKey \/ IntendStack
           \/ VerifyAbsence \/ ConsumeDestroyPlan
    PROVE  AwsInv'
<1> USE DEF At
<1>1. /\ state \in State /\ destroy \in DestroyPlan /\ cli \in Command
      /\ UNCHANGED <<env, provider, template>>
      /\ UNCHANGED <<env, stack, origin, changes, keys, template>>
  BY DEF AwsInv, AwsTypeOK, State, destroy, PlanDestroy, Approve, StopCompose, IntendKey,
         IntendStack, VerifyAbsence, ConsumeDestroyPlan, provider
<1>2. ASSUME NEW d \in DestroyPlan, Record(d)
      PROVE  /\ state'.destroy = d /\ state'.plan = state.plan /\ state'.stack = state.stack
             /\ state'.creation = state.creation /\ state'.key = state.key
  BY <1>1, <1>2 DEF State, Record
<1>3. CASE PlanDestroy
  <2>1. PICK carried \in DestroyPlan : carried = [destroy EXCEPT !.approved = FALSE]
    BY <1>1 DEF DestroyPlan
  <2>2. PICK d \in DestroyPlan :
            d = [carried EXCEPT !.planned = TRUE, !.consumed = FALSE,
                                !.seen = IF Live THEN stack.change ELSE None]
    <3>1. PICK last \in Nat : last = IF Live THEN stack.change ELSE None
      BY DEF AwsInv, AwsTypeOK, Stack, None
    <3>2. PICK planned \in DestroyPlan : planned = [carried EXCEPT !.planned = TRUE]
      BY <2>1 DEF DestroyPlan
    <3>3. PICK open \in DestroyPlan : open = [planned EXCEPT !.consumed = FALSE]
      BY <3>2 DEF DestroyPlan
    <3>4. [open EXCEPT !.seen = last] \in DestroyPlan
      BY <3>1, <3>3 DEF DestroyPlan
    <3> QED
      BY <3>1, <3>2, <3>3, <3>4
  <2>3. /\ Record(d) /\ cli' = cli /\ cli.pc = "idle"
        /\ d.keyIntent = destroy.keyIntent /\ d.stackIntent = destroy.stackIntent
        /\ d.verified = destroy.verified
    BY <1>1, <1>3, <2>1, <2>2 DEF PlanDestroy, CarriedCheckpoints, DestroyPlan
  <2>4. CommandKnows'
    BY <2>3 DEF CommandKnows, PlannerKnows, ApplierKnows, CoreKnows, DestroyerKnows
  <2> QED
    BY <1>1, <2>3, <2>4, DestroyRecords
<1>4. ASSUME NEW d \in DestroyPlan, NEW pc \in Pcs, Record(d), Go(pc),
             destroy.keyIntent => d.keyIntent, destroy.stackIntent => d.stackIntent,
             destroy.verified => d.verified, OwnStack,
             pc \in {"compose", "intend", "unkey", "delete", "forget"}, d.approved,
             pc \in {"unkey", "delete"} => d.keyIntent,
             pc = "delete" => d.stackIntent /\ state.key \notin keys.live,
             pc = "forget" => d.verified /\ ~Live
      PROVE  AwsInv'
  <2>1. cli' \in Command /\ cli'.pc = pc
    BY <1>4, CommandGoes
  <2>2. CommandKnows'
    BY <1>1, <1>2, <1>4, <2>1 DEF CommandKnows, PlannerKnows, ApplierKnows, CoreKnows,
                                  DestroyerKnows, OwnStack, Live, Exists, destroy
  <2> QED
    BY <1>1, <1>4, <2>1, <2>2, DestroyRecords
<1>5. CASE Approve
  <2>1. PICK d \in DestroyPlan : d = [destroy EXCEPT !.approved = TRUE]
    BY <1>1 DEF DestroyPlan
  <2>2. OwnStack
    BY <1>5 DEF Approve, AwsInv, CommandKnows, DestroyerKnows
  <2> QED
    BY <1>1, <1>4, <1>5, <2>1, <2>2 DEF Approve, DestroyPlan, Pcs
<1>6. CASE StopCompose
  <2>1. PICK d \in DestroyPlan : d = [destroy EXCEPT !.stopped = TRUE]
    BY <1>1 DEF DestroyPlan
  <2>2. OwnStack /\ destroy.approved
    BY <1>6 DEF StopCompose, AwsInv, CommandKnows, DestroyerKnows
  <2> QED
    BY <1>1, <1>4, <1>6, <2>1, <2>2 DEF StopCompose, DestroyPlan, Pcs
<1>7. CASE IntendKey
  <2>1. PICK d \in DestroyPlan : d = [destroy EXCEPT !.keyIntent = TRUE]
    BY <1>1 DEF DestroyPlan
  <2>2. OwnStack /\ destroy.approved
    BY <1>7 DEF IntendKey, AwsInv, CommandKnows, DestroyerKnows
  <2> QED
    BY <1>1, <1>4, <1>7, <2>1, <2>2 DEF IntendKey, IntendedKey, DestroyPlan, Pcs
<1>8. CASE IntendStack
  <2>1. PICK d \in DestroyPlan : d = [destroy EXCEPT !.stackIntent = TRUE]
    BY <1>1 DEF DestroyPlan
  <2>2. OwnStack /\ destroy.approved /\ destroy.keyIntent /\ state.key \notin keys.live
    BY <1>8 DEF IntendStack, AwsInv, CommandKnows, DestroyerKnows
  <2> QED
    BY <1>1, <1>4, <1>8, <2>1, <2>2 DEF IntendStack, IntendedStack, DestroyPlan, Pcs
<1>9. CASE VerifyAbsence
  <2>1. PICK d \in DestroyPlan : d = [destroy EXCEPT !.verified = TRUE]
    BY <1>1 DEF DestroyPlan
  <2>2. OwnStack /\ destroy.approved
    BY <1>9 DEF VerifyAbsence, AwsInv, CommandKnows, DestroyerKnows
  <2> QED
    BY <1>1, <1>4, <1>9, <2>1, <2>2 DEF VerifyAbsence, Absent, Described, DestroyPlan,
                                         Pcs
<1>10. CASE ConsumeDestroyPlan
  <2>1. PICK d \in DestroyPlan : d = [destroy EXCEPT !.consumed = TRUE]
    BY <1>1 DEF DestroyPlan
  <2> QED
    BY <1>1, <1>10, <2>1, CommandEnds, DestroyRecords DEF ConsumeDestroyPlan, DestroyPlan
<1> QED
  BY <1>3, <1>5, <1>6, <1>7, <1>8, <1>9, <1>10

\* The plan that is stored.
LEMMA StorePlanKeepsAws ==
    ASSUME AwsInv, StorePlan
    PROVE  AwsInv'
<1> DEFINE made == changes[cli.number]
           plan == [change |-> cli.number, phase |-> made.phase, template |-> made.template,
                    type |-> cli.type, stack |-> made.stack,
                    noChange |-> made.status = "no_change",
                    applied |-> FALSE, consumed |-> FALSE]
<1>1. /\ state \in State /\ cli \in Command /\ changes \in Seq(Change) /\ cli.pc = "store"
      /\ cli.number \in DOMAIN changes /\ state' = [state EXCEPT !.plan = plan]
      /\ UNCHANGED <<env, stack, origin, changes, keys, template>> /\ Idle
      /\ cli.type \in {"CREATE", "UPDATE"}
  BY DEF AwsInv, AwsTypeOK, StorePlan, CommandKnows, PlannerKnows, At, provider
<1>2. made \in Change /\ plan \in Plan
  <2>1. made \in Change /\ cli.number \in Nat
    BY <1>1 DEF Command
  <2>2. (made.status = "no_change") \in BOOLEAN
    OBVIOUS
  <2> HIDE DEF made
  <2> QED
    BY <1>1, <2>1, <2>2 DEF Plan, Change
<1> HIDE DEF plan
<1>3. /\ state' \in State /\ state'.plan = plan /\ state'.stack = state.stack
      /\ state'.creation = state.creation /\ state'.key = state.key
      /\ state'.core = state.core /\ state'.destroy = state.destroy
  BY <1>1, <1>2 DEF State
<1>4. AwsTypeOK' /\ CommandKnows'
  BY <1>1, <1>3, CommandEnds DEF AwsInv, AwsTypeOK
<1>5. StacksAreKnown' /\ KeysAreOne' /\ LossIsExplained'
  BY <1>1, <1>3 DEF AwsInv, StacksAreKnown, OwnershipIsProven, KeysAreOne, LossIsExplained,
                    Live, Exists, destroy
<1>6. PlanIsKnown'
  <2>1. plan.stack \in StackIds /\ ~plan.consumed /\ plan.change \in DOMAIN changes
    BY <1>1, <1>2 DEF plan, Change
  <2>2. ASSUME state.creation = None
        PROVE  /\ plan.phase = "core" /\ plan.type = "CREATE" /\ ~plan.noChange
               /\ origin[plan.stack] = "coordinator"
    <3>1. ~state.core /\ made.phase = "core"
      BY <1>1, <1>2, <2>2 DEF AwsInv, StacksAreKnown, OwnershipIsProven, Change, Phases
    <3>2. /\ cli.type = "CREATE" /\ made.status # "no_change"
          /\ origin[made.stack] = "coordinator"
      BY <1>1, <2>2 DEF AwsInv, CommandKnows, PlannerKnows, At
    <3> QED
      BY <3>1, <3>2 DEF plan
  <2> QED
    BY <1>1, <1>3, <2>1, <2>2 DEF PlanIsKnown
<1> QED
  BY <1>4, <1>5, <1>6 DEF AwsInv

\* The checkpoint of apply: the live stack is the planned one, and the coordinator's own.
LEMMA BindStackKeepsAws ==
    ASSUME AwsInv, BindStack
    PROVE  AwsInv'
<1>1. /\ state \in State /\ cli \in Command /\ cli.pc = "bind" /\ stack \in Stack
      /\ UNCHANGED <<env, stack, origin, changes, keys, template>> /\ Go("map")
      /\ state.plan.change # None /\ ~state.plan.consumed
      /\ Exists /\ stack.status = "complete" /\ stack.id \in StackIds
      /\ state.plan.stack = stack.id /\ state.creation \in {None, stack.id}
  BY DEF AwsInv, AwsTypeOK, BindStack, ExpectedStack, Healthy, PlanIsKnown, StacksAreKnown,
         CommandKnows, ApplierKnows, At, provider, StackIds, None, Exists
<1>2. CreationProof = stack.id /\ origin[stack.id] = "coordinator"
  BY <1>1 DEF AwsInv, CreationProof, PlanIsKnown, StacksAreKnown, OwnershipIsProven, StackIds,
              None
<1>3. PICK plan \in Plan : plan = [state.plan EXCEPT !.applied = TRUE, !.stack = stack.id]
  BY <1>1 DEF State, Plan
<1>4. state' = [state EXCEPT !.plan = plan, !.stack = stack.id, !.creation = stack.id]
  BY <1>1, <1>2, <1>3 DEF BindStack, State
<1>5. /\ state' \in State /\ state'.plan = plan /\ state'.stack = stack.id
      /\ state'.creation = stack.id /\ state'.key = state.key
      /\ state'.core = state.core /\ state'.destroy = state.destroy
  BY <1>1, <1>3, <1>4 DEF State
<1>6. /\ plan.change = state.plan.change /\ plan.change # None /\ ~plan.consumed
      /\ plan.stack = stack.id
  BY <1>1, <1>3 DEF State, Plan
<1>7. cli' \in Command /\ cli'.pc = "map"
  BY <1>1, CommandGoes DEF Pcs
<1>8. AwsTypeOK'
  BY <1>1, <1>5, <1>7 DEF AwsInv, AwsTypeOK
<1>9. state.stack \in {None, stack.id} /\ (state.key # None \/ state.core => Live)
  BY <1>1 DEF AwsInv, StacksAreKnown, OwnershipIsProven, Live
<1>10. StacksAreKnown' /\ PlanIsKnown'
  BY <1>1, <1>2, <1>5, <1>6, <1>9
  DEF AwsInv, StacksAreKnown, OwnershipIsProven, PlanIsKnown, Exists, StackIds, None
<1>11. KeysAreOne' /\ LossIsExplained'
  BY <1>1, <1>5, <1>9 DEF AwsInv, KeysAreOne, LossIsExplained, Live, Exists, destroy
<1>12. CommandKnows'
  BY <1>1, <1>5, <1>6, <1>7 DEF CommandKnows, PlannerKnows, ApplierKnows, CoreKnows,
                                DestroyerKnows, At, StackIds, None
<1> QED
  BY <1>8, <1>10, <1>11, <1>12 DEF AwsInv

\* The other records of apply and of aws_core.
LEMMA RecordsKeepAws ==
    ASSUME AwsInv, ConsumePlan \/ RecordKey \/ CheckpointCore \/ DeployCompletes
    PROVE  AwsInv'
<1> USE DEF At
<1>1. /\ state \in State /\ cli \in Command
      /\ UNCHANGED <<env, stack, origin, changes, keys, template>>
  BY DEF AwsInv, AwsTypeOK, ConsumePlan, RecordKey, CheckpointCore, DeployCompletes, provider
<1>2. CASE ConsumePlan
  <2>1. PICK plan \in Plan : plan = [state.plan EXCEPT !.consumed = TRUE]
    BY <1>1 DEF State, Plan
  <2>2. /\ state' \in State /\ state'.plan = plan /\ state'.stack = state.stack
        /\ state'.creation = state.creation /\ state'.key = state.key
        /\ state'.core = state.core /\ state'.destroy = state.destroy
    BY <1>1, <1>2, <2>1 DEF ConsumePlan, State
  <2>3. /\ plan.change = state.plan.change /\ plan.stack = state.plan.stack
        /\ plan.phase = state.plan.phase /\ plan.type = state.plan.type
        /\ plan.noChange = state.plan.noChange
    BY <1>1, <2>1 DEF State, Plan
  <2>4. env.stack = state.stack /\ state.plan.stack = state.stack
    BY <1>2 DEF ConsumePlan, AwsInv, CommandKnows, ApplierKnows
  <2>5. AwsTypeOK' /\ CommandKnows'
    BY <1>1, <1>2, <2>2, CommandEnds DEF ConsumePlan, AwsInv, AwsTypeOK
  <2>6. StacksAreKnown' /\ PlanIsKnown'
    BY <1>1, <2>2, <2>3, <2>4 DEF AwsInv, StacksAreKnown, OwnershipIsProven, PlanIsKnown, Exists
  <2>7. KeysAreOne' /\ LossIsExplained'
    BY <1>1, <2>2 DEF AwsInv, KeysAreOne, LossIsExplained, Live, Exists, destroy
  <2> QED
    BY <2>5, <2>6, <2>7 DEF AwsInv
<1>3. CASE RecordKey
  <2>1. /\ state.key = None /\ cli.number \in 1..MaxKeys /\ state.stack # None
        /\ (Live => cli.number \in keys.live) /\ Go("secret")
    BY <1>3 DEF RecordKey, AwsInv, CommandKnows, CoreKnows
  <2>2. /\ state' \in State /\ state'.plan = state.plan /\ state'.stack = state.stack
        /\ state'.creation = state.creation /\ state'.key = cli.number
        /\ state'.core = state.core /\ state'.destroy = state.destroy
    BY <1>1, <1>3, <2>1 DEF RecordKey, State
  <2>3. /\ cli' \in Command /\ cli'.pc = "secret" /\ cli'.number = cli.number
    BY <2>1, CommandGoes DEF Pcs
  <2>4. AwsTypeOK'
    BY <1>1, <2>2, <2>3 DEF AwsInv, AwsTypeOK
  <2>5. StacksAreKnown' /\ PlanIsKnown'
    BY <1>1, <2>1, <2>2 DEF AwsInv, StacksAreKnown, OwnershipIsProven, PlanIsKnown, Exists
  <2>6. KeysAreOne' /\ LossIsExplained'
    BY <1>1, <2>1, <2>2 DEF AwsInv, KeysAreOne, LossIsExplained, Live, Exists, destroy
  <2>7. CommandKnows'
    BY <1>1, <2>1, <2>2, <2>3 DEF CommandKnows, PlannerKnows, ApplierKnows, CoreKnows,
                                  DestroyerKnows, None
  <2> QED
    BY <2>4, <2>5, <2>6, <2>7 DEF AwsInv
<1>4. CASE CheckpointCore
  <2>1. state.stack # None /\ env.key # None /\ Idle
    BY <1>4 DEF CheckpointCore, AwsInv, CommandKnows, CoreKnows
  <2>2. /\ state' \in State /\ state'.plan = state.plan /\ state'.stack = state.stack
        /\ state'.creation = state.creation /\ state'.key = state.key
        /\ state'.core = TRUE /\ state'.destroy = state.destroy
    BY <1>1, <1>4 DEF CheckpointCore, State
  <2>3. AwsTypeOK' /\ CommandKnows'
    BY <1>1, <2>1, <2>2, CommandEnds DEF AwsInv, AwsTypeOK
  <2>4. StacksAreKnown' /\ PlanIsKnown'
    BY <1>1, <2>1, <2>2 DEF AwsInv, StacksAreKnown, OwnershipIsProven, PlanIsKnown, Exists
  <2>5. KeysAreOne' /\ LossIsExplained'
    BY <1>1, <2>1, <2>2 DEF AwsInv, KeysAreOne, LossIsExplained, Live, Exists, destroy
  <2> QED
    BY <2>3, <2>4, <2>5 DEF AwsInv
<1>5. CASE DeployCompletes
  <2>1. /\ state' \in State /\ state'.plan = state.plan /\ state'.stack = state.stack
        /\ state'.creation = state.creation /\ state'.key = state.key
        /\ state'.core = state.core /\ state'.destroy = state.destroy
        /\ cli' = cli /\ cli.pc = "idle"
    BY <1>1, <1>5 DEF DeployCompletes, State
  <2>2. AwsTypeOK'
    BY <1>1, <2>1 DEF AwsInv, AwsTypeOK
  <2>3. StacksAreKnown' /\ PlanIsKnown'
    BY <1>1, <2>1 DEF AwsInv, StacksAreKnown, OwnershipIsProven, PlanIsKnown, Exists
  <2>4. KeysAreOne' /\ LossIsExplained'
    BY <1>1, <2>1 DEF AwsInv, KeysAreOne, LossIsExplained, Live, Exists, destroy
  <2>5. CommandKnows'
    BY <2>1 DEF CommandKnows, PlannerKnows, ApplierKnows, CoreKnows, DestroyerKnows
  <2> QED
    BY <2>2, <2>3, <2>4, <2>5 DEF AwsInv
<1> QED
  BY <1>2, <1>3, <1>4, <1>5

\* What the commands write into deployment.env.
LEMMA EnvKeepsAws ==
    ASSUME AwsInv, MapOutputs \/ StoreSecret \/ RemoveCredentials
    PROVE  AwsInv'
<1> USE DEF At
<1>1. /\ state \in State /\ cli \in Command
      /\ env \in [stack: {None} \cup StackIds, key: {None} \cup 1..MaxKeys]
      /\ UNCHANGED <<state, stack, origin, changes, keys, template>>
  BY DEF AwsInv, AwsTypeOK, MapOutputs, StoreSecret, RemoveCredentials, provider
<1>2. ASSUME NEW pc \in Pcs, Go(pc), CommandKnows',
             env' \in [stack: {None} \cup StackIds, key: {None} \cup 1..MaxKeys],
             state.plan.consumed => env'.stack = env.stack,
             env'.key # None => env'.key = state.key,
             env'.key = None => env.key = None \/ (destroy.verified /\ ~Live)
      PROVE  AwsInv'
  <2>1. AwsTypeOK'
    BY <1>1, <1>2, CommandGoes DEF AwsInv, AwsTypeOK
  <2>2. StacksAreKnown' /\ PlanIsKnown'
    BY <1>1, <1>2 DEF AwsInv, StacksAreKnown, OwnershipIsProven, PlanIsKnown, Exists
  <2>3. KeysAreOne' /\ LossIsExplained'
    BY <1>1, <1>2 DEF AwsInv, KeysAreOne, LossIsExplained, Live, Exists, destroy
  <2> QED
    BY <1>2, <2>1, <2>2, <2>3 DEF AwsInv
<1>3. CASE MapOutputs
  <2>1. /\ state.stack # None /\ state.plan.stack = state.stack /\ ~state.plan.consumed
        /\ state.plan.change # None /\ Go("consume")
    BY <1>3 DEF MapOutputs, AwsInv, CommandKnows, ApplierKnows
  <2>2. /\ env' \in [stack: {None} \cup StackIds, key: {None} \cup 1..MaxKeys]
        /\ env'.stack = state.stack /\ env'.key = env.key
    BY <1>1, <1>3 DEF MapOutputs, State
  <2>3. cli' \in Command /\ cli'.pc = "consume"
    BY <2>1, CommandGoes DEF Pcs
  <2>4. CommandKnows'
    BY <1>1, <2>1, <2>2, <2>3 DEF CommandKnows, PlannerKnows, ApplierKnows, CoreKnows,
                                  DestroyerKnows
  <2> QED
    BY <1>2, <2>1, <2>2, <2>4 DEF Pcs, AwsInv, KeysAreOne
<1>4. CASE StoreSecret
  <2>1. /\ state.stack # None /\ cli.number = state.key /\ state.key # None /\ Go("checkpoint")
    BY <1>4 DEF StoreSecret, AwsInv, CommandKnows, CoreKnows
  <2>2. /\ env' \in [stack: {None} \cup StackIds, key: {None} \cup 1..MaxKeys]
        /\ env'.stack = env.stack /\ env'.key = state.key
    BY <1>1, <1>4, <2>1 DEF StoreSecret, State
  <2>3. cli' \in Command /\ cli'.pc = "checkpoint"
    BY <2>1, CommandGoes DEF Pcs
  <2>4. CommandKnows'
    BY <1>1, <2>1, <2>3 DEF CommandKnows, PlannerKnows, ApplierKnows, CoreKnows,
                            DestroyerKnows
  <2> QED
    BY <1>2, <2>1, <2>2, <2>4 DEF Pcs
<1>5. CASE RemoveCredentials
  <2>1. OwnStack /\ destroy.approved /\ destroy.verified /\ ~Live /\ Go("close")
    BY <1>5 DEF RemoveCredentials, AwsInv, CommandKnows, DestroyerKnows
  <2>2. /\ env' \in [stack: {None} \cup StackIds, key: {None} \cup 1..MaxKeys]
        /\ env'.stack = env.stack /\ env'.key = None
    BY <1>1, <1>5 DEF RemoveCredentials
  <2>3. cli' \in Command /\ cli'.pc = "close"
    BY <2>1, CommandGoes DEF Pcs
  <2>4. CommandKnows'
    BY <1>1, <2>1, <2>3 DEF CommandKnows, PlannerKnows, ApplierKnows, CoreKnows,
                            DestroyerKnows, OwnStack, destroy, Live, Exists
  <2> QED
    BY <1>2, <2>1, <2>2, <2>4 DEF Pcs
<1> QED
  BY <1>3, <1>4, <1>5

-------------------------------------------------------------------------------
(* CloudFormation, the keys and the others                                 *)

\* A sequence whose elements are changed one by one remains one.
LEMMA ChangesStay ==
    ASSUME NEW s \in Seq(Change), NEW t, t = [n \in DOMAIN s |-> t[n]],
           \A n \in DOMAIN s : t[n] \in Change
    PROVE  t \in Seq(Change) /\ DOMAIN t = DOMAIN s
<1>1. DOMAIN s = 1..Len(s) /\ Len(s) \in Nat
  OBVIOUS
<1>2. t \in [1..Len(s) -> Change]
  BY <1>1
<1> QED
  BY <1>1, <1>2, SeqDef

\* What a step may do to the stack, the change sets and the keys: no stack comes back, and
\* nothing is lost that was not to be deleted.
LEMMA OutsideKeepsAws ==
    ASSUME AwsInv, UNCHANGED <<state, env, template>>, cli' \in Command, CommandKnows',
           stack' \in Stack, origin' \in [StackIds -> {"none", "coordinator", "other"}],
           changes' \in Seq(Change), DOMAIN changes \subseteq DOMAIN changes',
           keys' \in [live: SUBSET (1..MaxKeys + 1), made: 0..MaxKeys],
           Exists' => stack'.id \in StackIds /\ origin'[stack'.id] # "none",
           stack'.status \in {"creating", "updating"} => stack'.change \in DOMAIN changes',
           \A s \in StackIds : origin[s] = "coordinator" => origin'[s] = "coordinator",
           \A n \in DOMAIN changes' : changes'[n].phase = "finalize" => state.core,
           \E k \in 1..MaxKeys : keys'.live \subseteq {k, Foreign},
           state.stack # None /\ Live' => Live,
           LossIsExplained'
    PROVE  AwsInv'
<1>1. AwsTypeOK'
  BY DEF AwsInv, AwsTypeOK
<1>2. state.stack \in {None} \cup StackIds /\ state.creation \in {None} \cup StackIds
      /\ None \notin StackIds
  BY DEF AwsInv, AwsTypeOK, State, StackIds, None
<1>3. StacksAreKnown'
  BY <1>2 DEF AwsInv, StacksAreKnown, OwnershipIsProven
<1>4. PlanIsKnown'
  BY DEF AwsInv, PlanIsKnown
<1>5. KeysAreOne'
  BY DEF AwsInv, KeysAreOne, StacksAreKnown, destroy
<1> QED
  BY <1>1, <1>3, <1>4, <1>5 DEF AwsInv

\* The command knows no less after what others do.
LEMMA CommandKnowsStill ==
    ASSUME AwsInv, UNCHANGED <<state, env, cli>>,
           DOMAIN changes \subseteq DOMAIN changes',
           \A n \in DOMAIN changes :
               /\ changes'[n].stack = changes[n].stack
               /\ changes'[n].status = "no_change" => changes[n].status = "no_change",
           \A s \in StackIds : origin[s] = "coordinator" => origin'[s] = "coordinator",
           state.stack # None /\ Live' => Live,
           At("record") /\ Live' => cli.number \notin keys.live \/ cli.number \in keys'.live,
           state.key \notin keys.live => state.key \notin keys'.live
    PROVE  cli' \in Command /\ CommandKnows'
<1>1. \A n \in DOMAIN changes : changes[n].stack \in StackIds
  <2>1. \A n \in DOMAIN changes : changes[n] \in Change
    BY DEF AwsInv, AwsTypeOK
  <2> QED
    BY <2>1 DEF Change
<1>2. PlannerKnows' /\ ApplierKnows'
  BY <1>1 DEF AwsInv, CommandKnows, PlannerKnows, ApplierKnows, At
<1>3. CoreKnows' /\ DestroyerKnows'
  BY DEF AwsInv, CommandKnows, CoreKnows, DestroyerKnows, At, OwnStack, destroy
<1> QED
  BY <1>2, <1>3 DEF CommandKnows, AwsInv, AwsTypeOK

\* Each step of CloudFormation and IAM, and of those who share the account.
LEMMA ProviderKeepsAws ==
    ASSUME AwsInv, Provider
    PROVE  AwsInv'
<1>1. /\ UNCHANGED <<state, env, template, cli>> /\ stack \in Stack /\ state \in State
      /\ origin \in [StackIds -> {"none", "coordinator", "other"}] /\ changes \in Seq(Change)
      /\ keys \in [live: SUBSET (1..MaxKeys + 1), made: 0..MaxKeys]
      /\ \A n \in DOMAIN changes : changes[n] \in Change
  BY DEF AwsInv, AwsTypeOK, Provider, ByProvider
<1>2. PICK one \in 1..MaxKeys : keys.live \subseteq {one, Foreign}
  BY DEF AwsInv, KeysAreOne
<1>3. /\ \A n \in DOMAIN changes : changes[n].phase = "finalize" => state.core
      /\ Exists => stack.id \in StackIds /\ origin[stack.id] # "none"
      /\ LossIsExplained
  BY DEF AwsInv, StacksAreKnown
<1>4. ASSUME NEW k \in DOMAIN changes, NEW status \in {"executed", "failed"},
             changes' = [changes EXCEPT ![k].status = status]
      PROVE  /\ changes' \in Seq(Change) /\ DOMAIN changes' = DOMAIN changes
             /\ \A n \in DOMAIN changes :
                   /\ changes'[n].stack = changes[n].stack
                   /\ changes'[n].phase = changes[n].phase
                   /\ changes'[n].status = "no_change" => changes[n].status = "no_change"
  <2>1. /\ changes' = [n \in DOMAIN changes |->
                           IF n = k THEN [changes[n] EXCEPT !.status = status] ELSE changes[n]]
    BY <1>1, <1>4
  <2>2. \A n \in DOMAIN changes :
            /\ [changes[n] EXCEPT !.status = status] \in Change
            /\ [changes[n] EXCEPT !.status = status].stack = changes[n].stack
            /\ [changes[n] EXCEPT !.status = status].phase = changes[n].phase
            /\ [changes[n] EXCEPT !.status = status].status = status
    BY <1>1, <1>4 DEF Change
  <2>3. /\ changes' = [n \in DOMAIN changes |-> changes'[n]]
        /\ \A n \in DOMAIN changes : changes'[n] \in Change
    BY <1>1, <2>1, <2>2
  <2>4. changes' \in Seq(Change) /\ DOMAIN changes' = DOMAIN changes
    BY <1>1, <2>3, ChangesStay
  <2> QED
    BY <1>4, <2>1, <2>2, <2>4
<1>5. CASE Finished \/ RolledBack
  <2>1. PICK status \in {"executed", "failed"} :
            changes' = [changes EXCEPT ![stack.change].status = status]
    BY <1>5 DEF Finished, RolledBack
  <2>2. /\ stack.change \in DOMAIN changes /\ Exists /\ UNCHANGED <<origin, keys>>
    BY <1>5 DEF Finished, RolledBack, AwsInv, StacksAreKnown, Exists
  <2>3. /\ stack' \in Stack /\ stack'.id = stack.id /\ stack'.change = stack.change
        /\ stack'.status \in {"complete", "rolled_back", "update_rolled_back"}
    <3>1. changes[stack.change].phase \in Phases /\ changes[stack.change].template \in Nat
      BY <1>1, <2>2 DEF Change
    <3>2. CASE Finished
      BY <1>1, <3>1, <3>2 DEF Finished, Stack
    <3>3. CASE RolledBack
      BY <1>1, <3>3 DEF RolledBack, Stack
    <3> QED
      BY <1>5, <3>2, <3>3
  <2>4. /\ changes' \in Seq(Change) /\ DOMAIN changes' = DOMAIN changes
        /\ \A n \in DOMAIN changes :
              /\ changes'[n].stack = changes[n].stack
              /\ changes'[n].phase = changes[n].phase
              /\ changes'[n].status = "no_change" => changes[n].status = "no_change"
    BY <1>4, <2>1, <2>2
  <2>5. /\ Live' <=> Live
        /\ LossIsExplained'
    BY <1>1, <1>3, <2>2, <2>3 DEF Live, Exists, LossIsExplained, destroy
  <2>6. cli' \in Command /\ CommandKnows'
    BY <1>1, <2>2, <2>4, <2>5, CommandKnowsStill
  <2> QED
    BY <1>1, <1>2, <1>3, <2>2, <2>3, <2>4, <2>5, <2>6, OutsideKeepsAws DEF Exists
<1>6. CASE Gone
  <2>1. /\ stack' = NoStack /\ UNCHANGED origin
        /\ keys' = [keys EXCEPT !.live = {}]
    BY <1>6 DEF Gone
  <2>2. /\ stack' \in Stack /\ stack'.status = "none" /\ stack'.id = None
        /\ keys' \in [live: SUBSET (1..MaxKeys + 1), made: 0..MaxKeys] /\ keys'.live = {}
    BY <1>1, <2>1 DEF NoStack, Stack, None, Phases
  <2>3. \A n \in DOMAIN changes :
            /\ [changes[n] EXCEPT !.status = "deleted"] \in Change
            /\ [changes[n] EXCEPT !.status = "deleted"].stack = changes[n].stack
            /\ [changes[n] EXCEPT !.status = "deleted"].phase = changes[n].phase
            /\ [changes[n] EXCEPT !.status = "deleted"].status = "deleted"
    BY <1>1 DEF Change
  <2>4. changes' = [n \in DOMAIN changes |->
                        IF changes[n].stack = stack.id /\ changes[n].status = "available"
                        THEN [changes[n] EXCEPT !.status = "deleted"] ELSE changes[n]]
    BY <1>6 DEF Gone
  <2>5. /\ changes' = [n \in DOMAIN changes |-> changes'[n]]
        /\ \A n \in DOMAIN changes :
              /\ changes'[n] \in Change
              /\ changes'[n].stack = changes[n].stack
              /\ changes'[n].phase = changes[n].phase
              /\ changes'[n].status = "no_change" => changes[n].status = "no_change"
    BY <1>1, <2>3, <2>4
  <2>6. changes' \in Seq(Change) /\ DOMAIN changes' = DOMAIN changes
    BY <1>1, <2>5, ChangesStay
  <2>7. ~Exists' /\ ~Live' /\ LossIsExplained'
    BY <2>2 DEF Exists, Live, LossIsExplained
  <2>8. cli' \in Command /\ CommandKnows'
    BY <1>1, <2>1, <2>2, <2>5, <2>6, <2>7, CommandKnowsStill
  <2> QED
    BY <1>1, <1>2, <1>3, <2>1, <2>2, <2>5, <2>6, <2>7, <2>8, OutsideKeepsAws
<1>7. CASE DeleteFails
  <2>1. /\ stack' \in Stack /\ stack'.id = stack.id /\ stack'.status = "delete_failed"
        /\ stack.status = "deleting" /\ UNCHANGED <<origin, changes, keys>>
    BY <1>1, <1>7 DEF DeleteFails, Stack
  <2>2. Exists /\ (Live' <=> Live) /\ LossIsExplained'
    BY <1>1, <1>3, <2>1 DEF Live, Exists, LossIsExplained, destroy
  <2>3. cli' \in Command /\ CommandKnows'
    BY <1>1, <2>1, <2>2, CommandKnowsStill
  <2> QED
    BY <1>1, <1>2, <1>3, <2>1, <2>2, <2>3, OutsideKeepsAws
<1>8. CASE MadeByOther
  <2>1. PICK s \in StackIds : /\ NextStack(s)
                              /\ stack' = [NoStack EXCEPT !.id = s, !.status = "complete"]
                              /\ origin' = [origin EXCEPT ![s] = "other"]
    BY <1>8 DEF MadeByOther
  <2>2. /\ stack' \in Stack /\ stack'.id = s /\ stack'.status = "complete"
        /\ UNCHANGED <<changes, keys>>
    BY <1>8, <2>1 DEF MadeByOther, NoStack, Stack, None, Phases
  <2>3. /\ origin' \in [StackIds -> {"none", "coordinator", "other"}] /\ origin'[s] = "other"
        /\ \A t \in StackIds : origin[t] = "coordinator" => origin'[t] = "coordinator"
    BY <1>1, <2>1 DEF NextStack
  <2>4. state.stack # None => state.stack # s
    BY <1>1, <2>1 DEF AwsInv, StacksAreKnown, OwnershipIsProven, NextStack
  <2>5. /\ state.stack # None => ~Live'
        /\ LossIsExplained'
    BY <1>1, <2>2, <2>4 DEF Live, LossIsExplained, AwsInv, StacksAreKnown, destroy
  <2>6. At("record") => state.stack # None
    BY DEF AwsInv, CommandKnows, CoreKnows, At
  <2>7. cli' \in Command /\ CommandKnows'
    BY <1>1, <2>2, <2>3, <2>5, <2>6, CommandKnowsStill
  <2> QED
    BY <1>1, <1>2, <1>3, <2>2, <2>3, <2>5, <2>7, OutsideKeepsAws
<1>9. CASE KeyMadeByOther
  <2>1. /\ UNCHANGED <<stack, origin, changes>> /\ state.key # None
        /\ keys' = [keys EXCEPT !.live = keys.live \cup {Foreign}]
    BY <1>9 DEF KeyMadeByOther
  <2>2. /\ keys'.live = keys.live \cup {Foreign} /\ Foreign \in 1..MaxKeys + 1
        /\ keys' \in [live: SUBSET (1..MaxKeys + 1), made: 0..MaxKeys]
        /\ state.key # Foreign
    BY <1>1, <2>1, BoundsAssumption DEF Foreign, State
  <2>3. LossIsExplained' /\ (Live' <=> Live)
    BY <1>1, <1>3, <2>1, <2>2 DEF LossIsExplained, Live, Exists, destroy
  <2>4. cli' \in Command /\ CommandKnows'
    BY <1>1, <2>1, <2>2, <2>3, CommandKnowsStill
  <2>5. \E k \in 1..MaxKeys : keys'.live \subseteq {k, Foreign}
    BY <1>2, <2>2
  <2> QED
    BY <1>1, <1>3, <2>1, <2>2, <2>3, <2>4, <2>5, OutsideKeepsAws
    DEF Exists, AwsInv, StacksAreKnown
<1>10. CASE OrphanDeleted
  <2>1. /\ UNCHANGED <<stack, origin, changes>> /\ ~At("record")
        /\ keys' = [keys EXCEPT !.live = keys.live \cap {state.key}]
    BY <1>10 DEF OrphanDeleted
  <2>2. /\ keys'.live = keys.live \cap {state.key}
        /\ keys' \in [live: SUBSET (1..MaxKeys + 1), made: 0..MaxKeys]
    BY <1>1, <2>1
  <2>3. LossIsExplained' /\ (Live' <=> Live)
    BY <1>1, <1>3, <2>1, <2>2 DEF LossIsExplained, Live, Exists, destroy
  <2>4. cli' \in Command /\ CommandKnows'
    BY <1>1, <2>1, <2>2, <2>3, CommandKnowsStill
  <2>5. \E k \in 1..MaxKeys : keys'.live \subseteq {k, Foreign}
    BY <1>2, <2>2
  <2> QED
    BY <1>1, <1>3, <2>1, <2>2, <2>3, <2>4, <2>5, OutsideKeepsAws
    DEF Exists, AwsInv, StacksAreKnown
<1>11. CASE QueueDeleted
  <2>1. /\ stack' \in Stack /\ stack'.id = stack.id /\ stack'.status = "deleting"
        /\ stack.status = "deleting" /\ UNCHANGED <<origin, changes, keys>>
    BY <1>1, <1>11 DEF QueueDeleted, Stack
  <2>2. Exists /\ (Live' <=> Live) /\ LossIsExplained'
    BY <1>1, <1>3, <2>1 DEF Live, Exists, LossIsExplained, destroy
  <2>3. cli' \in Command /\ CommandKnows'
    BY <1>1, <2>1, <2>2, CommandKnowsStill
  <2> QED
    BY <1>1, <1>2, <1>3, <2>1, <2>2, <2>3, OutsideKeepsAws
<1>12. CASE \E s \in StackIds : Forgotten(s)
  <2>1. UNCHANGED <<state, env, stack, origin, changes, keys, template, cli>>
    BY <1>1, <1>12 DEF Forgotten
  <2>2. Live' <=> Live
    BY <2>1 DEF Live, Exists
  <2>3. cli' \in Command /\ CommandKnows'
    BY <2>1, <2>2, CommandKnowsStill
  <2> QED
    BY <2>1, <2>3, StackStays
<1> QED
  BY <1>5, <1>6, <1>7, <1>8, <1>9, <1>10, <1>11, <1>12
  DEF Provider, ByProvider, Deleted, DeletedByOther

\* What the commands ask of CloudFormation for a plan.
LEMMA ChangeSetsKeepAws ==
    ASSUME AwsInv, DropChangeSet \/ CreateChangeSet \/ ExecuteChangeSet
    PROVE  AwsInv'
<1> USE DEF At
<1>1. /\ UNCHANGED <<state, env, template, keys>> /\ stack \in Stack /\ state \in State
      /\ origin \in [StackIds -> {"none", "coordinator", "other"}] /\ changes \in Seq(Change)
      /\ keys \in [live: SUBSET (1..MaxKeys + 1), made: 0..MaxKeys]
      /\ \A n \in DOMAIN changes : changes[n] \in Change
      /\ cli \in Command /\ template \in Nat
  <2>1. UNCHANGED <<state, env, template, keys>>
    BY DEF DropChangeSet, CreateChangeSet, ExecuteChangeSet
  <2>2. changes \in Seq(Change)
    BY DEF AwsInv, AwsTypeOK
  <2>3. \A n \in DOMAIN changes : changes[n] \in Change
    BY <2>2
  <2> QED
    BY <2>1, <2>2, <2>3 DEF AwsInv, AwsTypeOK
<1>2. PICK one \in 1..MaxKeys : keys.live \subseteq {one, Foreign}
  BY DEF AwsInv, KeysAreOne
<1>3. /\ \A n \in DOMAIN changes : changes[n].phase = "finalize" => state.core
      /\ Exists => stack.id \in StackIds /\ origin[stack.id] # "none"
      /\ LossIsExplained
  BY DEF AwsInv, StacksAreKnown
<1>4. ASSUME \A n \in DOMAIN changes :
                 \E status \in {"deleted", "executing", "obsolete", changes[n].status} :
                     changes'[n] = [changes[n] EXCEPT !.status = status],
             changes' = [n \in DOMAIN changes |-> changes'[n]]
      PROVE  /\ changes' \in Seq(Change) /\ DOMAIN changes' = DOMAIN changes
             /\ \A n \in DOMAIN changes : changes'[n].phase = changes[n].phase
  <2>1. ASSUME NEW n \in DOMAIN changes
        PROVE  changes'[n] \in Change /\ changes'[n].phase = changes[n].phase
    <3>1. PICK status \in {"deleted", "executing", "obsolete", changes[n].status} :
              changes'[n] = [changes[n] EXCEPT !.status = status]
      BY <1>4
    <3> QED
      BY <1>1, <3>1 DEF Change
  <2>2. changes' \in Seq(Change) /\ DOMAIN changes' = DOMAIN changes
    BY <1>1, <1>4, <2>1, ChangesStay
  <2> QED
    BY <2>1, <2>2
<1>5. \A n \in DOMAIN changes : changes[n] = [changes[n] EXCEPT !.status = changes[n].status]
  BY <1>1 DEF Change
<1>6. CASE DropChangeSet
  <2>1. changes' = [n \in DOMAIN changes |->
                        IF Abandoned(n) THEN [changes[n] EXCEPT !.status = "deleted"]
                        ELSE changes[n]]
    BY <1>6 DEF DropChangeSet
  <2>2. changes' = [n \in DOMAIN changes |-> changes'[n]]
    BY <2>1
  <2>3. ASSUME NEW n \in DOMAIN changes
        PROVE  \E status \in {"deleted", "executing", "obsolete", changes[n].status} :
                   changes'[n] = [changes[n] EXCEPT !.status = status]
    BY <1>5, <2>1
  <2>4. UNCHANGED <<stack, origin>> /\ Go("create")
    BY <1>6 DEF DropChangeSet
  <2>5. cli' \in Command /\ cli'.pc = "create" /\ cli'.type = cli.type
    BY <2>4, CommandGoes DEF Pcs
  <2>6. CommandKnows'
    BY <1>1, <1>6, <2>5 DEF DropChangeSet, AwsInv, CommandKnows, PlannerKnows, ApplierKnows,
                            CoreKnows, DestroyerKnows
  <2>7. (Live' <=> Live) /\ LossIsExplained'
    BY <1>1, <1>3, <2>4 DEF LossIsExplained, Live, Exists, destroy
  <2>8. /\ changes' \in Seq(Change) /\ DOMAIN changes' = DOMAIN changes
        /\ \A n \in DOMAIN changes : changes'[n].phase = changes[n].phase
    BY <1>4, <2>2, <2>3
  <2> QED
    BY <1>1, <1>2, <1>3, <2>4, <2>5, <2>6, <2>7, <2>8, OutsideKeepsAws
    DEF Exists, AwsInv, StacksAreKnown
<1>7. CASE CreateChangeSet
  <2>1. /\ cli' = [cli EXCEPT !.pc = "store", !.number = Len(changes) + 1]
        /\ cli.type \in {"CREATE", "UPDATE"}
        /\ cli.type = "UPDATE" => state.creation # None
    BY <1>7 DEF CreateChangeSet, AwsInv, CommandKnows, PlannerKnows
  <2>2. /\ cli' \in Command /\ cli'.pc = "store" /\ cli'.type = cli.type
        /\ cli'.number = Len(changes) + 1
    <3>1. PICK number \in Nat : number = Len(changes) + 1
      BY <1>1
    <3>2. cli' = [cli EXCEPT !.pc = "store", !.number = number]
      BY <2>1, <3>1
    <3> QED
      BY <1>1, <3>1, <3>2 DEF Command, Pcs
  <2>3. ASSUME NEW id \in StackIds, changes' = Append(changes, NewChange(id))
        PROVE  /\ changes' \in Seq(Change) /\ DOMAIN changes \subseteq DOMAIN changes'
               /\ Len(changes) + 1 \in DOMAIN changes'
               /\ changes'[Len(changes) + 1].stack = id
               /\ cli.type = "CREATE" => changes'[Len(changes) + 1].status # "no_change"
               /\ \A n \in DOMAIN changes' : changes'[n].phase = "finalize" => state.core
    <3>1. /\ NewChange(id) \in Change /\ NewChange(id).stack = id
          /\ NewChange(id).phase = "finalize" => state.core
          /\ cli.type = "CREATE" => NewChange(id).status # "no_change"
      BY <1>1 DEF NewChange, Change, Phases, DeterminePhase
    <3>2. /\ changes' \in Seq(Change) /\ Len(changes') = Len(changes) + 1
          /\ changes'[Len(changes) + 1] = NewChange(id)
          /\ \A n \in 1..Len(changes) : changes'[n] = changes[n]
      BY <1>1, <2>3, <3>1
    <3> HIDE DEF NewChange
    <3> QED
      BY <1>1, <1>3, <3>1, <3>2
  <2>4. CASE cli.type = "UPDATE"
    <3>1. /\ Exists /\ changes' = Append(changes, NewChange(stack.id)) /\ stack.id \in StackIds
          /\ UNCHANGED <<stack, origin>>
      BY <1>3, <1>7, <2>4 DEF CreateChangeSet, Exists
    <3>2. CommandKnows'
      BY <1>1, <2>1, <2>2, <2>3, <2>4, <3>1 DEF CommandKnows, PlannerKnows, ApplierKnows,
                                                CoreKnows, DestroyerKnows
    <3>3. (Live' <=> Live) /\ LossIsExplained'
      BY <1>1, <1>3, <3>1 DEF LossIsExplained, Live, Exists, destroy
    <3> QED
      BY <1>1, <1>2, <1>3, <2>2, <2>3, <3>1, <3>2, <3>3, OutsideKeepsAws
      DEF Exists, AwsInv, StacksAreKnown
  <2>5. CASE cli.type = "CREATE"
    <3>1. PICK s \in StackIds : /\ NextStack(s)
                                /\ changes' = Append(changes, NewChange(s))
                                /\ stack' = [NoStack EXCEPT !.id = s, !.status = "review"]
                                /\ origin' = [origin EXCEPT ![s] = "coordinator"]
      BY <1>7, <2>5 DEF CreateChangeSet
    <3>2. stack' \in Stack /\ stack'.id = s /\ stack'.status = "review"
      BY <3>1 DEF NoStack, Stack, None, Phases
    <3>3. /\ origin' \in [StackIds -> {"none", "coordinator", "other"}]
          /\ origin'[s] = "coordinator"
          /\ \A t \in StackIds : origin[t] = "coordinator" => origin'[t] = "coordinator"
      BY <1>1, <3>1
    <3>4. state.stack # None => state.stack # s
      BY <1>1, <3>1 DEF AwsInv, StacksAreKnown, OwnershipIsProven, NextStack
    <3>5. /\ state.stack # None => ~Live'
          /\ LossIsExplained'
      BY <1>1, <3>2, <3>4 DEF Live, LossIsExplained, AwsInv, StacksAreKnown, destroy
    <3>6. CommandKnows'
      BY <1>1, <2>1, <2>2, <2>3, <2>5, <3>1, <3>3
      DEF CommandKnows, PlannerKnows, ApplierKnows, CoreKnows, DestroyerKnows
    <3> QED
      BY <1>1, <1>2, <1>3, <2>2, <2>3, <3>1, <3>2, <3>3, <3>5, <3>6, OutsideKeepsAws
  <2> QED
    BY <2>1, <2>4, <2>5
<1>8. CASE ExecuteChangeSet
  <2> DEFINE n == state.plan.change
  <2>1. n # None /\ n \in DOMAIN changes /\ ~state.plan.consumed /\ Go("await")
        /\ UNCHANGED origin
    BY <1>8 DEF ExecuteChangeSet, AwsInv, CommandKnows, ApplierKnows, PlanIsKnown
  <2>2. cli' \in Command /\ cli'.pc = "await"
    BY <2>1, CommandGoes DEF Pcs
  <2>3. CommandKnows'
    BY <1>1, <2>1, <2>2 DEF CommandKnows, PlannerKnows, ApplierKnows, CoreKnows, DestroyerKnows
  <2>4. CASE changes[n].status = "available"
    <3>1. /\ stack.status \in {"review", "complete", "update_rolled_back"}
          /\ changes' = [m \in DOMAIN changes |->
                IF m = n THEN [changes[m] EXCEPT !.status = "executing"]
                ELSE IF changes[m].stack = stack.id /\ changes[m].status = "available"
                THEN [changes[m] EXCEPT !.status = "obsolete"] ELSE changes[m]]
          /\ stack' = [stack EXCEPT !.change = n,
                         !.status = IF stack.status = "review" THEN "creating" ELSE "updating"]
      BY <1>8, <2>4 DEF ExecuteChangeSet
    <3>2. changes' = [m \in DOMAIN changes |-> changes'[m]]
      BY <3>1
    <3>3. ASSUME NEW m \in DOMAIN changes
          PROVE  \E status \in {"deleted", "executing", "obsolete", changes[m].status} :
                     changes'[m] = [changes[m] EXCEPT !.status = status]
      BY <1>5, <3>1
    <3>4. /\ changes' \in Seq(Change) /\ DOMAIN changes' = DOMAIN changes
          /\ \A m \in DOMAIN changes : changes'[m].phase = changes[m].phase
      BY <1>4, <3>2, <3>3
    <3>5. /\ stack' \in Stack /\ stack'.id = stack.id /\ stack'.change = n
          /\ stack'.status \in {"creating", "updating"} /\ Exists
      <4>1. n \in Nat /\ Exists
        BY <1>1, <3>1 DEF State, Plan, Exists
      <4>2. PICK status \in {"creating", "updating"} :
                stack' = [stack EXCEPT !.change = n, !.status = status]
        BY <3>1
      <4> HIDE DEF n
      <4> QED
        BY <1>1, <4>1, <4>2 DEF Stack
    <3>6. (Live' <=> Live) /\ LossIsExplained'
      BY <1>1, <1>3, <3>5 DEF LossIsExplained, Live, Exists, destroy
    <3> QED
      BY <1>1, <1>2, <1>3, <2>1, <2>2, <2>3, <3>4, <3>5, <3>6, OutsideKeepsAws
  <2>5. CASE UNCHANGED <<stack, changes>>
    <3>1. UNCHANGED provider
      BY <1>8, <2>1, <2>5 DEF ExecuteChangeSet, provider
    <3> QED
      BY <1>1, <2>2, <2>3, <3>1, CommandMoves
  <2> QED
    BY <1>8, <2>4, <2>5 DEF ExecuteChangeSet
<1> QED
  BY <1>6, <1>7, <1>8

\* The key that is made and the two deletions, and a new template.
LEMMA DeletionsKeepAws ==
    ASSUME AwsInv, CreateKey \/ DeleteKey \/ DeleteStack \/ TemplateChanges
    PROVE  AwsInv'
<1> USE DEF At
<1>1. /\ stack \in Stack /\ state \in State /\ cli \in Command
      /\ keys \in [live: SUBSET (1..MaxKeys + 1), made: 0..MaxKeys]
      /\ UNCHANGED <<state, env, origin, changes>>
      /\ origin \in [StackIds -> {"none", "coordinator", "other"}] /\ changes \in Seq(Change)
  BY DEF AwsInv, AwsTypeOK, CreateKey, DeleteKey, DeleteStack, TemplateChanges, provider
<1>2. PICK one \in 1..MaxKeys : keys.live \subseteq {one, Foreign}
  BY DEF AwsInv, KeysAreOne
<1>3. /\ \A n \in DOMAIN changes : changes[n].phase = "finalize" => state.core
      /\ Exists => stack.id \in StackIds /\ origin[stack.id] # "none"
      /\ stack.status \in {"creating", "updating"} => stack.change \in DOMAIN changes
      /\ LossIsExplained
  BY DEF AwsInv, StacksAreKnown
<1>4. CASE CreateKey
  <2>1. /\ cli.pc = "key" /\ state.key = None /\ state.stack # None
        /\ keys' = [live |-> {keys.made + 1}, made |-> keys.made + 1]
        /\ keys.made + 1 \in 1..MaxKeys /\ UNCHANGED <<stack, template>>
        /\ cli' = [cli EXCEPT !.pc = "record", !.number = keys.made + 1]
    BY <1>1, <1>4, BoundsAssumption DEF CreateKey, UserHasNoKey, AwsInv, CommandKnows, CoreKnows
  <2>2. /\ keys'.live = {keys.made + 1}
        /\ keys' \in [live: SUBSET (1..MaxKeys + 1), made: 0..MaxKeys]
    BY <2>1, BoundsAssumption
  <2>3. cli' \in Command /\ cli'.pc = "record" /\ cli'.number = keys.made + 1
    <3>1. PICK number \in Nat : number = keys.made + 1
      BY <1>1, BoundsAssumption
    <3>2. cli' = [cli EXCEPT !.pc = "record", !.number = number]
      BY <2>1, <3>1
    <3> QED
      BY <1>1, <3>1, <3>2 DEF Command, Pcs
  <2>4. CommandKnows'
    BY <1>1, <2>1, <2>2, <2>3 DEF CommandKnows, PlannerKnows, ApplierKnows, CoreKnows,
                                  DestroyerKnows
  <2>5. (Live' <=> Live) /\ LossIsExplained'
    BY <1>1, <1>3, <2>1 DEF LossIsExplained, Live, Exists, destroy
  <2>6. \E k \in 1..MaxKeys : keys'.live \subseteq {k, Foreign}
    BY <2>1, <2>2
  <2> QED
    BY <1>1, <1>3, <2>1, <2>2, <2>3, <2>4, <2>5, <2>6, OutsideKeepsAws DEF Exists
<1>5. CASE DeleteKey
  <2>1. /\ OwnStack /\ destroy.approved /\ destroy.keyIntent /\ Go("check")
        /\ keys' = [keys EXCEPT !.live = keys.live \ {state.key}]
        /\ UNCHANGED <<stack, template>>
    BY <1>5 DEF DeleteKey, AwsInv, CommandKnows, DestroyerKnows
  <2>2. /\ keys'.live = keys.live \ {state.key}
        /\ keys' \in [live: SUBSET (1..MaxKeys + 1), made: 0..MaxKeys]
    BY <1>1, <2>1
  <2>3. cli' \in Command /\ cli'.pc = "check"
    BY <2>1, CommandGoes DEF Pcs
  <2>4. CommandKnows'
    BY <1>1, <2>1, <2>2, <2>3 DEF CommandKnows, PlannerKnows, ApplierKnows, CoreKnows,
                                  DestroyerKnows, OwnStack, destroy
  <2>5. (Live' <=> Live) /\ LossIsExplained'
    BY <1>1, <1>3, <2>1 DEF LossIsExplained, Live, Exists, destroy
  <2>6. \E k \in 1..MaxKeys : keys'.live \subseteq {k, Foreign}
    BY <1>2, <2>2
  <2> QED
    BY <1>1, <1>3, <2>1, <2>2, <2>3, <2>4, <2>5, <2>6, OutsideKeepsAws DEF Exists
<1>6. CASE DeleteStack
  <2>1. /\ OwnStack /\ destroy.approved /\ destroy.stackIntent /\ Go("gone")
        /\ UNCHANGED <<keys, template>>
    BY <1>6 DEF DeleteStack, AwsInv, CommandKnows, DestroyerKnows
  <2>2. cli' \in Command /\ cli'.pc = "gone"
    BY <2>1, CommandGoes DEF Pcs
  <2>3. CommandKnows'
    BY <1>1, <2>1, <2>2 DEF CommandKnows, PlannerKnows, ApplierKnows, CoreKnows,
                            DestroyerKnows, OwnStack, destroy
  <2>4. CASE Live /\ stack' = [stack EXCEPT !.status = "deleting"]
    <3>1. /\ stack' \in Stack /\ stack'.id = stack.id /\ stack'.status = "deleting" /\ Exists
      BY <1>1, <2>4 DEF Stack, Live
    <3>2. Live' /\ LossIsExplained'
      BY <1>1, <1>3, <2>1, <2>4, <3>1 DEF LossIsExplained, Live, Exists, destroy
    <3> QED
      BY <1>1, <1>2, <1>3, <2>1, <2>2, <2>3, <2>4, <3>1, <3>2, OutsideKeepsAws
  <2>5. CASE UNCHANGED stack
    <3>1. UNCHANGED provider
      BY <1>6, <2>1, <2>5 DEF DeleteStack, provider
    <3> QED
      BY <1>1, <2>1, <2>2, <2>3, <3>1, CommandMoves
  <2> QED
    BY <1>6, <2>4, <2>5 DEF DeleteStack, DeleteTarget
<1>7. CASE TemplateChanges
  <2>1. template' \in Nat /\ UNCHANGED <<keys, stack, cli>>
    BY <1>7 DEF TemplateChanges, provider, AwsInv, AwsTypeOK
  <2>2. AwsTypeOK' /\ CommandKnows'
    BY <1>1, <2>1 DEF AwsInv, AwsTypeOK, CommandKnows, PlannerKnows, ApplierKnows, CoreKnows,
                      DestroyerKnows, OwnStack, Live, Exists, destroy
  <2> QED
    BY <1>1, <2>1, <2>2 DEF AwsInv, StacksAreKnown, OwnershipIsProven, PlanIsKnown, KeysAreOne,
                            LossIsExplained, Live, Exists, destroy
<1> QED
  BY <1>4, <1>5, <1>6, <1>7

-------------------------------------------------------------------------------
(* The installation                                                        *)

\* Before the first init there is neither an installation nor a stack.
LEMMA Beginning == Init => IInv
<1> SUFFICES ASSUME Init
             PROVE  IInv
  OBVIOUS
<1>1. StoreInv
  <2>1. /\ seen = EmptyDisk /\ kept = EmptyDisk
        /\ process = [p \in Processes |-> [pc |-> "idle", installation |-> NoInstallation,
                                           at |-> 1]]
    BY DEF Init, StoreInit, Resting
  <2>2. EmptyDisk \in Disk /\ EmptyDisk.pointer = NoInstallation
        /\ \A i \in Installations : EmptyDisk.state[i] = "none"
    BY DEF EmptyDisk, Disk
  <2>3. StoreTypeOK
    BY <2>1, <2>2 DEF StoreTypeOK
  <2>4. \A p \in Processes : OwnerKnows(p) /\ ~Owns(p)
    BY <2>1 DEF OwnerKnows, Owns, Written, Doing
  <2>5. PublishedIsWhole
    BY <2>1, <2>2 DEF PublishedIsWhole
  <2> QED
    BY <2>1, <2>2, <2>3, <2>4, <2>5 DEF StoreInv
<1>2. AwsInv
  <2>1. /\ state = [plan |-> NoPlan, stack |-> None, creation |-> None, key |-> None,
                    core |-> FALSE, deployed |-> FALSE, destroy |-> NoDestroyPlan]
        /\ env = [stack |-> None, key |-> None] /\ stack = NoStack
        /\ origin = [s \in StackIds |-> "none"] /\ changes = <<>>
        /\ keys = [live |-> {}, made |-> 0] /\ template = 1 /\ cli = NoCommand
    BY DEF Init, AwsInit
  <2>2. /\ NoPlan \in Plan /\ NoDestroyPlan \in DestroyPlan /\ NoStack \in Stack
        /\ NoCommand \in Command
    BY DEF NoPlan, Plan, NoDestroyPlan, DestroyPlan, NoStack, Stack, NoCommand, Command, Pcs,
           None, Phases
  <2>3. state \in State
    BY <2>1, <2>2 DEF State
  <2>4. AwsTypeOK
    BY <2>1, <2>2, <2>3, BoundsAssumption DEF AwsTypeOK
  <2>5. /\ state.plan.change = None /\ ~state.plan.consumed /\ stack.status = "none"
        /\ cli.pc = "idle" /\ state.stack = None /\ state.creation = None
        /\ state.key = None /\ ~state.core
    BY <2>1 DEF NoPlan, NoStack, NoCommand
  <2>6. StacksAreKnown /\ PlanIsKnown
    BY <2>1, <2>5 DEF StacksAreKnown, PlanIsKnown, OwnershipIsProven, Exists
  <2>7. KeysAreOne /\ LossIsExplained
    BY <2>1, <2>5, BoundsAssumption DEF KeysAreOne, LossIsExplained
  <2>8. CommandKnows
    BY <2>5 DEF CommandKnows, PlannerKnows, ApplierKnows, CoreKnows, DestroyerKnows, At
  <2> QED
    BY <2>4, <2>6, <2>7, <2>8 DEF AwsInv
<1> QED
  BY <1>1, <1>2 DEF IInv

\* Each step of plan, apply, the runtime key and destroy.
LEMMA CommandsKeepAws == AwsInv /\ (AwsNext \/ DestroyCommand) => AwsInv'
<1> SUFFICES ASSUME AwsInv, AwsNext \/ DestroyCommand
             PROVE  AwsInv'
  OBVIOUS
<1>1. CASE AwsCommand
  BY <1>1, BeginningsKeepAws, ChangeSetsKeepAws, StorePlanKeepsAws, BindStackKeepsAws,
     EnvKeepsAws, RecordsKeepAws, DeletionsKeepAws
  DEF AwsCommand
<1>2. CASE DestroyCommand
  BY <1>2, BeginningsKeepAws, DestroyKeepsAws, EnvKeepsAws, DeletionsKeepAws
  DEF DestroyCommand, DestroySteps
<1>3. CASE DeployCompletes \/ Stop \/ Provider \/ TemplateChanges
  BY <1>3, RecordsKeepAws, BeginningsKeepAws, ProviderKeepsAws, DeletionsKeepAws
<1> QED
  BY <1>1, <1>2, <1>3 DEF AwsNext

\* A step that leaves the stack, what is recorded of it and the command.
LEMMA AwsStays == AwsInv /\ UNCHANGED awsVars => AwsInv'
<1> SUFFICES ASSUME AwsInv, UNCHANGED awsVars
             PROVE  AwsInv'
  OBVIOUS
<1>1. UNCHANGED <<state, env, provider, template, cli>>
  BY DEF awsVars
<1>2. UNCHANGED <<state, env, stack, origin, changes, keys, template, cli>>
  BY <1>1 DEF provider
<1>3. cli' \in Command
  BY <1>1 DEF AwsInv, AwsTypeOK
<1>4. PlannerKnows' /\ ApplierKnows'
  BY <1>2 DEF AwsInv, CommandKnows, PlannerKnows, ApplierKnows, At
<1>5. CoreKnows' /\ DestroyerKnows'
  BY <1>2 DEF AwsInv, CommandKnows, CoreKnows, DestroyerKnows, At, OwnStack, Live, Exists,
              destroy
<1> QED
  BY <1>1, <1>3, <1>4, <1>5, CommandMoves DEF CommandKnows

\* A step that leaves the files and the processes.
LEMMA StoreStays == StoreInv /\ UNCHANGED storeVars => StoreInv'
BY DEF storeVars, StoreInv, StoreTypeOK, OwnerKnows, Owns, Written, Doing, PublishedIsWhole,
       Whole

\* What setup knows of its files, of the stack, of the keys and of the command that runs
\* holds through every step of it, of the provider and of others.
THEOREM Invariance == Spec => []IInv
<1>1. Init => IInv
  BY Beginning
<1>2. IInv /\ [Next]_vars => IInv'
  <2> SUFFICES ASSUME IInv, [Next]_vars
               PROVE  IInv'
    OBVIOUS
  <2>1. StoreInv /\ AwsInv
    BY DEF IInv
  <2>2. CASE Start
    BY <2>1, <2>2, AwsStays, StoreStays DEF Start, IInv
  <2>3. CASE Initialise
    BY <2>1, <2>3, AwsStays, StoreNextKeepsStore DEF Initialise, IInv
  <2>4. CASE Operate
    BY <2>1, <2>4, StoreStays, CommandsKeepAws DEF Operate, Operating, IInv
  <2>5. CASE UNCHANGED vars
    BY <2>1, <2>5, StoreStays, AwsStays DEF vars, IInv
  <2> QED
    BY <2>2, <2>3, <2>4, <2>5 DEF Next
<1> QED
  BY <1>1, <1>2, PTL DEF Spec

\* The published installation is whole, wherever `init` died or lost its power: the writes of
\* commands/init.ts, the rename and fsync of state/fs.ts, and removeUnpublishedInstallation.
THEOREM PublishedAlwaysWhole == Spec => []PublishedIsWhole
<1>1. IInv => PublishedIsWhole
  BY DEF IInv, StoreInv
<1> QED
  BY <1>1, Invariance, PTL

\* The recorded stack was made by one of the installation's change sets: the provenance that
\* aws/apply.ts records and aws/plan.ts and destroy ask for.
THEOREM OwnershipAlwaysProven == Spec => []OwnershipIsProven
<1>1. IInv => OwnershipIsProven
  BY DEF IInv, AwsInv, StacksAreKnown
<1> QED
  BY <1>1, Invariance, PTL

\* One key of the coordinator's at most: aws/runtime-key.ts lists the keys of the user first.
THEOREM AlwaysOneRuntimeKey == Spec => []OneRuntimeKey
<1>1. ASSUME IInv
      PROVE  OneRuntimeKey
  <2>1. PICK k \in 1..MaxKeys : keys.live \subseteq {k, Foreign}
    BY <1>1 DEF IInv, AwsInv, KeysAreOne
  <2>2. keys.live \ {Foreign} = {} \/ keys.live \ {Foreign} = {k}
    BY <2>1
  <2>3. Cardinality({}) = 0 /\ Cardinality({k}) = 1
    BY FS_EmptySet, FS_Singleton
  <2>4. Cardinality(keys.live \ {Foreign}) <= 1
    BY <2>2, <2>3
  <2> QED
    BY <1>1, <2>4 DEF IInv, AwsInv, KeysAreOne, OneRuntimeKey
<1> QED
  BY <1>1, Invariance, PTL

\* deployment.env follows the stack, wherever apply and destroy stop.
THEOREM EnvAlwaysFollows == Spec => []EnvFollowsStack
<1>1. IInv => EnvFollowsStack
  BY DEF IInv, AwsInv, PlanIsKnown, KeysAreOne, EnvFollowsStack
<1> QED
  BY <1>1, Invariance, PTL

\* What is deleted or missing was intended: the checkpoints of destroy/apply.ts.
THEOREM LossAlwaysExplained == Spec => []LossIsExplained
<1>1. IInv => LossIsExplained
  BY DEF IInv, AwsInv
<1> QED
  BY <1>1, Invariance, PTL

\* A deletion is begun for the approved stack alone, and no command deletes an unknown key.
THEOREM OnlyApprovedDeletion == Spec => DeletionIsApproved
<1> DEFINE Deletion ==
      /\ stack'.status = "deleting" /\ stack.status # "deleting"
            => destroy.approved /\ OwnStack /\ stack.id = state.creation
               /\ state.key \notin keys.live
      /\ cli' # cli => keys.live \ {state.key} \subseteq keys'.live
<1>1. ASSUME IInv, AwsNext \/ DestroyCommand
      PROVE  Deletion
  <2>0. stack \in Stack
    BY <1>1 DEF IInv, AwsInv, AwsTypeOK
  <2>1. CASE DeleteStack
    <3>1. /\ destroy.approved /\ OwnStack /\ state.key \notin keys.live /\ UNCHANGED keys
      BY <1>1, <2>1 DEF DeleteStack, IInv, AwsInv, CommandKnows, DestroyerKnows, At
    <3>2. stack' = stack \/ stack.id = state.stack
      BY <2>1 DEF DeleteStack, DeleteTarget, Live
    <3> QED
      BY <3>1, <3>2 DEF OwnStack
  <2>2. CASE DeleteKey
    BY <2>2 DEF DeleteKey
  <2>3. CASE CreateKey
    BY <2>3 DEF CreateKey, UserHasNoKey
  <2>4. CASE CreateChangeSet
    <3>1. (UNCHANGED keys /\ stack'.status # "deleting") \/ UNCHANGED <<stack, keys>>
      BY <2>4 DEF CreateChangeSet, NoStack
    <3> QED
      BY <2>4, <3>1 DEF CreateChangeSet
  <2>5. CASE ExecuteChangeSet
    <3>1. UNCHANGED keys /\ (UNCHANGED stack \/ stack'.status # "deleting")
      BY <2>0, <2>5 DEF ExecuteChangeSet, Stack
    <3> QED
      BY <3>1
  <2>6. CASE Provider
    <3>1. UNCHANGED cli
      BY <2>6 DEF Provider, ByProvider
    <3>2. UNCHANGED stack \/ stack'.status # "deleting" \/ stack.status = "deleting"
      <4>1. CASE Finished
        BY <2>0, <4>1 DEF Finished, Stack
      <4>2. CASE RolledBack
        BY <2>0, <4>2 DEF RolledBack, Stack
      <4>3. CASE Deleted \/ DeletedByOther
        BY <4>3 DEF Deleted, DeletedByOther, Gone, NoStack
      <4>4. CASE DeleteFails
        BY <2>0, <4>4 DEF DeleteFails, Stack
      <4>5. CASE MadeByOther
        BY <4>5 DEF MadeByOther, NoStack
      <4>6. CASE KeyMadeByOther \/ OrphanDeleted
        BY <4>6 DEF KeyMadeByOther, OrphanDeleted
      <4>7. CASE QueueDeleted
        BY <4>7 DEF QueueDeleted
      <4>8. CASE \E s \in StackIds : Forgotten(s)
        BY <4>8 DEF Forgotten
      <4> QED
        BY <2>6, <4>1, <4>2, <4>3, <4>4, <4>5, <4>6, <4>7, <4>8 DEF Provider, ByProvider
    <3> QED
      BY <3>1, <3>2
  <2>7. CASE UNCHANGED <<stack, keys>>
    BY <2>7
  <2> QED
    BY <1>1, <2>1, <2>2, <2>3, <2>4, <2>5, <2>6, <2>7
    DEF AwsNext, AwsCommand, DestroyCommand, DestroySteps, provider,
        BeginPlan, DropChangeSet, StorePlan, BeginApply, AwaitStack, BindStack, MapOutputs,
        ConsumePlan, BeginCore, RecordKey, StoreSecret, CheckpointCore, DeployCompletes, Stop,
        TemplateChanges, PlanDestroy, BeginDestroy, Approve, StopCompose, IntendKey,
        IntendStack, VerifyAbsence, RemoveCredentials, ConsumeDestroyPlan, StopFails
<1>2. IInv /\ [Next]_vars => [Deletion]_awsVars
  BY <1>1 DEF Next, Start, Initialise, Operate, Operating, vars
<1> QED
  BY <1>2, Invariance, PTL DEF Spec, DeletionIsApproved
===============================================================================
