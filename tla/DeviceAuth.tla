------------------------------ MODULE DeviceAuth -------------------------------
(***************************************************************************)
(* Device authorizations (src/apps/service/src/device-auth/service.ts) and *)
(* the CLI that logs in with one (src/apps/cli/src/commands/login.ts).     *)
(* Polls for the key of an authorization may overlap: each reads the row   *)
(* and, if it may have something to write, reads it again in its           *)
(* transaction.  Approval and denial are one conditional statement each.   *)
(***************************************************************************)
EXTENDS ApiKeys, FiniteSets

CONSTANTS
    Polls,          \* polls that may be under way at one time
    PendingLimit    \* globalPendingLimit (30) or, for one client, fingerprintPendingLimit (5)

ASSUME PendingLimitAssumption == PendingLimit \in Nat

VARIABLES
    grants,     \* the rows of device_authorizations, by number
    polls,      \* per poll the authorization that its first read found worth a transaction
    local       \* state.json of the CLI, the login that runs and what it waits for

authVars == <<grants, polls, local>>

Grants == 1..MaxGrants

Grant == [started: BOOLEAN, approved: BOOLEAN, denied: BOOLEAN, consumed: BOOLEAN,
          expired: BOOLEAN]
NoGrant == [started |-> FALSE, approved |-> FALSE, denied |-> FALSE, consumed |-> FALSE,
            expired |-> FALSE]

AuthInit ==
    /\ grants = [g \in Grants |-> NoGrant]
    /\ polls = [p \in Polls |-> None]
    /\ local = [key |-> None, login |-> None]

Undecided(g) ==
    grants[g].started /\ ~grants[g].expired /\ ~grants[g].denied /\ ~grants[g].consumed
Pending == {g \in Grants : Undecided(g)}

-------------------------------------------------------------------------------
\* "Too many pending device authorizations".
BelowLimit == Cardinality(Pending) < PendingLimit

\* start: the pending ones are counted and the row inserted in one transaction.  (A row that
\* expired a day ago is deleted; it is answered as unknown then, and not as expired.)
Start(g) ==
    /\ ~grants[g].started /\ \A h \in Grants : h < g => grants[h].started
    /\ BelowLimit
    /\ grants' = [grants EXCEPT ![g].started = TRUE]
    /\ UNCHANGED <<keyVars, polls>>

\* The CLI starts one and waits for it; anyone else may start one too.
StartGrant(g) == Start(g) /\ local' = [local EXCEPT !.login = IF local.login = None THEN g
                                                                   ELSE local.login]

Decide(g, decided) ==
    /\ Undecided(g) /\ ~grants[g].approved
    /\ grants' = [grants EXCEPT ![g] = decided]
    /\ UNCHANGED <<keyVars, polls, local>>

Approve(g) == Decide(g, [grants[g] EXCEPT !.approved = TRUE])
Deny(g) == Decide(g, [grants[g] EXCEPT !.denied = TRUE])

\* classifyTokenRow: whether there may be something to write.  A pending row is polled too
\* soon or not; only its count of polls changes, which is left out.
Mutation(g) == Undecided(g)

\* token, up to the transaction; other rows are answered for what they are.
Preflight(p) ==
    /\ polls[p] = None
    /\ \E g \in Grants : Mutation(g) /\ polls' = [polls EXCEPT ![p] = g]
    /\ UNCHANGED <<keyVars, grants, local>>

\* Slip: what the first read found is taken for granted.
AsPreflight(g) == TRUE

\* Read again under BEGIN IMMEDIATE.
StillMutation(g) == Mutation(g)

\* The answer to the login that waits for this authorization: writeLoginState.  It may be
\* lost, or the CLI be gone; then nobody holds the key.
Answered(g, k) == local' \in {local} \cup
    (IF local.login = g THEN {[key |-> k, login |-> None]} ELSE {})

TokenTransaction(p) ==
    LET g == polls[p]
    IN /\ g # None /\ polls' = [polls EXCEPT ![p] = None]
       /\ \/ /\ StillMutation(g) /\ grants[g].approved
             /\ Insert(TRUE, Owner, None, g)
             /\ grants' = [grants EXCEPT ![g].consumed = TRUE]
             /\ Answered(g, keys.made + 1)
             /\ UNCHANGED requests
          \/ /\ ~(StillMutation(g) /\ grants[g].approved)
             /\ UNCHANGED <<keyVars, grants, local>>

PollFails(p) ==
    /\ polls[p] # None /\ polls' = [polls EXCEPT ![p] = None]
    /\ UNCHANGED <<keyVars, grants, local>>

\* Expiry of a row that is decided tells nothing.
GrantExpires(g) ==
    /\ Undecided(g)
    /\ grants' = [grants EXCEPT ![g].expired = TRUE]
    /\ UNCHANGED <<keyVars, polls, local>>

-------------------------------------------------------------------------------
\* The login is told that it is over, expires by its own clock, fails or is stopped.
LoginEnds ==
    /\ local.login # None /\ local' = [local EXCEPT !.login = None]
    /\ UNCHANGED <<keyVars, grants, polls>>

\* logout --revoke: the key is revoked, if it can be, and then removed from state.json.
Logout ==
    /\ local.key # None /\ local.login = None
    /\ local' = [local EXCEPT !.key = None]
    /\ keys' \in {keys, [keys EXCEPT !.row[local.key].revoked = TRUE]}
    /\ UNCHANGED <<requests, grants, polls>>

AuthNext ==
    \/ \E g \in Grants :
          StartGrant(g) \/ Approve(g) \/ Deny(g) \/ GrantExpires(g)
    \/ \E p \in Polls : Preflight(p) \/ TokenTransaction(p) \/ PollFails(p)
    \/ LoginEnds \/ Logout

AuthTypeOK ==
    /\ grants \in [Grants -> Grant]
    /\ polls \in [Polls -> {None} \cup Grants]
    /\ local \in [key: {None} \cup Keys, login: {None} \cup Grants]

-------------------------------------------------------------------------------
\* device-auth/routes.test.ts: "consumes an approved grant exactly once across concurrent
\* token polls" and "allows exactly one winner for [...] approve/deny races": an
\* authorization yields one key at most, and only one that was approved and never denied.
OneKeyPerGrant ==
    \A k \in Made : LET g == keys.row[k].grant IN g # None =>
        /\ grants[g].approved /\ grants[g].consumed /\ ~grants[g].denied
        /\ \A j \in Made : keys.row[j].grant = g => j = k
===============================================================================
