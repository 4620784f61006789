----------------------------- MODULE ServiceStart ------------------------------
(***************************************************************************)
(* The start of the service as compose.yaml orders it: `db/migrate.ts up`, *)
(* `auth/bootstrap.ts`, and then the api, which asserts that the           *)
(* migrations are up to date.  The container that starts may be killed and *)
(* restarted, and an operator may run the two commands by hand beside it.  *)
(***************************************************************************)
EXTENDS Naturals, FiniteSets

CONSTANTS
    Starters,   \* processes that migrate and bootstrap
    Container,  \* the one that goes on to serve
    Versions,   \* the number of migrations
    Emails,     \* the addresses given to bootstrap
    OwnerEmail  \* NUSEND_OWNER_EMAIL, the one the container gives

ASSUME StartersAssumption ==
    Container \in Starters /\ OwnerEmail \in Emails /\ Versions \in Nat

VARIABLES
    schema,     \* how often each migration was applied, and those in schema_migrations
    users,      \* the e-mails of the rows of users
    starters,   \* where each process is, with the migrations it found pending
    serving     \* whether the api serves

startVars == <<schema, users, starters, serving>>

Migrations == 1..Versions
Stopped == [pc |-> "stopped", pending |-> {}]

StartInit ==
    /\ schema = [applied |-> [v \in Migrations |-> 0], recorded |-> {}]
    /\ users = {} /\ starters = [s \in Starters |-> Stopped] /\ serving = FALSE

Now(s, pc) == starters[s].pc = pc
Becomes(s, to) == starters' = [starters EXCEPT ![s] = to]

-------------------------------------------------------------------------------
\* migrationProgram: what is applied is read before the first transaction begins.
ReadApplied(s) ==
    /\ ~serving /\ Now(s, "stopped")
    /\ Becomes(s, [pc |-> "migrate", pending |-> Migrations \ schema.recorded])
    /\ UNCHANGED <<schema, users, serving>>

\* Slip: CREATE TABLE IF NOT EXISTS, and INSERT OR REPLACE.
AnySql(v) == TRUE

\* The SQL creates what must not exist, and version is a primary key.
SqlSucceeds(v) == schema.applied[v] = 0 /\ v \notin schema.recorded

\* migrateUp: one transaction per migration; the first that fails ends the process.
Migrate(s) ==
    /\ Now(s, "migrate") /\ starters[s].pending # {}
    /\ \E v \in starters[s].pending :
          /\ \A u \in starters[s].pending : v <= u
          /\ IF SqlSucceeds(v)
             THEN /\ schema' = [applied |-> [schema.applied EXCEPT ![v] = @ + 1],
                                recorded |-> schema.recorded \cup {v}]
                  /\ Becomes(s, [pc |-> "migrate", pending |-> starters[s].pending \ {v}])
             ELSE UNCHANGED schema /\ Becomes(s, Stopped)
    /\ UNCHANGED <<users, serving>>

\* Slip: a user is added whoever the first one is.
AnyOwner(email) == TRUE

\* Slip: whoever is there already is in the way.
NobodyYet(email) == users = {}

\* The first user is the owner; sign-up is disabled (auth.ts).
MayOwn(email) == users \subseteq {email}

\* bootstrapOwner: one transaction.
Bootstrap(s) ==
    /\ Now(s, "migrate") /\ starters[s].pending = {}
    /\ \E email \in IF s = Container THEN {OwnerEmail} ELSE Emails :
          IF MayOwn(email)
          THEN users' = users \cup {email}
               /\ Becomes(s, [Stopped EXCEPT !.pc = IF s = Container THEN "main" ELSE "stopped"])
          ELSE UNCHANGED users /\ Becomes(s, Stopped)
    /\ UNCHANGED <<schema, serving>>

\* main.ts: assertMigrationsUpToDate.  Bound: then no process begins and none restarts.
Serve(s) ==
    /\ Now(s, "main") /\ schema.recorded = Migrations
    /\ serving' = TRUE /\ starters' = [r \in Starters |-> Stopped]
    /\ UNCHANGED <<schema, users>>

StarterDies(s) ==
    /\ ~Now(s, "stopped") /\ Becomes(s, Stopped)
    /\ UNCHANGED <<schema, users, serving>>

StartNext ==
    \E s \in Starters :
        ReadApplied(s) \/ Migrate(s) \/ Bootstrap(s) \/ Serve(s) \/ StarterDies(s)

\* compose.yaml restarts the api (`restart: unless-stopped`), its pre_start first.  It may be
\* killed at any step, so that each step is taken only if it comes up again and again.
StartFairness ==
    /\ SF_startVars(ReadApplied(Container)) /\ SF_startVars(Migrate(Container))
    /\ SF_startVars(Bootstrap(Container)) /\ SF_startVars(Serve(Container))

StartTypeOK ==
    /\ schema \in [applied: [Migrations -> Nat], recorded: SUBSET Migrations]
    /\ users \subseteq Emails /\ serving \in BOOLEAN
    /\ starters \in [Starters -> [pc: {"stopped", "migrate", "main"},
                                  pending: SUBSET Migrations]]

-------------------------------------------------------------------------------
\* db/migrate.ts: processes that migrate at once, each with its own idea of what is pending,
\* apply each migration once, in order, and record exactly what they applied.
MigratedOnce ==
    /\ \A v \in Migrations : schema.applied[v] = IF v \in schema.recorded THEN 1 ELSE 0
    /\ \A v \in schema.recorded : 1..v \subseteq schema.recorded

\* auth/bootstrap.ts: "Refusing to create or replace it": however many start at once, there
\* is one owner at most, the service runs for the one its deployment names, and the schema
\* it finds is the one its migrations make.
StartedOnce ==
    /\ MigratedOnce
    /\ Cardinality(users) <= 1
    /\ serving => users = {OwnerEmail}

\* auth/bootstrap.ts is run at every start: the service serves at last, wherever its start was
\* interrupted and whoever migrated beside it, unless another owner was made by hand.
ServiceServes == [](users \subseteq {OwnerEmail}) => <>serving
===============================================================================
