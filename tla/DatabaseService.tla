--------------------------- MODULE DatabaseService ----------------------------
(***************************************************************************)
(* The database service (src/apps/service/src/services/database.ts and     *)
(* database-bun.ts): fibers of one process share a SQLite connection       *)
(* behind a semaphore with one permit; Better Auth uses a connection of    *)
(* its own, without it; other processes have their connections.  A fiber   *)
(* may be suspended between any two statements.                            *)
(***************************************************************************)
CONSTANTS
    Calls,          \* the calls of the fibers, each made once
    Rows,
    Writes,         \* the rows a call reads and changes
    Connections,
    ConnectionOf,   \* the connection a call goes to
    Kind,           \* transaction, statement, or bare: a statement around the service
    NoCall, NoConnection, NoRow

ASSUME NullAssumption ==
    NoCall \notin Calls /\ NoConnection \notin Connections /\ NoRow \notin Rows
ASSUME CallsAssumption ==
    /\ ConnectionOf \in [Calls -> Connections]
    /\ Kind \in [Calls -> {"transaction", "statement", "bare"}]
    /\ Writes \in [Calls -> SUBSET Rows]
\* A connection is either behind the service or handed to Better Auth.
ASSUME ConnectionsAssumption ==
    \A c, d \in Calls :
        Kind[c] = "bare" /\ Kind[d] # "bare" => ConnectionOf[c] # ConnectionOf[d]

VARIABLES
    committed,  \* the calls applied to each row
    working,    \* the same as the open transaction sees it
    writer,     \* the connection whose transaction is open: BEGIN IMMEDIATE locks the file
    permit,     \* the call that holds the permit of each connection's semaphore
    call        \* where each call stands: todo are the rows its work has not changed,
                \* row and seen the row it has read, nested whether it nested a transaction

vars == <<committed, working, writer, permit, call>>

CallMemory ==
    [pc: {"wait", "begin", "statement", "work", "rollback", "ok", "failed",
          "returned ok", "returned failed", "lost"},
     todo: SUBSET Rows, row: Rows \cup {NoRow}, seen: SUBSET Calls, nested: BOOLEAN]

TypeOK ==
    /\ committed \in [Rows -> SUBSET Calls]
    /\ working \in [Rows -> SUBSET Calls]
    /\ writer \in Connections \cup {NoConnection}
    /\ permit \in [Connections -> Calls \cup {NoCall}]
    /\ call \in [Calls -> CallMemory]
    /\ \A c \in Calls : call[c].todo \subseteq Writes[c]

NewCall(c) == [pc |-> "wait", todo |-> Writes[c], row |-> NoRow, seen |-> {}, nested |-> FALSE]

Init ==
    /\ committed = [r \in Rows |-> {}]
    /\ working = committed
    /\ writer = NoConnection
    /\ permit = [n \in Connections |-> NoCall]
    /\ call = [c \in Calls |-> NewCall(c)]

At(c, pc) == call[c].pc = pc
Go(c, pc) == call' = [call EXCEPT ![c] = [@ EXCEPT !.pc = pc]]
InOwnTransaction(c) == writer = ConnectionOf[c]

-------------------------------------------------------------------------------
(* SQLite.  A statement on the connection of the open transaction, whoever *)
(* sends it, is part of that transaction; another connection cannot write  *)
(* until it ends.                                                          *)

Visible(c) == IF InOwnTransaction(c) THEN working ELSE committed

CanWrite(c) == writer \in {NoConnection, ConnectionOf[c]}

\* The rows of set with what was seen in them, and c.
Put(c, set, seen) ==
    IF InOwnTransaction(c)
    THEN /\ working' = [r \in Rows |-> IF r \in set THEN seen[r] \cup {c} ELSE working[r]]
         /\ UNCHANGED committed
    ELSE /\ committed' = [r \in Rows |-> IF r \in set THEN seen[r] \cup {c} ELSE committed[r]]
         /\ UNCHANGED working

Abandon(c) == writer' = IF InOwnTransaction(c) THEN NoConnection ELSE writer

-------------------------------------------------------------------------------
(* serializeDatabaseService: the permit.                                   *)

\* Slip: the service does not wait for the permit.
AnyTime(n) == TRUE

Free(n) == permit[n] = NoCall

Acquire(c) ==
    /\ At(c, "wait")
    /\ Kind[c] # "bare"
    /\ Free(ConnectionOf[c])
    /\ permit' = [permit EXCEPT ![ConnectionOf[c]] = c]
    /\ Go(c, IF Kind[c] = "transaction" THEN "begin" ELSE "statement")
    /\ UNCHANGED <<committed, working, writer>>

\* The fiber is interrupted while it waits.
StopWaiting(c) ==
    /\ At(c, "wait")
    /\ Go(c, "failed")
    /\ UNCHANGED <<committed, working, writer, permit>>

\* run, get, all: one statement.  (exec splits its SQL; outside transactions it is
\* given one statement.)
Execute(c) ==
    /\ \/ At(c, "statement")
       \/ At(c, "wait") /\ Kind[c] = "bare"
    /\ CanWrite(c)
    /\ Put(c, Writes[c], Visible(c))
    /\ Go(c, "ok")
    /\ UNCHANGED <<writer, permit>>

\* The file is locked for longer than busy_timeout, or the statement fails by itself.
ExecuteFails(c) ==
    /\ \/ At(c, "statement")
       \/ At(c, "wait") /\ Kind[c] = "bare"
    /\ Go(c, "failed")
    /\ UNCHANGED <<committed, working, writer, permit>>

\* The call returns, and with it the permit goes back.
Return(c) ==
    /\ call[c].pc \in {"ok", "failed"}
    /\ Go(c, IF At(c, "ok") THEN "returned ok" ELSE "returned failed")
    /\ permit' = [n \in Connections |-> IF permit[n] = c THEN NoCall ELSE permit[n]]
    /\ UNCHANGED <<committed, working, writer>>

-------------------------------------------------------------------------------
(* makeTransaction.                                                        *)

Begin(c) ==
    /\ At(c, "begin")
    /\ writer = NoConnection
    /\ writer' = ConnectionOf[c]
    /\ working' = committed
    /\ Go(c, "work")
    /\ UNCHANGED <<committed, permit>>

BeginFails(c) ==
    /\ At(c, "begin")
    /\ Go(c, "failed")
    /\ UNCHANGED <<committed, working, writer, permit>>

\* The work reads a row in one statement and changes it in a later one.
Read(c) ==
    /\ At(c, "work")
    /\ call[c].row = NoRow
    /\ \E r \in call[c].todo :
          call' = [call EXCEPT ![c] =
              [pc |-> "work", todo |-> call[c].todo, row |-> r, seen |-> Visible(c)[r],
               nested |-> call[c].nested]]
    /\ UNCHANGED <<committed, working, writer, permit>>

Change(c) ==
    LET r == call[c].row IN
    /\ At(c, "work")
    /\ r # NoRow
    /\ CanWrite(c)
    /\ Put(c, {r}, [x \in {r} |-> call[c].seen])
    /\ call' = [call EXCEPT ![c] =
          [pc |-> "work", todo |-> call[c].todo \ {r}, row |-> NoRow, seen |-> {},
           nested |-> call[c].nested]]
    /\ UNCHANGED <<writer, permit>>

\* Slips: the failed BEGIN of a nested transaction is rolled back; a nested transaction
\* waits for the permit its caller holds.
NestedRollsBack(c) == Abandon(c) /\ call' = [call EXCEPT ![c] = [@ EXCEPT !.nested = TRUE]]
NestedWaits(c) == Go(c, "wait") /\ UNCHANGED writer

\* A nested transaction neither waits nor rolls back: its BEGIN fails, and the work
\* fails with it or goes on.
NestedFails(c) ==
    /\ UNCHANGED writer
    /\ \/ Go(c, "rollback")
       \/ call' = [call EXCEPT ![c] = [@ EXCEPT !.nested = TRUE]]

Nest(c) ==
    /\ At(c, "work")
    /\ ~call[c].nested
    /\ NestedFails(c)
    /\ UNCHANGED <<committed, working, permit>>

Commit(c) ==
    /\ At(c, "work")
    /\ call[c].todo = {}
    /\ InOwnTransaction(c)
    /\ committed' = working
    /\ writer' = NoConnection
    /\ Go(c, "ok")
    /\ UNCHANGED <<working, permit>>

\* Slip: only a typed failure is rolled back, not an interruption.
FailsUnarmed(c) == Go(c, "rollback") \/ Go(c, "failed")

\* The work fails, dies or is interrupted, or COMMIT fails: onExit.
WorkFails(c) == Go(c, "rollback")

Fail(c) ==
    /\ At(c, "work")
    /\ WorkFails(c)
    /\ UNCHANGED <<committed, working, writer, permit>>

Rollback(c) ==
    /\ At(c, "rollback")
    /\ Abandon(c)
    /\ Go(c, "failed")
    /\ UNCHANGED <<committed, working, permit>>

-------------------------------------------------------------------------------

Returned(c) == call[c].pc \in {"returned ok", "returned failed", "lost"}

\* The process of connection n dies; SQLite undoes its transaction.
Crash(n) ==
    /\ \E c \in Calls : ConnectionOf[c] = n /\ ~Returned(c)
    /\ call' = [c \in Calls |-> IF ConnectionOf[c] = n /\ ~Returned(c)
                                THEN [call[c] EXCEPT !.pc = "lost"] ELSE call[c]]
    /\ writer' = IF writer = n THEN NoConnection ELSE writer
    /\ permit' = [permit EXCEPT ![n] = NoCall]
    /\ UNCHANGED <<committed, working>>

Step(c) ==
    \/ Execute(c) \/ ExecuteFails(c) \/ Return(c)
    \/ Begin(c) \/ BeginFails(c)
    \/ Read(c) \/ Change(c) \/ Nest(c)
    \/ Commit(c) \/ Fail(c) \/ Rollback(c)

Next ==
    \/ \E c \in Calls : Acquire(c) \/ StopWaiting(c) \/ Step(c)
    \/ \E n \in Connections : Crash(n)

Spec == Init /\ [][Next]_vars

\* A permit is given to the waiting fibers in turn; every fiber is resumed.
FairSpec ==
    /\ Spec
    /\ \A c \in Calls : SF_vars(Acquire(c)) /\ WF_vars(Step(c))

-------------------------------------------------------------------------------
(* Properties.                                                             *)

\* The open transaction belongs to the call that holds its connection's permit and will
\* end it; a connection nobody is working on has none, whatever failed before.
OpenTransactionIsOwned ==
    \A n \in Connections : writer = n =>
        /\ permit[n] # NoCall
        /\ call[permit[n]].pc \in {"work", "rollback"}

\* A call returns in the end: no fiber waits for a permit that is never given back.
EveryCallReturns == \A c \in Calls : <>Returned(c)

\* Statements and transactions are atomic to each other, on one connection and across.
Answers ==
    [c \in Calls |-> CASE At(c, "returned ok") -> "ok"
                       [] At(c, "returned failed") -> "failed"
                       [] At(c, "lost") -> "lost"
                       [] OTHER -> "none"]

Store == INSTANCE AtomicStore WITH store <- committed, answer <- Answers
KeepsAtomicity == Store!Spec
===============================================================================
