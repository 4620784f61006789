------------------------- MODULE DatabaseServiceProofs ------------------------
(***************************************************************************)
(* DatabaseService implements AtomicStore, for any calls and connections.  *)
(***************************************************************************)
EXTENDS DatabaseService, TLAPS

\* What a call has done to the committed rows.
WholeIn(c) == \A r \in Rows : c \in committed[r] <=> r \in Writes[c]
AbsentFrom(c) == \A r \in Rows : c \notin committed[r]

\* A call is in the rows from its COMMIT on, and not before.
Effects ==
    \A c \in Calls :
        /\ call[c].pc \in {"ok", "returned ok"} => WholeIn(c)
        /\ call[c].pc \notin {"ok", "returned ok", "lost"} => AbsentFrom(c)

\* Between Acquire and Return a call of the service holds its permit, and only then.
Permits ==
    \A c \in Calls :
        call[c].pc \in {"begin", "statement", "work", "rollback"} =>
            permit[ConnectionOf[c]] = c /\ Kind[c] # "bare"

Owners ==
    /\ \A c \in Calls : call[c].pc \in {"work", "rollback"} => writer = ConnectionOf[c]
    /\ writer # NoConnection =>
          /\ permit[writer] \in Calls
          /\ call[permit[writer]].pc \in {"work", "rollback"}
          /\ ConnectionOf[permit[writer]] = writer

\* The open transaction sees the committed rows, which nobody changes meanwhile, with the
\* changes it has made so far.
Works ==
    \A c \in Calls : At(c, "work") =>
        /\ \A r \in Rows : working[r] = IF r \in Writes[c] \ call[c].todo
                                        THEN committed[r] \cup {c} ELSE committed[r]
        /\ call[c].row # NoRow => call[c].row \in call[c].todo /\ call[c].seen = committed[call[c].row]

\* Nothing has been read or changed before BEGIN.
Fresh == \A c \in Calls : call[c].pc \in {"wait", "begin"} =>
            call[c].todo = Writes[c] /\ call[c].row = NoRow

IInv == TypeOK /\ Fresh /\ Effects /\ Permits /\ Owners /\ Works

USE NullAssumption, CallsAssumption, ConnectionsAssumption

-------------------------------------------------------------------------------
LEMMA InitIInv == Init => IInv
  <1> SUFFICES ASSUME Init PROVE IInv
    OBVIOUS
  <1> DEFINE new(c) == [pc |-> "wait", todo |-> Writes[c], row |-> NoRow, seen |-> {},
                        nested |-> FALSE]
  <1>1. call = [c \in Calls |-> new(c)]
    BY DEF Init, NewCall
  <1>2. \A c \in Calls : new(c) \in CallMemory
    BY DEF CallMemory
  <1>3. call \in [Calls -> CallMemory]
    BY <1>1, <1>2
  <1>4. \A c \in Calls : call[c].pc = "wait" /\ call[c].todo = Writes[c] /\ call[c].row = NoRow
    BY <1>1
  <1>5. TypeOK
    BY <1>3, <1>4 DEF Init, TypeOK
  <1>6. Effects
    BY <1>4 DEF Init, Effects, AbsentFrom
  <1>7. Fresh /\ Permits /\ Owners /\ Works
    BY <1>4 DEF Init, Fresh, Permits, Owners, Works, At
  <1> QED BY <1>5, <1>6, <1>7 DEF IInv

\* Who holds the permit while a transaction is open.
LEMMA OneInTransaction ==
    ASSUME IInv, NEW c \in Calls, NEW d \in Calls,
           call[c].pc \in {"work", "rollback"}, call[d].pc \in {"work", "rollback"}
    PROVE  c = d
  BY DEF IInv, Owners, Permits

\* Only the call in a transaction touches its connection: a statement that can run
\* finds no transaction open.
LEMMA StatementsRunAlone ==
    ASSUME IInv, NEW c \in Calls, CanWrite(c),
           At(c, "statement") \/ (At(c, "wait") /\ Kind[c] = "bare")
    PROVE  writer = NoConnection
  <1> SUFFICES ASSUME writer # NoConnection PROVE FALSE
    OBVIOUS
  <1>1. writer = ConnectionOf[c]
    BY DEF CanWrite
  <1> DEFINE d == permit[writer]
  <1>2. d \in Calls /\ call[d].pc \in {"work", "rollback"} /\ ConnectionOf[d] = writer
    BY DEF IInv, Owners
  <1>3. Kind[d] # "bare"
    BY <1>2 DEF IInv, Permits
  <1>4. CASE At(c, "statement")
    BY <1>1, <1>2, <1>4 DEF IInv, Permits, At
  <1>5. CASE At(c, "wait") /\ Kind[c] = "bare"
    BY <1>1, <1>2, <1>3, <1>5
  <1> QED BY <1>4, <1>5

-------------------------------------------------------------------------------
(* The memory of one call changes, or only its pc.                         *)

Pcs == {"wait", "begin", "statement", "work", "rollback", "ok", "failed",
        "returned ok", "returned failed", "lost"}

OthersKept(c) == \A d \in Calls \ {c} : call'[d] = call[d]

Moved(c, p) ==
    /\ call' \in [Calls -> CallMemory]
    /\ \A d \in Calls : call'[d].todo = call[d].todo /\ call'[d].row = call[d].row
                        /\ call'[d].seen = call[d].seen
    /\ call'[c].pc = p
    /\ OthersKept(c)

LEMMA GoMoves ==
    ASSUME TypeOK, NEW c \in Calls, NEW p \in Pcs, Go(c, p)
    PROVE  Moved(c, p)
  <1>1. call[c] \in CallMemory
    BY DEF TypeOK
  <1>2. [call[c] EXCEPT !.pc = p] \in CallMemory
    BY <1>1 DEF CallMemory, Pcs
  <1>3. call' = [call EXCEPT ![c] = [call[c] EXCEPT !.pc = p]]
    BY DEF Go
  <1>4. call' \in [Calls -> CallMemory] /\ OthersKept(c)
    BY <1>2, <1>3 DEF TypeOK, OthersKept
  <1>5. call'[c] = [call[c] EXCEPT !.pc = p]
    BY <1>3 DEF TypeOK
  <1>6. /\ call'[c].pc = p
        /\ call'[c].todo = call[c].todo /\ call'[c].row = call[c].row /\ call'[c].seen = call[c].seen
    BY <1>1, <1>5 DEF CallMemory
  <1> QED BY <1>4, <1>6 DEF Moved, OthersKept

LEMMA MovedEffects ==
    ASSUME IInv, NEW c \in Calls, NEW p \in Pcs, Moved(c, p), committed' = committed,
           p \in {"ok", "returned ok"} => WholeIn(c),
           p \notin {"ok", "returned ok", "lost"} => AbsentFrom(c)
    PROVE  Effects'
  <1> SUFFICES ASSUME NEW d \in Calls
               PROVE  /\ call'[d].pc \in {"ok", "returned ok"} => WholeIn(d)'
                      /\ call'[d].pc \notin {"ok", "returned ok", "lost"} => AbsentFrom(d)'
    BY DEF Effects
  <1>1. (WholeIn(d)' <=> WholeIn(d)) /\ (AbsentFrom(d)' <=> AbsentFrom(d))
    BY DEF WholeIn, AbsentFrom
  <1>2. CASE d = c
    BY <1>1, <1>2 DEF Moved
  <1>3. CASE d # c
    BY <1>1, <1>3 DEF IInv, Effects, Moved, OthersKept
  <1> QED BY <1>2, <1>3

LEMMA MovedFresh ==
    ASSUME IInv, NEW c \in Calls, NEW p \in Pcs, Moved(c, p),
           p \in {"wait", "begin"} => call[c].pc \in {"wait", "begin"}
    PROVE  Fresh'
  BY DEF IInv, Fresh, Moved, OthersKept

\* Nothing but a pc outside of transactions and Go's own permit has changed.
LEMMA StayOutside ==
    ASSUME IInv, NEW c \in Calls, NEW p \in Pcs, Go(c, p),
           call[c].pc \in {"wait", "begin", "statement", "failed"},
           p \notin {"wait", "begin", "statement", "work", "rollback", "ok", "returned ok"},
           UNCHANGED <<committed, working, writer, permit>>
    PROVE  IInv'
  <1>1. Moved(c, p)
    BY GoMoves DEF IInv
  <1>2. TypeOK'
    BY <1>1 DEF IInv, TypeOK, Moved
  <1>3. Effects' /\ Fresh'
    <2>1. AbsentFrom(c) /\ committed' = committed
      BY DEF IInv, Effects
    <2> QED BY <1>1, <2>1, MovedEffects, MovedFresh
  <1>4. Permits'
    BY <1>1 DEF IInv, Permits, Moved, OthersKept
  <1>5. Owners'
    BY <1>1 DEF IInv, Owners, Moved, OthersKept
  <1>6. Works'
    BY <1>1 DEF IInv, Works, Moved, OthersKept, At
  <1> QED BY <1>2, <1>3, <1>4, <1>5, <1>6 DEF IInv

-------------------------------------------------------------------------------
(* Each step preserves the invariant.                                      *)

LEMMA AcquireStep == ASSUME IInv, NEW c \in Calls, Acquire(c) PROVE IInv'
  <1> DEFINE p == IF Kind[c] = "transaction" THEN "begin" ELSE "statement"
  <1>1. Moved(c, p)
    <2>1. p \in Pcs /\ Go(c, p)
      BY DEF Acquire, Pcs
    <2> QED BY <2>1, GoMoves DEF IInv
  <1>a. p \in {"begin", "statement"}
    OBVIOUS
  <1> HIDE DEF p
  <1>2. /\ permit[ConnectionOf[c]] = NoCall
        /\ permit' = [permit EXCEPT ![ConnectionOf[c]] = c]
        /\ call[c].pc = "wait" /\ Kind[c] # "bare"
        /\ committed' = committed /\ working' = working /\ writer' = writer
    BY DEF Acquire, Free, At
  <1>3. TypeOK'
    BY <1>1, <1>2 DEF IInv, TypeOK, Moved
  <1>4. Effects' /\ Fresh'
    <2>1. AbsentFrom(c) /\ p \in Pcs
      BY <1>a, <1>2 DEF IInv, Effects, Pcs
    <2> QED BY <1>a, <1>1, <1>2, <2>1, MovedEffects, MovedFresh
  <1>5. permit'[ConnectionOf[c]] = c
        /\ \A n \in Connections : permit[n] # NoCall => permit'[n] = permit[n]
    BY <1>2 DEF IInv, TypeOK
  <1>6. Permits'
    BY <1>1, <1>2, <1>5 DEF IInv, Permits, Moved, OthersKept
  <1>7. Owners'
    <2>1. \A d \in Calls : call'[d].pc \in {"work", "rollback"} => writer' = ConnectionOf[d]
      BY <1>a, <1>1, <1>2 DEF IInv, Owners, Moved, OthersKept
    <2>2. ASSUME writer # NoConnection
          PROVE  permit'[writer] = permit[writer] /\ permit[writer] # c
      BY <1>2, <1>5, <2>2 DEF IInv, TypeOK, Owners
    <2> QED BY <1>1, <1>2, <2>1, <2>2 DEF IInv, Owners, Moved, OthersKept
  <1>8. Works'
    BY <1>a, <1>1, <1>2 DEF IInv, Works, Moved, OthersKept, At
  <1> QED BY <1>3, <1>4, <1>6, <1>7, <1>8 DEF IInv

LEMMA FailingStep ==
    ASSUME IInv, NEW c \in Calls, StopWaiting(c) \/ ExecuteFails(c) \/ BeginFails(c)
    PROVE  IInv'
  <1>1. /\ Go(c, "failed") /\ "failed" \in Pcs
        /\ call[c].pc \in {"wait", "begin", "statement"}
        /\ UNCHANGED <<committed, working, writer, permit>>
    BY DEF StopWaiting, ExecuteFails, BeginFails, At, Pcs
  <1> QED BY <1>1, StayOutside

LEMMA ReturnStep == ASSUME IInv, NEW c \in Calls, Return(c) PROVE IInv'
  <1> DEFINE p == IF At(c, "ok") THEN "returned ok" ELSE "returned failed"
  <1>1. Moved(c, p)
    <2>1. p \in Pcs /\ Go(c, p)
      BY DEF Return, Pcs
    <2> QED BY <2>1, GoMoves DEF IInv
  <1>2. /\ permit' = [n \in Connections |-> IF permit[n] = c THEN NoCall ELSE permit[n]]
        /\ call[c].pc \in {"ok", "failed"} /\ (p = "returned ok" <=> call[c].pc = "ok")
        /\ committed' = committed /\ working' = working /\ writer' = writer
        /\ p \in {"returned ok", "returned failed"}
    BY DEF Return, At
  <1> HIDE DEF p
  <1>3. TypeOK'
    BY <1>1, <1>2 DEF IInv, TypeOK, Moved
  <1>4. Effects' /\ Fresh'
    <2>1. (p = "returned ok" => WholeIn(c)) /\ (p # "returned ok" => AbsentFrom(c)) /\ p \in Pcs
      BY <1>2 DEF IInv, Effects, Pcs
    <2> QED BY <1>1, <1>2, <2>1, MovedEffects, MovedFresh
  <1>5. Permits'
    BY <1>1, <1>2 DEF IInv, Permits, Moved, OthersKept
  <1>6. Owners'
    BY <1>1, <1>2 DEF IInv, TypeOK, Owners, Moved, OthersKept
  <1>7. Works'
    <2>1. p # "work" /\ committed' = committed /\ working' = working
      BY <1>2
    <2> QED BY <1>1, <2>1 DEF IInv, Works, Moved, OthersKept, At
  <1> QED BY <1>3, <1>4, <1>5, <1>6, <1>7 DEF IInv

\* A statement commits at once.
LEMMA ExecuteCommits ==
    ASSUME IInv, NEW c \in Calls, Execute(c)
    PROVE  /\ writer = NoConnection /\ AbsentFrom(c) /\ call[c].pc \in {"wait", "statement"}
           /\ committed' = [r \in Rows |-> IF r \in Writes[c] THEN committed[r] \cup {c}
                                           ELSE committed[r]]
           /\ working' = working /\ writer' = writer /\ permit' = permit /\ Moved(c, "ok")
  <1>1. writer = NoConnection
    <2>1. CanWrite(c) /\ (At(c, "statement") \/ (At(c, "wait") /\ Kind[c] = "bare"))
      BY DEF Execute
    <2> QED BY <2>1, StatementsRunAlone
  <1>2. ~InOwnTransaction(c)
    BY <1>1 DEF InOwnTransaction
  <1>3. /\ working' = working /\ writer' = writer /\ permit' = permit
        /\ committed' = [r \in Rows |-> IF r \in Writes[c] THEN committed[r] \cup {c}
                                        ELSE committed[r]]
    BY <1>2 DEF Execute, Put, Visible
  <1>4. Moved(c, "ok")
    BY GoMoves DEF IInv, Execute, Pcs
  <1>5. call[c].pc \in {"wait", "statement"}
    BY DEF Execute, At
  <1> QED BY <1>1, <1>3, <1>4, <1>5 DEF IInv, Effects

LEMMA ExecuteStep == ASSUME IInv, NEW c \in Calls, Execute(c) PROVE IInv'
  <1>1. /\ writer = NoConnection /\ AbsentFrom(c) /\ call[c].pc \in {"wait", "statement"}
        /\ committed' = [r \in Rows |-> IF r \in Writes[c] THEN committed[r] \cup {c}
                                        ELSE committed[r]]
        /\ working' = working /\ writer' = writer /\ permit' = permit /\ Moved(c, "ok")
    BY ExecuteCommits
  <1>2. TypeOK'
    BY <1>1 DEF IInv, TypeOK, Moved
  <1>3. \A r \in Rows : committed'[r] = IF r \in Writes[c] THEN committed[r] \cup {c}
                                        ELSE committed[r]
    BY <1>1
  <1>4. Effects'
    <2>1. WholeIn(c)'
      BY <1>1, <1>3 DEF WholeIn, AbsentFrom
    <2>2. \A d \in Calls \ {c} : (WholeIn(d) => WholeIn(d)') /\ (AbsentFrom(d) => AbsentFrom(d)')
      BY <1>3 DEF WholeIn, AbsentFrom
    <2> QED BY <1>1, <2>1, <2>2 DEF IInv, Effects, Moved, OthersKept
  <1>5. Fresh' /\ Permits' /\ Owners'
    BY <1>1 DEF IInv, Fresh, Permits, Owners, Moved, OthersKept
  <1>6. Works'
    <2>1. \A d \in Calls : call[d].pc # "work"
      BY <1>1 DEF IInv, Owners
    <2> QED BY <1>1, <2>1 DEF Works, Moved, OthersKept, At
  <1> QED BY <1>2, <1>4, <1>5, <1>6 DEF IInv

LEMMA BeginStep == ASSUME IInv, NEW c \in Calls, Begin(c) PROVE IInv'
  <1>1. Moved(c, "work")
    BY GoMoves DEF IInv, Begin, Pcs
  <1>2. /\ writer = NoConnection /\ writer' = ConnectionOf[c] /\ working' = committed
        /\ call[c].pc = "begin" /\ committed' = committed /\ permit' = permit
    BY DEF Begin, At
  <1>3. \A d \in Calls : call[d].pc \notin {"work", "rollback"}
    BY <1>2 DEF IInv, Owners
  <1>4. TypeOK'
    BY <1>1, <1>2 DEF IInv, TypeOK, Moved
  <1>5. Effects' /\ Fresh' /\ Permits'
    <2>1. AbsentFrom(c) /\ "work" \in Pcs
      BY <1>2 DEF IInv, Effects, Pcs
    <2>2. Permits'
      BY <1>1, <1>2 DEF IInv, Permits, Moved, OthersKept
    <2> QED BY <1>1, <1>2, <2>1, <2>2, MovedEffects, MovedFresh
  <1>6. Owners'
    BY <1>1, <1>2, <1>3 DEF IInv, TypeOK, Permits, Owners, Moved, OthersKept
  <1>7. Works'
    BY <1>1, <1>2, <1>3 DEF IInv, TypeOK, Fresh, Works, Moved, OthersKept, At
  <1> QED BY <1>4, <1>5, <1>6, <1>7 DEF IInv

\* Memory of a call in its work: what it has read, what is left to do.
Recalled(c, todo, row, seen) ==
    /\ call' \in [Calls -> CallMemory]
    /\ call'[c].pc = "work" /\ call'[c].todo = todo
    /\ call'[c].row = row /\ call'[c].seen = seen
    /\ OthersKept(c)

LEMMA RecallKeeps ==
    ASSUME IInv, NEW c \in Calls, At(c, "work"), NEW todo, NEW row, NEW seen,
           Recalled(c, todo, row, seen), todo \subseteq call[c].todo,
           UNCHANGED <<committed, writer, permit>>, working' \in [Rows -> SUBSET Calls]
    PROVE  TypeOK' /\ Effects' /\ Fresh' /\ Permits' /\ Owners'
  <1>1. committed' = committed /\ writer' = writer /\ permit' = permit
    OBVIOUS
  <1>2. TypeOK'
    BY <1>1 DEF IInv, TypeOK, Recalled, OthersKept
  <1>3. Fresh' /\ Permits'
    BY <1>1 DEF IInv, Fresh, Permits, Recalled, OthersKept, At
  <1>4. Owners'
    BY <1>1 DEF IInv, Owners, Recalled, OthersKept, At
  <1>5. Effects'
    <2> SUFFICES ASSUME NEW d \in Calls
                 PROVE  /\ call'[d].pc \in {"ok", "returned ok"} => WholeIn(d)'
                        /\ call'[d].pc \notin {"ok", "returned ok", "lost"} => AbsentFrom(d)'
      BY DEF Effects
    <2>1. (WholeIn(d)' <=> WholeIn(d)) /\ (AbsentFrom(d)' <=> AbsentFrom(d))
      BY <1>1 DEF WholeIn, AbsentFrom
    <2>2. CASE d = c
      BY <2>1, <2>2 DEF IInv, Effects, Recalled, At
    <2>3. CASE d # c
      BY <2>1, <2>3 DEF IInv, Effects, Recalled, OthersKept
    <2> QED BY <2>2, <2>3
  <1> QED BY <1>2, <1>3, <1>4, <1>5

LEMMA ReadStep == ASSUME IInv, NEW c \in Calls, Read(c) PROVE IInv'
  <1>1. PICK r \in call[c].todo : call' = [call EXCEPT ![c] =
            [pc |-> "work", todo |-> call[c].todo, row |-> r, seen |-> Visible(c)[r],
             nested |-> call[c].nested]]
    BY DEF Read
  <1>2. At(c, "work") /\ UNCHANGED <<committed, working, writer, permit>>
    BY DEF Read
  <1>3. /\ call[c] \in CallMemory /\ r \in Rows /\ r \notin Rows \ call[c].todo
        /\ Visible(c) = working /\ working[r] = committed[r]
    BY <1>2 DEF IInv, TypeOK, CallMemory, Owners, Works, At, Visible, InOwnTransaction
  <1>4. Recalled(c, call[c].todo, r, committed[r])
    <2> DEFINE new == [pc |-> "work", todo |-> call[c].todo, row |-> r, seen |-> committed[r],
                       nested |-> call[c].nested]
    <2>1. new \in CallMemory
      BY <1>3 DEF IInv, TypeOK, CallMemory
    <2>2. call' = [call EXCEPT ![c] = new]
      BY <1>1, <1>3
    <2>3. call' \in [Calls -> CallMemory] /\ call'[c] = new /\ OthersKept(c)
      BY <2>1, <2>2 DEF IInv, TypeOK, OthersKept
    <2> QED BY <2>3 DEF Recalled
  <1>5. TypeOK' /\ Effects' /\ Fresh' /\ Permits' /\ Owners'
    BY <1>2, <1>4, RecallKeeps DEF IInv, TypeOK
  <1>6. Works'
    <2> SUFFICES ASSUME NEW d \in Calls, call'[d].pc = "work"
                 PROVE  /\ \A q \in Rows : working'[q] =
                              IF q \in Writes[d] \ call'[d].todo
                              THEN committed'[q] \cup {d} ELSE committed'[q]
                        /\ call'[d].row # NoRow => call'[d].row \in call'[d].todo
                                                   /\ call'[d].seen = committed'[call'[d].row]
      BY DEF Works, At
    <2>1. d = c
      BY <1>2, <1>4, OneInTransaction DEF Recalled, OthersKept, At
    <2>2. \A q \in Rows : working[q] = IF q \in Writes[c] \ call[c].todo
                                       THEN committed[q] \cup {c} ELSE committed[q]
      BY <1>2 DEF IInv, Works
    <2>3. call'[c].todo = call[c].todo /\ call'[c].row = r /\ call'[c].seen = committed[r]
      BY <1>4 DEF Recalled
    <2> QED BY <1>2, <2>1, <2>2, <2>3
  <1> QED BY <1>5, <1>6 DEF IInv

LEMMA ChangeStep == ASSUME IInv, NEW c \in Calls, Change(c) PROVE IInv'
  <1> DEFINE r == call[c].row
  <1>1. /\ At(c, "work") /\ r # NoRow /\ committed' = committed
        /\ writer' = writer /\ permit' = permit
        /\ call' = [call EXCEPT ![c] =
              [pc |-> "work", todo |-> call[c].todo \ {r}, row |-> NoRow, seen |-> {},
               nested |-> call[c].nested]]
        /\ working' = [q \in Rows |-> IF q = r THEN call[c].seen \cup {c} ELSE working[q]]
    <2>1. At(c, "work") /\ InOwnTransaction(c)
      BY DEF Change, IInv, Owners, At, InOwnTransaction
    <2> QED BY <2>1 DEF Change, Put
  <1>2. /\ call[c] \in CallMemory /\ r \in call[c].todo /\ call[c].seen = committed[r]
        /\ r \in Rows /\ r \in Writes[c] /\ call[c].todo \subseteq Writes[c]
    BY <1>1 DEF IInv, TypeOK, CallMemory, Works, At
  <1>3. Recalled(c, call[c].todo \ {r}, NoRow, {})
    <2> DEFINE new == [pc |-> "work", todo |-> call[c].todo \ {r}, row |-> NoRow, seen |-> {},
                       nested |-> call[c].nested]
    <2>1. new \in CallMemory
      BY <1>2 DEF CallMemory
    <2>2. call' \in [Calls -> CallMemory] /\ call'[c] = new /\ OthersKept(c)
      BY <1>1, <2>1 DEF IInv, TypeOK, OthersKept
    <2> QED BY <2>2 DEF Recalled
  <1>4. working' \in [Rows -> SUBSET Calls]
    BY <1>1, <1>2 DEF IInv, TypeOK
  <1>5. TypeOK' /\ Effects' /\ Fresh' /\ Permits' /\ Owners'
    BY <1>1, <1>3, <1>4, RecallKeeps
  <1>6. Works'
    <2> SUFFICES ASSUME NEW d \in Calls, call'[d].pc = "work"
                 PROVE  /\ \A q \in Rows : working'[q] =
                              IF q \in Writes[d] \ call'[d].todo
                              THEN committed'[q] \cup {d} ELSE committed'[q]
                        /\ call'[d].row # NoRow => call'[d].row \in call'[d].todo
                                                   /\ call'[d].seen = committed'[call'[d].row]
      BY DEF Works, At
    <2>1. d = c
      BY <1>1, <1>3, OneInTransaction DEF Recalled, OthersKept, At
    <2>2. \A q \in Rows : working[q] = IF q \in Writes[c] \ call[c].todo
                                       THEN committed[q] \cup {c} ELSE committed[q]
      BY <1>1 DEF IInv, Works
    <2>3. call'[c].todo = call[c].todo \ {r} /\ call'[c].row = NoRow
      BY <1>3 DEF Recalled
    <2> QED BY <1>1, <1>2, <2>1, <2>2, <2>3
  <1> QED BY <1>5, <1>6 DEF IInv

\* A call in a transaction goes to another pc and nothing else changes.
LEMMA MoveInTransaction ==
    ASSUME IInv, NEW c \in Calls, At(c, "work"), Moved(c, "rollback"),
           UNCHANGED <<committed, working, writer, permit>>
    PROVE  IInv'
  <1>1. committed' = committed /\ working' = working /\ writer' = writer /\ permit' = permit
    OBVIOUS
  <1>2. AbsentFrom(c) /\ "rollback" \in Pcs
    BY DEF IInv, Effects, At, Pcs
  <1>3. Effects' /\ Fresh'
    BY <1>1, <1>2, MovedEffects, MovedFresh
  <1>4. TypeOK'
    BY <1>1 DEF IInv, TypeOK, Moved
  <1>5. Permits'
    BY <1>1 DEF IInv, Permits, Moved, OthersKept, At
  <1>6. Owners'
    BY <1>1 DEF IInv, Owners, Moved, OthersKept, At
  <1>7. Works'
    <2>1. \A d \in Calls : call'[d].pc = "work" => call'[d] = call[d]
      BY DEF Moved, OthersKept
    <2> QED BY <1>1, <2>1 DEF IInv, Works, At
  <1> QED BY <1>3, <1>4, <1>5, <1>6, <1>7 DEF IInv

LEMMA FailStep == ASSUME IInv, NEW c \in Calls, Fail(c) PROVE IInv'
  <1>1. Moved(c, "rollback")
    BY GoMoves DEF Fail, WorkFails, IInv, Pcs
  <1> QED BY <1>1, MoveInTransaction DEF Fail

LEMMA NestStep == ASSUME IInv, NEW c \in Calls, Nest(c) PROVE IInv'
  <1>1. At(c, "work") /\ UNCHANGED <<committed, working, writer, permit>>
    BY DEF Nest, NestedFails
  <1>2. CASE Go(c, "rollback")
    <2>1. Moved(c, "rollback")
      BY <1>2, GoMoves DEF IInv, Pcs
    <2> QED BY <1>1, <2>1, MoveInTransaction
  <1>3. CASE call' = [call EXCEPT ![c] = [@ EXCEPT !.nested = TRUE]]
    <2>1. call[c] \in CallMemory
      BY DEF IInv, TypeOK
    <2> DEFINE new == [call[c] EXCEPT !.nested = TRUE]
    <2>2. new \in CallMemory
      BY <2>1 DEF CallMemory
    <2>3. new.pc = "work" /\ new.todo = call[c].todo /\ new.row = call[c].row
          /\ new.seen = call[c].seen
      BY <1>1, <2>1 DEF CallMemory, At
    <2>4. call' \in [Calls -> CallMemory] /\ call'[c] = new /\ OthersKept(c)
      BY <1>3, <2>2 DEF IInv, TypeOK, OthersKept
    <2> HIDE DEF new
    <2>5. Recalled(c, call[c].todo, call[c].row, call[c].seen)
      BY <2>3, <2>4 DEF Recalled
    <2>6. TypeOK' /\ Effects' /\ Fresh' /\ Permits' /\ Owners'
      BY <1>1, <2>5, RecallKeeps DEF IInv, TypeOK
    <2>7. Works'
      <3>1. committed' = committed /\ working' = working
        BY <1>1
      <3>2. \A d \in Calls : /\ call'[d].pc = call[d].pc /\ call'[d].todo = call[d].todo
                             /\ call'[d].row = call[d].row /\ call'[d].seen = call[d].seen
        BY <1>1, <2>5 DEF Recalled, OthersKept, At
      <3> QED BY <3>1, <3>2 DEF IInv, Works, At
    <2> QED BY <2>6, <2>7 DEF IInv
  <1> QED BY <1>2, <1>3 DEF Nest, NestedFails

\* COMMIT applies the call to all its rows.
LEMMA CommitApplies ==
    ASSUME IInv, NEW c \in Calls, Commit(c)
    PROVE  /\ At(c, "work") /\ AbsentFrom(c) /\ Moved(c, "ok")
           /\ working' = working /\ permit' = permit /\ writer' = NoConnection
           /\ writer = ConnectionOf[c]
           /\ committed' = [r \in Rows |-> IF r \in Writes[c] THEN committed[r] \cup {c}
                                           ELSE committed[r]]
  <1>1. /\ At(c, "work") /\ call[c].todo = {} /\ committed' = working
        /\ writer' = NoConnection /\ working' = working /\ permit' = permit
    BY DEF Commit
  <1>2. Moved(c, "ok")
    BY GoMoves DEF IInv, Commit, Pcs
  <1>3. \A r \in Rows : working[r] = IF r \in Writes[c] THEN committed[r] \cup {c}
                                     ELSE committed[r]
    BY <1>1 DEF IInv, Works
  <1>4. AbsentFrom(c) /\ writer = ConnectionOf[c]
    BY <1>1 DEF IInv, Effects, Owners, At
  <1>5. committed' = [r \in Rows |-> IF r \in Writes[c] THEN committed[r] \cup {c}
                                     ELSE committed[r]]
    BY <1>1, <1>3 DEF IInv, TypeOK
  <1> QED BY <1>1, <1>2, <1>4, <1>5

\* After the transaction has ended there is none.
LEMMA NoneAfter ==
    ASSUME IInv, NEW c \in Calls, call[c].pc \in {"work", "rollback"}, OthersKept(c),
           call'[c].pc \notin {"work", "rollback"}
    PROVE  \A d \in Calls : call'[d].pc \notin {"work", "rollback"}
  BY OneInTransaction DEF OthersKept

LEMMA CommitStep == ASSUME IInv, NEW c \in Calls, Commit(c) PROVE IInv'
  <1>1. /\ At(c, "work") /\ AbsentFrom(c) /\ Moved(c, "ok")
        /\ working' = working /\ permit' = permit /\ writer' = NoConnection
        /\ committed' = [r \in Rows |-> IF r \in Writes[c] THEN committed[r] \cup {c}
                                        ELSE committed[r]]
    BY CommitApplies
  <1>2. TypeOK'
    BY <1>1 DEF IInv, TypeOK, Moved
  <1>3. Effects'
    <2>1. \A r \in Rows : committed'[r] = IF r \in Writes[c] THEN committed[r] \cup {c}
                                          ELSE committed[r]
      BY <1>1
    <2>2. WholeIn(c)'
      BY <1>1, <2>1 DEF WholeIn, AbsentFrom
    <2>3. \A d \in Calls \ {c} : (WholeIn(d) => WholeIn(d)') /\ (AbsentFrom(d) => AbsentFrom(d)')
      BY <2>1 DEF WholeIn, AbsentFrom
    <2> QED BY <1>1, <2>2, <2>3 DEF IInv, Effects, Moved, OthersKept
  <1>4. \A d \in Calls : call'[d].pc \notin {"work", "rollback"}
    <2>1. call[c].pc \in {"work", "rollback"} /\ OthersKept(c)
          /\ call'[c].pc \notin {"work", "rollback"}
      BY <1>1 DEF Moved, At
    <2> QED BY <2>1, NoneAfter
  <1>5. Fresh' /\ Permits'
    BY <1>1 DEF IInv, Fresh, Permits, Moved, OthersKept
  <1>6. Owners' /\ Works'
    BY <1>1, <1>4 DEF Owners, Works, At
  <1> QED BY <1>2, <1>3, <1>5, <1>6 DEF IInv

LEMMA RollbackStep == ASSUME IInv, NEW c \in Calls, Rollback(c) PROVE IInv'
  <1>1. /\ At(c, "rollback") /\ writer' = NoConnection /\ committed' = committed
        /\ working' = working /\ permit' = permit
    BY DEF Rollback, Abandon, InOwnTransaction, IInv, Owners, At
  <1>2. Moved(c, "failed")
    BY GoMoves DEF Rollback, IInv, Pcs
  <1>3. Effects' /\ Fresh'
    <2>1. AbsentFrom(c) /\ "failed" \in Pcs
      BY <1>1 DEF IInv, Effects, At, Pcs
    <2> QED BY <1>1, <1>2, <2>1, MovedEffects, MovedFresh
  <1>4. \A d \in Calls : call'[d].pc \notin {"work", "rollback"}
    <2>1. call[c].pc \in {"work", "rollback"} /\ OthersKept(c)
          /\ call'[c].pc \notin {"work", "rollback"}
      BY <1>1, <1>2 DEF Moved, At
    <2> QED BY <2>1, NoneAfter
  <1>5. TypeOK'
    BY <1>1, <1>2 DEF IInv, TypeOK, Moved
  <1>6. Permits'
    BY <1>1, <1>2 DEF IInv, Permits, Moved, OthersKept
  <1>7. Owners' /\ Works'
    BY <1>1, <1>4 DEF Owners, Works, At
  <1> QED BY <1>3, <1>5, <1>6, <1>7 DEF IInv

LEMMA LostMemory ==
    ASSUME NEW m \in CallMemory
    PROVE  /\ [m EXCEPT !.pc = "lost"] \in CallMemory
           /\ [m EXCEPT !.pc = "lost"].pc = "lost"
           /\ [m EXCEPT !.pc = "lost"].todo = m.todo
           /\ [m EXCEPT !.pc = "lost"].row = m.row
           /\ [m EXCEPT !.pc = "lost"].seen = m.seen
  BY DEF CallMemory

LEMMA CrashStep == ASSUME IInv, NEW n \in Connections, Crash(n) PROVE IInv'
  <1> DEFINE hit(c) == ConnectionOf[c] = n /\ ~Returned(c)
  <1>1. /\ call' = [c \in Calls |-> IF hit(c) THEN [call[c] EXCEPT !.pc = "lost"] ELSE call[c]]
        /\ writer' = IF writer = n THEN NoConnection ELSE writer
        /\ permit' = [permit EXCEPT ![n] = NoCall]
        /\ committed' = committed /\ working' = working
    BY DEF Crash
  <1>2. \A c \in Calls : call[c] \in CallMemory
    BY DEF IInv, TypeOK
  <1>3. \A c \in Calls : [call[c] EXCEPT !.pc = "lost"] \in CallMemory
    BY <1>2, LostMemory
  <1>4. call' \in [Calls -> CallMemory]
    BY <1>1, <1>2, <1>3
  <1>5. \A c \in Calls : call'[c].todo = call[c].todo /\ call'[c].row = call[c].row
                         /\ call'[c].seen = call[c].seen
    BY <1>1, <1>2, LostMemory
  <1>6. \A c \in Calls : IF hit(c) THEN call'[c].pc = "lost" ELSE call'[c] = call[c]
    BY <1>1, <1>2, LostMemory
  <1>7. \A c \in Calls : call'[c].pc # "lost" => call'[c] = call[c]
    BY <1>6
  <1>8. \A c \in Calls : call'[c].pc \in {"begin", "statement", "work", "rollback"} =>
                             ConnectionOf[c] # n
    BY <1>6, <1>7 DEF Returned
  <1> HIDE DEF hit
  <1>9. TypeOK'
    BY <1>1, <1>4, <1>5 DEF IInv, TypeOK
  <1>10. Effects'
    <2>1. \A c \in Calls : (WholeIn(c)' <=> WholeIn(c)) /\ (AbsentFrom(c)' <=> AbsentFrom(c))
      BY <1>1 DEF WholeIn, AbsentFrom
    <2> QED BY <1>7, <2>1 DEF IInv, Effects
  <1>11. Fresh' /\ Works'
    <2>1. Fresh'
      BY <1>7 DEF IInv, Fresh
    <2>2. \A c \in Calls : call'[c].pc = "work" => call'[c] = call[c]
      BY <1>7
    <2>3. Works'
      BY <1>1, <2>2 DEF IInv, Works, At
    <2> QED BY <2>1, <2>3
  <1>12. Permits'
    BY <1>1, <1>7, <1>8 DEF IInv, TypeOK, Permits
  <1>13. Owners'
    <2>1. \A c \in Calls : call'[c].pc \in {"work", "rollback"} => writer' = ConnectionOf[c]
      BY <1>1, <1>7, <1>8 DEF IInv, Owners
    <2>2. ASSUME writer' # NoConnection
          PROVE  /\ permit'[writer'] \in Calls
                 /\ call'[permit'[writer']].pc \in {"work", "rollback"}
                 /\ ConnectionOf[permit'[writer']] = writer'
      <3>1. writer' = writer /\ writer # n /\ writer \in Connections
        BY <1>1, <2>2 DEF IInv, TypeOK
      <3>2. permit'[writer] = permit[writer]
        BY <1>1, <3>1 DEF IInv, TypeOK
      <3> DEFINE c == permit[writer]
      <3>3. c \in Calls /\ call[c].pc \in {"work", "rollback"} /\ ConnectionOf[c] = writer
        BY <2>2, <3>1 DEF IInv, Owners
      <3>4. call'[c] = call[c]
        BY <1>6, <3>1, <3>3 DEF hit
      <3> QED BY <3>1, <3>2, <3>3, <3>4
    <2> QED BY <2>1, <2>2 DEF Owners
  <1> QED BY <1>9, <1>10, <1>11, <1>12, <1>13 DEF IInv

LEMMA Inductive == IInv /\ [Next]_vars => IInv'
  <1> SUFFICES ASSUME IInv, [Next]_vars PROVE IInv'
    OBVIOUS
  <1>1. CASE UNCHANGED vars
    <2>1. /\ committed' = committed /\ working' = working /\ writer' = writer
          /\ permit' = permit /\ call' = call
      BY <1>1 DEF vars
    <2>2. TypeOK' /\ Fresh' /\ Permits' /\ Owners'
      BY <2>1 DEF IInv, TypeOK, Fresh, Permits, Owners
    <2>3. Effects'
      BY <2>1 DEF IInv, Effects, WholeIn, AbsentFrom
    <2>4. Works'
      BY <2>1 DEF IInv, Works, At
    <2> QED BY <2>2, <2>3, <2>4 DEF IInv
  <1>2. ASSUME NEW c \in Calls, Acquire(c) \/ StopWaiting(c) \/ Step(c) PROVE IInv'
    BY <1>2, AcquireStep, FailingStep, ReturnStep, ExecuteStep, BeginStep, ReadStep, ChangeStep,
       NestStep, CommitStep, FailStep, RollbackStep DEF Step
  <1>3. ASSUME NEW n \in Connections, Crash(n) PROVE IInv'
    BY <1>3, CrashStep
  <1> QED BY <1>1, <1>2, <1>3 DEF Next

LEMMA Invariance == Spec => []IInv
  BY InitIInv, Inductive, PTL DEF Spec

\* TypeOK of the database service, for any calls, rows and connections.
THEOREM TypeCorrect == Spec => []TypeOK
  <1>1. IInv => TypeOK
    BY DEF IInv
  <1> QED BY Invariance, <1>1, PTL

\* makeTransaction leaves no transaction open behind it, however its work ends.
THEOREM TransactionsEnd == Spec => []OpenTransactionIsOwned
  <1>1. IInv => OpenTransactionIsOwned
    BY DEF IInv, TypeOK, Owners, OpenTransactionIsOwned
  <1> QED BY Invariance, <1>1, PTL

-------------------------------------------------------------------------------
(* Every step maps to a step of AtomicStore or to a stutter.               *)

LEMMA AnswersStay ==
    ASSUME NEW c \in Calls, NEW p, OthersKept(c), call'[c].pc = p,
           call[c].pc \notin {"returned ok", "returned failed", "lost"},
           p \notin {"returned ok", "returned failed", "lost"}
    PROVE  Answers' = Answers
  BY DEF OthersKept, Answers, At

LEMMA AnswersChange ==
    ASSUME NEW c \in Calls, OthersKept(c), call[c].pc \in {"ok", "failed"},
           call'[c].pc = IF call[c].pc = "ok" THEN "returned ok" ELSE "returned failed"
    PROVE  /\ Answers[c] = "none"
           /\ Answers' = [Answers EXCEPT ![c] = call[c].pc]
  <1>1. Answers[c] = "none"
    BY DEF Answers, At
  <1>2. Answers'[c] = call[c].pc
    BY DEF Answers, At
  <1>3. \A d \in Calls \ {c} : Answers'[d] = Answers[d]
    BY DEF OthersKept, Answers, At
  <1> DEFINE told == {"none", "ok", "failed", "lost"}
  <1>4. Answers \in [Calls -> told] /\ Answers' \in [Calls -> told]
    BY DEF Answers
  <1> QED BY <1>1, <1>2, <1>3, <1>4

LEMMA AppliesAtOnce ==
    ASSUME NEW c \in Calls, AbsentFrom(c), Answers[c] = "none", Answers' = Answers,
           committed' = [r \in Rows |-> IF r \in Writes[c] THEN committed[r] \cup {c}
                                        ELSE committed[r]]
    PROVE  Store!Apply(c)
  BY DEF Store!Apply, Store!Untouched, AbsentFrom

LEMMA InitStore == Init => Store!Init
  BY DEF Init, NewCall, Store!Init, Answers, At

LEMMA StoreStep == IInv /\ [Next]_vars => [Store!Next]_<<committed, Answers>>
  <1> SUFFICES ASSUME IInv, [Next]_vars, ~UNCHANGED <<committed, Answers>>
               PROVE  Store!Next
    OBVIOUS
  <1> DEFINE open == {"wait", "begin", "statement", "work", "rollback", "ok", "failed"}
  <1>1. CASE UNCHANGED vars
    BY <1>1 DEF vars, Answers, At
  <1>2. ASSUME NEW c \in Calls, NEW p \in open, Go(c, p), call[c].pc \in open,
               committed' = committed
        PROVE  FALSE
    <2>1. Moved(c, p)
      BY <1>2, GoMoves DEF IInv, Pcs
    <2> QED BY <1>2, <2>1, AnswersStay DEF Moved
  <1>3. ASSUME NEW c \in Calls, Acquire(c) \/ StopWaiting(c) \/ ExecuteFails(c) \/ BeginFails(c)
                                \/ Begin(c) \/ Fail(c) \/ Rollback(c)
        PROVE  FALSE
    BY <1>2, <1>3 DEF Acquire, StopWaiting, ExecuteFails, BeginFails, Begin, Fail, WorkFails,
                      Rollback, At
  <1>4. ASSUME NEW c \in Calls, Execute(c) PROVE Store!Next
    <2>1. /\ AbsentFrom(c) /\ call[c].pc \in {"wait", "statement"} /\ Moved(c, "ok")
          /\ committed' = [r \in Rows |-> IF r \in Writes[c] THEN committed[r] \cup {c}
                                          ELSE committed[r]]
      BY <1>4, ExecuteCommits
    <2>2. Answers' = Answers /\ Answers[c] = "none"
      BY <2>1, AnswersStay DEF Moved, Answers, At
    <2> QED BY <2>1, <2>2, AppliesAtOnce DEF Store!Next
  <1>5. ASSUME NEW c \in Calls, Commit(c) PROVE Store!Next
    <2>1. /\ AbsentFrom(c) /\ call[c].pc = "work" /\ Moved(c, "ok")
          /\ committed' = [r \in Rows |-> IF r \in Writes[c] THEN committed[r] \cup {c}
                                          ELSE committed[r]]
      BY <1>5, CommitApplies DEF At
    <2>2. Answers' = Answers /\ Answers[c] = "none"
      BY <2>1, AnswersStay DEF Moved, Answers, At
    <2> QED BY <2>1, <2>2, AppliesAtOnce DEF Store!Next
  <1>6. ASSUME NEW c \in Calls, Return(c) PROVE Store!Next
    <2>1. /\ call[c].pc \in {"ok", "failed"} /\ committed' = committed
          /\ call[c].pc = "ok" => Moved(c, "returned ok")
          /\ call[c].pc = "failed" => Moved(c, "returned failed")
      BY <1>6, GoMoves DEF IInv, Return, Pcs, At
    <2>2. CASE call[c].pc = "ok"
      <3>1. Store!Applied(c)
        BY <2>2 DEF IInv, Effects, WholeIn, Store!Applied
      <3>2. Answers' = [Answers EXCEPT ![c] = "ok"] /\ Answers[c] = "none"
        BY <2>1, <2>2, AnswersChange DEF Moved
      <3> QED BY <2>1, <3>1, <3>2 DEF Store!Next, Store!Answer
    <2>3. CASE call[c].pc = "failed"
      <3>1. Store!Untouched(c)
        BY <2>3 DEF IInv, Effects, AbsentFrom, Store!Untouched
      <3>2. Answers' = [Answers EXCEPT ![c] = "failed"] /\ Answers[c] = "none"
        BY <2>1, <2>3, AnswersChange DEF Moved
      <3> QED BY <2>1, <3>1, <3>2 DEF Store!Next, Store!Answer
    <2> QED BY <2>1, <2>2, <2>3
  <1>7. ASSUME NEW c \in Calls, Read(c) \/ Change(c) \/ Nest(c) PROVE FALSE
    <2>1. At(c, "work") /\ committed' = committed
      <3>1. CASE Change(c)
        BY <3>1 DEF Change, Put, InOwnTransaction, IInv, Owners, At
      <3> QED BY <1>7, <3>1 DEF Read, Nest
    <2>2. OthersKept(c) /\ call'[c].pc \in {"work", "rollback"}
      <3>1. PICK m : call' = [call EXCEPT ![c] = m] /\ m.pc \in {"work", "rollback"}
        <4>1. CASE Read(c)
          <5>1. PICK q \in call[c].todo : call' = [call EXCEPT ![c] =
                    [pc |-> "work", todo |-> call[c].todo, row |-> q, seen |-> Visible(c)[q],
                     nested |-> call[c].nested]]
            BY <4>1 DEF Read
          <5> DEFINE m == [pc |-> "work", todo |-> call[c].todo, row |-> q,
                           seen |-> Visible(c)[q], nested |-> call[c].nested]
          <5>2. m.pc = "work" /\ call' = [call EXCEPT ![c] = m]
            BY <5>1
          <5> HIDE DEF m
          <5> QED BY <5>2
        <4>2. CASE Change(c)
          <5> DEFINE m == [pc |-> "work", todo |-> call[c].todo \ {call[c].row}, row |-> NoRow,
                           seen |-> {}, nested |-> call[c].nested]
          <5>1. m.pc = "work" /\ call' = [call EXCEPT ![c] = m]
            BY <4>2 DEF Change
          <5> HIDE DEF m
          <5> QED BY <5>1
        <4>3. CASE Nest(c)
          <5>1. call[c] \in CallMemory /\ call[c].pc = "work"
            BY <2>1 DEF IInv, TypeOK, At
          <5>2. /\ [call[c] EXCEPT !.pc = "rollback"].pc = "rollback"
                /\ [call[c] EXCEPT !.nested = TRUE].pc = "work"
            BY <5>1 DEF CallMemory
          <5> QED BY <4>3, <5>2 DEF Nest, NestedFails, Go
        <4> QED BY <1>7, <4>1, <4>2, <4>3
      <3> QED BY <3>1 DEF IInv, TypeOK, OthersKept
    <2> QED BY <2>1, <2>2, AnswersStay DEF At
  <1>8. ASSUME NEW n \in Connections, Crash(n) PROVE Store!Next
    <2> DEFINE lost == {c \in Calls : ConnectionOf[c] = n /\ ~Returned(c)}
    <2>1. /\ call' = [c \in Calls |-> IF c \in lost THEN [call[c] EXCEPT !.pc = "lost"]
                                                    ELSE call[c]]
          /\ committed' = committed
      BY <1>8 DEF Crash
    <2>2. \A c \in Calls : call'[c].pc = IF c \in lost THEN "lost" ELSE call[c].pc
      <3>1. \A c \in Calls : call[c] \in CallMemory
        BY DEF IInv, TypeOK
      <3> QED BY <2>1, <3>1, LostMemory
    <2>3. Answers' = [c \in Calls |-> IF c \in lost THEN "lost" ELSE Answers[c]]
      BY <2>2 DEF Answers, At
    <2>4. \A c \in lost : Answers[c] = "none"
      BY DEF Answers, Returned, At
    <2>5. lost \in SUBSET Calls
      OBVIOUS
    <2> HIDE DEF lost
    <2> QED BY <2>1, <2>3, <2>4, <2>5 DEF Store!Next, Store!Lose
  <1> QED BY <1>1, <1>3, <1>4, <1>5, <1>6, <1>7, <1>8 DEF Next, Step

\* Statements and transactions are atomic to each other, as all other modules assume.
THEOREM ImplementsStore == Spec => KeepsAtomicity
  <1>1. Spec => []IInv
    BY Invariance
  <1> QED BY <1>1, InitStore, StoreStep, PTL DEF Spec, KeepsAtomicity, Store!Spec
===============================================================================
