--------------------------- MODULE DatabaseServiceMC --------------------------
EXTENDS DatabaseService

CONSTANTS t1, t2, s1, b1, x, y, app, auth, worker

\* A transaction and a statement share the service's connection; the second
\* transaction is that of another process, the worker; one call is bare.
MCTwoProcesses == [c \in Calls |-> IF c = b1 THEN auth ELSE IF c = t2 THEN worker ELSE app]
MCKind == [c \in Calls |-> CASE c \in {t1, t2} -> "transaction"
                             [] c = s1 -> "statement"
                             [] OTHER -> "bare"]
MCWrites == [c \in Calls |-> IF c = t1 THEN {x, y} ELSE {x}]
===============================================================================
