CONSTANTS
    t1 = t1
    t2 = t2
    s1 = s1
    b1 = b1
    x = x
    y = y
    app = app
    auth = auth
    worker = worker
    Calls = {t1, t2, s1, b1}
    Rows = {x, y}
    Writes <- MCWrites
    Connections = {app, auth, worker}
    ConnectionOf <- MCTwoProcesses
    Kind <- MCKind
    NoCall = NoCall
    NoConnection = NoConnection
    NoRow = NoRow
SPECIFICATION FairSpec
CHECK_DEADLOCK FALSE
INVARIANT OpenTransactionIsOwned
PROPERTIES KeepsAtomicity EveryCallReturns
