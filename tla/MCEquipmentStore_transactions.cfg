\* Both adapters, two clients, two transactions.
SPECIFICATION Spec
CONSTANTS
    Client = {c1, c2}
    Status = {black, white}
    Reason = {r1, r2}
    None = None
    MaxTx = 2
    MaxCalls = 4
INVARIANTS TypeOK PostgresAtomic CheckCountExact HistoryChains SnapshotsMatch
\* The bounds on calls and transactions stop the system.
CHECK_DEADLOCK FALSE
