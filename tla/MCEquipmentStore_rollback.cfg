\* Both adapters: MongoDB does not undo what was rolled back.
SPECIFICATION Spec
CONSTANTS
    Client = {c1}
    Status = {black, white}
    Reason = {r1, r2}
    None = None
    MaxTx = 1
    MaxCalls = 2
INVARIANTS RollbackUndoes
\* The bounds on calls and transactions stop the system.
CHECK_DEADLOCK FALSE
