\* Three rows, pages of one row or of the whole table, every repository.
SPECIFICATION MCSpec
CONSTANTS
    Row = {1, 2, 3}
    MaxKey = 2
    Queries = {"List", "ListByStatus", "GetAuditsByIMEI",
               "GetAuditsByTimeRange", "GetAuditsByRequestSource",
               "GetExtendedAuditsByIMEI"}
    Limits = {1, 2, 3}
    MaxOffset = 4
    MaxEvents = 2
INVARIANTS TypeOK PagesComplete
PROPERTIES CopiesKept
\* The bounds on writes and readers stop the system.
CHECK_DEADLOCK FALSE
