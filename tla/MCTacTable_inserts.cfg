\* Two inserters, three requests, one failed repository call of either kind.
\* Three bounds are enough for a range, one nested in it, and one that crosses
\* it; two colours show a range recoloured.
SPECIFICATION FairSpec
CONSTANTS
    Pos = {1, 2, 3}
    Inserter = {i1, i2}
    Color = {black, white}
    Nil = Nil
    MaxRequests = 3
    Faults = {"read", "write"}
    MaxFaults = 1
INVARIANTS TypeOK LinkEncloses AdjacentNestingLinked
PROPERTIES RejectionJustified ImplementsRegistry Answered
\* The bound on requests stops the system.
CHECK_DEADLOCK FALSE
