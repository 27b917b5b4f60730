\* Two inserters over either repository; one call of either kind fails.
SPECIFICATION Spec
CONSTANTS
    Inserter = {i1, i2}
    Start = {s1,s2}
    Blank = Blank
    End = {Blank, e1, e2}
    Color = {b, w}
    Nil = Nil
    MaxRequests = 3
    Faults = {"read", "write"}
    MaxFaults = 1
INVARIANTS TypeOK ColorAsked NoDuplicates
PROPERTIES ImplementsRegistry
\* The bound on requests stops the system.
CHECK_DEADLOCK FALSE
