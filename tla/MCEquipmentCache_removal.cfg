\* The cache and the database may fail.
SPECIFICATION FairSpec
CONSTANTS
    Getter = {g1, g2}
    Remover = {r1, r2}
    Version = {v1, v2}
    None = None
    TTL = 300
    Faults = {"cache", "database"}
    MaxFills = 1
INVARIANTS TypeOK StaleOnlyIfExcused
PROPERTIES EventuallyForgotten
