\* Two requests of each kind, any configuration of governance.
SPECIFICATION FairSpec
CONSTANTS
    Http1 = {h1, h2}
    H2c = {c1, c2}
INVARIANTS TypeOK RegisteredServes OrderlyAnswers
PROPERTIES DiameterServes SignalEnds
\* The process ends.
CHECK_DEADLOCK FALSE
