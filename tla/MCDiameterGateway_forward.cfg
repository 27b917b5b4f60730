\* Three clients, three requests between them, one restart of the EIR core.
SPECIFICATION Spec
CONSTANTS
    Client = {c1, c2, c3}
    Nobody = Nobody
    Garbage = Garbage
    MaxRequests = 3
    MaxRestarts = 1
SYMMETRY MCSymmetry
CONSTRAINT MCBound
INVARIANTS TypeOK SoundMatch SoundUnshared OneConnection LockProgress
\* The bound on requests, or Stop, stops the system.
CHECK_DEADLOCK FALSE
