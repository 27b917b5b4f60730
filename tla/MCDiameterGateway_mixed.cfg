\* Two clients, two requests between them: one gets the other's answer.
SPECIFICATION Spec
CONSTANTS
    Client = {c1, c2}
    Nobody = Nobody
    Garbage = Garbage
    MaxRequests = 2
    MaxRestarts = 0
INVARIANTS AnswersMatch
\* The bound on requests, or Stop, stops the system.
CHECK_DEADLOCK FALSE
