\* One request of each kind is enough.
SPECIFICATION ServiceSpec
CONSTANTS
    Pos = {1, 2, 3, 4}
    Imei <- MCImei
    SampleRange <- MCSampleRange
    MaxRequests = 2
INVARIANTS ProvisionedAnswered
\* The bound on requests stops the system.
CHECK_DEADLOCK FALSE
