\* Provisioning and checks in any order.
SPECIFICATION ServiceSpec
CONSTANTS
    Pos = {1, 2, 3, 4}
    Imei <- MCImei
    SampleRange <- MCSampleRange
    MaxRequests = 3
INVARIANTS ServiceTypeOK AnswersAgree
\* The bound on requests stops the system.
CHECK_DEADLOCK FALSE
