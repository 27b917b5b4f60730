\* Two processes, and schema.sql by hand.
SPECIFICATION FairSpec
CONSTANTS
    Process = {p1, p2}
    Nobody = Nobody
    y1 = y1
    y2 = y2
    Year <- MCYear
    SchemaPartition <- MCSchemaPartition
INVARIANTS TypeOK RecordedComplete AllOrNothing SuccessTrue
PROPERTIES ImplementsDatabase EveryoneEnds
\* The processes end.
CHECK_DEADLOCK FALSE
