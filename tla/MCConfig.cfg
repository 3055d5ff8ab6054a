\* A file that differs in up to two fields from the smallest or from the full one.
CONSTANT
    MaxEdits = 2
SPECIFICATION FairMainSpec
CHECK_DEADLOCK FALSE
INVARIANTS
    AcceptedIsUsable
    StartFailsFromOutside
    ServedWithTasks
PROPERTIES
    DrainIsHeeded
    StartAndStopEnd
