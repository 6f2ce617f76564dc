CONSTANTS
    Record = {r1, r2, r3}
    BadRecord = {r3}
    Cap = 1
SPECIFICATION Spec
PROPERTY
    RecordsDrained
CHECK_DEADLOCK FALSE
