CONSTANTS
    Poll = {c1, c2}
    UpgradeJob = {"u1"}
    ScanJob = {"s1", "s2", "s3"}
    Retries <- MCRetries
    Trigger <- MCTrigger
    WorkVal <- MCWorkVal
    NoOwner = NoOwner
    MaxFailures = 0
SPECIFICATION Spec
INVARIANT
    NoDoubleDispatch
