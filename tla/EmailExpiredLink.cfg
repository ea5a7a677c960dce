\* A backlog of three older rows, one row per tick, no fault and no slow batch.
SPECIFICATION Spec
CONSTANTS
    w1 = w1  w2 = w2  e1 = e1  e2 = e2  e3 = e3  r1 = r1
    Workers = {w1}
    NoWorker = NoWorker
    Emails = {e1, e2, e3, r1}
    Resets = {r1}
    FailureKinds <- Timeouts
    LostAcks = FALSE
    BatchSize = 1
    MaxRetries = 2
    Interval = 1
    Retention = 8
    LinkTTL = 3
    BatchTime = 0
    MaxFaults = 0
INVARIANT NoExpiredLink
