\* One worker, no lost acknowledgement: a row that was pending for longer than
\* the retention period while the service was down.
SPECIFICATION Spec
CONSTANTS
    w1 = w1  w2 = w2  e1 = e1  e2 = e2  e3 = e3  r1 = r1
    Workers = {w1}
    NoWorker = NoWorker
    Emails = {e1}
    Resets <- NoEmails
    FailureKinds <- Timeouts
    LostAcks = FALSE
    BatchSize = 1
    MaxRetries = 2
    Interval = 1
    Retention = 3
    LinkTTL = 0
    BatchTime = 0
    MaxFaults = 1
INVARIANT DuplicateOnlyAfterRollback
