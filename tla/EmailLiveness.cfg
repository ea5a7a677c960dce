\* A crash or database failure, one row per tick, and every stored e-mail settles.
SPECIFICATION FairSpec
CONSTANTS
    w1 = w1  w2 = w2  e1 = e1  e2 = e2  e3 = e3  r1 = r1
    Workers = {w1}
    NoWorker = NoWorker
    Emails = {e1, e2}
    Resets <- NoEmails
    FailureKinds <- Timeouts
    LostAcks = FALSE
    BatchSize = 1
    MaxRetries = 2
    Interval = 1
    Retention = 2
    LinkTTL = 0
    BatchTime = 1
    MaxFaults = 1
PROPERTY PendingSettles
