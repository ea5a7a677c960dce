\* Two workers, an ordinary and a password-reset e-mail, one fault: every cause of a duplicate.
SPECIFICATION Spec
CONSTANTS
    w1 = w1  w2 = w2  e1 = e1  e2 = e2  e3 = e3  r1 = r1
    Workers = {w1, w2}
    NoWorker = NoWorker
    Emails = {e1, r1}
    Resets = {r1}
    FailureKinds <- NoReject
    LostAcks = TRUE
    BatchSize = 1
    MaxRetries = 1
    Interval = 1
    Retention = 1
    LinkTTL = 0
    BatchTime = 1
    MaxFaults = 1
SYMMETRY WorkerSymmetry
INVARIANTS TypeOK OneSenderPerRow EveryDuplicateHasACause SentMeansAccepted
PROPERTY ImplementsLifecycle
