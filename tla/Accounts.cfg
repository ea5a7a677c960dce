\* Three requests of any kind on three addresses, while two instances start.
SPECIFICATION MSpec
CONSTANTS
    q1 = q1  q2 = q2  q3 = q3  w1 = w1  w2 = w2  i1 = i1  i2 = i2
    Requests = {q1, q2, q3}
    Operations <- Everything
    Addresses <- Typed
    Lower <- AsTyped
    Workers = {w1, w2}
    None = None
    Instances = {i1, i2}
    Deployed <- AnyState
SYMMETRY RequestSymmetry
INVARIANTS TypeOK OnlyProvenSignIn EveryReuseHasACause OneLiveLink
    NewestLinkWorks EverySpamHasACause NobodyLockedOut
PROPERTIES VerificationIsKept ImplementsAccountLifecycle
