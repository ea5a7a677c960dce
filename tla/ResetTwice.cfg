\* Three requests that ask for and use reset links.
SPECIFICATION MSpec
CONSTANTS
    q1 = q1  q2 = q2  q3 = q3  w1 = w1  w2 = w2  i1 = i1  i2 = i2
    Requests = {q1, q2, q3}
    Operations <- Forgetful
    Addresses <- Typed
    Lower <- AsTyped
    Workers = {w1, w2}
    None = None
    Instances = {i1, i2}
    Deployed <- OnlyNew
SYMMETRY RequestSymmetry
INVARIANT ResetIsSingleUse
