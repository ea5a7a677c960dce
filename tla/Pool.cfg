\* Two recordings, two forgotten passwords, a background delivery and a call to S3;
\* two connections, two threads.
SPECIFICATION Spec
CONSTANTS
    v1 = v1  v2 = v2  f1 = f1  f2 = f2  b1 = b1  s1 = s1
    Voices = {v1, v2}
    Forgots = {f1, f2}
    Background = {b1}
    Shorts = {s1}
    Threads = 2
    PoolSize = 2
    MaxFails = 1
    None = None
INVARIANTS TypeOK OneThreadAtTheModel EveryLingeringFileHasACause EveryConnectionComesBack EveryLossHasACause
PROPERTY EveryRequestEnds
CHECK_DEADLOCK FALSE
