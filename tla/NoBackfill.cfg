\* An upload, and no failure at all.
SPECIFICATION LSpec
CONSTANTS
    new = new  bad = bad
    l1 = l1  m1 = m1  x1 = x1  c1 = c1  w1 = w1  w2 = w2
    Docs = {new, bad}
    Earlier = {bad}
    Extracts <- Texts
    Loops = {}
    Manual = {}
    Deletions = {}
    Workers = {w1, w2}
    At <- Places
    Limit = 2
    MaxFaults = 0
    Chats = {}
    ChatAt <- Asked
    None = None
INVARIANT DroppedAfterBackfill
CHECK_DEADLOCK FALSE
