\* A question, whose worker moves the old vectors; nothing is embedded.
SPECIFICATION LSpec
CONSTANTS
    new = new  bad = bad
    l1 = l1  m1 = m1  x1 = x1  c1 = c1  w1 = w1  w2 = w2
    Docs = {new, bad}
    Earlier = {new, bad}
    Extracts <- Texts
    Loops = {}
    Manual = {}
    Deletions = {}
    Workers = {w1, w2}
    At <- Places
    Limit = 2
    MaxFaults = 1
    Chats = {c1}
    ChatAt <- Asked
    None = None
INVARIANT DroppedAfterBackfill
CHECK_DEADLOCK FALSE
