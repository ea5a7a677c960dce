\* An upload whose embedding fails, and one stored document whose text the database
\* rejects.
SPECIFICATION LSpec
CONSTANTS
    new = new  bad = bad
    l1 = l1  m1 = m1  x1 = x1  c1 = c1  w1 = w1  w2 = w2
    Docs = {new, bad}
    Earlier = {bad}
    Extracts <- Poisons
    Loops = {l1}
    Manual = {}
    Deletions = {}
    Workers = {w1, w2}
    At <- Places
    Limit = 2
    MaxFaults = 1
    Chats = {}
    ChatAt <- Asked
    None = None
PROPERTY EveryPendingIsEmbedded
CHECK_DEADLOCK FALSE
