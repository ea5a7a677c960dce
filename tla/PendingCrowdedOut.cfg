\* An upload whose embedding fails, one stored document without text, and a
\* SELECT that returns one document.
SPECIFICATION LSpec
CONSTANTS
    new = new  bad = bad
    l1 = l1  m1 = m1  x1 = x1  c1 = c1  w1 = w1  w2 = w2
    Docs = {new, bad}
    Earlier = {bad}
    Extracts <- Blanks
    Loops = {l1}
    Manual = {}
    Deletions = {}
    Workers = {w1, w2}
    At <- Places
    Limit = 1
    MaxFaults = 1
    Chats = {}
    ChatAt <- Asked
    None = None
PROPERTY EveryPendingIsEmbedded
CHECK_DEADLOCK FALSE
