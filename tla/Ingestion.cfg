\* An upload, a scheduler, a manual run in another worker, a deletion and a question.
SPECIFICATION LSpec
CONSTANTS
    new = new  bad = bad
    l1 = l1  m1 = m1  x1 = x1  c1 = c1  w1 = w1  w2 = w2
    Docs = {new, bad}
    Earlier = {bad}
    Extracts <- Texts
    Loops = {l1}
    Manual = {m1}
    Deletions = {x1}
    Workers = {w1, w2}
    At <- Places
    Limit = 2
    MaxFaults = 1
    Chats = {c1}
    ChatAt <- Asked
    None = None
INVARIANTS TypeOK EveryOrphanHasACause EveryCopyHasACause EveryLossOfAVectorHasACause
PROPERTIES DeletedStaysDeleted ImplementsDocumentLifecycle PendingIsEmbedded
