\* Two questions, while a document, messages or conversations are deleted; three models
\* to answer, and three for an image.
SPECIFICATION Spec
CONSTANTS
    c1 = c1  c2 = c2  x1 = x1  annual = annual  quarterly = quarterly
    Chats = {c1, c2}
    Deletions = {x1}
    Docs = {annual, quarterly}
    Ranking <- Ranked
    Misses <- Missed
    DocOf <- Owners
    Preview <- Texts
    Length <- Entries
    Requested <- Asked
    Primary = "gemma-4-26b-a4b-it:free"
    Fallbacks <- TheOthers
    TopK = 8
    MaxContextChars = 12000
    VisionModels = 3
    MaxFaults = 1
    None = None
INVARIANTS TypeOK AskedInTurn EveryApologyHasACause EveryCitationWasShown SourcesHaveDocuments SavedAsAWhole
PROPERTY EveryQuestionEnds
CHECK_DEADLOCK FALSE
