\* Four requests, any route each: every overlap of three requests on one conversation.
SPECIFICATION Spec
CONSTANTS
    q1 = q1  q2 = q2  q3 = q3  q4 = q4
    Requests = {q1, q2, q3, q4}
    Routes <- AllOfThem
    Questions <- Plain
    Names <- Given
    Dated = "Conversation 2024"
    Empty = ""
    Placeholders <- Like
    Clean <- CleanTexts
SYMMETRY RequestSymmetry
INVARIANTS TypeOK CountNeverAhead EveryDriftHasACause
PROPERTY RenameSticks
CHECK_DEADLOCK FALSE
