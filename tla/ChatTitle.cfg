\* A first message that looks like a placeholder, and a rename while it is answered.
SPECIFICATION Spec
CONSTANTS
    q1 = q1  q2 = q2  q3 = q3  q4 = q4
    Requests = {q1, q2}
    Routes <- ChatRename
    Questions <- Odd
    Names <- Given
    Dated = "Conversation 2024"
    Empty = ""
    Placeholders <- Like
    Clean <- CleanTexts
PROPERTY RenameSticks
CHECK_DEADLOCK FALSE
