\* A chat that creates the conversation and two that continue it.
SPECIFICATION Spec
CONSTANTS
    q1 = q1  q2 = q2  q3 = q3  q4 = q4
    Requests = {q1, q2, q3}
    Routes <- ChatOnly
    Questions <- Plain
    Names <- Given
    Dated = "Conversation 2024"
    Empty = ""
    Placeholders <- Like
    Clean <- CleanTexts
INVARIANT CountIsAtomic
CHECK_DEADLOCK FALSE
