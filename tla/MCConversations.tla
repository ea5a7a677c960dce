-------------------------- MODULE MCConversations --------------------------
(* Values of the constants of Conversations for TLC. *)
EXTENDS Conversations, TLC

CONSTANTS q1, q2, q3, q4

RequestSymmetry == Permutations(Requests)

AllOfThem == AllRoutes

\* Texts as the clients send them; the names say what Python makes of them.
Plain == {"revenue of Apple", "New chat"}
Odd   == {"Conversation  with Tim"}
Given == {"Q3 review"}

Like  == {"New chat", "Conversation 2024", "Conversation  with Tim", "Conversation with Tim", ""}

CleanTexts ==
    [q \in Questions |-> IF q = "Conversation  with Tim" THEN "Conversation with Tim" ELSE q]

ChatOnly   == {"chat", "newChat"}
ChatRename == {"newChat", "rename"}
============================================================================
