----------------------------- MODULE MCIngestion -----------------------------
(* Values of the constants of DocumentIngestion and LegacyVectors for TLC. *)
EXTENDS LegacyVectors, TLC

CONSTANTS new, bad, l1, m1, x1, c1, w1, w2

\* A document being uploaded, which has text, and one stored before, whose
\* text the database rejects or which has none.
Texts  == {new :> "text" @@ bad :> c : c \in {"poison", "blank"}}
Blanks == {f \in Texts : f[bad] = "blank"}
Poisons == {f \in Texts : f[bad] = "poison"}
Places == [a \in Agents |-> IF a = m1 THEN w2 ELSE w1]
Asked  == [c \in Chats |-> w2]
============================================================================
