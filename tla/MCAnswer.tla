------------------------------ MODULE MCAnswer ------------------------------
(* Values of the constants of AnswerPipeline for TLC. *)
EXTENDS AnswerPipeline, Chunking, TLC

CONSTANTS c1, c2, x1, annual, quarterly

\* Two documents with file names of 500 characters: the first seven chunks of
\* a long page, the second a copy of the first, which was embedded twice; and
\* the three chunks of a short page.  A question ranks them in this order.
Ten     == [i \in 1 .. 10 |-> i]
Ranked  == [c \in Chats |-> Ten]
Owners  == [i \in 1 .. 10 |-> IF i <= 7 THEN annual ELSE quarterly]
Texts   == [i \in 1 .. 10 |-> IF i = 2 THEN 1 ELSE i]

\* All are similar enough; the short page is not; none is.
Missed == {{}, 8 .. 10, 1 .. 10}

Header  == 541
Entries == [i \in 1 .. 10 |->
    Header + Size(IF i <= 7 THEN SplitText(5800)[Texts[i]] ELSE SplitText(2000)[i - 7])]

Asked     == {"openai/gpt-4o", "openrouter/free"}
TheOthers == <<"google/gemma-4-31b", "openrouter/free">>
============================================================================
