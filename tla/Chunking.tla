------------------------------ MODULE Chunking ------------------------------
(***************************************************************************)
(* How the text of a page is cut into overlapping chunks                   *)
(* (DocumentService._split_text), and what holds for a text of any length. *)
(* Of a text only its length matters, after runs of white space have       *)
(* become single spaces.                                                   *)
(***************************************************************************)
EXTENDS Naturals, TLAPS

\* The defaults; every call uses them.
ChunkSize == 1000
Overlap   == 200
Stride    == ChunkSize - Overlap

\* How many turns the loop `while start < len(cleaned)` takes.
Turns(n) == (n + Stride - 1) \div Stride

\* The chunk of turn k is cleaned[from : to].
SplitText(n) == [k \in 1 .. Turns(n) |->
    LET start == (k - 1) * Stride
    IN  [from |-> start, to |-> IF start + ChunkSize < n THEN start + ChunkSize ELSE n]]

Size(window) == window.to - window.from

----------------------------------------------------------------------------
LEMMA WindowIs ==
    ASSUME NEW n \in Nat, NEW k \in 1 .. Turns(n)
    PROVE  /\ SplitText(n)[k].from = (k - 1) * 800
           /\ SplitText(n)[k].to = IF (k - 1) * 800 + 1000 < n THEN (k - 1) * 800 + 1000 ELSE n
  BY DEF SplitText, Stride, ChunkSize, Overlap

LEMMA TurnsIs ==
    ASSUME NEW n \in Nat
    PROVE  /\ Turns(n) \in Nat
           /\ \A k \in Nat \ {0} : k \in 1 .. Turns(n) <=> (k - 1) * 800 < n
  BY DEF Turns, Stride, ChunkSize, Overlap

\* Every character of a page is in some chunk.
THEOREM NothingIsSkipped ==
    ASSUME NEW n \in Nat, NEW p \in 0 .. n - 1
    PROVE  \E k \in 1 .. Turns(n) : SplitText(n)[k].from <= p /\ p < SplitText(n)[k].to
  <1> DEFINE k == p \div 800 + 1
  <1>1. /\ k \in Nat \ {0}
        /\ (k - 1) * 800 <= p /\ p < (k - 1) * 800 + 800
    OBVIOUS
  <1>2. k \in 1 .. Turns(n)
    BY <1>1, TurnsIs
  <1>3. SplitText(n)[k].from <= p /\ p < SplitText(n)[k].to
    BY <1>1, <1>2, WindowIs
  <1>4. QED
    BY <1>2, <1>3

\* No chunk is empty, and none is longer than ChunkSize.
THEOREM SizesAreBounded ==
    ASSUME NEW n \in Nat, NEW k \in 1 .. Turns(n)
    PROVE  Size(SplitText(n)[k]) \in 1 .. ChunkSize
  <1>1. (k - 1) * 800 < n /\ k \in Nat \ {0}
    BY TurnsIs
  <1> DEFINE start == (k - 1) * 800
  <1>2. start \in Nat /\ start < n
    BY <1>1
  <1>3. /\ SplitText(n)[k].from = start
        /\ SplitText(n)[k].to = IF start + 1000 < n THEN start + 1000 ELSE n
    BY WindowIs
  <1> HIDE DEF start
  <1>4. SplitText(n)[k].to - SplitText(n)[k].from \in 1 .. 1000
    BY <1>2, <1>3
  <1>5. QED
    BY <1>4 DEF Size, ChunkSize

\* A chunk may lie within the one before it, but only the last chunk of a page
\* may, and then it repeats no more than Overlap characters.
THEOREM OnlyTheTailRepeats ==
    ASSUME NEW n \in Nat, NEW k \in 2 .. Turns(n),
           SplitText(n)[k].to <= SplitText(n)[k - 1].to
    PROVE  k = Turns(n) /\ Size(SplitText(n)[k]) <= Overlap
  <1>1. /\ k \in Nat \ {0} /\ k - 1 \in 1 .. Turns(n) /\ k \in 1 .. Turns(n)
        /\ (k - 1) * 800 < n
    BY TurnsIs
  <1>2. SplitText(n)[k].from = (k - 1) * 800 /\ SplitText(n)[k - 1].from = (k - 2) * 800
    BY <1>1, WindowIs
  <1>3. n <= (k - 1) * 800 + 200 /\ SplitText(n)[k].to = n
    BY <1>1, WindowIs
  <1>4. ~ (k + 1 \in 1 .. Turns(n))
    BY <1>1, <1>3, TurnsIs
  <1>5. k = Turns(n)
    BY <1>1, <1>4, TurnsIs
  <1>6. QED
    BY <1>2, <1>3, <1>5 DEF Size, Overlap
============================================================================
