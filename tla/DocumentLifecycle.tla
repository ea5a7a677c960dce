-------------------------- MODULE DocumentLifecycle --------------------------
(***************************************************************************)
(* What a user may rely on: a document is listed only once its PDF is kept *)
(* for good, its text is found only while it is listed, it stays listed    *)
(* and found until somebody deletes it, and it never comes back.           *)
(***************************************************************************)
CONSTANT Docs

VARIABLES
    kept,      \* documents whose PDF can be downloaded
    listed,    \* documents a user sees
    found,     \* documents whose chunks a question may be answered from
    gone       \* documents that were deleted

vars == <<kept, listed, found, gone>>

\* Some documents are older than the present processes.
Init ==
    /\ kept \subseteq Docs
    /\ listed \subseteq kept
    /\ found = {} /\ gone = {}

Keep(d) ==
    /\ kept' = kept \cup {d}
    /\ UNCHANGED <<listed, found, gone>>

List(d) ==
    /\ d \in kept \ gone
    /\ listed' = listed \cup {d}
    /\ UNCHANGED <<kept, found, gone>>

Find(d) ==
    /\ d \in listed
    /\ found' = found \cup {d}
    /\ UNCHANGED <<kept, listed, gone>>

\* The row and all chunks go at once, the PDF stays.
Delete(d) ==
    /\ d \in listed
    /\ listed' = listed \ {d}
    /\ found' = found \ {d}
    /\ gone' = gone \cup {d}
    /\ UNCHANGED kept

Next == \E d \in Docs : Keep(d) \/ List(d) \/ Find(d) \/ Delete(d)

Spec == Init /\ [][Next]_vars
============================================================================
