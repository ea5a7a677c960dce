--------------------------- MODULE EmailLifecycle ---------------------------
(***************************************************************************)
(* What the outbox promises of each stored e-mail, as models/email_outbox.py *)
(* words it: it is pending until it is delivered or its attempts are used   *)
(* up, every failed attempt is counted once, and only an e-mail whose story *)
(* is over is ever removed.                                                 *)
(***************************************************************************)
EXTENDS Naturals

CONSTANTS Emails, Limit     \* Limit[e]: attempts the scheduler makes for e

VARIABLES stage, tries

vars == <<stage, tries>>

Stages == {"none", "pending", "sent", "failed", "removed"}

Init == stage = [e \in Emails |-> "none"] /\ tries = [e \in Emails |-> 0]

Moves(e, from, to) == stage[e] = from /\ stage'[e] = to

Store(e)  == Moves(e, "none", "pending") /\ tries'[e] = 0
Retry(e)  == Moves(e, "pending", "pending") /\ tries'[e] = tries[e] + 1 /\ tries'[e] < Limit[e]
Send(e)   == Moves(e, "pending", "sent") /\ tries'[e] = tries[e]
GiveUp(e) == Moves(e, "pending", "failed") /\ tries'[e] = tries[e] + 1 /\ tries'[e] <= Limit[e]
Remove(e) == (Moves(e, "sent", "removed") \/ Moves(e, "failed", "removed")) /\ tries'[e] = 0
Stay(e)   == stage'[e] = stage[e] /\ tries'[e] = tries[e]

\* One commit of the scheduler settles a whole batch.
Next ==
    /\ stage' \in [Emails -> Stages]
    /\ tries' \in [Emails -> Nat]
    /\ \A e \in Emails : \/ Store(e) \/ Retry(e) \/ Send(e)
                         \/ GiveUp(e) \/ Remove(e) \/ Stay(e)

Spec == Init /\ [][Next]_vars
============================================================================
