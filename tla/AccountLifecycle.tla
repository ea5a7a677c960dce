-------------------------- MODULE AccountLifecycle --------------------------
(***************************************************************************)
(* What a user may rely on: an account is open to its owner only after     *)
(* somebody has shown that its address is theirs, it stays open until it   *)
(* is deleted, a deleted account never comes back, and only an open one is *)
(* signed in to.  The answer to a registration is weaker: it may admit to  *)
(* an account that was open and has been deleted since.                    *)
(***************************************************************************)
CONSTANT Accounts

VARIABLES
    fresh,         \* accounts that may still be made
    waiting,       \* accounts whose address has to be confirmed
    open,          \* accounts their owners can use
    confirmed,     \* accounts whose address is known to be their owner's
    entered,       \* accounts that have been signed in to
    admitted       \* accounts whose registration was answered with an access token

vars == <<fresh, waiting, open, confirmed, entered, admitted>>

Apart ==
    /\ fresh \cup waiting \cup open \subseteq Accounts
    /\ fresh \cap (waiting \cup open) = {}
    /\ waiting \cap open = {}

\* Some accounts are older than the present release, and trusted.
Init ==
    /\ Apart
    /\ confirmed = waiting \cup open
    /\ entered = {}
    /\ admitted = {}

\* Accounts are made from fresh ones; a deleted account is none of them.
Make ==
    /\ fresh' \subseteq fresh
    /\ waiting' \cup open' \subseteq waiting \cup open \cup (fresh \ fresh')

Confirm ==
    /\ confirmed \subseteq confirmed'
    /\ confirmed' \ confirmed \subseteq waiting' \cup open'

\* One step may open all accounts: the migration does.
Open ==
    /\ open' \ open \subseteq confirmed'
    /\ open \cap waiting' = {}

Enter ==
    /\ entered \subseteq entered'
    /\ entered' \ entered \subseteq open \cap open'

\* Never while the address waits for its confirmation.
Admit ==
    /\ admitted \subseteq admitted'
    /\ admitted' \ admitted \subseteq confirmed \ (fresh \cup waiting)

Next == Apart' /\ Make /\ Confirm /\ Open /\ Enter /\ Admit

Spec == Init /\ [][Next]_vars
============================================================================
