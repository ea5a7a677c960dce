----------------------------- MODULE MCAccounts -----------------------------
(* Values of the constants of Accounts and StartupMigration for TLC. *)
EXTENDS StartupMigration, TLC

CONSTANTS q1, q2, q3, w1, w2, i1, i2

RequestSymmetry == Permutations(Requests)

Everything == AllOperations

\* Two spellings of one address, and another address.
Typed    == {"Ann", "ann", "bea"}
AsTyped  == [a \in Addresses |-> IF a = "Ann" THEN "ann" ELSE a]
AnyState == {"none", "old", "new"}
OnlyNew  == {"new"}

Forgetful == {"forgot", "reset"}
============================================================================
