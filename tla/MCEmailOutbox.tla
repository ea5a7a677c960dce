---------------------------- MODULE MCEmailOutbox ----------------------------
(* Instances of EmailOutbox for TLC. *)
EXTENDS EmailOutbox, TLC

CONSTANTS w1, w2, e1, e2, e3, r1

NoEmails  == {}
AllKinds  == AllFailures
NoReject  == {"timeout", "badCredentials"}
Timeouts  == {"timeout"}

\* Workers are interchangeable.
WorkerSymmetry == Permutations(Workers)
============================================================================
