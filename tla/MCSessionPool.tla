---------------------------- MODULE MCSessionPool ----------------------------
(* Values of the constants of SessionPool and Transcription for TLC. *)
EXTENDS SessionPool

CONSTANTS v1, v2, f1, f2, b1, s1
============================================================================
