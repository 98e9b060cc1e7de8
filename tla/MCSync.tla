------------------------------- MODULE MCSync -------------------------------
(* Small instances of Sync for TLC. *)
EXTENDS Sync, TLC

CONSTANTS s1, s2

OneStream == {s1}
TwoStreams == {s1, s2}
=============================================================================
