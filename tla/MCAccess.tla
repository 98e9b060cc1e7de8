------------------------------ MODULE MCAccess ------------------------------
(* Small instances of Access for TLC. *)
EXTENDS Access, TLC

CONSTANTS t1, t2, s1, s2, r1, r2

TwoTokens == {t1, t2}
TwoStates == {s1, s2}
TwoRequests == {r1, r2}
=============================================================================
