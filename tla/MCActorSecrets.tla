--------------------------- MODULE MCActorSecrets ---------------------------
(* Small instances of ActorSecrets for TLC. *)
EXTENDS ActorSecrets, TLC

CONSTANTS a1, i1, i2, i3, r1, r2

OneActor == {a1}
ThreeIds == {i1, i2, i3}
TwoRequests == {r1, r2}

Symmetry == Permutations(ThreeIds) \cup Permutations(TwoRequests)
=============================================================================
