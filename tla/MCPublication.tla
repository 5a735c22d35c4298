--------------------------- MODULE MCPublication ---------------------------
(* Small instances of Publication for TLC.                                 *)
EXTENDS Publication, TLC

CONSTANTS r1, r2, v1, v2, noVersion

TwoCalls    == {r1, r2}
TwoVersions == {v1, v2}

AllRisks    == {"routine", "sensitive", "restricted"}
TwoLevels   == {"sensitive"}

Symmetry == Permutations(TwoCalls) \union Permutations(TwoVersions)

=============================================================================
