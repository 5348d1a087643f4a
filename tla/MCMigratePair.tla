--------------------------- MODULE MCMigratePair ---------------------------
(* MigratePair on a small instance.                                        *)
EXTENDS MigratePair, TLC

Symmetry == Permutations(Ids)
=============================================================================
