----------------------------- MODULE MCMigrate -----------------------------
(* Migrate on small instances.                                             *)
EXTENDS MigrateRefines, TLC

\* Identities are interchangeable.
Symmetry == Permutations(Ids)

\* No networks/ dir was there before: they come with the first run or the first client.  The
\* legacy home has the passphrase and the safe file, or neither.
FreshInit ==
    /\ Init
    /\ anchored = {}
    /\ \A i \in Ids : <<"pass", i>> \in known <=> <<"safe", i>> \in known

FreshSpec == FreshInit /\ [][Next]_vars
=============================================================================
