----------------------------- MODULE MCCatalog -----------------------------
(* Instances of Catalog for TLC.                                            *)
EXTENDS Catalog, TLC

CONSTANTS first, second, other

\* Artifact 1 is a filesystem import, which has been made under two names: `first` and
\* `second` have the same files.  Artifact 2 is published by the server.
MCContentsOf == [a \in {1, 2} |-> IF a = 1 THEN {first, second} ELSE {other}]
MCDigestOf   == [c \in {first, second, other} |-> IF c = other THEN 2 ELSE 1]

ImporterSymmetry == Permutations(Importers)
=============================================================================
