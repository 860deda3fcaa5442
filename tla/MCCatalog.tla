------------------------------ MODULE MCCatalog ------------------------------
(* Instances of Catalog for TLC.  Identifiers, names and workers are       *)
(* interchangeable.                                                        *)
EXTENDS Catalog, TLC

Symmetry == Permutations(Tables) \cup Permutations(Columns)
                \cup Permutations(Workers) \cup Permutations(Names)

=============================================================================
