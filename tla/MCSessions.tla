----------------------------- MODULE MCSessions -----------------------------
(* Instances of Sessions for TLC.  Users, identifiers and workers are      *)
(* interchangeable.                                                        *)
EXTENDS Sessions, TLC

Symmetry == Permutations(Users) \cup Permutations(SIDs) \cup Permutations(Workers)

=============================================================================
