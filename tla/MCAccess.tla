------------------------------ MODULE MCAccess ------------------------------
(* Instances of Access for TLC.  Users, groups, endpoints and workers are  *)
(* interchangeable.                                                        *)
EXTENDS Access, TLC

Symmetry == Permutations(Users) \cup Permutations(Groups)
                \cup Permutations(Endpoints) \cup Permutations(Workers)

=============================================================================
