---------------------------- MODULE MCChangeFeed ----------------------------
(* Instances of ChangeFeed for TLC. *)
EXTENDS ChangeFeed

Symmetry == Permutations(Records) \cup Permutations(Writers) \cup Permutations(Polls)

=============================================================================
