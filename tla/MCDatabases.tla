---------------------------- MODULE MCDatabases -----------------------------
(* An instance of Databases for TLC: one table in the database there is to *)
(* begin with, a second database to be added, an administrator and a user. *)
EXTENDS Databases, TLC

CONSTANTS u1, u2, d1, d2, t1

HomeOf == [t \in {t1} |-> d1]
RowsOf == [v \in {u1, u2} |-> IF v = u1 THEN 1 ELSE 2]
Symmetry == Permutations(Workers)

=============================================================================
