---------------------------- MODULE MCColumnTypes -----------------------------
(* A small instance of ColumnTypes: two types that share a MariaDB type and*)
(* one that does not and lacks an operator.                                *)
EXTENDS ColumnTypes, TLC

CONSTANTS text, user, intNumber, varchar, int, like, equal

SqlTypeOf == [t \in {text, user, intNumber} |-> IF t = intNumber THEN int ELSE varchar]
FitsOf == [t \in {text, user, intNumber} |->
              IF t = intNumber THEN {equal} ELSE {like, equal}]
Symmetry == Permutations(Workers) \cup Permutations(Records)

=============================================================================
