----------------------------- MODULE MCRecords ------------------------------
(* An instance of Records for TLC: policies concern one user or both and   *)
(* filter on one column, which comes and goes and selects one record for   *)
(* one of them; workers, files and policies are interchangeable.           *)
EXTENDS Records, TLC

CONSTANTS u1, u2, r1, r2, link

MatchingRows == {<<u1, r1, link>>}
OneOrAll == {{u1}, {u1, u2}}
Symmetry == Permutations(Workers) \cup Permutations(Files)
                \cup Permutations(Policies)

=============================================================================
