------------------------------- MODULE MCViews -------------------------------
(* A small instance of Views: two views, three filters, a column.          *)
EXTENDS Views, TLC

OfFirst == [i \in Items |-> First]
Symmetry == Permutations(Items) \cup Permutations(Workers)

=============================================================================
