----------------------------- MODULE MCFormProxy -----------------------------
(* Instance of FormProxy for TLC: more forms than threads, and a queue they*)
(* can fill.  No symmetry, since liveness is checked.                      *)
EXTENDS FormProxy

=============================================================================
