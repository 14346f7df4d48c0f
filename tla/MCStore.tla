------------------------------ MODULE MCStore ------------------------------
(* Two processes of the program, alike. *)
EXTENDS Store, TLC
CONSTANTS p1, p2
Alike == Permutations({p1, p2})
=============================================================================
