------------------------------ MODULE MCImages ------------------------------
(* One image for TLC: what other images do to it is SaveOfAnother.         *)
EXTENDS Images, TLC

Symmetry == Permutations(Label) \cup Permutations(Project) \cup Permutations(Client)
=============================================================================
