------------------------- MODULE MCServerLifecycle -------------------------
(* Instances of ServerLifecycle for TLC.                                   *)
EXTENDS ServerLifecycle, TLC

Symmetry == Permutations(Client)
============================================================================
