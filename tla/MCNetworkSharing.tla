--------------------------- MODULE MCNetworkSharing ---------------------------
(* One network, two projects, two policies, a port and two groups, for TLC. *)
EXTENDS NetworkSharing, TLC

Symmetry ==
    Permutations(Project) \cup Permutations(Policy) \cup Permutations(Group) \cup
    Permutations(Rule)
=============================================================================
