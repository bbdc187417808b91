--------------------------- MODULE MCBlockStorage ---------------------------
(* Two projects and a few things of Cinder's, for TLC.                     *)
EXTENDS BlockStorage, TLC

CONSTANT MaxThings  \* bound: how many ids are given in all

Given(store) == {x \in DOMAIN store : store[x] # NotMade}

FewThings ==
    Cardinality(Given(volume)) + Cardinality(Given(snapshot)) + Cardinality(Given(backup))
        + Cardinality(Given(transfer)) + Cardinality(Given(group))
        + Cardinality(Given(groupSnapshot)) <= MaxThings

Symmetry == Permutations(Project) \cup Permutations(Volume) \cup Permutations(Label)
=============================================================================
