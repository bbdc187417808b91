---------------------------- MODULE MCScenarios -----------------------------
(* Some of the scenarios that come with the program, and one of a user's,  *)
(* for TLC.                                                                *)
EXTENDS ScenarioCatalogue

CONSTANTS MaxOwn,       \* bound: scenarios made or changed by a user, at a time
          MaxEnabled    \* bound: scenarios enabled together

MCShipped == [i \in Builtin |-> BuiltinScenarios[i]]

MCShippedOrder == <<"nova_oom_crash", "neutron_slow">>

MCLoaded == {AllServices}
MCLoadLevelId == [t \in Loaded |-> "load_level_all"]

\* None, one that delays and may time out, and what only the page takes.
MCLevel == {-1, 0, 100, 200}

\* The presets, of the scenarios looked at.
MCPreset == {PresetConfigs[p] \cap Builtin : p \in DOMAIN PresetConfigs}

\* A profile that slows creations down, and times out.
MCProfile ==
    {[delays |-> Always, timeouts |-> Sometimes, operations |-> {"create"}, gradual |-> TRUE]}

MCFailure == {[fails |-> Sometimes, operations |-> {"create"}, resources |-> Resource]}

Symmetry == Permutations(Request)

Own ==
    {i \in Id : Registered(i) /\ (i \in CustomId \/ scenario[i].profile # Shipped[i].profile
                                     \/ scenario[i].failure # Shipped[i].failure)}

Bounded ==
    /\ Cardinality(Own) <= MaxOwn
    /\ Cardinality({i \in Id : Registered(i) /\ scenario[i].enabled}) <= MaxEnabled
=============================================================================
