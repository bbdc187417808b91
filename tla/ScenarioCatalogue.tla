------------------------- MODULE ScenarioCatalogue --------------------------
(* The scenarios that come with the program, and its presets.              *)
EXTENDS Scenarios, TLC

Delay(delays, timeouts, gradual) ==
    [delays |-> delays, timeouts |-> timeouts, operations |-> Operation, gradual |-> gradual]

Error(fails, operations) ==
    [fails |-> fails, operations |-> operations, resources |-> Resource]

Slows(target, timeouts, gradual) ==
    NewScenario(target, TRUE, Delay(Always, timeouts, gradual), Error(Always, Operation), TRUE)

Fails(target, fails, operations, profile) ==
    NewScenario(target, FALSE, profile, Error(fails, operations), TRUE)

NoDelay == Delay(Never, Never, FALSE)
OnlyDelay == Delay(Always, Never, FALSE)
Changes == {"create", "update", "delete"}

LoadScenarios ==
    [system_under_load |-> Slows(AllServices, Never, FALSE),
     light_load |-> Slows(AllServices, Never, FALSE),
     heavy_load |-> Slows(AllServices, Never, FALSE),
     system_stressed |-> Slows(AllServices, Sometimes, FALSE),
     gradual_degradation |-> Slows(AllServices, Never, TRUE)]

ServiceScenarios ==
    [nova_oom_crash |-> Fails("nova", Always, Operation, NoDelay),
     keystone_overloaded |-> Fails("keystone", Sometimes, Operation, OnlyDelay),
     glance_unavailable |-> Fails("glance", Always, Operation, NoDelay),
     cinder_disk_full |-> Fails("cinder", Always, {"create"}, NoDelay),
     slow_storage_backend |-> Slows("cinder", Never, FALSE),
     neutron_network_partition |-> Fails("neutron", Sometimes, Operation, NoDelay),
     neutron_slow |-> Slows("neutron", Never, FALSE)]

SystemScenarios ==
    [rabbitmq_unstable |-> Fails(AllServices, Sometimes, Changes, OnlyDelay),
     rabbitmq_down |-> Fails(AllServices, Always, Changes, NoDelay),
     database_connection_lost |-> Fails(AllServices, Always, Operation, NoDelay),
     database_slow |-> Slows(AllServices, Never, FALSE),
     quota_exceeded |-> Fails(AllServices, Always, {"create"}, NoDelay),
     nova_slow |-> Slows("nova", Never, FALSE),
     cinder_slow |-> Slows("cinder", Never, FALSE),
     glance_slow |-> Slows("glance", Never, FALSE),
     cascading_failure |->
         Fails(AllServices, Sometimes, Operation, Delay(Always, Sometimes, FALSE))]

BuiltinScenarios == LoadScenarios @@ ServiceScenarios @@ SystemScenarios

PresetConfigs ==
    [healthy |-> {},
     degraded |-> {"light_load", "database_slow"},
     storage_crisis |-> {"slow_storage_backend", "cinder_disk_full", "cinder_slow"},
     network_trouble |-> {"neutron_network_partition", "neutron_slow"},
     overloaded |-> {"heavy_load", "rabbitmq_unstable", "database_slow"},
     meltdown |->
         {"cascading_failure", "rabbitmq_down", "quota_exceeded", "keystone_overloaded"}]

\* Every preset is made of scenarios there are: one that is not would be left
\* out without a word.
ASSUME PresetsKnown ==
    \A p \in DOMAIN PresetConfigs : PresetConfigs[p] \subseteq DOMAIN BuiltinScenarios
=============================================================================
