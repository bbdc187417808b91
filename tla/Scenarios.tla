----------------------------- MODULE Scenarios ------------------------------
(***************************************************************************)
(* Failures and delays on demand: the scenario manager every service's     *)
(* middleware asks before it handles a request, and the requests by which  *)
(* scenarios are enabled, disabled, reset, made and deleted meanwhile.     *)
(*                                                                         *)
(* A request is decided on and counted in one go; when it is to be late,   *)
(* it then sleeps, and anything may happen before it wakes.                *)
(***************************************************************************)
EXTENDS Integers, FiniteSets, Sequences

CONSTANTS
    Service,        \* nova, neutron, ...
    AllServices,    \* in place of a service: the scenario is for each of them
    Method,         \* of HTTP
    Resource,       \* what a path may be about
    Request,        \* the requests ever made
    Builtin,        \* the ids of the scenarios that come with the program
    Shipped,        \* and what each of them is
    ShippedOrder,   \* in the order of their list
    CustomId,       \* the ids users may give
    Loaded,         \* the services, or all, that load levels are set for
    LoadLevelId,    \* the id of the scenario that stands for such a level
    Level,          \* load levels asked for
    Profile,        \* load profiles a user may give
    Failure,        \* failure configurations a user may give
    Preset,         \* the sets of scenarios that are enabled together
    Absent          \* no such scenario

Operation == {"create", "read", "update", "delete"}

\* The methods that services answer.
OperationOf ==
    [GET |-> "read", HEAD |-> "read", OPTIONS |-> "read", POST |-> "create",
     PUT |-> "update", PATCH |-> "update", DELETE |-> "delete"]

\* What a random draw can come to.
Never == {FALSE}
Sometimes == BOOLEAN
Always == {TRUE}
Draw == {Never, Sometimes, Always}

\* A load profile: does it delay, does it time out, for which operations, and
\* does it get worse with time?
LoadProfile == [delays : Draw, timeouts : Draw, operations : SUBSET Operation,
                gradual : BOOLEAN]

FailureConfig == [fails : Draw, operations : SUBSET Operation, resources : SUBSET Resource]

Target == Service \cup {AllServices}

\* slow: the failure type is slow_response.  started: the degradation has its
\* started_at.
Scenario == [target : Target, slow : BOOLEAN, profile : LoadProfile,
             failure : FailureConfig, builtin : BOOLEAN, enabled : BOOLEAN,
             started : BOOLEAN]

NewScenario(target, slow, profile, failure, builtin) ==
    [target |-> target, slow |-> slow, profile |-> profile, failure |-> failure,
     builtin |-> builtin, enabled |-> FALSE, started |-> FALSE]

Id == Builtin \cup CustomId

ASSUME ScenariosAssumption ==
    /\ AllServices \notin Service
    /\ IsFiniteSet(Request)
    /\ Profile \subseteq LoadProfile
    /\ Failure \subseteq FailureConfig
    /\ Absent \notin Scenario
    /\ Level \subseteq Int
    /\ Builtin \cap CustomId = {}
    /\ Loaded \subseteq Target
    /\ LoadLevelId \in [Loaded -> CustomId]
    /\ Preset \subseteq SUBSET Builtin
    /\ Shipped \in [Builtin -> Scenario]
    /\ ShippedOrder \in Seq(Builtin)
    /\ \A i \in Builtin : \E n \in DOMAIN ShippedOrder : ShippedOrder[n] = i
    /\ \A m, n \in DOMAIN ShippedOrder : ShippedOrder[m] = ShippedOrder[n] => m = n
    /\ Method \subseteq DOMAIN OperationOf
    /\ \A i \in Builtin : Shipped[i].builtin /\ ~Shipped[i].enabled /\ ~Shipped[i].started

VARIABLES
    scenario,   \* _scenarios
    order,      \* the order of its keys
    stats,      \* what each scenario has counted
    total,      \* _global_stats
    request,    \* what became of each request
    counted,    \* history: the requests since the last reset
    misfired    \* history: scenarios enabled by a request that failed, only

manager == <<scenario, order, stats, total>>
scenariosVars == <<scenario, order, stats, total, request, counted, misfired>>

\* Of the statistics, the milliseconds and the time of the last are left out.
Stats == [triggered : Nat, failures : Nat, timeouts : Nat]
NoStats == [triggered |-> 0, failures |-> 0, timeouts |-> 0]

Bit(b) == IF b THEN 1 ELSE 0

Count(s, trigger, failure, timeout) ==
    [triggered |-> s.triggered + Bit(trigger), failures |-> s.failures + Bit(failure),
     timeouts |-> s.timeouts + Bit(timeout)]

\* A request that sleeps is delayed or timing out; names are those of the
\* X-Scenario-Injection header.
RequestState == {"new", "asleep", "failed", "timed out", "handled"}
RequestRecord == [state : RequestState, delayed : BOOLEAN, timeout : BOOLEAN,
                  names : SUBSET Id]
NewRequest(state, delayed, timeout, names) ==
    [state |-> state, delayed |-> delayed, timeout |-> timeout, names |-> names]
Unsent == NewRequest("new", FALSE, FALSE, {})

ScenariosInit ==
    /\ scenario = [i \in Id |-> IF i \in Builtin THEN Shipped[i] ELSE Absent]
    /\ order = ShippedOrder
    /\ stats = [i \in Id |-> NoStats]
    /\ total = NoStats
    /\ request = [r \in Request |-> Unsent]
    /\ counted = {}
    /\ misfired = {}

(***************************************************************************)
(* The manager's operations.                                               *)
(***************************************************************************)

Registered(i) == scenario[i] # Absent

With(s, profile, failure, enabled, started) ==
    [target |-> s.target, slow |-> s.slow, profile |-> profile, failure |-> failure,
     builtin |-> s.builtin, enabled |-> enabled, started |-> started]

\* What a profile given in place of the scenario's does: a new degradation.
WithProfile(s, profile) == With(s, profile, s.failure, s.enabled, FALSE)
WithFailure(s, failure) == With(s, s.profile, failure, s.enabled, s.started)

\* An enabled scenario that degrades starts to, or starts over.
WithEnabled(s) == With(s, s.profile, s.failure, TRUE, s.started \/ s.profile.gradual)

\* Mutant: the degradation goes on from where it was.
WithDisabledOnly(s) == With(s, s.profile, s.failure, FALSE, s.started)

WithDisabled(s) == With(s, s.profile, s.failure, FALSE, FALSE)

AfterReset(enabled) ==
    [i \in Id |->
        IF ~Registered(i) THEN Absent
        ELSE IF i \in enabled THEN WithEnabled(WithDisabled(scenario[i]))
        ELSE WithDisabled(scenario[i])]

\* reset, and the scenarios that are enabled at once after it.
Reset(enabled) ==
    /\ scenario' = AfterReset(enabled)
    /\ stats' = [i \in Id |-> NoStats]
    /\ total' = NoStats
    /\ counted' = {}
    /\ misfired' = {}
    /\ UNCHANGED <<order, request>>

Enable(i, profiles, failures) ==
    /\ Registered(i)
    /\ \E s \in {scenario[i]} \cup {WithProfile(scenario[i], p) : p \in profiles} :
          \E f \in {s.failure} \cup failures :
              scenario' = [scenario EXCEPT ![i] = WithEnabled(WithFailure(s, f))]
    /\ misfired' = misfired \ {i}
    /\ UNCHANGED <<order, stats, total, request, counted>>

\* Overrides with a distribution there is not: the scenario is enabled by then,
\* and stays it; nothing else is done.
EnableFails(i) ==
    /\ Registered(i)
    /\ scenario' = [scenario EXCEPT ![i] = With(@, @.profile, @.failure, TRUE, @.started)]
    /\ misfired' = IF scenario[i].enabled THEN misfired ELSE misfired \cup {i}
    /\ UNCHANGED <<order, stats, total, request, counted>>

Disable(i) ==
    /\ Registered(i)
    /\ scenario' = [scenario EXCEPT ![i] = WithDisabled(scenario[i])]
    /\ misfired' = misfired \ {i}
    /\ UNCHANGED <<order, stats, total, request, counted>>

\* The list without the id, if it is there: it is there once.
Without(o, i) ==
    IF \E n \in DOMAIN o : o[n] = i
    THEN LET n == CHOOSE m \in DOMAIN o : o[m] = i
         IN  [m \in 1..Len(o) - 1 |-> IF m < n THEN o[m] ELSE o[m + 1]]
    ELSE o

\* Mutant: an id that was there is listed again.
RegisterTwice(i, s) ==
    /\ scenario' = [scenario EXCEPT ![i] = s]
    /\ order' = Append(order, i)
    /\ stats' = [stats EXCEPT ![i] = NoStats]
    /\ misfired' = misfired \ {i}
    /\ UNCHANGED <<total, request, counted>>

\* register_scenario, of an id that is new or was unregistered just before.
Register(i, s) ==
    /\ scenario' = [scenario EXCEPT ![i] = s]
    /\ order' = Append(Without(order, i), i)
    /\ stats' = [stats EXCEPT ![i] = NoStats]
    /\ misfired' = misfired \ {i}
    /\ UNCHANGED <<total, request, counted>>

Unregister(i) ==
    /\ scenario' = [scenario EXCEPT ![i] = Absent]
    /\ order' = Without(order, i)
    /\ stats' = [stats EXCEPT ![i] = NoStats]
    /\ misfired' = misfired \ {i}
    /\ UNCHANGED <<total, request, counted>>

(***************************************************************************)
(* The requests of the Scenarios API and of the status page.               *)
(***************************************************************************)

\* With overrides, or without.
EnableScenario == \E i \in Id : Enable(i, Profile, Failure) \/ EnableFails(i)

DisableScenario == \E i \in Id : Disable(i)

ResetAllScenarios == Reset({})

CreateCustomScenario ==
    \E i \in Id, t \in Target, slow \in BOOLEAN, profile \in Profile, failure \in Failure :
        /\ ~Registered(i)
        /\ Register(i, NewScenario(t, slow, profile, failure, FALSE))

DeleteCustomScenario ==
    \E i \in Id :
        /\ Registered(i)
        /\ ~scenario[i].builtin
        /\ Unregister(i)

ApplyPreset == \E p \in Preset : Reset(p)

AnyFailure == [fails |-> Always, operations |-> Operation, resources |-> Resource]

\* 20 to 100 milliseconds for each percent; timeouts from 81 percent on, and
\* all the time from 180 on.
LoadLevelProfile(level) ==
    [delays |-> IF level > 0 THEN Always ELSE Never,
     timeouts |-> IF level >= 180 THEN Always ELSE IF level > 80 THEN Sometimes ELSE Never,
     operations |-> Operation, gradual |-> FALSE]

\* No load: what stands for the level is disabled, if it is there.  Else it is
\* made anew, with nothing counted.
SetLoadLevel(loaded, levels) ==
    \E t \in loaded, level \in levels :
        \/ /\ level = 0
           /\ Disable(LoadLevelId[t])
        \/ /\ level # 0
           /\ Register(LoadLevelId[t], WithEnabled(
                  NewScenario(t, TRUE, LoadLevelProfile(level), AnyFailure, FALSE)))

ScenariosApi ==
    \/ EnableScenario
    \/ DisableScenario
    \/ ResetAllScenarios
    \/ CreateCustomScenario
    \/ DeleteCustomScenario
    \/ ApplyPreset
    \/ SetLoadLevel(Loaded, Level \cap 0..100)

\* The page takes any number for a level, and sets it for all services.
StatusPage ==
    \/ \E i \in Id : Enable(i, {}, {})
    \/ DisableScenario
    \/ ResetAllScenarios
    \/ ApplyPreset
    \/ SetLoadLevel(Loaded \cap {AllServices}, Level)

(***************************************************************************)
(* A request to a service.                                                 *)
(***************************************************************************)

\* Mutant: a scenario for all services is for none.
ActiveOfService(service) ==
    {i \in Id : Registered(i) /\ scenario[i].enabled /\ scenario[i].target = service}

Active(service) ==
    {i \in Id : /\ Registered(i)
                /\ scenario[i].enabled
                /\ scenario[i].target \in {AllServices, service}}

\* The active scenarios that may fail a request for the operation and resource.
Failing(service, operation, resource) ==
    {i \in Active(service) :
        /\ ~scenario[i].slow
        /\ operation \in scenario[i].failure.operations
        /\ resource \in scenario[i].failure.resources}

Slowing(service, operation) ==
    {i \in Active(service) : scenario[i].slow /\ operation \in scenario[i].profile.operations}

Before(i, j) == \E m, n \in DOMAIN order : order[m] = i /\ order[n] = j /\ m < n

\* The first whose draw says so fails the request.
ShouldFail(r, failing) ==
    \E i \in failing :
        /\ TRUE \in scenario[i].failure.fails
        /\ \A j \in failing : Before(j, i) => FALSE \in scenario[j].failure.fails
        /\ stats' = [stats EXCEPT ![i] = Count(@, TRUE, TRUE, FALSE)]
        /\ total' = Count(total, TRUE, TRUE, FALSE)
        /\ request' = [request EXCEPT ![r] = NewRequest("failed", FALSE, FALSE, {i})]

\* The scenarios whose draw, the one named, comes to TRUE.
Drawn(S, draw) ==
    {T \in SUBSET S : /\ \A i \in T : TRUE \in draw[i]
                      /\ \A i \in S \ T : FALSE \in draw[i]}

\* Mutant: a request that is timing out is not a delayed one.
CountedDelay(late, timedOut) ==
    Count(total, late # {} /\ timedOut = {}, FALSE, timedOut # {})

\* What calculate_delay adds to the totals.
CountDelay(late, timedOut) == Count(total, late # {}, FALSE, timedOut # {})

\* No draw fails the request.  It is delayed by the scenarios that slow the
\* operation down; any active one may time it out, whatever the operation.
\* Timeouts of scenarios that are not slow are in the totals only.
CalculateDelay(r, failing, active, slowing) ==
    /\ \A i \in failing : FALSE \in scenario[i].failure.fails
    /\ \E late \in Drawn(slowing, [i \in slowing |-> scenario[i].profile.delays]),
          timedOut \in Drawn(active, [i \in active |-> scenario[i].profile.timeouts]) :
           /\ stats' = [i \in Id |->
                  Count(stats[i], i \in late, FALSE,
                        i \in timedOut /\ Registered(i) /\ scenario[i].slow)]
           /\ total' = CountDelay(late, timedOut)
           /\ request' = [request EXCEPT ![r] =
                  NewRequest(IF late = {} /\ timedOut = {} THEN "handled" ELSE "asleep",
                             late # {}, timedOut # {},
                             late \cup {i \in timedOut : ~scenario[i].slow})]

Dispatch(r, service, operation, resource) ==
    /\ request[r].state = "new"
    /\ LET failing == Failing(service, operation, resource)
       IN  \/ ShouldFail(r, failing)
           \/ CalculateDelay(r, failing, Active(service), Slowing(service, operation))
    /\ counted' = counted \cup {r}
    /\ UNCHANGED <<scenario, order, misfired>>

\* /health, /healthcheck and /scenarios are not asked about.
DispatchExcluded(r) ==
    /\ request[r].state = "new"
    /\ request' = [request EXCEPT ![r] = NewRequest("handled", FALSE, FALSE, {})]
    /\ UNCHANGED <<manager, counted, misfired>>

\* The delay is over: 504, or the handler runs.
Wake(r) ==
    /\ request[r].state = "asleep"
    /\ request' = [request EXCEPT ![r] =
           NewRequest(IF request[r].timeout THEN "timed out" ELSE "handled",
                      request[r].delayed, request[r].timeout, request[r].names)]
    /\ UNCHANGED <<manager, counted, misfired>>

Traffic ==
    \E r \in Request :
        \/ \E service \in Service, method \in Method, resource \in Resource :
               Dispatch(r, service, OperationOf[method], resource)
        \/ DispatchExcluded(r)
        \/ Wake(r)

ScenariosNext == ScenariosApi \/ StatusPage \/ Traffic

ScenariosSpec == ScenariosInit /\ [][ScenariosNext]_scenariosVars

(***************************************************************************)
(* Properties.                                                             *)
(***************************************************************************)

\* The manager's dictionary, the statistics and the requests are what they are
\* declared to be, and the order lists each key once.
ScenariosTypeOK ==
    /\ scenario \in [Id -> Scenario \cup {Absent}]
    /\ order \in Seq(Id)
    /\ {order[n] : n \in DOMAIN order} = {i \in Id : Registered(i)}
    /\ \A m, n \in DOMAIN order : order[m] = order[n] => m = n
    /\ stats \in [Id -> Stats]
    /\ total \in Stats
    /\ request \in [Request -> RequestRecord]
    /\ counted \subseteq Request
    /\ misfired \subseteq Id

\* A degradation has a start exactly while its scenario is enabled, whatever is
\* overridden, disabled, reset or applied as a preset in between
\* (enable_scenario, disable_scenario, reset); but for a scenario that only a
\* failed request enabled, which has none until another enables it.
DegradationTimed ==
    \A i \in Id : Registered(i) =>
        (scenario[i].started <=> /\ scenario[i].enabled
                                 /\ scenario[i].profile.gradual
                                 /\ i \notin misfired)

\* "Start gradual degradation timer if enabled" (enable_scenario), without that
\* exception.  The code does not keep it: see README, "Where the code departs".
EnabledDegradationTimed ==
    \A i \in Id : Registered(i) /\ scenario[i].enabled /\ scenario[i].profile.gradual =>
        scenario[i].started

FailedNow == {r \in counted : request[r].state = "failed"}
TimedOutNow == {r \in counted : request[r].timeout}
InjectedNow == FailedNow \cup {r \in counted : request[r].delayed}

\* The totals count every request injected into since the last reset, also
\* those still asleep, and no other; and no scenario has counted more than the
\* totals (calculate_delay, should_fail, reset).
TotalsAddUp ==
    /\ total.failures = Cardinality(FailedNow)
    /\ total.timeouts = Cardinality(TimedOutNow)
    /\ total.triggered = Cardinality(InjectedNow)
    /\ \A i \in Id : /\ stats[i].failures <= total.failures
                     /\ stats[i].timeouts <= total.timeouts
                     /\ stats[i].triggered <= total.triggered

\* The enabled scenarios for a service, and those of them that are sure to act
\* on any request.
EnabledFor(service) ==
    {i \in Id : /\ Registered(i) /\ scenario[i].enabled
                /\ scenario[i].target \in {AllServices, service}}

Sure(i) ==
    \/ /\ ~scenario[i].slow
       /\ scenario[i].failure = AnyFailure
    \/ /\ scenario[i].slow
       /\ scenario[i].profile.delays = Always
       /\ scenario[i].profile.operations = Operation

\* "Enabling a scenario takes effect on the very next request", and scenarios
\* only affect their target_service (docs/scenarios.md): a request is handled
\* at once only if no scenario was sure to fail or delay it, and otherwise only
\* if there was one to do it.
NextRequestObeys ==
    [][\A r \in Request : request'[r] # request[r] =>
          \A service \in Service, operation \in Operation, resource \in Resource :
              Dispatch(r, service, operation, resource) =>
                  IF request'[r].state = "handled"
                  THEN \A i \in EnabledFor(service) : ~Sure(i)
                  ELSE EnabledFor(service) # {}]_scenariosVars

\* "Injected responses are identifiable: X-Scenario-Injection - the scenario id
\* that fired" (docs/scenarios.md): an injected answer names a scenario.
\* The code does not keep it: see README, "Where the code departs".
InjectionsNamed ==
    \A r \in Request : request[r].state \in {"failed", "timed out"} => request[r].names # {}
=============================================================================
