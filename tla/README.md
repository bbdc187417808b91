# A verification of the OpenStack emulator

The emulator (`emulator/`) answers the REST APIs of a dozen OpenStack services
from one Python process. Every service shares one `Database`
(`core/database.py`): dictionaries of records under one re-entrant lock, and,
with `--auto-save`, a JSON file that is rewritten after (nearly) every change.
This directory holds TLA+ models of the parts of it where the order of events
matters, the TLC runs that check them on small instances, and TLAPS proofs
that the main invariants hold for every instance.

Contents

1. How the program works, and what can go wrong
2. The components
3. The modules and their runs
4. Bounds, symmetry, fairness
5. What is proved
6. Where the code departs
7. What is not modelled
8. How it was built, and what could follow

## 1. How the program works, and what can go wrong

*Concurrency.* All services run as FastAPI applications on one asyncio event
loop. A handler runs without interruption between two `await`s, and most
handlers have none after the body is parsed, so most requests are one atomic
step. The exceptions look a record up, `await request.json()`, and then act:
Nova's `server_action` (`api/nova.py:473`), Cinder's `volume_action`, Glance's
`update_image` (`api/glance.py:242`). Between the two anything else may run. The
middleware that injects delays decides on a request, sleeps, and lets it go on.

*Persistence.* `Database.save()` is called by individual operations, not by
requests, and writes everything. A request that changes several stores saves
several times, and the process may die between two saves. Many operations do
not save at all; what they did is in the file when another one saves.

*Time.* No background thread advances anything. A server's timed task (start,
stop, reboot) is settled by whoever looks at the server next, from the wall
clock (`Server.advance`, `core/models.py`).

*Two sides of one fact.* Services keep their own view: an attachment of a
volume is an entry of Nova's ledger and an entry of Cinder's list; a bound port
is a `device_id` and an entry of Nova's list of interfaces; a gateway is a
field of the router and a port; an image is in Glance's store and in Nova's; a
network for all is a flag and a policy. No transaction spans the two sides.

*Search instead of tables.* Addresses in use are those some port lists; a
user's roles are those some list entry names. Each operation searches in its
own way.

The hazards this leads to are listed, each at its line, in `PROJECT.json`.

## 2. The components

| Component | State it keeps | Operations | Interacts with | Should hold |
|---|---|---|---|---|
| Nova servers | `_servers` (status, power, task, phases, deadline, resize fields), `_flavors` | create, delete, thirteen actions, override, lookups that advance | status page, file, clock | tasks match the status; a resize can be reverted; accepted work survives a restart |
| Volumes and attachments | `_volumes` (status, attachments), `_server_volume_attachments` | attach, detach by either service, boot, delete | both ledgers, file | `in-use` iff attached; one attachment without multiattach; a deleted server leaves none |
| Ports and interfaces | `_ports.device_id`, `_server_network_interfaces` | boot, attach, detach, delete, Neutron's own changes | both sides, file | both sides agree; Nova deletes only what it created |
| Networks and addresses | `_networks`, `_subnets`, `_ports.fixed_ips`, `_routers`, `_floating_ips` | create/update/delete of each, gateways, router interfaces | one another, through searches over ports | no address twice; no dangling subnet, gateway or floating port |
| Security groups, RBAC | `_security_groups`, `_rbac_policies`, `shared`, ports' groups | create, delete, share, retarget, defaults | ports, servers | flag and policies agree; no port names a group that is gone; a revocation spares users of the share |
| Octavia | load balancers, listeners, pools, members, monitors, L7 policies and rules | create/update/delete, cascade | one another, file | parents list what names them; a cascade leaves nothing |
| Keystone | users, groups, projects, domains, roles, assignments, tokens, application credentials | authenticate, rescope, revoke, assign, delete | every service's token check | what is deleted is granted nothing; a session stays its user's |
| Federation, OIDC | codes, keys, providers, protocols, mappings | authorize, exchange, refresh, map, log in | Keystone's accounts and groups | a code is used once; a login is its person's |
| Cinder's other objects | snapshots, backups, transfers, groups | create, delete, restore, accept, extend | volumes, file | sizes fit; deletions last; projects are apart |
| Glance | images, members, Nova's image store | create, PATCH, upload, import, deactivate, share, delete | Nova, file | Nova's copy is Glance's image; a protected image stays |
| Scenarios, middleware | registered scenarios and statistics | enable, disable, register, reset, presets, per-request decision | every request | the next request obeys; totals add up |
| Persistence | the JSON file | save, load | every store | what was answered is not lost; what was deleted stays so |
| Quotas, Swift, QoS, trunks, placement, CloudKitty, presets, status page, access log | records without relations, or none | CRUD, reads | - | - |

`PROJECT.json` lists each with its sources and the reason for its status.

## 3. The modules and their runs

Each component has a module (`X.tla`), an instance for TLC (`MCX.tla`,
`X.cfg`), and its theorems stand in a module of proofs: `XProofs.tla`, or
`KeystoneProofs` for `Identity` and `Federation`, and `ServicesProofs` for
`LoadBalancers`, `BlockStorage` and `Scenarios`. Models that share a module of
proofs prefix the names they would otherwise have in common (`FedNext`,
`CinderRestart`, `ScenariosSpec`). Definitions have
the names of the functions they translate, in TLA+ capitals (`delete_subnet` ->
`DeleteSubnet`); `PROJECT.json` maps each to its lines. An operator with a
comment that begins with "Mutant:" is a wrong variant of the definition it
stands before; no action uses it. Each property is shown to fail when the
definition is replaced by such a variant.

Some properties are stated and proved but not run (section 5), and some are
stated because a document promises them, although the code does not keep them
(section 6): their comments say so.

### ServerLifecycle and ObservedServers

State: `servers[s]` is the record of `Server` reduced to what the rules read;
`elapsed` is `now - task_started_at` in ticks, so that a tick ages every task,
in memory and in the file, and the wall clock itself needs no variable.
`pending[c]` is a request between its lookup and its body. `disk` is the file.

Actions: `CreateServer`, `GetServer`/`ListServers` (lookups advance tasks),
`DeleteServer`, `OverrideServer` (status page), `CreateFlavor`/`DeleteFlavor`,
the action requests (`ReceiveAction`, then `ServerAction`, `ServerResize`,
`ResetServerState`, `CreateServerSnapshot`, `RefuseAction` or `AbandonAction`),
`Tick`, `ClockStepsBack`, `Restart`.

Run `ServerLifecycle`: `TaskCoherent`, `AcceptedTaskIsSaved`,
`ServersSurviveRestart`, `PowerTaskUndisturbed`, `PhasesInOrder`,
`DeadlineStays`, `LookingChangesNothing`, and under fairness `PowerTaskSettles`, `RebootSettles`. Two clients race through the
await; crashes and a clock that steps back: no task is left behind to overwrite
a later status, the phases are shown in order, an accepted task survives the
restart, and whoever waits for a task sees it end (a reboot, unless hard reboots
are requested for ever).

`ObservedServers` is what a client may rely on: each server has a status and a
task (`seen`), a task is on its way (`Ways`) with the clock, and a request is
decided on both; `kept` is what a restart would show. There are no records, no
deadlines and no lookups. `LookingChangesNothing` is the refinement: `seen` is
what `Advance` would make of the record (`Seen`), so that looking is a stutter,
an action is decided on the task as it is *now*, a new task starts at its first
phase, whatever it takes over, and a copy in the file that shows the same as
memory will go on showing the same.

### VolumeAttachments

State: `nova[s]` is the ledger of server `s` (a list, duplicates included),
`cinder[v][s]` counts the attachments of `v` that name `s`, from which
`volume[v].status` follows. `booting` is the server whose boot is attaching its
volumes one by one, each saved: a `Restart` may fall between two of them. The
history variable `direct` remembers which volumes were attached through Cinder
alone; properties exempt them, and the documentation promises nothing for them
but the one thing that fails (section 6).

Run `VolumeAttachments`: `SingleAttach`, `NovaCoversCinder`,
`LeftoversAreDirect`. The two ledgers, changed one after the other by five paths
with refusals in between, stay in step where the code needs them to be.

### ServerPorts

State: `port[p].device`, `interfaces[s]` (with `nova_created`), `request` (the
boot or attach in progress), `disk`. A boot is `BeginBoot`, then `BootPort` or
`BootNetwork` for each network request, then `CompleteBoot` or, when a request
is refused, `RefuseBoot`. `os-interface` is `AttachPort` in one step, or
`AttachNetwork` and `BindCreated` in two. History: a port remembers its `maker`
(a client or Nova), its `owner` (the server for which Nova created *and* bound
it) and how it ended (`deleted` by Neutron, `released` by Nova); `meddled` is the
set of ports whose `device_id` was set through Neutron.

Run `ServerPorts`: `DeletedServerFreesPorts`, `PortsAgreeWithInterfaces`,
`NovaTakesItsOwn`. The two sides of a binding agree at every step and after a
crash at any of them, for the ports that are not `meddled`: of those nobody
promises that they do. `NovaTakesItsOwn` exempts no port: after any sequence of
binds, PUTs that clear or move the device, router interfaces and crashes, Nova
has removed no port but its own, and a server that goes leaves none of the ports
that Nova bound to it at their creation. (Such a port goes with its server also
when a client has freed it and attached it to another: the code goes by
`nova_created` alone.)

### NetworkAddresses

State: the five stores, reduced to what the searches read. An entry of
`fixed_ips` carries one bit that is not in the code, `vetted`: whether the
address was allocated by the emulator or, being named, checked against the
network. Gateways, router interfaces and floating IPs may take a *named*
address without any check; the code does so on purpose (a gateway may be
pinned), so the property speaks of pairs of vetted addresses.

`device_owner` and `device_id` of a port are whatever a POST or PUT on ports says
(`CreatePort`, `UpdatePort`): a client may make a port that passes for a router's
gateway port, or let go of the router's own. Both are in the model, and each
operation on gateways meets such ports (with several, any of them may be the one
that `_get_router_gateway_port` finds first). Two histories tell them apart:
`claimed`, of a port, says that a client said whose it is; `meddled` is the set of
routers and floating IPs for which a client has made, changed or deleted a port
by the port's own requests.

The environment is assumed sane (`NetworkAddressesAssumption`): the ranges of
one network do not overlap, pools lie in their ranges, MAC addresses are
unique. The code checks none of it, and that a walk stays in its subnet's range
(`Walk`) is part of the assumption, not a result. IPv4 allocation walks the last octet of the
first pool only, IPv6 the pool or prefix and MAC: `Walk` and `Allocate` do the
same, with `Octet` as a parameter.

Run `NetworkAddresses`: `AddressesApart`, `GatewayPortsBelong`,
`GatewayReadsBack`. Ports, gateways, router interfaces and floating IPs compete
for a pool of two addresses, and come and go in every order, while a client
claims a port as gateway port. `GatewayPortsBelong` is about the ports that no
client claimed, with claimed ones around; `GatewayReadsBack` about the routers
whose ports no client touched.

### NetworkSharing

Who sees a network, and which security groups ports name. State: networks with
their `shared` and `external` flags, RBAC policies, ports, groups with the rules
they list, rules with the group they name. Three history variables say what
nobody promised: `flagged` (a client set the flag since), `sighted` (the
port's project saw the network and was not cut off on purpose), `dangling`
(a client named a group that was not there).

Run `NetworkSharing`: `FlagFollowsPolicies`, `PortsKeepSight`,
`GroupsOfPortsExist`. Two policies on one network come, go and change their
target while two projects' ports and groups do the same.

### LoadBalancers

State: one function per dictionary (`balancer`, `listener`, `pool`, `member`,
`monitor`, `policy`, `rule`) and the VIP counter. Every object is kept twice,
by its id and in its parent's list; `shown` is what the list's entry says where
that can differ from the object (`Same` as long as both are one object). The
operators `ListenersWithout`, `PoolsWithout`... say what is left when a set of
objects goes; `CascadeDelete` uses them with the sets that the lists name, the
single deletes with one id. `named` remembers the listeners whose default pool
a client named (the code does not look it up), `cascaded` the load balancers
deleted with all they had.

Octavia's handlers never save; its objects are in the file when another service
saves. A restart from that file leads where a restart right after the save
would have led, so `Restart` needs no file for what is said of a state. `cascaded`
is the history of the database that is running: a crash before any save brings a
deleted load balancer back, with all it had, and what was a cascade is none then.

Run `LoadBalancers`: `ParentsListChildren`, `DefaultPoolIsThere`,
`CascadeIsComplete`. Lists and names agree after any mix of creations, deletes,
cascades and restarts.

### Identity and AccessGrants

`AccessGrants` is what Keystone promises of role assignments: a set of grants
`<<role, actor, target>>` in which things come to be and are granted, one grant
is revoked, or a thing goes and what names it goes too (unless it is one of
`Lasting`: domains). It promises less of a restart: that leads back to what was
`recorded`, so that a revocation since may be undone; only what becomes of the
`Durable` things (users, projects, domains, roles) is recorded at once.

`Identity` is what the code does: a *list* of assignments that four routes
append to if the entry is not there (`Assigned`), that loses the first match
(`RevokeRole`) or all that name a thing (`GrantsWithout`), next to users,
groups with their members, projects, domains and roles, each with its deletion.
`file` is what was last saved of all these: the handlers of users, projects,
domains and roles save (`Saved`), those of groups, memberships, assignments and
application credentials do not, and any other request of the emulator may
(`SaveElsewhere`). `Restart` comes back with the file and without tokens.

A federated login creates users and projects and assigns. Tokens are taken by
password, by an earlier token, by application credential (`create_token` falls
back from the id to the name to a made-up identity: `Resolved`). A token's
`origin`, which is not in the code, is whom its chain of trades began with.

Run `Identity`: `GrantsRefer`, `IdentityCarried`, `AccessIsASet`. The last is the
refinement: the list, with `known` and `granted` read off it and `recorded` off
the file, implements `AccessGrants!Spec`; had it held a grant twice, one
revocation would not be one, and a deletion that does not save would let a
restart bring back a durable thing with its grants.

### Federation

The embedded OpenID provider (`_oidc_users`, `_oidc_codes`, a signing key per
process start: `run`) and Keystone's side (providers, protocols, mappings,
sessions). The mapping engine is translated as operators: `Meets` and `Match`
(what a requirement lets through and contributes), `DirectMap` (the match that
position `{0}`, `{1}`... refers to), `MappedName` and `MappedGroups`. `FederatedAuth` is
the login; an access token remembers the code it was bought with and the `key`
that signed it. A token may also come from an external provider
(`TokensFromAbroad`), which asserts what it will of its `Stranger`s; `ValidBearer`
takes it while the identity provider lists the issuer in its `remote_ids`. That
the issuer's published keys verify its tokens and no others is assumed, and an
issuer that does not answer is a login that does not happen.

Run `Federation`: `CodeBuysOneToken`, `NobodyElse`, `NothingOutlivesTheKey`. Codes
expire, are offered twice, by another client or with another redirect URI, tokens
are refreshed, mappings and trusted issuers replaced while sessions exist, and
the process restarts. `NothingOutlivesTheKey` is about the embedded provider's
tokens; an external one's are as good after a restart as before.

### BlockStorage

Volumes with owner, size and label, and what hangs on them: snapshots, backups,
transfers, groups and group snapshots, each request under a project's token or
an administrator's (`Reaches`). Groups and group snapshots are the exception:
their handlers go by the project in the URL, which nothing compares with the
token's, so any request may name any project (`GroupRequests`,
`GroupSnapshotRequests`). Volumes and snapshots are saved by their own
requests, backups, transfers and groups are not; a save writes everything
(`Save`), and `Restart` takes what is in `disk`.

Run `BlockStorage`: `SizesFit`, `DeletedStaysDeleted`, `OthersUntouched`. Sizes
fit in memory and in every file; what a request deleted and saved does not come
back; a project's token changes no other project's volume, snapshot or backup
(groups: section 6).

### Images

Every image lives in Glance's store and in Nova's. The states, and which
operation renews, removes or forgets Nova's copy, and which saves, are the
matter of the module: `Renewed`, `RenewedIfActive`, `TakenFromNova`,
`SavedByDeletion` (the file is written before Nova's copy is dropped). A PATCH is
`ReceivePatch`, which checks protection, and later `UpdateImage`, which does
not. `SaveOfAnother` is any change of another service that saves. `behind` and
`reloaded` remember what the code does not claim to keep in step: an import does
not tell Nova, and a restart gives Nova every image of the file.

| Run | Checks | Shows |
|---|---|---|
| `Images` | `NovaIsProjection`, `NovaOffersWhatGlanceHas`, `ProtectionHolds` | Nova's copy is Glance's image as it is now, and nothing but a PATCH let in before changes a protected image. |
| `ImagesDeleted` (violation) | `DeletedImagesDoNotBoot` | Section 6. |

### Scenarios and ScenarioCatalogue

The scenario manager: `scenario` and the `order` of its keys, per-scenario and
total statistics, and the requests in flight. A request is decided on in one
step (`Dispatch`: the first failing scenario that draws a failure answers it;
otherwise delays and timeouts are drawn from all slow ones, `CalculateDelay`),
may be `asleep`, and ends at `Wake`; anything happens in between. What is drawn
at random in the code is a choice among the outcomes the probability allows
(`Never`, `Sometimes`, `Always`). Overrides with a distribution that does not
exist fail after the scenario was enabled (`EnableFails`); `misfired` remembers
the scenarios that only such a request enabled. The API takes load levels from 0
to 100, the status page any number. `ScenarioCatalogue` holds the shipped
scenarios and presets, translated from `core/scenarios.py`.

Run `Scenarios`: `ScenariosTypeOK`, `DegradationTimed`, `TotalsAddUp`,
`NextRequestObeys`. Totals count what was injected since the last reset, once; a
degradation runs while its scenario is enabled, `misfired` ones aside; each
decision is about the scenarios enabled at that moment for that service. What a
request does when it wakes was drawn before, and no property speaks of it.

## 4. Bounds, symmetry, fairness

*Identifiers.* Ids are uuid4 in the code: an id is never given twice, so the
modules keep absent ids apart as unborn and gone. In `NetworkAddresses`, and for
tokens, policies and ports elsewhere, an id may be given again once nothing
names it, which is indistinguishable from a fresh one and keeps histories
unbounded.

| Run | Instance | Why it is enough |
|---|---|---|
| `ServerLifecycle` | 1 server, 1 flavor, 2 clients, `Duration` 4, `MaxBack` 1 | Every rule is about one server; two clients are what it takes to interleave an action with another; with four ticks each of the three reboot phases shows, and the first of them for two, so that a hard reboot can postpone another; one step back makes `elapsed` negative. |
| `VolumeAttachments` | 2 servers, 2 volumes, ledgers of up to 2, up to 2 attachments of one volume to one server | Two servers contend for a volume, one ledger holds duplicates, and a second volume must be left alone. |
| `ServerPorts` | 2 servers, 2 ports, 1 router, lists of up to 2 | A boot of two requests of which the second is refused; a port that moves between servers, is listed twice, or is taken by the router while its server goes. |
| `NetworkAddresses` | 2 external networks (an IPv4 subnet with a pool of 2 and a router address, an IPv6 subnet by prefix), 3 ports, 1 router, 1 floating IP; one pinnable address (`Asked`), requests of one entry (`MaxEntries`); a client claims ports as the router's gateway port or lets go of it (`ClaimedOwner`, `ClaimedDevice`), one claimed port at a time, while there is no floating IP and only the IPv4 network (`OneClaim`); with both networks, a floating IP or a gateway (`FewOwners`) | Three ports for two addresses exhaust the pool; the router can move between networks, of which one has nothing left, to ports if not to a floating IP. |
| `NetworkSharing` | 2 projects, 1 network, 2 policies, 1 port, 2 groups, 2 rules, `Defaults` 1 | Two policies, of one target or of two, are what it takes for one to outlast the other; a default group beside a client's. A new group has one rule instead of two. |
| `LoadBalancers` | 2 load balancers, 2 pools, one of each other object, one setting | Two load balancers and two pools are what it takes for a pool to hang on one load balancer and be the default of the other's listener; one listener sees pools replaced. |
| `Identity` | 2 users, 2 names, a group, 2 projects, a domain, 2 roles, 2 tokens, a credential; at most 2 assignments in memory and file (`MaxGrants`), 5 ids given and taken back in all, the three of a new database included (`MaxIds`), and of these, tokens in force (which count twice) and differences from the file at most 8 at a time (`MaxChanges`); mappings ask for three things (`Provisions`) | Renaming and a second user of the same name need two users and two names; a trade needs two tokens; a second project and role exist only to be created; two unsaved revocations can be undone by one restart. The database is read from a file at the start (a new one without a file would get other ids at each start until it saves). The proofs need no bound. |
| `Federation` | 2 persons, 1 stranger of 1 external issuer, 1 client, 2 lists of rules, 1 code, 2 access tokens, 1 session, 1 restart (`MaxRun`); one token from abroad, where no code is given (`Few`) | A code offered twice needs two tokens; the two lists use every kind of requirement and a position that a gate must not shift. The stranger is asserted to be one of the two persons' accounts. |
| `BlockStorage` | 2 projects, 2 volumes, one of each other object, sizes to 2; 3 ids given in all (`MaxThings`) | A volume with two dependants, or two volumes with one; two sizes are enough to be too small. |
| `Images`, `ImagesDeleted` | 1 image, 2 labels, 2 projects, 2 connections | Images do not interact: any other image's saves are `SaveOfAnother`. Two connections race two PATCHes. |
| `Scenarios` | 2 services, 2 shipped scenarios of which one fails and one delays, 1 of a user's own, 2 requests; 1 scenario changed or made (`MaxOwn`), 2 enabled (`MaxEnabled`); load levels -1, 0, 100 and 200 | Decisions are about the first failing and all slow scenarios; two requests overlap in their sleep. |

The constants in parentheses, and `MaxAttached`, `Asked`, `GatewayIp`, are bounds
of the models, not of the code; in `ServerLifecycle` ages beyond `Duration` are
one (nothing distinguishes them). Symmetry is used for interchangeable ids in
runs without liveness; `ServerLifecycle` uses none. `NetworkAddresses` has a
`VIEW` that forgets what `external_gateway_info` and `meddled` say where no action
and no property of the run reads it. Deadlock checking is on everywhere.

*Fairness.* `FairSpec` of `ServerLifecycle` assumes that time passes
(`WF(Tick)`) and that somebody keeps listing the servers (`WF(ListServers)`): the
status page refreshes and a client that waits for a task polls. No action
request is assumed fair. Both weak fairness assumptions are about steps that
are always enabled. Nothing else in the program runs by itself, so no other
module states fairness.

## 5. What is proved

The eight `*Proofs` modules prove, for every value of the constants that
satisfies the module's `ASSUME`, the theorems that `PROJECT.json` lists. Each
follows from one inductive invariant (`IInv`, `Inv`, `FedIInv`, `CinderInv`,
`ScenariosInv`), which holds initially and is preserved by each action, one step
or lemma per action; an action property follows from what the invariant says of
the state a step begins in. Every invariant and every action property that a
passing run checks is the subject of a theorem; only the two liveness properties
are not.

*ServerLifecycle.* The checked rules are about one record; `GoodRecord` adds
that a live server has a flavor (else a revert would have none to go back to)
and that a task exists only with a positive duration (else the phase index would
divide by zero). It is stated of memory *and* of the file: only then does a
`Restart` preserve it. What a restart may undo is a second invariant, of two
records: `FileInv` says that memory descends from the file by steps that save
nothing (`TasksFrom`: such a step may settle or drop a task, but begins none and
neither creates nor deletes), or, without `--auto-save`, that the file is empty.
`PhasesInOrder` compares a record with its successor; its core is that `PhaseAt`
grows with `elapsed` (the division rounds down, the last phase is reached before
the duration), and that a second hard reboot, which starts at the first phase,
is admitted in the first phase only. The same case distinction gives
`DeadlineStays`: what is said about waiting without fairness.

The refinement of `ObservedServers` uses both invariants. Every request is one of
four kinds (`RequestsStep`): it looks, it overrides, it saves and changes no
server, or it saves and changes one as `RequestStep` allows. What is shown of a
record that was looked at is what was shown before (`SeenAgain`); a request
leaves what is shown as one of the abstract requests would (`RequestSeen`). Time
moves what is shown onward because phases come in order (`OlderSeenOnward`), and
moves memory and file alike because a task in progress is in both with its age,
while a task that only the file still holds is over (`TimeKeepsFile`, from
`FileInv`). Proved: `TypeOK`, `TaskCoherent`, `PowerAgrees`, `ResizeRevertible`,
`AcceptedTaskIsSaved`, the action properties `ServersSurviveRestart`,
`PowerTaskUndisturbed`, `PhasesInOrder`, `DeadlineStays`, and the
refinement `LookingChangesNothing`.

*VolumeAttachments.* `Consistent` relates the four stores. The coverage of
Cinder's counts by Nova's ledger is an inequality of cardinalities, so the
lemmas say how appending and deleting change the number of positions of a
volume in a list. Proved: `TypeOK`, `InUseIffAttached`, `SingleAttach`,
`NovaCoversCinder`, `LeftoversAreDirect`, `AttachmentsAreSaved`.

*ServerPorts.* That the two sides agree is inductive only together with three
facts: a port that does not exist yet is listed nowhere, the port that an
attach has created and not yet bound is listed nowhere either, and the file is
the memory (`--auto-save`) or the empty one. `NovaTakesItsOwn` needs `Owns`: an
interface says `nova_created` only of a port that Nova made, and of the entries
that a server's list has for a port made for it the *first* says so
(`HeadCreated`), because a detach releases by the first entry and a client may
have attached the port once more. Proved: `TypeOK`, `PortsAgreeWithInterfaces`,
`DeletedServerFreesPorts`, `BindingsAreSaved`, `NovaTakesItsOwn`.

*NetworkAddresses.* Two arguments side by side. Ownership, port by
port: a gateway port that no client claimed is its router's only unclaimed one
(`GatewayOK`), a port of a router outside `meddled` is unclaimed and holds what the
router shows, and a floating IP's port that no client claimed names it
(`FipsOK`); a request on ports marks what it claims and whom it served before and
after (`ChangedPortKeeps`, `NewPortKeeps`). Addresses: an allocation excludes the addresses of
*one subnet*, a named address those of the *network*; each suffices because a
vetted address lies in the range of the subnet it is recorded under (`Sound`),
that subnet is listed by the port's network, and ranges of a network are
disjoint. `Clear` says it of one port's addresses against all others', which is
what a step that changes one port has to show. Lists of subnets are without repetition
(`ListsOK`), without which deleting a subnet would leave it listed. Proved:
`TypeOK`, `AddressesApart`, `AddressesHaveSubnets`, `GatewayPortsBelong`,
`GatewayReadsBack`, `FloatingPortsBelong`.

*LoadBalancers.* A parent's list holds exactly the objects that name it. This is
inductive once nobody names an id before it is given (`ParentsGiven`), and
`CascadeIsComplete` follows from it: the cascade, which goes through the lists,
reaches everything that names the load balancer. A default pool that no client
named was created for its listener (`DefaultsOwn`), so that deleting it finds
the listener. Proved: `TypeOK`, `ParentsListChildren`, `NoLostChildren`,
`DefaultPoolIsThere`, `CascadeIsComplete`, `MadeUpVipsApart`.

*Identity.* `GrantsRefer` is preserved because everything that goes takes along
what names it (`ReferWithout`) and everything else only grows (`ReferGrown`).
That a session stays its user's needs `Begun`: whoever a token or credential
began with has been there, and an id that is gone never comes back, so that a
user who is there now has been there since. The refinement follows step by step
(`StepRefines`): creations, assignments and logins are grants (`GrowthGrants`),
deletions forget (`GoneForgotten`), `RevokeRole` revokes because no entry is in
the list twice (`TypeOK`: `grants \in [Grants -> 0..1]`). All of it is shown of
the file too (`FileInv`: what the file holds refers to what the file holds, and
its users have been there in memory), because a restart makes the file the
memory; `FileSteps` says that a step leaves the file, writes all that is in
memory then, or writes what a login had done when it last created something
(`Written`), and each of the three is a `Recorded` step of the abstraction. Proved: `TypeOK`,
`GrantsRefer`, `IdentityCarried`, `AccessIsASet`.

*NetworkSharing.* Flag and policies agree network by network, because the flag
is cleared only when no other policy for all is left; `PortsKeepSight` follows
from the guard of `delete_rbac_policy`, which counts ports of the target, and
from the invariant that a sighted port's network is there. Proved: `TypeOK`,
`FlagFollowsPolicies`, `PortsKeepSight`, `GroupsOfPortsExist`, `RulesBelong`.

*Images.* One rule per image (`Rule`) relates Glance's record, Nova's copy and
the members; the file obeys a weaker one (`FileRule`), because a deletion writes
it half done. Proved: `TypeOK`, `NovaIsProjection`, `NovaOffersWhatGlanceHas`,
`DeletionIsSaved`, and the action property `ProtectionHolds`.

*Federation.* The invariant adds three facts to the properties: the token a session
was opened with is there (`SessionsBacked`), an external issuer's tokens are its
strangers' (`StrangersAbroad`), and a code that bought a token is gone
(`CodesSpent`), because it is taken out before anything about it is checked.
`NobodyElse` needs what the mapping engine computes for every list of rules: each
match of a rule's requirements is part of a claim (`MatchSaid`, `DirectMapSaid`),
so is every name a rule makes of them (`NamesSaid`), and therefore the last user
and every group (`MappedSaid`). Positions and "the last one" are chosen by
number; that the numbers exist is argued with the least and the greatest element
of a set of numbers (`LeastNumber`, `GreatestNumber`, `KthExists`). Proved:
`FedTypeOK`, `CodeBuysOneToken`, `NobodyElse`, `NothingOutlivesTheKey`.

*BlockStorage.* `SizesFit` is inductive with the types because it is stated of
memory and of the file: a volume only grows, a snapshot or backup is made at its
volume's size, and a restore makes a volume of its own. `DeletionsSaved`
is what a restart needs: whatever is gone from memory is gone from the file.
Proved: `CinderTypeOK`, `SizesFit`, and the action properties
`DeletedStaysDeleted`, `OthersUntouched` (of volumes, snapshots and backups: a
request for a group is one of the steps, and leaves those alone).

*Scenarios.* The totals are compared with cardinalities of sets of requests
(`FailedNow`, `TimedOutNow`, `InjectedNow`): a decision adds one request to them
exactly when it adds one to the totals, because a request that is counted is
never new again (`CountedNotNew`). `order` enumerates the registered ids, each
once, so that "the first failing scenario" exists and `Without` removes exactly
one position. `DegradationTimed` is inductive because whatever makes, replaces,
disables or resets a scenario, or enables it to the end, takes it out of
`misfired`. `NextRequestObeys` follows from the decision itself: a scenario that
always fails is among the failing ones, one that always delays among the slow
ones, and neither leaves the decision a draw that lets the request pass.
Proved: `ScenariosTypeOK`, `DegradationTimed`, `TotalsAddUp`, and the action
property `NextRequestObeys`.

*Only model-checked:* `PowerTaskSettles` and `RebootSettles` of `ServerLifecycle`
(liveness, and the `ENABLED` in fairness, are out of the prover's reach), and the
refutation of `DeletedImagesDoNotBoot`. No theorem uses induction over data: where
an argument would, it is stated with the least element of a set of numbers or
with the cardinality of a set that gains one element.

*Proved and not run:* `PowerAgrees`, `ResizeRevertible`, `InUseIffAttached`,
`AttachmentsAreSaved`, `BindingsAreSaved`, `AddressesHaveSubnets`,
`FloatingPortsBelong`, `NoLostChildren`, `MadeUpVipsApart`, `DeletionIsSaved`,
`RulesBelong`, and the type invariants of the modules with proofs.

## 6. Where the code departs

From its documents, comments or tests, met while modelling. The first has a
run; the others are properties of the modules, under the names given, that
the code does not keep (each fails when put into the module's run).

- `Images`, `DeletedImagesDoNotBoot` (run `ImagesDeleted`): `delete_glance_image`
  saves before Nova's copy is dropped (`database.py:4380`); a restart then boots
  what Glance has deleted.
- `ServerLifecycle`, `SavedOnEveryChange`: `--auto-save` is documented to "write
  the database on every change" (`docs/usage.md:58`); the status page's override
  and a server's snapshot are not written.
- `VolumeAttachments`, `NoAttachmentToDeadServer`: deleting a server promises
  that no volume keeps an attachment to it (`database.py:1506`); one made through
  Cinder alone stays.
- `VolumeAttachments`, `BootAttachesBothSides`: a boot mapping that Cinder
  refuses stays in Nova's ledger only (`nova.py:316`).
- `ServerPorts`, `RefusedBootLeavesNothing`: a refused boot promises to leave
  nothing behind; the ports before the refused one stay bound to a server that
  never comes to be (`database.py:1302`).
- `NetworkAddresses`, `GatewayBacked`: a change of gateway that is refused for
  want of addresses has already released the old gateway's port
  (`database.py:5633`).
- `NetworkAddresses`, `EveryGatewayPortBelongs`: `device_owner` and `device_id` are
  stored as a client sends them (`database.py:5406`, `5550`), while the code takes
  them for its own marks of a gateway (`_get_router_gateway_port`): a client can
  make a second gateway port, one of a router that is not there, or let go of the
  router's, which then outlives it.
- `LoadBalancers`, `ListsShowObjects`: the whole database is documented to be
  restored; what was one object in memory comes back as two
  (`persistence.py:150`), and updates reach only one. (It takes two settings.)
- `Identity`, `ListedProjectsWork`: the projects a federated user is listed are
  those that "will work" (`docs/federation.md:226`); a project that only a group
  of the mapping was granted, or whose role is gone, is listed
  (`keystone.py:2328`) and cannot be scoped to.
- `BlockStorage`, `NoOwnershipTransfer`: "resources cannot be transferred between
  projects" (`docs/architecture/tenant-isolation.md:414`); accepting a volume
  transfer does (`database.py:9814`), whatever became of the volume meanwhile.
- `BlockStorage`, `OthersGroupsUntouched`: "the restriction comes from the token,
  never from the URL's project segment" (`docs/architecture/tenant-isolation.md`);
  consistency groups and group snapshots are restricted by that segment only
  (`cinder.py:1587`, `1642`, `1679`).
- `Scenarios`, `EnabledDegradationTimed`: "Start gradual degradation timer if
  enabled" (`enable_scenario`); an override with a distribution that does not
  exist (`scenarios.py:104`) fails between the enabling
  (`scenario_manager.py:156`) and the timer, and leaves the scenario enabled
  without a start.
- `Scenarios`, `InjectionsNamed`: injected responses carry the id of the scenario
  that fired (`docs/scenarios.md:183`); a slow scenario's timeout names none
  (`scenario_manager.py:300`).
- `Federation`, `GroupsReach`: a claim of several groups is formatted as the text
  of a Python list (`federation.py:158`), and none of the groups is found.

Without a property of their own, because nothing the models tell apart depends
on them:

- `POST /preset/heavy`, which `docs/scenarios.md` shows, answers 400; the delays
  that `set_load_level` documents are not those it sets.
- `core/federation.py:18` calls ephemeral users never written; they are created
  with `create_user`.
- Re-sent `fixed_ips` are refused when the port holds two addresses of one
  subnet; a SLAAC address pinned without its subnet is accepted; an IPv4 pool
  wider than one octet looks full when its last octet is.
- Groups, memberships, assignments and application credentials are changed
  without a save (`database.py:2903-3012`, `3090-3183`): a crash can undo
  revocations that were answered 204, and bring back a deleted group with its
  grants, until another request saves. `AccessGrants!Restart` says so.
- PATCH of a federation protocol accepts a mapping that is not there; deleting an
  identity provider leaves its protocols.
- Renaming or deleting a volume type leaves volumes under a name that no usage
  key covers.
- Changing the target of an RBAC policy can make two policies alike, which a
  comment near `neutron.py:1370` says Neutron refuses; the end of an
  `access_as_external` policy is not guarded by what depends on it, and one for
  all sets `shared`.
- Deactivated images are Nova's again after a restart; importing a deactivated
  image makes it active without telling Nova; a protected image can be
  unprotected only by a PATCH let in before it was protected.

## 7. What is not modelled

Formats, JSON, HTTP status codes, logging, HTML (most of `api/status_ui.py`).
Metadata, tags, types and other records that nothing refers to, which are a
large part of `core/models.py`, `core/database.py` and of every API module. A
floating IP's association with an internal port: no test or document says what
should become of it when the port goes. VIPs from a subnet (nothing keeps them
from being given again), a policy's redirect pool (never looked at). Passwords,
which Keystone does not check and the embedded provider checks if one was given. The content of the security rules, which
nothing enforces. The file's handling of other versions, its atomic rename and
its one backup per process. Quotas limit next to nothing. Placement and
CloudKitty compute answers from other stores; presets replay creations.

## 8. How it was built, and what could follow

Each module was written first for the paths in which two stores, two requests
or a crash meet, then extended by the component's other operations; the
properties came from the hazards in `PROJECT.json`. Written, in this order:
`ServerLifecycle`, `VolumeAttachments`, `ServerPorts`, `NetworkAddresses`,
`LoadBalancers`, with proofs; `AccessGrants` and `Identity`, `BlockStorage`,
`ScenarioCatalogue` and `Scenarios`, `Federation`, `NetworkSharing`, `Images`,
the first and the last two with proofs; then the proofs of `Federation`,
`BlockStorage` and `Scenarios`, and of what `ServerLifecycle` saves and shows,
with `ObservedServers`.
To be reasoned about, `Federation` and `Scenarios` were restated without
recursion and without filters over sequences: by positions.

What could follow:

1. A composition of `ServerPorts` with `NetworkAddresses`: a boot that is refused
   for want of an address.
2. An abstract `Attachment` (a relation between servers and volumes) that
   `VolumeAttachments` implements where Nova alone acts.
3. `load` with a file that is partly unreadable, and the backup made before the
   first save after it.
