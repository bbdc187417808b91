-------------------------- MODULE ServerLifecycle --------------------------
(***************************************************************************)
(* The life of a Nova server: the state rules of the compute API, the      *)
(* timed tasks (start, stop, reboot) that settle when somebody next looks  *)
(* at the server, resize and its confirmation, the administrator's reset,  *)
(* the status page's override, and the copy that --auto-save keeps on disk.*)
(*                                                                         *)
(* The clock is modelled relative to each task: "elapsed" is               *)
(* now - task_started_at in ticks, so a tick ages every task, those in the *)
(* saved file included, and a clock stepped back rejuvenates them.         *)
(***************************************************************************)
EXTENDS Integers, Sequences

CONSTANTS
    Server,      \* ids a server may be given; uuid4, so never given twice
    Flavor,      \* flavor ids
    Client,      \* connections that may post to /servers/{id}/action
    Duration,    \* EMULATOR_SERVER_ACTION_SECONDS, in ticks
    MaxBack,     \* bound: how often the clock may be stepped back
    AutoSave,    \* whether --auto-save was given
    Idle,        \* a connection that waits for nothing
    NoFlavor     \* original_flavor_id = None

ASSUME ServerLifecycleAssumption ==
    /\ Duration \in Nat
    /\ MaxBack \in Nat
    /\ AutoSave \in BOOLEAN
    /\ Idle \notin Server
    /\ NoFlavor \notin Flavor

VARIABLES
    servers,     \* _servers
    flavors,     \* _flavors
    snapshots,   \* servers of which _glance_images holds a snapshot
    pending,     \* action requests between the lookup and the body
    disk,        \* the saved file
    backSteps    \* how often the clock has been stepped back

vars == <<servers, flavors, snapshots, pending, disk, backSteps>>

----------------------------------------------------------------------------
(* Server states.                                                          *)

Status == {"UNBORN", "ACTIVE", "SHUTOFF", "PAUSED", "SUSPENDED", "SHELVED",
           "VERIFY_RESIZE", "ERROR", "DELETED"}

PowerState == {"NO_STATE", "RUNNING", "PAUSED", "SHUTDOWN", "SUSPENDED"}

SoftPhases == <<"REBOOTING", "REBOOT_PENDING", "REBOOT_STARTED">>
HardPhases == <<"REBOOTING_HARD", "REBOOT_PENDING_HARD", "REBOOT_STARTED_HARD">>

TaskState == {"POWERING_ON", "POWERING_OFF",
              "REBOOTING", "REBOOT_PENDING", "REBOOT_STARTED",
              "REBOOTING_HARD", "REBOOT_PENDING_HARD", "REBOOT_STARTED_HARD"}

\* Which vm_states each action accepts.
VmStates ==
    [start         |-> {"SHUTOFF"},
     stop          |-> {"ACTIVE", "ERROR"},
     reboot_soft   |-> {"ACTIVE"},
     reboot_hard   |-> {"ACTIVE", "SHUTOFF", "PAUSED", "SUSPENDED", "ERROR"},
     pause         |-> {"ACTIVE"},
     unpause       |-> {"PAUSED"},
     suspend       |-> {"ACTIVE"},
     resume        |-> {"SUSPENDED"},
     shelve        |-> {"ACTIVE", "SHUTOFF", "PAUSED", "SUSPENDED"},
     unshelve      |-> {"SHELVED"},
     confirmresize |-> {"VERIFY_RESIZE"},
     revertresize  |-> {"VERIFY_RESIZE"}]

\* Mutant: a hard reboot takes over any task.
AllowRebootAnyTask == TaskState \cup {"None"}

\* The tasks a hard reboot may take over; every other action waits for None.
AllowReboot == {"None", "REBOOTING", "REBOOT_PENDING", "REBOOT_STARTED",
                "REBOOTING_HARD"}

\* Mutant: a start may follow a start, a soft reboot a soft reboot.
TaskStatesRepeat(a) ==
    CASE a = "start"       -> {"None", "POWERING_ON"}
      [] a = "reboot_soft" -> {"None", "REBOOTING"}
      [] OTHER             -> {"None"}

TaskStates(a) == IF a = "reboot_hard" THEN AllowReboot ELSE {"None"}

\* The phases of a timed action and the status it settles into.
Timed ==
    [start       |-> [phases |-> <<"POWERING_ON">>,  result |-> "ACTIVE"],
     stop        |-> [phases |-> <<"POWERING_OFF">>, result |-> "SHUTOFF"],
     reboot_soft |-> [phases |-> SoftPhases,         result |-> "ACTIVE"],
     reboot_hard |-> [phases |-> HardPhases,         result |-> "ACTIVE"]]

\* The status and power state a settled action leaves.
Settled ==
    [pause    |-> [status |-> "PAUSED",    power |-> "PAUSED"],
     unpause  |-> [status |-> "ACTIVE",    power |-> "RUNNING"],
     suspend  |-> [status |-> "SUSPENDED", power |-> "SUSPENDED"],
     resume   |-> [status |-> "ACTIVE",    power |-> "RUNNING"],
     shelve   |-> [status |-> "SHELVED",   power |-> "SHUTDOWN"],
     unshelve |-> [status |-> "ACTIVE",    power |-> "RUNNING"]]

TimedAction  == {"start", "stop", "reboot_soft", "reboot_hard"}
SettledAction == {"pause", "unpause", "suspend", "resume", "shelve", "unshelve"}
ResizeAnswer == {"confirmresize", "revertresize"}
Action       == TimedAction \cup SettledAction \cup ResizeAnswer

PhaseList == {<<>>} \cup {Timed[a].phases : a \in TimedAction}

ServerRecord ==
    [status     : Status,
     power      : PowerState,
     task       : TaskState \cup {"None"},
     phases     : PhaseList,
     result     : {"ACTIVE", "SHUTOFF", "None"},
     elapsed    : Int,
     flavor     : Flavor \cup {NoFlavor},
     origFlavor : Flavor \cup {NoFlavor},
     preStatus  : {"ACTIVE", "SHUTOFF", "None"}]

\* The absence of a server: "UNBORN" before its creation, "DELETED" after.
Absent(st) ==
    [status |-> st, power |-> "NO_STATE", task |-> "None", phases |-> <<>>,
     result |-> "None", elapsed |-> 0, flavor |-> NoFlavor,
     origFlavor |-> NoFlavor, preStatus |-> "None"]

Live(s) == servers[s].status \notin {"UNBORN", "DELETED"}

----------------------------------------------------------------------------
(* Tasks.                                                                  *)

\* The phase reached after e < Duration ticks.  A clock stepped back makes e
\* negative: it counts as 0.
PhaseAt(phases, e) ==
    LET past == IF e > 0 THEN e ELSE 0
        step == (past * Len(phases)) \div Duration
    IN  phases[1 + (IF step < Len(phases) THEN step ELSE Len(phases) - 1)]

\* Mutant: a task that takes over another is as old as the other was.
SetTaskInherits(r, t, p, u) ==
    [r EXCEPT !.task = t, !.phases = p, !.result = u]

\* Task, its phases, its result and the moment it started.
SetTask(r, t, p, u) ==
    [r EXCEPT !.task = t, !.phases = p, !.result = u, !.elapsed = 0]

CancelTask(r) == SetTask(r, "None", <<>>, "None")

\* Move a task in progress to the phase it has reached by now.
Advance(r) ==
    IF r.task = "None" THEN r
    ELSE IF r.elapsed >= Duration
    THEN [CancelTask(r) EXCEPT
             !.status = r.result,
             !.power  = IF r.result = "ACTIVE" THEN "RUNNING" ELSE "SHUTDOWN"]
    ELSE [r EXCEPT !.task = PhaseAt(r.phases, r.elapsed)]

BeginTask(r, phases, result) == Advance(SetTask(r, phases[1], phases, result))

\* Nova's check_instance_state.
CheckServerState(r, vmStates, taskStates) ==
    /\ r.status \in vmStates
    /\ r.task \in taskStates

----------------------------------------------------------------------------
(* The file.                                                               *)

Image(sv, fl, sn) == [servers |-> sv, flavors |-> fl, snapshots |-> sn]

Save == disk' = IF AutoSave THEN Image(servers', flavors', snapshots') ELSE disk

Init ==
    /\ servers = [s \in Server |-> Absent("UNBORN")]
    /\ flavors = Flavor
    /\ snapshots = {}
    /\ pending = [c \in Client |-> Idle]
    /\ disk = Image(servers, flavors, snapshots)
    /\ backSteps = 0

----------------------------------------------------------------------------
(* Requests that are answered in one piece.                                *)

\* POST /servers: the build completes before the answer.
CreateServer(s, f) ==
    /\ servers[s].status = "UNBORN"
    /\ f \in flavors
    /\ servers' = [servers EXCEPT ![s] =
           [Absent("ACTIVE") EXCEPT !.power = "RUNNING", !.flavor = f]]
    /\ UNCHANGED <<flavors, snapshots, pending, backSteps>>
    /\ Save

\* GET /servers/{id}, and every other lookup of a server.
GetServer(s) ==
    /\ Live(s)
    /\ servers' = [servers EXCEPT ![s] = Advance(@)]
    /\ UNCHANGED <<flavors, snapshots, pending, disk, backSteps>>

\* GET /servers and /servers/detail look at every server.
ListServers ==
    /\ servers' = [s \in Server |-> Advance(servers[s])]
    /\ UNCHANGED <<flavors, snapshots, pending, disk, backSteps>>

\* Mutant: a deletion is not followed by a save.
DeleteServerUnsaved(s) ==
    /\ Live(s)
    /\ servers' = [servers EXCEPT ![s] = Absent("DELETED")]
    /\ UNCHANGED <<flavors, snapshots, pending, disk, backSteps>>

DeleteServer(s) ==
    /\ Live(s)
    /\ servers' = [servers EXCEPT ![s] = Absent("DELETED")]
    /\ UNCHANGED <<flavors, snapshots, pending, backSteps>>
    /\ Save

\* The status page's start, stop and reboot end any task and set the state
\* themselves.
OverrideServer(s, name) ==
    /\ Live(s)
    /\ servers' = [servers EXCEPT ![s] =
           [CancelTask(Advance(@)) EXCEPT
               !.status = IF name = "stop" THEN "SHUTOFF" ELSE "ACTIVE",
               !.power  = IF name = "stop" THEN "SHUTDOWN" ELSE "RUNNING"]]
    /\ UNCHANGED <<flavors, snapshots, pending, disk, backSteps>>

CreateFlavor(f) ==
    /\ flavors' = flavors \cup {f}
    /\ UNCHANGED <<servers, snapshots, pending, backSteps>>
    /\ Save

DeleteFlavor(f) ==
    /\ f \in flavors
    /\ flavors' = flavors \ {f}
    /\ UNCHANGED <<servers, snapshots, pending, backSteps>>
    /\ Save

----------------------------------------------------------------------------
(* POST /servers/{id}/action.  The handler looks the server up, awaits the *)
(* body, and then acts by id: between the two anything may happen.         *)

ReceiveAction(c, s) ==
    /\ pending[c] = Idle
    /\ Live(s)
    /\ pending' = [pending EXCEPT ![c] = s]
    /\ servers' = [servers EXCEPT ![s] = Advance(@)]
    /\ UNCHANGED <<flavors, snapshots, disk, backSteps>>

\* The server has gone, the body is refused, or the client hung up.
AbandonAction(c) ==
    /\ pending[c] # Idle
    /\ pending' = [pending EXCEPT ![c] = Idle]
    /\ UNCHANGED <<servers, flavors, snapshots, disk, backSteps>>

\* The request of c finds its server and leaves it in the state r.
Answer(c, r) ==
    /\ pending' = [pending EXCEPT ![c] = Idle]
    /\ servers' = [servers EXCEPT ![pending[c]] = r]

Waiting(c) == pending[c] # Idle /\ Live(pending[c])

Current(c) == Advance(servers[pending[c]])

\* What an accepted action makes of the server.
Perform(r, a) ==
    IF a \in TimedAction THEN BeginTask(r, Timed[a].phases, Timed[a].result)
    ELSE IF a \in SettledAction
    THEN [r EXCEPT !.status = Settled[a].status, !.power = Settled[a].power]
    ELSE LET back == IF r.preStatus = "SHUTOFF" THEN "SHUTOFF" ELSE "ACTIVE"
         IN  [r EXCEPT
                !.flavor = IF a = "revertresize" /\ r.origFlavor # NoFlavor
                           THEN r.origFlavor ELSE r.flavor,
                !.status = back,
                !.power  = IF back = "SHUTOFF" THEN "SHUTDOWN" ELSE "RUNNING",
                !.origFlavor = NoFlavor,
                !.preStatus  = "None"]

\* Mutant: an action is not followed by a save.
ServerActionUnsaved(c, a) ==
    /\ Waiting(c)
    /\ CheckServerState(Current(c), VmStates[a], TaskStates(a))
    /\ Answer(c, Perform(Current(c), a))
    /\ UNCHANGED <<flavors, snapshots, disk, backSteps>>

ServerAction(c, a) ==
    /\ Waiting(c)
    /\ CheckServerState(Current(c), VmStates[a], TaskStates(a))
    /\ Answer(c, Perform(Current(c), a))
    /\ UNCHANGED <<flavors, snapshots, backSteps>>
    /\ Save

ServerResize(c, f) ==
    /\ Waiting(c)
    /\ f \in flavors
    /\ CheckServerState(Current(c), {"ACTIVE", "SHUTOFF"}, {"None"})
    /\ Answer(c, [Current(c) EXCEPT
                    !.origFlavor = Current(c).flavor,
                    !.preStatus  = Current(c).status,
                    !.flavor     = f,
                    !.status     = "VERIFY_RESIZE",
                    !.power      = "SHUTDOWN"])
    /\ UNCHANGED <<flavors, snapshots, backSteps>>
    /\ Save

\* Mutant: the reset leaves the task in progress.
ResetServerStateOnly(c, state) ==
    /\ Waiting(c)
    /\ Answer(c, [servers[pending[c]] EXCEPT !.status = state])
    /\ UNCHANGED <<flavors, snapshots, backSteps>>
    /\ Save

\* os-resetState drops the task and leaves the power state alone; it does not
\* advance the task first.
ResetServerState(c, state) ==
    /\ Waiting(c)
    /\ Answer(c, [CancelTask(servers[pending[c]]) EXCEPT !.status = state])
    /\ UNCHANGED <<flavors, snapshots, backSteps>>
    /\ Save

\* createImage is not followed by a save.
CreateServerSnapshot(c) ==
    /\ Waiting(c)
    /\ CheckServerState(Current(c), {"ACTIVE", "SHUTOFF", "PAUSED", "SUSPENDED"},
                        {"None"})
    /\ Answer(c, Current(c))
    /\ snapshots' = snapshots \cup {pending[c]}
    /\ UNCHANGED <<flavors, disk, backSteps>>

\* A 409: the state refuses the action, and the lookup has advanced the task.
RefuseAction(c) ==
    /\ Waiting(c)
    /\ \E a \in Action :
          ~ CheckServerState(Current(c), VmStates[a], TaskStates(a))
    /\ Answer(c, Current(c))
    /\ UNCHANGED <<flavors, snapshots, disk, backSteps>>

----------------------------------------------------------------------------
(* Time and restarts.                                                      *)

\* Ages beyond Duration are not told apart: the task is over.
Aged(r, d) ==
    IF r.task = "None" THEN r
    ELSE [r EXCEPT !.elapsed = IF @ + d > Duration THEN Duration ELSE @ + d]

AgeAll(d) ==
    /\ servers' = [s \in Server |-> Aged(servers[s], d)]
    /\ disk' = [disk EXCEPT !.servers = [s \in Server |-> Aged(@[s], d)]]

Tick ==
    /\ AgeAll(1)
    /\ UNCHANGED <<flavors, snapshots, pending, backSteps>>

\* NTP, or a database saved on another host.
ClockStepsBack ==
    /\ backSteps < MaxBack
    /\ backSteps' = backSteps + 1
    /\ AgeAll(-1)
    /\ UNCHANGED <<flavors, snapshots, pending>>

\* The process dies between two requests and starts again from the file.
Restart ==
    /\ servers' = disk.servers
    /\ flavors' = disk.flavors
    /\ snapshots' = disk.snapshots
    /\ pending' = [c \in Client |-> Idle]
    /\ UNCHANGED <<disk, backSteps>>

----------------------------------------------------------------------------

ActionRequest(c) ==
    \/ \E s \in Server : ReceiveAction(c, s)
    \/ AbandonAction(c)
    \/ \E a \in Action : ServerAction(c, a)
    \/ \E f \in Flavor : ServerResize(c, f)
    \/ \E st \in {"ACTIVE", "ERROR"} : ResetServerState(c, st)
    \/ CreateServerSnapshot(c)
    \/ RefuseAction(c)

ServerReads ==
    \/ \E s \in Server : GetServer(s)
    \/ ListServers

ServerRequests ==
    \/ \E s \in Server, f \in Flavor : CreateServer(s, f)
    \/ \E s \in Server : DeleteServer(s)

StatusPage ==
    \E s \in Server, name \in {"start", "stop", "reboot"} : OverrideServer(s, name)

FlavorRequests == \E f \in Flavor : CreateFlavor(f) \/ DeleteFlavor(f)

Next ==
    \/ ServerReads
    \/ ServerRequests
    \/ StatusPage
    \/ FlavorRequests
    \/ \E c \in Client : ActionRequest(c)
    \/ Tick
    \/ ClockStepsBack
    \/ Restart

Spec == Init /\ [][Next]_vars

\* The clock runs, and somebody keeps listing the servers (the status page
\* does, and a client that waits for a task polls); nothing else is promised.
FairSpec == Spec /\ WF_vars(Tick) /\ WF_vars(ListServers)

----------------------------------------------------------------------------
(* Type correctness.                                                       *)

\* The variables hold what the code's fields and containers can hold.
TypeOK ==
    /\ servers \in [Server -> ServerRecord]
    /\ flavors \subseteq Flavor
    /\ snapshots \subseteq Server
    /\ pending \in [Client -> Server \cup {Idle}]
    /\ disk \in [servers : [Server -> ServerRecord],
                 flavors : SUBSET Flavor,
                 snapshots : SUBSET Server]
    /\ backSteps \in 0..MaxBack

----------------------------------------------------------------------------
(* Safety.  A rule about records holds of the copy in the file as well: a  *)
(* restart may put the copy back at any time.                              *)

TaskRule(r) ==
    IF r.task = "None"
    THEN r.phases = <<>> /\ r.result = "None"
    ELSE \E a \in TimedAction :
            /\ r.phases = Timed[a].phases
            /\ r.result = Timed[a].result
            /\ r.status \in VmStates[a]
            /\ \E i \in 1..Len(r.phases) : r.task = r.phases[i]

\* A task in progress is one that some action begins, it shows one of that
\* action's phases, and its server is still in a status the action accepts: no
\* action, reset or override slips in beside a task and leaves a task behind
\* that would later overwrite the new status (Server.advance, cancel_task).
TaskCoherent ==
    \A s \in Server : TaskRule(servers[s]) /\ TaskRule(disk.servers[s])

PowerRule(r) ==
    /\ r.status \in {"SHUTOFF", "SHELVED", "VERIFY_RESIZE"} => r.power = "SHUTDOWN"
    /\ r.status = "PAUSED"    => r.power = "PAUSED"
    /\ r.status = "SUSPENDED" => r.power = "SUSPENDED"

\* Whatever the sequence of actions, tasks, resizes and overrides, a status
\* other than ACTIVE and ERROR (which os-resetState sets without touching the
\* guest) implies its power state.
PowerAgrees ==
    \A s \in Server : PowerRule(servers[s]) /\ PowerRule(disk.servers[s])

ResizeRule(r) ==
    r.status = "VERIFY_RESIZE" =>
        /\ r.origFlavor # NoFlavor
        /\ r.preStatus # "None"
        /\ r.task = "None"

\* A server that waits for confirmResize or revertResize knows the flavor and
\* the status to go back to, and no task can move it out of that wait.
ResizeRevertible ==
    \A s \in Server : ResizeRule(servers[s]) /\ ResizeRule(disk.servers[s])

\* With --auto-save an accepted start, stop or reboot is in the file, with the
\* same deadline: a restart cannot forget the answer 202.
AcceptedTaskIsSaved ==
    AutoSave =>
        \A s \in Server :
            LET mem == servers[s]  file == disk.servers[s]
            IN  mem.task # "None" =>
                    /\ file.phases  = mem.phases
                    /\ file.elapsed = mem.elapsed
                    /\ file.status  = mem.status

\* With --auto-save a created server is not lost and a deleted one does not
\* come back, restarts included.
ServersSurviveRestart ==
    [][AutoSave =>
        \A s \in Server :
            /\ Live(s) => servers'[s].status # "UNBORN"
            /\ servers[s].status = "DELETED" => servers'[s].status = "DELETED"]_vars

\* A power-on or power-off in progress is not replaced by another task: no
\* action, not even a hard reboot, takes it over.
PowerTaskUndisturbed ==
    [][\A s \in Server :
          LET r == servers[s]
          IN  r.task \in {"POWERING_ON", "POWERING_OFF"} /\ r.elapsed < Duration
              => servers'[s].task \in {r.task, "None"}]_vars

\* How far a client that asks now sees the task of s.
Shown(s) ==
    LET r == servers[s]  seen == Advance(r).task
    IN  IF seen = "None" THEN Len(r.phases) + 1
        ELSE CHOOSE i \in 1..Len(r.phases) : r.phases[i] = seen

\* As long as the clock is not stepped back, the phases of a task are shown in
\* order: neither a read, a restart nor a second hard reboot (ALLOW_REBOOT
\* admits it in the first phase only) takes a client back to an earlier phase.
PhasesInOrder ==
    [][\A s \in Server :
          /\ backSteps' = 0
          /\ servers[s].phases # <<>>
          /\ servers'[s].phases = servers[s].phases
          /\ servers[s].elapsed < Duration
          => Shown(s)' >= Shown(s)]_vars

\* What is waited for comes no later than it was going to: the deadline of a task
\* on its way is moved by the clock, and by a hard reboot that takes over another
\* in its first phase, and by no other request, lookup or restart.
DeadlineStays ==
    [][\A s \in Server :
          LET r == servers[s]  q == servers'[s]
          IN  r.task # "None" /\ r.elapsed < Duration /\ q.phases = r.phases
              => \/ q.elapsed >= r.elapsed
                 \/ backSteps' # backSteps
                 \/ r.phases = HardPhases /\ Shown(s) = 1]_vars

\* What clients see is as if every task took its way with the clock: a task that
\* moves only when somebody looks, and then from the file's copy too, is shown
\* where it would be anyway, and every request is decided on what is shown then,
\* although its record may be older (Server.advance, get_server, load).
Seen(r) == [status |-> Advance(r).status, task |-> Advance(r).task]

Observed == INSTANCE ObservedServers WITH
    Instant <- (Duration = 0),
    Durable <- AutoSave,
    seen <- [s \in Server |-> Seen(servers[s])],
    kept <- [s \in Server |-> Seen(disk.servers[s])]

LookingChangesNothing == Observed!Spec

\* What docs/usage.md says of --auto-save: "Write the database on every change".
\* Time passing is not a change; the file and the memory agree on where every
\* task stands now.
\* The code does not keep it: see README, "Where the code departs".
SavedOnEveryChange ==
    AutoSave =>
        /\ \A s \in Server : Advance(servers[s]) = Advance(disk.servers[s])
        /\ snapshots = disk.snapshots

----------------------------------------------------------------------------
(* Liveness.                                                               *)

\* A power-on or power-off that a client waits for ends: nothing can keep
\* postponing it (begin_task, ALLOW_REBOOT).
PowerTaskSettles ==
    \A s \in Server, t \in {"POWERING_ON", "POWERING_OFF"} :
        servers[s].task = t ~> servers[s].task # t

HardReboot(s) == \E c \in Client : pending[c] = s /\ ServerAction(c, "reboot_hard")

\* A reboot reaches its deadline too, unless hard reboots are requested forever:
\* each one that finds the last still in its first phase starts the wait again.
RebootSettles ==
    \A s \in Server :
        \/ []<><<HardReboot(s)>>_vars
        \/ (servers[s].task # "None")
              ~> (servers[s].task = "None" \/ servers[s].elapsed >= Duration)
============================================================================
