---------------------- MODULE ServerLifecycleProofs ----------------------
(***************************************************************************)
(* What ServerLifecycle promises for every set of servers, flavors and     *)
(* clients, every task duration and every number of clock steps: the       *)
(* types, and the rules a server's record obeys in memory and in the file. *)
(*                                                                         *)
(* All rules are about one record, so the proof has two layers.  The       *)
(* lemmas of the first say that each operator on records (Advance,         *)
(* BeginTask, Perform, ...) keeps a record good; the second is one step    *)
(* per action, which only has to see which operator the action applies.    *)
(*                                                                         *)
(* The rest is about two records at a time: memory and the file, which     *)
(* follows it save for what a read or the clock may change afterwards      *)
(* (FileInv), and a record and its successor, whose task is at the same    *)
(* phase or a later one (PhasesNeverGoBack).  Both together show that      *)
(* ServerLifecycle implements ObservedServers (ServersObserved).           *)
(***************************************************************************)
EXTENDS ServerLifecycle, TLAPS

\* A server that exists has a flavor, to which a resize can be reverted.
FlavorRule(r) == r.status \notin {"UNBORN", "DELETED"} => r.flavor # NoFlavor

\* What is known of one record.  With no duration a task is over at once, so
\* PhaseAt never divides by zero.
GoodRecord(r) ==
    /\ r \in ServerRecord
    /\ TaskRule(r)
    /\ PowerRule(r)
    /\ ResizeRule(r)
    /\ FlavorRule(r)
    /\ r.task # "None" => Duration > 0

\* What is known of a collection of servers.
ServersOK(sv) ==
    /\ sv \in [Server -> ServerRecord]
    /\ \A s \in Server : GoodRecord(sv[s])

MemoryOK ==
    /\ ServersOK(servers)
    /\ flavors \subseteq Flavor
    /\ snapshots \subseteq Server

DiskOK ==
    /\ disk \in [servers : [Server -> ServerRecord],
                 flavors : SUBSET Flavor, snapshots : SUBSET Server]
    /\ ServersOK(disk.servers)

OtherOK ==
    /\ pending \in [Client -> Server \cup {Idle}]
    /\ backSteps \in 0..MaxBack

\* The inductive invariant: memory and file obey the same rules, so that an
\* action keeps them in memory, a save in the file, and a restart in memory again.
IInv == MemoryOK /\ DiskOK /\ OtherOK

----------------------------------------------------------------------------
(* Records.                                                                *)

\* The four timed actions (TIMED_SERVER_ACTIONS), spelled out.
LEMMA TimedFacts ==
    /\ \A a \in TimedAction :
          \/ a = "start" /\ Timed[a].phases = <<"POWERING_ON">>
                         /\ Timed[a].result = "ACTIVE"
                         /\ VmStates[a] = {"SHUTOFF"}
          \/ a = "stop"  /\ Timed[a].phases = <<"POWERING_OFF">>
                         /\ Timed[a].result = "SHUTOFF"
                         /\ VmStates[a] = {"ACTIVE", "ERROR"}
          \/ a = "reboot_soft" /\ Timed[a].phases = SoftPhases
                         /\ Timed[a].result = "ACTIVE"
                         /\ VmStates[a] = {"ACTIVE"}
          \/ a = "reboot_hard" /\ Timed[a].phases = HardPhases
                         /\ Timed[a].result = "ACTIVE"
                         /\ VmStates[a] = {"ACTIVE", "SHUTOFF", "PAUSED",
                                           "SUSPENDED", "ERROR"}
BY DEF TimedAction, Timed, VmStates

\* The phases of a timed action are a non-empty sequence of task states.
LEMMA PhasesType ==
    ASSUME NEW a \in TimedAction
    PROVE  /\ Len(Timed[a].phases) \in Nat \ {0}
           /\ \A i \in 1..Len(Timed[a].phases) : Timed[a].phases[i] \in TaskState
<1>1. CASE a = "start"
  <2>1. Timed[a].phases = <<"POWERING_ON">>
    BY <1>1, TimedFacts
  <2> QED BY <2>1 DEF TaskState
<1>2. CASE a = "stop"
  <2>1. Timed[a].phases = <<"POWERING_OFF">>
    BY <1>2, TimedFacts
  <2> QED BY <2>1 DEF TaskState
<1>3. CASE a = "reboot_soft"
  <2>1. Timed[a].phases = SoftPhases
    BY <1>3, TimedFacts
  <2> QED BY <2>1 DEF SoftPhases, TaskState
<1>4. CASE a = "reboot_hard"
  <2>1. Timed[a].phases = HardPhases
    BY <1>4, TimedFacts
  <2> QED BY <2>1 DEF HardPhases, TaskState
<1> QED BY <1>1, <1>2, <1>3, <1>4 DEF TimedAction

\* Integer division of naturals stays in the naturals.
LEMMA DivNat ==
    ASSUME NEW a \in Nat, NEW d \in Nat, d > 0
    PROVE  a \div d \in Nat
BY SMT

\* PhaseAt always answers one of the phases it is given, whatever the clock says
\* (the clamps of Server.advance).
LEMMA PhaseAtInPhases ==
    ASSUME NEW a \in TimedAction, NEW e \in Int, Duration > 0
    PROVE  \E i \in 1..Len(Timed[a].phases) :
               PhaseAt(Timed[a].phases, e) = Timed[a].phases[i]
<1> DEFINE n    == Len(Timed[a].phases)
           past == IF e > 0 THEN e ELSE 0
           step == (past * n) \div Duration
           i    == 1 + (IF step < n THEN step ELSE n - 1)
<1>1. n \in Nat /\ n > 0
  BY PhasesType
<1>2. past * n \in Nat
  <2>1. past \in Nat
    OBVIOUS
  <2> HIDE DEF n, past
  <2> QED BY <1>1, <2>1
<1>3. step \in Nat
  BY <1>2, DivNat, ServerLifecycleAssumption
<1>4. i \in 1..n
  <2> HIDE DEF n, step
  <2> QED BY <1>1, <1>3
<1>5. PhaseAt(Timed[a].phases, e) = Timed[a].phases[i]
  BY DEF PhaseAt
<1> QED BY <1>4, <1>5

\* The lists of phases a record may hold.
LEMMA PhaseListFacts ==
    /\ <<>> \in PhaseList
    /\ \A a \in TimedAction : Timed[a].phases \in PhaseList
BY DEF PhaseList

\* Setting the fields of a task changes those fields and nothing else.
LEMMA EditTask ==
    ASSUME NEW r \in ServerRecord, NEW t \in TaskState \cup {"None"},
           NEW p \in PhaseList, NEW u \in {"ACTIVE", "SHUTOFF", "None"}
    PROVE  LET q == SetTask(r, t, p, u)
           IN  /\ q \in ServerRecord
               /\ q.task = t /\ q.phases = p /\ q.result = u /\ q.elapsed = 0
               /\ q.status = r.status /\ q.power = r.power
               /\ q.origFlavor = r.origFlavor /\ q.preStatus = r.preStatus
               /\ q.flavor = r.flavor
<1> DEFINE q == SetTask(r, t, p, u)
<1>1. PICK e \in Int : e = 0
  OBVIOUS
<1>2. q = [r EXCEPT !.task = t, !.phases = p, !.result = u, !.elapsed = e]
  BY <1>1 DEF SetTask
<1>3. q.elapsed = 0
  BY <1>1, <1>2 DEF ServerRecord
<1> QED BY <1>2, <1>3 DEF ServerRecord

\* Dropping a task, as os-resetState and the status page do, keeps a record good.
LEMMA CancelTaskGood ==
    ASSUME NEW r, GoodRecord(r)
    PROVE  /\ GoodRecord(CancelTask(r))
           /\ CancelTask(r).task = "None" /\ CancelTask(r).flavor = r.flavor
<1> DEFINE q == CancelTask(r)
<1>1. r \in ServerRecord
  BY DEF GoodRecord
<1>2. /\ q \in ServerRecord
      /\ q.task = "None" /\ q.phases = <<>> /\ q.result = "None"
      /\ q.status = r.status /\ q.power = r.power
      /\ q.origFlavor = r.origFlavor /\ q.preStatus = r.preStatus
      /\ q.flavor = r.flavor
  BY <1>1, PhaseListFacts, EditTask DEF CancelTask
<1> QED
  BY <1>2 DEF GoodRecord, TaskRule, PowerRule, ResizeRule, FlavorRule

\* Looking at a server keeps its record good: the task shows one of its phases,
\* or has settled into its result and the power state that goes with it.
LEMMA AdvanceGood ==
    ASSUME NEW r,
           r \in ServerRecord, TaskRule(r), PowerRule(r), ResizeRule(r),
           FlavorRule(r),
           r.task # "None" /\ r.elapsed < Duration => Duration > 0
    PROVE  GoodRecord(Advance(r)) /\ Advance(r).flavor = r.flavor
<1>1. CASE r.task = "None"
  BY <1>1 DEF Advance, GoodRecord
<1>2. CASE r.task # "None" /\ r.elapsed >= Duration
  <2>1. r.result \in {"ACTIVE", "SHUTOFF"}
    BY <1>2, TimedFacts DEF TaskRule
  <2> DEFINE c  == CancelTask(r)
             pw == IF r.result = "ACTIVE" THEN "RUNNING" ELSE "SHUTDOWN"
             q  == [c EXCEPT !.status = r.result, !.power = pw]
  <2>2. Advance(r) = q
    BY <1>2 DEF Advance
  <2>3. /\ c \in ServerRecord
        /\ c.task = "None" /\ c.phases = <<>> /\ c.result = "None"
        /\ c.flavor = r.flavor
    BY PhaseListFacts, EditTask DEF CancelTask
  <2>4. r.result \in Status /\ pw \in PowerState
    BY <2>1 DEF Status, PowerState
  <2>5. /\ q \in ServerRecord
        /\ q.status = r.result /\ q.power = pw /\ q.flavor = r.flavor
        /\ q.task = "None" /\ q.phases = <<>> /\ q.result = "None"
    <3> HIDE DEF c, pw
    <3> QED BY <2>3, <2>4 DEF ServerRecord
  <2>6. GoodRecord(q)
    <3> HIDE DEF q
    <3>1. r.flavor # NoFlavor
      BY <1>2, TimedFacts DEF TaskRule, FlavorRule
    <3> QED BY <2>1, <2>5, <3>1 DEF GoodRecord, TaskRule, PowerRule, ResizeRule, FlavorRule
  <2> QED BY <2>2, <2>5, <2>6
<1>3. CASE r.task # "None" /\ ~(r.elapsed >= Duration)
  <2>1. PICK a \in TimedAction :
            /\ r.phases = Timed[a].phases
            /\ r.result = Timed[a].result
            /\ r.status \in VmStates[a]
    BY <1>3 DEF TaskRule
  <2>2. r.elapsed \in Int /\ Duration > 0
    BY <1>3, ServerLifecycleAssumption DEF ServerRecord
  <2>3. PICK i \in 1..Len(r.phases) : PhaseAt(r.phases, r.elapsed) = r.phases[i]
    BY <2>1, <2>2, PhaseAtInPhases
  <2>4. r.phases[i] \in TaskState
    BY <2>1, PhasesType
  <2>5. Advance(r) = [r EXCEPT !.task = r.phases[i]]
    BY <1>3, <2>3 DEF Advance
  <2> DEFINE q == [r EXCEPT !.task = r.phases[i]]
  <2>6. q \in ServerRecord
    BY <2>4 DEF ServerRecord
  <2>7. /\ q.task = r.phases[i] /\ q.phases = r.phases /\ q.result = r.result
        /\ q.status = r.status /\ q.power = r.power
        /\ q.origFlavor = r.origFlavor /\ q.preStatus = r.preStatus
        /\ q.flavor = r.flavor
    BY DEF ServerRecord
  <2>8. TaskRule(q)
    <3>1. q.task # "None"
      BY <2>4, <2>7 DEF TaskState
    <3>2. \E j \in 1..Len(q.phases) : q.task = q.phases[j]
      BY <2>7
    <3> QED BY <2>1, <2>7, <3>1, <3>2 DEF TaskRule
  <2>9. PowerRule(q) /\ ResizeRule(q) /\ FlavorRule(q)
    BY <1>3, <2>7 DEF PowerRule, ResizeRule, FlavorRule
  <2> QED BY <2>2, <2>5, <2>6, <2>7, <2>8, <2>9 DEF GoodRecord
<1> QED BY <1>1, <1>2, <1>3

\* A good record stays good when somebody looks at it.
COROLLARY LookGood ==
    ASSUME NEW r, GoodRecord(r)
    PROVE  GoodRecord(Advance(r)) /\ Advance(r).flavor = r.flavor
BY AdvanceGood DEF GoodRecord

\* Starting a timed action on a record its rule admits gives a good record.
LEMMA BeginTaskGood ==
    ASSUME NEW r, GoodRecord(r), NEW a \in TimedAction, r.status \in VmStates[a]
    PROVE  GoodRecord(BeginTask(r, Timed[a].phases, Timed[a].result))
<1> DEFINE ph == Timed[a].phases
           q  == SetTask(r, ph[1], ph, Timed[a].result)
<1>1. ph[1] \in TaskState /\ 1 \in 1..Len(ph)
  BY PhasesType
<1>2. /\ Timed[a].result \in {"ACTIVE", "SHUTOFF"}
      /\ r.status \notin {"VERIFY_RESIZE", "UNBORN", "DELETED"}
  BY TimedFacts
<1>3. r \in ServerRecord /\ ph \in PhaseList
  BY PhaseListFacts DEF GoodRecord
<1>4. /\ q \in ServerRecord
      /\ q.task = ph[1] /\ q.phases = ph /\ q.result = Timed[a].result
      /\ q.elapsed = 0 /\ q.status = r.status /\ q.power = r.power
      /\ q.flavor = r.flavor
  <2> HIDE DEF ph
  <2> QED BY <1>1, <1>2, <1>3, EditTask
<1>5. TaskRule(q)
  <2>1. q.task # "None"
    BY <1>1, <1>4 DEF TaskState
  <2> QED BY <1>1, <1>4, <2>1 DEF TaskRule
<1>6. PowerRule(q) /\ ResizeRule(q) /\ FlavorRule(q)
  BY <1>2, <1>4 DEF GoodRecord, PowerRule, ResizeRule, FlavorRule
<1>7. q.elapsed < Duration => Duration > 0
  BY <1>4, ServerLifecycleAssumption
<1>8. GoodRecord(Advance(q))
  <2> HIDE DEF q
  <2> QED BY <1>4, <1>5, <1>6, <1>7, AdvanceGood
<1> QED BY <1>8 DEF BeginTask

\* Every action of SERVER_ACTION_RULES keeps the record of a server it accepts good.
LEMMA PerformGood ==
    ASSUME NEW r, GoodRecord(r), NEW a \in Action,
           CheckServerState(r, VmStates[a], TaskStates(a))
    PROVE  GoodRecord(Perform(r, a))
<1>1. CASE a \in TimedAction
  BY <1>1, BeginTaskGood DEF Perform, CheckServerState
<1>2. CASE a \in SettledAction
  <2>1. r.task = "None" /\ r.status \notin {"UNBORN", "DELETED"}
    BY <1>2 DEF SettledAction, CheckServerState, TaskStates, VmStates
  <2>2. a \notin TimedAction
    BY <1>2 DEF SettledAction, TimedAction
  <2>3. Perform(r, a) = [r EXCEPT !.status = Settled[a].status,
                                  !.power  = Settled[a].power]
    BY <1>2, <2>2 DEF Perform
  <2>4. \/ Settled[a].status = "PAUSED"    /\ Settled[a].power = "PAUSED"
        \/ Settled[a].status = "ACTIVE"    /\ Settled[a].power = "RUNNING"
        \/ Settled[a].status = "SUSPENDED" /\ Settled[a].power = "SUSPENDED"
        \/ Settled[a].status = "SHELVED"   /\ Settled[a].power = "SHUTDOWN"
    BY <1>2 DEF SettledAction, Settled
  <2> QED
    BY <2>1, <2>3, <2>4 DEF GoodRecord, ServerRecord, Status, PowerState,
                            TaskRule, PowerRule, ResizeRule, FlavorRule
<1>3. CASE a \in ResizeAnswer
  <2>1. r.task = "None" /\ r.status = "VERIFY_RESIZE"
    BY <1>3 DEF ResizeAnswer, CheckServerState, TaskStates, VmStates
  <2>2. a \notin TimedAction /\ a \notin SettledAction
    BY <1>3 DEF ResizeAnswer, SettledAction, TimedAction
  <2> DEFINE back == IF r.preStatus = "SHUTOFF" THEN "SHUTOFF" ELSE "ACTIVE"
             fl   == IF a = "revertresize" /\ r.origFlavor # NoFlavor
                     THEN r.origFlavor ELSE r.flavor
  <2>3. Perform(r, a) =
          [r EXCEPT !.flavor = fl, !.status = back,
                    !.power  = IF back = "SHUTOFF" THEN "SHUTDOWN" ELSE "RUNNING",
                    !.origFlavor = NoFlavor, !.preStatus = "None"]
    BY <1>3, <2>2 DEF Perform
  <2>4. /\ fl \in Flavor \cup {NoFlavor} /\ fl # NoFlavor
        /\ back \in {"SHUTOFF", "ACTIVE"}
    BY <2>1 DEF GoodRecord, ServerRecord, FlavorRule
  <2> QED
    <3> HIDE DEF fl, back
    <3> QED
      BY <2>1, <2>3, <2>4 DEF GoodRecord, ServerRecord, Status, PowerState,
                              TaskRule, PowerRule, ResizeRule, FlavorRule
<1> QED BY <1>1, <1>2, <1>3 DEF Action

\* Time passing, or a clock stepped back, changes nothing but the age.
LEMMA AgedGood ==
    ASSUME NEW r, GoodRecord(r), NEW d \in Int
    PROVE  GoodRecord(Aged(r, d))
BY ServerLifecycleAssumption
   DEF Aged, GoodRecord, ServerRecord, TaskRule, PowerRule, ResizeRule, FlavorRule

----------------------------------------------------------------------------
(* Collections of servers.                                                 *)

\* Replacing one server's record by a good one keeps the collection good.
LEMMA PutGood ==
    ASSUME NEW sv, ServersOK(sv), NEW s \in Server, NEW r, GoodRecord(r)
    PROVE  ServersOK([sv EXCEPT ![s] = r])
<1> DEFINE nv == [sv EXCEPT ![s] = r]
<1>1. nv \in [Server -> ServerRecord]
  BY DEF ServersOK, GoodRecord
<1>2. \A x \in Server : nv[x] = IF x = s THEN r ELSE sv[x]
  BY DEF ServersOK
<1>3. \A x \in Server : GoodRecord(nv[x])
  BY <1>2 DEF ServersOK
<1> QED BY <1>1, <1>3 DEF ServersOK

\* A collection made of good records is good.
LEMMA MapGood ==
    ASSUME NEW sv, NEW nv, nv = [s \in Server |-> sv[s]],
           \A s \in Server : GoodRecord(sv[s])
    PROVE  ServersOK(nv)
BY DEF ServersOK, GoodRecord

\* A server that does not exist has a good record.
LEMMA AbsentGood ==
    ASSUME NEW st \in {"UNBORN", "DELETED"}
    PROVE  GoodRecord(Absent(st))
<1> DEFINE r == Absent(st)
<1>1. r \in ServerRecord
  BY PhaseListFacts DEF Absent, ServerRecord, PowerState, Status
<1>2. /\ r.task = "None" /\ r.phases = <<>> /\ r.result = "None"
      /\ r.status = st
  BY DEF Absent
<1> QED BY <1>1, <1>2 DEF GoodRecord, TaskRule, PowerRule, ResizeRule, FlavorRule

\* A save copies memory into the file, or, without --auto-save, does nothing.
LEMMA SaveGood ==
    ASSUME DiskOK, Save, MemoryOK'
    PROVE  DiskOK'
<1>1. CASE AutoSave
  <2>1. disk' = Image(servers', flavors', snapshots')
    BY <1>1 DEF Save
  <2>2. /\ disk' \in [servers : [Server -> ServerRecord],
                      flavors : SUBSET Flavor, snapshots : SUBSET Server]
        /\ disk'.servers = servers'
    BY <2>1 DEF Image, MemoryOK, ServersOK
  <2> QED BY <2>2 DEF DiskOK, MemoryOK
<1>2. CASE ~AutoSave
  BY <1>2 DEF Save, DiskOK
<1> QED BY <1>1, <1>2

\* The answer to an action request puts one good record in place.
LEMMA AnswerGood ==
    ASSUME IInv, NEW c \in Client, pending[c] \in Server,
           NEW r, GoodRecord(r), Answer(c, r)
    PROVE  ServersOK(servers') /\ pending' \in [Client -> Server \cup {Idle}]
<1>1. ServersOK(servers')
  BY PutGood DEF Answer, IInv, MemoryOK
<1>2. pending' \in [Client -> Server \cup {Idle}]
  BY DEF Answer, IInv, OtherOK
<1> QED BY <1>1, <1>2

\* A request that waits for its body waits for a server, and that server's
\* record, looked at, is good.
LEMMA WaitingGood ==
    ASSUME IInv, NEW c \in Client, Waiting(c)
    PROVE  /\ pending[c] \in Server
           /\ GoodRecord(servers[pending[c]])
           /\ GoodRecord(Current(c))
<1>1. pending[c] \in Server
  BY DEF Waiting, IInv, OtherOK
<1>2. GoodRecord(servers[pending[c]])
  BY <1>1 DEF IInv, MemoryOK, ServersOK
<1> QED BY <1>1, <1>2, LookGood DEF Current

----------------------------------------------------------------------------
(* The invariant holds initially and every action keeps it.                *)

\* The emulator starts with an empty inventory, which obeys every rule.
LEMMA InitInv == Init => IInv
<1> SUFFICES ASSUME Init PROVE IInv
  OBVIOUS
<1>1. GoodRecord(Absent("UNBORN"))
  BY AbsentGood
<1>2. ServersOK(servers)
  BY <1>1 DEF Init, ServersOK, GoodRecord
<1>3. MemoryOK
  BY <1>2 DEF MemoryOK, Init
<1>4. DiskOK
  BY <1>2, <1>3 DEF DiskOK, MemoryOK, Init, Image, ServersOK
<1>5. OtherOK
  BY ServerLifecycleAssumption DEF OtherOK, Init
<1> QED BY <1>3, <1>4, <1>5 DEF IInv

\* The rules survive creating, looking at, listing, deleting and overriding.
LEMMA RequestInv ==
    ASSUME IInv,
           \/ \E s \in Server, f \in Flavor : CreateServer(s, f)
           \/ \E s \in Server : GetServer(s)
           \/ ListServers
           \/ \E s \in Server : DeleteServer(s)
           \/ \E s \in Server, name \in {"start", "stop", "reboot"} :
                  OverrideServer(s, name)
    PROVE  IInv'
<1> USE DEF IInv
<1>1. ASSUME NEW s \in Server, NEW f \in Flavor, CreateServer(s, f)
      PROVE  IInv'
  <2> DEFINE b == Absent("ACTIVE")
             r == [b EXCEPT !.power = "RUNNING", !.flavor = f]
  <2>1. /\ b \in ServerRecord
        /\ b.task = "None" /\ b.phases = <<>> /\ b.result = "None"
        /\ b.status = "ACTIVE"
    BY PhaseListFacts DEF Absent, ServerRecord, PowerState, Status
  <2>2. /\ r \in ServerRecord
        /\ r.task = "None" /\ r.phases = <<>> /\ r.result = "None"
        /\ r.status = "ACTIVE" /\ r.flavor # NoFlavor
    <3> HIDE DEF b
    <3> QED BY <2>1, ServerLifecycleAssumption DEF ServerRecord, PowerState
  <2>3. GoodRecord(r)
    <3> HIDE DEF r
    <3> QED BY <2>1, <2>2 DEF GoodRecord, TaskRule, PowerRule, ResizeRule, FlavorRule
  <2>4. MemoryOK'
    BY <1>1, <2>3, PutGood DEF CreateServer, MemoryOK
  <2>5. DiskOK'
    BY <1>1, <2>4, SaveGood DEF CreateServer
  <2> QED BY <1>1, <2>4, <2>5 DEF CreateServer, OtherOK
<1>2. ASSUME NEW s \in Server, GetServer(s) PROVE IInv'
  <2>1. GoodRecord(Advance(servers[s]))
    BY LookGood DEF MemoryOK, ServersOK
  <2>2. MemoryOK'
    BY <1>2, <2>1, PutGood DEF GetServer, MemoryOK
  <2> QED BY <1>2, <2>2 DEF GetServer, OtherOK, DiskOK
<1>3. CASE ListServers
  <2>1. \A s \in Server : GoodRecord(Advance(servers[s]))
    BY LookGood DEF MemoryOK, ServersOK
  <2>2. ServersOK(servers')
    BY <1>3, <2>1 DEF ListServers, ServersOK, GoodRecord
  <2> QED BY <1>3, <2>2 DEF ListServers, MemoryOK, OtherOK, DiskOK
<1>4. ASSUME NEW s \in Server, DeleteServer(s) PROVE IInv'
  <2>1. GoodRecord(Absent("DELETED"))
    BY AbsentGood
  <2>2. MemoryOK'
    BY <1>4, <2>1, PutGood DEF DeleteServer, MemoryOK
  <2>3. DiskOK'
    BY <1>4, <2>2, SaveGood DEF DeleteServer
  <2> QED BY <1>4, <2>2, <2>3 DEF DeleteServer, OtherOK
<1>5. ASSUME NEW s \in Server, NEW name \in {"start", "stop", "reboot"},
             OverrideServer(s, name)
      PROVE  IInv'
  <2> DEFINE c  == CancelTask(Advance(servers[s]))
             st == IF name = "stop" THEN "SHUTOFF" ELSE "ACTIVE"
             pw == IF name = "stop" THEN "SHUTDOWN" ELSE "RUNNING"
             r  == [c EXCEPT !.status = st, !.power = pw]
  <2>1. GoodRecord(Advance(servers[s])) /\ Advance(servers[s]).flavor # NoFlavor
    BY <1>5, LookGood DEF MemoryOK, ServersOK, OverrideServer, Live, GoodRecord,
                          FlavorRule
  <2>2. GoodRecord(c) /\ c.task = "None" /\ c.flavor # NoFlavor
    BY <2>1, CancelTaskGood
  <2>4. \/ st = "SHUTOFF" /\ pw = "SHUTDOWN"
        \/ st = "ACTIVE" /\ pw = "RUNNING"
    OBVIOUS
  <2>5. GoodRecord(r)
    <3> HIDE DEF c, st, pw
    <3> QED BY <2>2, <2>4 DEF GoodRecord, ServerRecord, Status, PowerState,
                               TaskRule, PowerRule, ResizeRule, FlavorRule
  <2>6. MemoryOK'
    BY <1>5, <2>5, PutGood DEF OverrideServer, MemoryOK
  <2> QED BY <1>5, <2>6 DEF OverrideServer, OtherOK, DiskOK
<1> QED BY <1>1, <1>2, <1>3, <1>4, <1>5

\* The rules survive the action requests.
LEMMA ActionRequestInv ==
    ASSUME IInv, NEW c \in Client, ActionRequest(c)
    PROVE  IInv'
<1> USE DEF IInv
<1>1. ASSUME NEW s \in Server, ReceiveAction(c, s) PROVE IInv'
  <2>1. GoodRecord(Advance(servers[s]))
    BY LookGood DEF MemoryOK, ServersOK
  <2>2. MemoryOK'
    BY <1>1, <2>1, PutGood DEF ReceiveAction, MemoryOK
  <2>3. OtherOK'
    BY <1>1 DEF ReceiveAction, OtherOK
  <2> QED BY <1>1, <2>2, <2>3 DEF ReceiveAction, DiskOK
<1>2. CASE AbandonAction(c)
  BY <1>2 DEF AbandonAction, MemoryOK, DiskOK, OtherOK
<1>3. ASSUME NEW a \in Action, ServerAction(c, a) PROVE IInv'
  <2>1. pending[c] \in Server /\ GoodRecord(Perform(Current(c), a))
    BY <1>3, WaitingGood, PerformGood DEF ServerAction
  <2>2. ServersOK(servers') /\ pending' \in [Client -> Server \cup {Idle}]
    BY <1>3, <2>1, AnswerGood DEF ServerAction
  <2>3. MemoryOK'
    BY <1>3, <2>2 DEF ServerAction, MemoryOK
  <2>4. DiskOK'
    BY <1>3, <2>3, SaveGood DEF ServerAction
  <2> QED BY <1>3, <2>2, <2>3, <2>4 DEF ServerAction, OtherOK
<1>4. ASSUME NEW f \in Flavor, ServerResize(c, f) PROVE IInv'
  <2> DEFINE cur == Current(c)
             r   == [cur EXCEPT !.origFlavor = cur.flavor,
                                !.preStatus  = cur.status,
                                !.flavor     = f,
                                !.status     = "VERIFY_RESIZE",
                                !.power      = "SHUTDOWN"]
  <2>1. /\ pending[c] \in Server /\ GoodRecord(cur)
        /\ cur.status \in {"ACTIVE", "SHUTOFF"} /\ cur.task = "None"
    BY <1>4, WaitingGood DEF ServerResize, CheckServerState
  <2>2. cur.flavor # NoFlavor /\ f # NoFlavor
    BY <2>1, ServerLifecycleAssumption DEF GoodRecord, FlavorRule
  <2>3. GoodRecord(r)
    <3> HIDE DEF cur
    <3> QED BY <2>1, <2>2 DEF GoodRecord, ServerRecord, Status, PowerState,
                              TaskRule, PowerRule, ResizeRule, FlavorRule
  <2>4. ServersOK(servers') /\ pending' \in [Client -> Server \cup {Idle}]
    BY <1>4, <2>1, <2>3, AnswerGood DEF ServerResize
  <2>5. MemoryOK'
    BY <1>4, <2>4 DEF ServerResize, MemoryOK
  <2>6. DiskOK'
    BY <1>4, <2>5, SaveGood DEF ServerResize
  <2> QED BY <1>4, <2>4, <2>5, <2>6 DEF ServerResize, OtherOK
<1>5. ASSUME NEW st \in {"ACTIVE", "ERROR"}, ResetServerState(c, st) PROVE IInv'
  <2> DEFINE q == CancelTask(servers[pending[c]])
             r == [q EXCEPT !.status = st]
  <2>1. /\ pending[c] \in Server /\ GoodRecord(servers[pending[c]])
        /\ servers[pending[c]].flavor # NoFlavor
    BY <1>5, WaitingGood DEF ResetServerState, Waiting, Live, GoodRecord, FlavorRule
  <2>2. GoodRecord(q) /\ q.task = "None" /\ q.flavor # NoFlavor
    BY <2>1, CancelTaskGood
  <2>3. GoodRecord(r)
    <3> HIDE DEF q
    <3> QED BY <2>2 DEF GoodRecord, ServerRecord, Status, PowerState,
                        TaskRule, PowerRule, ResizeRule, FlavorRule
  <2>4. ServersOK(servers') /\ pending' \in [Client -> Server \cup {Idle}]
    BY <1>5, <2>1, <2>3, AnswerGood DEF ResetServerState
  <2>5. MemoryOK'
    BY <1>5, <2>4 DEF ResetServerState, MemoryOK
  <2>6. DiskOK'
    BY <1>5, <2>5, SaveGood DEF ResetServerState
  <2> QED BY <1>5, <2>4, <2>5, <2>6 DEF ResetServerState, OtherOK
<1>6. CASE CreateServerSnapshot(c)
  <2>1. pending[c] \in Server /\ GoodRecord(Current(c))
    BY <1>6, WaitingGood DEF CreateServerSnapshot
  <2>2. ServersOK(servers') /\ pending' \in [Client -> Server \cup {Idle}]
    BY <1>6, <2>1, AnswerGood DEF CreateServerSnapshot
  <2>3. MemoryOK'
    BY <1>6, <2>1, <2>2 DEF CreateServerSnapshot, MemoryOK
  <2> QED BY <1>6, <2>2, <2>3 DEF CreateServerSnapshot, DiskOK, OtherOK
<1>7. CASE RefuseAction(c)
  <2>1. pending[c] \in Server /\ GoodRecord(Current(c))
    BY <1>7, WaitingGood DEF RefuseAction
  <2>2. ServersOK(servers') /\ pending' \in [Client -> Server \cup {Idle}]
    BY <1>7, <2>1, AnswerGood DEF RefuseAction
  <2> QED BY <1>7, <2>2 DEF RefuseAction, MemoryOK, DiskOK, OtherOK
<1> QED BY <1>1, <1>2, <1>3, <1>4, <1>5, <1>6, <1>7 DEF ActionRequest

\* The rules survive the clock, in memory and in the file.
LEMMA AgeAllGood ==
    ASSUME IInv, NEW d \in Int, AgeAll(d)
    PROVE  ServersOK(servers') /\ DiskOK'
<1>1. \A s \in Server : /\ GoodRecord(Aged(servers[s], d))
                        /\ GoodRecord(Aged(disk.servers[s], d))
  BY AgedGood DEF IInv, MemoryOK, DiskOK, ServersOK
<1>2. ServersOK(servers')
  BY <1>1 DEF AgeAll, ServersOK, GoodRecord
<1> DEFINE df == [s \in Server |-> Aged(disk.servers[s], d)]
<1>3. ServersOK(df)
  BY <1>1 DEF ServersOK, GoodRecord
<1>4. disk' = [disk EXCEPT !.servers = df]
  BY DEF AgeAll
<1>5. DiskOK'
  <2> HIDE DEF df
  <2> QED BY <1>3, <1>4 DEF IInv, DiskOK, ServersOK
<1> QED BY <1>2, <1>5

\* Every step keeps the invariant.
LEMMA NextInv == IInv /\ [Next]_vars => IInv'
<1> SUFFICES ASSUME IInv, [Next]_vars PROVE IInv'
  OBVIOUS
<1>1. CASE \/ \E s \in Server, f \in Flavor : CreateServer(s, f)
           \/ \E s \in Server : GetServer(s)
           \/ ListServers
           \/ \E s \in Server : DeleteServer(s)
           \/ \E s \in Server, name \in {"start", "stop", "reboot"} :
                  OverrideServer(s, name)
  BY <1>1, RequestInv
<1>2. ASSUME NEW f \in Flavor, CreateFlavor(f) \/ DeleteFlavor(f) PROVE IInv'
  <2>1. MemoryOK'
    BY <1>2 DEF CreateFlavor, DeleteFlavor, IInv, MemoryOK
  <2>2. DiskOK'
    BY <1>2, <2>1, SaveGood DEF CreateFlavor, DeleteFlavor, IInv
  <2> QED BY <1>2, <2>1, <2>2 DEF CreateFlavor, DeleteFlavor, IInv, OtherOK
<1>3. ASSUME NEW c \in Client, ActionRequest(c) PROVE IInv'
  BY <1>3, ActionRequestInv
<1>4. CASE Tick
  <2>1. ServersOK(servers') /\ DiskOK'
    BY <1>4, AgeAllGood DEF Tick
  <2> QED BY <1>4, <2>1 DEF Tick, IInv, MemoryOK, OtherOK
<1>5. CASE ClockStepsBack
  <2>1. ServersOK(servers') /\ DiskOK'
    BY <1>5, AgeAllGood DEF ClockStepsBack
  <2>2. backSteps' \in 0..MaxBack
    BY <1>5, ServerLifecycleAssumption DEF ClockStepsBack, IInv, OtherOK
  <2> QED BY <1>5, <2>1, <2>2 DEF ClockStepsBack, IInv, MemoryOK, OtherOK
<1>6. CASE Restart
  BY <1>6 DEF Restart, IInv, MemoryOK, DiskOK, OtherOK
<1>7. CASE UNCHANGED vars
  BY <1>7 DEF vars, IInv, MemoryOK, DiskOK, OtherOK, ServersOK
<1> QED
  BY <1>1, <1>2, <1>3, <1>4, <1>5, <1>6, <1>7
  DEF Next, ServerReads, ServerRequests, StatusPage, FlavorRequests

----------------------------------------------------------------------------
(* What follows.                                                           *)

\* In every reachable state memory and file obey the rules.
THEOREM Invariance == Spec => []IInv
BY InitInv, NextInv, PTL DEF Spec

\* The invariant implies the properties the runs check.
LEMMA InvConsequences ==
    IInv => TypeOK /\ TaskCoherent /\ PowerAgrees /\ ResizeRevertible
<1> SUFFICES ASSUME IInv
             PROVE  TypeOK /\ TaskCoherent /\ PowerAgrees /\ ResizeRevertible
  OBVIOUS
<1>1. \A s \in Server : GoodRecord(servers[s]) /\ GoodRecord(disk.servers[s])
  BY DEF IInv, MemoryOK, DiskOK, ServersOK
<1>2. TypeOK
  BY DEF IInv, MemoryOK, DiskOK, OtherOK, ServersOK, TypeOK
<1> QED
  BY <1>1, <1>2 DEF GoodRecord, TaskCoherent, PowerAgrees, ResizeRevertible

\* The fields and containers of the compute service hold what they are declared
\* to hold, whatever is requested, in whatever order, across restarts.
THEOREM TypeCorrect == Spec => []TypeOK
BY Invariance, InvConsequences, PTL

\* No action, reset, override, restart or clock step leaves a task in progress
\* beside a status that the task's action does not accept.
THEOREM TasksCoherent == Spec => []TaskCoherent
BY Invariance, InvConsequences, PTL

\* Every status but ACTIVE and ERROR implies its power state.
THEOREM PowerFollowsStatus == Spec => []PowerAgrees
BY Invariance, InvConsequences, PTL

\* A server waiting for confirmResize or revertResize can be reverted: it knows
\* its old flavor and status, and no task can end the wait behind its back.
THEOREM ResizeCanRevert == Spec => []ResizeRevertible
BY Invariance, InvConsequences, PTL

----------------------------------------------------------------------------
(* What memory makes of the file.  An unsaved step may move a server ahead *)
(* of its copy in the file, by settling a task or dropping it, but it      *)
(* begins no task and neither creates nor deletes.                         *)

\* What is known of a record q made from r without a save: every task of q is a
\* task of r at the same point, and q exists when r does.
TasksFrom(q, r) ==
    /\ q.status \in {"UNBORN", "DELETED"} \/ r.status \in {"UNBORN", "DELETED"}
          => q.status = r.status
    /\ q.task # "None" =>
          /\ r.task # "None"
          /\ r.phases = q.phases
          /\ r.elapsed = q.elapsed
          /\ r.status = q.status

\* The strengthening AcceptedTaskIsSaved needs: with --auto-save memory descends
\* from the file without a save in between; without it the file stays empty.
FileInv ==
    \A s \in Server :
        IF AutoSave THEN TasksFrom(servers[s], disk.servers[s])
                    ELSE disk.servers[s].status = "UNBORN"

\* Steps that save nothing can be put one after the other.
LEMMA TasksFromTransitive ==
    ASSUME NEW p, NEW q, NEW r, TasksFrom(p, q), TasksFrom(q, r)
    PROVE  TasksFrom(p, r)
BY DEF TasksFrom

\* A server that does not exist has no task.
LEMMA AbsentHasNoTask ==
    ASSUME NEW r, GoodRecord(r), r.status \in {"UNBORN", "DELETED"}
    PROVE  r.task = "None"
BY TimedFacts DEF GoodRecord, TaskRule

\* What looking at a server (Server.advance) does to its task: nothing if there
\* is none, the end if its time has come, another of its phases otherwise.
LEMMA AdvanceFacts ==
    ASSUME NEW r, GoodRecord(r)
    PROVE  LET q == Advance(r)
           IN  /\ r.task = "None" => q = r
               /\ r.task # "None" /\ r.elapsed >= Duration =>
                      /\ q.task = "None"
                      /\ q.status = r.result /\ q.status \in {"ACTIVE", "SHUTOFF"}
               /\ r.task # "None" /\ r.elapsed < Duration =>
                      /\ q.task = PhaseAt(r.phases, r.elapsed)
                      /\ q.task # "None"
                      /\ q.phases = r.phases /\ q.elapsed = r.elapsed
                      /\ q.status = r.status /\ q.result = r.result
<1>1. CASE r.task = "None"
  BY <1>1 DEF Advance
<1>2. CASE r.task # "None" /\ r.elapsed >= Duration
  <2> DEFINE c  == CancelTask(r)
             pw == IF r.result = "ACTIVE" THEN "RUNNING" ELSE "SHUTDOWN"
  <2>1. r.result \in {"ACTIVE", "SHUTOFF"}
    BY <1>2, TimedFacts DEF GoodRecord, TaskRule
  <2>2. Advance(r) = [c EXCEPT !.status = r.result, !.power = pw]
    BY <1>2 DEF Advance
  <2>3. c \in ServerRecord /\ c.task = "None"
    BY CancelTaskGood DEF GoodRecord
  <2> HIDE DEF c, pw
  <2> QED BY <1>2, <2>1, <2>2, <2>3, ServerLifecycleAssumption
          DEF ServerRecord, GoodRecord
<1>3. CASE r.task # "None" /\ ~(r.elapsed >= Duration)
  <2>1. Advance(r) = [r EXCEPT !.task = PhaseAt(r.phases, r.elapsed)]
    BY <1>3 DEF Advance
  <2>2. PICK a \in TimedAction : r.phases = Timed[a].phases
    BY <1>3 DEF GoodRecord, TaskRule
  <2>3. r \in ServerRecord /\ r.elapsed \in Int /\ Duration > 0
    BY <1>3 DEF GoodRecord, ServerRecord
  <2>4. PICK i \in 1..Len(r.phases) : PhaseAt(r.phases, r.elapsed) = r.phases[i]
    BY <2>2, <2>3, PhaseAtInPhases
  <2>5. PhaseAt(r.phases, r.elapsed) \in TaskState
    BY <2>2, <2>4, PhasesType
  <2> QED BY <1>3, <2>1, <2>3, <2>5 DEF ServerRecord, TaskState
<1> QED
  BY <1>1, <1>2, <1>3, ServerLifecycleAssumption DEF GoodRecord, ServerRecord

\* Looking at a server begins no task, creates nothing and deletes nothing.
LEMMA AdvanceFrom ==
    ASSUME NEW r, GoodRecord(r)
    PROVE  TasksFrom(Advance(r), r)
<1>1. CASE r.task = "None"
  BY <1>1, AdvanceFacts DEF TasksFrom
<1>2. CASE r.task # "None" /\ r.elapsed >= Duration
  BY <1>2, AdvanceFacts, AbsentHasNoTask DEF TasksFrom
<1>3. CASE r.task # "None" /\ r.elapsed < Duration
  BY <1>3, AdvanceFacts DEF TasksFrom
<1> QED
  BY <1>1, <1>2, <1>3, ServerLifecycleAssumption DEF GoodRecord, ServerRecord

\* Time passes in memory and in the file alike.
LEMMA AgedFrom ==
    ASSUME NEW q, GoodRecord(q), NEW r, GoodRecord(r), TasksFrom(q, r),
           NEW d \in Int
    PROVE  TasksFrom(Aged(q, d), Aged(r, d))
BY ServerLifecycleAssumption DEF Aged, TasksFrom, GoodRecord, ServerRecord

\* A task that begins is at the first instant of its phases, or over already
\* when tasks take no time.
LEMMA BeginTaskFacts ==
    ASSUME NEW r, GoodRecord(r), NEW a \in TimedAction, r.status \in VmStates[a]
    PROVE  LET q == BeginTask(r, Timed[a].phases, Timed[a].result)
           IN  IF Duration = 0
               THEN q.task = "None" /\ q.status = Timed[a].result
               ELSE /\ q.task = PhaseAt(Timed[a].phases, 0)
                    /\ q.phases = Timed[a].phases /\ q.elapsed = 0
                    /\ q.status = r.status
<1> DEFINE ph == Timed[a].phases
           k  == SetTask(r, ph[1], ph, Timed[a].result)
           q  == Advance(k)
<1>1. /\ ph[1] \in TaskState /\ ph \in PhaseList
      /\ Timed[a].result \in {"ACTIVE", "SHUTOFF"}
  BY PhasesType, PhaseListFacts, TimedFacts
<1>2. /\ k \in ServerRecord /\ k.task # "None" /\ k.phases = ph
      /\ k.result = Timed[a].result /\ k.elapsed = 0 /\ k.status = r.status
  <2>1. ph[1] # "None"
    BY <1>1 DEF TaskState
  <2>2. r \in ServerRecord
    BY DEF GoodRecord
  <2> HIDE DEF ph
  <2> QED BY <1>1, <2>1, <2>2, EditTask
<1>3. q = BeginTask(r, Timed[a].phases, Timed[a].result)
  BY DEF BeginTask
<1>4. CASE Duration = 0
  <2> DEFINE c  == CancelTask(k)
             pw == IF k.result = "ACTIVE" THEN "RUNNING" ELSE "SHUTDOWN"
  <2> HIDE DEF k, ph
  <2>1. q = [c EXCEPT !.status = k.result, !.power = pw]
    BY <1>2, <1>4 DEF Advance
  <2>2. c \in ServerRecord /\ c.task = "None"
    <3>1. k \in ServerRecord
      BY <1>2
    <3> QED BY <3>1, PhaseListFacts, EditTask DEF CancelTask
  <2> HIDE DEF c, pw, q
  <2>3. q.task = "None" /\ q.status = k.result
    BY <2>1, <2>2 DEF ServerRecord
  <2> QED BY <1>2, <1>3, <1>4, <2>3
<1>5. CASE Duration # 0
  <2> HIDE DEF k, ph
  <2>1. ~(k.elapsed >= Duration)
    BY <1>2, <1>5, ServerLifecycleAssumption
  <2>2. q = [k EXCEPT !.task = PhaseAt(ph, 0)]
    BY <1>2, <2>1 DEF Advance
  <2>3. /\ q.task = PhaseAt(ph, 0) /\ q.phases = ph /\ q.elapsed = 0
        /\ q.status = r.status
    <3> HIDE DEF q
    <3> QED BY <1>2, <2>2 DEF ServerRecord
  <2> USE DEF ph
  <2> QED BY <1>3, <1>5, <2>3
<1> QED BY <1>4, <1>5

----------------------------------------------------------------------------
(* What a step makes of one server.                                        *)

\* What a request makes of a server's record, whichever request it is: it leaves
\* it alone, looks at it, creates it, deletes it, leaves it without a task (an
\* override, a reset, a resize, an action that settles at once; the last two wait
\* for the end of a task), or begins a timed action whose rule the record looked
\* at obeys.
RequestStep(r, q) ==
    \/ q = r
    \/ q = Advance(r)
    \/ r.status = "UNBORN" /\ q.status = "ACTIVE" /\ q.task = "None"
    \/ /\ r.status \notin {"UNBORN", "DELETED"}
       /\ q.status # "UNBORN"
       /\ q.task = "None"
       /\ \/ Advance(r).task = "None"
          \/ q.status \in {"ACTIVE", "SHUTOFF", "ERROR", "DELETED"}
    \/ /\ r.status \notin {"UNBORN", "DELETED"}
       /\ \E a \in TimedAction :
             /\ CheckServerState(Advance(r), VmStates[a], TaskStates(a))
             /\ q = BeginTask(Advance(r), Timed[a].phases, Timed[a].result)

\* Somebody looks at some servers, or at none.
Look ==
    /\ disk' = disk
    /\ \A s \in Server : servers'[s] \in {servers[s], Advance(servers[s])}

OthersStay(s) == \A t \in Server \ {s} : servers'[t] = servers[t]

\* The status page's override: nothing is saved.
Override(s) ==
    /\ disk' = disk
    /\ OthersStay(s)
    /\ servers[s].status \notin {"UNBORN", "DELETED"}
    /\ servers'[s].status \in {"ACTIVE", "SHUTOFF"}
    /\ servers'[s].task = "None"

\* A request about s that is followed by a save.
SavedRequest(s) ==
    /\ Save
    /\ OthersStay(s)
    /\ RequestStep(servers[s], servers'[s])

\* What a request makes of all servers and of the file.
RequestsStep ==
    \/ Look
    \/ \E s \in Server : Override(s)
    \/ Save /\ UNCHANGED servers
    \/ \E s \in Server : SavedRequest(s)

\* A step that looks at one server.
LEMMA PutLooked ==
    ASSUME IInv, NEW s \in Server, disk' = disk,
           servers' = [servers EXCEPT ![s] = Advance(servers[s])]
    PROVE  RequestsStep
BY DEF IInv, MemoryOK, ServersOK, RequestsStep, Look

\* A step that saves and puts one record in place.
LEMMA PutSaved ==
    ASSUME IInv, NEW s \in Server, NEW q,
           servers' = [servers EXCEPT ![s] = q], Save,
           RequestStep(servers[s], q)
    PROVE  RequestsStep
<1>1. \A x \in Server : servers'[x] = IF x = s THEN q ELSE servers[x]
  BY DEF IInv, MemoryOK, ServersOK
<1> QED BY <1>1 DEF RequestsStep, SavedRequest, OthersStay

\* Of each server: a request is followed by a save, or leaves the file as it is
\* and memory descending from what it was.
LEMMA RequestsOnEach ==
    ASSUME IInv, RequestsStep
    PROVE  /\ \A s \in Server : RequestStep(servers[s], servers'[s])
           /\ \/ Save
              \/ /\ disk' = disk
                 /\ \A s \in Server : TasksFrom(servers'[s], servers[s])
<1>1. CASE Look
  <2>1. \A s \in Server : GoodRecord(servers[s])
    BY DEF IInv, MemoryOK, ServersOK
  <2> QED BY <1>1, <2>1, AdvanceFrom DEF Look, RequestStep, TasksFrom
<1>2. ASSUME NEW s \in Server, Override(s)
      PROVE  /\ disk' = disk
             /\ \A t \in Server : /\ RequestStep(servers[t], servers'[t])
                                  /\ TasksFrom(servers'[t], servers[t])
  BY <1>2 DEF Override, OthersStay, RequestStep, TasksFrom
<1>3. CASE Save /\ UNCHANGED servers
  BY <1>3 DEF RequestStep
<1>4. ASSUME NEW s \in Server, SavedRequest(s)
      PROVE  Save /\ \A t \in Server : RequestStep(servers[t], servers'[t])
  BY <1>4 DEF SavedRequest, OthersStay, RequestStep
<1> QED BY <1>1, <1>2, <1>3, <1>4 DEF RequestsStep

\* Setting the status and the power state of a record changes nothing else.
LEMMA SetStatus ==
    ASSUME NEW r \in ServerRecord, NEW st, NEW pw
    PROVE  LET q == [r EXCEPT !.status = st, !.power = pw]
           IN  q.status = st /\ q.task = r.task
BY DEF ServerRecord

\* A settled action and the answer to a resize leave the server without a task.
LEMMA PerformSettles ==
    ASSUME NEW r, GoodRecord(r), NEW a \in Action, a \notin TimedAction,
           CheckServerState(r, VmStates[a], TaskStates(a))
    PROVE  Perform(r, a).task = "None" /\ Perform(r, a).status # "UNBORN"
<1>1. r.task = "None" /\ r \in ServerRecord
  BY DEF Action, TimedAction, CheckServerState, TaskStates, GoodRecord
<1>2. CASE a \in SettledAction
  <2>1. Perform(r, a) = [r EXCEPT !.status = Settled[a].status,
                                  !.power  = Settled[a].power]
    BY <1>2 DEF Perform
  <2>2. Settled[a].status # "UNBORN"
    BY <1>2 DEF SettledAction, Settled
  <2> QED BY <1>1, <2>1, <2>2, SetStatus
<1>3. CASE a \in ResizeAnswer
  <2> DEFINE back == IF r.preStatus = "SHUTOFF" THEN "SHUTOFF" ELSE "ACTIVE"
             pw   == IF back = "SHUTOFF" THEN "SHUTDOWN" ELSE "RUNNING"
             fl   == IF a = "revertresize" /\ r.origFlavor # NoFlavor
                     THEN r.origFlavor ELSE r.flavor
             nn   == "None"
  <2>1. a \notin SettledAction
    BY <1>3 DEF ResizeAnswer, SettledAction
  <2>2. Perform(r, a) = [r EXCEPT !.flavor = fl, !.status = back, !.power = pw,
                                  !.origFlavor = NoFlavor, !.preStatus = nn]
    BY <2>1 DEF Perform
  <2>3. back # "UNBORN"
    OBVIOUS
  <2> HIDE DEF fl, back, pw, nn
  <2> QED BY <1>1, <2>2, <2>3 DEF ServerRecord
<1> QED BY <1>2, <1>3 DEF Action

\* Creating, looking at, listing, deleting and overriding are such steps.
LEMMA RequestIsStep ==
    ASSUME IInv,
           \/ \E s \in Server, f \in Flavor : CreateServer(s, f)
           \/ \E s \in Server : GetServer(s)
           \/ ListServers
           \/ \E s \in Server : DeleteServer(s)
           \/ \E s \in Server, name \in {"start", "stop", "reboot"} :
                  OverrideServer(s, name)
    PROVE  RequestsStep
<1>0. \A s \in Server : GoodRecord(servers[s])
  BY DEF IInv, MemoryOK, ServersOK
<1>1. ASSUME NEW s \in Server, NEW f \in Flavor, CreateServer(s, f)
      PROVE  RequestsStep
  <2> DEFINE b == Absent("ACTIVE")
             q == [b EXCEPT !.power = "RUNNING", !.flavor = f]
  <2>1. q.status = "ACTIVE" /\ q.task = "None"
    BY DEF Absent
  <2>2. servers[s].status = "UNBORN" /\ servers' = [servers EXCEPT ![s] = q] /\ Save
    BY <1>1 DEF CreateServer
  <2>3. RequestStep(servers[s], q)
    <3> HIDE DEF q
    <3> QED BY <2>1, <2>2 DEF RequestStep
  <2> HIDE DEF q
  <2> QED BY <2>2, <2>3, PutSaved
<1>2. ASSUME NEW s \in Server, GetServer(s) PROVE RequestsStep
  BY <1>2, PutLooked DEF GetServer
<1>3. CASE ListServers
  BY <1>3 DEF ListServers, RequestsStep, Look
<1>4. ASSUME NEW s \in Server, DeleteServer(s) PROVE RequestsStep
  <2> DEFINE q == Absent("DELETED")
  <2>1. q.status = "DELETED" /\ q.task = "None"
    BY DEF Absent
  <2>2. RequestStep(servers[s], q)
    BY <1>4, <2>1 DEF RequestStep, DeleteServer, Live
  <2> QED BY <1>4, <2>2, PutSaved DEF DeleteServer
<1>5. ASSUME NEW s \in Server, NEW name \in {"start", "stop", "reboot"},
             OverrideServer(s, name)
      PROVE  RequestsStep
  <2> DEFINE c  == CancelTask(Advance(servers[s]))
             st == IF name = "stop" THEN "SHUTOFF" ELSE "ACTIVE"
             pw == IF name = "stop" THEN "SHUTDOWN" ELSE "RUNNING"
             q  == [c EXCEPT !.status = st, !.power = pw]
  <2>1. c \in ServerRecord /\ c.task = "None"
    BY <1>0, LookGood, CancelTaskGood DEF GoodRecord
  <2>2. st \in {"SHUTOFF", "ACTIVE"}
    OBVIOUS
  <2>3. q.status \in {"SHUTOFF", "ACTIVE"} /\ q.task = "None"
    <3> HIDE DEF c, st, pw
    <3> QED BY <2>1, <2>2, SetStatus
  <2>4. servers[s].status \notin {"UNBORN", "DELETED"}
    BY <1>5 DEF OverrideServer, Live
  <2>5. servers' = [servers EXCEPT ![s] = q] /\ disk' = disk
    BY <1>5 DEF OverrideServer
  <2>6. OthersStay(s) /\ servers'[s] = q
    <3> HIDE DEF q
    <3> QED BY <2>5 DEF OthersStay, IInv, MemoryOK, ServersOK
  <2> HIDE DEF q
  <2> QED BY <2>3, <2>4, <2>5, <2>6 DEF RequestsStep, Override
<1> QED BY <1>1, <1>2, <1>3, <1>4, <1>5

\* So are the action requests.
LEMMA ActionRequestIsStep ==
    ASSUME IInv, NEW c \in Client, ActionRequest(c)
    PROVE  RequestsStep
<1>0. \A s \in Server : GoodRecord(servers[s])
  BY DEF IInv, MemoryOK, ServersOK
<1> DEFINE s == pending[c]
           cur == Current(c)
<1>a. Waiting(c) => /\ s \in Server /\ GoodRecord(cur) /\ cur \in ServerRecord
                    /\ cur = Advance(servers[s])
                    /\ servers[s].status \notin {"UNBORN", "DELETED"}
  BY <1>0, WaitingGood DEF Current, Waiting, Live, GoodRecord
<1>1. ASSUME NEW x \in Server, ReceiveAction(c, x) PROVE RequestsStep
  BY <1>1, PutLooked DEF ReceiveAction
<1>2. CASE AbandonAction(c)
  BY <1>2 DEF AbandonAction, RequestsStep, Look
<1>3. ASSUME NEW a \in Action, ServerAction(c, a) PROVE RequestsStep
  <2> DEFINE q == Perform(cur, a)
  <2>1. /\ Waiting(c) /\ CheckServerState(cur, VmStates[a], TaskStates(a))
        /\ servers' = [servers EXCEPT ![s] = q] /\ Save
    BY <1>3 DEF ServerAction, Answer
  <2>2. RequestStep(servers[s], q)
    <3>1. CASE a \in TimedAction
      BY <1>a, <2>1, <3>1 DEF Perform, RequestStep
    <3>2. CASE a \notin TimedAction
      <4>1. cur.task = "None"
        BY <2>1, <3>2 DEF CheckServerState, TaskStates, TimedAction
      <4>2. q.task = "None" /\ q.status # "UNBORN"
        BY <1>a, <2>1, <3>2, PerformSettles
      <4> HIDE DEF q, cur
      <4> QED BY <1>a, <2>1, <4>1, <4>2 DEF RequestStep
    <3> QED BY <3>1, <3>2
  <2> HIDE DEF q, cur
  <2> QED BY <1>a, <2>1, <2>2, PutSaved
<1>4. ASSUME NEW f \in Flavor, ServerResize(c, f) PROVE RequestsStep
  <2> DEFINE st == "VERIFY_RESIZE"
             pw == "SHUTDOWN"
             q  == [cur EXCEPT !.origFlavor = cur.flavor,
                               !.preStatus  = cur.status,
                               !.flavor     = f,
                               !.status     = st,
                               !.power      = pw]
  <2>1. /\ Waiting(c) /\ cur.task = "None"
        /\ servers' = [servers EXCEPT ![s] = q] /\ Save
    BY <1>4 DEF ServerResize, Answer, CheckServerState
  <2>2. q.task = "None" /\ q.status = st
    <3> HIDE DEF cur, st, pw
    <3> QED BY <1>a, <2>1 DEF ServerRecord
  <2>3. RequestStep(servers[s], q)
    <3> HIDE DEF q, cur
    <3> QED BY <1>a, <2>1, <2>2 DEF RequestStep
  <2> HIDE DEF q, cur
  <2> QED BY <1>a, <2>1, <2>3, PutSaved
<1>5. ASSUME NEW st \in {"ACTIVE", "ERROR"}, ResetServerState(c, st)
      PROVE  RequestsStep
  <2> DEFINE b == CancelTask(servers[s])
             q == [b EXCEPT !.status = st]
  <2>1. Waiting(c) /\ servers' = [servers EXCEPT ![s] = q] /\ Save
    BY <1>5 DEF ResetServerState, Answer
  <2>2. b \in ServerRecord /\ b.task = "None"
    BY <1>0, <1>a, <2>1, CancelTaskGood DEF GoodRecord
  <2>3. q.task = "None" /\ q.status = st
    <3> HIDE DEF b
    <3> QED BY <2>2 DEF ServerRecord
  <2>4. RequestStep(servers[s], q)
    <3> HIDE DEF q
    <3> QED BY <1>a, <2>1, <2>3 DEF RequestStep
  <2> HIDE DEF q
  <2> QED BY <1>a, <2>1, <2>4, PutSaved
<1>6. CASE CreateServerSnapshot(c)
  <2>1. Waiting(c) /\ servers' = [servers EXCEPT ![s] = cur] /\ disk' = disk
    BY <1>6 DEF CreateServerSnapshot, Answer
  <2> HIDE DEF cur
  <2> QED BY <1>a, <2>1, PutLooked
<1>7. CASE RefuseAction(c)
  <2>1. Waiting(c) /\ servers' = [servers EXCEPT ![s] = cur] /\ disk' = disk
    BY <1>7 DEF RefuseAction, Answer
  <2> HIDE DEF cur
  <2> QED BY <1>a, <2>1, PutLooked
<1> QED BY <1>1, <1>2, <1>3, <1>4, <1>5, <1>6, <1>7 DEF ActionRequest

\* Every step is a request's (one that changes no server included), the clock's,
\* or a restart.
LEMMA StepKinds ==
    ASSUME IInv, [Next]_vars
    PROVE  \/ RequestsStep
           \/ \E d \in {1, -1} : AgeAll(d) /\ (d = -1 => backSteps' \notin {0, backSteps})
           \/ Restart
<1>1. CASE \/ \E s \in Server, f \in Flavor : CreateServer(s, f)
           \/ \E s \in Server : GetServer(s)
           \/ ListServers
           \/ \E s \in Server : DeleteServer(s)
           \/ \E s \in Server, name \in {"start", "stop", "reboot"} :
                  OverrideServer(s, name)
  BY <1>1, RequestIsStep
<1>2. ASSUME NEW f \in Flavor, CreateFlavor(f) \/ DeleteFlavor(f)
      PROVE  RequestsStep
  BY <1>2 DEF CreateFlavor, DeleteFlavor, RequestsStep
<1>3. ASSUME NEW c \in Client, ActionRequest(c) PROVE RequestsStep
  BY <1>3, ActionRequestIsStep
<1>4. CASE Tick
  BY <1>4 DEF Tick
<1>5. CASE ClockStepsBack
  BY <1>5, ServerLifecycleAssumption DEF ClockStepsBack, IInv, OtherOK
<1>6. CASE Restart
  BY <1>6
<1>7. CASE UNCHANGED vars
  BY <1>7 DEF vars, RequestsStep, Look
<1> QED
  BY <1>1, <1>2, <1>3, <1>4, <1>5, <1>6, <1>7
  DEF Next, ServerReads, ServerRequests, StatusPage, FlavorRequests

----------------------------------------------------------------------------
(* An accepted task is in the file.                                        *)

\* The file starts as the image of an empty memory.
LEMMA InitFile == Init => FileInv
<1> SUFFICES ASSUME Init PROVE FileInv
  OBVIOUS
<1>1. \A s \in Server : servers[s] = Absent("UNBORN") /\ disk.servers[s] = servers[s]
  BY DEF Init, Image
<1>2. Absent("UNBORN").status = "UNBORN" /\ Absent("UNBORN").task = "None"
  BY DEF Absent
<1> QED BY <1>1, <1>2 DEF FileInv, TasksFrom

\* Every step keeps memory descending from the file.
LEMMA NextFile == IInv /\ FileInv /\ [Next]_vars => FileInv'
<1> SUFFICES ASSUME IInv, FileInv, [Next]_vars PROVE FileInv'
  OBVIOUS
<1>0. \A s \in Server : GoodRecord(servers[s]) /\ GoodRecord(disk.servers[s])
  BY DEF IInv, MemoryOK, DiskOK, ServersOK
<1>1. CASE RequestsStep
  <2>1. CASE AutoSave /\ Save
    <3>1. disk'.servers = servers'
      BY <2>1 DEF Save, Image
    <3> QED BY <2>1, <3>1 DEF FileInv, TasksFrom
  <2>2. CASE disk' = disk /\ \A s \in Server : TasksFrom(servers'[s], servers[s])
    <3> SUFFICES ASSUME NEW s \in Server, AutoSave
                 PROVE  TasksFrom(servers'[s], disk.servers[s])
      BY <2>2 DEF FileInv
    <3> QED BY <2>2, TasksFromTransitive DEF FileInv
  <2>3. CASE ~AutoSave /\ disk' = disk
    BY <2>3 DEF FileInv
  <2> QED BY <1>1, <2>1, <2>2, <2>3, RequestsOnEach DEF Save
<1>2. ASSUME NEW d \in {1, -1}, AgeAll(d) PROVE FileInv'
  <2>1. \A s \in Server : /\ servers'[s] = Aged(servers[s], d)
                          /\ disk'.servers[s] = Aged(disk.servers[s], d)
    BY <1>2 DEF AgeAll, IInv, DiskOK
  <2>2. CASE AutoSave
    BY <1>0, <2>1, <2>2, AgedFrom DEF FileInv
  <2>3. CASE ~AutoSave
    BY <1>0, <2>1, <2>3, AbsentHasNoTask DEF FileInv, Aged
  <2> QED BY <2>2, <2>3
<1>3. CASE Restart
  BY <1>3 DEF Restart, FileInv, TasksFrom
<1> QED BY <1>1, <1>2, <1>3, StepKinds

\* In every reachable state memory descends from the file.
THEOREM FileInvariance == Spec => [](IInv /\ FileInv)
<1>1. Init => IInv /\ FileInv
  BY InitInv, InitFile
<1>2. IInv /\ FileInv /\ [Next]_vars => (IInv /\ FileInv)'
  BY NextInv, NextFile
<1> QED BY <1>1, <1>2, PTL DEF Spec

\* With --auto-save the file holds every task in progress, with its deadline:
\* no lookup, override, reset, clock step or restart in between makes memory
\* show a task that a crash would forget.
THEOREM AcceptedTasksSurvive == Spec => []AcceptedTaskIsSaved
<1>1. FileInv => AcceptedTaskIsSaved
  BY DEF FileInv, TasksFrom, AcceptedTaskIsSaved
<1> QED BY <1>1, FileInvariance, PTL

----------------------------------------------------------------------------
(* What no step does.                                                      *)

\* A request neither forgets nor revives a server.
LEMMA RequestKeepsServers ==
    ASSUME NEW r, GoodRecord(r), NEW q, RequestStep(r, q)
    PROVE  /\ r.status \notin {"UNBORN", "DELETED"} => q.status # "UNBORN"
           /\ r.status = "DELETED" => q.status = "DELETED"
<1>1. TasksFrom(Advance(r), r)
  BY AdvanceFrom
<1>2. ASSUME NEW a \in TimedAction,
             CheckServerState(Advance(r), VmStates[a], TaskStates(a)),
             q = BeginTask(Advance(r), Timed[a].phases, Timed[a].result),
             r.status \notin {"UNBORN", "DELETED"}
      PROVE  q.status # "UNBORN"
  <2>1. /\ GoodRecord(Advance(r)) /\ Advance(r).status \in VmStates[a]
        /\ Advance(r).status # "UNBORN" /\ Timed[a].result # "UNBORN"
    BY <1>2, LookGood, TimedFacts DEF CheckServerState
  <2> QED BY <1>2, <2>1, BeginTaskFacts
<1> QED BY <1>1, <1>2 DEF RequestStep, TasksFrom

\* With --auto-save no step, a restart included, loses a server that was created
\* or brings back one that was deleted.
THEOREM ServersKept == Spec => ServersSurviveRestart
<1>1. IInv /\ FileInv /\ [Next]_vars =>
        (AutoSave =>
            \A s \in Server :
                /\ Live(s) => servers'[s].status # "UNBORN"
                /\ servers[s].status = "DELETED" => servers'[s].status = "DELETED")
  <2> SUFFICES ASSUME IInv, FileInv, [Next]_vars, AutoSave, NEW s \in Server
               PROVE  /\ Live(s) => servers'[s].status # "UNBORN"
                      /\ servers[s].status = "DELETED" => servers'[s].status = "DELETED"
    OBVIOUS
  <2>0. GoodRecord(servers[s]) /\ GoodRecord(disk.servers[s])
    BY DEF IInv, MemoryOK, DiskOK, ServersOK
  <2>1. CASE RequestsStep
    BY <2>0, <2>1, RequestsOnEach, RequestKeepsServers DEF Live
  <2>2. ASSUME NEW d \in {1, -1}, AgeAll(d) PROVE servers'[s].status = servers[s].status
    BY <2>0, <2>2 DEF AgeAll, Aged, GoodRecord, ServerRecord
  <2>3. CASE Restart
    BY <2>3 DEF Restart, FileInv, TasksFrom, Live
  <2> QED BY <2>1, <2>2, <2>3, StepKinds DEF Live
<1> QED BY <1>1, FileInvariance, PTL DEF Spec, ServersSurviveRestart

\* A power-on or power-off in progress when somebody looks is shown as itself.
LEMMA PowerTaskShown ==
    ASSUME NEW r, GoodRecord(r), r.task \in {"POWERING_ON", "POWERING_OFF"},
           r.elapsed < Duration
    PROVE  Advance(r).task = r.task /\ r.phases = <<r.task>>
<1>1. PICK a \in TimedAction :
          /\ r.phases = Timed[a].phases
          /\ \E i \in 1..Len(r.phases) : r.task = r.phases[i]
  BY DEF GoodRecord, TaskRule
<1>2. r.phases = <<r.task>>
  <2>1. CASE a \in {"start", "stop"}
    BY <1>1, <2>1, TimedFacts
  <2>2. CASE a = "reboot_soft"
    BY <1>1, <2>2, TimedFacts DEF SoftPhases
  <2>3. CASE a = "reboot_hard"
    BY <1>1, <2>3, TimedFacts DEF HardPhases
  <2> QED BY <2>1, <2>2, <2>3 DEF TimedAction
<1>3. r.elapsed \in Int /\ Duration > 0
  BY DEF GoodRecord, ServerRecord
<1>4. PICK i \in 1..Len(r.phases) : PhaseAt(r.phases, r.elapsed) = r.phases[i]
  BY <1>1, <1>3, PhaseAtInPhases
<1>5. r.phases[i] = r.task
  BY <1>2, <1>4
<1> QED BY <1>2, <1>4, <1>5, AdvanceFacts

\* No step puts another task in the place of a power-on or power-off that still
\* has time to run.
THEOREM PowerTasksUndisturbed == Spec => PowerTaskUndisturbed
<1>1. IInv /\ FileInv /\ [Next]_vars =>
        \A s \in Server :
          LET r == servers[s]
          IN  r.task \in {"POWERING_ON", "POWERING_OFF"} /\ r.elapsed < Duration
              => servers'[s].task \in {r.task, "None"}
  <2> SUFFICES ASSUME IInv, FileInv, [Next]_vars, NEW s \in Server,
                      servers[s].task \in {"POWERING_ON", "POWERING_OFF"},
                      servers[s].elapsed < Duration
               PROVE  servers'[s].task \in {servers[s].task, "None"}
    OBVIOUS
  <2> DEFINE r == servers[s]
             f == disk.servers[s]
  <2>0. /\ GoodRecord(r) /\ GoodRecord(f)
        /\ Advance(r).task = r.task /\ r.phases = <<r.task>>
    BY PowerTaskShown DEF IInv, MemoryOK, DiskOK, ServersOK
  <2>1. CASE RequestsStep
    <3>1. ASSUME NEW a \in TimedAction
          PROVE  ~CheckServerState(Advance(r), VmStates[a], TaskStates(a))
      BY <2>0 DEF CheckServerState, TaskStates, AllowReboot
    <3>2. RequestStep(r, servers'[s])
      BY <2>1, RequestsOnEach
    <3>3. r.status # "UNBORN"
      BY <2>0, AbsentHasNoTask
    <3> QED BY <2>0, <3>1, <3>2, <3>3 DEF RequestStep
  <2>2. ASSUME NEW d \in {1, -1}, AgeAll(d) PROVE servers'[s].task = r.task
    BY <2>0, <2>2 DEF AgeAll, Aged, GoodRecord, ServerRecord
  <2>3. CASE Restart
    <3>1. servers'[s] = f
      BY <2>3 DEF Restart
    <3>2. CASE ~AutoSave
      BY <2>0, <3>1, <3>2, AbsentHasNoTask DEF FileInv
    <3>3. CASE AutoSave
      <4>1. f.task # "None" /\ f.phases = <<r.task>>
        BY <2>0, <3>3 DEF FileInv, TasksFrom
      <4>2. \E i \in 1..Len(f.phases) : f.task = f.phases[i]
        BY <2>0, <4>1 DEF GoodRecord, TaskRule
      <4> QED BY <3>1, <4>1, <4>2
    <3> QED BY <3>2, <3>3
  <2> QED BY <2>1, <2>2, <2>3, StepKinds
<1> QED BY <1>1, FileInvariance, PTL DEF Spec, PowerTaskUndisturbed

----------------------------------------------------------------------------
(* The phases of a task come in order.                                     *)

\* The number of the phase PhaseAt picks among n.
PhaseNumber(n, e) ==
    LET past == IF e > 0 THEN e ELSE 0
        step == (past * n) \div Duration
    IN  1 + (IF step < n THEN step ELSE n - 1)

\* Integer division does not decrease.
LEMMA DivMonotone ==
    ASSUME NEW a \in Nat, NEW b \in Nat, a <= b, NEW d \in Nat, d > 0
    PROVE  a \div d <= b \div d
BY SMT

\* The number of a phase is between 1 and n and does not decrease with time.
LEMMA PhaseNumberMonotone ==
    ASSUME NEW n \in {1, 3}, NEW e \in Int, NEW f \in Int, e <= f, Duration > 0
    PROVE  /\ PhaseNumber(n, e) \in 1..n
           /\ PhaseNumber(n, e) <= PhaseNumber(n, f)
<1> DEFINE pe == IF e > 0 THEN e ELSE 0
           pf == IF f > 0 THEN f ELSE 0
           se == (pe * n) \div Duration
           sf == (pf * n) \div Duration
<1>1. pe \in Nat /\ pf \in Nat /\ pe <= pf
  OBVIOUS
<1>2. pe * n \in Nat /\ pf * n \in Nat /\ pe * n <= pf * n
  <2> HIDE DEF pe, pf
  <2>1. CASE n = 1
    BY <1>1, <2>1
  <2>2. CASE n = 3
    BY <1>1, <2>2
  <2> QED BY <2>1, <2>2
<1>3. se \in Nat /\ sf \in Nat /\ se <= sf
  <2> HIDE DEF pe, pf
  <2> QED BY <1>2, DivNat, DivMonotone, ServerLifecycleAssumption
<1>4. /\ PhaseNumber(n, e) = 1 + (IF se < n THEN se ELSE n - 1)
      /\ PhaseNumber(n, f) = 1 + (IF sf < n THEN sf ELSE n - 1)
  BY DEF PhaseNumber
<1> HIDE DEF se, sf
<1> QED BY <1>3, <1>4

\* A task that has just begun is in its first phase.
LEMMA FirstPhase ==
    ASSUME NEW n \in {1, 3}, Duration > 0
    PROVE  PhaseNumber(n, 0) = 1
<1>1. (0 * n) \div Duration = 0
  BY ServerLifecycleAssumption, SMT
<1> QED BY <1>1 DEF PhaseNumber

\* A timed action has one phase or three, all different.
LEMMA PhasesDiffer ==
    ASSUME NEW a \in TimedAction
    PROVE  LET ph == Timed[a].phases
           IN  /\ Len(ph) \in {1, 3}
               /\ \A i, j \in 1..Len(ph) : ph[i] = ph[j] => i = j
<1>1. CASE a \in {"start", "stop"}
  <2>1. PICK t : Timed[a].phases = <<t>>
    BY <1>1, TimedFacts
  <2> QED BY <2>1
<1>2. CASE a = "reboot_soft"
  <2>1. Timed[a].phases = SoftPhases /\ Len(SoftPhases) = 3
    BY <1>2, TimedFacts DEF SoftPhases
  <2>2. \A i \in 1..3 : i = 1 \/ i = 2 \/ i = 3
    OBVIOUS
  <2>3. /\ SoftPhases[1] = "REBOOTING" /\ SoftPhases[2] = "REBOOT_PENDING"
        /\ SoftPhases[3] = "REBOOT_STARTED"
    BY DEF SoftPhases
  <2> QED BY <2>1, <2>2, <2>3
<1>3. CASE a = "reboot_hard"
  <2>1. Timed[a].phases = HardPhases /\ Len(HardPhases) = 3
    BY <1>3, TimedFacts DEF HardPhases
  <2>2. \A i \in 1..3 : i = 1 \/ i = 2 \/ i = 3
    OBVIOUS
  <2>3. /\ HardPhases[1] = "REBOOTING_HARD" /\ HardPhases[2] = "REBOOT_PENDING_HARD"
        /\ HardPhases[3] = "REBOOT_STARTED_HARD"
    BY DEF HardPhases
  <2> QED BY <2>1, <2>2, <2>3
<1> QED BY <1>1, <1>2, <1>3 DEF TimedAction

\* What Shown says, of any record.
ShownOf(r) ==
    LET seen == Advance(r).task
    IN  IF seen = "None" THEN Len(r.phases) + 1
        ELSE CHOOSE i \in 1..Len(r.phases) : r.phases[i] = seen

\* Of a task that has time to run a client sees the phase its age gives; of one
\* whose time has come, the end.
LEMMA ShownFacts ==
    ASSUME NEW r, GoodRecord(r), r.task # "None"
    PROVE  /\ Len(r.phases) \in {1, 3}
           /\ r.elapsed < Duration =>
                  ShownOf(r) = PhaseNumber(Len(r.phases), r.elapsed)
           /\ r.elapsed >= Duration => ShownOf(r) = Len(r.phases) + 1
<1>1. PICK a \in TimedAction : r.phases = Timed[a].phases
  BY DEF GoodRecord, TaskRule
<1>2. r.elapsed \in Int /\ Duration > 0
  BY DEF GoodRecord, ServerRecord
<1> DEFINE n == Len(r.phases)
           k == PhaseNumber(n, r.elapsed)
<1>3. n \in {1, 3} /\ \A i, j \in 1..n : r.phases[i] = r.phases[j] => i = j
  BY <1>1, PhasesDiffer
<1>4. k \in 1..n
  <2> HIDE DEF n
  <2> QED BY <1>2, <1>3, PhaseNumberMonotone
<1>5. PhaseAt(r.phases, r.elapsed) = r.phases[k]
  BY DEF PhaseAt, PhaseNumber
<1>6. ASSUME r.elapsed < Duration PROVE ShownOf(r) = k
  <2>1. Advance(r).task = r.phases[k] /\ Advance(r).task # "None"
    BY <1>5, <1>6, AdvanceFacts
  <2>2. ShownOf(r) = CHOOSE i \in 1..n : r.phases[i] = r.phases[k]
    BY <2>1 DEF ShownOf
  <2> HIDE DEF k, n
  <2> QED BY <1>3, <1>4, <2>2
<1>7. ASSUME r.elapsed >= Duration PROVE ShownOf(r) = n + 1
  BY <1>7, AdvanceFacts DEF ShownOf
<1> QED BY <1>3, <1>6, <1>7

\* A task of the same phases that is at least as old is shown at least as far.
LEMMA OlderShownFurther ==
    ASSUME NEW r, GoodRecord(r), r.task # "None", r.elapsed < Duration,
           NEW q, GoodRecord(q), q.task # "None",
           q.phases = r.phases, q.elapsed >= r.elapsed
    PROVE  ShownOf(q) >= ShownOf(r)
<1>1. r.elapsed \in Int /\ q.elapsed \in Int /\ Duration > 0 /\ Duration \in Nat
  BY ServerLifecycleAssumption DEF GoodRecord, ServerRecord
<1>2. Len(r.phases) \in {1, 3}
  BY ShownFacts
<1>3. ShownOf(r) = PhaseNumber(Len(r.phases), r.elapsed)
  BY ShownFacts
<1>4. /\ PhaseNumber(Len(r.phases), r.elapsed) \in 1..Len(r.phases)
      /\ PhaseNumber(Len(r.phases), r.elapsed) <= PhaseNumber(Len(r.phases), q.elapsed)
  BY <1>1, <1>2, PhaseNumberMonotone
<1>5. CASE q.elapsed < Duration
  BY <1>3, <1>4, <1>5, ShownFacts
<1>6. CASE q.elapsed >= Duration
  <2>1. ShownOf(q) = Len(r.phases) + 1
    BY <1>6, ShownFacts
  <2> QED BY <1>2, <1>3, <1>4, <2>1
<1> QED BY <1>1, <1>5, <1>6

\* No request starts the wait for a task again that is on its way, but a hard
\* reboot beside one that is in its first phase.
LEMMA RequestKeepsDeadline ==
    ASSUME NEW r, GoodRecord(r), r.task # "None", r.elapsed < Duration,
           NEW q, GoodRecord(q), q.task # "None", q.phases = r.phases,
           RequestStep(r, q)
    PROVE  \/ q.elapsed = r.elapsed
           \/ q.elapsed = 0 /\ r.phases = HardPhases /\ ShownOf(r) = 1
<1>0. r.elapsed \in Int /\ q.elapsed \in Int /\ Duration > 0 /\ Duration \in Nat
  BY ServerLifecycleAssumption DEF GoodRecord, ServerRecord
<1>1. CASE q = r
  BY <1>1
<1>2. CASE q = Advance(r)
  BY <1>0, <1>2, AdvanceFacts
<1>3. ASSUME NEW a \in TimedAction,
             CheckServerState(Advance(r), VmStates[a], TaskStates(a)),
             q = BeginTask(Advance(r), Timed[a].phases, Timed[a].result)
      PROVE  q.elapsed = 0 /\ r.phases = HardPhases /\ ShownOf(r) = 1
  <2> DEFINE b  == Advance(r)
             ph == Timed[a].phases
  <2>1. GoodRecord(b) /\ b.status \in VmStates[a]
    BY <1>3, LookGood DEF CheckServerState
  <2>2. q.phases = ph /\ q.elapsed = 0
    <3>1. Duration # 0
      BY <1>0
    <3> QED BY <1>3, <2>1, <3>1, BeginTaskFacts
  <2>3. b.task \in TaskStates(a) /\ b.task # "None"
    BY <1>3, AdvanceFacts DEF CheckServerState
  <2>4. a = "reboot_hard" /\ b.task \in AllowReboot
    BY <2>3 DEF TaskStates
  <2>5. r.phases = HardPhases
    BY <2>2, <2>4, TimedFacts
  <2>6. ShownOf(r) = 1
    <3>1. \E i \in 1..Len(b.phases) : b.task = b.phases[i]
      BY <2>1, <2>3 DEF GoodRecord, TaskRule
    <3>2. b.phases = HardPhases
      BY <2>5, AdvanceFacts
    <3>3. b.task = "REBOOTING_HARD"
      BY <2>3, <2>4, <3>1, <3>2 DEF HardPhases, AllowReboot
    <3>4. ShownOf(r) = CHOOSE i \in 1..3 : HardPhases[i] = "REBOOTING_HARD"
      BY <2>5, <3>3 DEF ShownOf, HardPhases
    <3>5. \A i \in 1..3 : HardPhases[i] = "REBOOTING_HARD" <=> i = 1
      BY DEF HardPhases
    <3> QED BY <3>4, <3>5
  <2> QED BY <2>2, <2>5, <2>6
<1>4. r.status # "UNBORN"
  BY AbsentHasNoTask
<1> QED BY <1>1, <1>2, <1>3, <1>4 DEF RequestStep

\* A request takes no client back: the task is as old as it was, or in its first
\* phase as it was.
LEMMA RequestKeepsOrder ==
    ASSUME NEW r, GoodRecord(r), r.task # "None", r.elapsed < Duration,
           NEW q, GoodRecord(q), q.task # "None", q.phases = r.phases,
           RequestStep(r, q)
    PROVE  ShownOf(q) >= ShownOf(r)
<1>0. r.elapsed \in Int /\ Duration > 0 /\ Duration \in Nat
  BY ServerLifecycleAssumption DEF GoodRecord, ServerRecord
<1>1. CASE q.elapsed = r.elapsed
  BY <1>0, <1>1, OlderShownFurther
<1>2. CASE q.elapsed = 0 /\ r.phases = HardPhases /\ ShownOf(r) = 1
  <2>1. Len(q.phases) = 3
    BY <1>2 DEF HardPhases
  <2>2. ShownOf(q) = 1
    BY <1>0, <1>2, <2>1, ShownFacts, FirstPhase
  <2> QED BY <1>2, <2>2
<1> QED BY <1>1, <1>2, RequestKeepsDeadline

\* While the clock only goes forward, no read, restart, second hard reboot or
\* tick shows a client an earlier phase of a task than it could have seen.
THEOREM PhasesNeverGoBack == Spec => PhasesInOrder
<1>1. IInv /\ FileInv /\ [Next]_vars =>
        \A s \in Server :
          /\ backSteps' = 0
          /\ servers[s].phases # <<>>
          /\ servers'[s].phases = servers[s].phases
          /\ servers[s].elapsed < Duration
          => Shown(s)' >= Shown(s)
  <2> SUFFICES ASSUME IInv, FileInv, [Next]_vars, NEW s \in Server,
                      backSteps' = 0,
                      servers[s].phases # <<>>,
                      servers'[s].phases = servers[s].phases,
                      servers[s].elapsed < Duration
               PROVE  ShownOf(servers'[s]) >= ShownOf(servers[s])
    BY DEF Shown, ShownOf
  <2> DEFINE r == servers[s]
             q == servers'[s]
             f == disk.servers[s]
  <2>1. GoodRecord(r) /\ GoodRecord(f)
    BY DEF IInv, MemoryOK, DiskOK, ServersOK
  <2>2. GoodRecord(q)
    BY NextInv DEF IInv, MemoryOK, ServersOK
  <2>3. r.task # "None" /\ q.task # "None"
    BY <2>1, <2>2 DEF GoodRecord, TaskRule
  <2>4. r.elapsed \in Int /\ Duration \in Nat
    BY <2>1, ServerLifecycleAssumption DEF GoodRecord, ServerRecord
  <2>5. CASE RequestsStep
    BY <2>1, <2>2, <2>3, <2>5, RequestsOnEach, RequestKeepsOrder
  <2>6. ASSUME NEW d \in {1, -1}, AgeAll(d), d = -1 => backSteps' \notin {0, backSteps}
        PROVE  ShownOf(q) >= ShownOf(r)
    <3>1. q = Aged(r, 1)
      BY <2>6 DEF AgeAll
    <3>2. q.elapsed >= r.elapsed
      BY <2>1, <2>3, <2>4, <3>1 DEF Aged, GoodRecord, ServerRecord
    <3>3. q.phases = r.phases /\ r.elapsed < Duration
      OBVIOUS
    <3> HIDE DEF q, r
    <3> QED BY <2>1, <2>2, <2>3, <3>2, <3>3, OlderShownFurther
  <2>7. CASE Restart
    <3>1. q = f
      BY <2>7 DEF Restart
    <3>2. AutoSave
      BY <2>1, <2>3, <3>1, AbsentHasNoTask DEF FileInv
    <3>3. q.elapsed = r.elapsed
      BY <2>3, <3>1, <3>2 DEF FileInv, TasksFrom
    <3> QED BY <2>1, <2>2, <2>3, <2>4, <3>3, OlderShownFurther
  <2> QED BY <2>5, <2>6, <2>7, StepKinds
<1> QED BY <1>1, FileInvariance, PTL DEF Spec, PhasesInOrder

\* Nothing but the clock and a hard reboot beside another in its first phase
\* moves the deadline of a task that is on its way.
THEOREM DeadlinesStay == Spec => DeadlineStays
<1>1. IInv /\ FileInv /\ [Next]_vars =>
        \A s \in Server :
          LET r == servers[s]  q == servers'[s]
          IN  r.task # "None" /\ r.elapsed < Duration /\ q.phases = r.phases
              => \/ q.elapsed >= r.elapsed
                 \/ backSteps' # backSteps
                 \/ r.phases = HardPhases /\ Shown(s) = 1
  <2> SUFFICES ASSUME IInv, FileInv, [Next]_vars, NEW s \in Server,
                      servers[s].task # "None",
                      servers[s].elapsed < Duration,
                      servers'[s].phases = servers[s].phases
               PROVE  \/ servers'[s].elapsed >= servers[s].elapsed
                      \/ backSteps' # backSteps
                      \/ servers[s].phases = HardPhases /\ ShownOf(servers[s]) = 1
    BY DEF Shown, ShownOf
  <2> DEFINE r == servers[s]
             q == servers'[s]
             f == disk.servers[s]
  <2>1. GoodRecord(r) /\ GoodRecord(f) /\ GoodRecord(q)
    BY NextInv DEF IInv, MemoryOK, DiskOK, ServersOK
  <2>2. q.task # "None"
    <3>1. r.phases # <<>>
      BY <2>1, TimedFacts DEF GoodRecord, TaskRule, SoftPhases, HardPhases
    <3> QED BY <2>1, <3>1 DEF GoodRecord, TaskRule
  <2>3. r.elapsed \in Int /\ q.elapsed \in Int /\ Duration \in Nat
    BY <2>1, ServerLifecycleAssumption DEF GoodRecord, ServerRecord
  <2>4. CASE RequestsStep
    <3>1. RequestStep(r, q)
      BY <2>4, RequestsOnEach
    <3>2. \/ q.elapsed = r.elapsed
          \/ q.elapsed = 0 /\ r.phases = HardPhases /\ ShownOf(r) = 1
      BY <2>1, <2>2, <3>1, RequestKeepsDeadline
    <3> QED BY <2>3, <3>2
  <2>5. CASE AgeAll(1)
    <3>1. q = Aged(r, 1)
      BY <2>5 DEF AgeAll
    <3>2. q.elapsed >= r.elapsed
      BY <2>1, <2>3, <3>1 DEF Aged, GoodRecord, ServerRecord
    <3> QED BY <3>2
  <2>6. CASE Restart
    <3>1. q = f
      BY <2>6 DEF Restart
    <3>2. AutoSave
      BY <2>1, <2>2, <3>1, AbsentHasNoTask DEF FileInv
    <3>3. q.elapsed = r.elapsed
      BY <3>1, <3>2 DEF FileInv, TasksFrom
    <3> QED BY <2>3, <3>3
  <2> QED BY <2>4, <2>5, <2>6, StepKinds
<1> QED BY <1>1, FileInvariance, PTL DEF Spec, DeadlineStays

----------------------------------------------------------------------------
(* Looking changes nothing (ObservedServers).                              *)

\* What a client that looks at a record now is shown of it.
LEMMA SeenFacts ==
    ASSUME NEW r, GoodRecord(r)
    PROVE  /\ r.task = "None" => Seen(r) = Observed!AtRest(r.status)
           /\ r.task # "None" /\ r.elapsed >= Duration =>
                  Seen(r) = Observed!AtRest(r.result)
           /\ r.task # "None" /\ r.elapsed < Duration =>
                  /\ PhaseAt(r.phases, r.elapsed) # "None"
                  /\ Seen(r) = [status |-> r.status,
                                task |-> PhaseAt(r.phases, r.elapsed)]
<1> DEFINE q == Advance(r)
<1>1. Seen(r) = [status |-> q.status, task |-> q.task]
  BY DEF Seen
<1>2. r.task = "None" => q.status = r.status /\ q.task = "None"
  BY AdvanceFacts
<1>3. r.task # "None" /\ r.elapsed >= Duration =>
          q.status = r.result /\ q.task = "None"
  BY AdvanceFacts
<1>4. r.task # "None" /\ r.elapsed < Duration =>
          /\ q.status = r.status /\ q.task = PhaseAt(r.phases, r.elapsed)
          /\ q.task # "None"
  BY AdvanceFacts
<1> HIDE DEF q
<1> QED BY <1>1, <1>2, <1>3, <1>4 DEF Observed!AtRest

\* A time is before the deadline or past it.
LEMMA DeadlineSplit ==
    ASSUME NEW r, GoodRecord(r)
    PROVE  r.elapsed < Duration \/ r.elapsed >= Duration
BY ServerLifecycleAssumption DEF GoodRecord, ServerRecord

\* Whoever looks is shown what he would have been shown anyway.
LEMMA SeenAgain ==
    ASSUME NEW r, GoodRecord(r)
    PROVE  Seen(Advance(r)) = Seen(r)
<1> DEFINE q == Advance(r)
<1>1. GoodRecord(q)
  BY LookGood
<1>2. CASE r.task = "None"
  BY <1>2, AdvanceFacts
<1>3. CASE r.task # "None" /\ r.elapsed >= Duration
  <2>1. q.task = "None" /\ q.status = r.result
    BY <1>3, AdvanceFacts
  <2> HIDE DEF q
  <2>2. Seen(q) = Observed!AtRest(r.result)
    BY <1>1, <2>1, SeenFacts
  <2>3. Seen(r) = Observed!AtRest(r.result)
    BY <1>3, SeenFacts
  <2> QED BY <2>2, <2>3 DEF q
<1>4. CASE r.task # "None" /\ r.elapsed < Duration
  <2>1. /\ q.task # "None" /\ q.elapsed = r.elapsed
        /\ q.phases = r.phases /\ q.status = r.status
    BY <1>4, AdvanceFacts
  <2> HIDE DEF q
  <2>2. Seen(q) = [status |-> r.status, task |-> PhaseAt(r.phases, r.elapsed)]
    BY <1>1, <1>4, <2>1, SeenFacts
  <2>3. Seen(r) = [status |-> r.status, task |-> PhaseAt(r.phases, r.elapsed)]
    BY <1>4, SeenFacts
  <2> QED BY <2>2, <2>3 DEF q
<1> QED BY <1>2, <1>3, <1>4, DeadlineSplit

\* A server that is there is shown as being there, an absent one as absent.
LEMMA SeenExists ==
    ASSUME NEW r, GoodRecord(r)
    PROVE  /\ r.status \notin {"UNBORN", "DELETED"} => Observed!Exists(Seen(r))
           /\ r.status \in {"UNBORN", "DELETED"} => Seen(r) = Observed!AtRest(r.status)
           /\ Seen(r).status = "UNBORN" => r.status = "UNBORN"
<1>1. CASE r.task = "None"
  BY <1>1, SeenFacts DEF Observed!Exists, Observed!AtRest
<1>2. CASE r.task # "None"
  <2>1. r.result \in {"ACTIVE", "SHUTOFF"}
    BY <1>2, TimedFacts DEF GoodRecord, TaskRule
  <2>2. r.status \notin {"UNBORN", "DELETED"}
    BY <1>2, AbsentHasNoTask
  <2>3. Seen(r).status \in {r.status, r.result}
    BY <1>2, SeenFacts, DeadlineSplit DEF Observed!AtRest
  <2> QED BY <2>1, <2>2, <2>3 DEF Observed!Exists
<1> QED BY <1>1, <1>2

\* The way of the task that a timed action begins.
WayOf(a) ==
    Observed!Way(VmStates[a], TaskStates(a), Timed[a].phases, Timed[a].result)

\* Every timed action begins one of the tasks a client knows.
LEMMA WaysOfActions ==
    ASSUME NEW a \in TimedAction
    PROVE  /\ WayOf(a) \in Observed!Ways
           /\ WayOf(a).from = VmStates[a] /\ WayOf(a).over = TaskStates(a)
           /\ WayOf(a).phases = Timed[a].phases /\ WayOf(a).result = Timed[a].result
<1>1. WayOf(a) \in Observed!Ways
  <2>1. CASE a = "start"
    BY <2>1, TimedFacts DEF WayOf, TaskStates, Observed!Way, Observed!Ways
  <2>2. CASE a = "stop"
    BY <2>2, TimedFacts DEF WayOf, TaskStates, Observed!Way, Observed!Ways
  <2>3. CASE a = "reboot_soft"
    BY <2>3, TimedFacts
       DEF WayOf, TaskStates, Observed!Way, Observed!Ways, SoftPhases
  <2>4. CASE a = "reboot_hard"
    BY <2>4, TimedFacts
       DEF WayOf, TaskStates, AllowReboot, Observed!Way, Observed!Ways, HardPhases
  <2> QED BY <2>1, <2>2, <2>3, <2>4 DEF TimedAction
<1> QED BY <1>1 DEF WayOf, Observed!Way

\* A task that begins is shown in its first phase, or as its result.
LEMMA BeginTaskSeen ==
    ASSUME NEW r, GoodRecord(r), NEW a \in TimedAction, r.status \in VmStates[a]
    PROVE  Seen(BeginTask(r, Timed[a].phases, Timed[a].result)) =
               IF Duration = 0 THEN Observed!AtRest(Timed[a].result)
               ELSE [status |-> r.status, task |-> Timed[a].phases[1]]
<1> DEFINE q == BeginTask(r, Timed[a].phases, Timed[a].result)
<1>1. GoodRecord(q)
  BY BeginTaskGood
<1>2. CASE Duration = 0
  <2>1. q.task = "None" /\ q.status = Timed[a].result
    BY <1>2, BeginTaskFacts
  <2>2. Seen(q) = Observed!AtRest(q.status)
    <3> HIDE DEF q
    <3> QED BY <1>1, <2>1, SeenFacts
  <2> QED BY <1>2, <2>1, <2>2
<1>3. CASE Duration # 0
  <2>1. /\ q.task = PhaseAt(Timed[a].phases, 0) /\ q.phases = Timed[a].phases
        /\ q.elapsed = 0 /\ q.status = r.status
    BY <1>3, BeginTaskFacts
  <2>2. Duration > 0 /\ Len(Timed[a].phases) \in {1, 3}
    BY <1>3, ServerLifecycleAssumption, PhasesDiffer
  <2>3. PhaseAt(Timed[a].phases, 0) = Timed[a].phases[1]
    <3>1. PhaseNumber(Len(Timed[a].phases), 0) = 1
      BY <2>2, FirstPhase
    <3> QED BY <3>1 DEF PhaseAt, PhaseNumber
  <2>4. q.task # "None"
    <3> HIDE DEF q
    <3> QED BY <2>1, <2>3, PhasesType DEF TaskState
  <2>5. Seen(q) = [status |-> q.status, task |-> PhaseAt(q.phases, q.elapsed)]
    <3> HIDE DEF q
    <3> QED BY <1>1, <2>1, <2>2, <2>4, SeenFacts
  <2> QED BY <1>3, <2>1, <2>3, <2>5
<1> QED BY <1>2, <1>3

\* A request that is decided on the record looked at is decided on what is shown:
\* it changes nothing, creates a server, begins a task, or leaves none.
LEMMA RequestSeen ==
    ASSUME NEW r, GoodRecord(r), NEW q, GoodRecord(q), RequestStep(r, q)
    PROVE  \/ Seen(q) = Seen(r)
           \/ Observed!Created(Seen(r), Seen(q))
           \/ Observed!Accepted(Seen(r), Seen(q))
           \/ Observed!Decided(Seen(r), Seen(q))
<1>1. CASE q = r \/ q = Advance(r)
  BY <1>1, SeenAgain
<1>2. CASE r.status = "UNBORN" /\ q.status = "ACTIVE" /\ q.task = "None"
  BY <1>2, SeenFacts, SeenExists DEF Observed!Created, Observed!AtRest
<1>3. CASE /\ r.status \notin {"UNBORN", "DELETED"} /\ q.status # "UNBORN"
           /\ q.task = "None"
           /\ \/ Advance(r).task = "None"
              \/ q.status \in {"ACTIVE", "SHUTOFF", "ERROR", "DELETED"}
  <2>1. Seen(q) = Observed!AtRest(q.status) /\ Observed!Exists(Seen(r))
    BY <1>3, SeenFacts, SeenExists
  <2>2. Seen(r).task = Advance(r).task
    BY DEF Seen
  <2> QED BY <1>3, <2>1, <2>2 DEF Observed!Decided, Observed!AtRest
<1>4. ASSUME NEW a \in TimedAction,
             CheckServerState(Advance(r), VmStates[a], TaskStates(a)),
             q = BeginTask(Advance(r), Timed[a].phases, Timed[a].result)
      PROVE  Observed!Accepted(Seen(r), Seen(q))
  <2>1. GoodRecord(Advance(r)) /\ Advance(r).status \in VmStates[a]
    BY <1>4, LookGood DEF CheckServerState
  <2>2. Seen(q) = IF Duration = 0 THEN Observed!AtRest(Timed[a].result)
                  ELSE [status |-> Advance(r).status, task |-> Timed[a].phases[1]]
    BY <1>4, <2>1, BeginTaskSeen
  <2>3. /\ Seen(r).status = Advance(r).status /\ Seen(r).task = Advance(r).task
        /\ Seen(r).task \in TaskStates(a)
    BY <1>4 DEF Seen, CheckServerState
  <2> DEFINE w == WayOf(a)
             x == Seen(r)
             y == Seen(q)
  <2>4. /\ w \in Observed!Ways
        /\ x.status \in w.from /\ x.task \in w.over
    BY <2>1, <2>3, WaysOfActions
  <2>5. y = IF Duration = 0 THEN Observed!AtRest(w.result)
            ELSE [status |-> x.status, task |-> w.phases[1]]
    BY <2>2, <2>3, WaysOfActions
  <2> HIDE DEF w, x, y
  <2>6. Observed!Accepted(x, y)
    BY <2>4, <2>5 DEF Observed!Accepted
  <2> QED BY <2>6 DEF x, y
<1> QED BY <1>1, <1>2, <1>3, <1>4 DEF RequestStep

\* A task shown in its own way: its phase has the number its age gives it.
LEMMA SeenOnWay ==
    ASSUME NEW r, GoodRecord(r), r.task # "None", NEW a \in TimedAction,
           r.phases = Timed[a].phases, r.result = Timed[a].result,
           r.status \in VmStates[a]
    PROVE  LET n == Len(Timed[a].phases)
           IN  IF r.elapsed >= Duration
               THEN Seen(r) = Observed!AtRest(Timed[a].result)
               ELSE /\ PhaseNumber(n, r.elapsed) \in 1..n
                    /\ Seen(r) = [status |-> r.status,
                                  task |-> Timed[a].phases[PhaseNumber(n, r.elapsed)]]
<1>1. CASE r.elapsed >= Duration
  BY <1>1, SeenFacts
<1>2. CASE ~(r.elapsed >= Duration)
  <2>1. r.elapsed < Duration /\ r.elapsed \in Int /\ Duration > 0
    BY <1>2, DeadlineSplit DEF GoodRecord, ServerRecord
  <2>2. Len(Timed[a].phases) \in {1, 3}
    BY PhasesDiffer
  <2> DEFINE n == Len(Timed[a].phases)
  <2>3. PhaseNumber(n, r.elapsed) \in 1..n
    <3> HIDE DEF n
    <3>1. n \in {1, 3}
      BY <2>2 DEF n
    <3> QED BY <2>1, <3>1, PhaseNumberMonotone
  <2>4. PhaseAt(r.phases, r.elapsed) =
            Timed[a].phases[PhaseNumber(Len(Timed[a].phases), r.elapsed)]
    BY DEF PhaseAt, PhaseNumber
  <2>5. Seen(r) = [status |-> r.status, task |-> PhaseAt(r.phases, r.elapsed)]
    BY <2>1, SeenFacts
  <2> QED BY <1>2, <2>3, <2>4, <2>5
<1> QED BY <1>1, <1>2

\* Two records that differ in nothing but the age of the task.
SameButAge(p, q) ==
    /\ q.status = p.status /\ q.task = p.task
    /\ q.phases = p.phases /\ q.result = p.result

\* An older task is shown at the same phase, at a later one, or at its end.
LEMMA OlderSeenOnward ==
    ASSUME NEW p, GoodRecord(p), NEW q, GoodRecord(q), SameButAge(p, q),
           p.task # "None" => q.elapsed >= p.elapsed \/ q.elapsed >= Duration
    PROVE  Observed!Onward(Seen(p), Seen(q))
<1>1. CASE p.task = "None"
  <2>1. Seen(p) = Observed!AtRest(p.status) /\ Seen(q) = Observed!AtRest(p.status)
    BY <1>1, SeenFacts DEF SameButAge
  <2> QED BY <2>1 DEF Observed!Onward
<1>2. CASE p.task # "None"
  <2>0. /\ p.elapsed \in Int /\ q.elapsed \in Int /\ Duration \in Nat /\ Duration > 0
        /\ q.task # "None"
    BY <1>2, ServerLifecycleAssumption DEF GoodRecord, ServerRecord, SameButAge
  <2>1. PICK a \in TimedAction :
            /\ p.phases = Timed[a].phases /\ p.result = Timed[a].result
            /\ p.status \in VmStates[a]
    BY <1>2 DEF GoodRecord, TaskRule
  <2>2. /\ q.phases = Timed[a].phases /\ q.result = Timed[a].result
        /\ q.status \in VmStates[a] /\ q.status = p.status
    BY <2>1 DEF SameButAge
  <2> DEFINE w == WayOf(a)
             n == Len(Timed[a].phases)
             i == PhaseNumber(n, p.elapsed)
             j == PhaseNumber(n, q.elapsed)
             x == Seen(p)
             y == Seen(q)
  <2>3. /\ w \in Observed!Ways /\ w.from = VmStates[a] /\ w.result = Timed[a].result
        /\ w.phases = Timed[a].phases
    BY WaysOfActions
  <2>4. n \in {1, 3}
    BY PhasesDiffer
  <2>5. IF p.elapsed >= Duration THEN x = Observed!AtRest(Timed[a].result)
        ELSE i \in 1..n /\ x = [status |-> p.status, task |-> Timed[a].phases[i]]
    BY <1>2, <2>1, SeenOnWay
  <2>6. IF q.elapsed >= Duration THEN y = Observed!AtRest(Timed[a].result)
        ELSE j \in 1..n /\ y = [status |-> q.status, task |-> Timed[a].phases[j]]
    BY <2>0, <2>2, SeenOnWay
  <2>7. p.elapsed <= q.elapsed => i <= j
    <3> HIDE DEF n
    <3> QED BY <2>0, <2>4, PhaseNumberMonotone
  <2>8. DOMAIN w.phases = 1..n /\ Len(w.phases) = n
    BY <2>3, TimedFacts DEF SoftPhases, HardPhases
  <2> HIDE DEF w, n, i, j, x, y
  <2>9. CASE p.elapsed >= Duration
    <3>1. q.elapsed >= Duration
      BY <1>2, <2>0, <2>9
    <3> QED BY <2>5, <2>6, <2>9, <3>1 DEF Observed!Onward, x, y
  <2>10. CASE ~(p.elapsed >= Duration) /\ q.elapsed >= Duration
    <3>1. Observed!Onward(x, y)
      BY <2>1, <2>3, <2>5, <2>6, <2>8, <2>10 DEF Observed!Onward
    <3> QED BY <3>1 DEF x, y
  <2>11. CASE ~(p.elapsed >= Duration) /\ ~(q.elapsed >= Duration)
    <3>1. j \in i..n
      BY <1>2, <2>0, <2>4, <2>5, <2>6, <2>7, <2>11
    <3>2. y = [x EXCEPT !.task = w.phases[j]]
      BY <2>2, <2>3, <2>5, <2>6, <2>11
    <3>3. x.status \in w.from /\ x.task = w.phases[i] /\ i \in 1..n
      BY <2>1, <2>3, <2>5, <2>11
    <3>4. Observed!Onward(x, y)
      BY <2>3, <2>8, <3>1, <3>2, <3>3 DEF Observed!Onward
    <3> QED BY <3>4 DEF x, y
  <2> QED BY <2>9, <2>10, <2>11
<1> QED BY <1>1, <1>2

\* What time does to a record: nothing but the age changes, by one tick or up to
\* the deadline.
LEMMA AgedFacts ==
    ASSUME NEW r, GoodRecord(r), NEW d \in {1, -1}
    PROVE  /\ GoodRecord(Aged(r, d))
           /\ SameButAge(r, Aged(r, d))
           /\ r.task = "None" => Aged(r, d) = r
           /\ r.task # "None" =>
                  Aged(r, d).elapsed =
                      IF r.elapsed + d > Duration THEN Duration ELSE r.elapsed + d
<1>1. GoodRecord(Aged(r, d))
  BY AgedGood
<1>2. CASE r.task = "None"
  BY <1>1, <1>2 DEF Aged, SameButAge
<1>3. CASE r.task # "None"
  <2> DEFINE e == IF r.elapsed + d > Duration THEN Duration ELSE r.elapsed + d
  <2>1. Aged(r, d) = [r EXCEPT !.elapsed = e]
    BY <1>3 DEF Aged
  <2>2. r \in ServerRecord
    BY DEF GoodRecord
  <2> HIDE DEF e
  <2>3. SameButAge(r, Aged(r, d)) /\ Aged(r, d).elapsed = e
    BY <2>1, <2>2 DEF ServerRecord, SameButAge
  <2> QED BY <1>1, <1>3, <2>3 DEF e
<1> QED BY <1>2, <1>3

\* The tasks of two records with the same phases have the same result.
LEMMA PhasesTellResult ==
    ASSUME NEW p, GoodRecord(p), p.task # "None",
           NEW q, GoodRecord(q), q.task # "None", q.phases = p.phases
    PROVE  q.result = p.result
<1>1. PICK a \in TimedAction : p.phases = Timed[a].phases /\ p.result = Timed[a].result
  BY DEF GoodRecord, TaskRule
<1>2. PICK b \in TimedAction : q.phases = Timed[b].phases /\ q.result = Timed[b].result
  BY DEF GoodRecord, TaskRule
<1>3. \A x \in TimedAction :
          Timed[x].result = "SHUTOFF" <=> Timed[x].phases = <<"POWERING_OFF">>
  <2> SUFFICES ASSUME NEW x \in TimedAction
               PROVE  Timed[x].result = "SHUTOFF" <=> Timed[x].phases = <<"POWERING_OFF">>
    OBVIOUS
  <2>1. CASE x = "start"
    <3>1. <<"POWERING_ON">>[1] # <<"POWERING_OFF">>[1]
      OBVIOUS
    <3> QED BY <2>1, <3>1, TimedFacts
  <2>2. CASE x = "stop"
    BY <2>2, TimedFacts
  <2>3. CASE x = "reboot_soft"
    <3>1. Len(SoftPhases) = 3 /\ Len(<<"POWERING_OFF">>) = 1
      BY DEF SoftPhases
    <3> QED BY <2>3, <3>1, TimedFacts
  <2>4. CASE x = "reboot_hard"
    <3>1. Len(HardPhases) = 3 /\ Len(<<"POWERING_OFF">>) = 1
      BY DEF HardPhases
    <3> QED BY <2>4, <3>1, TimedFacts
  <2> QED BY <2>1, <2>2, <2>3, <2>4 DEF TimedAction
<1>4. \A x \in TimedAction : Timed[x].result \in {"ACTIVE", "SHUTOFF"}
  BY TimedFacts
<1> QED BY <1>1, <1>2, <1>3, <1>4

\* Where memory and the file show the same, they show the same a tick later: a
\* task in progress is in both, with its age, and one that is over stays over.
LEMMA TimeKeepsFile ==
    ASSUME NEW r, GoodRecord(r), NEW f, GoodRecord(f),
           IF AutoSave THEN TasksFrom(r, f) ELSE f.status = "UNBORN",
           Seen(f) = Seen(r)
    PROVE  Seen(Aged(f, 1)) = Seen(Aged(r, 1))
<1>1. CASE r.task # "None"
  <2>1. f.status # "UNBORN"
    <3>1. r.status # "UNBORN"
      BY <1>1, AbsentHasNoTask
    <3>2. Seen(r).status # "UNBORN"
      BY <3>1, SeenExists
    <3>3. f.status = "UNBORN" => Seen(f).status = "UNBORN"
      BY SeenExists DEF Observed!AtRest
    <3> QED BY <3>2, <3>3
  <2>2. /\ f.task # "None" /\ f.phases = r.phases
        /\ f.elapsed = r.elapsed /\ f.status = r.status
    BY <1>1, <2>1 DEF TasksFrom
  <2>3. f.result = r.result
    BY <1>1, <2>2, PhasesTellResult
  <2> DEFINE p == Aged(r, 1)
             q == Aged(f, 1)
  <2>4. /\ GoodRecord(p) /\ GoodRecord(q)
        /\ p.task # "None" /\ q.task # "None" /\ q.phases = p.phases
        /\ q.status = p.status /\ q.result = p.result /\ q.elapsed = p.elapsed
    BY <1>1, <2>2, <2>3, AgedFacts DEF SameButAge
  <2> HIDE DEF p, q
  <2>5. CASE p.elapsed >= Duration
    <3>1. Seen(p) = Observed!AtRest(p.result) /\ Seen(q) = Observed!AtRest(q.result)
      BY <2>4, <2>5, SeenFacts
    <3> QED BY <2>4, <3>1 DEF p, q
  <2>6. CASE p.elapsed < Duration
    <3>1. /\ Seen(p) = [status |-> p.status, task |-> PhaseAt(p.phases, p.elapsed)]
          /\ Seen(q) = [status |-> q.status, task |-> PhaseAt(q.phases, q.elapsed)]
      BY <2>4, <2>6, SeenFacts
    <3> QED BY <2>4, <3>1 DEF p, q
  <2> QED BY <2>4, <2>5, <2>6, DeadlineSplit
<1>2. CASE r.task = "None" /\ f.task = "None"
  BY <1>2, AgedFacts
<1>3. CASE r.task = "None" /\ f.task # "None"
  <2>1. f.elapsed >= Duration
    <3>1. Seen(f).task = "None"
      BY <1>3, SeenFacts DEF Observed!AtRest
    <3> QED BY <1>3, <3>1, SeenFacts, DeadlineSplit
  <2> DEFINE q == Aged(f, 1)
  <2>2. /\ GoodRecord(q) /\ q.task # "None" /\ q.result = f.result
        /\ q.elapsed >= Duration
    <3>1. /\ GoodRecord(q) /\ q.task # "None" /\ q.result = f.result
          /\ q.elapsed = IF f.elapsed + 1 > Duration THEN Duration ELSE f.elapsed + 1
      BY <1>3, AgedFacts DEF SameButAge
    <3>2. f.elapsed \in Int /\ Duration \in Nat
      BY ServerLifecycleAssumption DEF GoodRecord, ServerRecord
    <3> HIDE DEF q
    <3> QED BY <2>1, <3>1, <3>2
  <2> HIDE DEF q
  <2>3. Seen(q) = Observed!AtRest(f.result) /\ Seen(f) = Observed!AtRest(f.result)
    BY <1>3, <2>1, <2>2, SeenFacts
  <2>4. Aged(r, 1) = r
    BY <1>3, AgedFacts
  <2> QED BY <2>3, <2>4 DEF q
<1> QED BY <1>1, <1>2, <1>3

\* What is shown of memory and of the file.
SeenInMemory == [s \in Server |-> Seen(servers[s])]
SeenInFile   == [s \in Server |-> Seen(disk.servers[s])]

\* A new database shows no server.
LEMMA InitObserved == Init => Observed!Init
<1> SUFFICES ASSUME Init PROVE Observed!Init
  OBVIOUS
<1>1. \A s \in Server : servers[s] = Absent("UNBORN") /\ disk.servers[s] = servers[s]
  BY DEF Init, Image
<1>2. GoodRecord(Absent("UNBORN")) /\ Absent("UNBORN").status = "UNBORN"
  BY AbsentGood DEF Absent
<1>3. Seen(Absent("UNBORN")) = Observed!AtRest("UNBORN")
  BY <1>2, SeenExists
<1> QED BY <1>1, <1>3 DEF Observed!Init

\* A save puts what is shown into the file.
LEMMA SaveObserved ==
    ASSUME Save
    PROVE  SeenInFile' = IF AutoSave THEN SeenInMemory' ELSE SeenInFile
BY DEF Save, Image, SeenInFile, SeenInMemory

\* A request is one of the requests a client knows, the override, or no change.
LEMMA RequestsObserved ==
    ASSUME IInv, IInv', RequestsStep
    PROVE  [Observed!Next]_(Observed!vars)
<1>1. \A s \in Server : GoodRecord(servers[s]) /\ GoodRecord(servers'[s])
  BY DEF IInv, MemoryOK, ServersOK
<1>2. CASE Look
  <2>1. \A s \in Server : Seen(servers'[s]) = Seen(servers[s])
    BY <1>1, <1>2, SeenAgain DEF Look
  <2>2. SeenInMemory' = SeenInMemory /\ SeenInFile' = SeenInFile
    BY <1>2, <2>1 DEF Look, SeenInMemory, SeenInFile
  <2> QED BY <2>2 DEF Observed!vars, SeenInMemory, SeenInFile
<1>3. ASSUME NEW s \in Server, Override(s) PROVE Observed!Override(s)
  <2>1. Observed!Exists(SeenInMemory[s])
    BY <1>1, <1>3, SeenExists DEF Override, SeenInMemory
  <2>2. Seen(servers'[s]) = Observed!AtRest(servers'[s].status)
    BY <1>1, <1>3, SeenFacts DEF Override
  <2>3. \A t \in Server \ {s} : Seen(servers'[t]) = Seen(servers[t])
    BY <1>3 DEF Override, OthersStay
  <2>4. SeenInMemory' = [SeenInMemory EXCEPT ![s] = Observed!AtRest(servers'[s].status)]
    BY <2>2, <2>3 DEF SeenInMemory
  <2>5. SeenInFile' = SeenInFile /\ servers'[s].status \in {"ACTIVE", "SHUTOFF"}
    BY <1>3 DEF Override, SeenInFile
  <2> QED BY <2>1, <2>4, <2>5 DEF Observed!Override, SeenInMemory, SeenInFile
<1>4. CASE Save /\ UNCHANGED servers
  <2>1. SeenInMemory' = SeenInMemory
    BY <1>4 DEF SeenInMemory
  <2> QED
    BY <1>4, <2>1, SaveObserved
    DEF Observed!Next, Observed!Store, SeenInMemory, SeenInFile
<1>5. ASSUME NEW s \in Server, SavedRequest(s)
      PROVE  Observed!Request(s) \/ Observed!Store
  <2>1. \A t \in Server \ {s} : SeenInMemory'[t] = SeenInMemory[t]
    BY <1>5 DEF SavedRequest, OthersStay, SeenInMemory
  <2>2. SeenInFile' = IF AutoSave THEN SeenInMemory' ELSE SeenInFile
    BY <1>5, SaveObserved DEF SavedRequest
  <2>3. \/ SeenInMemory'[s] = SeenInMemory[s]
        \/ Observed!Created(SeenInMemory[s], SeenInMemory'[s])
        \/ Observed!Accepted(SeenInMemory[s], SeenInMemory'[s])
        \/ Observed!Decided(SeenInMemory[s], SeenInMemory'[s])
    BY <1>1, <1>5, RequestSeen DEF SavedRequest, SeenInMemory
  <2>4. CASE SeenInMemory'[s] = SeenInMemory[s]
    <3>1. SeenInMemory' = SeenInMemory
      BY <2>1, <2>4 DEF SeenInMemory
    <3> QED BY <2>2, <3>1 DEF Observed!Store, SeenInMemory, SeenInFile
  <2>5. CASE \/ Observed!Created(SeenInMemory[s], SeenInMemory'[s])
             \/ Observed!Accepted(SeenInMemory[s], SeenInMemory'[s])
             \/ Observed!Decided(SeenInMemory[s], SeenInMemory'[s])
    BY <2>1, <2>2, <2>5 DEF Observed!Request, SeenInMemory, SeenInFile
  <2> QED BY <2>3, <2>4, <2>5
<1> QED BY <1>2, <1>3, <1>4, <1>5 DEF RequestsStep, Observed!Next

\* Time is time: every task goes on, in memory and in the file.
LEMMA TickObserved ==
    ASSUME IInv, FileInv, AgeAll(1)
    PROVE  Observed!Time
<1>1. \A s \in Server : /\ servers'[s] = Aged(servers[s], 1)
                        /\ disk'.servers[s] = Aged(disk.servers[s], 1)
  BY DEF AgeAll, IInv, DiskOK
<1>2. \A s \in Server : GoodRecord(servers[s]) /\ GoodRecord(disk.servers[s])
  BY DEF IInv, MemoryOK, DiskOK, ServersOK
<1>3. ASSUME NEW r, GoodRecord(r) PROVE Observed!Onward(Seen(r), Seen(Aged(r, 1)))
  <2>1. r.task # "None" => \/ Aged(r, 1).elapsed >= r.elapsed
                           \/ Aged(r, 1).elapsed >= Duration
    <3>1. r.elapsed \in Int /\ Duration \in Nat
      BY <1>3, ServerLifecycleAssumption DEF GoodRecord, ServerRecord
    <3>2. r.task # "None" =>
              Aged(r, 1).elapsed =
                  IF r.elapsed + 1 > Duration THEN Duration ELSE r.elapsed + 1
      BY <1>3, AgedFacts
    <3> QED BY <3>1, <3>2
  <2> QED BY <1>3, <2>1, AgedFacts, OlderSeenOnward
<1>4. ASSUME NEW s \in Server, SeenInFile[s] = SeenInMemory[s]
      PROVE  SeenInFile'[s] = SeenInMemory'[s]
  <2>1. Seen(disk.servers[s]) = Seen(servers[s])
    BY <1>4 DEF SeenInFile, SeenInMemory
  <2>2. Seen(Aged(disk.servers[s], 1)) = Seen(Aged(servers[s], 1))
    BY <1>2, <2>1, TimeKeepsFile DEF FileInv
  <2> QED BY <1>1, <2>2 DEF SeenInFile, SeenInMemory
<1>5. ASSUME NEW s \in Server
      PROVE  /\ Observed!Onward(SeenInMemory[s], SeenInMemory'[s])
             /\ Observed!Onward(SeenInFile[s], SeenInFile'[s])
  BY <1>1, <1>2, <1>3 DEF SeenInFile, SeenInMemory
<1> QED BY <1>4, <1>5 DEF Observed!Time, SeenInFile, SeenInMemory

\* A clock stepped back shows every task where it may have been before.
LEMMA StepBackObserved ==
    ASSUME IInv, AgeAll(-1)
    PROVE  Observed!TimeBack
<1>1. \A s \in Server : /\ servers'[s] = Aged(servers[s], -1)
                        /\ disk'.servers[s] = Aged(disk.servers[s], -1)
  BY DEF AgeAll, IInv, DiskOK
<1>2. \A s \in Server : GoodRecord(servers[s]) /\ GoodRecord(disk.servers[s])
  BY DEF IInv, MemoryOK, DiskOK, ServersOK
<1>3. ASSUME NEW r, GoodRecord(r) PROVE Observed!Onward(Seen(Aged(r, -1)), Seen(r))
  <2> DEFINE p == Aged(r, -1)
  <2>1. GoodRecord(p) /\ SameButAge(p, r) /\ (p.task # "None" <=> r.task # "None")
    BY <1>3, AgedFacts DEF SameButAge
  <2>2. r.task # "None" => r.elapsed >= p.elapsed
    <3>1. r.elapsed \in Int /\ Duration \in Nat
      BY <1>3, ServerLifecycleAssumption DEF GoodRecord, ServerRecord
    <3>2. r.task # "None" =>
              p.elapsed = IF r.elapsed - 1 > Duration THEN Duration ELSE r.elapsed - 1
      BY <1>3, <3>1, AgedFacts
    <3> HIDE DEF p
    <3> QED BY <3>1, <3>2
  <2> HIDE DEF p
  <2>3. Observed!Onward(Seen(p), Seen(r))
    BY <1>3, <2>1, <2>2, OlderSeenOnward
  <2> QED BY <2>3 DEF p
<1>4. ASSUME NEW s \in Server
      PROVE  /\ Observed!Onward(SeenInMemory'[s], SeenInMemory[s])
             /\ Observed!Onward(SeenInFile'[s], SeenInFile[s])
  BY <1>1, <1>2, <1>3 DEF SeenInFile, SeenInMemory
<1> QED BY <1>4 DEF Observed!TimeBack, SeenInFile, SeenInMemory

\* Every step of the program is one of what is shown, or changes nothing of it.
LEMMA StepObserved ==
    ASSUME IInv, FileInv, [Next]_vars
    PROVE  [Observed!Next]_(Observed!vars)
<1>1. CASE RequestsStep
  BY <1>1, NextInv, RequestsObserved
<1>2. CASE AgeAll(1)
  BY <1>2, TickObserved DEF Observed!Next
<1>3. CASE AgeAll(-1)
  BY <1>3, StepBackObserved DEF Observed!Next
<1>4. CASE Restart
  <2>1. SeenInMemory' = SeenInFile /\ SeenInFile' = SeenInFile
    BY <1>4 DEF Restart, SeenInMemory, SeenInFile
  <2> QED BY <2>1 DEF Observed!Next, Observed!Restart, SeenInMemory, SeenInFile
<1> QED BY <1>1, <1>2, <1>3, <1>4, StepKinds

\* A client cannot tell the program, whose tasks move when somebody looks and
\* whose file holds them as they were saved, from one in which they move with the
\* clock.
THEOREM ServersObserved == Spec => LookingChangesNothing
<1>1. Init => Observed!Init
  BY InitObserved
<1>2. IInv /\ FileInv /\ [Next]_vars => [Observed!Next]_(Observed!vars)
  BY StepObserved
<1> QED
  BY <1>1, <1>2, FileInvariance, PTL DEF Spec, LookingChangesNothing, Observed!Spec

============================================================================
