-------------------------- MODULE ObservedServers --------------------------
(***************************************************************************)
(* What the compute API promises about servers to whoever asks, however    *)
(* often anybody asks: each server has a status and a task, the task takes *)
(* its way with the time, and requests are decided on by both.  There are  *)
(* no records here that are brought up to date when somebody looks, no     *)
(* times at which tasks started and no request that waits for its body.    *)
(***************************************************************************)
EXTENDS Integers, Sequences

CONSTANTS
    Server,
    Instant,  \* Tasks take no time.
    Durable   \* What a request has done survives the process.

VARIABLES
    seen,     \* seen[s]: the status and task shown to a client that asks now.
    kept      \* kept[s]: what it would be shown if the process restarted now.

vars == <<seen, kept>>

AtRest(st) == [status |-> st, task |-> "None"]
Exists(x) == x.status \notin {"UNBORN", "DELETED"}

(* A task's way: from one of some statuses, through phases, to a result;   *)
(* and the tasks it may take the place of.                                 *)
Way(from, over, phases, result) ==
    [from |-> from, over |-> over, phases |-> phases, result |-> result]

Ways ==
    {Way({"SHUTOFF"}, {"None"}, <<"POWERING_ON">>, "ACTIVE"),
     Way({"ACTIVE", "ERROR"}, {"None"}, <<"POWERING_OFF">>, "SHUTOFF"),
     Way({"ACTIVE"}, {"None"},
         <<"REBOOTING", "REBOOT_PENDING", "REBOOT_STARTED">>, "ACTIVE"),
     Way({"ACTIVE", "SHUTOFF", "PAUSED", "SUSPENDED", "ERROR"},
         {"None", "REBOOTING", "REBOOT_PENDING", "REBOOT_STARTED", "REBOOTING_HARD"},
         <<"REBOOTING_HARD", "REBOOT_PENDING_HARD", "REBOOT_STARTED_HARD">>, "ACTIVE")}

Init ==
    /\ seen = [s \in Server |-> AtRest("UNBORN")]
    /\ kept = seen

(* What may be asked of a server that is shown as x, and leave it as y.    *)
Created(x, y) == x.status = "UNBORN" /\ y = AtRest("ACTIVE")

Accepted(x, y) ==
    \E w \in Ways :
        /\ x.status \in w.from /\ x.task \in w.over
        /\ y = IF Instant THEN AtRest(w.result)
                          ELSE [status |-> x.status, task |-> w.phases[1]]

\* A task ends before its time by a deletion, a reset or an override only.
Decided(x, y) ==
    /\ Exists(x)
    /\ y = AtRest(y.status) /\ y.status # "UNBORN"
    /\ x.task # "None" => y.status \in {"ACTIVE", "SHUTOFF", "ERROR", "DELETED"}

Request(s) ==
    /\ \A t \in Server \ {s} : seen'[t] = seen[t]
    /\ kept' = IF Durable THEN seen' ELSE kept
    /\ LET x == seen[s]  y == seen'[s]
       IN  Created(x, y) \/ Accepted(x, y) \/ Decided(x, y)

(* The status page's override, of which the file does not hear until       *)
(* something else is saved.                                                *)
Override(s) ==
    /\ Exists(seen[s])
    /\ \E st \in {"ACTIVE", "SHUTOFF"} : seen' = [seen EXCEPT ![s] = AtRest(st)]
    /\ UNCHANGED kept

Store ==
    /\ UNCHANGED seen
    /\ kept' = IF Durable THEN seen ELSE kept

(* With time x has become y: the same, or further on its way.              *)
Onward(x, y) ==
    \/ y = x
    \/ \E w \in Ways : \E i \in DOMAIN w.phases :
          /\ x.status \in w.from /\ x.task = w.phases[i]
          /\ \/ y = AtRest(w.result)
             \/ \E j \in i..Len(w.phases) : y = [x EXCEPT !.task = w.phases[j]]

(* Time passes for all, and for what is kept as for what is shown.         *)
Time ==
    \A s \in Server :
        /\ Onward(seen[s], seen'[s])
        /\ Onward(kept[s], kept'[s])
        /\ kept[s] = seen[s] => kept'[s] = seen'[s]

(* The clock is stepped back.                                              *)
TimeBack ==
    \A s \in Server : Onward(seen'[s], seen[s]) /\ Onward(kept'[s], kept[s])

Restart == seen' = kept /\ UNCHANGED kept

Next ==
    \/ Store
    \/ Restart
    \/ \E s \in Server : Request(s) \/ Override(s)
    \/ Time
    \/ TimeBack

Spec == Init /\ [][Next]_vars

=============================================================================
