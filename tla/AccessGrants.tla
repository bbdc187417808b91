---------------------------- MODULE AccessGrants ----------------------------
(***************************************************************************)
(* What Keystone promises about role assignments, whatever list it keeps   *)
(* them in: a set of grants, in which a role is granted or not.  Granting  *)
(* twice is granting once, so that one revocation is enough, and what a    *)
(* user, group, project or role was granted goes with it.                  *)
(*                                                                         *)
(* It promises less of a restart, which leads back to what is recorded:    *)
(* what was granted and revoked since may be undone.  But things that are  *)
(* durable come, go and take their grants along for good.                  *)
(***************************************************************************)

CONSTANTS
    Things,  \* Whatever a grant can name: roles, users, groups, projects, domains.
    Lasting, \* The things whose grants outlive them.
    Durable  \* The things that a restart neither loses nor brings back.

VARIABLES
    known,   \* The things that exist.
    granted, \* The grants in force: sequences <<role, actor, target>>.
    recorded \* What a restart leads back to: the things and the grants.

vars == <<known, granted, recorded>>

NamedBy(g) == {g[1], g[2], g[3]}

Record(things, grants) == [known |-> things, granted |-> grants]

Init ==
    /\ known \in SUBSET Things
    /\ granted \in SUBSET (known \X known \X known)
    /\ recorded = Record(known, granted)

(* Things are recorded as they are, or not at all.  Of new grants, a part  *)
(* may be recorded.                                                        *)
Recorded ==
    \/ UNCHANGED recorded
    \/ \E part \in SUBSET (granted' \ granted) :
           recorded' = Record(known', (granted' \cap granted) \cup part)

(* Somebody is granted roles; what is granted anew is granted to things    *)
(* that exist, some of which may have come to be for that purpose.         *)
Grant ==
    /\ known \subseteq known'
    /\ known' \subseteq Things
    /\ granted \subseteq granted'
    /\ \A g \in granted' \ granted : g \in known' \X known' \X known'
    /\ Recorded
    /\ (known' \ known) \cap Durable # {} => recorded'.known = known'

(* One grant is taken back, and is gone; it may be for the record.         *)
Revoke ==
    /\ \E g \in granted : granted' = granted \ {g}
    /\ UNCHANGED known
    /\ Recorded

(* A thing goes, and what names it with it, a durable one for good.        *)
Forget ==
    \E x \in known :
        /\ known' = known \ {x}
        /\ granted' = {g \in granted : x \in Lasting \/ x \notin NamedBy(g)}
        /\ Recorded
        /\ x \in Durable => recorded' = Record(known', granted')

Save ==
    /\ recorded' = Record(known, granted)
    /\ UNCHANGED <<known, granted>>

Restart ==
    /\ known' = recorded.known
    /\ granted' = recorded.granted
    /\ UNCHANGED recorded

Next == Save \/ Restart \/ Grant \/ Revoke \/ Forget

Spec == Init /\ [][Next]_vars

=============================================================================
