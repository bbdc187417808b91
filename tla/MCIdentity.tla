----------------------------- MODULE MCIdentity -----------------------------
(* Keystone with two users, projects and roles, for TLC.                   *)
EXTENDS Identity, TLC

CONSTANTS
    OtherProject, OtherRole,  \* Those a new database does not hold.
    MaxGrants,  \* How many assignments there are at a time, the file's included.
    MaxIds,     \* How many ids are given and taken back in all.
    MaxChanges  \* How much may be going on at a time.

(* The mappings give nothing, the other role on the other project, or the  *)
(* first role on both.                                                     *)
FewProvisions ==
    {{}, {<<OtherRole, OtherProject>>}, {AdminRole} \X {AdminProject, OtherProject}}

Given == {u \in Users : user[u] # Unborn} \cup {x \in Things : life[x] # Unborn}
TakenBack == {u \in Users : user[u] = Gone} \cup {x \in Things : life[x] = Gone}
InForce == {t \in Tokens : token[t] # NoToken}

(* What a restart at this moment would undo.                               *)
Unsaved ==
    {g \in Grants : grants[g] # file.grants[g]} \cup {x \in Things : life[x] # file.life[x]}
    \cup {g \in Groups : members[g] # file.members[g]}
    \cup {c \in Credentials : credential[c] # file.credential[c]}

(* Each id that was given, or taken back, and each difference from the     *)
(* file counts once, each token in force twice.                            *)
Bounded ==
    /\ Cardinality(GrantsInForce \cup GrantsInFile) <= MaxGrants
    /\ Cardinality(Given) + Cardinality(TakenBack) <= MaxIds
    /\ Cardinality(Given) + Cardinality(TakenBack) + Cardinality(Unsaved)
           + 2 * Cardinality(InForce) <= MaxChanges

Ids == Permutations(Tokens)
=============================================================================
