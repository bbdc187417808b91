--------------------------- MODULE KeystoneProofs ---------------------------
(***************************************************************************)
(* Proofs about Keystone: Identity, for any users, groups, projects,       *)
(* domains, roles, names, tokens and application credentials, and, in the  *)
(* second half, Federation, for any persons, claims, mappings, codes and   *)
(* tokens.  The two models share no name, and no step of one is a step of  *)
(* the other.                                                              *)
(*                                                                         *)
(* A token stays with whom its chain of authentications began because an   *)
(* id, once given, is never unborn again: a user that has gone does not    *)
(* come back under the same id (Begun).                                    *)
(*                                                                         *)
(* A federated session says nothing but what was asserted of its person    *)
(* because every match of a mapping rule is a part of a claim.  That the   *)
(* match a rule asks for exists, and that there is a last user, is counted *)
(* out with the least element of a set of numbers (LeastNumber).           *)
(***************************************************************************)
EXTENDS Identity, Federation, FiniteSetTheorems, WellFoundedInduction, TLAPS

(***************************************************************************)
(* Facts about the records and the list of assignments.                    *)
(***************************************************************************)

(* A grant names a role, an actor and a target, and those of different     *)
(* kinds differ.                                                           *)
LEMMA GrantParts ==
    ASSUME NEW g \in Grants
    PROVE  /\ g[1] \in Roles /\ g[2] \in Users \cup Groups /\ g[3] \in Projects \cup Domains
           /\ g = <<g[1], g[2], g[3]>>
  BY DEF Grants

(* Three ids of the right kinds make a grant.                              *)
LEMMA GrantOf ==
    ASSUME NEW r \in Roles, NEW a \in Users \cup Groups, NEW x \in Projects \cup Domains
    PROVE  /\ <<r, a, x>> \in Grants
           /\ <<r, a, x>>[1] = r /\ <<r, a, x>>[2] = a /\ <<r, a, x>>[3] = x
  BY DEF Grants

(* The kinds of ids have no id in common.                                  *)
LEMMA KindsApart ==
    /\ Users \cap Groups = {} /\ Users \cap Projects = {} /\ Users \cap Domains = {}
    /\ Users \cap Roles = {} /\ Groups \cap Projects = {} /\ Groups \cap Domains = {}
    /\ Groups \cap Roles = {} /\ Projects \cap Domains = {} /\ Projects \cap Roles = {}
    /\ Domains \cap Roles = {} /\ Users \cap Things = {} /\ Users \cap Names = {}
  BY IdentityAssumption DEF IdentityAssumption, Things

(* A token made of parts of the right kinds is one, and says what it was   *)
(* made of.                                                                *)
LEMMA TokenFacts ==
    ASSUME NEW u \in Users \cup Names, NEW n \in Names, NEW gs \in SUBSET Groups,
           NEW o \in Users \cup Names
    PROVE  /\ NewToken(u, n, gs, o) \in TokenRecord
           /\ NewToken(u, n, gs, o).user = u /\ NewToken(u, n, gs, o).origin = o
  BY DEF NewToken, TokenRecord

(* What a token holds.                                                     *)
LEMMA TokenParts ==
    ASSUME NEW tk \in TokenRecord
    PROVE  /\ tk.user \in Users \cup Names /\ tk.name \in Names
           /\ tk.groups \in SUBSET Groups /\ tk.origin \in Users \cup Names
  BY DEF TokenRecord

(* A credential says who owns it.                                          *)
LEMMA CredentialFacts ==
    ASSUME NEW u \in Users
    PROVE  NewCredential(u) \in CredentialRecord /\ NewCredential(u).owner = u
  BY DEF NewCredential, CredentialRecord

(* Whom an authentication by name leads to is a user or a name, and has a  *)
(* name.                                                                   *)
LEMMA ResolvedIsKnown ==
    ASSUME TypeOK, NEW id, NEW n \in Names, NEW u \in Resolved(id, n)
    PROVE  /\ u \in LiveUsers \cup Names
           /\ u \in Users \cup Names
           /\ NameOf(u, n) \in Names
           /\ id \in LiveUsers => u = id
  BY DEF Resolved, NameOf, LiveUsers, IsUser, UsersNamed

(***************************************************************************)
(* The inductive invariant.                                                *)
(***************************************************************************)

(* Whoever a token or an application credential began with has been there, *)
(* and is still its user unless gone.                                      *)
Begun ==
    /\ \A t \in Tokens : token[t] # NoToken /\ token[t].origin \in Users =>
           /\ user[token[t].origin] # Unborn
           /\ IsUser(token[t].origin) => token[t].user = token[t].origin
    /\ \A c \in Credentials :
           credential[c] # NoCredential => user[credential[c].owner] # Unborn

(* What the file holds refers to what it holds; and it is up to date with  *)
(* the users, each change of which is saved.                               *)
InFile(x) == IF x \in Users THEN file.user[x] \in Names ELSE file.life[x] = Live

FileRefers ==
    /\ \A g \in Grants : file.grants[g] > 0 =>
           /\ InFile(g[1]) /\ InFile(g[2])
           /\ g[3] \in Projects => InFile(g[3])
    /\ \A g \in Groups : file.members[g] \subseteq {u \in Users : InFile(u)}
    /\ \A g \in Groups : file.members[g] # {} => InFile(g)

FileBegun ==
    /\ file.user = user
    /\ \A c \in Credentials :
           file.credential[c] # NoCredential => user[file.credential[c].owner] # Unborn

FileInv == FileRefers /\ FileBegun

IInv == TypeOK /\ GrantsRefer /\ Begun /\ FileInv

(* What is saved of a database that refers to what exists does so.         *)
LEMMA SnapshotRefers ==
    ASSUME GrantsRefer, Begun, file = Snapshot
    PROVE  FileInv
<1>1. \A x \in Users : InFile(x) <=> IsUser(x)
  BY DEF Snapshot, InFile, IsUser
<1>2. \A x \in Things : InFile(x) <=> IsThere(x)
  BY KindsApart DEF Snapshot, InFile, IsThere
<1>3. \A g \in Grants : /\ g[1] \in Things /\ g[2] \in Users \cup Things
                        /\ g[3] \in Projects => g[3] \in Things
  BY GrantParts DEF Things
<1>4. Groups \subseteq Things
  BY DEF Things
<1>5. FileRefers
  <2>1. ASSUME NEW g \in Grants, file.grants[g] > 0
        PROVE  /\ InFile(g[1]) /\ InFile(g[2])
               /\ g[3] \in Projects => InFile(g[3])
    <3>1. IsThere(g[1]) /\ ActorExists(g[2]) /\ (g[3] \in Projects => IsThere(g[3]))
      BY <2>1 DEF Snapshot, GrantsRefer
    <3>2. ActorExists(g[2]) <=> InFile(g[2])
      BY <1>1, <1>2, <1>3 DEF ActorExists
    <3> QED
      BY <3>1, <3>2, <1>2, <1>3
  <2>2. \A g \in Groups : file.members[g] \subseteq {u \in Users : InFile(u)}
    BY <1>1, <1>2, <1>3, <1>4 DEF Snapshot, GrantsRefer, LiveUsers
  <2>3. \A g \in Groups : file.members[g] # {} => InFile(g)
    BY <1>1, <1>2, <1>3, <1>4 DEF Snapshot, GrantsRefer, LiveUsers
  <2> QED
    BY <2>1, <2>2, <2>3 DEF FileRefers
<1>6. FileBegun
  BY DEF Snapshot, FileBegun, Begun
<1> QED
  BY <1>5, <1>6 DEF FileInv

(* The invariant holds of a new database.                                  *)
LEMMA Initially == Init => IInv
<1> SUFFICES ASSUME Init PROVE IInv
  OBVIOUS
<1>1. TypeOK
  <2>1. MemoryTypeOK
    BY IdentityAssumption DEF Init, MemoryTypeOK, IdentityAssumption, Grants, Things
  <2> QED
    BY <2>1 DEF Init, TypeOK, MemoryTypeOK, Snapshot, FileRecord
<1>2. GrantsRefer
  <2>1. ASSUME NEW g \in Grants, grants[g] > 0
        PROVE  IsThere(g[1]) /\ ActorExists(g[2]) /\ (g[3] \in Projects => IsThere(g[3]))
    <3>1. g = <<AdminRole, AdminUser, AdminProject>>
      BY <2>1 DEF Init
    <3>2. g[1] = AdminRole /\ g[2] = AdminUser /\ g[3] = AdminProject
      BY <3>1
    <3>3. AdminRole \in Things /\ AdminProject \in Things /\ AdminUser \in Users
      BY IdentityAssumption DEF IdentityAssumption, Things
    <3>4. user[AdminUser] = AdminName /\ life[AdminRole] = Live /\ life[AdminProject] = Live
      BY <3>3 DEF Init
    <3> QED
      BY <3>2, <3>3, <3>4, IdentityAssumption DEF IdentityAssumption, IsThere, ActorExists, IsUser
  <2> QED
    BY <2>1 DEF GrantsRefer, Init
<1>3. Begun
  BY DEF Init, Begun
<1>4. file = Snapshot
  BY DEF Init
<1>5. FileInv
  BY <1>1, <1>2, <1>3, <1>4, SnapshotRefers
<1> QED
  BY <1>1, <1>2, <1>3, <1>5 DEF IInv

(***************************************************************************)
(* Types.                                                                  *)
(***************************************************************************)

(* Taking back what names something leaves a list of assignments.          *)
LEMMA WithoutType ==
    ASSUME TypeOK, NEW x
    PROVE  GrantsWithout(x) \in [Grants -> 0..1]
  BY DEF TypeOK, MemoryTypeOK, GrantsWithout

(* So does assigning, and nothing is in the list twice.                    *)
LEMMA AssignedType ==
    ASSUME TypeOK, NEW S
    PROVE  Assigned(S) \in [Grants -> 0..1]
  BY DEF TypeOK, MemoryTypeOK, Assigned

(* Every request, expiry and restart leaves what is declared in memory.    *)
LEMMA MemoryTypeKept ==
    ASSUME TypeOK, Next
    PROVE  MemoryTypeOK'
<1>1. CASE TokenRequests
  <2> PICK t \in Tokens :
        \/ \E n \in Names, p \in Projects : AuthenticateByPassword(t, n, p)
        \/ \E old \in Tokens, p \in Projects : AuthenticateByToken(t, old, p)
        \/ \E c \in Credentials : AuthenticateByCredential(t, c)
        \/ RevokeToken(t)
    BY <1>1 DEF TokenRequests
  <2>1. ASSUME NEW n \in Names, NEW p \in Projects, AuthenticateByPassword(t, n, p)
        PROVE  MemoryTypeOK'
    <3>1. PICK u \in Resolved(NoToken, n) :
            token' = [token EXCEPT ![t] = NewToken(u, NameOf(u, n), {}, u)]
      BY <2>1 DEF AuthenticateByPassword
    <3>2. NewToken(u, NameOf(u, n), {}, u) \in TokenRecord
      BY ResolvedIsKnown, TokenFacts
    <3> QED
      BY <2>1, <3>1, <3>2 DEF AuthenticateByPassword, stores, TypeOK, MemoryTypeOK
  <2>2. ASSUME NEW old \in Tokens, NEW p \in Projects, AuthenticateByToken(t, old, p)
        PROVE  MemoryTypeOK'
    <3>1. token[old] \in TokenRecord
      BY <2>2 DEF TypeOK, MemoryTypeOK, AuthenticateByToken
    <3>2. PICK u \in Resolved(token[old].user, token[old].name) :
            token' = [token EXCEPT ![t] = NewToken(u, NameOf(u, token[old].name),
                          token[old].groups, token[old].origin)]
      BY <2>2 DEF AuthenticateByToken
    <3>3. u \in Users \cup Names /\ NameOf(u, token[old].name) \in Names
      BY <3>1, TokenParts, ResolvedIsKnown
    <3>4. NewToken(u, NameOf(u, token[old].name), token[old].groups, token[old].origin)
              \in TokenRecord
      BY <3>1, <3>3, TokenParts, TokenFacts
    <3> QED
      BY <2>2, <3>2, <3>4 DEF AuthenticateByToken, stores, TypeOK, MemoryTypeOK
  <2>3. ASSUME NEW c \in Credentials, AuthenticateByCredential(t, c)
        PROVE  MemoryTypeOK'
    <3>1. credential[c].owner \in Users
      BY <2>3 DEF TypeOK, MemoryTypeOK, AuthenticateByCredential, CredentialRecord
    <3>2. PICK u \in Resolved(credential[c].owner, AdminName) :
            token' = [token EXCEPT ![t] =
                          NewToken(u, NameOf(u, AdminName), {}, credential[c].owner)]
      BY <2>3 DEF AuthenticateByCredential
    <3>3. u \in Users \cup Names /\ NameOf(u, AdminName) \in Names
      BY ResolvedIsKnown, IdentityAssumption DEF IdentityAssumption
    <3>4. NewToken(u, NameOf(u, AdminName), {}, credential[c].owner) \in TokenRecord
      BY <3>1, <3>3, TokenFacts
    <3> QED
      BY <2>3, <3>2, <3>4 DEF AuthenticateByCredential, stores, TypeOK, MemoryTypeOK
  <2>4. CASE RevokeToken(t)
    BY <2>4 DEF RevokeToken, stores, TypeOK, MemoryTypeOK
  <2> QED
    BY <2>1, <2>2, <2>3, <2>4
<1>2. CASE DomainRequests
  BY <1>2 DEF DomainRequests, CreateDomain, Create, DeleteDomain, TypeOK, MemoryTypeOK
<1>3. CASE ProjectRequests
  BY <1>3, WithoutType DEF ProjectRequests, CreateProject, Create, DeleteProject, TypeOK, MemoryTypeOK
<1>4. CASE UserRequests
  BY <1>4, WithoutType DEF UserRequests, CreateUser, UpdateUser, DeleteUser, TypeOK, MemoryTypeOK
<1>5. CASE RoleRequests
  BY <1>5, WithoutType DEF RoleRequests, CreateRole, Create, DeleteRole, TypeOK, MemoryTypeOK
<1>6. CASE UserAssignmentRequests
  BY <1>6, AssignedType, GrantOf
     DEF UserAssignmentRequests, AssignRole, RevokeRole, TypeOK, MemoryTypeOK
<1>7. CASE GroupAssignmentRequests
  BY <1>7, AssignedType, GrantOf
     DEF GroupAssignmentRequests, AssignRole, RevokeRole, TypeOK, MemoryTypeOK
<1>8. CASE GroupRequests
  <2>1. ASSUME NEW g \in Groups, CreateGroup(g) PROVE MemoryTypeOK'
    BY <2>1 DEF CreateGroup, TypeOK, MemoryTypeOK
  <2>2. ASSUME NEW g \in Groups, DeleteGroup(g) PROVE MemoryTypeOK'
    BY <2>2, WithoutType DEF DeleteGroup, TypeOK, MemoryTypeOK
  <2>3. ASSUME NEW g \in Groups, NEW u \in Users, AddUserToGroup(u, g) PROVE MemoryTypeOK'
    BY <2>3 DEF AddUserToGroup, TypeOK, MemoryTypeOK
  <2>4. ASSUME NEW g \in Groups, NEW u \in Users, RemoveUserFromGroup(u, g) PROVE MemoryTypeOK'
    BY <2>4 DEF RemoveUserFromGroup, TypeOK, MemoryTypeOK
  <2> QED
    BY <1>8, <2>1, <2>2, <2>3, <2>4 DEF GroupRequests
<1>9. CASE CredentialRequests
  <2>1. ASSUME NEW c \in Credentials, NEW u \in Users, CreateApplicationCredential(c, u)
        PROVE  MemoryTypeOK'
    BY <2>1, CredentialFacts DEF CreateApplicationCredential, stores, TypeOK, MemoryTypeOK
  <2>2. ASSUME NEW c \in Credentials, DeleteApplicationCredential(c) PROVE MemoryTypeOK'
    BY <2>2 DEF DeleteApplicationCredential, stores, TypeOK, MemoryTypeOK
  <2> QED
    BY <1>9, <2>1, <2>2 DEF CredentialRequests
<1>10. CASE FederatedRequests
  <2> PICK t \in Tokens, n \in Names, ephemeral \in BOOLEAN, u \in Users,
           gs \in SUBSET Groups, wanted \in SUBSET (Roles \X Projects) :
        FederatedLogin(t, n, ephemeral, u, gs, wanted)
    BY <1>10, IdentityAssumption DEF FederatedRequests, IdentityAssumption
  <2>1. user' \in [Users -> Names \cup {Unborn, Gone}] /\ members' = members
    BY DEF FederatedLogin, TypeOK, MemoryTypeOK
  <2>2. life' \in [Things -> {Unborn, Live, Gone}]
    BY DEF FederatedLogin, TypeOK, MemoryTypeOK
  <2>3. grants' \in [Grants -> 0..1]
    BY AssignedType DEF FederatedLogin
  <2>4. NewToken(u, n, {g \in gs : IsThere(g)}, u) \in TokenRecord
    BY TokenFacts
  <2> QED
    BY <2>1, <2>2, <2>3, <2>4 DEF FederatedLogin, TypeOK, MemoryTypeOK
<1>11. CASE Expiry
  BY <1>11 DEF Expiry, TokenExpires, CredentialExpires, stores, TypeOK, MemoryTypeOK
<1>12. CASE Restart
  <2>1. /\ file.user \in [Users -> Names \cup {Unborn, Gone}]
        /\ file.life \in [Things -> {Unborn, Live, Gone}]
        /\ file.members \in [Groups -> SUBSET Users]
        /\ file.grants \in [Grants -> 0..1]
        /\ file.credential \in [Credentials -> CredentialRecord \cup {NoCredential}]
    BY DEF TypeOK, FileRecord
  <2> QED
    BY <1>12, <2>1 DEF Restart, MemoryTypeOK
<1>13. CASE SaveElsewhere
  BY <1>13 DEF SaveElsewhere, TypeOK, MemoryTypeOK
<1> QED
  BY <1>1, <1>2, <1>3, <1>4, <1>5, <1>6, <1>7, <1>8, <1>9, <1>10, <1>11, <1>12, <1>13
     DEF Next

(***************************************************************************)
(* The file.                                                               *)
(***************************************************************************)

(* What a login may leave in the file when it created something: what the  *)
(* database holds by then, with some of the grants it has just assigned.   *)
Written(W) ==
    [user |-> user', life |-> life', members |-> members,
     grants |-> [g \in Grants |-> IF g \in W THEN grants'[g] ELSE grants[g]],
     credential |-> credential]

(* A login that creates nothing writes nothing.                            *)
LEMMA LoginWrites ==
    ASSUME TypeOK, NEW t \in Tokens, NEW n \in Names, NEW ephemeral \in BOOLEAN,
           NEW u \in Users, NEW gs \in SUBSET Groups, NEW wanted \in SUBSET (Roles \X Projects),
           FederatedLogin(t, n, ephemeral, u, gs, wanted)
    PROVE  \/ UNCHANGED <<file, user, life>>
           \/ \E W \in SUBSET {g \in Grants : grants'[g] > grants[g]} : file' = Written(W)
<1> DEFINE created == {w[2] : w \in {v \in wanted : ~IsThere(v[2])}}
<1>1. CASE created = {} /\ IsUser(u)
  <2>1. user[u] = n
    BY <1>1, IdentityAssumption DEF FederatedLogin, MappedUser, IsUser, IdentityAssumption
  <2>2. user' = user
    BY <2>1 DEF FederatedLogin, TypeOK, MemoryTypeOK
  <2>3. \A w \in wanted : IsThere(w[2])
    BY <1>1
  <2>4. life' = [x \in Things |-> IF \E w \in wanted : w[2] = x THEN Live ELSE life[x]]
    BY DEF FederatedLogin
  <2>5. life' = life
    BY <2>3, <2>4 DEF IsThere, TypeOK, MemoryTypeOK
  <2>6. UNCHANGED file
    BY <1>1 DEF FederatedLogin, LoginSaved
  <2> QED
    BY <2>2, <2>5, <2>6
<1>2. CASE ~(created = {} /\ IsUser(u))
  <2>1. PICK W \in SUBSET {g \in Grants : grants'[g] > grants[g]} :
            file' = [Snapshot EXCEPT !.user = user', !.life = life',
                        !.grants = [g \in Grants |-> IF g \in W THEN grants'[g] ELSE grants[g]]]
    BY <1>2 DEF FederatedLogin, LoginSaved
  <2>2. file' = Written(W)
    BY <2>1 DEF Snapshot, Written
  <2> QED
    BY <2>2
<1> QED
  BY <1>1, <1>2

(* Every step leaves file and users alone, saves, is a login, or strikes   *)
(* out an application credential that has expired.              *)
LEMMA FileSteps ==
    ASSUME TypeOK, Next
    PROVE  \/ UNCHANGED <<file, user>>
           \/ UNCHANGED file /\ Restart
           \/ Saved
           \/ FederatedRequests
           \/ \E c \in Credentials : CredentialExpires(c)
<1>1. CASE TokenRequests \/ CredentialRequests
  BY <1>1 DEF TokenRequests, AuthenticateByPassword, AuthenticateByToken,
     AuthenticateByCredential, RevokeToken, CredentialRequests, CreateApplicationCredential,
     DeleteApplicationCredential, stores
<1>2. CASE DomainRequests \/ ProjectRequests \/ RoleRequests \/ UserRequests \/ SaveElsewhere
  BY <1>2 DEF DomainRequests, CreateDomain, DeleteDomain, ProjectRequests, CreateProject,
     DeleteProject, RoleRequests, CreateRole, DeleteRole, UserRequests, CreateUser, UpdateUser,
     DeleteUser, Create, SaveElsewhere
<1>3. CASE UserAssignmentRequests \/ GroupAssignmentRequests \/ GroupRequests
  BY <1>3 DEF UserAssignmentRequests, GroupAssignmentRequests, AssignRole, RevokeRole,
     GroupRequests, CreateGroup, DeleteGroup, AddUserToGroup, RemoveUserFromGroup
<1>4. CASE Expiry
  BY <1>4 DEF Expiry, TokenExpires, stores
<1>5. CASE Restart
  BY <1>5 DEF Restart
<1> QED
  BY <1>1, <1>2, <1>3, <1>4, <1>5 DEF Next

(* What is written is what is declared, too.                               *)
LEMMA TypeKept ==
    ASSUME TypeOK, Next
    PROVE  TypeOK'
<1>1. MemoryTypeOK'
  BY MemoryTypeKept
<1>2. CASE UNCHANGED file
  BY <1>1, <1>2 DEF TypeOK
<1>3. CASE Saved
  BY <1>1, <1>3 DEF TypeOK, MemoryTypeOK, Saved, Snapshot, FileRecord
<1>4. CASE FederatedRequests
  <2> PICK t \in Tokens, n \in Names, ephemeral \in BOOLEAN, u \in Users,
           gs \in SUBSET Groups, wanted \in SUBSET (Roles \X Projects) :
        FederatedLogin(t, n, ephemeral, u, gs, wanted)
    BY <1>4, IdentityAssumption DEF FederatedRequests, IdentityAssumption
  <2>1. ASSUME NEW W \in SUBSET Grants, file' = Written(W)
        PROVE  TypeOK'
    <3>1. [g \in Grants |-> IF g \in W THEN grants'[g] ELSE grants[g]] \in [Grants -> 0..1]
      BY <1>1 DEF TypeOK, MemoryTypeOK
    <3> QED
      BY <1>1, <2>1, <3>1 DEF TypeOK, MemoryTypeOK, Written, FileRecord
  <2> QED
    BY <1>2, <2>1, LoginWrites
<1>5. ASSUME NEW c \in Credentials, CredentialExpires(c)
      PROVE  TypeOK'
  BY <1>1, <1>5 DEF CredentialExpires, TypeOK, FileRecord
<1> QED
  BY <1>2, <1>3, <1>4, <1>5, FileSteps

(***************************************************************************)
(* The grants and the members refer to what exists.                        *)
(***************************************************************************)

(* That a grant's role, actor and target are there.                        *)
Refers(g) ==
    /\ IsThere(g[1]) /\ ActorExists(g[2])
    /\ g[3] \in Projects => IsThere(g[3])

(* Nothing that exists goes.                                               *)
Grows ==
    /\ \A x \in Things : IsThere(x) => IsThere(x)'
    /\ \A u \in Users : IsUser(u) => IsUser(u)'

(* When nothing goes, only new grants and new members are in question.     *)
LEMMA ReferGrown ==
    ASSUME TypeOK, GrantsRefer, Grows,
           \A g \in Grants : grants'[g] > 0 => grants[g] > 0 \/ Refers(g)',
           \A g \in Groups : members'[g] \subseteq members[g] \cup LiveUsers',
           \A g \in Groups : members'[g] # {} => members[g] # {} \/ IsThere(g)'
    PROVE  GrantsRefer'
<1>1. ASSUME NEW g \in Grants, grants[g] > 0
      PROVE  Refers(g)'
  <2>1. IsThere(g[1]) /\ ActorExists(g[2]) /\ (g[3] \in Projects => IsThere(g[3]))
    BY <1>1 DEF GrantsRefer
  <2>2. g[1] \in Things /\ (g[2] \in Users \/ g[2] \in Things) /\ (g[3] \in Projects => g[3] \in Things)
    BY GrantParts DEF Things
  <2> QED
    BY <2>1, <2>2 DEF Grows, Refers, ActorExists
<1>2. LiveUsers \subseteq LiveUsers'
  BY DEF Grows, LiveUsers
<1>3. \A g \in Groups : members[g] \subseteq LiveUsers'
  BY <1>2 DEF GrantsRefer
<1>4. \A g \in Groups : members[g] # {} => IsThere(g)'
  BY DEF GrantsRefer, Grows, Things
<1> QED
  BY <1>1, <1>3, <1>4 DEF GrantsRefer, Refers

(* A grant that is left when all that name x go does not name it, and was  *)
(* there before.                                                           *)
LEMMA LeftWithout ==
    ASSUME TypeOK, NEW x, NEW g \in Grants, GrantsWithout(x)[g] > 0
    PROVE  grants[g] > 0 /\ x \notin {g[1], g[2], g[3]}
  BY DEF GrantsWithout, TypeOK, MemoryTypeOK

(* A grant in the list was there before or was asked for.                  *)
LEMMA AssignedFrom ==
    ASSUME TypeOK, NEW S, NEW g \in Grants, Assigned(S)[g] > 0
    PROVE  grants[g] > 0 \/ g \in S
  BY DEF Assigned, TypeOK, MemoryTypeOK

(* What goes takes what names it along; the rest goes on referring to what *)
(* exists.                                                                 *)
LEMMA ReferWithout ==
    ASSUME TypeOK, GrantsRefer, NEW z,
           \A x \in Things : IsThere(x) /\ x # z => IsThere(x)',
           \A u \in Users : IsUser(u) /\ u # z => IsUser(u)',
           grants' = GrantsWithout(z),
           \A g \in Groups : members'[g] \subseteq members[g] \ {z},
           z \in Groups => members'[z] = {}
    PROVE  GrantsRefer'
<1>1. ASSUME NEW g \in Grants, grants'[g] > 0
      PROVE  Refers(g)'
  <2>1. grants[g] > 0 /\ z \notin {g[1], g[2], g[3]}
    BY <1>1, LeftWithout
  <2>2. IsThere(g[1]) /\ ActorExists(g[2]) /\ (g[3] \in Projects => IsThere(g[3]))
    BY <2>1 DEF GrantsRefer
  <2>3. /\ g[1] \in Things /\ (g[2] \in Users \/ g[2] \in Things)
        /\ g[3] \in Projects => g[3] \in Things
    BY GrantParts DEF Things
  <2> QED
    BY <2>1, <2>2, <2>3 DEF Refers, ActorExists
<1>2. \A g \in Groups : members'[g] \subseteq LiveUsers'
  BY DEF GrantsRefer, LiveUsers
<1>3. \A g \in Groups : members'[g] # {} => IsThere(g)'
  <2> SUFFICES ASSUME NEW g \in Groups, members'[g] # {} PROVE IsThere(g)'
    OBVIOUS
  <2>1. members[g] # {} /\ g # z
    OBVIOUS
  <2> QED
    BY <2>1 DEF GrantsRefer, Things
<1> QED
  BY <1>1, <1>2, <1>3 DEF GrantsRefer, Refers

(* Nothing but tokens and credentials changes: what is granted refers to   *)
(* what exists.                                                            *)
LEMMA ReferMemoryStays ==
    ASSUME GrantsRefer, UNCHANGED <<user, life, members, grants>>
    PROVE  GrantsRefer'
  BY DEF GrantsRefer, IsThere, ActorExists, LiveUsers, IsUser

LEMMA ReferStays ==
    ASSUME GrantsRefer, UNCHANGED stores
    PROVE  GrantsRefer'
  BY ReferMemoryStays DEF stores

(* What a restart reads refers to what it reads.                           *)
LEMMA ReferRestored ==
    ASSUME TypeOK, FileRefers, Restart
    PROVE  GrantsRefer'
<1>1. \A x \in Users : InFile(x) <=> IsUser(x)'
  BY DEF Restart, InFile, IsUser
<1>2. \A x \in Things : InFile(x) <=> IsThere(x)'
  BY KindsApart, IdentityAssumption DEF Restart, InFile, IsThere, IdentityAssumption
<1>3. \A g \in Grants : /\ g[1] \in Things /\ g[2] \in Users \cup Things
                        /\ g[3] \in Projects => g[3] \in Things
  BY GrantParts DEF Things
<1>4. Groups \subseteq Things
  BY DEF Things
<1>5. grants' = file.grants /\ members' = file.members
  BY DEF Restart
<1>6. ASSUME NEW g \in Grants, grants'[g] > 0
      PROVE  /\ IsThere(g[1])' /\ ActorExists(g[2])'
             /\ g[3] \in Projects => IsThere(g[3])'
  <2>1. InFile(g[1]) /\ InFile(g[2]) /\ (g[3] \in Projects => InFile(g[3]))
    BY <1>5, <1>6 DEF FileRefers
  <2>2. ActorExists(g[2])' <=> InFile(g[2])
    BY <1>1, <1>2, <1>3 DEF ActorExists
  <2> QED
    BY <2>1, <2>2, <1>2, <1>3
<1>7. \A g \in Groups : members'[g] \subseteq LiveUsers'
  BY <1>1, <1>2, <1>3, <1>4, <1>5 DEF FileRefers, LiveUsers
<1>8. \A g \in Groups : members'[g] # {} => IsThere(g)'
  BY <1>1, <1>2, <1>3, <1>4, <1>5 DEF FileRefers, LiveUsers
<1> QED
  BY <1>6, <1>7, <1>8 DEF GrantsRefer

(* An assignment adds a grant of what exists.                              *)
LEMMA ReferAssigned ==
    ASSUME TypeOK, GrantsRefer, NEW r \in Roles, NEW a \in Users \cup Groups,
           NEW x \in Projects \cup Domains, AssignRole(r, a, x) \/ RevokeRole(r, a, x)
    PROVE  GrantsRefer'
<1>1. CASE AssignRole(r, a, x)
  <2>1. Grows
    BY <1>1 DEF AssignRole, Grows, IsThere, IsUser
  <2>2. ASSUME NEW g \in Grants, grants'[g] > 0 PROVE grants[g] > 0 \/ Refers(g)'
    <3>1. CASE grants[g] > 0
      BY <3>1
    <3>2. CASE g = <<r, a, x>>
      <4>1. g[1] = r /\ g[2] = a /\ g[3] = x
        BY <3>2
      <4> QED
        BY <1>1, <4>1 DEF AssignRole, Refers, IsThere, ActorExists, IsUser
    <3> QED
      BY <1>1, <2>2, <3>1, <3>2, AssignedFrom DEF AssignRole
  <2> QED
    BY <1>1, <2>1, <2>2, ReferGrown DEF AssignRole
<1>2. CASE RevokeRole(r, a, x)
  <2>1. Grows
    BY <1>2 DEF RevokeRole, Grows, IsThere, IsUser
  <2>2. ASSUME NEW g \in Grants, grants'[g] > 0 PROVE grants[g] > 0
    BY <1>2, <2>2 DEF RevokeRole, TypeOK, MemoryTypeOK
  <2> QED
    BY <1>2, <2>1, <2>2, ReferGrown DEF RevokeRole
<1> QED
  BY <1>1, <1>2

(* Every request, expiry and restart leaves grants and members of what     *)
(* exists.                                                                 *)
LEMMA ReferKept ==
    ASSUME TypeOK, GrantsRefer, FileRefers, Next
    PROVE  GrantsRefer'
<1>1. CASE TokenRequests
  BY <1>1, ReferStays DEF TokenRequests, AuthenticateByPassword, AuthenticateByToken,
     AuthenticateByCredential, RevokeToken
<1>2. CASE DomainRequests
  <2>1. ASSUME NEW d \in Domains, CreateDomain(d) PROVE GrantsRefer'
    <3>1. Grows
      BY <2>1, IdentityAssumption
         DEF CreateDomain, Create, Grows, IsThere, IsUser, TypeOK, MemoryTypeOK, IdentityAssumption
    <3> QED
      BY <2>1, <3>1, ReferGrown DEF CreateDomain, Create
  <2>2. ASSUME NEW d \in Domains, DeleteDomain(d) PROVE GrantsRefer'
    <3>1. \A x \in Things : x # d => (IsThere(x)' <=> IsThere(x))
      BY <2>2 DEF DeleteDomain, IsThere, TypeOK, MemoryTypeOK
    <3>2. \A u \in Users : IsUser(u)' <=> IsUser(u)
      BY <2>2 DEF DeleteDomain, IsUser
    <3>3. LiveUsers' = LiveUsers /\ grants' = grants /\ members' = members
      BY <2>2, <3>2 DEF LiveUsers, DeleteDomain
    <3>4. ASSUME NEW g \in Grants, grants[g] > 0 PROVE Refers(g)'
      <4>1. IsThere(g[1]) /\ ActorExists(g[2]) /\ (g[3] \in Projects => IsThere(g[3]))
        BY <3>4 DEF GrantsRefer
      <4>2. /\ g[1] \in Things \ {d} /\ (g[2] \in Users \/ g[2] \in Things \ {d})
            /\ g[3] \in Projects => g[3] \in Things \ {d}
        BY GrantParts, KindsApart DEF Things
      <4> QED
        BY <3>1, <3>2, <4>1, <4>2 DEF Refers, ActorExists
    <3>5. \A g \in Groups : g \in Things \ {d}
      BY KindsApart DEF Things
    <3> QED
      BY <3>1, <3>3, <3>4, <3>5 DEF GrantsRefer, Refers
  <2> QED
    BY <1>2, <2>1, <2>2 DEF DomainRequests
<1>3. CASE ProjectRequests
  <2>1. ASSUME NEW p \in Projects, CreateProject(p) PROVE GrantsRefer'
    <3>1. Grows
      BY <2>1, IdentityAssumption
         DEF CreateProject, Create, Grows, IsThere, IsUser, TypeOK, MemoryTypeOK, IdentityAssumption
    <3> QED
      BY <2>1, <3>1, ReferGrown DEF CreateProject, Create
  <2>2. ASSUME NEW p \in Projects, DeleteProject(p) PROVE GrantsRefer'
    <3>1. /\ \A x \in Things : IsThere(x) /\ x # p => IsThere(x)'
          /\ \A u \in Users : IsUser(u) /\ u # p => IsUser(u)'
      BY <2>2 DEF DeleteProject, IsThere, IsUser, TypeOK, MemoryTypeOK
    <3>2. /\ grants' = GrantsWithout(p) /\ p \notin Groups
          /\ \A g \in Groups : members'[g] \subseteq members[g] \ {p}
      BY <2>2, KindsApart DEF DeleteProject, TypeOK, MemoryTypeOK
    <3> QED
      BY <3>1, <3>2, ReferWithout
  <2> QED
    BY <1>3, <2>1, <2>2 DEF ProjectRequests
<1>4. CASE UserRequests
  <2>1. ASSUME NEW u \in Users, NEW n \in Names, CreateUser(u, n) \/ UpdateUser(u, n)
        PROVE  GrantsRefer'
    <3>1. Grows
      BY <2>1 DEF CreateUser, UpdateUser, Grows, IsThere, IsUser, TypeOK, MemoryTypeOK
    <3>2. grants' = grants /\ members' = members
      BY <2>1 DEF CreateUser, UpdateUser
    <3> QED
      BY <3>1, <3>2, ReferGrown
  <2>2. ASSUME NEW u \in Users, DeleteUser(u) PROVE GrantsRefer'
    <3>1. /\ \A x \in Things : IsThere(x) /\ x # u => IsThere(x)'
          /\ \A v \in Users : IsUser(v) /\ v # u => IsUser(v)'
      BY <2>2 DEF DeleteUser, IsThere, IsUser, TypeOK, MemoryTypeOK
    <3>2. /\ grants' = GrantsWithout(u) /\ u \notin Groups
          /\ \A g \in Groups : members'[g] \subseteq members[g] \ {u}
      BY <2>2, KindsApart DEF DeleteUser
    <3> QED
      BY <3>1, <3>2, ReferWithout
  <2> QED
    BY <1>4, <2>1, <2>2 DEF UserRequests
<1>5. CASE RoleRequests
  <2>1. ASSUME NEW r \in Roles, CreateRole(r) PROVE GrantsRefer'
    <3>1. Grows
      BY <2>1, IdentityAssumption
         DEF CreateRole, Create, Grows, IsThere, IsUser, TypeOK, MemoryTypeOK, IdentityAssumption
    <3> QED
      BY <2>1, <3>1, ReferGrown DEF CreateRole, Create
  <2>2. ASSUME NEW r \in Roles, DeleteRole(r) PROVE GrantsRefer'
    <3>1. /\ \A x \in Things : IsThere(x) /\ x # r => IsThere(x)'
          /\ \A u \in Users : IsUser(u) /\ u # r => IsUser(u)'
      BY <2>2 DEF DeleteRole, IsThere, IsUser, TypeOK, MemoryTypeOK
    <3>2. /\ grants' = GrantsWithout(r) /\ r \notin Groups
          /\ \A g \in Groups : members'[g] \subseteq members[g] \ {r}
      BY <2>2, KindsApart DEF DeleteRole, TypeOK, MemoryTypeOK
    <3> QED
      BY <3>1, <3>2, ReferWithout
  <2> QED
    BY <1>5, <2>1, <2>2 DEF RoleRequests
<1>6. CASE UserAssignmentRequests
  BY <1>6, ReferAssigned DEF UserAssignmentRequests
<1>7. CASE GroupAssignmentRequests
  BY <1>7, ReferAssigned DEF GroupAssignmentRequests
<1>8. CASE GroupRequests
  <2>1. ASSUME NEW h \in Groups, CreateGroup(h) PROVE GrantsRefer'
    <3>1. Grows
      BY <2>1 DEF CreateGroup, Grows, IsThere, IsUser, TypeOK, MemoryTypeOK
    <3>2. grants' = grants /\ \A g \in Groups : members'[g] \subseteq members[g]
      BY <2>1 DEF CreateGroup, TypeOK, MemoryTypeOK
    <3> QED
      BY <3>1, <3>2, ReferGrown
  <2>2. ASSUME NEW h \in Groups, DeleteGroup(h) PROVE GrantsRefer'
    <3>1. /\ \A x \in Things : IsThere(x) /\ x # h => IsThere(x)'
          /\ \A u \in Users : IsUser(u) /\ u # h => IsUser(u)'
      BY <2>2 DEF DeleteGroup, IsThere, IsUser, TypeOK, MemoryTypeOK
    <3>2. /\ grants' = GrantsWithout(h) /\ members'[h] = {}
          /\ \A g \in Groups : members'[g] \subseteq members[g] \ {h}
      BY <2>2, KindsApart DEF DeleteGroup, TypeOK, MemoryTypeOK
    <3> QED
      BY <3>1, <3>2, ReferWithout
  <2>3. ASSUME NEW h \in Groups, NEW u \in Users,
               AddUserToGroup(u, h) \/ RemoveUserFromGroup(u, h)
        PROVE  GrantsRefer'
    <3>1. Grows
      BY <2>3 DEF AddUserToGroup, RemoveUserFromGroup, Grows, IsThere, IsUser
    <3>2. /\ grants' = grants /\ IsThere(h)'
          /\ \A g \in Groups : members'[g] \subseteq members[g] \cup LiveUsers'
          /\ \A g \in Groups \ {h} : members'[g] = members[g]
      BY <2>3
         DEF AddUserToGroup, RemoveUserFromGroup, IsThere, IsUser, LiveUsers, TypeOK, MemoryTypeOK
    <3> QED
      BY <3>1, <3>2, ReferGrown
  <2> QED
    BY <1>8, <2>1, <2>2, <2>3 DEF GroupRequests
<1>9. CASE CredentialRequests
  BY <1>9, ReferStays
     DEF CredentialRequests, CreateApplicationCredential, DeleteApplicationCredential
<1>10. CASE FederatedRequests
  <2> PICK t \in Tokens, n \in Names, ephemeral \in BOOLEAN, u \in Users,
           gs \in SUBSET Groups, wanted \in SUBSET (Roles \X Projects) :
        FederatedLogin(t, n, ephemeral, u, gs, wanted)
    BY <1>10, IdentityAssumption DEF FederatedRequests, IdentityAssumption
  <2> DEFINE asked == {<<w[1], u, w[2]>> : w \in {v \in wanted : IsThere(v[1])}}
  <2>1. /\ members' = members /\ grants' = Assigned(asked) /\ user' = [user EXCEPT ![u] = n]
        /\ life' = [x \in Things |-> IF \E w \in wanted : w[2] = x THEN Live ELSE life[x]]
    BY DEF FederatedLogin
  <2>2. Grows
    BY <2>1 DEF Grows, IsThere, IsUser, TypeOK, MemoryTypeOK
  <2>3. ASSUME NEW g \in Grants, grants'[g] > 0 PROVE grants[g] > 0 \/ Refers(g)'
    <3>1. CASE g \in asked
      <4>1. PICK w \in wanted : IsThere(w[1]) /\ g = <<w[1], u, w[2]>>
        BY <3>1
      <4>2. g[1] = w[1] /\ g[2] = u /\ g[3] = w[2] /\ w[1] \in Things /\ w[2] \in Things
        BY <4>1 DEF Things
      <4>3. IsThere(w[1])' /\ IsThere(w[2])' /\ IsUser(u)'
        BY <2>1, <2>2, <4>1, <4>2 DEF Grows, IsThere, IsUser, TypeOK, MemoryTypeOK
      <4> QED
        BY <4>2, <4>3 DEF Refers, ActorExists
    <3> QED
      BY <2>1, <2>3, <3>1, AssignedFrom
  <2> QED
    BY <2>1, <2>2, <2>3, ReferGrown
<1>11. CASE Expiry
  BY <1>11, ReferMemoryStays DEF Expiry, TokenExpires, CredentialExpires, stores
<1>12. CASE SaveElsewhere
  BY <1>12, ReferMemoryStays DEF SaveElsewhere
<1>13. CASE Restart
  BY <1>13, ReferRestored
<1> QED
  BY <1>1, <1>2, <1>3, <1>4, <1>5, <1>6, <1>7, <1>8, <1>9, <1>10, <1>11, <1>12, <1>13
     DEF Next

(***************************************************************************)
(* Tokens stay with whom they began with.                                  *)
(***************************************************************************)

(* What Begun says of one token.                                           *)
TokenBegun(t) ==
    token[t] # NoToken /\ token[t].origin \in Users =>
        /\ user[token[t].origin] # Unborn
        /\ IsUser(token[t].origin) => token[t].user = token[t].origin

(* What Begun says of one application credential.                          *)
CredentialBegun(c) == credential[c] # NoCredential => user[credential[c].owner] # Unborn

(* Ids are not unborn again, and do not come back.                         *)
Onward ==
    \A u \in Users : user[u] # Unborn => user'[u] # Unborn /\ (IsUser(u)' => IsUser(u))

(* As long as ids only go onward, only new tokens and credentials are in   *)
(* question.                                                               *)
LEMMA BegunOnward ==
    ASSUME TypeOK, Begun, Onward,
           \A t \in Tokens : token'[t] = token[t] \/ token'[t] = NoToken \/ TokenBegun(t)',
           \A c \in Credentials :
               \/ credential'[c] = credential[c]
               \/ credential'[c] = NoCredential
               \/ CredentialBegun(c)'
    PROVE  Begun'
<1>1. ASSUME NEW t \in Tokens PROVE TokenBegun(t)'
  <2>1. CASE token'[t] = token[t]
    BY <2>1 DEF TokenBegun, Begun, Onward
  <2> QED
    BY <2>1 DEF TokenBegun
<1>2. ASSUME NEW c \in Credentials PROVE CredentialBegun(c)'
  <2>1. CASE credential'[c] = credential[c] /\ credential[c] # NoCredential
    <3>1. credential[c].owner \in Users
      BY <2>1 DEF TypeOK, MemoryTypeOK, CredentialRecord
    <3> QED
      BY <2>1, <3>1 DEF CredentialBegun, Begun, Onward
  <2> QED
    BY <2>1 DEF CredentialBegun
<1> QED
  BY <1>1, <1>2 DEF Begun, TokenBegun, CredentialBegun

(* Users that stay as they are go onward.                                  *)
LEMMA SameUsersOnward ==
    ASSUME user' = user
    PROVE  Onward
  BY DEF Onward, IsUser

(* A token given to whoever it is traced back to, if that user is there,   *)
(* is one that has begun.                                                  *)
LEMMA NewTokenBegun ==
    ASSUME TypeOK, NEW t \in Tokens,
           NEW u \in Users \cup Names, NEW n \in Names, NEW gs \in SUBSET Groups,
           NEW o \in Users \cup Names,
           token' = [token EXCEPT ![t] = NewToken(u, n, gs, o)], user' = user,
           o \in Users => user[o] # Unborn /\ (IsUser(o) => u = o)
    PROVE  \A s \in Tokens : token'[s] = token[s] \/ TokenBegun(s)'
  BY TokenFacts DEF TypeOK, MemoryTypeOK, TokenBegun, IsUser

(* Every request, expiry and restart leaves tokens with whom they began.   *)
LEMMA BegunKept ==
    ASSUME TypeOK, Begun, FileBegun, Next
    PROVE  Begun'
<1>1. CASE TokenRequests
  <2> PICK t \in Tokens :
        \/ \E n \in Names, p \in Projects : AuthenticateByPassword(t, n, p)
        \/ \E old \in Tokens, p \in Projects : AuthenticateByToken(t, old, p)
        \/ \E c \in Credentials : AuthenticateByCredential(t, c)
        \/ RevokeToken(t)
    BY <1>1 DEF TokenRequests
  <2>1. ASSUME NEW n \in Names, NEW p \in Projects, AuthenticateByPassword(t, n, p)
        PROVE  Begun'
    <3>1. PICK u \in Resolved(NoToken, n) :
            token' = [token EXCEPT ![t] = NewToken(u, NameOf(u, n), {}, u)]
      BY <2>1 DEF AuthenticateByPassword
    <3>2. /\ u \in LiveUsers \cup Names /\ u \in Users \cup Names
          /\ NameOf(u, n) \in Names
      BY ResolvedIsKnown
    <3>3. u \in Users => user[u] # Unborn
      BY <3>2, KindsApart, IdentityAssumption DEF LiveUsers, IsUser, IdentityAssumption
    <3>4. user' = user /\ credential' = credential
      BY <2>1 DEF AuthenticateByPassword, stores
    <3> QED
      BY <3>1, <3>2, <3>3, <3>4, NewTokenBegun, SameUsersOnward, BegunOnward
  <2>2. ASSUME NEW old \in Tokens, NEW p \in Projects, AuthenticateByToken(t, old, p)
        PROVE  Begun'
    <3>1. token[old] # NoToken /\ token[old] \in TokenRecord
      BY <2>2 DEF TypeOK, MemoryTypeOK, AuthenticateByToken
    <3>2. PICK u \in Resolved(token[old].user, token[old].name) :
            token' = [token EXCEPT ![t] = NewToken(u, NameOf(u, token[old].name),
                          token[old].groups, token[old].origin)]
      BY <2>2 DEF AuthenticateByToken
    <3>3. /\ token[old].origin \in Users \cup Names /\ token[old].groups \in SUBSET Groups
          /\ token[old].name \in Names
      BY <3>1, TokenParts
    <3>4. /\ u \in Users \cup Names /\ NameOf(u, token[old].name) \in Names
          /\ token[old].user \in LiveUsers => u = token[old].user
      BY <3>3, ResolvedIsKnown
    <3>5. token[old].origin \in Users =>
              /\ user[token[old].origin] # Unborn
              /\ IsUser(token[old].origin) => u = token[old].origin
      BY <3>1, <3>4 DEF Begun, LiveUsers
    <3>6. user' = user /\ credential' = credential
      BY <2>2 DEF AuthenticateByToken, stores
    <3> QED
      BY <3>2, <3>3, <3>4, <3>5, <3>6, NewTokenBegun, SameUsersOnward, BegunOnward
  <2>3. ASSUME NEW c \in Credentials, AuthenticateByCredential(t, c)
        PROVE  Begun'
    <3>1. credential[c] # NoCredential /\ credential[c].owner \in Users
      BY <2>3 DEF TypeOK, MemoryTypeOK, AuthenticateByCredential, CredentialRecord
    <3>2. PICK u \in Resolved(credential[c].owner, AdminName) :
            token' = [token EXCEPT ![t] =
                          NewToken(u, NameOf(u, AdminName), {}, credential[c].owner)]
      BY <2>3 DEF AuthenticateByCredential
    <3>3. AdminName \in Names
      BY IdentityAssumption DEF IdentityAssumption
    <3>4. /\ u \in Users \cup Names /\ NameOf(u, AdminName) \in Names
          /\ credential[c].owner \in LiveUsers => u = credential[c].owner
      BY <3>3, ResolvedIsKnown
    <3>5. /\ user[credential[c].owner] # Unborn
          /\ IsUser(credential[c].owner) => u = credential[c].owner
      BY <3>1, <3>4 DEF Begun, LiveUsers
    <3>6. user' = user /\ credential' = credential
      BY <2>3 DEF AuthenticateByCredential, stores
    <3> QED
      BY <3>1, <3>2, <3>4, <3>5, <3>6, NewTokenBegun, SameUsersOnward, BegunOnward
  <2>4. CASE RevokeToken(t)
    BY <2>4, SameUsersOnward, BegunOnward DEF RevokeToken, stores, TypeOK, MemoryTypeOK
  <2> QED
    BY <2>1, <2>2, <2>3, <2>4
<1>2. CASE DomainRequests \/ ProjectRequests \/ RoleRequests
  <2>1. UNCHANGED <<user, token, credential>>
    BY <1>2 DEF DomainRequests, ProjectRequests, RoleRequests, CreateDomain, CreateProject,
       CreateRole, Create, DeleteDomain, DeleteProject, DeleteRole
  <2> QED
    BY <2>1, SameUsersOnward, BegunOnward
<1>3. CASE UserAssignmentRequests \/ GroupAssignmentRequests \/ GroupRequests
  <2>1. UNCHANGED <<user, token, credential>>
    BY <1>3 DEF UserAssignmentRequests, GroupAssignmentRequests, GroupRequests, AssignRole,
       RevokeRole, CreateGroup, DeleteGroup, AddUserToGroup, RemoveUserFromGroup
  <2> QED
    BY <2>1, SameUsersOnward, BegunOnward
<1>4. CASE UserRequests
  <2>1. Onward
    BY <1>4, IdentityAssumption
       DEF UserRequests, CreateUser, UpdateUser, DeleteUser, Onward, IsUser, TypeOK, MemoryTypeOK,
           IdentityAssumption
  <2>2. UNCHANGED <<token, credential>>
    BY <1>4 DEF UserRequests, CreateUser, UpdateUser, DeleteUser
  <2> QED
    BY <2>1, <2>2, BegunOnward
<1>5. CASE CredentialRequests
  <2>1. ASSUME NEW c \in Credentials, NEW u \in Users, CreateApplicationCredential(c, u)
        PROVE  Begun'
    <3>1. \A d \in Credentials : credential'[d] = credential[d] \/ CredentialBegun(d)'
      BY <2>1, CredentialFacts
         DEF CreateApplicationCredential, CredentialBegun, TypeOK, MemoryTypeOK, stores
    <3>2. user' = user /\ token' = token
      BY <2>1 DEF CreateApplicationCredential, stores
    <3> QED
      BY <3>1, <3>2, SameUsersOnward, BegunOnward
  <2>2. ASSUME NEW c \in Credentials, DeleteApplicationCredential(c) PROVE Begun'
    BY <2>2, SameUsersOnward, BegunOnward DEF DeleteApplicationCredential, stores, TypeOK, MemoryTypeOK
  <2> QED
    BY <1>5, <2>1, <2>2 DEF CredentialRequests
<1>6. CASE FederatedRequests
  <2> PICK t \in Tokens, n \in Names, ephemeral \in BOOLEAN, u \in Users,
           gs \in SUBSET Groups, wanted \in SUBSET (Roles \X Projects) :
        FederatedLogin(t, n, ephemeral, u, gs, wanted)
    BY <1>6, IdentityAssumption DEF FederatedRequests, IdentityAssumption
  <2> DEFINE found == {g \in gs : IsThere(g)}
  <2>1. /\ user[u] = n \/ user[u] = Unborn
        /\ user' = [user EXCEPT ![u] = n] /\ credential' = credential
        /\ token' = [token EXCEPT ![t] = NewToken(u, n, found, u)]
    BY DEF FederatedLogin, MappedUser
  <2>2. Onward
    BY <2>1, IdentityAssumption DEF Onward, IsUser, TypeOK, MemoryTypeOK, IdentityAssumption
  <2>3. user'[u] # Unborn
    BY <2>1, IdentityAssumption DEF TypeOK, MemoryTypeOK, IdentityAssumption
  <2>4. /\ NewToken(u, n, found, u).user = u
        /\ NewToken(u, n, found, u).origin = u
    BY DEF NewToken
  <2>5. \A s \in Tokens : token'[s] = token[s] \/ TokenBegun(s)'
    <3> HIDE DEF found
    <3> QED
      BY <2>1, <2>3, <2>4 DEF TokenBegun, TypeOK, MemoryTypeOK
  <2> QED
    BY <2>1, <2>2, <2>5, BegunOnward
<1>7. CASE Expiry \/ SaveElsewhere
  <2>1. user' = user
    BY <1>7 DEF Expiry, TokenExpires, CredentialExpires, SaveElsewhere, stores
  <2>2. /\ \A t \in Tokens : token'[t] = token[t] \/ token'[t] = NoToken
        /\ \A c \in Credentials : credential'[c] = credential[c] \/ credential'[c] = NoCredential
    BY <1>7
       DEF Expiry, TokenExpires, CredentialExpires, SaveElsewhere, stores, TypeOK, MemoryTypeOK
  <2> QED
    BY <2>1, <2>2, SameUsersOnward, BegunOnward
<1>8. CASE Restart
  <2>1. user' = user /\ credential' = file.credential
    BY <1>8 DEF Restart, FileBegun
  <2>2. \A t \in Tokens : token'[t] = NoToken
    BY <1>8 DEF Restart
  <2>3. \A c \in Credentials : CredentialBegun(c)'
    BY <2>1 DEF CredentialBegun, FileBegun
  <2> QED
    BY <2>1, <2>2, <2>3, SameUsersOnward, BegunOnward
<1> QED
  BY <1>1, <1>2, <1>3, <1>4, <1>5, <1>6, <1>7, <1>8 DEF Next

(***************************************************************************)
(* The file keeps to what it refers to.                                    *)
(***************************************************************************)

(* What a handler saves refers to what exists as memory does.              *)
LEMMA SavedRefers ==
    ASSUME GrantsRefer', Begun', Saved
    PROVE  FileInv'
<1>1. \A x \in Users : InFile(x)' <=> IsUser(x)'
  BY DEF Saved, Snapshot, InFile, IsUser
<1>2. \A x \in Things : InFile(x)' <=> IsThere(x)'
  BY KindsApart DEF Saved, Snapshot, InFile, IsThere
<1>3. \A g \in Grants : /\ g[1] \in Things /\ g[2] \in Users \cup Things
                        /\ g[3] \in Projects => g[3] \in Things
  BY GrantParts DEF Things
<1>4. Groups \subseteq Things
  BY DEF Things
<1>5. file'.grants = grants' /\ file'.members = members'
  BY DEF Saved, Snapshot
<1>6. FileRefers'
  <2>1. ASSUME NEW g \in Grants, file'.grants[g] > 0
        PROVE  /\ InFile(g[1])' /\ InFile(g[2])'
               /\ g[3] \in Projects => InFile(g[3])'
    <3>1. IsThere(g[1])' /\ ActorExists(g[2])' /\ (g[3] \in Projects => IsThere(g[3])')
      BY <2>1, <1>5 DEF GrantsRefer
    <3>2. ActorExists(g[2])' <=> InFile(g[2])'
      BY <1>1, <1>2, <1>3 DEF ActorExists
    <3> QED
      BY <3>1, <3>2, <1>2, <1>3
  <2>2. \A g \in Groups : file'.members[g] \subseteq {u \in Users : InFile(u)'}
    BY <1>1, <1>2, <1>3, <1>4, <1>5 DEF GrantsRefer, LiveUsers
  <2>3. \A g \in Groups : file'.members[g] # {} => InFile(g)'
    BY <1>1, <1>2, <1>3, <1>4, <1>5 DEF GrantsRefer, LiveUsers
  <2> QED
    BY <2>1, <2>2, <2>3 DEF FileRefers
<1>7. FileBegun'
  BY DEF Saved, Snapshot, FileBegun, Begun
<1> QED
  BY <1>6, <1>7 DEF FileInv

(* A part of a login that is written refers to what the login made, as the *)
(* whole does.                                                             *)
LEMMA WrittenRefers ==
    ASSUME TypeOK, GrantsRefer', Begun', UNCHANGED <<members, credential>>,
           NEW W \in SUBSET {g \in Grants : grants'[g] > grants[g]}, file' = Written(W),
           \A g \in Grants : grants[g] > 0 => grants'[g] > 0
    PROVE  FileInv'
<1>1. \A x \in Users : InFile(x)' <=> IsUser(x)'
  BY DEF Written, InFile, IsUser
<1>2. \A x \in Things : InFile(x)' <=> IsThere(x)'
  BY KindsApart DEF Written, InFile, IsThere
<1>3. \A g \in Grants : /\ g[1] \in Things /\ g[2] \in Users \cup Things
                        /\ g[3] \in Projects => g[3] \in Things
  BY GrantParts DEF Things
<1>4. Groups \subseteq Things
  BY DEF Things
<1>5. \A g \in Grants : file'.grants[g] > 0 => grants'[g] > 0
  BY DEF Written
<1>6. file'.members = members'
  BY DEF Written
<1>7. FileRefers'
  <2>1. ASSUME NEW g \in Grants, file'.grants[g] > 0
        PROVE  /\ InFile(g[1])' /\ InFile(g[2])'
               /\ g[3] \in Projects => InFile(g[3])'
    <3>1. IsThere(g[1])' /\ ActorExists(g[2])' /\ (g[3] \in Projects => IsThere(g[3])')
      BY <2>1, <1>5, <1>6 DEF GrantsRefer
    <3>2. ActorExists(g[2])' <=> InFile(g[2])'
      BY <1>1, <1>2, <1>3 DEF ActorExists
    <3> QED
      BY <3>1, <3>2, <1>2, <1>3
  <2>2. \A g \in Groups : file'.members[g] \subseteq {u \in Users : InFile(u)'}
    BY <1>1, <1>2, <1>3, <1>4, <1>5, <1>6 DEF GrantsRefer, LiveUsers
  <2>3. \A g \in Groups : file'.members[g] # {} => InFile(g)'
    BY <1>1, <1>2, <1>3, <1>4, <1>5, <1>6 DEF GrantsRefer, LiveUsers
  <2> QED
    BY <2>1, <2>2, <2>3 DEF FileRefers
<1>8. FileBegun'
  BY DEF Written, FileBegun, Begun
<1> QED
  BY <1>7, <1>8 DEF FileInv

(* What is granted and what a login assigns is granted.                    *)
LEMMA LoginKeepsGrants ==
    ASSUME TypeOK, NEW t \in Tokens, NEW n \in Names, NEW ephemeral \in BOOLEAN,
           NEW u \in Users, NEW gs \in SUBSET Groups, NEW wanted \in SUBSET (Roles \X Projects),
           FederatedLogin(t, n, ephemeral, u, gs, wanted)
    PROVE  \A g \in Grants : grants[g] > 0 => grants'[g] > 0
  BY DEF FederatedLogin, Assigned, TypeOK, MemoryTypeOK

(* Whatever is written, a restart finds what refers to what it finds.      *)
LEMMA FileKept ==
    ASSUME TypeOK, FileInv, GrantsRefer', Begun', Next
    PROVE  FileInv'
<1>1. CASE UNCHANGED <<file, user>>
  BY <1>1 DEF FileInv, FileRefers, FileBegun, InFile
<1>2. CASE UNCHANGED file /\ Restart
  BY <1>2 DEF Restart, FileInv, FileRefers, FileBegun, InFile
<1>3. CASE Saved
  BY <1>3, SavedRefers
<1>4. CASE FederatedRequests
  <2> PICK t \in Tokens, n \in Names, ephemeral \in BOOLEAN, u \in Users,
           gs \in SUBSET Groups, wanted \in SUBSET (Roles \X Projects) :
        FederatedLogin(t, n, ephemeral, u, gs, wanted)
    BY <1>4, IdentityAssumption DEF FederatedRequests, IdentityAssumption
  <2>1. UNCHANGED <<members, credential>>
    BY DEF FederatedLogin
  <2>2. CASE UNCHANGED <<file, user, life>>
    BY <1>1, <2>2
  <2>3. ASSUME NEW W \in SUBSET {g \in Grants : grants'[g] > grants[g]}, file' = Written(W)
        PROVE  FileInv'
    BY <2>1, <2>3, LoginKeepsGrants, WrittenRefers
  <2> QED
    BY <2>2, <2>3, LoginWrites
<1>5. ASSUME NEW c \in Credentials, CredentialExpires(c)
      PROVE  FileInv'
  <2>1. /\ file'.user = file.user /\ file'.life = file.life /\ file'.members = file.members
        /\ file'.grants = file.grants /\ user' = user
    BY <1>5 DEF CredentialExpires, TypeOK, FileRecord
  <2>2. \A d \in Credentials : \/ file'.credential[d] = file.credential[d]
                               \/ file'.credential[d] = NoCredential
    BY <1>5 DEF CredentialExpires, TypeOK, FileRecord
  <2> QED
    BY <2>1, <2>2 DEF FileInv, FileRefers, FileBegun, InFile
<1> QED
  BY <1>1, <1>2, <1>3, <1>4, <1>5, FileSteps

(***************************************************************************)
(* The theorems.                                                           *)
(***************************************************************************)

(* A step that changes nothing keeps the invariant.                        *)
LEMMA IInvStutters ==
    ASSUME IInv, UNCHANGED vars
    PROVE  IInv'
  BY DEF IInv, TypeOK, MemoryTypeOK, GrantsRefer, Begun, vars, IsThere, ActorExists, LiveUsers,
     IsUser, FileInv, FileRefers, FileBegun, InFile

(* The invariant holds in every reachable state.                           *)
THEOREM Invariance == Spec => []IInv
<1>1. IInv /\ [Next]_vars => IInv'
  <2> SUFFICES ASSUME IInv, [Next]_vars PROVE IInv'
    OBVIOUS
  <2>1. CASE Next
    <3>1. TypeOK /\ GrantsRefer /\ Begun /\ FileInv /\ FileRefers /\ FileBegun
      BY DEF IInv, FileInv
    <3>2. TypeOK'
      BY <2>1, <3>1, TypeKept
    <3>3. GrantsRefer' /\ Begun'
      BY <2>1, <3>1, ReferKept, BegunKept
    <3>4. FileInv'
      BY <2>1, <3>1, <3>3, FileKept
    <3> QED
      BY <3>2, <3>3, <3>4 DEF IInv
  <2>2. CASE UNCHANGED vars
    BY <2>2, IInvStutters
  <2> QED
    BY <2>1, <2>2
<1> QED
  BY <1>1, Initially, PTL DEF Spec

(* The stores hold what they are declared to hold, and no assignment is in *)
(* the list twice.                                                         *)
THEOREM TypeCorrect == Spec => []TypeOK
<1>1. IInv => TypeOK
  BY DEF IInv
<1> QED
  BY <1>1, Invariance, PTL

(* Assignments and memberships name what exists, through every deletion,   *)
(* assignment and federated login.                                         *)
THEOREM GrantsAlwaysRefer == Spec => []GrantsRefer
<1>1. IInv => GrantsRefer
  BY DEF IInv
<1> QED
  BY <1>1, Invariance, PTL

(* A session stays with the user it began with, however often its token is *)
(* traded.                                                                 *)
THEOREM SessionsStay == Spec => []IdentityCarried
<1>1. IInv => IdentityCarried
  BY DEF IInv, Begun, IdentityCarried, LiveUsers
<1> QED
  BY <1>1, Invariance, PTL

(***************************************************************************)
(* The list of assignments implements a set of grants (AccessGrants).      *)
(***************************************************************************)

(* What is known, and what is in force, as sets one may reason about.      *)
LEMMA KnownIff ==
    /\ \A x : x \in KnownThings <=> (x \in Users /\ IsUser(x)) \/ (x \in Things /\ IsThere(x))
    /\ \A g : g \in GrantsInForce <=> g \in Grants /\ grants[g] > 0
  BY DEF KnownThings, LiveUsers, GrantsInForce

(* What the file records, as AccessGrants has it.                          *)
Recorded == [known |-> KnownToFile, granted |-> GrantsInFile]

(* A file that was just saved records what there is.                       *)
LEMMA SavedRecords ==
    ASSUME Saved
    PROVE  Recorded' = [known |-> KnownThings', granted |-> GrantsInForce']
<1>1. KnownToFile' = KnownThings'
  BY DEF Saved, Snapshot, KnownToFile, KnownThings, LiveUsers, IsUser, IsThere
<1>2. GrantsInFile' = GrantsInForce'
  BY DEF Saved, Snapshot, GrantsInFile, GrantsInForce
<1> QED
  BY <1>1, <1>2 DEF Recorded

(* A file that stays as it is records what it did.                         *)
LEMMA FileRecords ==
    ASSUME UNCHANGED file
    PROVE  Recorded' = Recorded
  BY DEF Recorded, KnownToFile, GrantsInFile

(* A new database is an initial state of the set of grants.                *)
LEMMA RefinesInitially ==
    ASSUME Init
    PROVE  Access!Init
<1>1. KnownThings \subseteq Things \cup Users
  BY KnownIff
<1>2. GrantsInForce \subseteq {<<AdminRole, AdminUser, AdminProject>>}
  BY KnownIff DEF Init
<1>3. AdminRole \in KnownThings /\ AdminUser \in KnownThings /\ AdminProject \in KnownThings
  <2>1. AdminRole \in Things /\ AdminProject \in Things /\ AdminUser \in Users
    BY IdentityAssumption DEF IdentityAssumption, Things
  <2>2. IsThere(AdminRole) /\ IsThere(AdminProject) /\ IsUser(AdminUser)
    BY <2>1, IdentityAssumption DEF Init, IsThere, IsUser, IdentityAssumption
  <2> QED
    BY <2>1, <2>2, KnownIff
<1>4. KnownToFile = KnownThings /\ GrantsInFile = GrantsInForce
  BY DEF Init, Snapshot, KnownToFile, KnownThings, LiveUsers, IsUser, IsThere, GrantsInFile,
     GrantsInForce
<1> QED
  BY <1>1, <1>2, <1>3, <1>4 DEF Access!Init, Access!Record

(* What leaves users, things and assignments alone, in the file as well,   *)
(* is no step of the set.                                                  *)
LEMMA StoresStutter ==
    ASSUME user' = user, life' = life, grants' = grants, Recorded' = Recorded
    PROVE  UNCHANGED Access!vars
  BY DEF Access!vars, KnownThings, GrantsInForce, LiveUsers, IsUser, IsThere, Recorded

(* A step after which the file is up to date, or the same, records what it *)
(* may.                                                                    *)
LEMMA RecordsAllOrNothing ==
    ASSUME Saved \/ UNCHANGED file
    PROVE  Access!Recorded
<1>1. CASE UNCHANGED file
  BY <1>1, FileRecords DEF Access!Recorded, Recorded
<1>2. CASE Saved
  <2> DEFINE part == GrantsInForce' \ GrantsInForce
  <2>1. Recorded' = [known |-> KnownThings', granted |-> GrantsInForce']
    BY <1>2, SavedRecords
  <2>2. GrantsInForce' = (GrantsInForce' \cap GrantsInForce) \cup part
    OBVIOUS
  <2>3. part \in SUBSET (GrantsInForce' \ GrantsInForce)
    OBVIOUS
  <2> QED
    BY <2>1, <2>2, <2>3 DEF Access!Recorded, Access!Record, Recorded
<1> QED
  BY <1>1, <1>2

(* A step by which nothing goes, nothing is revoked and what is granted is *)
(* granted to what exists is a grant, if what it creates is saved or only  *)
(* a group.                                                                *)
LEMMA GrowthGrants ==
    ASSUME Grows,
           \A g \in Grants : grants[g] > 0 => grants'[g] > 0,
           \A g \in Grants : grants'[g] > 0 => grants[g] > 0 \/ (Refers(g) /\ IsThere(g[3]))',
           Access!Recorded,
           \/ Recorded'.known = KnownThings'
           \/ KnownThings' \ KnownThings \subseteq Groups
    PROVE  Access!Grant
<1>1. KnownThings \subseteq KnownThings'
  BY DEF KnownThings, LiveUsers, Grows
<1>2. KnownThings' \subseteq Things \cup Users
  BY DEF KnownThings, LiveUsers
<1>3. GrantsInForce \subseteq GrantsInForce'
  BY DEF GrantsInForce
<1>4. ASSUME NEW g \in GrantsInForce' \ GrantsInForce
      PROVE  g \in KnownThings' \X KnownThings' \X KnownThings'
  <2>1. g \in Grants /\ (Refers(g) /\ IsThere(g[3]))'
    BY <1>4 DEF GrantsInForce
  <2>2. g[1] \in Roles /\ g[2] \in Users \cup Groups /\ g[3] \in Projects \cup Domains
    BY <2>1, GrantParts
  <2>3. g[1] \in KnownThings' /\ g[2] \in KnownThings' /\ g[3] \in KnownThings'
    BY <2>1, <2>2 DEF Refers, ActorExists, KnownThings, LiveUsers, Things
  <2>4. g = <<g[1], g[2], g[3]>>
    BY <2>1, GrantParts
  <2> QED
    BY <2>3, <2>4
<1>5. Groups \cap (Users \cup Projects \cup Domains \cup Roles) = {}
  BY KindsApart
<1>6. (KnownThings' \ KnownThings) \cap (Users \cup Projects \cup Domains \cup Roles) # {}
          => Recorded'.known = KnownThings'
  BY <1>5
<1> QED
  BY <1>1, <1>2, <1>3, <1>4, <1>6 DEF Access!Grant, Recorded

(* What goes is forgotten, with what names it unless it is a domain; and   *)
(* saved unless it is a group.                                             *)
LEMMA GoneForgotten ==
    ASSUME NEW z \in Things \cup Users, z \in KnownThings,
           KnownThings' = KnownThings \ {z},
           IF z \in Domains THEN grants' = grants ELSE grants' = GrantsWithout(z),
           Saved \/ (z \in Groups /\ UNCHANGED file)
    PROVE  Access!Forget
<1>1. GrantsInForce' = {g \in GrantsInForce : z \in Domains \/ z \notin Access!NamedBy(g)}
  <2>1. CASE z \in Domains
    BY <2>1 DEF GrantsInForce
  <2>2. CASE z \notin Domains
    BY <2>2 DEF GrantsInForce, GrantsWithout, Access!NamedBy
  <2> QED
    BY <2>1, <2>2
<1>2. Access!Recorded
  BY RecordsAllOrNothing
<1>3. z \in Users \cup Projects \cup Domains \cup Roles =>
          Recorded' = [known |-> KnownThings', granted |-> GrantsInForce']
  BY KindsApart, SavedRecords
<1> QED
  BY <1>1, <1>2, <1>3 DEF Access!Forget, Access!Record, Recorded

(* A restart leads back to what is recorded.                               *)
LEMMA RestartRestores ==
    ASSUME Restart
    PROVE  Access!Restart
<1>1. KnownThings' = KnownToFile
  BY IdentityAssumption
     DEF Restart, KnownThings, KnownToFile, LiveUsers, IsUser, IsThere, IdentityAssumption
<1>2. GrantsInForce' = GrantsInFile
  BY DEF Restart, GrantsInForce, GrantsInFile
<1>3. Recorded' = Recorded
  BY FileRecords DEF Restart
<1> QED
  BY <1>1, <1>2, <1>3 DEF Access!Restart, Recorded

(* A thing that is taken back is known no more.                            *)
LEMMA ThingGone ==
    ASSUME TypeOK, NEW z \in Things, IsThere(z), user' = user,
           life' = [life EXCEPT ![z] = Gone]
    PROVE  z \in KnownThings /\ KnownThings' = KnownThings \ {z}
  BY KindsApart, IdentityAssumption
     DEF KnownThings, LiveUsers, IsUser, IsThere, TypeOK, MemoryTypeOK, IdentityAssumption

(* Neither is a user.                                                      *)
LEMMA UserGone ==
    ASSUME TypeOK, NEW z \in Users, IsUser(z), life' = life,
           user' = [user EXCEPT ![z] = Gone]
    PROVE  z \in KnownThings /\ KnownThings' = KnownThings \ {z}
  BY KindsApart, IdentityAssumption
     DEF KnownThings, LiveUsers, IsUser, IsThere, TypeOK, MemoryTypeOK, IdentityAssumption

(* Something that comes to be leaves the list as it was.                   *)
LEMMA CreationGrants ==
    ASSUME TypeOK, NEW x \in Things, Create(x)
    PROVE  Access!Grant
<1>1. Grows
  BY IdentityAssumption DEF Create, Grows, IsThere, IsUser, TypeOK, MemoryTypeOK, IdentityAssumption
<1>2. Access!Recorded /\ Recorded'.known = KnownThings'
  BY RecordsAllOrNothing, SavedRecords DEF Create
<1> QED
  BY <1>1, <1>2, GrowthGrants DEF Create

(* An assignment grants; taking one back revokes.                          *)
LEMMA AssignmentRefines ==
    ASSUME TypeOK, NEW r \in Roles, NEW a \in Users \cup Groups,
           NEW x \in Projects \cup Domains, AssignRole(r, a, x) \/ RevokeRole(r, a, x)
    PROVE  Access!Grant \/ Access!Revoke
<1> DEFINE h == <<r, a, x>>
<1>0. h \in Grants /\ h[1] = r /\ h[2] = a /\ h[3] = x
  BY GrantOf
<1>1. CASE AssignRole(r, a, x)
  <2>1. Grows
    BY <1>1 DEF AssignRole, Grows, IsThere, IsUser
  <2>2. (Refers(h) /\ IsThere(h[3]))'
    BY <1>0, <1>1 DEF AssignRole, Refers, IsThere, ActorExists, IsUser
  <2>3. \A g \in Grants : grants'[g] > 0 <=> grants[g] > 0 \/ g = h
    BY <1>1, <1>0 DEF AssignRole, Assigned, TypeOK, MemoryTypeOK
  <2>4. KnownThings' = KnownThings
    BY <1>1 DEF AssignRole, KnownThings, LiveUsers, IsUser, IsThere
  <2>5. Access!Recorded
    BY <1>1, RecordsAllOrNothing DEF AssignRole
  <2> QED
    BY <2>1, <2>2, <2>3, <2>4, <2>5, GrowthGrants
<1>2. CASE RevokeRole(r, a, x)
  <2>1. KnownThings' = KnownThings
    BY <1>2 DEF RevokeRole, KnownThings, LiveUsers, IsUser, IsThere
  <2>2. h \in GrantsInForce
    BY <1>0, <1>2 DEF RevokeRole, GrantsInForce
  <2>3. grants[h] = 1 /\ grants' = [grants EXCEPT ![h] = grants[h] - 1]
    BY <1>0, <1>2 DEF RevokeRole, TypeOK, MemoryTypeOK
  <2>4. GrantsInForce' = GrantsInForce \ {h}
    BY <1>0, <2>3 DEF GrantsInForce, TypeOK, MemoryTypeOK
  <2>5. Access!Recorded
    BY <1>2, RecordsAllOrNothing DEF RevokeRole
  <2> QED
    BY <2>1, <2>2, <2>4, <2>5 DEF Access!Revoke
<1> QED
  BY <1>1, <1>2

(* Every request, expiry and restart is a step of the set of grants, or    *)
(* none.                                                                   *)
LEMMA StepRefines ==
    ASSUME TypeOK, [Next]_vars
    PROVE  [Access!Next]_(Access!vars)
<1>1. CASE TokenRequests \/ CredentialRequests \/ Expiry \/ UNCHANGED vars
  <2>1. user' = user /\ life' = life /\ grants' = grants
    BY <1>1 DEF TokenRequests, AuthenticateByPassword, AuthenticateByToken,
       AuthenticateByCredential, RevokeToken, CredentialRequests, CreateApplicationCredential,
       DeleteApplicationCredential, Expiry, TokenExpires, CredentialExpires, stores, vars
  <2>2. UNCHANGED file \/ \E c \in Credentials : CredentialExpires(c)
    BY <1>1 DEF TokenRequests, AuthenticateByPassword, AuthenticateByToken,
       AuthenticateByCredential, RevokeToken, CredentialRequests, CreateApplicationCredential,
       DeleteApplicationCredential, Expiry, TokenExpires, stores, vars
  <2>3. file'.user = file.user /\ file'.life = file.life /\ file'.grants = file.grants
    BY <2>2 DEF CredentialExpires, TypeOK, FileRecord
  <2>4. Recorded' = Recorded
    BY <2>3 DEF Recorded, KnownToFile, GrantsInFile
  <2> QED
    BY <2>1, <2>4, StoresStutter
<1>2. CASE DomainRequests
  <2>1. ASSUME NEW d \in Domains, CreateDomain(d) PROVE Access!Grant
    BY <2>1, CreationGrants DEF CreateDomain, Things
  <2>2. ASSUME NEW d \in Domains, DeleteDomain(d) PROVE Access!Forget
    <3>1. d \in Things
      BY DEF Things
    <3> QED
      BY <2>2, <3>1, ThingGone, GoneForgotten DEF DeleteDomain
  <2> QED
    BY <1>2, <2>1, <2>2 DEF DomainRequests, Access!Next
<1>3. CASE ProjectRequests
  <2>1. ASSUME NEW p \in Projects, CreateProject(p) PROVE Access!Grant
    BY <2>1, CreationGrants DEF CreateProject, Things
  <2>2. ASSUME NEW p \in Projects, DeleteProject(p) PROVE Access!Forget
    <3>1. p \in Things /\ p \notin Domains
      BY KindsApart DEF Things
    <3> QED
      BY <2>2, <3>1, ThingGone, GoneForgotten DEF DeleteProject
  <2> QED
    BY <1>3, <2>1, <2>2 DEF ProjectRequests, Access!Next
<1>4. CASE UserRequests
  <2>1. ASSUME NEW u \in Users, NEW n \in Names, CreateUser(u, n) \/ UpdateUser(u, n)
        PROVE  Access!Grant
    <3>1. Grows
      BY <2>1 DEF CreateUser, UpdateUser, Grows, IsThere, IsUser, TypeOK, MemoryTypeOK
    <3>2. grants' = grants
      BY <2>1 DEF CreateUser, UpdateUser
    <3>3. Access!Recorded /\ Recorded'.known = KnownThings'
      BY <2>1, RecordsAllOrNothing, SavedRecords DEF CreateUser, UpdateUser
    <3> QED
      BY <3>1, <3>2, <3>3, GrowthGrants
  <2>2. ASSUME NEW u \in Users, DeleteUser(u) PROVE Access!Forget
    <3>1. u \notin Domains
      BY KindsApart
    <3> QED
      BY <2>2, <3>1, UserGone, GoneForgotten DEF DeleteUser
  <2> QED
    BY <1>4, <2>1, <2>2 DEF UserRequests, Access!Next
<1>5. CASE RoleRequests
  <2>1. ASSUME NEW r \in Roles, CreateRole(r) PROVE Access!Grant
    BY <2>1, CreationGrants DEF CreateRole, Things
  <2>2. ASSUME NEW r \in Roles, DeleteRole(r) PROVE Access!Forget
    <3>1. r \in Things /\ r \notin Domains
      BY KindsApart DEF Things
    <3> QED
      BY <2>2, <3>1, ThingGone, GoneForgotten DEF DeleteRole
  <2> QED
    BY <1>5, <2>1, <2>2 DEF RoleRequests, Access!Next
<1>6. CASE UserAssignmentRequests
  BY <1>6, AssignmentRefines DEF UserAssignmentRequests, Access!Next
<1>7. CASE GroupAssignmentRequests
  BY <1>7, AssignmentRefines DEF GroupAssignmentRequests, Access!Next
<1>8. CASE GroupRequests
  <2>1. ASSUME NEW g \in Groups, CreateGroup(g) PROVE Access!Grant
    <3>1. Grows
      BY <2>1 DEF CreateGroup, Grows, IsThere, IsUser, TypeOK, MemoryTypeOK
    <3>2. KnownThings' \ KnownThings \subseteq Groups
      BY <2>1 DEF CreateGroup, KnownThings, LiveUsers, IsUser, IsThere, TypeOK, MemoryTypeOK
    <3>3. Access!Recorded
      BY <2>1, RecordsAllOrNothing DEF CreateGroup
    <3> QED
      BY <2>1, <3>1, <3>2, <3>3, GrowthGrants DEF CreateGroup
  <2>2. ASSUME NEW g \in Groups, DeleteGroup(g) PROVE Access!Forget
    <3>1. g \in Things /\ g \notin Domains
      BY KindsApart DEF Things
    <3> QED
      BY <2>2, <3>1, ThingGone, GoneForgotten DEF DeleteGroup
  <2>3. ASSUME NEW g \in Groups, NEW u \in Users,
               AddUserToGroup(u, g) \/ RemoveUserFromGroup(u, g)
        PROVE  UNCHANGED Access!vars
    BY <2>3, FileRecords, StoresStutter DEF AddUserToGroup, RemoveUserFromGroup
  <2> QED
    BY <1>8, <2>1, <2>2, <2>3 DEF GroupRequests, Access!Next
<1>9. CASE FederatedRequests
  <2> PICK t \in Tokens, n \in Names, ephemeral \in BOOLEAN, u \in Users,
           gs \in SUBSET Groups, wanted \in SUBSET (Roles \X Projects) :
        FederatedLogin(t, n, ephemeral, u, gs, wanted)
    BY <1>9, IdentityAssumption DEF FederatedRequests, IdentityAssumption
  <2> DEFINE asked == {<<w[1], u, w[2]>> : w \in {v \in wanted : IsThere(v[1])}}
  <2>1. /\ grants' = Assigned(asked) /\ user' = [user EXCEPT ![u] = n]
        /\ life' = [x \in Things |-> IF \E w \in wanted : w[2] = x THEN Live ELSE life[x]]
    BY DEF FederatedLogin
  <2>2. Grows
    BY <2>1 DEF Grows, IsThere, IsUser, TypeOK, MemoryTypeOK
  <2>3. ASSUME NEW g \in asked PROVE (Refers(g) /\ IsThere(g[3]))'
    <3>1. PICK w \in wanted : IsThere(w[1]) /\ g = <<w[1], u, w[2]>>
      OBVIOUS
    <3>2. g[1] = w[1] /\ g[2] = u /\ g[3] = w[2] /\ w[1] \in Things /\ w[2] \in Things
      BY <3>1 DEF Things
    <3>3. IsThere(w[1])' /\ IsThere(w[2])' /\ IsUser(u)'
      BY <2>1, <2>2, <3>1, <3>2 DEF Grows, IsThere, IsUser, TypeOK, MemoryTypeOK
    <3> QED
      BY <3>2, <3>3 DEF Refers, ActorExists
  <2>4. \A g \in Grants : grants[g] > 0 => grants'[g] > 0
    BY <2>1 DEF Assigned, TypeOK, MemoryTypeOK
  <2>5. \A g \in Grants : grants'[g] > 0 => grants[g] > 0 \/ g \in asked
    BY <2>1, AssignedFrom
  <2>6. CASE UNCHANGED <<file, user, life>>
    <3>1. KnownThings' = KnownThings
      BY <2>6 DEF KnownThings, LiveUsers, IsUser, IsThere
    <3>2. Access!Recorded
      BY <2>6, RecordsAllOrNothing
    <3> QED
      BY <2>2, <2>3, <2>4, <2>5, <3>1, <3>2, GrowthGrants DEF Access!Next
  <2>7. ASSUME NEW W \in SUBSET {g \in Grants : grants'[g] > grants[g]}, file' = Written(W)
        PROVE  Access!Next
    <3>1. Recorded'.known = KnownThings'
      BY <2>7 DEF Recorded, Written, KnownToFile, KnownThings, LiveUsers, IsUser, IsThere
    <3>2. ASSUME NEW g \in W PROVE g \in GrantsInForce' \ GrantsInForce
      <4>1. g \in Grants /\ grants'[g] > grants[g] /\ grants[g] \in 0..1
        BY <2>7 DEF TypeOK, MemoryTypeOK
      <4>2. grants'[g] = (IF g \in asked /\ grants[g] = 0 THEN 1 ELSE grants[g])
        BY <2>1, <4>1 DEF Assigned
      <4>3. grants[g] = 0 /\ grants'[g] = 1
        BY <4>1, <4>2
      <4> QED
        BY <4>1, <4>3 DEF GrantsInForce
    <3>3. GrantsInFile' = (GrantsInForce' \cap GrantsInForce) \cup W
      BY <2>4, <2>7, <3>2 DEF GrantsInFile, GrantsInForce, Written
    <3>4. Access!Recorded
      BY <3>1, <3>2, <3>3 DEF Access!Recorded, Access!Record, Recorded
    <3> QED
      BY <2>2, <2>3, <2>4, <2>5, <3>1, <3>4, GrowthGrants DEF Access!Next
  <2> QED
    BY <2>6, <2>7, LoginWrites
<1>10. CASE SaveElsewhere
  <2>1. Recorded' = [known |-> KnownThings', granted |-> GrantsInForce']
    BY <1>10, SavedRecords DEF SaveElsewhere
  <2>2. KnownThings' = KnownThings /\ GrantsInForce' = GrantsInForce
    BY <1>10 DEF SaveElsewhere, KnownThings, LiveUsers, IsUser, IsThere, GrantsInForce
  <2> QED
    BY <2>1, <2>2 DEF Access!Next, Access!Save, Access!Record, Recorded
<1>11. CASE Restart
  BY <1>11, RestartRestores DEF Access!Next
<1> QED
  BY <1>1, <1>2, <1>3, <1>4, <1>5, <1>6, <1>7, <1>8, <1>9, <1>10, <1>11 DEF Next

(* The list of assignments, with everything that deletes from it, is a set *)
(* of grants in which one revocation is enough.                            *)
THEOREM AccessRefined == Spec => AccessIsASet
<1>1. Init => Access!Init
  BY RefinesInitially
<1>2. TypeOK /\ [Next]_vars => [Access!Next]_(Access!vars)
  BY StepRefines
<1> QED
  BY <1>1, <1>2, TypeCorrect, PTL DEF Spec, AccessIsASet, Access!Spec

(***************************************************************************)
(* Federation.  Numbers first: the k-th of a set of numbers, and the last  *)
(* of them.                                                                *)
(***************************************************************************)

(* A set of natural numbers that is not empty has a least one.             *)
LEMMA LeastNumber ==
    ASSUME NEW T \in SUBSET Nat, T # {}
    PROVE  \E x \in T : \A y \in T : x <= y
<1> DEFINE R == OpToRel(<, Nat)
<1>1. PICK x \in T : \A y \in T : <<y, x>> \notin R
  BY NatLessThanWellFounded, WFMin
<1>2. \A y \in T : y < x => <<y, x>> \in R
  BY DEF OpToRel
<1> HIDE DEF R
<1>3. \A y \in T : ~(y < x)
  BY <1>1, <1>2
<1> QED BY <1>3

(* One that is bounded has a greatest.                                     *)
LEMMA GreatestNumber ==
    ASSUME NEW b \in Nat, NEW T \in SUBSET (0..b), T # {}
    PROVE  \E x \in T : \A y \in T : y <= x
<1> DEFINE S == {b - y : y \in T}
<1>1. S \in SUBSET Nat /\ S # {}
  <2>1. \A y \in T : y \in Int /\ b - y \in Nat
    OBVIOUS
  <2> QED BY <2>1
<1>2. PICK s \in S : \A r \in S : s <= r
  <2> HIDE DEF S
  <2> QED BY <1>1, LeastNumber
<1>3. PICK x \in T : s = b - x
  BY <1>2
<1>4. \A y \in T : b - x <= b - y
  BY <1>2, <1>3
<1>5. \A y \in T : y \in Int
  OBVIOUS
<1> QED BY <1>3, <1>4, <1>5

(* Every number up to the size of a set of positions counts out one of its *)
(* members: the k-th.                                                      *)
LEMMA KthExists ==
    ASSUME NEW n \in Nat, NEW F \in SUBSET (1..n), NEW k \in 1..Cardinality(F)
    PROVE  \E p \in F : Cardinality(UpTo(F, p)) = k
<1>1. IsFiniteSet(F) /\ Cardinality(F) \in Nat
  <2>1. IsFiniteSet(1..n)
    BY FS_Interval
  <2> QED BY <2>1, FS_Subset, FS_CardinalityType
<1> \A q \in F : q \in Nat /\ q >= 1 /\ q <= n
  OBVIOUS
<1>2. \A p \in Nat : IsFiniteSet(UpTo(F, p)) /\ Cardinality(UpTo(F, p)) \in Nat
  <2> SUFFICES ASSUME NEW p \in Nat
               PROVE  IsFiniteSet(UpTo(F, p)) /\ Cardinality(UpTo(F, p)) \in Nat
    OBVIOUS
  <2>1. UpTo(F, p) \in SUBSET F
    BY DEF UpTo
  <2> QED BY <1>1, <2>1, FS_Subset, FS_CardinalityType
<1> DEFINE c(p) == Cardinality(UpTo(F, p))
           T    == {p \in 1..n : c(p) >= k}
<1>3. UpTo(F, n) = F /\ UpTo(F, 0) = {}
  <2>1. \A q \in F : q <= n /\ ~(q <= 0)
    OBVIOUS
  <2> QED BY <2>1 DEF UpTo
<1>4. c(n) >= k /\ c(0) = 0 /\ k >= 1
  BY <1>1, <1>3, FS_EmptySet
<1>5. n \in T
  BY <1>4
<1>6. PICK p \in T : \A q \in T : p <= q
  <2>1. T \in SUBSET Nat /\ T # {}
    BY <1>5
  <2> HIDE DEF T
  <2> QED BY <2>1, LeastNumber
<1>7. p \in 1..n /\ c(p) >= k /\ p - 1 \in Nat
  BY <1>6
<1>8. c(p - 1) < k
  <2>1. CASE p = 1
    BY <1>4, <2>1
  <2>2. CASE p # 1
    <3>1. p - 1 \in 1..n /\ p - 1 \notin T
      BY <1>6, <1>7, <2>2
    <3> QED BY <1>2, <1>7, <3>1
  <2> QED BY <2>1, <2>2
<1>9. p \in F
  <2> SUFFICES ASSUME p \notin F PROVE FALSE
    OBVIOUS
  <2>1. UpTo(F, p) = UpTo(F, p - 1)
    <3>1. \A q \in F : q <= p <=> q <= p - 1
      BY <1>7
    <3> QED BY <3>1 DEF UpTo
  <2> QED BY <1>2, <1>7, <1>8, <2>1
<1>10. c(p) = c(p - 1) + 1
  <2>1. UpTo(F, p) = UpTo(F, p - 1) \cup {p} /\ p \notin UpTo(F, p - 1)
    <3>1. \A q \in F : q <= p <=> q <= p - 1 \/ q = p
      BY <1>7
    <3>2. p <= p /\ ~(p <= p - 1)
      BY <1>7
    <3> QED BY <1>9, <3>1, <3>2 DEF UpTo
  <2> QED BY <1>2, <1>7, <2>1, FS_AddElement
<1> QED BY <1>2, <1>7, <1>8, <1>9, <1>10

(***************************************************************************)
(* The mapping engine answers with parts of what is asserted.              *)
(***************************************************************************)

(* All that is asserted of a person, in one set.                           *)
Said(asserted) == UNION {asserted[c].values : c \in Claim}

(* What a requirement matches is a part of its claim.                      *)
LEMMA MatchSaid ==
    ASSUME NEW req \in Requirement, NEW asserted
    PROVE  Match(req, asserted).values \subseteq Said(asserted)
  BY DEF Match, Said, Requirement

(* A rule's match that exists is one of its requirements'.                 *)
LEMMA DirectMapSaid ==
    ASSUME NEW rule \in Rule, NEW k \in 1..Cardinality(Filters(rule)), NEW asserted
    PROVE  DirectMap(rule, k, asserted).values \subseteq Said(asserted)
<1> DEFINE F == Filters(rule)
           n == CHOOSE n \in F : Cardinality(UpTo(F, n)) = k
<1>1. rule.remote \in Seq(Requirement)
  BY DEF Rule
<1>2. Len(rule.remote) \in Nat /\ F \in SUBSET (1..Len(rule.remote))
  BY <1>1 DEF Filters
<1>3. n \in F
  <2> HIDE DEF F
  <2>1. \E p \in F : Cardinality(UpTo(F, p)) = k
    BY <1>2, KthExists DEF F
  <2> QED BY <2>1
<1>4. rule.remote[n] \in Requirement
  <2>1. n \in 1..Len(rule.remote)
    BY <1>2, <1>3
  <2> HIDE DEF n
  <2> QED BY <1>1, <2>1
<1>5. DirectMap(rule, k, asserted) = Match(rule.remote[n], asserted)
  BY DEF DirectMap
<1> HIDE DEF n
<1> QED BY <1>4, <1>5, MatchSaid

(* The name and the groups a match makes are its values, or an odd text.   *)
LEMMA NamesSaid ==
    ASSUME NEW m, NEW S, m.values \subseteq S
    PROVE  UserName(m) \in S \cup {OddName} /\ GroupNames(m) \subseteq S \cup {OddName}
<1>1. Cardinality(m.values) = 1 => m.values # {}
  BY FS_EmptySet
<1> QED BY <1>1 DEF UserName, GroupNames

(* An entry of a mapping is an entry of one of its rules, and the matches  *)
(* it asks for exist if the mapping does not fail.                         *)
LEMMA EntryFacts ==
    ASSUME NEW rules \in Rules, NEW asserted, Mappable(rules, asserted),
           NEW e \in IdentityValues(rules, asserted)
    PROVE  /\ rules[e[1]] \in Rule
           /\ e[1] \in 1..Len(rules) /\ e[2] \in 1..Len(rules[e[1]].local)
           /\ e = <<e[1], e[2]>>
           /\ Len(rules) \in Nat /\ Len(rules[e[1]].local) \in Nat
           /\ Entry(rules, e).user \in 0..Cardinality(Filters(rules[e[1]]))
           /\ Entry(rules, e).groups \in 0..Cardinality(Filters(rules[e[1]]))
<1>1. rules \in Seq(Rule)
  BY FederationAssumption DEF FederationAssumption
<1>2. PICK n \in DOMAIN rules : \E l \in DOMAIN rules[n].local : e = <<n, l>>
  BY DEF IdentityValues
<1>3. PICK l \in DOMAIN rules[n].local : e = <<n, l>>
  BY <1>2
<1>4. n \in 1..Len(rules) /\ rules[n] \in Rule /\ rules[n].local \in Seq(Local)
  <2>1. n \in 1..Len(rules) /\ rules[n] \in Rule
    BY <1>1
  <2> QED BY <2>1 DEF Rule
<1>5. e[1] = n /\ e[2] = l
  BY <1>3
<1>6. {Entry(rules, e).user, Entry(rules, e).groups}
          \subseteq 0..Cardinality(Filters(rules[e[1]]))
  BY DEF Mappable
<1> QED BY <1>1, <1>3, <1>4, <1>5, <1>6

(* Of the entries that give a user there is a last.                        *)
LEMMA LastUserExists ==
    ASSUME NEW rules \in Rules, NEW asserted, Mappable(rules, asserted),
           WithUser(rules, asserted) # {}
    PROVE  LastUser(rules, asserted) \in WithUser(rules, asserted)
<1> DEFINE W == WithUser(rules, asserted)
           I == {e[1] : e \in W}
<1>1. \A e \in W : /\ e[1] \in 1..Len(rules) /\ Len(rules) \in Nat
                   /\ e[2] \in 1..Len(rules[e[1]].local) /\ Len(rules[e[1]].local) \in Nat
  BY EntryFacts DEF WithUser
<1> HIDE DEF W
<1>2. PICK n \in I : \A m \in I : m <= n
  <2>1. PICK e \in W : TRUE
    BY DEF W
  <2>2. Len(rules) \in Nat /\ I \in SUBSET (0..Len(rules)) /\ I # {}
    BY <1>1, <2>1
  <2> HIDE DEF I
  <2> QED BY <2>2, GreatestNumber
<1> DEFINE J == {e[2] : e \in {f \in W : f[1] = n}}
<1>3. PICK l \in J : \A m \in J : m <= l
  <2>1. PICK e \in W : e[1] = n
    BY <1>2
  <2>2. \A f \in W : f[1] = n => f[2] \in 0..Len(rules[n].local)
    BY <1>1
  <2>3. Len(rules[n].local) \in Nat /\ J \in SUBSET (0..Len(rules[n].local)) /\ J # {}
    <3>1. Len(rules[n].local) \in Nat
      BY <1>1, <2>1
    <3> QED BY <2>1, <2>2, <3>1
  <2> HIDE DEF J
  <2> QED BY <2>3, GreatestNumber
<1>4. PICK e \in W : e[1] = n /\ e[2] = l
  BY <1>3
<1>5. ASSUME NEW f \in W
      PROVE  e[1] > f[1] \/ (e[1] = f[1] /\ e[2] >= f[2])
  <2>1. e[1] \in Nat /\ e[2] \in Nat /\ f[1] \in Nat /\ f[2] \in Nat
    BY <1>1, <1>4
  <2>2. f[1] <= n
    BY <1>2
  <2>3. f[1] = n => f[2] <= l
    BY <1>3
  <2> QED BY <1>4, <2>1, <2>2, <2>3
<1>6. \E g \in W : \A f \in W : g[1] > f[1] \/ (g[1] = f[1] /\ g[2] >= f[2])
  BY <1>5
<1> QED BY <1>6 DEF LastUser, W

(* What a mapping makes of a person was asserted of the person: the name   *)
(* and every group.                                                        *)
LEMMA MappedSaid ==
    ASSUME NEW rules \in Rules, NEW asserted, Mappable(rules, asserted),
           WithUser(rules, asserted) # {}
    PROVE  /\ MappedName(rules, asserted) \in Said(asserted) \cup {OddName}
           /\ MappedGroups(rules, asserted) \subseteq Said(asserted) \cup {OddName}
<1>1. MappedName(rules, asserted) \in Said(asserted) \cup {OddName}
  <2> DEFINE e == LastUser(rules, asserted)
             k == Entry(rules, e).user
  <2>1. e \in IdentityValues(rules, asserted) /\ k # 0
    BY LastUserExists DEF WithUser
  <2> HIDE DEF e
  <2>2. rules[e[1]] \in Rule /\ k \in 0..Cardinality(Filters(rules[e[1]]))
    BY <2>1, EntryFacts
  <2>3. k \in 1..Cardinality(Filters(rules[e[1]]))
    BY <2>1, <2>2
  <2>4. MappedName(rules, asserted) = UserName(DirectMap(rules[e[1]], k, asserted))
    BY DEF MappedName, e
  <2> HIDE DEF k
  <2>5. DirectMap(rules[e[1]], k, asserted).values \subseteq Said(asserted)
    BY <2>2, <2>3, DirectMapSaid
  <2> QED BY <2>4, <2>5, NamesSaid
<1>2. MappedGroups(rules, asserted) \subseteq Said(asserted) \cup {OddName}
  <2> SUFFICES ASSUME NEW m \in GroupMatches(rules, asserted)
               PROVE  GroupNames(m) \subseteq Said(asserted) \cup {OddName}
    BY DEF MappedGroups
  <2>1. PICK e \in IdentityValues(rules, asserted) :
            /\ Entry(rules, e).groups # 0
            /\ m = DirectMap(rules[e[1]], Entry(rules, e).groups, asserted)
    BY DEF GroupMatches
  <2> DEFINE k == Entry(rules, e).groups
  <2>2. rules[e[1]] \in Rule /\ k \in 0..Cardinality(Filters(rules[e[1]]))
    BY EntryFacts
  <2>3. k \in 1..Cardinality(Filters(rules[e[1]]))
    BY <2>1, <2>2
  <2> HIDE DEF k
  <2>4. DirectMap(rules[e[1]], k, asserted).values \subseteq Said(asserted)
    BY <2>2, <2>3, DirectMapSaid
  <2> QED BY <2>1, <2>4, NamesSaid DEF k
<1> QED BY <1>1, <1>2

(* What is asserted of a user says values.                                 *)
LEMMA ClaimsSayValues ==
    ASSUME NEW u
    PROVE  Said(ClaimsOf(u)) \subseteq Value
<1>1. \A c \in Claim : ClaimsOf(u)[c] \in Assertion
  BY FederationAssumption DEF FederationAssumption, ClaimsOf, Assertion, Missing
<1> QED BY <1>1 DEF Said, Assertion

(***************************************************************************)
(* Codes, access tokens and sessions.                                      *)
(***************************************************************************)

(* A record is none of the marks for what is not there.                    *)
LEMMA RecordsPresent ==
    ASSUME NEW x \in CodeRecord \cup BearerRecord \cup SessionRecord
    PROVE  Present(x)
  BY FederationAssumption DEF FederationAssumption, Present

(* What the constructors make.                                             *)
LEMMA CodeMade ==
    ASSUME NEW c \in Client, NEW u \in User, NEW x \in BOOLEAN
    PROVE  NewCode(c, u, x) \in CodeRecord
  BY DEF NewCode, CodeRecord

LEMMA BearerMade ==
    ASSUME NEW c \in Client, NEW u \in User \cup Stranger, NEW k \in Code \cup {NoCode},
           NEW r \in (0..MaxRun) \cup Issuer, NEW x \in BOOLEAN
    PROVE  /\ NewBearer(c, u, k, r, x) \in BearerRecord
           /\ NewBearer(c, u, k, r, x).user = u
           /\ NewBearer(c, u, k, r, x).code = k
           /\ NewBearer(c, u, k, r, x).key = r
  BY DEF NewBearer, BearerRecord

LEMMA SessionMade ==
    ASSUME NEW a \in Value \cup {OddName}, NEW gs \in SUBSET Value, NEW i \in Idp,
           NEW q \in Protocol, NEW b \in Bearer
    PROVE  /\ NewSession(a, gs, i, q, b) \in SessionRecord
           /\ NewSession(a, gs, i, q, b).account = a
           /\ NewSession(a, gs, i, q, b).groups = gs
           /\ NewSession(a, gs, i, q, b).bearer = b
  BY DEF NewSession, SessionRecord

(* The token a session was opened with is there.                           *)
SessionsBacked ==
    \A s \in Session : Present(session[s]) => bearer[session[s].bearer] \in BearerRecord

(* A code that bought a token is gone.                                     *)
CodesSpent ==
    \A b \in Bearer : Present(bearer[b]) /\ bearer[b].code # NoCode =>
        code[bearer[b].code] = Lapsed

(* External providers know strangers only.                                 *)
StrangersAbroad ==
    \A b \in Bearer : Present(bearer[b]) /\ bearer[b].key \in Issuer => bearer[b].user \in Stranger

(* The inductive invariant.                                                *)
FedIInv == FedTypeOK /\ StrangersAbroad /\ SessionsBacked /\ CodesSpent /\ CodeBuysOneToken
               /\ NobodyElse /\ NothingOutlivesTheKey

(* What is there is a record.                                              *)
LEMMA PresentRecords ==
    ASSUME FedTypeOK
    PROVE  /\ \A k \in Code : Present(code[k]) => code[k] \in CodeRecord
           /\ \A b \in Bearer : Present(bearer[b]) <=> bearer[b] \in BearerRecord
           /\ \A s \in Session : Present(session[s]) <=> session[s] \in SessionRecord
<1>1. \A x \in BearerRecord \cup SessionRecord : Present(x)
  BY RecordsPresent
<1> QED BY <1>1 DEF FedTypeOK, Present

(* A step may add tokens, and age them: whose they are, and which key      *)
(* signed them, stays.                                                     *)
BearersKept ==
    \A b \in Bearer : Present(bearer[b]) =>
        /\ bearer'[b] \in BearerRecord
        /\ bearer'[b].user = bearer[b].user
        /\ bearer'[b].key = bearer[b].key

LEMMA StrangersKept ==
    ASSUME StrangersAbroad, BearersKept,
           \A b \in Bearer : Present(bearer'[b]) /\ ~Present(bearer[b]) =>
               (bearer'[b].key \in Issuer => bearer'[b].user \in Stranger)
    PROVE  StrangersAbroad'
  BY DEF StrangersAbroad, BearersKept

(* If no session is opened and the process goes on, what is known of the   *)
(* sessions stays.                                                         *)
LEMMA SessionsKept ==
    ASSUME FedTypeOK, SessionsBacked, NobodyElse, NothingOutlivesTheKey,
           BearersKept, session' = session, run' = run
    PROVE  (SessionsBacked /\ NobodyElse /\ NothingOutlivesTheKey)'
<1>1. ASSUME NEW s \in Session, Present(session[s])
      PROVE  /\ bearer'[session[s].bearer] \in BearerRecord
             /\ bearer'[session[s].bearer].user = bearer[session[s].bearer].user
             /\ bearer'[session[s].bearer].key = bearer[session[s].bearer].key
  <2>1. session[s].bearer \in Bearer
    BY <1>1, PresentRecords DEF SessionRecord
  <2>2. Present(bearer[session[s].bearer])
    BY <1>1, RecordsPresent DEF SessionsBacked
  <2> QED BY <2>1, <2>2 DEF BearersKept
<1>2. SessionsBacked'
  BY <1>1 DEF SessionsBacked
<1>3. NobodyElse'
  BY <1>1 DEF NobodyElse
<1>4. NothingOutlivesTheKey'
  BY <1>1 DEF NothingOutlivesTheKey
<1> QED BY <1>2, <1>3, <1>4

(* If no token is bought with a code, and no code comes back, what is      *)
(* known of the codes stays.                                               *)
LEMMA CodesKept ==
    ASSUME FedTypeOK, CodesSpent, CodeBuysOneToken,
           \A b \in Bearer : Present(bearer'[b]) /\ bearer'[b].code # NoCode =>
               Present(bearer[b]) /\ bearer'[b].code = bearer[b].code,
           \A k \in Code : code[k] = Lapsed => code'[k] = Lapsed
    PROVE  (CodesSpent /\ CodeBuysOneToken)'
<1>1. \A b \in Bearer : Present(bearer[b]) /\ bearer[b].code # NoCode => bearer[b].code \in Code
  BY PresentRecords DEF BearerRecord
<1>2. CodesSpent'
  BY <1>1 DEF CodesSpent
<1>3. CodeBuysOneToken'
  BY DEF CodeBuysOneToken
<1> QED BY <1>2, <1>3

(* A token that was not there is made, and no other changes.               *)
LEMMA BearerFacts ==
    ASSUME FedTypeOK, NEW b \in Bearer, NEW new \in BearerRecord, bearer[b] = NotIssued,
           bearer' = [bearer EXCEPT ![b] = new]
    PROVE  /\ bearer' \in [Bearer -> BearerRecord \cup {NotIssued}]
           /\ ~Present(bearer[b]) /\ bearer'[b] = new
           /\ \A d \in Bearer : d # b => bearer'[d] = bearer[d]
           /\ BearersKept
<1>1. ~Present(bearer[b])
  BY DEF Present
<1>2. bearer' \in [Bearer -> BearerRecord \cup {NotIssued}] /\ bearer'[b] = new
          /\ \A d \in Bearer : d # b => bearer'[d] = bearer[d]
  BY DEF FedTypeOK
<1>3. BearersKept
  BY <1>1, <1>2, PresentRecords DEF BearersKept
<1> QED BY <1>1, <1>2, <1>3

LEMMA IssueFacts ==
    ASSUME FedTypeOK, NEW b \in Bearer, NEW c \in Client, NEW u \in User,
           NEW k \in Code \cup {NoCode}, IssueAccessToken(b, c, u, k)
    PROVE  /\ bearer' \in [Bearer -> BearerRecord \cup {NotIssued}]
           /\ ~Present(bearer[b]) /\ bearer'[b].code = k /\ bearer'[b].key \notin Issuer
           /\ \A d \in Bearer : d # b => bearer'[d] = bearer[d]
           /\ BearersKept
<1> DEFINE new == NewBearer(c, u, k, run, FALSE)
<1>1. run \in (0..MaxRun) \cup Issuer /\ run \notin Issuer
  BY FederationAssumption DEF FedTypeOK, FederationAssumption
<1>2. new \in BearerRecord /\ new.code = k /\ new.key = run
  <2>1. \A x \in BOOLEAN : /\ NewBearer(c, u, k, run, x) \in BearerRecord
                           /\ NewBearer(c, u, k, run, x).code = k
                           /\ NewBearer(c, u, k, run, x).key = run
    BY <1>1, BearerMade
  <2> QED BY <2>1
<1>3. bearer[b] = NotIssued /\ bearer' = [bearer EXCEPT ![b] = new]
  BY DEF IssueAccessToken
<1> HIDE DEF new
<1> QED BY <1>1, <1>2, <1>3, BearerFacts

(* Issuing a token changes tokens only.                                    *)
LEMMA IssueFrame ==
    ASSUME NEW b, NEW c, NEW u, NEW k, IssueAccessToken(b, c, u, k)
    PROVE  /\ UNCHANGED <<run, provider, protocol, mapping, account, group, session>>
  BY DEF IssueAccessToken, keystone

(* A token that no code bought.                                            *)
LEMMA TokenWithoutCode ==
    ASSUME FedIInv, NEW b \in Bearer,
           bearer' \in [Bearer -> BearerRecord \cup {NotIssued}],
           ~Present(bearer[b]), bearer'[b].code = NoCode,
           bearer'[b].key \in Issuer => bearer'[b].user \in Stranger,
           \A d \in Bearer : d # b => bearer'[d] = bearer[d], BearersKept,
           UNCHANGED <<run, provider, protocol, mapping, account, group, session>>,
           code' = code, known' \subseteq User
    PROVE  FedIInv'
<1>1. /\ bearer' \in [Bearer -> BearerRecord \cup {NotIssued}]
      /\ ~Present(bearer[b]) /\ bearer'[b].code = NoCode
      /\ \A d \in Bearer : d # b => bearer'[d] = bearer[d]
      /\ BearersKept
  OBVIOUS
<1>2. UNCHANGED <<run, provider, protocol, mapping, account, group, session>>
  OBVIOUS
<1>3. FedTypeOK'
  BY <1>1, <1>2 DEF FedTypeOK, FedIInv
<1>31. StrangersAbroad'
  BY <1>1, StrangersKept DEF FedIInv
<1>4. (SessionsBacked /\ NobodyElse /\ NothingOutlivesTheKey)'
  BY <1>1, <1>2, SessionsKept DEF FedIInv
<1>5. (CodesSpent /\ CodeBuysOneToken)'
  <2>1. \A d \in Bearer : Present(bearer'[d]) /\ bearer'[d].code # NoCode =>
            Present(bearer[d]) /\ bearer'[d].code = bearer[d].code
    BY <1>1
  <2> QED BY <2>1, CodesKept DEF FedIInv
<1> QED BY <1>3, <1>31, <1>4, <1>5 DEF FedIInv

LEMMA IssueWithoutCode ==
    ASSUME FedIInv, NEW b \in Bearer, NEW c \in Client, NEW u \in User,
           IssueAccessToken(b, c, u, NoCode), code' = code, known' \subseteq User
    PROVE  FedIInv'
  BY IssueFacts, IssueFrame, TokenWithoutCode DEF FedIInv

(* An external provider's token came by no code of this process.           *)
LEMMA TokensFromAbroadKeep ==
    ASSUME FedIInv, TokensFromAbroad
    PROVE  FedIInv'
<1>1. PICK b \in Bearer, c \in Client, u \in Stranger :
          /\ bearer[b] = NotIssued
          /\ bearer' = [bearer EXCEPT ![b] = NewBearer(c, u, NoCode, IssuerOf[u], FALSE)]
  BY DEF TokensFromAbroad
<1> DEFINE new == NewBearer(c, u, NoCode, IssuerOf[u], FALSE)
<1>2. new \in BearerRecord /\ new.code = NoCode /\ new.user = u
  <2>1. ASSUME NEW key \in (0..MaxRun) \cup Issuer
        PROVE  \A x \in BOOLEAN : /\ NewBearer(c, u, NoCode, key, x) \in BearerRecord
                                  /\ NewBearer(c, u, NoCode, key, x).code = NoCode
                                  /\ NewBearer(c, u, NoCode, key, x).user = u
    <3>1. NoCode \in Code \cup {NoCode} /\ u \in User \cup Stranger
      OBVIOUS
    <3> QED BY <3>1, BearerMade
  <2>2. IssuerOf[u] \in (0..MaxRun) \cup Issuer
    BY FederationAssumption DEF FederationAssumption
  <2> QED BY <2>1, <2>2
<1>21. bearer' = [bearer EXCEPT ![b] = new]
  BY <1>1
<1> HIDE DEF new
<1>3. /\ bearer' \in [Bearer -> BearerRecord \cup {NotIssued}]
      /\ ~Present(bearer[b]) /\ bearer'[b].code = NoCode /\ bearer'[b].user \in Stranger
      /\ \A d \in Bearer : d # b => bearer'[d] = bearer[d]
      /\ BearersKept
  BY <1>1, <1>2, <1>21, BearerFacts DEF FedIInv
<1>4. UNCHANGED <<known, code, run, provider, protocol, mapping, account, group, session>>
  BY DEF TokensFromAbroad, keystone
<1> QED BY <1>3, <1>4, TokenWithoutCode DEF FedIInv, FedTypeOK

(* A code is spent: with luck, on a token.                                 *)
LEMMA CodeGrantKeeps ==
    ASSUME FedIInv, NEW b \in Bearer, NEW c \in Client, NEW k \in Code,
           NEW redirected \in BOOLEAN, AuthorizationCodeGrant(b, c, k, redirected)
    PROVE  FedIInv'
<1>1. Present(code[k]) /\ code' = [code EXCEPT ![k] = Lapsed] /\ known' = known
  BY DEF AuthorizationCodeGrant, ConsumeOidcCode
<1>2. /\ code' \in [Code -> CodeRecord \cup {NotIssued, Lapsed}]
      /\ code'[k] = Lapsed
      /\ \A j \in Code : code[j] = Lapsed => code'[j] = Lapsed
  BY <1>1 DEF FedIInv, FedTypeOK
<1>3. code[k] # Lapsed /\ k # NoCode
  BY <1>1, FederationAssumption DEF FederationAssumption, Present
<1>4. CASE ~code[k].expired /\ code[k].client = c /\ ~redirected /\ code[k].user \in known
  <2>1. IssueAccessToken(b, c, code[k].user, k) /\ code[k].user \in User
    BY <1>4 DEF AuthorizationCodeGrant, FedIInv, FedTypeOK
  <2>2. /\ bearer' \in [Bearer -> BearerRecord \cup {NotIssued}]
        /\ ~Present(bearer[b]) /\ bearer'[b].code = k /\ bearer'[b].key \notin Issuer
        /\ \A d \in Bearer : d # b => bearer'[d] = bearer[d]
        /\ BearersKept
    BY <2>1, IssueFacts DEF FedIInv
  <2>3. UNCHANGED <<run, provider, protocol, mapping, account, group, session>>
    BY <2>1, IssueFrame
  <2>4. FedTypeOK' /\ StrangersAbroad'
    <3>1. FedTypeOK'
      BY <1>1, <1>2, <2>2, <2>3 DEF FedTypeOK, FedIInv
    <3>2. StrangersAbroad'
      BY <2>2, StrangersKept DEF FedIInv
    <3> QED BY <3>1, <3>2
  <2>5. (SessionsBacked /\ NobodyElse /\ NothingOutlivesTheKey)'
    BY <2>2, <2>3, SessionsKept DEF FedIInv
  <2>6. \A d \in Bearer : Present(bearer[d]) => bearer[d].code # k
    BY <1>3 DEF FedIInv, CodesSpent
  <2>7. CodesSpent'
    <3> SUFFICES ASSUME NEW d \in Bearer, Present(bearer'[d]), bearer'[d].code # NoCode
                 PROVE  code'[bearer'[d].code] = Lapsed
      BY DEF CodesSpent
    <3>1. CASE d = b
      BY <1>2, <2>2, <3>1
    <3>2. CASE d # b
      <4>1. Present(bearer[d]) /\ bearer'[d] = bearer[d]
        BY <2>2, <3>2
      <4>2. bearer[d].code \in Code
        BY <4>1, PresentRecords DEF BearerRecord, FedIInv
      <4>3. code[bearer[d].code] = Lapsed
        BY <4>1 DEF FedIInv, CodesSpent
      <4> QED BY <1>2, <4>1, <4>2, <4>3
    <3> QED BY <3>1, <3>2
  <2>8. CodeBuysOneToken'
    <3> SUFFICES ASSUME NEW d \in Bearer, NEW e \in Bearer, Present(bearer'[d]),
                        Present(bearer'[e]), bearer'[d].code = bearer'[e].code,
                        d # e
                 PROVE  bearer'[d].code = NoCode
      BY DEF CodeBuysOneToken
    <3>1. CASE d = b \/ e = b
      BY <2>2, <2>6, <3>1
    <3>2. CASE d # b /\ e # b
      BY <2>2, <3>2 DEF FedIInv, CodeBuysOneToken
    <3> QED BY <3>1, <3>2
  <2> QED BY <2>4, <2>5, <2>7, <2>8 DEF FedIInv
<1>5. CASE ~(~code[k].expired /\ code[k].client = c /\ ~redirected
              /\ code[k].user \in known)
  <2>1. UNCHANGED <<bearer, run, provider, protocol, mapping, account, group, session>>
    BY <1>5 DEF AuthorizationCodeGrant, keystone
  <2>2. FedTypeOK' /\ StrangersAbroad'
    BY <1>1, <1>2, <2>1 DEF FedTypeOK, FedIInv, StrangersAbroad
  <2>3. BearersKept
    BY <2>1, PresentRecords DEF BearersKept, FedIInv
  <2>4. (SessionsBacked /\ NobodyElse /\ NothingOutlivesTheKey)'
    BY <2>1, <2>3, SessionsKept DEF FedIInv
  <2>5. (CodesSpent /\ CodeBuysOneToken)'
    BY <1>2, <2>1, CodesKept DEF FedIInv
  <2> QED BY <2>2, <2>4, <2>5 DEF FedIInv
<1> QED BY <1>4, <1>5

(* The requests for tokens.                                                *)
LEMMA OidcTokenRequestsKeep ==
    ASSUME FedIInv, OidcTokenRequests
    PROVE  FedIInv'
<1>1. PICK b \in Bearer, c \in Client :
          \/ \E u \in User : PasswordGrant(b, c, u)
          \/ ClientCredentialsGrant(b, c)
          \/ \E k \in Code, redirected \in BOOLEAN :
                 AuthorizationCodeGrant(b, c, k, redirected)
          \/ \E old \in Bearer : RefreshTokenGrant(b, c, old)
  BY DEF OidcTokenRequests
<1>2. known \subseteq User /\ c \in User
  BY DEF FedIInv, FedTypeOK, User
<1>3. ASSUME NEW u \in User, PasswordGrant(b, c, u) PROVE FedIInv'
  <2>1. IssueAccessToken(b, c, u, NoCode) /\ code' = code /\ known' \subseteq User
    BY <1>2, <1>3 DEF PasswordGrant
  <2> QED BY <2>1, IssueWithoutCode
<1>4. ASSUME ClientCredentialsGrant(b, c) PROVE FedIInv'
  <2>1. IssueAccessToken(b, c, c, NoCode) /\ code' = code /\ known' \subseteq User
    BY <1>2, <1>4 DEF ClientCredentialsGrant
  <2> QED BY <1>2, <2>1, IssueWithoutCode
<1>5. ASSUME NEW k \in Code, NEW redirected \in BOOLEAN,
             AuthorizationCodeGrant(b, c, k, redirected)
      PROVE  FedIInv'
  BY <1>5, CodeGrantKeeps
<1>6. ASSUME NEW old \in Bearer, RefreshTokenGrant(b, c, old) PROVE FedIInv'
  <2> DEFINE u == bearer[old].user
  <2>1. IssueAccessToken(b, c, u, NoCode) /\ code' = code /\ known' \subseteq User /\ u \in User
    BY <1>2, <1>6 DEF RefreshTokenGrant
  <2> HIDE DEF u
  <2> QED BY <2>1, IssueWithoutCode
<1> QED BY <1>1, <1>3, <1>4, <1>5, <1>6

(* A code that is made was not there.                                      *)
LEMMA AuthorizeKeeps ==
    ASSUME FedIInv, NEW k \in Code, NEW c \in Client, NEW u \in User, Authorize(k, c, u)
    PROVE  FedIInv'
<1> DEFINE new == NewCode(c, u, FALSE)
<1>1. new \in CodeRecord
  <2>1. FALSE \in BOOLEAN
    OBVIOUS
  <2> QED BY <2>1, CodeMade
<1>2. code[k] = NotIssued /\ code' = [code EXCEPT ![k] = new]
  BY DEF Authorize
<1>3. UNCHANGED <<known, bearer, run, provider, protocol, mapping, account, group, session>>
  BY DEF Authorize, keystone
<1> HIDE DEF new
<1>4. /\ code' \in [Code -> CodeRecord \cup {NotIssued, Lapsed}]
      /\ \A j \in Code : code[j] = Lapsed => code'[j] = Lapsed
  BY <1>1, <1>2, FederationAssumption DEF FederationAssumption, FedIInv, FedTypeOK
<1>5. FedTypeOK' /\ StrangersAbroad'
  BY <1>3, <1>4 DEF FedTypeOK, FedIInv, StrangersAbroad
<1>6. BearersKept
  BY <1>3, PresentRecords DEF BearersKept, FedIInv
<1>7. (SessionsBacked /\ NobodyElse /\ NothingOutlivesTheKey)'
  BY <1>3, <1>6, SessionsKept DEF FedIInv
<1>8. (CodesSpent /\ CodeBuysOneToken)'
  BY <1>3, <1>4, CodesKept DEF FedIInv
<1> QED BY <1>5, <1>7, <1>8 DEF FedIInv

(* Codes and tokens that age are still whose they were.                    *)
LEMMA ExpireKeeps ==
    ASSUME FedIInv, Expire
    PROVE  FedIInv'
<1>1. ASSUME NEW k \in Code, Present(code[k]),
             code' = [code EXCEPT ![k] = NewCode(code[k].client, code[k].user, TRUE)],
             UNCHANGED <<known, bearer, run, provider, protocol, mapping, account, group, session>>
      PROVE  FedIInv'
  <2> DEFINE new == NewCode(code[k].client, code[k].user, TRUE)
  <2>1. new \in CodeRecord
    <3>1. code[k].client \in Client /\ code[k].user \in User
      BY <1>1, PresentRecords DEF FedIInv, CodeRecord
    <3>2. \A x \in BOOLEAN : NewCode(code[k].client, code[k].user, x) \in CodeRecord
      BY <3>1, CodeMade
    <3> QED BY <3>2
  <2>2. code' = [code EXCEPT ![k] = new]
    BY <1>1
  <2> HIDE DEF new
  <2>3. /\ code' \in [Code -> CodeRecord \cup {NotIssued, Lapsed}]
        /\ \A j \in Code : code[j] = Lapsed => code'[j] = Lapsed
    BY <1>1, <2>1, <2>2 DEF FedIInv, FedTypeOK, Present
  <2>4. FedTypeOK' /\ StrangersAbroad'
    BY <1>1, <2>3 DEF FedTypeOK, FedIInv, StrangersAbroad
  <2>5. BearersKept
    BY <1>1, PresentRecords DEF BearersKept, FedIInv
  <2>6. (SessionsBacked /\ NobodyElse /\ NothingOutlivesTheKey)'
    BY <1>1, <2>5, SessionsKept DEF FedIInv
  <2>7. (CodesSpent /\ CodeBuysOneToken)'
    BY <1>1, <2>3, CodesKept DEF FedIInv
  <2> QED BY <2>4, <2>6, <2>7 DEF FedIInv
<1>2. ASSUME NEW b \in Bearer, Present(bearer[b]),
             bearer' = [bearer EXCEPT ![b] =
                 NewBearer(bearer[b].client, bearer[b].user, bearer[b].code,
                           bearer[b].key, TRUE)],
             UNCHANGED <<known, code, run, provider, protocol, mapping, account, group, session>>
      PROVE  FedIInv'
  <2> DEFINE new == NewBearer(bearer[b].client, bearer[b].user, bearer[b].code,
                              bearer[b].key, TRUE)
  <2>1. /\ new \in BearerRecord /\ new.user = bearer[b].user
        /\ new.code = bearer[b].code /\ new.key = bearer[b].key
    <3>1. /\ bearer[b].client \in Client /\ bearer[b].user \in User \cup Stranger
          /\ bearer[b].code \in Code \cup {NoCode} /\ bearer[b].key \in (0..MaxRun) \cup Issuer
      BY <1>2, PresentRecords DEF FedIInv, BearerRecord
    <3> DEFINE aged(x) == NewBearer(bearer[b].client, bearer[b].user, bearer[b].code,
                                    bearer[b].key, x)
    <3>2. \A x \in BOOLEAN : /\ aged(x) \in BearerRecord /\ aged(x).user = bearer[b].user
                             /\ aged(x).code = bearer[b].code /\ aged(x).key = bearer[b].key
      BY <3>1, BearerMade
    <3> QED BY <3>2
  <2>2. bearer' = [bearer EXCEPT ![b] = new]
    BY <1>2
  <2> HIDE DEF new
  <2>3. /\ bearer' \in [Bearer -> BearerRecord \cup {NotIssued}]
        /\ bearer'[b] = new /\ \A d \in Bearer : d # b => bearer'[d] = bearer[d]
    BY <2>1, <2>2 DEF FedIInv, FedTypeOK
  <2>4. FedTypeOK'
    BY <1>2, <2>3 DEF FedTypeOK, FedIInv
  <2>5. BearersKept
    BY <2>1, <2>3, PresentRecords DEF BearersKept, FedIInv
  <2>6. (SessionsBacked /\ NobodyElse /\ NothingOutlivesTheKey)'
    BY <1>2, <2>5, SessionsKept DEF FedIInv
  <2>61. StrangersAbroad'
    BY <1>2, <2>3, <2>5, StrangersKept DEF FedIInv
  <2>7. \A d \in Bearer : Present(bearer'[d]) /\ bearer'[d].code # NoCode =>
            Present(bearer[d]) /\ bearer'[d].code = bearer[d].code
    BY <1>2, <2>1, <2>3
  <2>8. (CodesSpent /\ CodeBuysOneToken)'
    BY <1>2, <2>7, CodesKept DEF FedIInv
  <2> QED BY <2>4, <2>6, <2>61, <2>8 DEF FedIInv
<1> QED BY <1>1, <1>2 DEF Expire, keystone

(* What only changes Keystone's configuration, accounts and groups keeps   *)
(* all.                                                                    *)
LEMMA ConfigurationKeeps ==
    ASSUME FedIInv, UNCHANGED <<known, code, bearer, run, session>>,
           provider' \in [Idp -> ProviderRecord \cup {Absent}],
           protocol' \in [Idp -> [Protocol -> Mapping \cup {Absent}]],
           mapping' \in [Mapping -> Rules \cup {Absent}],
           account' \subseteq Value \cup {OddName}, group' \subseteq Value
    PROVE  FedIInv'
<1>1. FedTypeOK' /\ StrangersAbroad'
  BY DEF FedTypeOK, FedIInv, StrangersAbroad
<1>2. BearersKept
  BY PresentRecords DEF BearersKept, FedIInv
<1>3. (SessionsBacked /\ NobodyElse /\ NothingOutlivesTheKey)'
  BY <1>2, SessionsKept DEF FedIInv
<1>4. (CodesSpent /\ CodeBuysOneToken)'
  BY CodesKept DEF FedIInv
<1> QED BY <1>1, <1>3, <1>4 DEF FedIInv

LEMMA ProviderRequestsKeep ==
    ASSUME FedIInv, ProviderRequests
    PROVE  FedIInv'
<1>1. PICK i \in Idp, x \in ProviderRecord \cup {Absent} : ProviderBecomes(i, x)
  BY DEF ProviderRequests, CreateIdentityProvider, UpdateIdentityProvider,
         DeleteIdentityProvider
<1>2. provider' \in [Idp -> ProviderRecord \cup {Absent}]
  BY <1>1 DEF ProviderBecomes, FedIInv, FedTypeOK
<1> QED BY <1>1, <1>2, ConfigurationKeeps
        DEF ProviderBecomes, oidc, FedIInv, FedTypeOK

LEMMA MappingRequestsKeep ==
    ASSUME FedIInv, MappingRequests
    PROVE  FedIInv'
<1>1. PICK m \in Mapping, x \in Rules \cup {Absent} : MappingBecomes(m, x)
  BY DEF MappingRequests, CreateFederationMapping, UpdateFederationMapping,
         DeleteFederationMapping
<1>2. mapping' \in [Mapping -> Rules \cup {Absent}]
  BY <1>1 DEF MappingBecomes, FedIInv, FedTypeOK
<1> QED BY <1>1, <1>2, ConfigurationKeeps
        DEF MappingBecomes, oidc, FedIInv, FedTypeOK

LEMMA ProtocolRequestsKeep ==
    ASSUME FedIInv, ProtocolRequests
    PROVE  FedIInv'
<1>1. PICK i \in Idp, q \in Protocol, x \in Mapping \cup {Absent} : ProtocolBecomes(i, q, x)
  BY DEF ProtocolRequests, CreateFederationProtocol, UpdateFederationProtocol,
         DeleteFederationProtocol
<1>2. protocol' \in [Idp -> [Protocol -> Mapping \cup {Absent}]]
  BY <1>1 DEF ProtocolBecomes, FedIInv, FedTypeOK
<1> QED BY <1>1, <1>2, ConfigurationKeeps
        DEF ProtocolBecomes, oidc, FedIInv, FedTypeOK

LEMMA AccountRequestsKeep ==
    ASSUME FedIInv, AccountRequests
    PROVE  FedIInv'
<1>1. account' \subseteq Value \cup {OddName} /\ group' \subseteq Value
  BY DEF AccountRequests, FedIInv, FedTypeOK
<1>2. UNCHANGED <<known, code, bearer, run, session, provider, protocol, mapping>>
  BY DEF AccountRequests, oidc, keystone
<1> QED BY <1>1, <1>2, ConfigurationKeeps DEF FedIInv, FedTypeOK

(* A session that is opened is its token's person, and its token is this   *)
(* start's.                                                                *)
LEMMA LoginsKeep ==
    ASSUME FedIInv, Logins
    PROVE  FedIInv'
<1>1. PICK s \in Session, i \in Idp, q \in Protocol, b \in Bearer : FederatedAuth(s, i, q, b)
  BY DEF Logins
<1> DEFINE rules == mapping[protocol[i][q]]
           u == bearer[b].user
           asserted == ClaimsOf(u)
           n == MappedName(rules, asserted)
           gs == ResolvedGroups(MappedGroups(rules, asserted))
           new == NewSession(n, gs, i, q, b)
<1>2. rules \in Rules
  <2>1. protocol[i][q] \in Mapping
    BY <1>1 DEF FederatedAuth, FedIInv, FedTypeOK
  <2> QED BY <1>1, <2>1 DEF FederatedAuth, FedIInv, FedTypeOK
<1>3. /\ session' = [session EXCEPT ![s] = new]
      /\ account' = account \cup {n}
      /\ Mappable(rules, asserted) /\ WithUser(rules, asserted) # {}
  BY <1>1 DEF FederatedAuth
<1>4. UNCHANGED <<known, code, bearer, run, provider, protocol, mapping, group>>
  BY <1>1 DEF FederatedAuth, oidc, keystone
<1>5. Present(bearer[b]) /\ bearer[b] \in BearerRecord
  BY <1>1, PresentRecords DEF FederatedAuth, ValidBearer, Valid, FedIInv
<1>51. bearer[b].key = run \/ (bearer[b].key \in Issuer /\ bearer[b].user \in Stranger)
  <2>1. provider[i] \in ProviderRecord
    BY <1>1 DEF FederatedAuth, FedIInv, FedTypeOK
  <2>2. bearer[b].key = run \/ bearer[b].key \in provider[i].remote_ids
    BY <1>1 DEF FederatedAuth, ValidBearer, Valid
  <2>3. bearer[b].key \in Issuer => bearer[b].user \in Stranger
    BY <1>5 DEF FedIInv, StrangersAbroad
  <2> QED BY <2>1, <2>2, <2>3 DEF ProviderRecord
<1> HIDE DEF rules
<1>6. n \in Said(asserted) \cup {OddName}
      /\ MappedGroups(rules, asserted) \subseteq Said(asserted) \cup {OddName}
  BY <1>2, <1>3, MappedSaid
<1>7. gs \subseteq Said(asserted) \cup {OddName} /\ gs \in SUBSET Value
  BY <1>6 DEF ResolvedGroups, FedIInv, FedTypeOK
<1>8. n \in Value \cup {OddName}
  BY <1>6, ClaimsSayValues
<1> HIDE DEF n, gs
<1>9. new \in SessionRecord /\ new.account = n /\ new.groups = gs /\ new.bearer = b
  BY <1>7, <1>8, SessionMade
<1> HIDE DEF new
<1>10. /\ session' \in [Session -> SessionRecord \cup {NotIssued, Lapsed}]
       /\ session'[s] = new /\ \A t \in Session : t # s => session'[t] = session[t]
  BY <1>3, <1>9 DEF FedIInv, FedTypeOK
<1>11. FedTypeOK' /\ StrangersAbroad'
  BY <1>3, <1>4, <1>8, <1>10 DEF FedTypeOK, FedIInv, StrangersAbroad
<1>12. SessionsBacked'
  BY <1>4, <1>5, <1>9, <1>10 DEF SessionsBacked, FedIInv
<1>13. NothingOutlivesTheKey'
  BY <1>4, <1>51, <1>9, <1>10 DEF NothingOutlivesTheKey, FedIInv
<1>14. NobodyElse'
  <2>1. {new.account} \cup new.groups \subseteq
            {OddName} \cup UNION {ClaimsOf(bearer[new.bearer].user)[c].values : c \in Claim}
    BY <1>6, <1>7, <1>9 DEF Said
  <2> HIDE DEF asserted
  <2> QED BY <1>4, <1>10, <2>1 DEF NobodyElse, FedIInv
<1>15. (CodesSpent /\ CodeBuysOneToken)'
  BY <1>4, CodesKept DEF FedIInv
<1> QED BY <1>11, <1>12, <1>13, <1>14, <1>15 DEF FedIInv

(* A new process has no codes and no sessions.                             *)
LEMMA FedRestartKeeps ==
    ASSUME FedIInv, FedRestart
    PROVE  FedIInv'
<1>1. UNCHANGED <<known, bearer, provider, protocol, mapping, account, group>>
      /\ run' \in 0..MaxRun
  BY FederationAssumption
     DEF FedRestart, keystone, FedIInv, FedTypeOK, FederationAssumption
<1>2. /\ code' \in [Code -> {NotIssued, Lapsed}]
      /\ \A k \in Code : code[k] = Lapsed => code'[k] = Lapsed
  BY FederationAssumption DEF FederationAssumption, FedRestart
<1>3. /\ session' \in [Session -> {NotIssued, Lapsed}]
      /\ \A s \in Session : ~Present(session'[s])
  BY DEF FedRestart, Present
<1>4. FedTypeOK' /\ StrangersAbroad'
  BY <1>1, <1>2, <1>3 DEF FedTypeOK, FedIInv, StrangersAbroad
<1>5. (SessionsBacked /\ NobodyElse /\ NothingOutlivesTheKey)'
  BY <1>3 DEF SessionsBacked, NobodyElse, NothingOutlivesTheKey
<1>6. (CodesSpent /\ CodeBuysOneToken)'
  BY <1>1, <1>2, CodesKept DEF FedIInv
<1> QED BY <1>4, <1>5, <1>6 DEF FedIInv

(* The invariant holds at the start, and every step keeps it.              *)
LEMMA FedInitially == FedInit => FedIInv
<1> SUFFICES ASSUME FedInit PROVE FedIInv
  OBVIOUS
<1>1. /\ \A b \in Bearer : ~Present(bearer[b])
      /\ \A s \in Session : ~Present(session[s])
  BY DEF FedInit, Present
<1>2. FedTypeOK
  BY FederationAssumption DEF FedInit, FedTypeOK, FederationAssumption, User
<1> QED BY <1>1, <1>2 DEF FedIInv, StrangersAbroad, SessionsBacked, CodesSpent, CodeBuysOneToken,
                          NobodyElse, NothingOutlivesTheKey

LEMMA FedStep == FedIInv /\ [FedNext]_fedVars => FedIInv'
<1> SUFFICES ASSUME FedIInv, [FedNext]_fedVars PROVE FedIInv'
  OBVIOUS
<1>1. CASE OidcTokenRequests
  BY <1>1, OidcTokenRequestsKeep
<1>2. CASE AuthorizeRequests
  BY <1>2, AuthorizeKeeps DEF AuthorizeRequests
<1>3. CASE Expire
  BY <1>3, ExpireKeeps
<1>31. CASE TokensFromAbroad
  BY <1>31, TokensFromAbroadKeep
<1>4. CASE ProviderRequests
  BY <1>4, ProviderRequestsKeep
<1>5. CASE MappingRequests
  BY <1>5, MappingRequestsKeep
<1>6. CASE ProtocolRequests
  BY <1>6, ProtocolRequestsKeep
<1>7. CASE AccountRequests
  BY <1>7, AccountRequestsKeep
<1>8. CASE Logins
  BY <1>8, LoginsKeep
<1>9. CASE FedRestart
  BY <1>9, FedRestartKeeps
<1>10. CASE UNCHANGED fedVars
  BY <1>10, ConfigurationKeeps DEF fedVars, FedIInv, FedTypeOK
<1> QED BY <1>1, <1>2, <1>3, <1>31, <1>4, <1>5, <1>6, <1>7, <1>8, <1>9, <1>10
        DEF FedNext

(* Every code, token and session is what it is declared to be; every       *)
(* session's token is there, and every code that bought a token is gone,   *)
(* whatever is configured, expires or is restarted (oidc.py, federation).  *)
THEOREM FedInvariance == FedSpec => []FedIInv
<1> QED BY FedInitially, FedStep, PTL DEF FedSpec

(* The stores of the provider and of Keystone's federation hold what they  *)
(* are declared to hold (OidcUser, FederationMapping).                     *)
THEOREM FedTypeCorrect == FedSpec => []FedTypeOK
<1>1. FedIInv => FedTypeOK
  BY DEF FedIInv
<1> QED BY <1>1, FedInvariance, PTL

(* A code buys one token at most, for any number of clients, codes, tokens *)
(* and restarts: taking the code out comes before every check of it        *)
(* (consume_oidc_code).                                                    *)
THEOREM CodesBuyOnce == FedSpec => []CodeBuysOneToken
<1>1. FedIInv => CodeBuysOneToken
  BY DEF FedIInv
<1> QED BY <1>1, FedInvariance, PTL

(* A session says of its person nothing that was not asserted of the       *)
(* person, whatever rules the mapping has: every positional match is part  *)
(* of a claim (process_rules, federated_auth).                             *)
THEOREM SessionsSayWhatWasAsserted == FedSpec => []NobodyElse
<1>1. FedIInv => NobodyElse
  BY DEF FedIInv
<1> QED BY <1>1, FedInvariance, PTL

(* Every session there is was opened with a token of this start's key, or  *)
(* of an external provider's and by a stranger, for any number of restarts *)
(* (validate_bearer_token, decode_access_token, docs/federation.md).       *)
THEOREM SessionsEndWithTheirKey == FedSpec => []NothingOutlivesTheKey
<1>1. FedIInv => NothingOutlivesTheKey
  BY DEF FedIInv
<1> QED BY <1>1, FedInvariance, PTL
=============================================================================
