------------------------------ MODULE Identity ------------------------------
(***************************************************************************)
(* Keystone: who there is, who was granted which role where, and the       *)
(* tokens and application credentials that follow from it.                 *)
(*                                                                         *)
(* A name stands for a name in a domain: every search for a user goes by   *)
(* both.  Two users may have one name; nothing forbids it.  Ids are uuids, *)
(* so that one that was taken back is never given again.                   *)
(*                                                                         *)
(* Every handler but those that authenticate wants a token that is         *)
(* accepted, of whoever it may be: roles are not looked at.                *)
(*                                                                         *)
(* The database is written to its file by the handlers of users, projects, *)
(* domains and roles.  Those of groups, memberships, assignments and       *)
(* application credentials write nothing: what they did is in the file     *)
(* once another request, of whatever service, saves.                       *)
(***************************************************************************)
EXTENDS Integers, FiniteSets

CONSTANTS
    Users, Groups, Projects, Domains, Roles,  \* Ids.
    Names,          \* User names, each in its domain.
    Tokens, Credentials,
    AdminUser, AdminName, AdminProject, AdminRole,  \* What a new database holds.
    Unborn, Live, Gone,       \* The life of an id.
    NoToken, NoCredential,
    Provisions                \* What mappings ask for: sets of pairs of a role and a project.

ASSUME IdentityAssumption ==
    /\ AdminUser \in Users /\ AdminName \in Names
    /\ AdminProject \in Projects /\ AdminRole \in Roles
    /\ {Unborn, Gone} \cap Names = {}
    /\ Unborn # Live /\ Live # Gone /\ Unborn # Gone
    /\ Users \cap Names = {}
    /\ Users \cap (Groups \cup Projects \cup Domains \cup Roles) = {}
    /\ Groups \cap (Projects \cup Domains \cup Roles) = {}
    /\ Projects \cap (Domains \cup Roles) = {}
    /\ Domains \cap Roles = {}
    /\ Provisions \subseteq SUBSET (Roles \X Projects)

VARIABLES
    user,        \* Per user: its name, or whether it is unborn or gone.
    life,        \* Whether a group, project, domain or role exists.
    members,     \* _group_memberships.
    grants,      \* _role_assignments: how often the list holds each.
    token,       \* _tokens.
    credential,  \* _application_credentials.
    file         \* What the last save wrote of these; no tokens.

stores == <<user, life, members, grants, file>>
vars == <<user, life, members, grants, token, credential, file>>

Things == Groups \cup Projects \cup Domains \cup Roles
Grants == Roles \X (Users \cup Groups) \X (Projects \cup Domains)

(* What token_id maps to.  An expired token is refused like one that is    *)
(* gone, so that it is modelled as gone; the scope and whether the login was *)
(* federated, which only go into the answer, are left out.  `origin' is    *)
(* not in the code: whom the chain of authentications that led here began  *)
(* with.                                                                   *)
NewToken(u, n, gs, origin) == [user |-> u, name |-> n, groups |-> gs, origin |-> origin]
TokenRecord ==
    [user : Users \cup Names, name : Names, groups : SUBSET Groups, origin : Users \cup Names]

(* An application credential, by its owner.  One made without roles is     *)
(* refused for ever and left out; the roles of the others only go into the *)
(* token.                                                                  *)
NewCredential(owner) == [owner |-> owner]
CredentialRecord == [owner : Users]

IsUser(u) == user[u] \in Names
LiveUsers == {u \in Users : IsUser(u)}
IsThere(x) == life[x] = Live

(* A request is answered if it shows a token that is accepted.             *)
Authorized == \E t \in Tokens : token[t] # NoToken

(* What a save writes.  Nothing but tokens is left out.                    *)
Snapshot ==
    [user |-> user, life |-> life, members |-> members, grants |-> grants,
     credential |-> credential]

(* The handler saves when it is done.                                      *)
Saved == file' = Snapshot'

(* The database was read from a file that holds what a new one does.       *)
Init ==
    /\ user = [u \in Users |-> IF u = AdminUser THEN AdminName ELSE Unborn]
    /\ life = [x \in Things |-> IF x \in {AdminProject, AdminRole} THEN Live ELSE Unborn]
    /\ members = [g \in Groups |-> {}]
    /\ grants = [g \in Grants |-> IF g = <<AdminRole, AdminUser, AdminProject>> THEN 1 ELSE 0]
    /\ token = [t \in Tokens |-> NoToken]
    /\ credential = [c \in Credentials |-> NoCredential]
    /\ file = Snapshot

(***************************************************************************)
(* Users, groups, projects, domains and roles.                             *)
(***************************************************************************)

(* What the list of assignments is left with when all that name x go.      *)
GrantsWithout(x) ==
    [g \in Grants |-> IF x \in {g[1], g[2], g[3]} THEN 0 ELSE grants[g]]

Create(x) ==
    /\ Authorized
    /\ life[x] = Unborn
    /\ life' = [life EXCEPT ![x] = Live]
    /\ UNCHANGED <<user, members, grants, token, credential>>
    /\ Saved

CreateDomain(d) == d \in Domains /\ Create(d)
CreateProject(p) == p \in Projects /\ Create(p)
CreateRole(r) == r \in Roles /\ Create(r)

(* The grants on a domain stay (and the default domain cannot go; it is    *)
(* not among Domains).                                                     *)
DeleteDomain(d) ==
    /\ Authorized
    /\ IsThere(d)
    /\ life' = [life EXCEPT ![d] = Gone]
    /\ UNCHANGED <<user, members, grants, token, credential>>
    /\ Saved

DeleteProject(p) ==
    /\ Authorized
    /\ IsThere(p)
    /\ life' = [life EXCEPT ![p] = Gone]
    /\ grants' = GrantsWithout(p)
    /\ UNCHANGED <<user, members, token, credential>>
    /\ Saved

(* Mutant: the deletion is not saved.                                      *)
DeleteRoleUnsaved(r) ==
    /\ Authorized
    /\ IsThere(r)
    /\ life' = [life EXCEPT ![r] = Gone]
    /\ grants' = GrantsWithout(r)
    /\ UNCHANGED <<user, members, token, credential, file>>

DeleteRole(r) ==
    /\ Authorized
    /\ IsThere(r)
    /\ life' = [life EXCEPT ![r] = Gone]
    /\ grants' = GrantsWithout(r)
    /\ UNCHANGED <<user, members, token, credential>>
    /\ Saved

CreateUser(u, n) ==
    /\ Authorized
    /\ user[u] = Unborn
    /\ user' = [user EXCEPT ![u] = n]
    /\ UNCHANGED <<life, members, grants, token, credential>>
    /\ Saved

UpdateUser(u, n) ==
    /\ Authorized
    /\ IsUser(u)
    /\ user' = [user EXCEPT ![u] = n]
    /\ UNCHANGED <<life, members, grants, token, credential>>
    /\ Saved

(* The user leaves its groups and loses its grants; its application        *)
(* credentials and tokens stay.                                            *)
DeleteUser(u) ==
    /\ Authorized
    /\ IsUser(u)
    /\ user' = [user EXCEPT ![u] = Gone]
    /\ members' = [g \in Groups |-> members[g] \ {u}]
    /\ grants' = GrantsWithout(u)
    /\ UNCHANGED <<life, token, credential>>
    /\ Saved

CreateGroup(g) ==
    /\ Authorized
    /\ life[g] = Unborn
    /\ life' = [life EXCEPT ![g] = Live]
    /\ members' = [members EXCEPT ![g] = {}]
    /\ UNCHANGED <<user, grants, token, credential, file>>

DeleteGroup(g) ==
    /\ Authorized
    /\ IsThere(g)
    /\ life' = [life EXCEPT ![g] = Gone]
    /\ members' = [members EXCEPT ![g] = {}]
    /\ grants' = GrantsWithout(g)
    /\ UNCHANGED <<user, token, credential, file>>

AddUserToGroup(u, g) ==
    /\ Authorized
    /\ IsThere(g) /\ IsUser(u)
    /\ members' = [members EXCEPT ![g] = @ \cup {u}]
    /\ UNCHANGED <<user, life, grants, token, credential, file>>

RemoveUserFromGroup(u, g) ==
    /\ Authorized
    /\ IsThere(g)
    /\ members' = [members EXCEPT ![g] = @ \ {u}]
    /\ UNCHANGED <<user, life, grants, token, credential, file>>

(***************************************************************************)
(* Role assignments.                                                       *)
(***************************************************************************)

ActorExists(a) == IF a \in Users THEN IsUser(a) ELSE IsThere(a)

(* Mutant: the list is appended to without a look at what it holds.        *)
AssignedAgain(asked) == [g \in Grants |-> IF g \in asked THEN grants[g] + 1 ELSE grants[g]]

(* Assigning what is assigned already leaves the list as it is.            *)
Assigned(asked) == [g \in Grants |-> IF g \in asked /\ grants[g] = 0 THEN 1 ELSE grants[g]]

AssignRole(r, a, x) ==
    /\ Authorized
    /\ IsThere(x) /\ ActorExists(a) /\ IsThere(r)
    /\ grants' = Assigned({<<r, a, x>>})
    /\ UNCHANGED <<user, life, members, token, credential, file>>

(* The first assignment in the list that matches is deleted.  Neither this *)
(* nor an assignment is saved.                                             *)
RevokeRole(r, a, x) ==
    /\ Authorized
    /\ grants[<<r, a, x>>] > 0
    /\ grants' = [grants EXCEPT ![<<r, a, x>>] = @ - 1]
    /\ UNCHANGED <<user, life, members, token, credential, file>>

(* The roles of a user on a project, its own and those of its groups.      *)
RolesOnProject(u, p) ==
    {r \in Roles : /\ IsThere(r)
                   /\ \/ u \in Users /\ grants[<<r, u, p>>] > 0
                      \/ \E g \in Groups : u \in members[g] /\ grants[<<r, g, p>>] > 0}

(***************************************************************************)
(* Tokens and application credentials.                                     *)
(***************************************************************************)

UsersNamed(n) == {u \in Users : user[u] = n}

(* Whom create_token takes the caller for: the user with that id, else one *)
(* of that name, else an identity made up from the name (an id of its own, *)
(* written here as the name).                                              *)
Resolved(id, n) ==
    IF id \in LiveUsers THEN {id} ELSE IF UsersNamed(n) # {} THEN UsersNamed(n) ELSE {n}

NameOf(u, n) == IF u \in LiveUsers THEN user[u] ELSE n

(* A name that no project has scopes to the seeded project's id, which is  *)
(* then just another project asked for by id.                              *)
AuthenticateByPassword(t, n, p) ==
    /\ token[t] = NoToken
    /\ \E u \in Resolved(NoToken, n) :
        /\ RolesOnProject(u, p) # {}
        /\ token' = [token EXCEPT ![t] = NewToken(u, NameOf(u, n), {}, u)]
    /\ UNCHANGED <<stores, credential>>

(* Mutant: the old token gives the name to look for, and no user.          *)
AuthenticateByTokensName(t, old, p) ==
    /\ token[t] = NoToken
    /\ token[old] # NoToken
    /\ \E u \in Resolved(NoToken, token[old].name) :
        /\ RolesOnProject(u, p) # {}
        /\ token' = [token EXCEPT ![t] = NewToken(u, NameOf(u, token[old].name),
                         token[old].groups, token[old].origin)]
    /\ UNCHANGED <<stores, credential>>

(* A token is traded for one with another scope: the user and where it     *)
(* came from are carried over.  A token that is not accepted counts for    *)
(* the password of `admin'.                                                *)
AuthenticateByToken(t, old, p) ==
    /\ token[t] = NoToken
    /\ token[old] # NoToken
    /\ \E u \in Resolved(token[old].user, token[old].name) :
        /\ RolesOnProject(u, p) # {}
        /\ token' = [token EXCEPT ![t] = NewToken(u, NameOf(u, token[old].name),
                         token[old].groups, token[old].origin)]
    /\ UNCHANGED <<stores, credential>>

(* The credential's own roles count, whatever the owner holds by now.  When *)
(* the owner is gone the name is `admin'.                                  *)
AuthenticateByCredential(t, c) ==
    /\ token[t] = NoToken
    /\ credential[c] # NoCredential
    /\ \E u \in Resolved(credential[c].owner, AdminName) :
        token' = [token EXCEPT ![t] =
                      NewToken(u, NameOf(u, AdminName), {}, credential[c].owner)]
    /\ UNCHANGED <<stores, credential>>

(* DELETE /v3/auth/tokens does not look at the caller's own token.         *)
RevokeToken(t) ==
    /\ token[t] # NoToken
    /\ token' = [token EXCEPT ![t] = NoToken]
    /\ UNCHANGED <<stores, credential>>

TokenExpires(t) ==
    /\ token[t] # NoToken
    /\ token' = [token EXCEPT ![t] = NoToken]
    /\ UNCHANGED <<stores, credential>>

(* Nobody looks whether the owner exists.  The id is a new one, also to    *)
(* the file; neither this nor the deletion is saved.                       *)
CreateApplicationCredential(c, owner) ==
    /\ Authorized
    /\ credential[c] = NoCredential /\ file.credential[c] = NoCredential
    /\ user[owner] # Unborn
    /\ credential' = [credential EXCEPT ![c] = NewCredential(owner)]
    /\ UNCHANGED <<stores, token>>

DeleteApplicationCredential(c) ==
    /\ Authorized
    /\ credential[c] # NoCredential
    /\ credential' = [credential EXCEPT ![c] = NoCredential]
    /\ UNCHANGED <<stores, token>>

(* The time is in the record, in the file as well.                         *)
CredentialExpires(c) ==
    /\ credential[c] # NoCredential \/ file.credential[c] # NoCredential
    /\ credential' = [credential EXCEPT ![c] = NoCredential]
    /\ file' = [file EXCEPT !.credential[c] = NoCredential]
    /\ UNCHANGED <<user, life, members, grants, token>>

(***************************************************************************)
(* A federated login.  The mapping has produced a user name, groups, and   *)
(* projects with the roles to assign there.  Users that must exist are     *)
(* `local'; `ephemeral' ones are created, and so are projects, but neither *)
(* groups nor roles.                                                       *)
(***************************************************************************)

MappedUser(n, ephemeral, u) ==
    \/ user[u] = n
    \/ ephemeral /\ UsersNamed(n) = {} /\ user[u] = Unborn

(* What the login leaves in the file.  Creating the user saves, and so does *)
(* creating each project; assigning does not, so that what was assigned by *)
(* the last creation, and that only, is written.                           *)
LoginSaved(u, wanted) ==
    LET created == {w[2] : w \in {v \in wanted : ~IsThere(v[2])}} IN
    IF created = {} /\ IsUser(u) THEN UNCHANGED file
    ELSE \E written \in SUBSET {g \in Grants : grants'[g] > grants[g]} :
            /\ created = {} => written = {}
            /\ created # {} => \E last \in created : \A g \in written : g[3] # last
            /\ file' = [Snapshot EXCEPT !.user = user', !.life = life',
                            !.grants = [g \in Grants |->
                                IF g \in written THEN grants'[g] ELSE grants[g]]]

(* Mutant: a role the mapping names is assigned whether or not it exists.  *)
FederatedLoginUnchecked(t, n, ephemeral, u, gs, wanted) ==
    /\ token[t] = NoToken
    /\ MappedUser(n, ephemeral, u)
    /\ \A w \in wanted : life[w[2]] # Gone
    /\ user' = [user EXCEPT ![u] = n]
    /\ life' = [x \in Things |-> IF \E w \in wanted : w[2] = x THEN Live ELSE life[x]]
    /\ grants' = Assigned({<<w[1], u, w[2]>> : w \in wanted})
    /\ token' = [token EXCEPT ![t] = NewToken(u, n, {g \in gs : IsThere(g)}, u)]
    /\ LoginSaved(u, wanted)
    /\ UNCHANGED <<members, credential>>

(* A crash in the middle leaves what a login for less, and a restart after *)
(* it, would have left.                                                    *)
FederatedLogin(t, n, ephemeral, u, gs, wanted) ==
    /\ token[t] = NoToken
    /\ MappedUser(n, ephemeral, u)
    /\ \A w \in wanted : life[w[2]] # Gone
    /\ user' = [user EXCEPT ![u] = n]
    /\ life' = [x \in Things |-> IF \E w \in wanted : w[2] = x THEN Live ELSE life[x]]
    /\ grants' = Assigned({<<w[1], u, w[2]>> : w \in {v \in wanted : IsThere(v[1])}})
    /\ token' = [token EXCEPT ![t] = NewToken(u, n, {g \in gs : IsThere(g)}, u)]
    /\ LoginSaved(u, wanted)
    /\ UNCHANGED <<members, credential>>

(* What GET /v3/OS-FEDERATION/projects lists: the projects on which the    *)
(* token's user, or a group the mapping gave it, was granted anything.     *)
ScopableProjects(tk) ==
    {p \in Projects : /\ IsThere(p)
                      /\ \E r \in Roles, a \in {tk.user} \cup tk.groups :
                             <<r, a, p>> \in Grants /\ grants[<<r, a, p>>] > 0}

(* A request of another service, or one that only renames, saves what     *)
(* there is.                                                               *)
SaveElsewhere ==
    /\ UNCHANGED <<user, life, members, grants, token, credential>>
    /\ Saved

(* The process stops, or dies, and comes back with what the file holds.  An *)
(* id given since is not given again.                                      *)
Restart ==
    /\ user' = file.user
    /\ life' = [x \in Things |->
                    IF file.life[x] = Unborn /\ life[x] # Unborn THEN Gone ELSE file.life[x]]
    /\ members' = file.members
    /\ grants' = file.grants
    /\ credential' = file.credential
    /\ token' = [t \in Tokens |-> NoToken]
    /\ UNCHANGED file

(***************************************************************************)
(* The requests, by the routes of the API.                                 *)
(***************************************************************************)

TokenRequests ==
    \E t \in Tokens :
        \/ \E n \in Names, p \in Projects : AuthenticateByPassword(t, n, p)
        \/ \E old \in Tokens, p \in Projects : AuthenticateByToken(t, old, p)
        \/ \E c \in Credentials : AuthenticateByCredential(t, c)
        \/ RevokeToken(t)

DomainRequests == \E d \in Domains : CreateDomain(d) \/ DeleteDomain(d)

ProjectRequests == \E p \in Projects : CreateProject(p) \/ DeleteProject(p)

UserRequests ==
    \E u \in Users :
        \/ \E n \in Names : CreateUser(u, n) \/ UpdateUser(u, n)
        \/ DeleteUser(u)

RoleRequests == \E r \in Roles : CreateRole(r) \/ DeleteRole(r)

UserAssignmentRequests ==
    \E r \in Roles, u \in Users, x \in Projects \cup Domains :
        AssignRole(r, u, x) \/ RevokeRole(r, u, x)

GroupAssignmentRequests ==
    \E r \in Roles, g \in Groups, x \in Projects \cup Domains :
        AssignRole(r, g, x) \/ RevokeRole(r, g, x)

GroupRequests ==
    \E g \in Groups :
        \/ CreateGroup(g)
        \/ DeleteGroup(g)
        \/ \E u \in Users : AddUserToGroup(u, g) \/ RemoveUserFromGroup(u, g)

CredentialRequests ==
    \E c \in Credentials :
        \/ \E u \in Users : CreateApplicationCredential(c, u)
        \/ DeleteApplicationCredential(c)

FederatedRequests ==
    \E t \in Tokens, n \in Names, ephemeral \in BOOLEAN, u \in Users, gs \in SUBSET Groups,
       wanted \in Provisions :
        FederatedLogin(t, n, ephemeral, u, gs, wanted)

Expiry ==
    \/ \E t \in Tokens : TokenExpires(t)
    \/ \E c \in Credentials : CredentialExpires(c)

Next ==
    \/ TokenRequests
    \/ DomainRequests
    \/ ProjectRequests
    \/ UserRequests
    \/ RoleRequests
    \/ UserAssignmentRequests
    \/ GroupAssignmentRequests
    \/ GroupRequests
    \/ CredentialRequests
    \/ FederatedRequests
    \/ Expiry
    \/ SaveElsewhere
    \/ Restart

Spec == Init /\ [][Next]_vars

(***************************************************************************)
(* Properties.                                                             *)
(***************************************************************************)

(* The stores hold what they are declared to hold, and the list of         *)
(* assignments holds none twice: one revocation takes a role away.         *)
MemoryTypeOK ==
    /\ user \in [Users -> Names \cup {Unborn, Gone}]
    /\ life \in [Things -> {Unborn, Live, Gone}]
    /\ members \in [Groups -> SUBSET Users]
    /\ grants \in [Grants -> 0..1]
    /\ token \in [Tokens -> TokenRecord \cup {NoToken}]
    /\ credential \in [Credentials -> CredentialRecord \cup {NoCredential}]

FileRecord ==
    [user : [Users -> Names \cup {Unborn, Gone}],
     life : [Things -> {Unborn, Live, Gone}],
     members : [Groups -> SUBSET Users],
     grants : [Grants -> 0..1],
     credential : [Credentials -> CredentialRecord \cup {NoCredential}]]

TypeOK == MemoryTypeOK /\ file \in FileRecord

(* Every assignment names a user or group, a role and a project that       *)
(* exist, and groups have members that exist: four kinds of deletion, the  *)
(* routes that assign and the projects a login provisions agree on it      *)
(* (delete_user, delete_group, delete_project, delete_role).  The grants   *)
(* on a domain outlive it.                                                 *)
GrantsRefer ==
    /\ \A g \in Grants : grants[g] > 0 =>
           /\ IsThere(g[1]) /\ ActorExists(g[2])
           /\ g[3] \in Projects => IsThere(g[3])
    /\ \A g \in Groups : members[g] \subseteq LiveUsers
    /\ \A g \in Groups : members[g] # {} => IsThere(g)

(* However often a token is traded for another, it stays that of the user  *)
(* the first one was issued to, as long as that user exists: renaming, or  *)
(* another user of that name, does not lead a session to somebody else     *)
(* (create_token: the exact user is carried across the rescope).           *)
IdentityCarried ==
    \A t \in Tokens :
        token[t] # NoToken /\ token[t].origin \in LiveUsers => token[t].user = token[t].origin

(* The list of assignments is as good as a set that only an assignment or  *)
(* a login's mapping adds to, that loses one grant at a time, and all that *)
(* name what is deleted.  A restart leads back to what was saved: it may   *)
(* undo assignments, revocations and what became of groups, but a user,    *)
(* project, domain or role that was deleted stays away, and what it was    *)
(* granted with it (AccessGrants).                                         *)
KnownThings == LiveUsers \cup {x \in Things : IsThere(x)}
GrantsInForce == {g \in Grants : grants[g] > 0}

KnownToFile ==
    {u \in Users : file.user[u] \in Names} \cup {x \in Things : file.life[x] = Live}
GrantsInFile == {g \in Grants : file.grants[g] > 0}

Access == INSTANCE AccessGrants WITH
    Things <- Things \cup Users,
    Lasting <- Domains,
    Durable <- Users \cup Projects \cup Domains \cup Roles,
    known <- KnownThings,
    granted <- GrantsInForce,
    recorded <- [known |-> KnownToFile, granted |-> GrantsInFile]

AccessIsASet == Access!Spec

(* The projects that GET /v3/OS-FEDERATION/projects lists are those that   *)
(* will work: its user can scope a token to each.                          *)
\* The code does not keep it: see README, "Where the code departs".
ListedProjectsWork ==
    \A t \in Tokens : token[t] # NoToken =>
        \A p \in ScopableProjects(token[t]) : RolesOnProject(token[t].user, p) # {}

=============================================================================
