SPECIFICATION Spec
CONSTANTS
    Users = {admin, u1}
    Groups = {g1}
    Projects = {p0, p1}
    Domains = {d1}
    Roles = {r0, r1}
    Names = {nadmin, n1}
    Tokens = {t1, t2}
    Credentials = {c1}
    AdminUser = admin
    AdminName = nadmin
    AdminProject = p0
    AdminRole = r0
    Unborn = Unborn
    Live = Live
    Gone = Gone
    NoToken = NoToken
    NoCredential = NoCredential
    MaxGrants = 2
    MaxIds = 5
    MaxChanges = 8
    OtherProject = p1
    OtherRole = r1
    Provisions <- FewProvisions
CONSTRAINT Bounded
SYMMETRY Ids
INVARIANTS
    GrantsRefer
    IdentityCarried
PROPERTIES
    AccessIsASet
