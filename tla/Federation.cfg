SPECIFICATION FedSpec
CONSTANTS
    alice = alice
    bob = bob
    carol = carol
    abroad = abroad
    staff = staff
    ops = ops
    Person = {alice, bob}
    Issuer = {abroad}
    Stranger = {carol}
    IssuerOf <- MCIssuerOf
    Client = {cli}
    Claim = {"email", "groups"}
    Value <- MCValue
    Claims <- MCClaims
    Rules <- MCRules
    Idp = {idp}
    Protocol = {openid}
    Mapping = {m1}
    Code = {k1}
    Bearer = {b1, b2}
    Session = {s1}
    MaxRun = 1
    OddName = OddName
    NoCode = NoCode
    NotIssued = NotIssued
    Lapsed = Lapsed
    Absent = Absent
CONSTRAINT Few
SYMMETRY Symmetry
INVARIANTS
    CodeBuysOneToken
    NobodyElse
    NothingOutlivesTheKey
