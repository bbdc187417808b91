----------------------------- MODULE Federation -----------------------------
(***************************************************************************)
(* Federated login: the embedded OpenID provider, which turns grants into  *)
(* access tokens, and Keystone's identity providers, protocols and         *)
(* mappings, which turn an access token's claims into an account and its   *)
(* groups.  Keystone also takes the tokens of external providers that an   *)
(* identity provider trusts.  The projects a mapping asks for, and what a session may then   *)
(* do, are in Identity.                                                    *)
(***************************************************************************)
EXTENDS Integers, FiniteSets, Sequences

CONSTANTS
    Person,         \* the provider's end users, by username
    Issuer,         \* external OpenID providers
    Stranger,       \* their end users
    IssuerOf,       \* which of them knows a stranger
    Client,         \* registered relying parties
    Claim,          \* the names of claims
    Value,          \* what claims, accounts and groups may say or be called
    Claims,         \* what is asserted of each person and stranger
    Rules,          \* the lists of rules a mapping may have
    Idp, Protocol, Mapping,     \* ids in Keystone
    Code, Bearer, Session,      \* authorization codes, access tokens, Keystone tokens
    MaxRun,         \* bound: how often the process is started
    OddName,        \* any text that is not one value
    NoCode,         \* the token was not bought with a code
    NotIssued, Lapsed, Absent        \* not given yet, taken back, not there

\* A claim arrives as a list or as one text, semicolons between its values.
Assertion == [text : BOOLEAN, values : SUBSET Value]
Missing == [text |-> FALSE, values |-> {}]

RequirementKind == {"plain", "any_one_of", "not_any_of", "whitelist", "blacklist"}
Requirement == [claim : Claim, kind : RequirementKind, values : SUBSET Value]

\* What a rule gives: the positions of the user's name and of the groups among
\* its matches, 0 for none.
Local == [user : Nat, ephemeral : BOOLEAN, groups : Nat]
Rule == [remote : Seq(Requirement), local : Seq(Local)]

User == Person \cup Client

\* An identity provider in Keystone, with the issuers it trusts.
ProviderRecord == [enabled : BOOLEAN, remote_ids : SUBSET Issuer]

VARIABLES
    known,      \* _oidc_users
    code,       \* _oidc_codes
    bearer,     \* access tokens, which are with the clients and not stored
    run,        \* which start of the process this is: each has a signing key
    provider,   \* _identity_providers
    protocol,   \* _federation_protocols, by provider and protocol
    mapping,    \* _federation_mappings
    account,    \* the names of Keystone's users, in the provider's domain
    group,      \* and of its groups
    session     \* Keystone's federated tokens

oidc == <<known, code, bearer, run>>
keystone == <<provider, protocol, mapping>>
fedVars == <<known, code, bearer, run, provider, protocol, mapping, account, group, session>>

NewCode(c, u, expired) == [client |-> c, user |-> u, expired |-> expired]
CodeRecord == [client : Client, user : User, expired : BOOLEAN]

\* The key is that of a start of this process, or an external provider's.
NewBearer(c, u, k, key, expired) ==
    [client |-> c, user |-> u, code |-> k, key |-> key, expired |-> expired]
BearerRecord == [client : Client, user : User \cup Stranger, code : Code \cup {NoCode},
                 key : (0..MaxRun) \cup Issuer, expired : BOOLEAN]

NewSession(a, gs, i, q, b) ==
    [account |-> a, groups |-> gs, idp |-> i, protocol |-> q, bearer |-> b]
SessionRecord == [account : Value \cup {OddName}, groups : SUBSET Value, idp : Idp,
                  protocol : Protocol, bearer : Bearer]

ASSUME FederationAssumption ==
    /\ Claims \in [Person \cup Stranger -> [Claim -> Assertion]]
    /\ IssuerOf \in [Stranger -> Issuer]
    /\ Issuer \cap (0..MaxRun) = {}
    /\ Rules \subseteq Seq(Rule)
    /\ MaxRun \in Nat
    /\ OddName \notin Value
    /\ NoCode \notin Code
    /\ NotIssued # Lapsed
    /\ {NotIssued, Lapsed, Absent} \cap (CodeRecord \cup BearerRecord \cup SessionRecord) = {}
    /\ Absent \notin ProviderRecord
    /\ Absent \notin Rules \cup Mapping

Present(x) == x \notin {NotIssued, Lapsed, Absent}

FedInit ==
    /\ known = Person
    /\ code = [k \in Code |-> NotIssued]
    /\ bearer = [b \in Bearer |-> NotIssued]
    /\ run = 0
    /\ provider = [i \in Idp |-> Absent]
    /\ protocol = [i \in Idp |-> [q \in Protocol |-> Absent]]
    /\ mapping = [m \in Mapping |-> Absent]
    /\ account = {}
    /\ group = {}
    /\ session = [s \in Session |-> NotIssued]

(***************************************************************************)
(* The mapping engine.                                                     *)
(***************************************************************************)

\* What is asserted of a user; of a client, nothing a rule would ask for.
ClaimsOf(u) == IF u \in Person \cup Stranger THEN Claims[u] ELSE [c \in Claim |-> Missing]

Meets(req, asserted) ==
    /\ asserted[req.claim].values # {}
    /\ req.kind = "any_one_of" => asserted[req.claim].values \cap req.values # {}
    /\ req.kind = "not_any_of" => asserted[req.claim].values \cap req.values = {}

Gates(req) == req.kind \in {"any_one_of", "not_any_of"}

\* Mutant: a whitelist stands for all it lists.
MatchWholeList(req, asserted) ==
    IF req.kind = "whitelist" THEN [text |-> FALSE, values |-> req.values]
    ELSE asserted[req.claim]

Match(req, asserted) ==
    LET a == asserted[req.claim]
    IN  IF req.kind = "whitelist" THEN [text |-> FALSE, values |-> a.values \cap req.values]
        ELSE IF req.kind = "blacklist" THEN [text |-> FALSE, values |-> a.values \ req.values]
        ELSE a

Applies(rule, asserted) == \A n \in DOMAIN rule.remote : Meets(rule.remote[n], asserted)

\* The positional matches are of these entries: what gates the rule gives none.
Filters(rule) == {n \in DOMAIN rule.remote : ~Gates(rule.remote[n])}

UpTo(S, n) == {m \in S : m <= n}

\* The k-th match.
DirectMap(rule, k, asserted) ==
    Match(rule.remote[CHOOSE n \in Filters(rule) : Cardinality(UpTo(Filters(rule), n)) = k],
          asserted)

\* {N} in a text: a list of several values shows as a list in Python does.
UserName(m) == IF Cardinality(m.values) = 1 THEN CHOOSE v \in m.values : TRUE ELSE OddName

GroupNames(m) == IF m.text \/ Cardinality(m.values) = 1 THEN m.values ELSE {OddName}

\* Every local entry of the rules that apply, with the matches of its rule.
IdentityValues(rules, asserted) ==
    UNION {{<<n, l>> : l \in DOMAIN rules[n].local} :
               n \in {m \in DOMAIN rules : Applies(rules[m], asserted)}}

Entry(rules, e) == rules[e[1]].local[e[2]]

\* A mapping fails when no rule applies, or one refers to a match there is not.
Mappable(rules, asserted) ==
    LET values == IdentityValues(rules, asserted)
    IN  /\ values # {}
        /\ \A e \in values :
               {Entry(rules, e).user, Entry(rules, e).groups}
                   \subseteq 0..Cardinality(Filters(rules[e[1]]))

\* Of several users, the last.
WithUser(rules, asserted) ==
    {e \in IdentityValues(rules, asserted) : Entry(rules, e).user # 0}

LastUser(rules, asserted) ==
    CHOOSE e \in WithUser(rules, asserted) :
        \A f \in WithUser(rules, asserted) :
            e[1] > f[1] \/ (e[1] = f[1] /\ e[2] >= f[2])

MappedName(rules, asserted) ==
    LET e == LastUser(rules, asserted)
    IN  UserName(DirectMap(rules[e[1]], Entry(rules, e).user, asserted))

GroupMatches(rules, asserted) ==
    {DirectMap(rules[e[1]], Entry(rules, e).groups, asserted) :
        e \in {f \in IdentityValues(rules, asserted) : Entry(rules, f).groups # 0}}

MappedGroups(rules, asserted) == UNION {GroupNames(m) : m \in GroupMatches(rules, asserted)}

(***************************************************************************)
(* The OpenID provider.                                                    *)
(***************************************************************************)

\* decode_access_token: of this start's key, and not expired.
Valid(b) == Present(bearer[b]) /\ bearer[b].key = run /\ ~bearer[b].expired

IssueAccessToken(b, c, u, k) ==
    /\ bearer[b] = NotIssued
    /\ bearer' = [bearer EXCEPT ![b] = NewBearer(c, u, k, run, FALSE)]
    /\ UNCHANGED <<run, keystone, account, group, session>>

PasswordGrant(b, c, u) ==
    /\ u \in known
    /\ IssueAccessToken(b, c, u, NoCode)
    /\ UNCHANGED <<known, code>>

\* The user of the client's own name; created if there is none.
ClientCredentialsGrant(b, c) ==
    /\ known' = known \cup {c}
    /\ IssueAccessToken(b, c, c, NoCode)
    /\ UNCHANGED code

Authorize(k, c, u) ==
    /\ code[k] = NotIssued
    /\ u \in known
    /\ code' = [code EXCEPT ![k] = NewCode(c, u, FALSE)]
    /\ UNCHANGED <<known, bearer, run, keystone, account, group, session>>

\* Mutant: the code is looked up, and not taken out.
LookupOidcCode(k) == UNCHANGED code

\* The code is gone, whatever the answer will be.
ConsumeOidcCode(k) == code' = [code EXCEPT ![k] = Lapsed]

\* `redirected' says whether a redirect_uri came along that is not the code's.
AuthorizationCodeGrant(b, c, k, redirected) ==
    /\ Present(code[k])
    /\ ConsumeOidcCode(k)
    /\ IF ~code[k].expired /\ code[k].client = c /\ ~redirected /\ code[k].user \in known
       THEN IssueAccessToken(b, c, code[k].user, k)
       ELSE UNCHANGED <<bearer, run, keystone, account, group, session>>
    /\ UNCHANGED known

\* The refresh token is the access token itself, and any client's.
RefreshTokenGrant(b, c, old) ==
    /\ Valid(old)
    /\ bearer[old].user \in known
    /\ IssueAccessToken(b, c, bearer[old].user, NoCode)
    /\ UNCHANGED <<known, code>>

OidcTokenRequests ==
    \E b \in Bearer, c \in Client :
        \/ \E u \in User : PasswordGrant(b, c, u)
        \/ ClientCredentialsGrant(b, c)
        \/ \E k \in Code, redirected \in BOOLEAN : AuthorizationCodeGrant(b, c, k, redirected)
        \/ \E old \in Bearer : RefreshTokenGrant(b, c, old)

AuthorizeRequests == \E k \in Code, c \in Client, u \in User : Authorize(k, c, u)

\* Somebody gets a token from a provider that this process knows nothing of.
TokensFromAbroad ==
    \E b \in Bearer, c \in Client, u \in Stranger :
        /\ bearer[b] = NotIssued
        /\ bearer' = [bearer EXCEPT ![b] = NewBearer(c, u, NoCode, IssuerOf[u], FALSE)]
        /\ UNCHANGED <<known, code, run, keystone, account, group, session>>

\* Ten minutes, or an hour.
Expire ==
    \/ /\ \E k \in Code :
              /\ Present(code[k])
              /\ code' = [code EXCEPT ![k] = NewCode(code[k].client, code[k].user, TRUE)]
       /\ UNCHANGED <<known, bearer, run, keystone, account, group, session>>
    \/ /\ \E b \in Bearer :
              /\ Present(bearer[b])
              /\ bearer' = [bearer EXCEPT ![b] =
                     NewBearer(bearer[b].client, bearer[b].user, bearer[b].code,
                               bearer[b].key, TRUE)]
       /\ UNCHANGED <<known, code, run, keystone, account, group, session>>

(***************************************************************************)
(* Keystone's configuration.  Deletions ask nothing about who refers to    *)
(* what they delete.                                                       *)
(***************************************************************************)

ProviderBecomes(i, x) ==
    /\ provider' = [provider EXCEPT ![i] = x]
    /\ UNCHANGED <<oidc, protocol, mapping, account, group, session>>

CreateIdentityProvider(i, x) == ProviderBecomes(i, x)
UpdateIdentityProvider(i, x) == provider[i] # Absent /\ ProviderBecomes(i, x)
DeleteIdentityProvider(i) == provider[i] # Absent /\ ProviderBecomes(i, Absent)

ProviderRequests ==
    \E i \in Idp :
        \/ \E x \in ProviderRecord : CreateIdentityProvider(i, x) \/ UpdateIdentityProvider(i, x)
        \/ DeleteIdentityProvider(i)

MappingBecomes(m, x) ==
    /\ mapping' = [mapping EXCEPT ![m] = x]
    /\ UNCHANGED <<oidc, provider, protocol, account, group, session>>

CreateFederationMapping(m, rules) == MappingBecomes(m, rules)
UpdateFederationMapping(m, rules) == mapping[m] # Absent /\ MappingBecomes(m, rules)
DeleteFederationMapping(m) == mapping[m] # Absent /\ MappingBecomes(m, Absent)

MappingRequests ==
    \E m \in Mapping :
        \/ \E rules \in Rules :
               CreateFederationMapping(m, rules) \/ UpdateFederationMapping(m, rules)
        \/ DeleteFederationMapping(m)

ProtocolBecomes(i, q, x) ==
    /\ protocol' = [protocol EXCEPT ![i][q] = x]
    /\ UNCHANGED <<oidc, provider, mapping, account, group, session>>

CreateFederationProtocol(i, q, m) ==
    /\ provider[i] # Absent
    /\ mapping[m] # Absent
    /\ ProtocolBecomes(i, q, m)

\* PATCH asks for the protocol only.
UpdateFederationProtocol(i, q, m) == protocol[i][q] # Absent /\ ProtocolBecomes(i, q, m)
DeleteFederationProtocol(i, q) == protocol[i][q] # Absent /\ ProtocolBecomes(i, q, Absent)

ProtocolRequests ==
    \E i \in Idp, q \in Protocol :
        \/ \E m \in Mapping :
               CreateFederationProtocol(i, q, m) \/ UpdateFederationProtocol(i, q, m)
        \/ DeleteFederationProtocol(i, q)

\* Users and groups come and go in Keystone.
AccountRequests ==
    \E v \in Value :
        /\ \/ account' \in {account \cup {v}, account \ {v}} /\ UNCHANGED group
           \/ group' \in {group \cup {v}, group \ {v}} /\ UNCHANGED account
        /\ UNCHANGED <<oidc, keystone, session>>

(***************************************************************************)
(* Logging in.                                                             *)
(***************************************************************************)

\* Mutant: the token's claims are read, its signature is not verified.
ReadableBearer(i, b) == Present(bearer[b]) /\ ~bearer[b].expired

\* Of the embedded provider, or of an issuer that the identity provider trusts,
\* whose published keys verify it.  If the issuer does not answer, the login is
\* refused, as all logins may be.
ValidBearer(i, b) ==
    \/ Valid(b)
    \/ /\ Present(bearer[b])
       /\ bearer[b].key \in provider[i].remote_ids
       /\ ~bearer[b].expired

ResolvedGroups(names) == names \cap group

\* A mapped user must be there, but an ephemeral one is created; mapped groups
\* that are not there are skipped.
FederatedAuth(s, i, q, b) ==
    /\ session[s] = NotIssued
    /\ provider[i] # Absent
    /\ provider[i].enabled
    /\ protocol[i][q] # Absent
    /\ mapping[protocol[i][q]] # Absent
    /\ ValidBearer(i, b)
    /\ LET rules == mapping[protocol[i][q]]
           asserted == ClaimsOf(bearer[b].user)
           n == MappedName(rules, asserted)
       IN  /\ Mappable(rules, asserted)
           /\ WithUser(rules, asserted) # {}
           /\ n \in account \/ Entry(rules, LastUser(rules, asserted)).ephemeral
           /\ account' = account \cup {n}
           /\ session' = [session EXCEPT ![s] =
                  NewSession(n, ResolvedGroups(MappedGroups(rules, asserted)), i, q, b)]
    /\ UNCHANGED <<oidc, keystone, group>>

Logins == \E s \in Session, i \in Idp, q \in Protocol, b \in Bearer : FederatedAuth(s, i, q, b)

(***************************************************************************)
(* A new process has a new key, no codes and no tokens.  The rest is as in *)
(* the file; what a file without the last changes holds, requests lead to. *)
(***************************************************************************)
FedRestart ==
    /\ run < MaxRun
    /\ run' = run + 1
    /\ code' = [k \in Code |-> IF code[k] = NotIssued THEN NotIssued ELSE Lapsed]
    /\ session' = [s \in Session |-> IF session[s] = NotIssued THEN NotIssued ELSE Lapsed]
    /\ UNCHANGED <<known, bearer, keystone, account, group>>

FedNext ==
    \/ OidcTokenRequests
    \/ AuthorizeRequests
    \/ TokensFromAbroad
    \/ Expire
    \/ ProviderRequests
    \/ MappingRequests
    \/ ProtocolRequests
    \/ AccountRequests
    \/ Logins
    \/ FedRestart

FedSpec == FedInit /\ [][FedNext]_fedVars

(***************************************************************************)
(* Properties.                                                             *)
(***************************************************************************)

\* Every store, and every token and code there is, is what it is declared to be.
FedTypeOK ==
    /\ known \subseteq User
    /\ code \in [Code -> CodeRecord \cup {NotIssued, Lapsed}]
    /\ bearer \in [Bearer -> BearerRecord \cup {NotIssued}]
    /\ run \in 0..MaxRun
    /\ provider \in [Idp -> ProviderRecord \cup {Absent}]
    /\ protocol \in [Idp -> [Protocol -> Mapping \cup {Absent}]]
    /\ mapping \in [Mapping -> Rules \cup {Absent}]
    /\ account \subseteq Value \cup {OddName}
    /\ group \subseteq Value
    /\ session \in [Session -> SessionRecord \cup {NotIssued, Lapsed}]

\* "Codes are single use, as in OAuth 2" (consume_oidc_code): of all the tokens
\* there are, one at most was bought with the code, whoever tried and however
\* often, and however the process was restarted in between.
CodeBuysOneToken ==
    \A b, d \in Bearer :
        Present(bearer[b]) /\ Present(bearer[d]) /\ bearer[b].code = bearer[d].code =>
            b = d \/ bearer[b].code = NoCode

\* A session is its token's person, through the code, the refreshed tokens and
\* every change of the mapping: its account and its groups were all asserted of
\* that person (token, process_rules, federated_auth).
NobodyElse ==
    \A s \in Session : Present(session[s]) =>
        LET asserted == ClaimsOf(bearer[session[s].bearer].user)
        IN  {session[s].account} \cup session[s].groups \subseteq
                {OddName} \cup UNION {asserted[c].values : c \in Claim}

\* The embedded provider's tokens do not survive a restart (docs/federation.md):
\* no session, of whatever chain of codes and refreshed tokens, was opened with
\* one that an earlier start of the process signed.  What was not signed here is
\* of an external provider, and a stranger's.
NothingOutlivesTheKey ==
    \A s \in Session : Present(session[s]) =>
        LET b == bearer[session[s].bearer]
        IN  b.key = run \/ (b.key \in Issuer /\ b.user \in Stranger)

\* "whitelist: the claim is filtered down to these values, which become the
\* positional match"; "groups: group membership" (docs/federation.md): a login
\* brings all the groups there are of those the claim was filtered down to.
\* The code does not keep it: see README, "Where the code departs".
GroupsReach ==
    [][\A s \in Session, i \in Idp, q \in Protocol, b \in Bearer :
           FederatedAuth(s, i, q, b) =>
               group \cap UNION {m.values : m \in
                   GroupMatches(mapping[protocol[i][q]], ClaimsOf(bearer[b].user))}
                       \subseteq session'[s].groups]_fedVars
=============================================================================
