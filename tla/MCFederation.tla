---------------------------- MODULE MCFederation ----------------------------
(* Two persons, one of an external provider, a client and a few lists of   *)
(* rules, for TLC.                                                         *)
EXTENDS Federation, TLC

CONSTANTS alice, bob, carol, staff, ops, abroad

Text(S) == [text |-> TRUE, values |-> S]
List(S) == [text |-> FALSE, values |-> S]

MCValue == {alice, bob, staff, ops}
MCClaims ==
    alice :> [email |-> Text({alice}), groups |-> List({staff, ops})] @@
    bob :> [email |-> Text({bob}), groups |-> Text({ops})] @@
    carol :> [email |-> Text({alice}), groups |-> List({ops})]
MCIssuerOf == carol :> abroad

Req(claim, kind, values) == [claim |-> claim, kind |-> kind, values |-> values]
Gives(user, ephemeral, groups) == [user |-> user, ephemeral |-> ephemeral, groups |-> groups]

\* Members of ops, made up as needed, with staff as their group if it is theirs;
\* accounts there are, with all their groups, where a rule for all but staff
\* refers to a match there is not.
MCRules ==
    {<<[remote |-> <<Req("groups", "any_one_of", {ops}), Req("email", "plain", {}),
                     Req("groups", "whitelist", {staff})>>,
        local |-> <<Gives(1, TRUE, 0), Gives(0, FALSE, 2)>>]>>,
     <<[remote |-> <<Req("email", "plain", {}), Req("groups", "plain", {})>>,
        local |-> <<Gives(1, FALSE, 2)>>],
       [remote |-> <<Req("groups", "not_any_of", {staff}), Req("groups", "blacklist", {staff})>>,
        local |-> <<Gives(2, FALSE, 0)>>]>>}

Symmetry == Permutations(Bearer)

FromAbroad == {b \in Bearer : bearer[b] # NotIssued /\ bearer[b].key \in {abroad}}

\* No rule makes an account of a group's name, or a group of a person's.  One
\* token at most is from abroad, where no code is given, and an identity provider
\* that is disabled trusts nobody.
Few ==
    /\ account \subseteq {alice, bob} /\ group \subseteq {staff, ops}
    /\ FromAbroad # {} => Cardinality(FromAbroad) = 1 /\ \A k \in Code : code[k] = NotIssued
    /\ \A i \in Idp : provider[i] # Absent => provider[i].enabled \/ provider[i].remote_ids = {}
=============================================================================
