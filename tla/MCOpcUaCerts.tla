----------------------------- MODULE MCOpcUaCerts -----------------------------
(* Instances of OpcUaCerts for TLC. *)
EXTENDS OpcUaCerts, TLC

CONSTANTS s1, s2, x1, x2, x3, k1, k2

Do(op) == [NoCommand EXCEPT !.op = op]

Add(op, map, overwrite) == [Do(op) EXCEPT !.map = map, !.also = overwrite]
Crl(map, issuers) == [Add("issuer", map, TRUE) EXCEPT !.keys = issuers]
Drop(n, keys, purge) ==
    [Do("removeCertificates") EXCEPT !.name = n, !.keys = keys, !.also = purge]
SetOf(n, x, k) == [Do("set") EXCEPT !.name = n, !.map = {<<x, k>>}]
RemoveOf(n, x) == [Do("remove") EXCEPT !.name = n, !.secrets = {x}]

Pair  == {<<x1, k1>>, <<x2, k2>>}
Other == {<<x1, k1>>, <<x3, k2>>}      \* shares the certificate's secret

Given(first, second, vaulted) ==
    [given |-> s1 :> first @@ s2 :> second, enabled |-> TRUE, vault |-> vaulted]

MCWorkloads ==
    [replace |-> Given({Add("client", Pair, TRUE)}, {Add("client", Other, FALSE)}, {}),
     remove  |-> Given({Add("client", Pair, TRUE)}, {Drop(ClientPair, {k1, k2}, TRUE)},
                       {}),
     half    |-> Given({Add("client", Pair, TRUE)}, {Drop(ClientPair, {k1}, FALSE)}, {}),
     disable |-> Given({Add("client", Pair, TRUE)}, {Do("enable"), Do("disable")}, {}),
     lists   |-> Given({Add("trust", {<<x1, k1>>}, FALSE)},
                       {Add("issuer", {<<x1, k1>>}, TRUE), Crl({<<x2, k2>>}, {k1})},
                       {}),
     issuers |-> Given({Add("trust", {<<x2, k1>>}, TRUE)},
                       {Add("issuer", {<<x1, k1>>}, TRUE), Drop(IssuerList, {k1}, TRUE)},
                       {}),
     shared  |-> Given({Add("trust", {<<x1, k1>>}, TRUE), Drop(TrustList, {k1}, TRUE)},
                       {SetOf(IssuerList, x1, k2), RemoveOf(IssuerList, x1)},
                       {x1})]
===============================================================================
