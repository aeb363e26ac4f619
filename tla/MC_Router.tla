----------------------------- MODULE MC_Router ------------------------------
(* Instances of Router for TLC.                                            *)
EXTENDS Router, TLC

CONSTANTS Decode

\* Alphabetical: colocated < decode < tier.
RankMC == (COLOCATED :> 1) @@ (Decode :> 2) @@ (TIER :> 3)

\* Two prefixes, one the tail of the other, and an unrelated one.
PromptsMC == {<<"x">>, <<"b", "x">>, <<"y">>}

\* COLOCATED's salt is no other's; decode and tier share one.
SaltMC == (COLOCATED :> <<"c">>) @@ (Decode :> <<"a">>) @@ (TIER :> <<"a">>)

\* decode and tier have salts of their own, one the head of the other.
OwnSaltMC == (COLOCATED :> <<"c">>) @@ (Decode :> <<"a">>) @@ (TIER :> <<"a", "b">>)

KeysUnder(salts) == [p \in Pools |-> [x \in Prompts |-> salts[p] \o x]]

KeyOfMC == KeysUnder(SaltMC)
KeyOfOwnMC == KeysUnder(OwnSaltMC)
KeysMC == UNION {{KeyOf[p][x] : x \in Prompts} : p \in Pools}

PoolStatesMC == [depth : {0}, capacity : {2, 4}, healthy : BOOLEAN]
ScrapesMC == {-1, 1}
=============================================================================
