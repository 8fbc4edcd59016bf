------------------------------ MODULE MCWorld ------------------------------
(* Instances of World for TLC.                                             *)
EXTENDS World, TLC

CONSTANTS c1, c2, l1, l2, l3, k1, k2, w1, h1, h2

OneWorker  == {w1}
TwoClients == {c1, c2}

\* Two selections over one socket and one over another; one over each.
ThreeLogins == {l1, l2, l3}
TwoLogins   == {l1, l3}
OverSockets == [l \in ThreeLogins |-> IF l = l3 THEN c2 ELSE c1]
OverOwn     == [l \in TwoLogins |-> OverSockets[l]]

TwoHosts == {h1, h2}

\* The two selections over one socket may be exchanged, and so may
\* the hosts.
Symmetry == Permutations({l1, l2}) \cup Permutations(TwoHosts)

OneCharacter  == {k1}
TwoCharacters == {k1, k2}
NoCharacter   == {}

\* fc_countries has the ids 1 to 11 and fc_cities goes on to 21: at the scale
\* of an instance, countries 1 and 2 and cities 1 to 3.
MCCountries == {1, 2}
MCCities    == {1, 2, 3}

\* Characters that live where both ids are in both tables, in one city, and
\* characters of a city whose id is no country's.
HomeBoth    == [k \in TwoCharacters |-> [country |-> 1, city |-> 2]]
HomeForeign == [k \in TwoCharacters |-> [country |-> 1, city |-> 3]]

\* Memory that was never used.
Zero == {<<0, 0, 0>>}
=============================================================================
