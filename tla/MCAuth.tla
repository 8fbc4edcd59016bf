------------------------------- MODULE MCAuth -------------------------------
(* Instances of Auth for TLC.                                              *)
EXTENDS Auth, TLC

CONSTANTS c1, c2, a1, a2, k1, w1

TwoClients == {c1, c2}
OneAccount == {a1}
TwoAccounts == {a1, a2}
OneWorker  == {w1}

\* Clients are interchangeable.
AnyClient == Permutations(TwoClients)

\* A character of the first account.
OneCharacter  == {k1}
OwnerOfOne == [k \in OneCharacter |-> a1]
=============================================================================
