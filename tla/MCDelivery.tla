----------------------------- MODULE MCDelivery -----------------------------
(* An instance of Delivery for TLC: two threads, one of which queues two   *)
(* packets, and heads that the network may cut.                            *)
EXTENDS Delivery

CONSTANTS t1, t2, k1, k2, k3

TwoThreads   == {t1, t2}
ThreePackets == {k1, k2, k3}
MCProgram    == t1 :> <<k1, k2>> @@ t2 :> <<k3>>
MCData       == [k \in ThreePackets |-> IF k = k2 THEN 2 ELSE 1]
=============================================================================
