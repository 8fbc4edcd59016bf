------------------------------ MODULE MCRouter ------------------------------
(* Instances of Router for TLC.                                            *)
EXTENDS Router

CONSTANTS p1, p2

\* ServiceType: ST_Router = 1, ST_Auth = 2 (common/interfaces/IService.h).
MCTypes == {1, 2}

\* Descriptors above the service types, as when the services connect first.
TwoConns   == {7, 8}

TwoPools   == {p1, p2}

\* Descriptor 7 alone in one pool: its calls interleave with those of the others.
Spread == [c \in Conns |-> IF c = 7 THEN p1 ELSE p2]

P(k, t) == [kind |-> k, target |-> t]

\* A registration, a packet to the service, one to a client, and those that
\* the router answers itself or ignores.
RoutedPackets  == {P("register", 2), P("forward", 2), P("forward", 7)}
ServicePackets == {P("register", 2), P("forward", 2)}
LocalPackets   == {P("register", 2), P("forward", 1), P("info", 1)}
=============================================================================
