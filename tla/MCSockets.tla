------------------------------ MODULE MCSockets ------------------------------
(* Instances of Sockets for TLC.                                           *)
EXTENDS Sockets, TLC

\* With two slots the third connection gets a pool of its own, or a slot that
\* was given back.
Three == {1, 2, 3}
=============================================================================
