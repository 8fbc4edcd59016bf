------------------------------ MODULE MCDBJobs ------------------------------
(* Instances of DBJobs for TLC.                                            *)
EXTENDS DBJobs

CONSTANTS w1, w2, j1, j2, j3

\* FCDatabase::Initialise starts two workers (FCDatabase.h:45).
TwoWorkers == {w1, w2}

ThreeJobs == {j1, j2, j3}
=============================================================================
