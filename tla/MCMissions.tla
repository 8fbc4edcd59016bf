----------------------------- MODULE MCMissions -----------------------------
(* The mission of fc_missions, with two or three of its children, for TLC. *)
EXTENDS Missions, TLC

CONSTANTS onChild, fileListing, changeDir

Tutorial == {1, 2, 3}

\* The parent asks for every child; the second child must happen twice.
MCParent   == 1 :> 0 @@ 2 :> 1 @@ 3 :> 1
MCTrigger  == 1 :> onChild @@ 2 :> fileListing @@ 3 :> changeDir
MCRequired == 1 :> 0 @@ 2 :> 1 @@ 3 :> 2
=============================================================================
