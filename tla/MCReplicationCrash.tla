------------------------ MODULE MCReplicationCrash ------------------------
(***************************************************************************)
(* Small instances of ReplicationCrash for TLC.                            *)
(***************************************************************************)
EXTENDS ReplicationCrash, TLC

CONSTANTS c1, c2

OneEach == c1 :> 1 @@ c2 :> 2
OnlyOne == c1 :> 1
=============================================================================
