----------------------------- MODULE MCTransfer -----------------------------
(***************************************************************************)
(* Small instances of Transfer for TLC.                                    *)
(***************************************************************************)
EXTENDS Transfer, TLC

CONSTANTS c1, c2

\* A file of five packets, the name included.
OneFile == c1 :> 3

\* A file of four packets, the name included, and one of two.
FourAndTwo == c1 :> 2 @@ c2 :> 0

\* Somebody's first turn is still to be looked at.
FirstTurns == again # Client
=============================================================================
