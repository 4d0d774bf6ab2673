---------------------------- MODULE MCChatClient ----------------------------
(***************************************************************************)
(* Constants for TLC: the other client of the second server logged in      *)
(* after one that has left.                                                *)
(***************************************************************************)
EXTENDS ChatClient

CONSTANTS s1, s2, g1

Ids == (s1 :> 1) @@ (s2 :> 2)

FirstGroup == {s1} \X {g1}
=============================================================================
