------------------------------ MODULE MCLikes ------------------------------
(***************************************************************************)
(* Small instances of Likes for TLC.                                       *)
(***************************************************************************)
EXTENDS Likes, TLC

CONSTANTS amy, bob, joe

\* Amy, who posts the message, and Bob are clients of server 1, Joe of 2.
TwoAndOne == amy :> 1 @@ bob :> 1 @@ joe :> 2

\* Two likes of Bob's server, one of Joe's.
LikesTwoAndOne == 1 :> 2 @@ 2 :> 1
=============================================================================
