---------------------------- MODULE MCChatSystem ----------------------------
(***************************************************************************)
(* Two members who talk and one who only reads.                            *)
(***************************************************************************)
EXTENDS ChatSystem, TLC

CONSTANTS ann, bob, eve

TwoTalk == (ann :> 2) @@ (bob :> 2) @@ (eve :> 0)
=============================================================================
