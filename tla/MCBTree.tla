------------------------------- MODULE MCBTree -------------------------------
(* Instances of BTree for TLC. *)
EXTENDS BTree

OneTwice == <<1, 1, 1, 2, 1, 1, 1>>
TwoTwice == <<1, 2, 2>>
==============================================================================
