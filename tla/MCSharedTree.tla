---------------------------- MODULE MCSharedTree ----------------------------
(***************************************************************************)
(* Five nodes in any order.  An insert whose rotation moves a subtree      *)
(* takes eight: the others are inserted in ascending order only, and one   *)
(* node is erased when all of them are in the tree.                        *)
(***************************************************************************)
EXTENDS SharedTree

MCNodes == 1..8

Freely == 1..5

Ascending ==
  /\ op = "none" /\ op' = "insert" =>
       \/ members \cup {new'} \subseteq Freely
       \/ members = 1..(new' - 1)
  /\ op = "none" /\ op' = "erase" => members \subseteq Freely \/ members = Nodes

TallSpec == SharedInit /\ [][SharedNext /\ Ascending]_all /\ WF_all(Walk)
=============================================================================
