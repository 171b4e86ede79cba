---------------------------- MODULE MCTreeSearch ----------------------------
(***************************************************************************)
(* Seven nodes, inserted and erased in any order, reach every case of both *)
(* loops on either side, but an erase that repairs more than one level: a  *)
(* tree all of whose nodes are black down to the third level takes ten     *)
(* nodes to build.  The last three are inserted in ascending order only,   *)
(* and then anything is erased.                                            *)
(***************************************************************************)
EXTENDS TreeSearch

MCNodes == 1..10

Freely == 1..7

Ascending ==
  pc = "idle" /\ pc' = "descend" =>
    \/ members \cup {new'} \subseteq Freely
    \/ members = 1..(new' - 1)

TallSpec == Init /\ [][Next /\ Ascending]_vars
=============================================================================
