---------------------------- MODULE MCContainer ----------------------------
(***************************************************************************)
(* Two threads that insert, one of which erases as well, on three keys.    *)
(***************************************************************************)
EXTENDS Container

ThreeKeys == 1..3
=============================================================================
