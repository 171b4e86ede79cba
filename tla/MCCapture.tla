----------------------------- MODULE MCCapture -----------------------------
(***************************************************************************)
(* Packets of one or two blocks.                                           *)
(***************************************************************************)
EXTENDS Capture

MCSizes == 1..2
=============================================================================
