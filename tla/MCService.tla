----------------------------- MODULE MCService -----------------------------
(***************************************************************************)
(* The captures of MCReassembly, for the refinement.                       *)
(***************************************************************************)
EXTENDS MCReassembly, ReassemblyService
=============================================================================
