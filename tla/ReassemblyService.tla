-------------------------- MODULE ReassemblyService --------------------------
(***************************************************************************)
(* The service the two threads of Reassembly implement.                    *)
(***************************************************************************)
EXTENDS Reassembly

Known == tree \cup trash

\* The queue ipv4_handle_reassembly copies and writes out.
Sending == IF wpc = "emit" THEN {wq} ELSE {}

Datagrams == INSTANCE Service WITH
  Attempts <- Queues, open <- tree, closed <- trash \ tree,
  of <- [q \in Queues |-> IF q \in Known THEN fq[q].key ELSE 0],
  have <- [q \in Queues |-> fq[q].frags], sending <- Sending, delivered <- sent,
  late <- {q \in Known : Expired(q)}

\* Every run of the two threads is one of the service: a queue is an attempt from the
\* moment it is linked into the tree until the trash lets it go, it begins to be
\* written out once and when it is whole, and collects nothing from then on.
ImplementsService == Datagrams!Spec
=============================================================================
