-------------------------- MODULE MCFragmentation --------------------------
(***************************************************************************)
(* Datagrams with and without options, at a common mtu.                    *)
(***************************************************************************)
EXTENDS Fragmentation

Options == [plen : {100, 600, 1481, 3000}, ihl : {5, 6}, mtu : {576, 1500}]
=============================================================================
