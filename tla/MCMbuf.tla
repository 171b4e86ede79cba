------------------------------- MODULE MCMbuf -------------------------------
(***************************************************************************)
(* Payloads on either side of a multiple of 64 and of the size of a piece, *)
(* headers without options, with one and with the most; mtus whose pieces  *)
(* just fit, just do not, and are the largest.                             *)
(***************************************************************************)
EXTENDS Mbuf

Lengths == {8, 43, 44, 45, 63, 64, 100, 1479, 1480, 1481, 2960, 4000}

MCDatagrams ==
  {d \in [plen : Lengths, ihl : {5, 6, 14, 15}, cut : {8, 512, 1440, 1480},
          mtu : {28, 576, 1499, 1500, 1507, 1508, 9000, 65535}] :
     d.cut <= d.plen /\ d.plen < 100 * d.cut /\ d.cut + d.ihl * 4 <= 1500
     /\ (d.mtu = 28 => d.plen <= 100)}
=============================================================================
