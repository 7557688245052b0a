---------------------------- MODULE MCVpnOutput -----------------------------
(***************************************************************************)
(* Digits of base 4; packets of 5 and 6 bytes with every kind of payload   *)
(* byte: one that looks like a version, one that looks like a length.      *)
(***************************************************************************)
EXTENDS VpnOutput

MCPackets == {<<2, 0, 1, 1, 3>>, <<2, 0, 1, 2, 2, 0>>}
=============================================================================
