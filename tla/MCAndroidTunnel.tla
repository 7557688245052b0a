--------------------------- MODULE MCAndroidTunnel --------------------------
(***************************************************************************)
(* AndroidTunnel with four tunnel objects: the current one, one held by    *)
(* each worker, and one to open.                                           *)
(***************************************************************************)
EXTENDS AndroidTunnel
=============================================================================
