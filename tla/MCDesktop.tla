----------------------------- MODULE MCDesktop ------------------------------
(***************************************************************************)
(* Desktop with one start and one stop at a time beside the shutdown and   *)
(* the reconnection, and two relay processes.                              *)
(***************************************************************************)
EXTENDS Desktop
=============================================================================
