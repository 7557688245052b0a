---------------------------- MODULE MCAdbMonitor ----------------------------
(***************************************************************************)
(* AdbMonitor with two devices and a buffer that holds the longest list.   *)
(***************************************************************************)
EXTENDS AdbMonitor
=============================================================================
