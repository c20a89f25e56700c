----------------------------- MODULE MCIoMonitor -----------------------------
(***************************************************************************)
(* A small instance of the descriptor monitor: three threads, two          *)
(* descriptors so that a closed number is soon reused, two sessions.       *)
(***************************************************************************)
EXTENDS IoMonitor
=============================================================================
