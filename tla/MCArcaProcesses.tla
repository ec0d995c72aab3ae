-------------------------- MODULE MCArcaProcesses --------------------------
(* ArcaProcesses on a small instance. *)
EXTENDS ArcaProcesses, TLC
=============================================================================
