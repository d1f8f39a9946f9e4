----------------------------- MODULE MCMuxExec -----------------------------
(* Instances of MuxExec for TLC. *)
EXTENDS MuxExec

BothPipes == {"stdout", "stderr"}
=============================================================================
