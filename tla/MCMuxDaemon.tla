---------------------------- MODULE MCMuxDaemon ----------------------------
(* Instances of MuxDaemon for TLC. *)
EXTENDS MuxDaemon

MCNames == {<<>>, <<3>>}
=============================================================================
