---------------------------- MODULE MCMuxUplink ----------------------------
(* Instances of MuxUplink for TLC. *)
EXTENDS MuxUplink

OneName == {<<ESC>>}
TwoNames == {<<3>>, <<ESC>>}
OneByte == {DEFAULT}
TwoBytes == {DEFAULT, ESC}
=============================================================================
