----------------------------- MODULE MCTtyLock -----------------------------
(* Instances of TtyLock for TLC. *)
EXTENDS TtyLock

CONSTANTS a, b, c
AllProcs == {a, b, c}
=============================================================================
