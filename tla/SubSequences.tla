---------------------------- MODULE SubSequences ----------------------------
(***************************************************************************)
(* What is left of a sequence when some of its elements are lost.          *)
(***************************************************************************)
EXTENDS Integers, Sequences

\* s is what remains of t when some elements are left out.
IsSubSeqOf(s, t) ==
    \E f \in [1..Len(s) -> 1..Len(t)] :
        /\ \A i, j \in 1..Len(s) : i < j => f[i] < f[j]
        /\ \A i \in 1..Len(s) : s[i] = t[f[i]]
=============================================================================
