----------------------------- MODULE MCTcuLink -----------------------------
(* Instances of TcuLink for TLC. *)
EXTENDS TcuLink

TwoChips == <<3, 4>>

\* Text whose bytes are tags, and line ends
Lines     == {3, LF}
AllKinds  == {NUL, LF, CR, OUTER_ESC}
TagAndEsc == {4, OUTER_ESC}

\* A full buffer, the end of one, and wrong indices
SomeBatches ==
    { [head |-> i[1], tail |-> i[2], buf |-> <<3, LF>>] :
        i \in {<<0, 2>>, <<1, 2>>, <<1, 0>>, <<0, 3>>} }
=============================================================================
