---------------------------- MODULE MCSeL4Link ----------------------------
(* Instances of SeL4Link for TLC. *)
EXTENDS SeL4Link

Stream(id, name, input) == [id |-> id, name |-> <<name>>, input |-> input]

\* Both streams have input.
TwoStreams == RegistryText(<<Stream(1, 3, TRUE), Stream(2, 4, TRUE)>>)
\* The second stream is for output only.
OneInput   == RegistryText(<<Stream(1, 3, TRUE), Stream(2, 4, FALSE)>>)
\* A component without a stream is listed, too.
OneStream  == RegistryText(<<Stream(-1, 5, FALSE), Stream(1, 3, TRUE)>>)

\* Client n prints on stream n.
ByNumber == [c \in MuxClients |-> c]

\* Client 2 belongs to a component without a stream.
OnlyFirst == [c \in MuxClients |-> IF c = 1 THEN 1 ELSE 0]

\* A byte that ends a line, and the one framing has to escape.
EndOfLine   == {3}
LineAndEsc  == {3, ESC}
EscOnly     == {ESC}
PlainAndEsc == {1, ESC}
=============================================================================
