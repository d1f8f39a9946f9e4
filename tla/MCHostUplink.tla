--------------------------- MODULE MCHostUplink ---------------------------
(* Instances of HostUplink and HostStartup for TLC. *)
EXTENDS HostStartup

Data(id, payload)      == [kind |-> "data", id |-> id, payload |-> payload]
Connected(id, name)    == [kind |-> "connected", id |-> id, name |-> name]
Disconnected(id, name) == [kind |-> "disconnected", id |-> id, name |-> name]
Registry(text)         == [kind |-> "registry", text |-> text]
Plain(bytes)           == [kind |-> "plain", payload |-> bytes]
Ack                    == [kind |-> "ack"]

Stream(id, name, input) == [id |-> id, name |-> <<name>>, input |-> input]

\* Payload that looks like framing of either layer, streams that are known,
\* unknown, announced twice or under the ID 0xff, registries that are good, partly
\* without IDs, in conflict with the table, empty or malformed.
Frames ==
    { Data(1, <<OUTER_ESC, ESC, 0>>), Data(2, <<CONTROL, 2>>), Data(OUTER_ESC, <<1>>),
      Connected(1, <<3>>), Connected(2, <<ESC, 4>>), Connected(OUTER_ESC, <<>>),
      Disconnected(1, <<3>>),
      Registry(RegistryText(<<Stream(2, 4, TRUE)>>)),
      Registry(RegistryText(<<Stream(-1, 5, FALSE), Stream(1, 3, FALSE), Stream(2, 6, TRUE)>>)),
      Registry(RegistryText(<<Stream(1, 5, TRUE), Stream(1, 6, TRUE)>>)),
      Registry(RegistryText(<<Stream(-1, 5, FALSE)>>)),
      Registry(<<>>), Registry(<<1, 1>>),
      Plain(<<CONTROL, OUTER_ESC>>), Ack }

\* Any two records; an announcement, any record, and data or a registry; and
\* a stream whose frames follow each other, one of which may be lost.
MCScripts ==
    LET One  == Connected(1, <<3>>)
        Text == Data(1, <<OUTER_ESC, ESC, 0>>)
        Two  == Registry(RegistryText(<<Stream(2, 4, TRUE)>>))
    IN  {<<f, g>> : f, g \in Frames}
            \cup {<<One, f, g>> : f \in Frames, g \in {Text, Two}}
            \cup {<<One, Text, Text, Text>>, <<One, Text, Two, Text>>}
=============================================================================
