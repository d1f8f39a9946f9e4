--------------------------- MODULE StreamChannels ---------------------------
(***************************************************************************)
(* What the mux promises its users: every stream ID is a FIFO channel of   *)
(* bytes of its own.  A byte is accepted from a client and later delivered *)
(* to the PTY of the stream; no byte is lost, invented, reordered or       *)
(* delivered to another stream.                                            *)
(***************************************************************************)
EXTENDS Naturals, Sequences

CONSTANTS Ids, Bytes

VARIABLES accepted, delivered

cvars == <<accepted, delivered>>

CInit ==
    /\ accepted = [i \in Ids |-> <<>>]
    /\ delivered = [i \in Ids |-> <<>>]

Accept(i, b) ==
    /\ accepted' = [accepted EXCEPT ![i] = Append(@, b)]
    /\ UNCHANGED delivered

Deliver(i) ==
    /\ Len(delivered[i]) < Len(accepted[i])
    /\ delivered' = [delivered EXCEPT ![i] = Append(@, accepted[i][Len(@) + 1])]
    /\ UNCHANGED accepted

CNext == \E i \in Ids : Deliver(i) \/ \E b \in Bytes : Accept(i, b)

CSpec == CInit /\ [][CNext]_cvars

\* An accepted byte is delivered in the end.
Delivers == \A i \in Ids : WF_cvars(Deliver(i))

CFairSpec == CSpec /\ Delivers
=============================================================================
