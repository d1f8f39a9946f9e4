------------------------------ MODULE RawSinks ------------------------------
(***************************************************************************)
(* The CAmkES sinks that print without framing: PassthruSink, on a serial  *)
(* device, DebugSink, with the kernel's debug output, and NullSink, which  *)
(* throws output away.  All three have a batch interface: the client puts  *)
(* bytes into a shared buffer and waits until the call returns.            *)
(* PassthruSink also prints single characters, processed or raw.           *)
(*                                                                         *)
(* Each interface has its thread; they share the device without a lock.    *)
(***************************************************************************)
EXTENDS Integers, Sequences, SequencesExt

CONSTANTS
    PrintBytes,  \* bytes clients print
    NewLine, Return,
    BufSize      \* sizeof(batch->buf), 4088

ASSUME SinkAssumption == BufSize \in Nat \ {0}

CharIfs == {"processed", "raw"}
SinkIfs == CharIfs \cup {"batch"}

VARIABLES
    sink,     \* "passthru", "debug" or "null"
    batch,    \* the shared buffer: head, tail and buf
    in_call,  \* the client waits for raw_batch_batch
    char_out, \* what the threads of the character interfaces still put
    serial,   \* the device: bytes with the interface that put them
    handed    \* history: what clients had printed on each interface

rsvars == <<sink, batch, in_call, char_out, serial, handed>>

RSTypeOK ==
    /\ sink \in {"passthru", "debug", "null"}
    /\ batch \in [head: Nat, tail: Nat, buf: [1..BufSize -> PrintBytes \cup {0}]]
    /\ in_call \in BOOLEAN
    /\ char_out \in [CharIfs -> Seq(PrintBytes \cup {Return})]
    /\ serial \in Seq([from: SinkIfs, byte: PrintBytes \cup {Return}])

RSInit ==
    /\ sink \in {"passthru", "debug", "null"}
    /\ batch = [head |-> 0, tail |-> 0, buf |-> [k \in 1..BufSize |-> 0]]
    /\ in_call = FALSE
    /\ char_out = [i \in CharIfs |-> <<>>]
    /\ serial = <<>>
    /\ handed = [i \in SinkIfs |-> <<>>]

\* What a character interface puts for c.
ProcessedOrRaw(i, c) == IF i = "processed" /\ c = NewLine THEN <<Return, c>> ELSE <<c>>

PutChar(i, c) ==
    /\ sink = "passthru"
    /\ char_out[i] = <<>>
    /\ char_out' = [char_out EXCEPT ![i] = ProcessedOrRaw(i, c)]
    /\ handed' = [handed EXCEPT ![i] = @ \o ProcessedOrRaw(i, c)]
    /\ UNCHANGED <<sink, batch, in_call, serial>>

\* sink_putchar
CharToSerial(i) ==
    /\ char_out[i] # <<>>
    /\ serial' = Append(serial, [from |-> i, byte |-> Head(char_out[i])])
    /\ char_out' = [char_out EXCEPT ![i] = Tail(@)]
    /\ UNCHANGED <<sink, batch, in_call, handed>>

Sound(b) == b.head <= b.tail /\ b.tail <= BufSize

\* The client fills the buffer and calls.  Its indices may be wrong.
CallBatch(b) ==
    /\ ~in_call
    /\ batch' = b
    /\ in_call' = TRUE
    /\ handed' = IF Sound(b) /\ sink # "null"
                 THEN [handed EXCEPT !["batch"] = @ \o SubSeq(b.buf, b.head + 1, b.tail)]
                 ELSE handed
    /\ UNCHANGED <<sink, char_out, serial>>

\* Wrong indices: the buffer is emptied.
RejectBatch ==
    /\ in_call /\ sink # "null" /\ ~Sound(batch)
    /\ batch' = [batch EXCEPT !.head = 0, !.tail = 0]
    /\ in_call' = FALSE
    /\ UNCHANGED <<sink, char_out, serial, handed>>

BatchToSerialFromNext ==
    /\ in_call /\ sink # "null" /\ Sound(batch)
    /\ batch.head < batch.tail
    /\ serial' = IF batch.head + 2 > BufSize THEN serial
                 ELSE Append(serial, [from |-> "batch", byte |-> batch.buf[batch.head + 2]])
    /\ batch' = [batch EXCEPT !.head = @ + 1]
    /\ UNCHANGED <<sink, in_call, char_out, handed>>

BatchToSerial ==
    /\ in_call /\ sink # "null" /\ Sound(batch)
    /\ batch.head < batch.tail
    /\ serial' = Append(serial, [from |-> "batch", byte |-> batch.buf[batch.head + 1]])
    /\ batch' = [batch EXCEPT !.head = @ + 1]
    /\ UNCHANGED <<sink, in_call, char_out, handed>>

\* All is printed, or NullSink skips it.
ReturnBatch ==
    /\ in_call
    /\ \/ sink # "null" /\ batch.head = batch.tail /\ Sound(batch) /\ UNCHANGED batch
       \/ sink = "null" /\ batch' = [batch EXCEPT !.head = batch.tail]
    /\ in_call' = FALSE
    /\ UNCHANGED <<sink, char_out, serial, handed>>

SinkStep ==
    \/ \E i \in CharIfs : CharToSerial(i)
    \/ RejectBatch \/ BatchToSerial \/ ReturnBatch
=============================================================================
