----------------------------- MODULE HostDemux -----------------------------
(***************************************************************************)
(* The uplink half of the host demuxer (host/tcu_com.c, -A mode): the tty  *)
(* thread reads bytes of the physical link, undoes the outer NVIDIA layer, *)
(* parses VCMux framing and control records, keeps the table of streams    *)
(* and their PTYs, and writes payload to the PTY (and log) of the stream.  *)
(*                                                                         *)
(* One step is one byte of tty_input_handler's inner loop: the loop and    *)
(* everything it calls run in one thread.  Init is the state main leaves   *)
(* when it has created the built-in PTYs and started their threads.        *)
(***************************************************************************)
EXTENDS VCMux, FiniteSets

CONSTANTS
    MaxPty,     \* VIRTIOSO_MAX_PTY_COUNT, size of tags and pty_data (257)
    OuterMode,  \* -O: "raw" or "nvidia-tcu"
    ChipTags,   \* the values of chip_tags
    OuterTag,   \* -C: the chip tag that carries VCMux
    Faults      \* which calls of the operating system may fail:
                \* "alloc" calloc/strdup, "openpt" create_pty_at_index,
                \* "log" write to a log file, "pty" write to a PTY,
                \* "tty" read from or open the tty device

\* Seven is the least ByteMax that keeps the four control types apart from the
\* reserved bytes.
ASSUME ControlTypesAssumption == ByteMax >= 7
ASSUME MaxPtyAssumption == MaxPty \in Nat /\ MaxPty >= 3
ASSUME OuterAssumption ==
    /\ OuterMode \in {"raw", "nvidia-tcu"}
    /\ ChipTags \subseteq Byte \ {OUTER_ESC, OUTER_RESET}
    /\ OuterTag \in ChipTags
ASSUME FaultsAssumption == Faults \subseteq {"alloc", "openpt", "log", "pty", "tty"}

VARIABLES
    \* locals of tty_input_handler
    alive,                  \* the thread has not left its loop
    outer_in_escape,        \* virtioso_outer_in_escape
    cur_outer_tag,          \* tag value, -1 for none
    in_escape,              \* virtioso_in_escape
    cur_rx_stream,          \* index of the PTY, -1 for none
    control_state,
    control_registry_len,
    control_registry_json,  \* the bytes stored so far; Len is control_registry_pos
    \* globals
    pending_ctrl_type,
    virtioso_registry_json, \* the registry that was applied, <<>> for NULL
    tags,                   \* name, value and input flag of each stream
    num_proc,               \* streams in tags; pty_max_count between two bytes
    opened,                 \* indices whose PTY has been created
    threads,                \* indices with a pty_input_handler thread
    downlink_ack_count,
    out                     \* what has been written to each stream's log and PTY

parser  == <<in_escape, cur_rx_stream>>
outer   == <<outer_in_escape, cur_outer_tag>>
control == <<control_state, control_registry_len, control_registry_json, pending_ctrl_type>>
table   == <<tags, num_proc, opened, threads>>
vars    == <<alive, outer, parser, control, virtioso_registry_json, table,
             downlink_ack_count, out>>

PtyIdx == 0..(MaxPty - 1)

ControlStates == {"IDLE", "CMD", "REGISTRY_LEN_HI", "REGISTRY_LEN_LO", "REGISTRY_JSON",
                  "ANNOUNCE_LEN_HI", "ANNOUNCE_LEN_LO", "ANNOUNCE_PAYLOAD"}

\* The built-in PTYs
RAW_CCPLEX            == 0
AUTOPILOT_CONTROL     == 1
PHYSICAL_UART_DEFAULT == 2
BuiltinCount          == 3

Tag   == [name: Seq(Byte), value: Byte, input: BOOLEAN]
NoTag == [name |-> <<>>, value |-> 0, input |-> FALSE]

\* cur_rx_stream when bytes belong to no stream
NoStreamIsDefaultTag == 0
NoStream == -1

\* One symbol names each built-in stream.
BuiltinTag(i) == [name |-> <<i>>, value |-> 0, input |-> TRUE]

Registered == 0..(num_proc - 1)

TypeOK ==
    /\ alive \in BOOLEAN
    /\ outer_in_escape \in BOOLEAN
    /\ cur_outer_tag \in ChipTags \cup {-1}
    /\ in_escape \in BOOLEAN
    /\ cur_rx_stream \in PtyIdx \cup {-1}
    /\ control_state \in ControlStates
    /\ control_registry_len \in Nat
    /\ control_registry_json \in Seq(Byte)
    /\ pending_ctrl_type \in Byte
    /\ virtioso_registry_json \in Seq(Byte)
    /\ tags \in [PtyIdx -> Tag]
    /\ num_proc \in BuiltinCount..MaxPty
    /\ opened \subseteq PtyIdx
    /\ threads \subseteq PtyIdx
    /\ downlink_ack_count \in Nat
    /\ out \in [PtyIdx -> Seq(Byte)]

\* Before any thread is started.
InitTty ==
    /\ alive = TRUE
    /\ outer_in_escape = FALSE
    /\ cur_outer_tag = -1
    /\ in_escape = FALSE
    /\ cur_rx_stream = NoStream
    /\ control_state = "IDLE"
    /\ control_registry_len = 0
    /\ control_registry_json = <<>>
    /\ pending_ctrl_type = 0
    /\ virtioso_registry_json = <<>>
    /\ tags = [i \in PtyIdx |-> IF i < BuiltinCount THEN BuiltinTag(i) ELSE NoTag]
    /\ num_proc = BuiltinCount
    /\ opened = 0..(BuiltinCount - 1)
    /\ downlink_ack_count = 0
    /\ out = [i \in PtyIdx |-> <<>>]

Init == InitTty /\ threads = 0..(BuiltinCount - 1)

-----------------------------------------------------------------------------
(* Writing a byte to a stream.  Every operation below gets, as o, the      *)
(* output as the raw_ccplex mirror left it.                                *)

Put(o, i, ch) == [o EXCEPT ![i] = Append(@, ch)]

\* flush_stream: the log is written first and is authoritative; a PTY nobody
\* reads (EAGAIN, EIO) loses the byte silently, any other failure ends the thread.
FlushStream(o, i, ch) ==
    \/ out' = Put(o, i, ch) /\ alive' = TRUE
    \/ "log" \in Faults /\ out' = o /\ alive' = FALSE
    \/ "pty" \in Faults /\ out' = Put(o, i, ch) /\ alive' = FALSE

-----------------------------------------------------------------------------
(* The table of streams.                                                   *)

IsPtyOfByOrder(i, id) == i \in Registered /\ i + 1 = BuiltinCount + id
\* Index of the first stream with this ID, if there is one.
IsPtyOf(i, id) ==
    /\ i \in Registered
    /\ tags[i].value = id
    /\ \A j \in 0..(i - 1) : tags[j].value # id

Known(id) == \E i \in Registered : tags[i].value = id

NewTag(s) == [name |-> s.name, value |-> s.id, input |-> s.input]

\* The streams of a registry, without those that have no ID.
ListedStreams(text) ==
    LET all == RegistryStreams(text)
    IN  FlattenSeq([i \in DOMAIN all |-> IF all[i].id >= 0 THEN <<all[i]>> ELSE <<>>])

\* No room for n more streams
TableFullTooLate(n) == num_proc >= MaxPty + n
TableFull(n) == num_proc + n > MaxPty

\* No registered stream has the ID or the name of s.
FreshNameOnly(s) == \A i \in Registered : tags[i].name # s.name
Fresh(s) == \A i \in Registered : tags[i].value # s.id /\ tags[i].name # s.name

\* Every listed stream passes append_virtioso_stream, and there is one at least.
RegistryAcceptable(streams) ==
    /\ streams # <<>>
    /\ streams \in Seq([id: ValidStreamId, name: Seq(Byte), input: BOOLEAN])
    /\ ~TableFull(Len(streams))
    /\ \A k \in 1..Len(streams) :
          /\ Fresh(streams[k])
          /\ \A j \in 1..(k - 1) : /\ streams[j].id # streams[k].id
                                   /\ streams[j].name # streams[k].name

WithStreams(streams) ==
    [i \in PtyIdx |-> IF num_proc <= i /\ i < num_proc + Len(streams)
                      THEN NewTag(streams[i - num_proc + 1])
                      ELSE tags[i]]

\* PTYs of new streams that get an input thread
InputThreads(new) == {i \in DOMAIN new : new[i].input}

\* What a registry that fails leaves of the table: the streams before it.
RollbackToBuiltins ==
    /\ tags' = [i \in PtyIdx |-> IF i < BuiltinCount THEN tags[i] ELSE NoTag]
    /\ num_proc' = BuiltinCount
Rollback == UNCHANGED <<tags, num_proc>>

\* apply_virtioso_registry_json.  It fails as a whole: tags and num_proc go back
\* to what they were; PTYs and threads that had been created stay.
ApplyRegistry(text) ==
    LET streams  == ListedStreams(text)
        count    == num_proc + Len(streams)
        good     == WellFormedRegistry(text) /\ RegistryAcceptable(streams)
        \* the new streams whose PTY is created before index limit
        new(limit) == [i \in num_proc..(limit - 1) |-> WithStreams(streams)[i]]
    IN  \/ /\ good
           /\ tags' = WithStreams(streams)
           /\ num_proc' = count
           /\ opened' = opened \cup (num_proc..(count - 1))
           /\ threads' = threads \cup InputThreads(new(count))
           /\ alive' = TRUE
        \/ /\ good
           /\ "openpt" \in Faults
           /\ \E failed \in num_proc..(count - 1) :
                 /\ opened' = opened \cup (num_proc..(failed - 1))
                 /\ threads' = threads \cup InputThreads(new(failed))
           /\ Rollback
           /\ alive' = FALSE
        \/ /\ ~good \/ "alloc" \in Faults
           /\ Rollback
           /\ alive' = FALSE
           /\ UNCHANGED <<opened, threads>>

\* apply_virtioso_stream_connected: a new stream gets the next PTY, with no
\* downlink; it is dropped when the ID is known, the table is full or the PTY
\* cannot be created.
ApplyConnected(id, name) ==
    \/ /\ ~Known(id)
       /\ ~TableFull(1)
       /\ tags' = [tags EXCEPT ![num_proc] =
                      [name |-> name, value |-> id, input |-> FALSE]]
       /\ num_proc' = num_proc + 1
       /\ opened' = opened \cup {num_proc}
       /\ UNCHANGED threads
    \/ /\ \/ Known(id)
          \/ TableFull(1)
          \/ Faults \cap {"alloc", "openpt"} # {}
       /\ UNCHANGED table

-----------------------------------------------------------------------------
(* Control records: feed_virtioso_byte while control_state is not IDLE.    *)

ControlCommand(ch, o) ==
    /\ control_state = "CMD"
    /\ \/ /\ ch = STREAM_REGISTRY
          /\ control_state' = "REGISTRY_LEN_HI"
          /\ control_registry_len' = 0
          /\ UNCHANGED <<pending_ctrl_type, downlink_ack_count>>
       \/ /\ ch = DOWNLINK_ACK
          /\ downlink_ack_count' = downlink_ack_count + 1
          /\ control_state' = "IDLE"
          /\ UNCHANGED <<pending_ctrl_type, control_registry_len>>
       \/ /\ ch \in {STREAM_CONNECTED, STREAM_DISCONNECTED}
          /\ pending_ctrl_type' = ch
          /\ control_state' = "ANNOUNCE_LEN_HI"
          /\ control_registry_len' = 0
          /\ UNCHANGED downlink_ack_count
       \/ /\ ch \notin {STREAM_REGISTRY, DOWNLINK_ACK,
                        STREAM_CONNECTED, STREAM_DISCONNECTED}
          /\ control_state' = "IDLE"
          /\ UNCHANGED <<pending_ctrl_type, downlink_ack_count, control_registry_len>>
    /\ out' = o
    /\ UNCHANGED <<alive, parser, control_registry_json, virtioso_registry_json, table>>

ControlLenHi(ch, o) ==
    /\ \/ control_state = "REGISTRY_LEN_HI" /\ control_state' = "REGISTRY_LEN_LO"
       \/ control_state = "ANNOUNCE_LEN_HI" /\ control_state' = "ANNOUNCE_LEN_LO"
    /\ control_registry_len' = ch * (ByteMax + 1)
    /\ out' = o
    /\ UNCHANGED <<alive, parser, control_registry_json, pending_ctrl_type,
                   virtioso_registry_json, table, downlink_ack_count>>

\* An empty record, and a record there is no memory for, end here; the bytes
\* of the latter are then parsed as if no record had begun.
ControlLenLo(ch, o) ==
    /\ control_registry_len' = control_registry_len + ch
    /\ \/ /\ control_registry_len' # 0
          /\ \/ control_state = "REGISTRY_LEN_LO" /\ control_state' = "REGISTRY_JSON"
             \/ control_state = "ANNOUNCE_LEN_LO" /\ control_state' = "ANNOUNCE_PAYLOAD"
       \/ /\ control_state \in {"REGISTRY_LEN_LO", "ANNOUNCE_LEN_LO"}
          /\ control_registry_len' = 0 \/ "alloc" \in Faults
          /\ control_state' = "IDLE"
    /\ control_registry_json' = <<>>
    /\ out' = o
    /\ UNCHANGED <<alive, parser, pending_ctrl_type, virtioso_registry_json,
                   table, downlink_ack_count>>

\* The byte completes the record whose payload is being collected.
LastByte == Len(control_registry_json) + 1 >= control_registry_len

ControlPayload(ch, o) ==
    /\ control_state \in {"REGISTRY_JSON", "ANNOUNCE_PAYLOAD"}
    /\ ~LastByte
    /\ control_registry_json' = Append(control_registry_json, ch)
    /\ out' = o
    /\ UNCHANGED <<alive, parser, control_state, control_registry_len, pending_ctrl_type,
                   virtioso_registry_json, table, downlink_ack_count>>

\* Only the first registry is applied; one that cannot be applied ends the thread.
ControlRegistry(ch, o) ==
    /\ control_state = "REGISTRY_JSON"
    /\ LastByte
    /\ \/ /\ virtioso_registry_json = <<>>
          /\ virtioso_registry_json' = Append(control_registry_json, ch)
          /\ ApplyRegistry(Append(control_registry_json, ch))
          /\ control_state' = IF alive' THEN "IDLE" ELSE control_state
       \/ /\ virtioso_registry_json # <<>>
          /\ control_state' = "IDLE"
          /\ UNCHANGED <<alive, virtioso_registry_json, table>>
    /\ control_registry_json' = <<>>
    /\ out' = o
    /\ UNCHANGED <<parser, control_registry_len, pending_ctrl_type, downlink_ack_count>>

ControlAnnounce(ch, o) ==
    /\ control_state = "ANNOUNCE_PAYLOAD"
    /\ LastByte
    /\ LET payload == Append(control_registry_json, ch)
       IN  \/ /\ pending_ctrl_type = STREAM_CONNECTED
              /\ ApplyConnected(Head(payload), Tail(payload))
           \/ /\ pending_ctrl_type # STREAM_CONNECTED
              /\ UNCHANGED table
    /\ control_registry_json' = <<>>
    /\ control_state' = "IDLE"
    /\ out' = o
    /\ UNCHANGED <<alive, parser, control_registry_len, pending_ctrl_type,
                   virtioso_registry_json, downlink_ack_count>>

-----------------------------------------------------------------------------
(* Framing: feed_virtioso_byte while control_state is IDLE.                *)

\* 0xfe begins a framing sequence.
EscapeStart(ch, o) ==
    /\ control_state = "IDLE" /\ ~in_escape
    /\ ch = ESC
    /\ in_escape' = TRUE
    /\ out' = o
    /\ UNCHANGED <<alive, cur_rx_stream, control, virtioso_registry_json, table,
                   downlink_ack_count>>

EscapeDefaultKeepsStream(ch, o) ==
    /\ control_state = "IDLE" /\ in_escape
    /\ ch = DEFAULT
    /\ in_escape' = FALSE
    /\ out' = o
    /\ UNCHANGED <<alive, cur_rx_stream, control, virtioso_registry_json, table,
                   downlink_ack_count>>

\* 0xfe 0x00: back to unframed output.
EscapeDefault(ch, o) ==
    /\ control_state = "IDLE" /\ in_escape
    /\ ch = DEFAULT
    /\ in_escape' = FALSE
    /\ cur_rx_stream' = NoStream
    /\ out' = o
    /\ UNCHANGED <<alive, control, virtioso_registry_json, table, downlink_ack_count>>

\* 0xfe 0xfe: a literal 0xfe of the current stream, dropped when there is none.
EscapeEscape(ch, o) ==
    /\ control_state = "IDLE" /\ in_escape
    /\ ch = ESC
    /\ in_escape' = FALSE
    /\ \/ cur_rx_stream >= 0 /\ FlushStream(o, cur_rx_stream, ch)
       \/ cur_rx_stream < 0 /\ out' = o /\ UNCHANGED alive
    /\ UNCHANGED <<cur_rx_stream, control, virtioso_registry_json, table,
                   downlink_ack_count>>

\* 0xfe 0xfd: a control record; the current stream stays selected.
EscapeControl(ch, o) ==
    /\ control_state = "IDLE" /\ in_escape
    /\ ch = CONTROL
    /\ in_escape' = FALSE
    /\ control_state' = "CMD"
    /\ out' = o
    /\ UNCHANGED <<alive, cur_rx_stream, control_registry_len, control_registry_json,
                   pending_ctrl_type, virtioso_registry_json, table, downlink_ack_count>>

\* 0xfe S: select stream S, or no stream when S is not known.
EscapeStream(ch, o) ==
    /\ control_state = "IDLE" /\ in_escape
    /\ ch \notin {DEFAULT, ESC, CONTROL}
    /\ in_escape' = FALSE
    /\ \/ \E i \in Registered : IsPtyOf(i, ch) /\ cur_rx_stream' = i
       \/ ~Known(ch) /\ cur_rx_stream' = NoStream
    /\ out' = o
    /\ UNCHANGED <<alive, control, virtioso_registry_json, table, downlink_ack_count>>

\* Any other byte is payload of the current stream, or unframed output.
Payload(ch, o) ==
    /\ control_state = "IDLE" /\ ~in_escape
    /\ ch # ESC
    /\ FlushStream(o, IF cur_rx_stream < 0 THEN PHYSICAL_UART_DEFAULT ELSE cur_rx_stream, ch)
    /\ UNCHANGED <<parser, control, virtioso_registry_json, table, downlink_ack_count>>

FeedVirtiosoByte(ch, o) ==
    \/ ControlCommand(ch, o)
    \/ ControlLenHi(ch, o)
    \/ ControlLenLo(ch, o)
    \/ ControlPayload(ch, o)
    \/ ControlRegistry(ch, o)
    \/ ControlAnnounce(ch, o)
    \/ EscapeStart(ch, o)
    \/ EscapeDefault(ch, o)
    \/ EscapeEscape(ch, o)
    \/ EscapeControl(ch, o)
    \/ EscapeStream(ch, o)
    \/ Payload(ch, o)

-----------------------------------------------------------------------------
(* The outer layer: feed_nvidia_outer_or_virtioso_raw.                     *)

\* The output with the byte mirrored to raw_ccplex
MirroredUnframedOnly(ch) == IF cur_rx_stream < 0 THEN Put(out, RAW_CCPLEX, ch) ELSE out
Mirrored(ch) == Put(out, RAW_CCPLEX, ch)

\* Mirror the byte to raw_ccplex, then parse it.  When the mirror cannot be
\* written the byte is not parsed and the thread ends.
MirrorAndFeed(ch) ==
    \/ FeedVirtiosoByte(ch, Mirrored(ch))
    \/ /\ \/ "log" \in Faults /\ out' = out
          \/ "pty" \in Faults /\ out' = Mirrored(ch)
       /\ alive' = FALSE
       /\ UNCHANGED <<parser, control, virtioso_registry_json, table, downlink_ack_count>>

UnchangedInner ==
    UNCHANGED <<alive, parser, control, virtioso_registry_json, table,
                downlink_ack_count, out>>

RawByte(ch) ==
    /\ OuterMode = "raw"
    /\ MirrorAndFeed(ch)
    /\ UNCHANGED outer

\* A byte of the chip tag that carries VCMux, or of another one.
OuterPayload(ch) ==
    /\ OuterMode = "nvidia-tcu" /\ ~outer_in_escape
    /\ ch # OUTER_ESC
    /\ \/ cur_outer_tag = OuterTag /\ MirrorAndFeed(ch)
       \/ cur_outer_tag # OuterTag /\ UnchangedInner
    /\ UNCHANGED outer

OuterEscapeStart(ch) ==
    /\ OuterMode = "nvidia-tcu" /\ ~outer_in_escape
    /\ ch = OUTER_ESC
    /\ outer_in_escape' = TRUE
    /\ UNCHANGED cur_outer_tag
    /\ UnchangedInner

\* 0xff 0xff: a literal 0xff; this one is not mirrored to raw_ccplex.
OuterEscapeEscape(ch) ==
    /\ OuterMode = "nvidia-tcu" /\ outer_in_escape
    /\ ch = OUTER_ESC
    /\ outer_in_escape' = FALSE
    /\ \/ cur_outer_tag = OuterTag /\ FeedVirtiosoByte(OUTER_ESC, out)
       \/ cur_outer_tag # OuterTag /\ UnchangedInner
    /\ UNCHANGED cur_outer_tag

\* 0xff 0xfd: the target restarted.  A control record in progress goes on.
OuterReset(ch) ==
    /\ OuterMode = "nvidia-tcu" /\ outer_in_escape
    /\ ch = OUTER_RESET
    /\ outer_in_escape' = FALSE
    /\ cur_outer_tag' = -1
    /\ cur_rx_stream' = NoStream
    /\ in_escape' = FALSE
    /\ UNCHANGED <<alive, control, virtioso_registry_json, table, downlink_ack_count, out>>

OuterTagSwitchEndsEscape(ch) ==
    /\ OuterMode = "nvidia-tcu" /\ outer_in_escape
    /\ ch \notin {OUTER_ESC, OUTER_RESET}
    /\ outer_in_escape' = FALSE
    /\ cur_outer_tag' = IF ch \in ChipTags THEN ch ELSE cur_outer_tag
    /\ in_escape' = FALSE
    /\ UNCHANGED <<alive, cur_rx_stream, control, virtioso_registry_json, table,
                   downlink_ack_count, out>>

\* 0xff T: the next bytes are those of chip tag T; an unknown T is ignored.
OuterTagSwitch(ch) ==
    /\ OuterMode = "nvidia-tcu" /\ outer_in_escape
    /\ ch \notin {OUTER_ESC, OUTER_RESET}
    /\ outer_in_escape' = FALSE
    /\ cur_outer_tag' = IF ch \in ChipTags THEN ch ELSE cur_outer_tag
    /\ UnchangedInner

\* One byte of the link, while the tty thread runs.
Feed(ch) ==
    /\ alive
    /\ \/ RawByte(ch)
       \/ OuterPayload(ch)
       \/ OuterEscapeStart(ch)
       \/ OuterEscapeEscape(ch)
       \/ OuterReset(ch)
       \/ OuterTagSwitch(ch)

Next == \E ch \in Byte : Feed(ch)

Spec == Init /\ [][Next]_vars

-----------------------------------------------------------------------------
(* Properties.                                                             *)

\* The PTYs that were created for stream ID id.
StreamPtys(id) == {p \in Registered : p >= BuiltinCount /\ tags[p].value = id}

\* What the PTY of the stream has received, and nothing if it has no PTY.
Delivered(id) ==
    IF StreamPtys(id) = {} THEN <<>> ELSE out[CHOOSE p \in StreamPtys(id) : TRUE]

\* The parser never holds a stream whose PTY could be missing: the current
\* stream is a registered, created PTY that is not a built-in one, and its ID
\* is one that framing can select.  pty_data[cur_rx_stream].fd is used without
\* a check, and a failed registry shrinks the table under the cursor.
CursorIsOpenStream ==
    cur_rx_stream >= 0 =>
        /\ cur_rx_stream \in Registered \cap opened
        /\ cur_rx_stream >= BuiltinCount
        /\ tags[cur_rx_stream].value \in ValidStreamId

\* No two streams share an ID, whether a registry or CONNECTED records brought
\* them: otherwise the lookup, which takes the first match, hides the second.
DistinctStreamIds ==
    \A i, j \in Registered :
        (i # j /\ i >= BuiltinCount /\ j >= BuiltinCount) =>
            tags[i].value # tags[j].value

\* A registered stream keeps its PTY, ID and name for as long as the program
\* runs, through rollbacks of half-applied registries and failed PTYs; what was
\* written to a stream is never taken back.
TableOnlyGrows ==
    [][ /\ num_proc' >= num_proc
        /\ \A i \in Registered : tags'[i] = tags[i]
        /\ \A i \in PtyIdx : IsPrefix(out[i], out'[i]) ]_vars

\* A stream has a thread that forwards what is typed into its PTY only if it is
\* built in or the registry gives it an input direction; a stream brought by a
\* CONNECTED record is "demux-only, no downlink" (apply_virtioso_stream_connected).
ThreadsOnlyForInput ==
    \A i \in threads \cap Registered : tags[i].input
=============================================================================
