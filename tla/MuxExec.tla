------------------------------ MODULE MuxExec ------------------------------
(***************************************************************************)
(* virtioso-mux-exec: it enrolls with virtioso-muxd, starts a command and  *)
(* forwards what the command writes to stdout and stderr.  Two tasks read  *)
(* the pipes, one waits for the command, and the main task takes chunks    *)
(* from a bounded channel and writes them to the socket.                   *)
(*                                                                         *)
(* The command may leave behind a process that holds a pipe open, so that  *)
(* its end is never seen: after the command has exited the main task waits *)
(* for chunks only until a deadline.                                       *)
(***************************************************************************)
EXTENDS Integers, Sequences, SequencesExt, FiniteSets

CONSTANTS
    Pipes,      \* stdout and stderr
    ReadSize,   \* size of a reader's buffer (4096)
    ChanCap,    \* capacity of the channel (64)
    MaxOut      \* bound: bytes written to the pipes

ASSUME ExecAssumption ==
    /\ IsFiniteSet(Pipes)
    /\ {ReadSize, ChanCap} \subseteq Nat \ {0} /\ MaxOut \in Nat

\* mux-exec never looks at a byte: the n-th byte of all output is called n.
OutBytes == 1..MaxOut

VARIABLES
    \* the command and what it leaves behind
    child,      \* "none", "runs", "exited"
    holders,    \* who can write to each pipe: "child", "grandchild"
    pipe,       \* what each pipe holds
    \* the tasks
    reader,     \* of each pipe: "none", "read", "send", "done"
    chunk,      \* the bytes each reader has read and not yet queued
    chan,       \* the channel: chunks with the pipe they come from
    exit_rx,    \* the exit status has been received from the waiting task
    main,       \* what the main task awaits
    data,       \* the chunk it is writing
    deadline,   \* "none", "set" or "passed"
    code,       \* its exit code: "child" the command's own, "failed" 1
    \* virtioso-muxd
    muxd,       \* it listens, and reads the connection
    \* history
    total,      \* number of bytes written to the pipes
    written,    \* what was written to each pipe
    arrived     \* what was written to the socket, by pipe

command == <<child, holders, pipe, total, written>>
readers == <<reader, chunk>>
mainVars == <<main, data, deadline, code, arrived>>
evars   == <<command, readers, chan, exit_rx, mainVars, muxd>>

ETypeOK ==
    /\ child \in {"none", "runs", "exited"}
    /\ holders \in [Pipes -> SUBSET {"child", "grandchild"}]
    /\ pipe \in [Pipes -> Seq(OutBytes)]
    /\ reader \in [Pipes -> {"none", "read", "send", "done"}]
    /\ chunk \in [Pipes -> Seq(OutBytes)]
    /\ chan \in Seq([from: Pipes, bytes: Seq(OutBytes)])
    /\ Len(chan) <= ChanCap
    /\ exit_rx \in BOOLEAN
    /\ main \in {"connect", "enroll", "select", "write", "await", "drain", "drainWrite", "over"}
    /\ data \in Seq([from: Pipes, bytes: Seq(OutBytes)]) /\ Len(data) <= 1
    /\ deadline \in {"none", "set", "passed"}
    /\ code \in {"none", "child", "failed"}
    /\ muxd \in BOOLEAN
    /\ total \in 0..MaxOut
    /\ written \in [Pipes -> Seq(OutBytes)]
    /\ arrived \in [Pipes -> Seq(OutBytes)]

EInit ==
    /\ child = "none"
    /\ holders = [p \in Pipes |-> {}]
    /\ pipe = [p \in Pipes |-> <<>>]
    /\ reader = [p \in Pipes |-> "none"]
    /\ chunk = [p \in Pipes |-> <<>>]
    /\ chan = <<>>
    /\ exit_rx = FALSE
    /\ main = "connect"
    /\ data = <<>>
    /\ deadline = "set"
    /\ code = "none"
    /\ muxd = FALSE
    /\ total = 0
    /\ written = [p \in Pipes |-> <<>>]
    /\ arrived = [p \in Pipes |-> <<>>]

-----------------------------------------------------------------------------
(* The surroundings: the daemon, the command, the clock.                   *)

\* muxd starts to listen, at last, or is gone.
MuxdChanges ==
    /\ \/ ~muxd /\ main = "connect" /\ muxd' = TRUE
       \/ muxd /\ main # "connect" /\ muxd' = FALSE
    /\ UNCHANGED <<command, readers, chan, exit_rx, mainVars>>

\* The command, or a process it left behind, writes.
Output(p) ==
    /\ holders[p] # {}
    /\ total < MaxOut
    /\ total' = total + 1
    /\ pipe' = [pipe EXCEPT ![p] = Append(@, total + 1)]
    /\ written' = [written EXCEPT ![p] = Append(@, total + 1)]
    /\ UNCHANGED <<child, holders, readers, chan, exit_rx, mainVars, muxd>>

\* The command starts a process that inherits the pipe.
Fork(p) ==
    /\ "child" \in holders[p] /\ "grandchild" \notin holders[p]
    /\ holders' = [holders EXCEPT ![p] = @ \cup {"grandchild"}]
    /\ UNCHANGED <<child, pipe, total, written, readers, chan, exit_rx, mainVars, muxd>>

\* Either of them closes the pipe.
ClosePipe(p) ==
    /\ \E h \in holders[p] : holders' = [holders EXCEPT ![p] = @ \ {h}]
    /\ UNCHANGED <<child, pipe, total, written, readers, chan, exit_rx, mainVars, muxd>>

ChildExits ==
    /\ child = "runs"
    /\ child' = "exited"
    /\ holders' = [p \in Pipes |-> holders[p] \ {"child"}]
    /\ UNCHANGED <<pipe, total, written, readers, chan, exit_rx, mainVars, muxd>>

\* Ten seconds from the start, two seconds from the exit of the command
DeadlinePasses ==
    /\ deadline = "set"
    /\ deadline' = "passed"
    /\ UNCHANGED <<command, readers, chan, exit_rx, main, data, code, arrived, muxd>>

-----------------------------------------------------------------------------
(* The readers of the pipes and the waiting task.                          *)

ReadPipe(p) ==
    /\ reader[p] = "read"
    /\ \E n \in 1..ReadSize :
          /\ n <= Len(pipe[p])
          /\ chunk' = [chunk EXCEPT ![p] = SubSeq(pipe[p], 1, n)]
          /\ pipe' = [pipe EXCEPT ![p] = SubSeq(@, n + 1, Len(@))]
    /\ reader' = [reader EXCEPT ![p] = "send"]
    /\ UNCHANGED <<child, holders, total, written, chan, exit_rx, mainVars, muxd>>

\* End of file: everyone who could write has closed.
AtEofWithChild(p) == pipe[p] = <<>> /\ "child" \notin holders[p]
AtEof(p) == pipe[p] = <<>> /\ holders[p] = {}

ReadEof(p) ==
    /\ reader[p] = "read"
    /\ AtEof(p)
    /\ reader' = [reader EXCEPT ![p] = "done"]
    /\ UNCHANGED <<command, chunk, chan, exit_rx, mainVars, muxd>>

HasRoomOffByOne == Len(chan) <= ChanCap
HasRoom == Len(chan) < ChanCap

SendChunkOrDrop(p) ==
    /\ reader[p] = "send"
    /\ chan' = IF HasRoom THEN Append(chan, [from |-> p, bytes |-> chunk[p]]) ELSE chan
    /\ chunk' = [chunk EXCEPT ![p] = <<>>]
    /\ reader' = [reader EXCEPT ![p] = "read"]
    /\ UNCHANGED <<command, exit_rx, mainVars, muxd>>

\* tx.send: waits for a place in the channel.
SendChunk(p) ==
    /\ reader[p] = "send"
    /\ HasRoom
    /\ chan' = Append(chan, [from |-> p, bytes |-> chunk[p]])
    /\ chunk' = [chunk EXCEPT ![p] = <<>>]
    /\ reader' = [reader EXCEPT ![p] = "read"]
    /\ UNCHANGED <<command, exit_rx, mainVars, muxd>>

\* child.wait() has returned and its result is sent.
ReportExit ==
    /\ child = "exited" /\ ~exit_rx
    /\ exit_rx' = TRUE
    /\ UNCHANGED <<command, readers, chan, mainVars, muxd>>

-----------------------------------------------------------------------------
(* The main task.                                                          *)

Exit(c) == main' = "over" /\ code' = c

\* connect_with_retry: it tries every 200 ms until it can or the time is up.
Connect ==
    /\ main = "connect"
    /\ \/ muxd /\ main' = "enroll" /\ deadline' = "none" /\ UNCHANGED code
       \/ ~muxd /\ deadline = "passed" /\ Exit("failed") /\ UNCHANGED deadline
    /\ UNCHANGED <<command, readers, chan, exit_rx, data, arrived, muxd>>

\* The name is sent and the stream ID received; then the command is started.
\* No ID is left, the name is too long, the connection breaks, or the command
\* cannot be started.
Enroll ==
    /\ main = "enroll"
    /\ \/ /\ muxd
          /\ main' = "select"
          /\ child' = "runs"
          /\ holders' = [p \in Pipes |-> {"child"}]
          /\ reader' = [p \in Pipes |-> "read"]
          /\ UNCHANGED code
       \/ /\ Exit("failed")
          /\ UNCHANGED <<child, holders, reader>>
    /\ UNCHANGED <<pipe, total, written, chunk, chan, exit_rx, data, deadline, arrived, muxd>>

\* rx.recv() has a chunk; select! is biased towards it.
TakeChunk ==
    /\ chan # <<>>
    /\ \/ main = "select" /\ main' = "write"
       \/ main = "drain" /\ main' = "drainWrite"
    /\ data' = <<Head(chan)>>
    /\ chan' = Tail(chan)
    /\ UNCHANGED <<command, readers, exit_rx, deadline, code, arrived, muxd>>

\* write_all, a byte at a time.
WriteByte ==
    /\ main \in {"write", "drainWrite"}
    /\ muxd
    /\ LET p == data[1].from
           b == data[1].bytes
       IN  /\ arrived' = [arrived EXCEPT ![p] = Append(@, Head(b))]
           /\ data' = IF Len(b) = 1 THEN <<>> ELSE <<[from |-> p, bytes |-> Tail(b)]>>
    /\ main' = IF data' # <<>> THEN main
               ELSE IF main = "write" THEN "select" ELSE "drain"
    /\ UNCHANGED <<command, readers, chan, exit_rx, deadline, code, muxd>>

\* The socket is broken: fatal in the first loop, ignored in the second.
WriteFails ==
    /\ ~muxd
    /\ \/ main = "write" /\ Exit("failed")
       \/ main = "drainWrite" /\ main' = "drain" /\ UNCHANGED code
    /\ data' = <<>>
    /\ UNCHANGED <<command, readers, chan, exit_rx, deadline, arrived, muxd>>

\* rx.recv() returns None: every reader has ended and the channel is empty.
Closed == chan = <<>> /\ \A p \in Pipes : reader[p] = "done"

ChannelCloses ==
    /\ Closed
    /\ \/ main = "select" /\ main' = "await" /\ UNCHANGED code
       \/ main = "drain" /\ Exit("child")
    /\ UNCHANGED <<command, readers, chan, exit_rx, data, deadline, arrived, muxd>>

\* exit_rx.await after the last chunk
AwaitExit ==
    /\ main = "await" /\ exit_rx
    /\ Exit("child")
    /\ UNCHANGED <<command, readers, chan, exit_rx, data, deadline, arrived, muxd>>

NoticeExitAndLeave ==
    /\ main = "select" /\ exit_rx
    /\ chan = <<>> /\ ~Closed
    /\ Exit("child")
    /\ UNCHANGED <<command, readers, chan, exit_rx, data, deadline, arrived, muxd>>

\* The second branch of select!, when the first is not ready.
NoticeExit ==
    /\ main = "select" /\ exit_rx
    /\ chan = <<>> /\ ~Closed
    /\ main' = "drain"
    /\ deadline' = "set"
    /\ UNCHANGED <<command, readers, chan, exit_rx, data, code, arrived, muxd>>

NeverGivesUp == FALSE
\* timeout_at: a chunk that is there is returned even after the deadline.
GiveUp ==
    /\ main = "drain"
    /\ deadline = "passed"
    /\ chan = <<>>
    /\ Exit("child")
    /\ UNCHANGED <<command, readers, chan, exit_rx, data, deadline, arrived, muxd>>

-----------------------------------------------------------------------------
Reader(p) == ReadPipe(p) \/ ReadEof(p) \/ SendChunk(p)

Main ==
    \/ Connect \/ Enroll \/ TakeChunk \/ WriteByte \/ WriteFails
    \/ ChannelCloses \/ AwaitExit \/ NoticeExit \/ GiveUp

Surroundings ==
    \/ MuxdChanges
    \/ \E p \in Pipes : Fork(p) \/ ClosePipe(p) \/ Output(p)
    \/ ChildExits

\* The process is gone with the main task, and its tasks with it.
ENext ==
    /\ main # "over"
    /\ \/ Surroundings \/ DeadlinePasses \/ ReportExit \/ Main
       \/ \E p \in Pipes : Reader(p)

ESpec == EInit /\ [][ENext]_evars

\* The runtime polls every task that can go on, senders get their place in the
\* channel in turn, time passes, and a muxd that is there reads the connection.
\* Nothing is assumed of the command or of the processes it leaves behind.
EFairness ==
    /\ WF_evars(ENext /\ Main)
    /\ WF_evars(ENext /\ ReportExit)
    /\ WF_evars(ENext /\ DeadlinePasses)
    /\ \A p \in Pipes : SF_evars(ENext /\ Reader(p))

EFairSpec == ESpec /\ EFairness

-----------------------------------------------------------------------------
(* Properties.                                                             *)

PipeChannels == INSTANCE StreamChannels WITH
    Ids       <- Pipes,
    Bytes     <- OutBytes,
    accepted  <- written,
    delivered <- arrived

\* What is written to the socket is, for each pipe, what was written to the pipe,
\* from its beginning and in order, although two tasks feed one channel and the
\* connection or the time may end inside a chunk.
ImplementsPipes == PipeChannels!CSpec

\* When mux-exec ends with the exit code of the command, the command is over;
\* and all output has been handed to muxd before the connection is closed, unless
\* the connection broke or the drain ran into its deadline, in which case some
\* process still holds a pipe or what it wrote came late.
CleanExitIsComplete ==
    code = "child" =>
        /\ child = "exited"
        /\ (muxd /\ deadline # "passed") => arrived = written

\* After the command has exited mux-exec ends, also when a process it left
\* behind holds a pipe open for ever, and when muxd is gone.
ExecEnds == (child = "exited") ~> (main = "over")

\* A command that is never waited for does not keep output back: every byte gets
\* to the socket in the end, unless muxd goes away or the deadline cuts it off.
ForwardsWhileConnected ==
    [](main # "connect" => muxd /\ deadline # "passed") => PipeChannels!Delivers
=============================================================================
