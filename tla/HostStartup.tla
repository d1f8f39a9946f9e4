---------------------------- MODULE HostStartup ----------------------------
(***************************************************************************)
(* The end of main in host/tcu_com.c: the tty thread is started first, and *)
(* the loop that starts the threads of the PTYs runs while it parses what  *)
(* the target sends.  The loop ends at pty_max_count, which the tty thread *)
(* raises for every stream it adds.                                        *)
(* The program as a whole: HostUplink's tty thread, with main beside it.   *)
(***************************************************************************)
EXTENDS HostUplink

VARIABLE
    i_pty       \* main's loop index: it has started the threads below it

SInit ==
    /\ InitTty
    /\ threads = {}
    /\ LinkInit
    /\ i_pty = 0

\* create_thread_with_stack(&pty_thread[i], pty_input_handler, pty)
SpawnPtyThread ==
    /\ i_pty < num_proc
    /\ threads' = threads \cup {i_pty}
    /\ i_pty' = i_pty + 1
    /\ UNCHANGED <<alive, outer, parser, control, virtioso_registry_json, tags, num_proc,
                   opened, downlink_ack_count, out, wire, sent, noise, losses,
                   faulted, start>>

MainJoinsEarly ==
    /\ i_pty >= num_proc - 1 /\ i_pty < MaxPty
    /\ i_pty' = MaxPty
    /\ UNCHANGED uvars

\* The loop ends: main waits for the tty thread.
MainJoins ==
    /\ i_pty >= num_proc /\ i_pty < MaxPty
    /\ i_pty' = MaxPty
    /\ UNCHANGED uvars

TtyThread == UNext /\ UNCHANGED i_pty

SNext == SpawnPtyThread \/ MainJoins \/ TtyThread

SSpec == SInit /\ [][SNext]_<<uvars, i_pty>>

-----------------------------------------------------------------------------
(* Properties.                                                             *)

\* Once main has left its loop every stream with an input direction has a thread
\* that reads its PTY, whether main's loop or the tty thread started it, and
\* however the registry arrives between two turns of the loop.
StreamsWithInputAreServed ==
    i_pty = MaxPty => \A i \in Registered : tags[i].input => i \in threads
=============================================================================
