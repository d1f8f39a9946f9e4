------------------------------ MODULE TtyLock ------------------------------
(***************************************************************************)
(* How instances of the host demuxer (host/tcu_com.c) share a serial       *)
(* device.  Each takes the UUCP lock file, which terminal programs use     *)
(* too, then an fcntl lock on the device itself.  A lock file whose        *)
(* process is dead is removed; when the device hangs up the instance       *)
(* closes it, which gives the fcntl lock back, and opens it again.         *)
(*                                                                         *)
(* A process is its pid.  A pid that has died may be given out again.      *)
(* A device that was unplugged comes back under the same name as another   *)
(* one: locks are held on the device that was opened, so devices are       *)
(* numbered.                                                               *)
(***************************************************************************)
EXTENDS Integers, FiniteSets

CONSTANTS
    Procs,      \* pids of demuxer instances
    Retries,    \* attempts to open and to lock the device (240)
    MaxStarts,  \* bound: processes started
    MaxPlugs    \* bound: times the device hangs up or is plugged in anew

ASSUME LockAssumption ==
    /\ IsFiniteSet(Procs)
    /\ {Retries, MaxStarts, MaxPlugs} \subseteq Nat

VARIABLES
    pc,         \* where each process is
    uucp_locked,\* it has created the lock file
    reopening,  \* it opens the device again; the threads are there already
    retries,    \* attempts left in the loop it is in
    fd,         \* the device it has opened
    creator,    \* of the lock file: a set with at most one process, {} no file
    pid,        \* content of the lock file: a set with at most one process
    device,     \* the device that has the name now, 0 for none
    starts, plugs, \* counters for the bounds
    \* history
    raced,      \* two processes have found the lock file stale at the same time
    crashed,    \* a process has ended without a chance to unlock
    stray       \* a process has written to the device while another used it

lockFile == <<creator, pid>>
locals == <<uucp_locked, reopening, retries, fd>>
world == <<device, starts, plugs>>
lvars == <<pc, locals, lockFile, world, raced, crashed, stray>>

Places == {"dead", "check", "stale", "create", "write", "open", "lock", "lockopen", "greet", "use"}

LTypeOK ==
    /\ pc \in [Procs -> Places]
    /\ uucp_locked \in [Procs -> BOOLEAN]
    /\ reopening \in [Procs -> BOOLEAN]
    /\ retries \in [Procs -> 0..Retries]
    /\ fd \in [Procs -> Nat]
    /\ creator \subseteq Procs /\ pid \subseteq Procs
    /\ device \in Nat /\ starts \in Nat /\ plugs \in Nat
    /\ raced \in BOOLEAN /\ crashed \in BOOLEAN /\ stray \in BOOLEAN

LInit ==
    /\ pc = [p \in Procs |-> "dead"]
    /\ uucp_locked = [p \in Procs |-> FALSE]
    /\ reopening = [p \in Procs |-> FALSE]
    /\ retries = [p \in Procs |-> 0]
    /\ fd = [p \in Procs |-> 0]
    /\ creator = {} /\ pid = {}
    /\ device = 1
    /\ starts = 0 /\ plugs = 0
    /\ raced = FALSE /\ crashed = FALSE /\ stray = FALSE

Go(p, place) == pc' = [pc EXCEPT ![p] = place]

\* The process is over, and the lock file is left as it is.
Dies(p) ==
    /\ Go(p, "dead")
    /\ uucp_locked' = [uucp_locked EXCEPT ![p] = FALSE]
    /\ reopening' = [reopening EXCEPT ![p] = FALSE]
    /\ fd' = [fd EXCEPT ![p] = 0]
    /\ retries' = [retries EXCEPT ![p] = 0]

\* uucp_unlock_tty_device: removes the file, whoever created it.
Unlock(p) == IF uucp_locked[p] THEN creator' = {} /\ pid' = {} ELSE UNCHANGED lockFile

\* The end of main after an error, and handle_sigint
EndsWithLock(p) == Dies(p) /\ UNCHANGED <<lockFile, crashed>>
Ends(p) == Dies(p) /\ Unlock(p) /\ UNCHANGED crashed

\* open_tty_device has failed: main unlocks, but after a hangup the reading
\* thread calls exit(-1).
Fails(p) ==
    IF reopening[p]
    THEN Dies(p) /\ crashed' = TRUE /\ UNCHANGED lockFile
    ELSE Ends(p)

-----------------------------------------------------------------------------
(* The lock file.                                                          *)

\* With -L, or without a lock directory, the lock file is left out.
Start(p) ==
    /\ pc[p] = "dead"
    /\ starts < MaxStarts
    /\ starts' = starts + 1
    /\ Go(p, "open") \/ Go(p, "check")
    /\ retries' = [retries EXCEPT ![p] = Retries]
    /\ UNCHANGED <<uucp_locked, reopening, fd, lockFile, device, plugs, raced, crashed, stray>>

\* The file names a process and there is none with that pid.
IsStale == pid # {} /\ \A q \in pid : pc[q] = "dead"

\* uucp_check_is_locked, up to the second it sleeps before it removes the file.
\* A file that names no process counts as locked.
Check(p) ==
    /\ pc[p] = "check"
    /\ \/ creator = {} /\ Go(p, "create") /\ UNCHANGED <<locals, raced>>
       \/ /\ creator # {} /\ IsStale
          /\ Go(p, "stale")
          /\ raced' = (raced \/ \E q \in Procs : pc[q] = "stale")
          /\ UNCHANGED locals
       \/ creator # {} /\ ~IsStale /\ Dies(p) /\ UNCHANGED raced
    /\ UNCHANGED <<lockFile, world, crashed, stray>>

\* It removes the file that is there now, which need not be the one it has read.
RemoveStale(p) ==
    /\ pc[p] = "stale"
    /\ Go(p, "create")
    /\ creator' = {} /\ pid' = {}
    /\ UNCHANGED <<locals, world, raced, crashed, stray>>

MayCreateAlways == TRUE
\* O_CREAT|O_EXCL
MayCreate == creator = {}

\* uucp_lock_tty_device
Create(p) ==
    /\ pc[p] = "create"
    /\ IF MayCreate
       THEN /\ creator' = {p} /\ pid' = {}
            /\ Go(p, "write")
            /\ UNCHANGED locals
       ELSE Dies(p) /\ UNCHANGED lockFile
    /\ UNCHANGED <<world, raced, crashed, stray>>

\* The pid is written, into a file that may have been removed since; when that
\* fails the file stays, empty.
WritePid(p) ==
    /\ pc[p] = "write"
    /\ \/ /\ Go(p, "open")
          /\ pid' = IF creator = {p} THEN {p} ELSE pid
          /\ uucp_locked' = [uucp_locked EXCEPT ![p] = TRUE]
          /\ UNCHANGED <<reopening, retries, fd, crashed>>
       \/ /\ Dies(p)
          /\ crashed' = TRUE
          /\ UNCHANGED pid
    /\ UNCHANGED <<creator, world, raced, stray>>

-----------------------------------------------------------------------------
(* The device.                                                             *)

\* One attempt less, or the end
RetryForEver(p, place) ==
    Go(p, place) /\ UNCHANGED <<locals, lockFile, crashed>>
RetryPastZero(p, place) ==
    /\ Go(p, place)
    /\ retries' = [retries EXCEPT ![p] = @ - 1]
    /\ UNCHANGED <<uucp_locked, reopening, fd, lockFile, crashed>>
Retry(p, place) ==
    IF retries[p] > 0
    THEN /\ Go(p, place)
         /\ retries' = [retries EXCEPT ![p] = @ - 1]
         /\ UNCHANGED <<uucp_locked, reopening, fd, lockFile, crashed>>
    ELSE Fails(p)

Open(p) ==
    /\ pc[p] = "open"
    /\ IF device = 0
       THEN Retry(p, "open")
       ELSE /\ Go(p, "lock")
            /\ fd' = [fd EXCEPT ![p] = device]
            /\ retries' = [retries EXCEPT ![p] = Retries]
            /\ UNCHANGED <<uucp_locked, reopening, lockFile, crashed>>
    /\ UNCHANGED <<world, raced, stray>>

\* The processes that hold the fcntl lock of the device they have opened
Users == {p \in Procs : pc[p] \in {"greet", "use"}}

InTheWay(p) == {q \in Users : fd[q] = fd[p]}

Locked(p) ==
    /\ Go(p, "greet")
    /\ retries' = [retries EXCEPT ![p] = 0]
    /\ UNCHANGED <<uucp_locked, reopening, fd, lockFile, crashed>>

\* A reopened device belongs to the process that has the lock file.
LockOnlyFirst(p) ==
    /\ pc[p] = "lock"
    /\ IF InTheWay(p) = {} \/ reopening[p]
       THEN Locked(p)
       ELSE Retry(p, "lock")
    /\ UNCHANGED <<world, raced, stray>>

\* fcntl(F_SETLK): taken, or busy
Lock(p) ==
    /\ pc[p] = "lock"
    /\ IF InTheWay(p) = {}
       THEN Locked(p)
       ELSE Retry(p, "lock")
    /\ UNCHANGED <<world, raced, stray>>

\* fcntl reports another error: the device is closed and opened again.
LockError(p) ==
    /\ pc[p] = "lock"
    /\ Go(p, "lockopen")
    /\ fd' = [fd EXCEPT ![p] = 0]
    /\ UNCHANGED <<uucp_locked, reopening, retries, lockFile, crashed, world, raced, stray>>

LockOpen(p) ==
    /\ pc[p] = "lockopen"
    /\ IF retries[p] > 0
       THEN /\ retries' = [retries EXCEPT ![p] = @ - 1]
            /\ IF device = 0
               THEN UNCHANGED <<pc, fd>>
               ELSE Go(p, "lock") /\ fd' = [fd EXCEPT ![p] = device]
            /\ UNCHANGED <<uucp_locked, reopening, lockFile, crashed>>
       ELSE Fails(p)
    /\ UNCHANGED <<world, raced, stray>>

\* The line is set up and the receiver's parser reset; tcsetattr fails when the
\* device is gone.
Greet(p) ==
    /\ pc[p] = "greet"
    /\ \/ Go(p, "use") /\ UNCHANGED <<locals, lockFile, crashed>>
       \/ fd[p] # device /\ Fails(p)
    /\ UNCHANGED <<world, raced, stray>>

-----------------------------------------------------------------------------
(* Use.                                                                    *)

\* Ctrl-C, when the handler is installed, or a later error of main
Interrupt(p) ==
    /\ uucp_locked[p] \/ (pc[p] = "use" /\ ~reopening[p])
    /\ Ends(p)
    /\ UNCHANGED <<world, raced, stray>>

\* Any other signal
Kill(p) ==
    /\ pc[p] # "dead"
    /\ Dies(p)
    /\ crashed' = TRUE
    /\ UNCHANGED <<lockFile, world, raced, stray>>

\* POLLHUP or POLLERR: reopen_tty_device closes the device.
Hangup(p) ==
    /\ pc[p] = "use"
    /\ plugs < MaxPlugs \/ fd[p] # device
    /\ plugs' = IF fd[p] = device THEN plugs + 1 ELSE plugs
    /\ Go(p, "open")
    /\ reopening' = [reopening EXCEPT ![p] = TRUE]
    /\ retries' = [retries EXCEPT ![p] = Retries]
    /\ fd' = [fd EXCEPT ![p] = 0]
    /\ UNCHANGED <<uucp_locked, lockFile, device, starts, raced, crashed, stray>>

HasWritersFromTheStart(p) == pc[p] \in {"lock", "greet", "use"}
\* The PTY threads are started after the device is opened, and stay.
HasWriters(p) == pc[p] # "dead" /\ (reopening[p] \/ pc[p] = "use")

\* A PTY thread writes to the descriptor in tty_data.fd, which while the device
\* is reopened is the number of the closed one: either closed still, and poll
\* returns POLLNVAL, an assertion failure; or that of the device again, since
\* open returns the lowest free number.
WriteTty(p) ==
    /\ HasWriters(p)
    /\ IF fd[p] = 0
       THEN Dies(p) /\ crashed' = TRUE /\ UNCHANGED stray
       ELSE /\ stray' = (stray \/ InTheWay(p) \ {p} # {})
            /\ UNCHANGED <<pc, locals, crashed>>
    /\ UNCHANGED <<lockFile, world, raced>>

\* The device is plugged out or, as a new one, in.
Plug ==
    /\ plugs < MaxPlugs
    /\ plugs' = plugs + 1
    /\ device' = IF device = 0 THEN plugs + 2 ELSE 0
    /\ UNCHANGED <<pc, locals, lockFile, starts, raced, crashed, stray>>

-----------------------------------------------------------------------------
\* What a process does without being told
Step(p) ==
    \/ Check(p) \/ RemoveStale(p) \/ Create(p) \/ WritePid(p)
    \/ Open(p) \/ Lock(p) \/ LockError(p) \/ LockOpen(p) \/ Greet(p)

LNext ==
    \/ \E p \in Procs :
          Start(p) \/ Step(p) \/ Interrupt(p) \/ Kill(p) \/ Hangup(p) \/ WriteTty(p)
    \/ Plug

LSpec == LInit /\ [][LNext]_lvars

\* Running processes are scheduled.
LFairSpec == LSpec /\ \A p \in Procs : WF_lvars(Step(p))

-----------------------------------------------------------------------------
(* Properties.                                                             *)

\* At most one process reads a device and takes part in its protocol: also with
\* -L, when a live lock file was removed, and when the device hangs up and both
\* the old and a new instance open it again.
ExclusiveTty == \A p, q \in Users : fd[p] = fd[q] => p = q

Holds(p) == pc[p] = "write" \/ uucp_locked[p]

\* Who has taken the lock file finds it his own, and so is alone, in spite of
\* crashes, reused pids and the removal of stale files; except that two processes
\* that find a file stale within the same second may remove each other's.
LockFileIsExclusive == ~raced => \A p \in Procs : Holds(p) => creator = {p}

\* While no process is killed, cannot write its pid, or loses its device, no lock
\* file is left behind by a process that has ended: an empty one would lock out
\* every later instance.
OrderlyEndsUnlock == ~crashed => \A p \in creator : Holds(p)

\* Another's device is written to only after a hangup, when the PTY threads go
\* on with the descriptor before the lock has been taken again.
StrayWritesNeedHangup == stray => plugs > 0

\* A process that is started gets the device or gives up.
StartersSettle == \A p \in Procs : (pc[p] \in {"check", "open"}) ~> (pc[p] \in {"use", "dead"})
=============================================================================
