--------------------------- MODULE TtyLockProofs ---------------------------
(***************************************************************************)
(* Proofs about TtyLock for any number of processes, retries, restarts and *)
(* hangups.  Four invariants, each inductive with the ones before it.      *)
(***************************************************************************)
EXTENDS TtyLock, TLAPS

\* Only a process that is past the lock file holds it, and the file is one file.
FileInv ==
    /\ \A p \in Procs : uucp_locked[p] => pc[p] \in {"open", "lock", "lockopen", "greet", "use"}
    /\ pid \subseteq creator
    /\ \A p, q \in creator : p = q

\* As long as there was no race, a file that is being judged stale is there, and
\* is nobody's: so no file can be created until it is removed.
StaleInv ==
    ~raced => \A p \in Procs : pc[p] = "stale" =>
        /\ creator # {}
        /\ \A q \in Procs : ~Holds(q) /\ (pc[q] = "stale" => q = p)

\* Before the first hangup there is one device and nobody opens it again.
PlugInv ==
    plugs = 0 =>
        /\ device = 1
        /\ \A p \in Procs : ~reopening[p] /\ (pc[p] \in {"lock", "greet", "use"} => fd[p] = device)

\* The part of the type invariant that is about the processes
ProcTypes ==
    /\ pc \in [Procs -> Places]
    /\ uucp_locked \in [Procs -> BOOLEAN]
    /\ reopening \in [Procs -> BOOLEAN]
    /\ retries \in [Procs -> 0..Retries]
    /\ fd \in [Procs -> Nat]

\* The types hold at the start.
LEMMA InitType == LInit => LTypeOK
<1> SUFFICES ASSUME LInit PROVE LTypeOK
  OBVIOUS
<1> USE LockAssumption DEF LInit, Places
<1>1. pc \in [Procs -> Places]
  OBVIOUS
<1>2. uucp_locked \in [Procs -> BOOLEAN] /\ reopening \in [Procs -> BOOLEAN]
  OBVIOUS
<1>3. retries \in [Procs -> 0..Retries] /\ fd \in [Procs -> Nat]
  OBVIOUS
<1>4. raced \in BOOLEAN /\ crashed \in BOOLEAN /\ stray \in BOOLEAN
  OBVIOUS
<1> QED
  BY <1>1, <1>2, <1>3, <1>4 DEF LTypeOK

\* A process that is over leaves the others' state alone.
LEMMA DiesType == ASSUME LTypeOK, NEW p \in Procs, Dies(p) PROVE ProcTypes'
<1> USE LockAssumption DEF LTypeOK, Dies, Go, Places
<1>1. pc' \in [Procs -> Places]
  OBVIOUS
<1>2. uucp_locked' \in [Procs -> BOOLEAN] /\ reopening' \in [Procs -> BOOLEAN]
  OBVIOUS
<1>3. retries' \in [Procs -> 0..Retries] /\ fd' \in [Procs -> Nat]
  OBVIOUS
<1> QED
  BY <1>1, <1>2, <1>3 DEF ProcTypes

\* So does one that fails or ends, whether or not it removes the lock file.
LEMMA FailsType ==
    ASSUME LTypeOK, NEW p \in Procs, Fails(p) \/ Ends(p)
    PROVE  ProcTypes' /\ creator' \subseteq Procs /\ pid' \subseteq Procs /\ crashed' \in BOOLEAN
<1>1. Dies(p)
  BY DEF Fails, Ends
<1>2. ProcTypes'
  BY <1>1, DiesType
<1>3. creator' \subseteq Procs /\ pid' \subseteq Procs
  BY DEF Fails, Ends, Unlock, LTypeOK, lockFile
<1>4. crashed' \in BOOLEAN
  BY DEF Fails, Ends, LTypeOK
<1> QED
  BY <1>2, <1>3, <1>4

\* An attempt that failed is repeated or is the end.
LEMMA RetryType ==
    ASSUME LTypeOK, NEW p \in Procs, NEW place \in Places, Retry(p, place)
    PROVE  ProcTypes' /\ creator' \subseteq Procs /\ pid' \subseteq Procs /\ crashed' \in BOOLEAN
<1>1. CASE retries[p] > 0
  BY <1>1, LockAssumption DEF Retry, Go, LTypeOK, ProcTypes, lockFile
<1>2. CASE ~(retries[p] > 0)
  BY <1>2, FailsType DEF Retry
<1> QED
  BY <1>1, <1>2

\* Every step keeps the types.
LEMMA TypeInv == LTypeOK /\ [LNext]_lvars => LTypeOK'
<1> SUFFICES ASSUME LTypeOK, [LNext]_lvars PROVE LTypeOK'
  OBVIOUS
<1> USE LockAssumption DEF Places, Go, lockFile, locals, world
<1>0. CASE UNCHANGED lvars
  BY <1>0 DEF lvars, LTypeOK
<1>1. ASSUME NEW p \in Procs, Start(p) PROVE LTypeOK'
  BY <1>1 DEF Start, LTypeOK
<1>2. ASSUME NEW p \in Procs, Check(p) PROVE LTypeOK'
  <2>1. ProcTypes'
    BY <1>2, DiesType DEF Check, ProcTypes, LTypeOK
  <2>2. raced' \in BOOLEAN
    BY <1>2 DEF Check, LTypeOK
  <2> QED
    BY <1>2, <2>1, <2>2 DEF Check, ProcTypes, LTypeOK
<1>3. ASSUME NEW p \in Procs, RemoveStale(p) PROVE LTypeOK'
  BY <1>3 DEF RemoveStale, LTypeOK
<1>4. ASSUME NEW p \in Procs, Create(p) PROVE LTypeOK'
  <2>1. ProcTypes'
    BY <1>4, DiesType DEF Create, ProcTypes, LTypeOK
  <2> QED
    BY <1>4, <2>1 DEF Create, ProcTypes, LTypeOK
<1>5. ASSUME NEW p \in Procs, WritePid(p) PROVE LTypeOK'
  <2>1. ProcTypes'
    <3>1. CASE Dies(p)
      BY <3>1, DiesType
    <3>2. CASE ~Dies(p)
      BY <1>5, <3>2 DEF WritePid, ProcTypes, LTypeOK
    <3> QED
      BY <3>1, <3>2
  <2>2. creator' \subseteq Procs /\ pid' \subseteq Procs
    BY <1>5 DEF WritePid, LTypeOK
  <2>3. crashed' \in BOOLEAN
    BY <1>5 DEF WritePid, LTypeOK
  <2> QED
    BY <1>5, <2>1, <2>2, <2>3 DEF WritePid, ProcTypes, LTypeOK
<1>6. ASSUME NEW p \in Procs, Open(p) PROVE LTypeOK'
  <2>1. ProcTypes' /\ creator' \subseteq Procs /\ pid' \subseteq Procs /\ crashed' \in BOOLEAN
    BY <1>6, RetryType DEF Open, ProcTypes, LTypeOK
  <2> QED
    BY <1>6, <2>1 DEF Open, ProcTypes, LTypeOK
<1>7. ASSUME NEW p \in Procs, Lock(p) PROVE LTypeOK'
  <2>1. ProcTypes' /\ creator' \subseteq Procs /\ pid' \subseteq Procs /\ crashed' \in BOOLEAN
    BY <1>7, RetryType DEF Lock, Locked, ProcTypes, LTypeOK
  <2> QED
    BY <1>7, <2>1 DEF Lock, ProcTypes, LTypeOK
<1>8. ASSUME NEW p \in Procs, LockError(p) PROVE LTypeOK'
  BY <1>8 DEF LockError, LTypeOK
<1>9. ASSUME NEW p \in Procs, LockOpen(p) PROVE LTypeOK'
  <2>1. ProcTypes' /\ creator' \subseteq Procs /\ pid' \subseteq Procs /\ crashed' \in BOOLEAN
    BY <1>9, FailsType DEF LockOpen, ProcTypes, LTypeOK
  <2> QED
    BY <1>9, <2>1 DEF LockOpen, ProcTypes, LTypeOK
<1>10. ASSUME NEW p \in Procs, Greet(p) PROVE LTypeOK'
  <2>1. ProcTypes' /\ creator' \subseteq Procs /\ pid' \subseteq Procs /\ crashed' \in BOOLEAN
    BY <1>10, FailsType DEF Greet, ProcTypes, LTypeOK
  <2> QED
    BY <1>10, <2>1 DEF Greet, ProcTypes, LTypeOK
<1>11. ASSUME NEW p \in Procs, Interrupt(p) PROVE LTypeOK'
  BY <1>11, FailsType DEF Interrupt, ProcTypes, LTypeOK
<1>12. ASSUME NEW p \in Procs, Kill(p) PROVE LTypeOK'
  BY <1>12, DiesType DEF Kill, ProcTypes, LTypeOK
<1>13. ASSUME NEW p \in Procs, Hangup(p) PROVE LTypeOK'
  BY <1>13 DEF Hangup, LTypeOK
<1>14. ASSUME NEW p \in Procs, WriteTty(p) PROVE LTypeOK'
  <2>1. ProcTypes'
    BY <1>14, DiesType DEF WriteTty, ProcTypes, LTypeOK
  <2>2. crashed' \in BOOLEAN
    BY <1>14 DEF WriteTty, LTypeOK
  <2>3. stray' \in BOOLEAN
    BY <1>14 DEF WriteTty, LTypeOK
  <2> QED
    BY <1>14, <2>1, <2>2, <2>3 DEF WriteTty, ProcTypes, LTypeOK
<1>15. ASSUME Plug PROVE LTypeOK'
  BY <1>15 DEF Plug, LTypeOK
<1> QED
  BY <1>0, <1>1, <1>2, <1>3, <1>4, <1>5, <1>6, <1>7, <1>8, <1>9, <1>10, <1>11, <1>12,
     <1>13, <1>14, <1>15 DEF LNext, Step

\* The fcntl lock alone keeps users apart: it is given back only by closing.
LEMMA ExclusiveInv ==
    LTypeOK /\ ExclusiveTty /\ [LNext]_lvars => ExclusiveTty'
<1> SUFFICES ASSUME LTypeOK /\ ExclusiveTty, [LNext]_lvars
             PROVE  ExclusiveTty'
  OBVIOUS
<1> USE LockAssumption DEF LTypeOK, Places, Go, lockFile, locals, world,
            ExclusiveTty, Users
<1>0. CASE UNCHANGED lvars
  BY <1>0 DEF lvars
<1>1. ASSUME NEW p \in Procs, Start(p) PROVE ExclusiveTty'
  BY <1>1 DEF Start
<1>2. ASSUME NEW p \in Procs, Check(p) PROVE ExclusiveTty'
  BY <1>2 DEF Check, Dies, IsStale
<1>3. ASSUME NEW p \in Procs, RemoveStale(p) PROVE ExclusiveTty'
  BY <1>3 DEF RemoveStale
<1>4. ASSUME NEW p \in Procs, Create(p) PROVE ExclusiveTty'
  BY <1>4 DEF Create, MayCreate, Dies
<1>5. ASSUME NEW p \in Procs, WritePid(p) PROVE ExclusiveTty'
  BY <1>5 DEF WritePid, Dies
<1>6. ASSUME NEW p \in Procs, Open(p) PROVE ExclusiveTty'
  BY <1>6 DEF Open, Retry, Fails, Ends, Dies, Unlock
<1>7. ASSUME NEW p \in Procs, Lock(p) PROVE ExclusiveTty'
  BY <1>7 DEF Lock, Locked, InTheWay, Users, Retry, Fails, Ends, Dies, Unlock
<1>8. ASSUME NEW p \in Procs, LockError(p) PROVE ExclusiveTty'
  BY <1>8 DEF LockError
<1>9. ASSUME NEW p \in Procs, LockOpen(p) PROVE ExclusiveTty'
  BY <1>9 DEF LockOpen, Fails, Ends, Dies, Unlock
<1>10. ASSUME NEW p \in Procs, Greet(p) PROVE ExclusiveTty'
  BY <1>10 DEF Greet, Fails, Ends, Dies, Unlock
<1>11. ASSUME NEW p \in Procs, Interrupt(p) PROVE ExclusiveTty'
  BY <1>11 DEF Interrupt, Ends, Dies, Unlock
<1>12. ASSUME NEW p \in Procs, Kill(p) PROVE ExclusiveTty'
  BY <1>12 DEF Kill, Dies
<1>13. ASSUME NEW p \in Procs, Hangup(p) PROVE ExclusiveTty'
  BY <1>13 DEF Hangup
<1>14. ASSUME NEW p \in Procs, WriteTty(p) PROVE ExclusiveTty'
  BY <1>14 DEF WriteTty, HasWriters, InTheWay, Users, Dies
<1>15. ASSUME Plug PROVE ExclusiveTty'
  BY <1>15 DEF Plug
<1> QED
  BY <1>0, <1>1, <1>2, <1>3, <1>4, <1>5, <1>6, <1>7,
     <1>8, <1>9, <1>10, <1>11, <1>12, <1>13, <1>14, <1>15 DEF LNext, Step

\* The lock file stays one file, held only by processes that are past it.
LEMMA FileIsOne ==
    LTypeOK /\ FileInv /\ [LNext]_lvars => FileInv'
<1> SUFFICES ASSUME LTypeOK /\ FileInv, [LNext]_lvars
             PROVE  FileInv'
  OBVIOUS
<1> USE LockAssumption DEF LTypeOK, Places, Go, lockFile, locals, world,
            FileInv
<1>0. CASE UNCHANGED lvars
  BY <1>0 DEF lvars
<1>1. ASSUME NEW p \in Procs, Start(p) PROVE FileInv'
  BY <1>1 DEF Start
<1>2. ASSUME NEW p \in Procs, Check(p) PROVE FileInv'
  BY <1>2 DEF Check, Dies, IsStale
<1>3. ASSUME NEW p \in Procs, RemoveStale(p) PROVE FileInv'
  BY <1>3 DEF RemoveStale
<1>4. ASSUME NEW p \in Procs, Create(p) PROVE FileInv'
  BY <1>4 DEF Create, MayCreate, Dies
<1>5. ASSUME NEW p \in Procs, WritePid(p) PROVE FileInv'
  BY <1>5 DEF WritePid, Dies
<1>6. ASSUME NEW p \in Procs, Open(p) PROVE FileInv'
  BY <1>6 DEF Open, Retry, Fails, Ends, Dies, Unlock
<1>7. ASSUME NEW p \in Procs, Lock(p) PROVE FileInv'
  BY <1>7 DEF Lock, Locked, InTheWay, Users, Retry, Fails, Ends, Dies, Unlock
<1>8. ASSUME NEW p \in Procs, LockError(p) PROVE FileInv'
  BY <1>8 DEF LockError
<1>9. ASSUME NEW p \in Procs, LockOpen(p) PROVE FileInv'
  BY <1>9 DEF LockOpen, Fails, Ends, Dies, Unlock
<1>10. ASSUME NEW p \in Procs, Greet(p) PROVE FileInv'
  BY <1>10 DEF Greet, Fails, Ends, Dies, Unlock
<1>11. ASSUME NEW p \in Procs, Interrupt(p) PROVE FileInv'
  BY <1>11 DEF Interrupt, Ends, Dies, Unlock
<1>12. ASSUME NEW p \in Procs, Kill(p) PROVE FileInv'
  BY <1>12 DEF Kill, Dies
<1>13. ASSUME NEW p \in Procs, Hangup(p) PROVE FileInv'
  BY <1>13 DEF Hangup
<1>14. ASSUME NEW p \in Procs, WriteTty(p) PROVE FileInv'
  BY <1>14 DEF WriteTty, HasWriters, InTheWay, Users, Dies
<1>15. ASSUME Plug PROVE FileInv'
  BY <1>15 DEF Plug
<1> QED
  BY <1>0, <1>1, <1>2, <1>3, <1>4, <1>5, <1>6, <1>7,
     <1>8, <1>9, <1>10, <1>11, <1>12, <1>13, <1>14, <1>15 DEF LNext, Step

\* Without a race, taking and removing the lock file keeps its owner alone.
LEMMA LockFileInv ==
    LTypeOK /\ FileInv /\ StaleInv /\ LockFileIsExclusive /\ [LNext]_lvars => (StaleInv /\ LockFileIsExclusive)'
<1> SUFFICES ASSUME LTypeOK /\ FileInv /\ StaleInv /\ LockFileIsExclusive, [LNext]_lvars
             PROVE  (StaleInv /\ LockFileIsExclusive)'
  OBVIOUS
<1> USE LockAssumption DEF LTypeOK, Places, Go, lockFile, locals, world,
            FileInv, StaleInv, LockFileIsExclusive, Holds
<1>0. CASE UNCHANGED lvars
  BY <1>0 DEF lvars
<1>1. ASSUME NEW p \in Procs, Start(p) PROVE (StaleInv /\ LockFileIsExclusive)'
  BY <1>1 DEF Start
<1>2. ASSUME NEW p \in Procs, Check(p) PROVE (StaleInv /\ LockFileIsExclusive)'
  <2>1. CASE creator = {} /\ Go(p, "create")
    BY <1>2, <2>1 DEF Check
  <2>2. CASE creator # {} /\ IsStale /\ Go(p, "stale")
    <3>1. ~raced => \A q \in Procs : ~Holds(q)
      BY <2>2 DEF IsStale
    <3>2. UNCHANGED <<creator, uucp_locked>>
      BY <1>2, <2>2 DEF Check, Dies
    <3>3. ~raced' => \A q \in Procs : pc[q] # "stale"
      BY <1>2, <2>2 DEF Check, Dies
    <3>4. ~raced' => ~raced
      BY <1>2 DEF Check
    <3> QED
      BY <2>2, <3>1, <3>2, <3>3, <3>4
  <2>3. CASE Dies(p) /\ UNCHANGED raced
    BY <1>2, <2>3 DEF Check, Dies
  <2> QED
    BY <1>2, <2>1, <2>2, <2>3 DEF Check
<1>3. ASSUME NEW p \in Procs, RemoveStale(p) PROVE (StaleInv /\ LockFileIsExclusive)'
  BY <1>3 DEF RemoveStale
<1>4. ASSUME NEW p \in Procs, Create(p) PROVE (StaleInv /\ LockFileIsExclusive)'
  BY <1>4 DEF Create, MayCreate, Dies
<1>5. ASSUME NEW p \in Procs, WritePid(p) PROVE (StaleInv /\ LockFileIsExclusive)'
  BY <1>5 DEF WritePid, Dies
<1>6. ASSUME NEW p \in Procs, Open(p) PROVE (StaleInv /\ LockFileIsExclusive)'
  BY <1>6 DEF Open, Retry, Fails, Ends, Dies, Unlock
<1>7. ASSUME NEW p \in Procs, Lock(p) PROVE (StaleInv /\ LockFileIsExclusive)'
  BY <1>7 DEF Lock, Locked, InTheWay, Users, Retry, Fails, Ends, Dies, Unlock
<1>8. ASSUME NEW p \in Procs, LockError(p) PROVE (StaleInv /\ LockFileIsExclusive)'
  BY <1>8 DEF LockError
<1>9. ASSUME NEW p \in Procs, LockOpen(p) PROVE (StaleInv /\ LockFileIsExclusive)'
  BY <1>9 DEF LockOpen, Fails, Ends, Dies, Unlock
<1>10. ASSUME NEW p \in Procs, Greet(p) PROVE (StaleInv /\ LockFileIsExclusive)'
  BY <1>10 DEF Greet, Fails, Ends, Dies, Unlock
<1>11. ASSUME NEW p \in Procs, Interrupt(p) PROVE (StaleInv /\ LockFileIsExclusive)'
  BY <1>11 DEF Interrupt, Ends, Dies, Unlock
<1>12. ASSUME NEW p \in Procs, Kill(p) PROVE (StaleInv /\ LockFileIsExclusive)'
  BY <1>12 DEF Kill, Dies
<1>13. ASSUME NEW p \in Procs, Hangup(p) PROVE (StaleInv /\ LockFileIsExclusive)'
  BY <1>13 DEF Hangup
<1>14. ASSUME NEW p \in Procs, WriteTty(p) PROVE (StaleInv /\ LockFileIsExclusive)'
  BY <1>14 DEF WriteTty, HasWriters, InTheWay, Users, Dies
<1>15. ASSUME Plug PROVE (StaleInv /\ LockFileIsExclusive)'
  BY <1>15 DEF Plug
<1> QED
  BY <1>0, <1>1, <1>2, <1>3, <1>4, <1>5, <1>6, <1>7,
     <1>8, <1>9, <1>10, <1>11, <1>12, <1>13, <1>14, <1>15 DEF LNext, Step

\* A process that ends in an orderly way takes its lock file with it.
LEMMA OrderlyInv ==
    LTypeOK /\ FileInv /\ OrderlyEndsUnlock /\ [LNext]_lvars => OrderlyEndsUnlock'
<1> SUFFICES ASSUME LTypeOK /\ FileInv /\ OrderlyEndsUnlock, [LNext]_lvars
             PROVE  OrderlyEndsUnlock'
  OBVIOUS
<1> USE LockAssumption DEF LTypeOK, Places, Go, lockFile, locals, world,
            FileInv, OrderlyEndsUnlock, Holds
<1>0. CASE UNCHANGED lvars
  BY <1>0 DEF lvars
<1>1. ASSUME NEW p \in Procs, Start(p) PROVE OrderlyEndsUnlock'
  BY <1>1 DEF Start
<1>2. ASSUME NEW p \in Procs, Check(p) PROVE OrderlyEndsUnlock'
  BY <1>2 DEF Check, Dies, IsStale
<1>3. ASSUME NEW p \in Procs, RemoveStale(p) PROVE OrderlyEndsUnlock'
  BY <1>3 DEF RemoveStale
<1>4. ASSUME NEW p \in Procs, Create(p) PROVE OrderlyEndsUnlock'
  BY <1>4 DEF Create, MayCreate, Dies
<1>5. ASSUME NEW p \in Procs, WritePid(p) PROVE OrderlyEndsUnlock'
  BY <1>5 DEF WritePid, Dies
<1>6. ASSUME NEW p \in Procs, Open(p) PROVE OrderlyEndsUnlock'
  BY <1>6 DEF Open, Retry, Fails, Ends, Dies, Unlock
<1>7. ASSUME NEW p \in Procs, Lock(p) PROVE OrderlyEndsUnlock'
  BY <1>7 DEF Lock, Locked, InTheWay, Users, Retry, Fails, Ends, Dies, Unlock
<1>8. ASSUME NEW p \in Procs, LockError(p) PROVE OrderlyEndsUnlock'
  BY <1>8 DEF LockError
<1>9. ASSUME NEW p \in Procs, LockOpen(p) PROVE OrderlyEndsUnlock'
  BY <1>9 DEF LockOpen, Fails, Ends, Dies, Unlock
<1>10. ASSUME NEW p \in Procs, Greet(p) PROVE OrderlyEndsUnlock'
  BY <1>10 DEF Greet, Fails, Ends, Dies, Unlock
<1>11. ASSUME NEW p \in Procs, Interrupt(p) PROVE OrderlyEndsUnlock'
  BY <1>11 DEF Interrupt, Ends, Dies, Unlock
<1>12. ASSUME NEW p \in Procs, Kill(p) PROVE OrderlyEndsUnlock'
  BY <1>12 DEF Kill, Dies
<1>13. ASSUME NEW p \in Procs, Hangup(p) PROVE OrderlyEndsUnlock'
  BY <1>13 DEF Hangup
<1>14. ASSUME NEW p \in Procs, WriteTty(p) PROVE OrderlyEndsUnlock'
  BY <1>14 DEF WriteTty, HasWriters, InTheWay, Users, Dies
<1>15. ASSUME Plug PROVE OrderlyEndsUnlock'
  BY <1>15 DEF Plug
<1> QED
  BY <1>0, <1>1, <1>2, <1>3, <1>4, <1>5, <1>6, <1>7,
     <1>8, <1>9, <1>10, <1>11, <1>12, <1>13, <1>14, <1>15 DEF LNext, Step

\* Nothing is reopened before the first hangup.
LEMMA PlugsInv ==
    LTypeOK /\ PlugInv /\ [LNext]_lvars => PlugInv'
<1> SUFFICES ASSUME LTypeOK /\ PlugInv, [LNext]_lvars
             PROVE  PlugInv'
  OBVIOUS
<1> USE LockAssumption DEF LTypeOK, Places, Go, lockFile, locals, world,
            PlugInv
<1>0. CASE UNCHANGED lvars
  BY <1>0 DEF lvars
<1>1. ASSUME NEW p \in Procs, Start(p) PROVE PlugInv'
  BY <1>1 DEF Start
<1>2. ASSUME NEW p \in Procs, Check(p) PROVE PlugInv'
  BY <1>2 DEF Check, Dies, IsStale
<1>3. ASSUME NEW p \in Procs, RemoveStale(p) PROVE PlugInv'
  BY <1>3 DEF RemoveStale
<1>4. ASSUME NEW p \in Procs, Create(p) PROVE PlugInv'
  BY <1>4 DEF Create, MayCreate, Dies
<1>5. ASSUME NEW p \in Procs, WritePid(p) PROVE PlugInv'
  BY <1>5 DEF WritePid, Dies
<1>6. ASSUME NEW p \in Procs, Open(p) PROVE PlugInv'
  BY <1>6 DEF Open, Retry, Fails, Ends, Dies, Unlock
<1>7. ASSUME NEW p \in Procs, Lock(p) PROVE PlugInv'
  BY <1>7 DEF Lock, Locked, InTheWay, Users, Retry, Fails, Ends, Dies, Unlock
<1>8. ASSUME NEW p \in Procs, LockError(p) PROVE PlugInv'
  BY <1>8 DEF LockError
<1>9. ASSUME NEW p \in Procs, LockOpen(p) PROVE PlugInv'
  BY <1>9 DEF LockOpen, Fails, Ends, Dies, Unlock
<1>10. ASSUME NEW p \in Procs, Greet(p) PROVE PlugInv'
  BY <1>10 DEF Greet, Fails, Ends, Dies, Unlock
<1>11. ASSUME NEW p \in Procs, Interrupt(p) PROVE PlugInv'
  BY <1>11 DEF Interrupt, Ends, Dies, Unlock
<1>12. ASSUME NEW p \in Procs, Kill(p) PROVE PlugInv'
  BY <1>12 DEF Kill, Dies
<1>13. ASSUME NEW p \in Procs, Hangup(p) PROVE PlugInv'
  BY <1>13 DEF Hangup
<1>14. ASSUME NEW p \in Procs, WriteTty(p) PROVE PlugInv'
  BY <1>14 DEF WriteTty, HasWriters, InTheWay, Users, Dies
<1>15. ASSUME Plug PROVE PlugInv'
  BY <1>15 DEF Plug
<1> QED
  BY <1>0, <1>1, <1>2, <1>3, <1>4, <1>5, <1>6, <1>7,
     <1>8, <1>9, <1>10, <1>11, <1>12, <1>13, <1>14, <1>15 DEF LNext, Step

\* Until then a writing process is a user of its device, and so the only one.
LEMMA StrayInv ==
    LTypeOK /\ ExclusiveTty /\ PlugInv /\ StrayWritesNeedHangup /\ [LNext]_lvars => StrayWritesNeedHangup'
<1> SUFFICES ASSUME LTypeOK /\ ExclusiveTty /\ PlugInv /\ StrayWritesNeedHangup, [LNext]_lvars
             PROVE  StrayWritesNeedHangup'
  OBVIOUS
<1> USE LockAssumption DEF LTypeOK, Places, Go, lockFile, locals, world,
            ExclusiveTty, PlugInv, StrayWritesNeedHangup
<1>0. CASE UNCHANGED lvars
  BY <1>0 DEF lvars
<1>1. ASSUME NEW p \in Procs, Start(p) PROVE StrayWritesNeedHangup'
  BY <1>1 DEF Start
<1>2. ASSUME NEW p \in Procs, Check(p) PROVE StrayWritesNeedHangup'
  BY <1>2 DEF Check, Dies, IsStale
<1>3. ASSUME NEW p \in Procs, RemoveStale(p) PROVE StrayWritesNeedHangup'
  BY <1>3 DEF RemoveStale
<1>4. ASSUME NEW p \in Procs, Create(p) PROVE StrayWritesNeedHangup'
  BY <1>4 DEF Create, MayCreate, Dies
<1>5. ASSUME NEW p \in Procs, WritePid(p) PROVE StrayWritesNeedHangup'
  BY <1>5 DEF WritePid, Dies
<1>6. ASSUME NEW p \in Procs, Open(p) PROVE StrayWritesNeedHangup'
  BY <1>6 DEF Open, Retry, Fails, Ends, Dies, Unlock
<1>7. ASSUME NEW p \in Procs, Lock(p) PROVE StrayWritesNeedHangup'
  BY <1>7 DEF Lock, Locked, InTheWay, Users, Retry, Fails, Ends, Dies, Unlock
<1>8. ASSUME NEW p \in Procs, LockError(p) PROVE StrayWritesNeedHangup'
  BY <1>8 DEF LockError
<1>9. ASSUME NEW p \in Procs, LockOpen(p) PROVE StrayWritesNeedHangup'
  BY <1>9 DEF LockOpen, Fails, Ends, Dies, Unlock
<1>10. ASSUME NEW p \in Procs, Greet(p) PROVE StrayWritesNeedHangup'
  BY <1>10 DEF Greet, Fails, Ends, Dies, Unlock
<1>11. ASSUME NEW p \in Procs, Interrupt(p) PROVE StrayWritesNeedHangup'
  BY <1>11 DEF Interrupt, Ends, Dies, Unlock
<1>12. ASSUME NEW p \in Procs, Kill(p) PROVE StrayWritesNeedHangup'
  BY <1>12 DEF Kill, Dies
<1>13. ASSUME NEW p \in Procs, Hangup(p) PROVE StrayWritesNeedHangup'
  BY <1>13 DEF Hangup
<1>14. ASSUME NEW p \in Procs, WriteTty(p) PROVE StrayWritesNeedHangup'
  <2>1. plugs = 0 => InTheWay(p) \ {p} = {}
    BY <1>14 DEF WriteTty, HasWriters, InTheWay, Users
  <2>2. UNCHANGED plugs
    BY <1>14 DEF WriteTty
  <2>3. stray' => stray \/ InTheWay(p) \ {p} # {}
    BY <1>14 DEF WriteTty
  <2> QED
    BY <2>1, <2>2, <2>3
<1>15. ASSUME Plug PROVE StrayWritesNeedHangup'
  BY <1>15 DEF Plug
<1> QED
  BY <1>0, <1>1, <1>2, <1>3, <1>4, <1>5, <1>6, <1>7,
     <1>8, <1>9, <1>10, <1>11, <1>12, <1>13, <1>14, <1>15 DEF LNext, Step

-----------------------------------------------------------------------------
\* The types hold in every run: the retry counters stay in their range.
THEOREM LTypes == LSpec => []LTypeOK
<1> QED
  BY InitType, TypeInv, PTL DEF LSpec

\* At most one instance reads a device, however lock files are lost or removed and
\* however often it hangs up: the fcntl lock, taken again after every open, is enough.
THEOREM Exclusion == LSpec => []ExclusiveTty
<1> DEFINE Inv == LTypeOK /\ ExclusiveTty
<1>1. LInit => Inv
  BY InitType DEF LInit, ExclusiveTty, Users
<1>2. Inv /\ [LNext]_lvars => Inv'
  BY TypeInv, ExclusiveInv
<1>3. Inv => ExclusiveTty
  OBVIOUS
<1> QED
  BY <1>1, <1>2, <1>3, PTL DEF LSpec

\* The lock file has one owner, with any number of crashes and restarts, unless two
\* instances were removing the same stale file at once.
THEOREM FileExclusion == LSpec => []LockFileIsExclusive
<1> DEFINE Inv == LTypeOK /\ FileInv /\ StaleInv /\ LockFileIsExclusive
<1>1. LInit => Inv
  BY InitType DEF LInit, FileInv, StaleInv, LockFileIsExclusive, Holds
<1>2. Inv /\ [LNext]_lvars => Inv'
  BY TypeInv, FileIsOne, LockFileInv
<1>3. Inv => LockFileIsExclusive
  OBVIOUS
<1> QED
  BY <1>1, <1>2, <1>3, PTL DEF LSpec

\* Instances that end in an orderly way leave no lock file.
THEOREM NoFileLeft == LSpec => []OrderlyEndsUnlock
<1> DEFINE Inv == LTypeOK /\ FileInv /\ OrderlyEndsUnlock
<1>1. LInit => Inv
  BY InitType DEF LInit, FileInv, OrderlyEndsUnlock, Holds
<1>2. Inv /\ [LNext]_lvars => Inv'
  BY TypeInv, FileIsOne, OrderlyInv
<1>3. Inv => OrderlyEndsUnlock
  OBVIOUS
<1> QED
  BY <1>1, <1>2, <1>3, PTL DEF LSpec

\* Until a device hangs up, no instance writes to a device that another one uses.
THEOREM NoStrayWrites == LSpec => []StrayWritesNeedHangup
<1> DEFINE Inv == LTypeOK /\ ExclusiveTty /\ PlugInv /\ StrayWritesNeedHangup
<1>1. LInit => Inv
  BY InitType DEF LInit, ExclusiveTty, Users, PlugInv, StrayWritesNeedHangup
<1>2. Inv /\ [LNext]_lvars => Inv'
  BY TypeInv, ExclusiveInv, PlugsInv, StrayInv
<1>3. Inv => StrayWritesNeedHangup
  OBVIOUS
<1> QED
  BY <1>1, <1>2, <1>3, PTL DEF LSpec
=============================================================================
