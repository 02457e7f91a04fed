--------------------------- MODULE LogFilesProofs ---------------------------
(***************************************************************************)
(* Proofs about LogFiles, for any number of runs and deletions, any number *)
(* of archives and whichever system calls fail.                            *)
(***************************************************************************)
EXTENDS LogFiles, FiniteSetTheorems, SequenceTheorems, TLAPS

Domains ==
    /\ DOMAIN pc = Procs
    /\ DOMAIN dir = Names
    /\ lockFd \in [Writers -> Nat]
    /\ shift \in [Writers -> 0 .. Keep - 1]
    /\ lockAt \in 0 .. locks /\ locks \in Nat
    /\ raced \in BOOLEAN

\* A run that waits or writes has a lock file open ...
HasLockFile == \A w \in Writers : pc[w] \in Holding \cup {"lock"} => lockFd[w] # NoFile

\* ... the one at the name, unless that was removed beside it
SameLockFile == raced \/ \A w \in Writers : lockFd[w] \in {NoFile, lockAt}

\* A lock file is locked by one run at most
OneHolder == \A v, w \in Writers : Holds(v) /\ Holds(w) /\ lockFd[v] = lockFd[w] => v = w

\* The name that the next rename of a rotation writes to is free
TargetFree == raced \/ \A w \in Writers : pc[w] = "shift" => dir[shift[w] + 1] = NoFile

LockInv == Domains /\ HasLockFile /\ SameLockFile /\ OneHolder

-----------------------------------------------------------------------------
LEMMA InitLock == Init => LockInv /\ TargetFree
  <1> SUFFICES ASSUME Init PROVE LockInv /\ TargetFree  OBVIOUS
  <1>1. \A w \in Writers : pc[w] = "idle"
    BY DEF Init, Procs
  <1>2. Domains
    <2>1. DOMAIN pc = Procs /\ DOMAIN dir = Names  BY DEF Init
    <2>2. lockFd \in [Writers -> Nat]  BY DEF Init, NoFile
    <2>3. shift \in [Writers -> 0 .. Keep - 1]  BY SizeAssumption DEF Init
    <2>4. lockAt \in 0 .. locks /\ locks \in Nat  BY DEF Init, NoFile
    <2>5. raced \in BOOLEAN  BY DEF Init
    <2> QED  BY <2>1, <2>2, <2>3, <2>4, <2>5 DEF Domains
  <1>3. SameLockFile  BY DEF Init, SameLockFile
  <1>4. HasLockFile /\ OneHolder /\ TargetFree
    BY <1>1 DEF HasLockFile, OneHolder, TargetFree, Holds, Holding
  <1> QED  BY <1>2, <1>3, <1>4 DEF LockInv

\* A step of one process that leaves the lock files alone, and takes or drops no
\* lock, keeps the invariant
LEMMA LockKept ==
  ASSUME LockInv, NEW p \in Procs, UNCHANGED lockVars,
         DOMAIN dir' = Names, shift' \in [Writers -> 0 .. Keep - 1], raced' \in BOOLEAN,
         raced => raced', DOMAIN pc' = Procs,
         \A q \in Procs : q # p => pc'[q] = pc[q],
         p \in Writers => /\ pc'[p] \in Holding => pc[p] \in Holding
                          /\ pc'[p] = "lock" => pc[p] = "lock"
  PROVE  LockInv'
  <1> USE DEF LockInv, lockVars
  <1>0. \A w \in Writers : /\ pc'[w] \in Holding => pc[w] \in Holding
                           /\ pc'[w] = "lock" => pc[w] = "lock"
    BY DEF Procs
  <1>1. Domains'  BY DEF Domains
  <1>2. HasLockFile'  BY <1>0 DEF HasLockFile
  <1>3. SameLockFile'  BY DEF SameLockFile
  <1>4. OneHolder'  BY <1>0 DEF OneHolder, Holds
  <1> QED  BY <1>1, <1>2, <1>3, <1>4

\* A run that closes its lock file keeps the invariant
LEMMA LockDropped ==
  ASSUME LockInv, NEW p \in Writers, UNCHANGED <<lockAt, locks, shift, raced>>,
         lockFd' = [lockFd EXCEPT ![p] = NoFile],
         DOMAIN dir' = Names, pc' = [pc EXCEPT ![p] = "done"]
  PROVE  LockInv'
  <1> USE DEF LockInv
  <1>0. /\ \A q \in Procs : q # p => pc'[q] = pc[q]
        /\ pc'[p] = "done" /\ lockFd'[p] = NoFile
        /\ \A q \in Writers : q # p => lockFd'[q] = lockFd[q]
    BY DEF Domains, Procs
  <1>1. Domains'  BY DEF Domains, NoFile
  <1>2. HasLockFile'  BY <1>0 DEF HasLockFile, Holding, Procs
  <1>3. SameLockFile'  BY <1>0 DEF SameLockFile
  <1>4. OneHolder'  BY <1>0 DEF OneHolder, Holds, Holding, Procs
  <1> QED  BY <1>1, <1>2, <1>3, <1>4

\* One process moves to another step
LEMMA Moved ==
  ASSUME Domains, NEW p \in Procs, NEW label, Goto(p, label)
  PROVE  /\ DOMAIN pc' = Procs /\ pc'[p] = label
         /\ \A q \in Procs : q # p => pc'[q] = pc[q]
  BY DEF Goto, Domains

LEMMA OpenLockStep == ASSUME LockInv, NEW w \in Writers, OpenLock(w) PROVE LockInv'
  <1> USE DEF LockInv
  <1>0. UNCHANGED <<dir, shift, raced>> /\ w \in Procs
    BY DEF OpenLock, fileVars, runVars, ghosts, Procs
  <1>1. CASE Goto(w, "done") /\ UNCHANGED lockVars
    BY <1>0, <1>1, Moved, LockKept DEF Domains, Holding
  <1>2. CASE /\ locks'  = IF lockAt = NoFile THEN locks + 1 ELSE locks
             /\ lockAt' = IF lockAt = NoFile THEN locks + 1 ELSE lockAt
             /\ lockFd' = [lockFd EXCEPT ![w] = lockAt']
             /\ Goto(w, "lock")
    <2>1. /\ DOMAIN pc' = Procs /\ pc'[w] = "lock"
          /\ \A q \in Procs : q # w => pc'[q] = pc[q]
      BY <1>0, <1>2, Moved
    <2>2. /\ lockAt' # NoFile
          /\ lockAt = NoFile \/ lockAt' = lockAt
          /\ lockAt' \in 0 .. locks' /\ locks' \in Nat
      BY <1>2 DEF Domains, NoFile
    <2>3. lockFd'[w] = lockAt' /\ \A q \in Writers : q # w => lockFd'[q] = lockFd[q]
      BY <1>2 DEF Domains
    <2>4. Domains'  BY <1>0, <1>2, <2>1, <2>2 DEF Domains
    <2>5. HasLockFile'  BY <2>1, <2>2, <2>3 DEF HasLockFile, Procs
    <2>6. SameLockFile'  BY <1>0, <2>2, <2>3 DEF SameLockFile
    <2>7. OneHolder'  BY <2>1, <2>3 DEF OneHolder, Holds, Holding, Procs
    <2> QED  BY <2>4, <2>5, <2>6, <2>7
  <1> QED  BY <1>1, <1>2 DEF OpenLock

\* The lock is taken only when nobody holds the same file
LEMMA LockStep == ASSUME LockInv, NEW w \in Writers, Lock(w) PROVE LockInv'
  <1> USE DEF LockInv
  <1>1. /\ DOMAIN pc' = Procs /\ pc'[w] = "open" /\ pc[w] = "lock"
        /\ \A q \in Procs : q # w => pc'[q] = pc[q]
    BY Moved DEF Lock, Procs
  <1>2. /\ UNCHANGED <<lockAt, locks, lockFd, dir, shift>>
        /\ (raced => raced') /\ raced' \in BOOLEAN
    BY DEF Lock, lockVars, fileVars, runVars
  <1>3. Domains'  BY <1>1, <1>2 DEF Domains
  <1>4. HasLockFile'  BY <1>1, <1>2 DEF HasLockFile, Procs
  <1>5. SameLockFile'  BY <1>2 DEF SameLockFile
  <1>6. OneHolder'
    <2> SUFFICES ASSUME NEW u \in Writers, NEW v \in Writers, Holds(u)', Holds(v)',
                        lockFd[u] = lockFd[v]
                 PROVE  u = v
      BY <1>2 DEF OneHolder
    <2>1. \A q \in Writers : q # w /\ Holds(q)' => Holds(q) /\ lockFd[q] # lockFd[w]
      BY <1>1, <1>2 DEF Holds, Lock, Locked, Procs
    <2> QED  BY <2>1 DEF OneHolder
  <1> QED  BY <1>3, <1>4, <1>5, <1>6

\* Every step of a run that has the lock keeps it, or drops it with the file
LEMMA RunStepLock == ASSUME LockInv, NEW w \in Writers, RunStep(w) PROVE LockInv'
  <1> USE DEF LockInv
  <1>p. w \in Procs  BY DEF Procs
  <1>1. CASE OpenLog(w)
    <2>1. CASE Goto(w, "run") /\ UNCHANGED lockFd
      <3>1. DOMAIN dir' = Names /\ UNCHANGED <<lockVars, shift, raced>> /\ pc[w] \in Holding
        BY <1>1, <2>1 DEF OpenLog, OpenActive, Domains, lockVars, ghosts, fileVars, Holding
      <3>2. DOMAIN pc' = Procs /\ pc'[w] = "run" /\ \A q \in Procs : q # w => pc'[q] = pc[q]
        BY <2>1, <1>p, Moved
      <3> QED  BY <3>1, <3>2, <1>p, LockKept DEF Domains
    <2>2. CASE Goto(w, "done") /\ lockFd' = [lockFd EXCEPT ![w] = NoFile]
      BY <1>1, <2>2, LockDropped DEF OpenLog, OpenActive, Domains, Goto, ghosts, fileVars
    <2> QED  BY <1>1, <2>1, <2>2 DEF OpenLog
  <1>2. CASE BeginWrite(w)
    <2>1. \E label \in {"stat", "part"} : Goto(w, label)  BY <1>2 DEF BeginWrite
    <2> QED  BY <1>2, <2>1, <1>p, Moved, LockKept
             DEF BeginWrite, Domains, lockVars, fileVars, ghosts, Holding
  <1>3. CASE WritePart(w)
    <2>1. \E label \in {"run", "stat"} : Goto(w, label)  BY <1>3 DEF WritePart, GiveUp
    <2> QED  BY <1>3, <2>1, <1>p, Moved, LockKept DEF WritePart, Domains, lockVars, Holding
  <1>4. CASE StatArchives(w)
    <2>1. \E label \in {"run", "close"} : Goto(w, label)  BY <1>4 DEF StatArchives, GiveUp
    <2> QED  BY <1>4, <2>1, <1>p, Moved, LockKept
             DEF StatArchives, Domains, lockVars, fileVars, ghosts, Holding
  <1>5. CASE CloseActive(w)
    <2>1. \E label \in {"run", "remove"} : Goto(w, label)  BY <1>5 DEF CloseActive, GiveUp
    <2> QED  BY <1>5, <2>1, <1>p, Moved, LockKept
             DEF CloseActive, Domains, lockVars, fileVars, ghosts, Holding
  <1>6. CASE RemoveOldest(w)
    <2>1. \E label \in {"run", "shift"} : Goto(w, label)  BY <1>6 DEF RemoveOldest, GiveUp
    <2>2. DOMAIN dir' = Names /\ shift' \in [Writers -> 0 .. Keep - 1]
      BY <1>6, SizeAssumption DEF RemoveOldest, Domains
    <2> QED  BY <1>6, <2>1, <2>2, <1>p, Moved, LockKept
             DEF RemoveOldest, Domains, lockVars, ghosts, Holding
  <1>7. CASE ShiftArchive(w)
    <2>1. UNCHANGED pc \/ \E label \in {"run", "reopen"} : Goto(w, label)
      BY <1>7 DEF ShiftArchive, GiveUp
    <2>2. DOMAIN dir' = Names /\ shift' \in [Writers -> 0 .. Keep - 1]
      BY <1>7, SizeAssumption DEF ShiftArchive, Renamed, Domains
    <2>3. CASE UNCHANGED pc
      BY <1>7, <2>3, <2>2, <1>p, LockKept DEF ShiftArchive, Domains, lockVars, ghosts
    <2>4. CASE \E label \in {"run", "reopen"} : Goto(w, label)
      BY <1>7, <2>4, <2>2, <1>p, Moved, LockKept
      DEF ShiftArchive, Domains, lockVars, ghosts, Holding
    <2> QED  BY <2>1, <2>3, <2>4
  <1>8. CASE Reopen(w)
    <2>1. \E label \in {"run", "part"} : Goto(w, label)  BY <1>8 DEF Reopen, GiveUp
    <2>2. DOMAIN dir' = Names  BY <1>8 DEF Reopen, OpenActive, Domains, fileVars
    <2> QED  BY <1>8, <2>1, <2>2, <1>p, Moved, LockKept
             DEF Reopen, Domains, lockVars, ghosts, Holding
  <1>9. CASE EndRun(w)
    BY <1>9, LockDropped DEF EndRun, Goto, Domains, fileVars, ghosts
  <1> QED
    BY <1>1, <1>2, <1>3, <1>4, <1>5, <1>6, <1>7, <1>8, <1>9 DEF RunStep

\* A deletion touches no lock but by removing the lock file, and that it notes
\* when a run has the file open
LEMMA DeleteStepLock == ASSUME LockInv, NEW d \in Deleters, DeleteStep(d) PROVE LockInv'
  <1> USE DEF LockInv
  <1>p. d \in Procs /\ d \notin Writers  BY ProcessAssumption DEF Procs
  <1>r. CASE RemoveLock(d)
    <2>1. /\ DOMAIN pc' = Procs
          /\ \A q \in Writers : pc'[q] = pc[q]
      BY <1>r, <1>p, Moved DEF RemoveLock, Procs
    <2>2. UNCHANGED <<locks, lockFd, dir, shift>>
      BY <1>r DEF RemoveLock, fileVars, runVars
    <2>3. /\ lockAt' \in {lockAt, NoFile} /\ raced' \in BOOLEAN /\ (raced => raced')
          /\ lockAt' = lockAt \/ raced' \/ lockAt = NoFile
             \/ \A w \in Writers : lockFd[w] # lockAt
      <3>1. CASE UNCHANGED <<lockAt, raced>>  BY <3>1 DEF Domains
      <3>2. CASE /\ lockAt' = NoFile
                 /\ raced' = (raced \/ (lockAt # NoFile /\ \E w \in Writers : lockFd[w] = lockAt))
        BY <3>2, Zenon DEF Domains
      <3> QED  BY <1>r, <3>1, <3>2 DEF RemoveLock
    <2>4. Domains'  BY <2>1, <2>2, <2>3 DEF Domains, NoFile
    <2>5. HasLockFile' /\ OneHolder'
      BY <2>1, <2>2 DEF HasLockFile, OneHolder, Holds, Holding
    <2>6. SameLockFile'  BY <2>2, <2>3 DEF SameLockFile
    <2> QED  BY <2>4, <2>5, <2>6
  <1>u. CASE Unlink(d)
    <2>1. UNCHANGED pc \/ \E label \in {"idle", "rmLock"} : Goto(d, label)
      BY <1>u DEF Unlink, AfterUnlink
    <2>2. UNCHANGED <<lockVars, shift, raced>>  BY <1>u DEF Unlink, runVars, ghosts
    <2>3. DOMAIN dir' = Names  BY <1>u DEF Unlink, Domains
    <2>4. DOMAIN pc' = Procs /\ \A q \in Procs : q # d => pc'[q] = pc[q]
      BY <2>1, <1>p, Moved DEF Domains
    <2> QED  BY <1>p, <2>2, <2>3, <2>4, LockKept DEF Domains
  <1>o. CASE ~RemoveLock(d) /\ ~Unlink(d)
    <2>1. \E label : Goto(d, label)
      BY <1>o DEF DeleteStep, Select, Plan, Confirm, Scan, ReadAgain, CheckLock, Rollup
    <2>2. UNCHANGED <<lockVars, dir, shift>>
      BY <1>o DEF DeleteStep, Select, Plan, Confirm, Scan, ReadAgain, CheckLock, Rollup,
         fileVars, runVars
    <2>3. raced' \in BOOLEAN /\ (raced => raced')
      BY <1>o DEF DeleteStep, Select, Plan, Confirm, Scan, ReadAgain, CheckLock, Rollup,
         ghosts, Domains
    <2>4. DOMAIN pc' = Procs /\ \A q \in Procs : q # d => pc'[q] = pc[q]
      BY <2>1, <1>p, Moved
    <2> QED  BY <1>p, <2>2, <2>3, <2>4, LockKept DEF Domains
  <1> QED  BY <1>r, <1>u, <1>o

LEMMA NextLock == LockInv /\ [Next]_vars => LockInv'
  <1> SUFFICES ASSUME LockInv, [Next]_vars PROVE LockInv'  OBVIOUS
  <1> USE DEF LockInv
  <1>1. ASSUME NEW w \in Writers, OpenLock(w) PROVE LockInv'  BY <1>1, OpenLockStep
  <1>2. ASSUME NEW w \in Writers, Lock(w) PROVE LockInv'  BY <1>2, LockStep
  <1>3. ASSUME NEW w \in Writers, Interrupt(w) PROVE LockInv'
    BY <1>3, LockDropped DEF Interrupt, Goto, Domains, fileVars, runVars, ghosts
  <1>4. ASSUME NEW w \in Writers, RunStep(w) PROVE LockInv'  BY <1>4, RunStepLock
  <1>5. ASSUME NEW d \in Deleters, DeleteStep(d) PROVE LockInv'  BY <1>5, DeleteStepLock
  <1>6. ASSUME NEW p \in Procs, Kill(p) PROVE LockInv'
    <2>1. CASE p \in Writers
      BY <1>6, <2>1, LockDropped DEF Kill, Goto, Domains, fileVars, ghosts
    <2>2. CASE p \notin Writers
      BY <1>6, <2>2, Moved, LockKept DEF Kill, Domains, lockVars, fileVars, ghosts
    <2> QED  BY <2>1, <2>2
  <1>7. CASE UNCHANGED vars
    BY <1>7 DEF vars, lockVars, fileVars, runVars, ghosts, Domains, HasLockFile, SameLockFile,
       OneHolder, Holds
  <1> QED  BY <1>1, <1>2, <1>3, <1>4, <1>5, <1>6, <1>7 DEF Next

LEMMA Excluded == LockInv => LockExcludesUnlessRaced
  BY DEF LockInv, HasLockFile, SameLockFile, OneHolder, LockExcludesUnlessRaced, LockExcludes,
     Holds

\* While no deletion races, a run that holds the lock is the only one to rotate
LEMMA Alone ==
  ASSUME LockInv, ~raced, NEW w \in Writers, pc[w] \in Holding,
         NEW v \in Writers, v # w
  PROVE  pc[v] # "shift"
  BY Excluded DEF LockExcludesUnlessRaced, LockExcludes, Holds, Holding

\* A step of a run that does not rename keeps TargetFree
LEMMA NotShifting ==
  ASSUME LockInv, TargetFree, ~raced, NEW w \in Writers, NEW label, pc[w] \in Holding,
         label # "shift", Goto(w, label),
         \A v \in Writers : v # w => shift'[v] = shift[v]
  PROVE  TargetFree'
  <1>1. \A v \in Writers : pc'[v] # "shift"
    <2> SUFFICES ASSUME NEW v \in Writers PROVE pc'[v] # "shift"  OBVIOUS
    <2>1. pc'[w] = label /\ (v # w => pc'[v] = pc[v])
      BY Moved DEF Procs, LockInv
    <2> QED  BY <2>1, Alone
  <1> QED  BY <1>1 DEF TargetFree

\* Each rename moves a file to the name that the one before it, or the removal
\* of the oldest archive, has freed; this is also what the rotation may drop
Kept == \A n \in 0 .. Keep - 1 : dir[n] = NoFile \/ \E m \in Names : dir'[m] = dir[n]

LEMMA RunStepFree ==
  ASSUME LockInv, TargetFree, ~raced, NEW w \in Writers, RunStep(w)
  PROVE  TargetFree' /\ Kept
  <1>h. pc[w] \in Holding
    BY DEF RunStep, OpenLog, BeginWrite, WritePart, StatArchives, CloseActive, RemoveOldest,
       ShiftArchive, Reopen, EndRun, Holding
  <1>s. ASSUME UNCHANGED dir PROVE Kept
    BY <1>s, SizeAssumption DEF Kept, Names
  <1>o. ASSUME OpenActive(w) PROVE Kept
    BY <1>o, SizeAssumption DEF Kept, Names, OpenActive, LockInv, Domains
  <1>n. ASSUME NEW label, label # "shift", Goto(w, label), UNCHANGED shift PROVE TargetFree'
    BY <1>n, <1>h, NotShifting
  <1>1. CASE OpenLog(w)
    BY <1>1, <1>s, <1>o, <1>n DEF OpenLog, fileVars
  <1>2. CASE BeginWrite(w)
    <2>1. \E label \in {"stat", "part"} : Goto(w, label)  BY <1>2 DEF BeginWrite
    <2> QED  BY <1>2, <2>1, <1>s, <1>n DEF BeginWrite, fileVars
  <1>3. CASE WritePart(w)
    <2>1. \E label \in {"run", "stat"} : Goto(w, label)  BY <1>3 DEF WritePart, GiveUp
    <2> QED  BY <1>3, <2>1, <1>s, <1>n DEF WritePart
  <1>4. CASE StatArchives(w)
    BY <1>4, <1>s, <1>n DEF StatArchives, GiveUp, fileVars
  <1>5. CASE CloseActive(w)
    BY <1>5, <1>s, <1>n DEF CloseActive, GiveUp, fileVars
  <1>6. CASE RemoveOldest(w)
    <2>1. CASE /\ dir' = [dir EXCEPT ![Keep] = NoFile]
               /\ shift' = [shift EXCEPT ![w] = Keep - 1]
               /\ Goto(w, "shift")
      <3>1. Kept  BY <2>1, SizeAssumption DEF Kept, Names, LockInv, Domains
      <3>2. shift'[w] = Keep - 1 /\ dir'[Keep] = NoFile
        BY <2>1, SizeAssumption DEF Names, LockInv, Domains
      <3>3. \A v \in Writers : v # w => pc'[v] # "shift"
        BY <2>1, <1>h, Alone, Moved DEF Procs, LockInv
      <3>4. shift'[w] + 1 = Keep  BY <3>2, SizeAssumption
      <3> QED  BY <3>1, <3>2, <3>3, <3>4 DEF TargetFree
    <2>2. CASE GiveUp(w) /\ UNCHANGED <<dir, shift>>
      BY <2>2, <1>s, <1>n DEF GiveUp
    <2> QED  BY <1>6, <2>1, <2>2 DEF RemoveOldest
  <1>7. CASE ShiftArchive(w)
    <2> DEFINE n == shift[w]
    <2>0. n \in 0 .. Keep - 1 /\ n \in Names /\ n + 1 \in Names /\ Keep \in Nat
      BY SizeAssumption DEF LockInv, Domains, Names
    <2>f. dir[n + 1] = NoFile
      BY <1>7 DEF TargetFree, ShiftArchive
    <2>1. CASE GiveUp(w) /\ UNCHANGED <<dir, shift>>
      BY <2>1, <1>s, <1>n DEF GiveUp
    <2>2. CASE dir' = IF dir[n] = NoFile THEN dir ELSE Renamed(dir, n, n + 1)
      <3>d. DOMAIN dir = Names  BY DEF LockInv, Domains
      <3>1. Kept
        <4>1. CASE dir' = dir  BY <4>1, <1>s
        <4>2. CASE dir' = Renamed(dir, n, n + 1)
          <5>1. dir'[n + 1] = dir[n] /\ \A m \in Names : m # n /\ m # n + 1 => dir'[m] = dir[m]
            BY <4>2, <2>0, <3>d DEF Renamed
          <5> SUFFICES ASSUME NEW k \in 0 .. Keep - 1, dir[k] # NoFile
                       PROVE  \E m \in Names : dir'[m] = dir[k]
            BY DEF Kept
          <5>2. CASE k = n  BY <5>1, <5>2, <2>0
          <5>3. CASE k # n
            <6>1. k # n + 1 /\ k \in Names  BY <2>f, <2>0 DEF Names
            <6> QED  BY <5>1, <5>3, <6>1
          <5> QED  BY <5>2, <5>3
        <4> QED  BY <2>2, <4>1, <4>2
      <3>2. dir'[n] = NoFile
        BY <2>2, <2>0, <3>d DEF Renamed
      <3>3. CASE n > 0 /\ shift' = [shift EXCEPT ![w] = n - 1] /\ UNCHANGED pc
        <4>1. shift'[w] + 1 = n  BY <3>3, <2>0 DEF LockInv, Domains
        <4>2. \A v \in Writers : v # w => pc'[v] # "shift"  BY <3>3, <1>h, Alone
        <4> QED  BY <3>1, <3>2, <4>1, <4>2 DEF TargetFree
      <3>4. CASE Goto(w, "reopen") /\ UNCHANGED shift
        BY <3>4, <3>1, <1>n
      <3>5. CASE GiveUp(w) /\ UNCHANGED <<dir, shift>>  BY <3>5, <2>1
      <3> QED  BY <1>7, <3>3, <3>4, <3>5 DEF ShiftArchive
    <2> QED  BY <1>7, <2>1, <2>2 DEF ShiftArchive
  <1>8. CASE Reopen(w)
    BY <1>8, <1>s, <1>o, <1>n DEF Reopen, GiveUp, fileVars
  <1>9. CASE EndRun(w)
    BY <1>9, <1>s, <1>n DEF EndRun, fileVars
  <1> QED
    BY <1>1, <1>2, <1>3, <1>4, <1>5, <1>6, <1>7, <1>8, <1>9 DEF RunStep

\* What one step may drop from the names
Drops == Kept \/ raced \/ \E d \in Deleters : pc[d] = "unlink"

LEMMA KeptWhenUnchanged == ASSUME UNCHANGED dir PROVE Kept
  BY SizeAssumption DEF Kept, Names

\* A step after which no run has begun to rename, and no name has changed
LEMMA FreeKept ==
  ASSUME TargetFree, UNCHANGED <<dir, shift>>, raced => raced',
         \A v \in Writers : pc'[v] = "shift" => pc[v] = "shift"
  PROVE  TargetFree' /\ Drops
  BY KeptWhenUnchanged DEF TargetFree, Drops

LEMMA DeleteStepFree ==
  ASSUME LockInv, TargetFree, NEW d \in Deleters, DeleteStep(d)
  PROVE  TargetFree' /\ Drops
  <1>p. d \in Procs /\ d \notin Writers  BY ProcessAssumption DEF Procs
  <1>u. CASE Unlink(d)
    <2>1. UNCHANGED <<shift, raced>>  BY <1>u DEF Unlink, runVars, ghosts
    <2>2. \A v \in Writers : pc'[v] = pc[v]
      <3>1. UNCHANGED pc \/ \E label \in {"idle", "rmLock"} : Goto(d, label)
        BY <1>u DEF Unlink, AfterUnlink
      <3> QED  BY <3>1, <1>p, Moved DEF LockInv, Procs
    <2>3. \A m \in Names : dir'[m] \in {dir[m], NoFile}
      BY <1>u DEF Unlink, LockInv, Domains
    <2>4. \A v \in Writers : shift[v] + 1 \in Names
      BY SizeAssumption DEF LockInv, Domains, Names
    <2>5. TargetFree'  BY <2>1, <2>2, <2>3, <2>4 DEF TargetFree
    <2> QED  BY <1>u, <2>5 DEF Drops, Unlink
  <1>o. CASE ~Unlink(d)
    <2>1. \E label : Goto(d, label)
      BY <1>o DEF DeleteStep, Select, Plan, Confirm, Scan, ReadAgain, CheckLock, RemoveLock, Rollup
    <2>2. UNCHANGED <<dir, shift>>
      BY <1>o DEF DeleteStep, Select, Plan, Confirm, Scan, ReadAgain, CheckLock, RemoveLock, Rollup,
         fileVars, runVars
    <2>3. raced => raced'
      BY <1>o DEF DeleteStep, Select, Plan, Confirm, Scan, ReadAgain, CheckLock, RemoveLock, Rollup,
         ghosts
    <2>4. \A v \in Writers : pc'[v] = pc[v]
      BY <2>1, <1>p, Moved DEF LockInv, Procs
    <2> QED  BY <2>2, <2>3, <2>4, FreeKept
  <1> QED  BY <1>u, <1>o

LEMMA NextFree == LockInv /\ TargetFree /\ [Next]_vars => TargetFree' /\ Drops
  <1> SUFFICES ASSUME LockInv, TargetFree, [Next]_vars PROVE TargetFree' /\ Drops  OBVIOUS
  <1>m. ASSUME NEW p \in Procs, NEW label, label # "shift", Goto(p, label)
        PROVE  \A v \in Writers : pc'[v] = "shift" => pc[v] = "shift"
    BY <1>m, Moved DEF LockInv, Procs
  <1>1. ASSUME NEW w \in Writers, OpenLock(w) \/ Lock(w) \/ Interrupt(w)
        PROVE  TargetFree' /\ Drops
    <2>1. \E label \in {"lock", "open", "done"} : Goto(w, label)
      BY <1>1 DEF OpenLock, Lock, Interrupt
    <2>2. UNCHANGED <<dir, shift>>
      BY <1>1 DEF OpenLock, Lock, Interrupt, fileVars, runVars
    <2>3. raced => raced'  BY <1>1 DEF OpenLock, Lock, Interrupt, ghosts
    <2>4. \A v \in Writers : pc'[v] = "shift" => pc[v] = "shift"
      BY <2>1, <1>m DEF Procs
    <2> QED  BY <2>2, <2>3, <2>4, FreeKept
  <1>2. ASSUME NEW w \in Writers, RunStep(w) PROVE TargetFree' /\ Drops
    <2>1. CASE raced
      <3>1. raced' = raced
        BY <1>2 DEF RunStep, OpenLog, BeginWrite, WritePart, StatArchives, CloseActive,
           RemoveOldest, ShiftArchive, Reopen, EndRun, ghosts
      <3> QED  BY <2>1, <3>1 DEF TargetFree, Drops
    <2>2. CASE ~raced  BY <1>2, <2>2, RunStepFree DEF Drops
    <2> QED  BY <2>1, <2>2
  <1>3. ASSUME NEW d \in Deleters, DeleteStep(d) PROVE TargetFree' /\ Drops
    BY <1>3, DeleteStepFree
  <1>4. ASSUME NEW p \in Procs, Kill(p) PROVE TargetFree' /\ Drops
    <2>1. \E label \in {"done", "idle"} : Goto(p, label)  BY <1>4 DEF Kill
    <2>2. UNCHANGED <<dir, shift, raced>>  BY <1>4 DEF Kill, fileVars, ghosts
    <2>3. \A v \in Writers : pc'[v] = "shift" => pc[v] = "shift"  BY <2>1, <1>m
    <2> QED  BY <2>2, <2>3, FreeKept
  <1>5. CASE UNCHANGED vars
    BY <1>5, FreeKept DEF vars, fileVars, runVars, ghosts
  <1> QED  BY <1>1, <1>2, <1>3, <1>4, <1>5 DEF Next

-----------------------------------------------------------------------------
\* Two runs of `edc log' with the same output never have the log at the same
\* time, unless a deletion removed the lock file beside a run: whatever fails or
\* is killed in between, and however often the log is rotated.
THEOREM LockExcludesAlways == Spec => []LockExcludesUnlessRaced
  <1>1. Spec => []LockInv
    BY InitLock, NextLock, PTL DEF Spec
  <1> QED  BY <1>1, Excluded, PTL

\* rotate never overwrites an archive: what a step takes from the names is the
\* oldest archive, or what a deletion was asked to remove.
THEOREM RotationDropsOldestOnlyAlways == Spec => RotationDropsOldestOnly
  <1>1. LockInv /\ TargetFree /\ [Next]_vars => LockInv' /\ TargetFree' /\ Drops
    BY NextLock, NextFree
  <1>2. Drops => OnlyOldestDropped  BY DEF Drops, Kept, OnlyOldestDropped
  <1> QED  BY InitLock, <1>1, <1>2, PTL DEF Spec, RotationDropsOldestOnly

-----------------------------------------------------------------------------
(* Sequences of sequences                                                  *)

\* A set of natural numbers has a least element
LEMMA LeastElement ==
  ASSUME NEW T, T \subseteq Nat, T # {}
  PROVE  \E m \in T : \A k \in T : m <= k
  <1> DEFINE D == {0 .. k : k \in T}
  <1>1. D \subseteq FiniteSubsetsOf(Nat)
    <2> SUFFICES ASSUME NEW k \in T PROVE 0 .. k \in FiniteSubsetsOf(Nat)  OBVIOUS
    <2>1. IsFiniteSet(0 .. k)  BY FS_Interval
    <2> QED  BY <2>1 DEF FiniteSubsetsOf
  <1>2. D # {}  OBVIOUS
  <1>3. \E x \in D : \A y \in D : <<y, x>> \notin StrictSubsetOrdering(Nat)
    <2> HIDE DEF D
    <2> QED  BY <1>1, <1>2, WFMin, FS_StrictSubsetOrderingWellFounded
  <1>4. PICK m \in T : \A k \in T : <<0 .. k, 0 .. m>> \notin StrictSubsetOrdering(Nat)
    BY <1>3
  <1>5. ASSUME NEW k \in T, k < m PROVE FALSE
    <2>1. 0 .. k \in SUBSET Nat /\ 0 .. m \in SUBSET Nat  OBVIOUS
    <2>2. 0 .. k \subseteq 0 .. m  BY <1>5
    <2>3. 0 .. k # 0 .. m
      <3>1. m \in 0 .. m /\ m \notin 0 .. k  BY <1>5
      <3> QED  BY <3>1
    <2> QED  BY <2>1, <2>2, <2>3, <1>4 DEF StrictSubsetOrdering
  <1> QED  BY <1>5

\* Induction, with a set of numbers in the place of a predicate
LEMMA Induction ==
  ASSUME NEW S, 0 \in S, \A n \in Nat : n \in S => n + 1 \in S
  PROVE  Nat \subseteq S
  <1> SUFFICES ASSUME Nat \ S # {} PROVE FALSE  OBVIOUS
  <1>1. PICK m \in Nat \ S : \A k \in Nat \ S : m <= k  BY LeastElement
  <1>2. m # 0 /\ m - 1 \in Nat  OBVIOUS
  <1> QED  BY <1>1, <1>2

\* The first n of the sequences ss, one after the other
FlatTo(ss, f, n) == f = [i \in 0 .. n |-> IF i = 0 THEN <<>> ELSE f[i - 1] \o ss[i]]

LEMMA FlatExists == ASSUME NEW ss, NEW n \in Nat PROVE \E f : FlatTo(ss, f, n)
  <1> DEFINE S == {k \in Nat : \E f : FlatTo(ss, f, k)}
  <1>1. 0 \in S
    <2>1. FlatTo(ss, [i \in 0 .. 0 |-> <<>>], 0)  BY DEF FlatTo
    <2> QED  BY <2>1
  <1>2. ASSUME NEW k \in Nat, k \in S PROVE k + 1 \in S
    <2>1. PICK f : FlatTo(ss, f, k)  BY <1>2
    <2> DEFINE g == [i \in 0 .. k + 1 |-> IF i \in 0 .. k THEN f[i] ELSE f[k] \o ss[k + 1]]
               h == [i \in 0 .. k + 1 |-> IF i = 0 THEN <<>> ELSE g[i - 1] \o ss[i]]
    <2>2. ASSUME NEW i \in 0 .. k + 1 PROVE g[i] = h[i]
      <3>1. CASE i = 0  BY <2>1, <3>1 DEF FlatTo
      <3>2. CASE i # 0 /\ i \in 0 .. k  BY <2>1, <3>2 DEF FlatTo
      <3>3. CASE i = k + 1  BY <3>3
      <3> QED  BY <3>1, <3>2, <3>3
    <2>3. g = h  BY <2>2
    <2> HIDE DEF g
    <2>4. FlatTo(ss, g, k + 1)  BY <2>3 DEF FlatTo
    <2> QED  BY <2>4
  <1> HIDE DEF S
  <1>3. n \in S  BY <1>1, <1>2, Induction
  <1> QED  BY <1>3 DEF S

\* What Flat computes: the last of the partial results
LEMMA FlatDef ==
  ASSUME NEW ss, Len(ss) \in Nat
  PROVE  \E f : FlatTo(ss, f, Len(ss)) /\ Flat(ss) = f[Len(ss)]
  <1> DEFINE f == CHOOSE g : g = [i \in 0 .. Len(ss) |-> IF i = 0 THEN <<>> ELSE g[i - 1] \o ss[i]]
  <1>1. \E g : g = [i \in 0 .. Len(ss) |-> IF i = 0 THEN <<>> ELSE g[i - 1] \o ss[i]]
    BY FlatExists DEF FlatTo
  <1>2. f = [i \in 0 .. Len(ss) |-> IF i = 0 THEN <<>> ELSE f[i - 1] \o ss[i]]
    BY <1>1
  <1>3. Flat(ss) = f[Len(ss)]  BY DEF Flat
  <1> HIDE DEF f
  <1> QED  BY <1>2, <1>3 DEF FlatTo

LEMMA FlatSteps ==
  ASSUME NEW ss, NEW f, NEW n \in Nat, FlatTo(ss, f, n)
  PROVE  f[0] = <<>> /\ \A m \in 0 .. n - 1 : f[m + 1] = f[m] \o ss[m + 1]
  <1>1. f[0] = <<>>  BY DEF FlatTo
  <1>2. ASSUME NEW m \in 0 .. n - 1 PROVE f[m + 1] = f[m] \o ss[m + 1]
    <2>1. m + 1 \in 0 .. n /\ m + 1 # 0 /\ (m + 1) - 1 = m  OBVIOUS
    <2>2. \A i \in 0 .. n : f[i] = IF i = 0 THEN <<>> ELSE f[i - 1] \o ss[i]  BY DEF FlatTo
    <2> QED  BY <2>1, <2>2
  <1> QED  BY <1>1, <1>2

\* Every element of u is an element of one of the sequences ss
ComesFrom(u, ss) ==
    \A i \in 1 .. Len(u) : \E j \in 1 .. Len(ss) : \E k \in 1 .. Len(ss[j]) : u[i] = ss[j][k]

\* Flat of sequences over T is a sequence over T, and has no other elements
LEMMA FlatType ==
  ASSUME NEW T, NEW ss \in Seq(Seq(T))
  PROVE  Flat(ss) \in Seq(T) /\ ComesFrom(Flat(ss), ss)
  <1>0. PICK n \in Nat : n = Len(ss)  OBVIOUS
  <1>1. PICK f : FlatTo(ss, f, n) /\ Flat(ss) = f[n]  BY <1>0, FlatDef
  <1> DEFINE S == {m \in Nat : m <= n => f[m] \in Seq(T) /\ ComesFrom(f[m], ss)}
  <1>2. 0 \in S
    <2>1. f[0] = <<>>  BY <1>1, FlatSteps
    <2>2. <<>> \in Seq(T) /\ ComesFrom(<<>>, ss)  BY DEF ComesFrom
    <2> QED  BY <2>1, <2>2
  <1>3. ASSUME NEW m \in Nat, m \in S PROVE m + 1 \in S
    <2> SUFFICES ASSUME m + 1 <= n PROVE f[m + 1] \in Seq(T) /\ ComesFrom(f[m + 1], ss)
      OBVIOUS
    <2>0. m \in 0 .. n - 1 /\ m <= n /\ m + 1 \in 1 .. n  OBVIOUS
    <2>1. f[m + 1] = f[m] \o ss[m + 1]  BY <1>1, <2>0, FlatSteps
    <2>2. f[m] \in Seq(T) /\ ComesFrom(f[m], ss)  BY <2>0, <1>3
    <2>3. ss[m + 1] \in Seq(T)  BY <2>0, <1>0
    <2>4. f[m + 1] \in Seq(T) /\ Len(f[m + 1]) = Len(f[m]) + Len(ss[m + 1])
      BY <2>1, <2>2, <2>3
    <2>5. ASSUME NEW i \in 1 .. Len(f[m + 1])
          PROVE  \E j \in 1 .. Len(ss) : \E k \in 1 .. Len(ss[j]) : f[m + 1][i] = ss[j][k]
      <3>0. PICK a \in Nat, b \in Nat : a = Len(f[m]) /\ b = Len(ss[m + 1])
        BY <2>2, <2>3, LenProperties
      <3>i. i \in 1 .. a + b  BY <3>0, <2>4
      <3>c. (f[m] \o ss[m + 1])[i] = IF i <= a THEN f[m][i] ELSE ss[m + 1][i - a]
        BY <3>0, <3>i, <2>2, <2>3, ConcatProperties
      <3>1. CASE i <= a
        <4>1. i \in 1 .. a  BY <3>i, <3>1
        <4> QED  BY <3>0, <3>c, <3>1, <4>1, <2>1, <2>2 DEF ComesFrom
      <3>2. CASE ~(i <= a)
        <4>1. i - a \in 1 .. b  BY <3>i, <3>2
        <4>2. m + 1 \in 1 .. Len(ss)  BY <2>0, <1>0
        <4>3. f[m + 1][i] = ss[m + 1][i - a]  BY <3>c, <3>2, <2>1
        <4> QED  BY <3>0, <4>1, <4>2, <4>3
      <3> QED  BY <3>1, <3>2
    <2>6. ComesFrom(f[m + 1], ss)  BY <2>5 DEF ComesFrom
    <2> QED  BY <2>4, <2>6
  <1> HIDE DEF S
  <1>4. n \in S  BY <1>2, <1>3, Induction
  <1>5. f[n] \in Seq(T) /\ ComesFrom(f[n], ss)  BY <1>4 DEF S
  <1> QED  BY <1>1, <1>5
-----------------------------------------------------------------------------
(* The types                                                               *)

FilesOK ==
    /\ data \in Seq(Seq(Unit))
    /\ dir \in [Names -> 0 .. Len(data)]
    /\ fd \in [Writers -> 0 .. Len(data)]
    /\ written \in Seq(Unit)

CountersOK ==
    /\ size \in [Writers -> Nat] /\ left \in [Writers -> Nat]
    /\ records \in [Writers -> Nat] /\ sent \in [Writers -> Nat]

\* The parts of a scan are files that exist and have not shrunk since
Readable(ps) ==
    /\ ps \in Seq(Part)
    /\ \A i \in 1 .. Len(ps) :
         ps[i].file \in 1 .. Len(data) /\ ps[i].length <= Len(data[ps[i].file])

\* A scan reads what is there
LEMMA ScannedReadable == FilesOK => Readable(Scanned)
  <1> SUFFICES ASSUME FilesOK PROVE Readable(Scanned)  OBVIOUS
  <1> DEFINE P  == {p \in Part : p.file \in 1 .. Len(data) /\ p.length <= Len(data[p.file])}
             ss == [i \in 1 .. Keep + 1 |-> PartAt(Keep + 1 - i)]
  <1>1. ASSUME NEW n \in Names PROVE PartAt(n) \in Seq(P)
    <2>1. CASE dir[n] = NoFile  BY <2>1 DEF PartAt
    <2>2. CASE dir[n] # NoFile
      <3>1. dir[n] \in 1 .. Len(data)  BY <1>1, <2>2 DEF FilesOK, NoFile
      <3>2. data[dir[n]] \in Seq(Unit)  BY <3>1 DEF FilesOK
      <3>3. Len(data[dir[n]]) \in Nat  BY <3>2
      <3>4. [name |-> n, file |-> dir[n], length |-> Len(data[dir[n]])] \in P
        BY <1>1, <3>1, <3>3 DEF Part, FilesOK
      <3> HIDE DEF P
      <3> QED  BY <2>2, <3>4 DEF PartAt
    <2> QED  BY <2>1, <2>2
  <1>2. ss \in Seq(Seq(P))
    <2>1. ASSUME NEW i \in 1 .. Keep + 1 PROVE Keep + 1 - i \in Names
      BY SizeAssumption DEF Names
    <2> HIDE DEF P
    <2> QED  BY <1>1, <2>1, SizeAssumption
  <1>3. Scanned \in Seq(P)
    <2> HIDE DEF P
    <2>1. Scanned = Flat(ss)  BY DEF Scanned
    <2> HIDE DEF ss
    <2> QED  BY <1>2, <2>1, FlatType
  <1>4. Scanned \in Seq(Part)  BY <1>3, SeqMonotonic, P \subseteq Part
  <1>5. \A i \in 1 .. Len(Scanned) : Scanned[i] \in P
    <2> HIDE DEF P
    <2> QED  BY <1>3
  <1> QED  BY <1>4, <1>5 DEF Readable

\* What can be read of such parts are units of runs
LEMMA UnitsType == ASSUME FilesOK, NEW ps, Readable(ps) PROVE UnitsOf(ps) \in Seq(Unit)
  <1> DEFINE ss == [i \in 1 .. Len(ps) |-> SubSeq(data[ps[i].file], 1, ps[i].length)]
  <1>1. ASSUME NEW i \in 1 .. Len(ps) PROVE SubSeq(data[ps[i].file], 1, ps[i].length) \in Seq(Unit)
    <2>0. ps[i] \in Part /\ ps[i].file \in 1 .. Len(data) /\ ps[i].length <= Len(data[ps[i].file])
      BY <1>1 DEF Readable
    <2>1. PICK u \in Seq(Unit), n \in Nat : u = data[ps[i].file] /\ n = ps[i].length /\ n <= Len(u)
      BY <2>0 DEF FilesOK, Part
    <2>2. \A k \in 1 .. n : u[k] \in Unit  BY <2>1
    <2> QED  BY <2>1, <2>2, SubSeqProperties
  <1>2. Len(ps) \in Nat  BY DEF Readable
  <1>3. ss \in Seq(Seq(Unit))  BY <1>1, <1>2
  <1>4. UnitsOf(ps) = Flat(ss)  BY DEF UnitsOf
  <1> HIDE DEF ss
  <1> QED  BY <1>3, <1>4, FlatType

\* A finite set of run IDs
LEMMA RowsType ==
  ASSUME FilesOK, NEW ps, Readable(ps)
  PROVE  Rows(ps) \in SUBSET RunID /\ IsFiniteSet(Rows(ps)) /\ Headless(ps) \in SUBSET Writers
  <1>0. PICK us \in Seq(Unit) : us = UnitsOf(ps)  BY UnitsType
  <1> DEFINE ord(i) == Cardinality({j \in Starts(us) : j <= i})
             f == [i \in Starts(us) |-> <<us[i][1], ord(i)>>]
  <1>1. Starts(us) \subseteq 1 .. Len(us) /\ IsFiniteSet(Starts(us))
    <2>1. IsFiniteSet(1 .. Len(us))  BY FS_Interval
    <2>2. Starts(us) \in SUBSET (1 .. Len(us))  BY DEF Starts
    <2> QED  BY <2>1, <2>2, FS_Subset
  <1>2. ASSUME NEW i \in Starts(us) PROVE ord(i) \in Nat \ {0}
    <2>1. PICK B : B = {j \in Starts(us) : j <= i}  OBVIOUS
    <2>2. B \in SUBSET Starts(us) /\ B # {}  BY <2>1, <1>1
    <2>3. IsFiniteSet(B)  BY <2>2, <1>1, FS_Subset
    <2>4. Cardinality(B) \in Nat /\ Cardinality(B) # 0
      BY <2>2, <2>3, FS_EmptySet, FS_CardinalityType
    <2> QED  BY <2>1, <2>4
  <1>3. Rows(ps) = {f[i] : i \in Starts(us)}  BY <1>0 DEF Rows
  <1>4. ASSUME NEW i \in Starts(us) PROVE f[i] \in RunID
    <2>1. us[i] \in Unit  BY <1>1
    <2>2. us[i][1] \in Writers  BY <2>1 DEF Unit
    <2> HIDE DEF ord
    <2> QED  BY <2>2, <1>2 DEF RunID
  <1>5. Rows(ps) \in SUBSET RunID  BY <1>3, <1>4
  <1>6. IsFiniteSet(Rows(ps))
    <2>1. f \in Surjection(Starts(us), Rows(ps))
      <3> HIDE DEF ord
      <3>1. f \in [Starts(us) -> Rows(ps)]  BY <1>3
      <3>2. \A t \in Rows(ps) : \E i \in Starts(us) : f[i] = t  BY <1>3
      <3> QED  BY <3>1, <3>2 DEF Surjection
    <2> HIDE DEF f
    <2> QED  BY <2>1, <1>1, FS_Surjection
  <1>7. Headless(ps) \in SUBSET Writers
    <2>1. \A i \in 1 .. Len(us) : us[i][1] \in Writers  BY DEF Unit
    <2> QED  BY <2>1, <1>0 DEF Headless
  <1> QED  BY <1>5, <1>6, <1>7

\* What a step of a run, or its kill, does to the files: they only grow
Grown ==
    /\ Len(data') >= Len(data)
    /\ \A f \in 1 .. Len(data) : Len(data'[f]) >= Len(data[f])

LEMMA GrownWhenUnchanged == FilesOK /\ UNCHANGED data => Grown
  BY DEF Grown, FilesOK

LEMMA StillReadable ==
  ASSUME FilesOK, FilesOK', Grown, NEW ps, Readable(ps)
  PROVE  \A i \in 1 .. Len(ps) :
           ps[i].file \in 1 .. Len(data') /\ ps[i].length <= Len(data'[ps[i].file])
  <1> SUFFICES ASSUME NEW i \in 1 .. Len(ps)
               PROVE  ps[i].file \in 1 .. Len(data') /\ ps[i].length <= Len(data'[ps[i].file])
    OBVIOUS
  <1>1. ps[i] \in Part /\ ps[i].file \in 1 .. Len(data) /\ ps[i].length <= Len(data[ps[i].file])
    BY DEF Readable
  <1>2. PICK f \in Nat, n \in Nat : f = ps[i].file /\ n = ps[i].length  BY <1>1 DEF Part
  <1>3. Len(data) \in Nat /\ Len(data') \in Nat  BY DEF FilesOK
  <1>4. f \in 1 .. Len(data')  BY <1>1, <1>2, <1>3 DEF Grown
  <1>5. data[f] \in Seq(Unit)  BY <1>1, <1>2 DEF FilesOK
  <1>6. Len(data[f]) \in Nat /\ Len(data'[f]) \in Nat
    <2>1. data' \in Seq(Seq(Unit))  BY DEF FilesOK, Unit
    <2>2. data'[f] \in Seq(Unit)  BY <1>4, <2>1
    <2> QED  BY <1>5, <2>2
  <1>7. n <= Len(data'[f])  BY <1>1, <1>2, <1>6 DEF Grown
  <1> QED  BY <1>2, <1>4, <1>7

\* Opening the log for appending
LEMMA OpenActiveFiles ==
  ASSUME FilesOK, NEW w \in Writers, OpenActive(w), UNCHANGED written
  PROVE  FilesOK' /\ Grown /\ dir'[0] \in 1 .. Len(data') /\ fd'[w] = dir'[0]
  <1>n. 0 \in Names  BY SizeAssumption DEF Names
  <1>1. CASE dir[0] = NoFile
    <2>1. data' = Append(data, <<>>) /\ dir' = [dir EXCEPT ![0] = Len(data) + 1]
      BY <1>1 DEF OpenActive
    <2>2. <<>> \in Seq(Unit) /\ Len(data) \in Nat  BY DEF FilesOK
    <2>3. /\ data' \in Seq(Seq(Unit)) /\ Len(data') = Len(data) + 1
          /\ \A i \in 1 .. Len(data) : data'[i] = data[i]
      BY <2>1, <2>2, AppendProperties DEF FilesOK
    <2>4. dir' \in [Names -> 0 .. Len(data')] /\ dir'[0] = Len(data')
      BY <1>n, <2>1, <2>2, <2>3 DEF FilesOK
    <2>5. fd' \in [Writers -> 0 .. Len(data')] /\ fd'[w] = dir'[0]
      BY <2>2, <2>3, <2>4 DEF FilesOK, OpenActive
    <2>6. Grown
      BY <2>2, <2>3 DEF Grown, FilesOK
    <2> QED  BY <2>2, <2>3, <2>4, <2>5, <2>6 DEF FilesOK
  <1>2. CASE dir[0] # NoFile
    <2>1. UNCHANGED <<data, dir>>  BY <1>2 DEF OpenActive
    <2>2. dir[0] \in 1 .. Len(data)  BY <1>n, <1>2 DEF FilesOK, NoFile
    <2> QED  BY <2>1, <2>2, GrownWhenUnchanged DEF FilesOK, OpenActive
  <1> QED  BY <1>1, <1>2

LEMMA UnitsAreUnits ==
  ASSUME CountersOK, NEW w \in Writers, NEW n \in Nat
  PROVE  Units(w, n) \in Seq(Unit) /\ Len(Units(w, n)) = n
  <1>1. \A i \in 1 .. n : <<w, sent[w] + i>> \in Unit  BY DEF CountersOK, Unit
  <1> QED  BY <1>1 DEF Units

\* A write appends to the open file
LEMMA WritePartFiles ==
  ASSUME FilesOK, CountersOK, NEW w \in Writers, NEW n \in Nat,
         data' = [data EXCEPT ![fd[w]] = @ \o Units(w, n)],
         written' = written \o Units(w, n), UNCHANGED <<dir, fd>>
  PROVE  /\ FilesOK' /\ Grown /\ Len(data') = Len(data)
         /\ \A f \in 1 .. Len(data) : f # fd[w] => data'[f] = data[f]
         /\ fd[w] # NoFile => Len(data'[fd[w]]) = Len(data[fd[w]]) + n
  <1>u. PICK u \in Seq(Unit) : u = Units(w, n) /\ Len(u) = n  BY UnitsAreUnits
  <1>1. written' \in Seq(Unit)  BY <1>u DEF FilesOK
  <1>f. fd[w] \in 0 .. Len(data) /\ Len(data) \in Nat  BY DEF FilesOK
  <1>2. CASE fd[w] = NoFile
    <2>1. data' = data
      <3>1. DOMAIN data = 1 .. Len(data)  BY DEF FilesOK
      <3>2. fd[w] \notin DOMAIN data  BY <3>1, <1>2, <1>f DEF NoFile
      <3> QED  BY <3>1, <3>2 DEF FilesOK
    <2> QED  BY <2>1, <1>1, <1>2, GrownWhenUnchanged DEF FilesOK
  <1>3. CASE fd[w] # NoFile
    <2>0. fd[w] \in 1 .. Len(data)  BY <1>3, <1>f DEF NoFile
    <2>1. data[fd[w]] \in Seq(Unit)  BY <2>0 DEF FilesOK
    <2>2. PICK c \in Seq(Unit) : c = data[fd[w]] \o u /\ Len(c) = Len(data[fd[w]]) + n
      <3>1. PICK b \in Seq(Unit) : b = data[fd[w]]  BY <2>1
      <3>2. b \o u \in Seq(Unit) /\ Len(b \o u) = Len(b) + Len(u)  BY ConcatProperties
      <3> QED  BY <3>1, <3>2, <1>u
    <2>3. data' = [data EXCEPT ![fd[w]] = c]  BY <2>2, <1>u
    <2>4. /\ data' \in Seq(Seq(Unit)) /\ Len(data') = Len(data)
          /\ \A j \in 1 .. Len(data) : data'[j] = IF j = fd[w] THEN c ELSE data[j]
      <3>1. PICK s \in Seq(Seq(Unit)), k \in 1 .. Len(data) : s = data /\ k = fd[w]
        BY <2>0 DEF FilesOK
      <3>2. data' = [s EXCEPT ![k] = c]  BY <2>3, <3>1
      <3>3. /\ [s EXCEPT ![k] = c] \in Seq(Seq(Unit))
            /\ Len([s EXCEPT ![k] = c]) = Len(s)
            /\ \A j \in 1 .. Len(s) : [s EXCEPT ![k] = c][j] = IF j = k THEN c ELSE s[j]
        BY <3>1, ExceptSeq
      <3> QED  BY <3>1, <3>2, <3>3
    <2>5. Grown
      <3>1. ASSUME NEW j \in 1 .. Len(data) PROVE Len(data'[j]) >= Len(data[j])
        <4>1. Len(data[j]) \in Nat  BY DEF FilesOK
        <4>2. Len(data[fd[w]]) + n >= Len(data[fd[w]])  BY <2>1
        <4> QED  BY <2>2, <2>4, <4>1, <4>2
      <3> QED  BY <2>4, <3>1, <1>f DEF Grown
    <2> QED  BY <1>1, <2>0, <2>2, <2>4, <2>5 DEF FilesOK
  <1> QED  BY <1>2, <1>3

RunOK == FilesOK /\ CountersOK

\* A step that leaves the files alone
LEMMA FilesKept == ASSUME FilesOK, UNCHANGED <<data, dir, fd, written>> PROVE FilesOK' /\ Grown
  BY GrownWhenUnchanged DEF FilesOK

LEMMA WritePartRun == ASSUME RunOK, NEW w \in Writers, WritePart(w) PROVE RunOK' /\ Grown
  <1> USE DEF RunOK
  <1>1. PICK n \in 0 .. PartSize(w) :
          /\ data' = [data EXCEPT ![fd[w]] = @ \o Units(w, n)]
          /\ written' = written \o Units(w, n)
          /\ size' = [size EXCEPT ![w] = @ + n]
          /\ sent' = [sent EXCEPT ![w] = @ + n]
          /\ IF n < PartSize(w) THEN GiveUp(w)
             ELSE /\ left' = [left EXCEPT ![w] = @ - n]
                  /\ Goto(w, IF left'[w] = 0 THEN "run" ELSE "stat")
    BY DEF WritePart
  <1>2. size[w] \in Nat /\ left[w] \in Nat /\ sent[w] \in Nat  BY DEF CountersOK
  <1>3. n \in Nat /\ n <= left[w]  BY <1>2, SizeAssumption DEF PartSize
  <1>4. UNCHANGED <<dir, fd, records>>  BY DEF WritePart
  <1>5. FilesOK' /\ Grown  BY <1>1, <1>3, <1>4, WritePartFiles
  <1>6. left' \in [Writers -> Nat]
    <2>1. left[w] - n \in Nat  BY <1>2, <1>3
    <2>2. CASE GiveUp(w)  BY <2>2 DEF GiveUp, CountersOK
    <2>3. CASE left' = [left EXCEPT ![w] = @ - n]  BY <2>1, <2>3 DEF CountersOK
    <2> QED  BY <1>1, <2>2, <2>3
  <1>7. size' \in [Writers -> Nat] /\ sent' \in [Writers -> Nat]
    BY <1>1, <1>3 DEF CountersOK
  <1> QED  BY <1>4, <1>5, <1>6, <1>7 DEF CountersOK

LEMMA RunStepRun == ASSUME LockInv, RunOK, NEW w \in Writers, RunStep(w) PROVE RunOK' /\ Grown
  <1> USE DEF RunOK
  <1>c. CountersOK => /\ GiveUp(w) => left' \in [Writers -> Nat]
                      /\ UNCHANGED left => left' \in [Writers -> Nat]
    BY DEF GiveUp, CountersOK
  <1>1. CASE OpenLog(w)
    <2>0. UNCHANGED <<written, left, records, sent>>  BY <1>1 DEF OpenLog, ghosts
    <2>1. CASE OpenActive(w) /\ size' = [size EXCEPT ![w] = Len(data'[dir'[0]])]
      <3>1. FilesOK' /\ Grown /\ dir'[0] \in 1 .. Len(data')
        BY <2>0, <2>1, OpenActiveFiles
      <3>2. Len(data'[dir'[0]]) \in Nat  BY <3>1 DEF FilesOK
      <3> QED  BY <2>0, <2>1, <3>1, <3>2 DEF CountersOK
    <2>2. CASE UNCHANGED <<fileVars, fd, size>>
      BY <2>0, <2>2, FilesKept DEF CountersOK, fileVars
    <2> QED  BY <1>1, <2>1, <2>2 DEF OpenLog
  <1>2. CASE BeginWrite(w)
    <2>1. PICK n \in Nat : left' = [left EXCEPT ![w] = n]
      BY <1>2, LengthAssumption DEF BeginWrite
    <2>2. UNCHANGED <<data, dir, fd, written, size, sent>> /\ records' = [records EXCEPT ![w] = @ + 1]
      BY <1>2 DEF BeginWrite, fileVars, ghosts
    <2> QED  BY <2>1, <2>2, FilesKept DEF CountersOK
  <1>3. CASE WritePart(w)  BY <1>3, WritePartRun
  <1>4. CASE StatArchives(w)
    BY <1>4, <1>c, FilesKept DEF StatArchives, CountersOK, fileVars, ghosts
  <1>5. CASE CloseActive(w)
    <2>1. fd' \in [Writers -> 0 .. Len(data)]
      BY <1>5 DEF CloseActive, FilesOK, NoFile
    <2>2. UNCHANGED <<data, dir, written, size, records, sent>>
      BY <1>5 DEF CloseActive, fileVars, ghosts
    <2>3. left' \in [Writers -> Nat]  BY <1>5, <1>c DEF CloseActive
    <2> QED  BY <2>1, <2>2, <2>3, GrownWhenUnchanged DEF FilesOK, CountersOK
  <1>6. CASE RemoveOldest(w)
    <2>1. dir' \in [Names -> 0 .. Len(data)]
      BY <1>6 DEF RemoveOldest, FilesOK, NoFile
    <2>2. UNCHANGED <<data, fd, written, size, records, sent>>
      BY <1>6 DEF RemoveOldest, ghosts
    <2>3. left' \in [Writers -> Nat]  BY <1>6, <1>c DEF RemoveOldest
    <2> QED  BY <2>1, <2>2, <2>3, GrownWhenUnchanged DEF FilesOK, CountersOK
  <1>7. CASE ShiftArchive(w)
    <2>1. dir' \in [Names -> 0 .. Len(data)]
      <3>1. shift[w] \in Names  BY SizeAssumption DEF LockInv, Domains, Names
      <3>2. CASE dir' = dir  BY <3>2 DEF FilesOK
      <3>3. CASE dir' = Renamed(dir, shift[w], shift[w] + 1)
        BY <3>1, <3>3 DEF FilesOK, Renamed, NoFile
      <3> QED  BY <1>7, <3>2, <3>3 DEF ShiftArchive
    <2>2. UNCHANGED <<data, fd, written, size, records, sent>>
      BY <1>7 DEF ShiftArchive, ghosts
    <2>3. left' \in [Writers -> Nat]  BY <1>7, <1>c DEF ShiftArchive
    <2> QED  BY <2>1, <2>2, <2>3, GrownWhenUnchanged DEF FilesOK, CountersOK
  <1>8. CASE Reopen(w)
    <2>1. UNCHANGED <<written, records, sent>>  BY <1>8 DEF Reopen, ghosts
    <2>2. left' \in [Writers -> Nat]  BY <1>8, <1>c DEF Reopen
    <2>3. size' \in [Writers -> Nat]  BY <1>8 DEF Reopen, CountersOK
    <2>4. FilesOK' /\ Grown
      <3>1. CASE OpenActive(w)  BY <2>1, <3>1, OpenActiveFiles
      <3>2. CASE UNCHANGED <<fileVars, fd, size>>  BY <2>1, <3>2, FilesKept DEF fileVars
      <3> QED  BY <1>8, <3>1, <3>2 DEF Reopen
    <2> QED  BY <2>1, <2>2, <2>3, <2>4 DEF CountersOK
  <1>9. CASE EndRun(w)
    <2>1. fd' \in [Writers -> 0 .. Len(data)]  BY <1>9 DEF EndRun, FilesOK, NoFile
    <2>2. UNCHANGED <<data, dir, written, size, left, records, sent>>
      BY <1>9 DEF EndRun, fileVars, ghosts
    <2> QED  BY <2>1, <2>2, GrownWhenUnchanged DEF FilesOK, CountersOK
  <1> QED
    BY <1>1, <1>2, <1>3, <1>4, <1>5, <1>6, <1>7, <1>8, <1>9 DEF RunStep

LEMMA NextRun == ASSUME LockInv, RunOK, [Next]_vars PROVE RunOK' /\ Grown
  <1> USE DEF RunOK
  <1>0. ASSUME UNCHANGED <<data, dir, fd, written, size, left, records, sent>> PROVE RunOK' /\ Grown
    BY <1>0, FilesKept DEF CountersOK
  <1>1. ASSUME NEW w \in Writers, OpenLock(w) \/ Lock(w) \/ Interrupt(w) PROVE RunOK' /\ Grown
    BY <1>1, <1>0 DEF OpenLock, Lock, Interrupt, fileVars, runVars, ghosts
  <1>2. ASSUME NEW w \in Writers, RunStep(w) PROVE RunOK' /\ Grown  BY <1>2, RunStepRun
  <1>3. ASSUME NEW d \in Deleters, DeleteStep(d) PROVE RunOK' /\ Grown
    <2>1. CASE Unlink(d)
      <3>1. dir' \in [Names -> 0 .. Len(data)]
        BY <2>1 DEF Unlink, FilesOK, NoFile
      <3>2. UNCHANGED <<data, fd, written, size, left, records, sent>>
        BY <2>1 DEF Unlink, runVars, ghosts
      <3> QED  BY <3>1, <3>2, GrownWhenUnchanged DEF FilesOK, CountersOK
    <2>2. CASE ~Unlink(d)
      BY <1>3, <2>2, <1>0 DEF DeleteStep, Select, Plan, Confirm, Scan, ReadAgain, CheckLock,
         RemoveLock, Rollup, fileVars, runVars, ghosts
    <2> QED  BY <2>1, <2>2
  <1>4. ASSUME NEW p \in Procs, Kill(p) PROVE RunOK' /\ Grown
    <2>1. fd' \in [Writers -> 0 .. Len(data)]
      <3>1. CASE fd' = fd  BY <3>1 DEF FilesOK
      <3>2. CASE p \in Writers /\ fd' = [fd EXCEPT ![p] = NoFile]  BY <3>2 DEF FilesOK, NoFile
      <3> QED  BY <1>4, <3>1, <3>2 DEF Kill
    <2>2. UNCHANGED <<data, dir, written, size, left, records, sent>>
      BY <1>4 DEF Kill, fileVars, ghosts
    <2> QED  BY <2>1, <2>2, GrownWhenUnchanged DEF FilesOK, CountersOK
  <1>5. CASE UNCHANGED vars  BY <1>5, <1>0 DEF vars, fileVars, runVars, ghosts
  <1> QED  BY <1>1, <1>2, <1>3, <1>4, <1>5 DEF Next

Labels == {"idle", "lock", "done"} \cup Holding \cup Deleting

ProcsOK ==
    /\ lockFd \in [Writers -> 0 .. locks]
    /\ pc \in [Procs -> Labels]
    /\ kills \in 0 .. MaxKills

DeletionsOK ==
    /\ targets \in [Deleters -> SUBSET RunID] /\ found \in [Deleters -> SUBSET RunID]
    /\ parts \in [Deleters -> Seq(Part)]
    /\ failed \in [Deleters -> BOOLEAN] /\ late \in [Deleters -> SUBSET Writers]
    /\ doomed \subseteq Writers /\ missed \subseteq Writers
    /\ counted \in [Writers -> Nat]
    /\ deletions \in 0 .. MaxDeletions

\* The files of a scan are there to be read, and what was found is finite
ScansOK == \A d \in Deleters : Readable(parts[d]) /\ IsFiniteSet(found[d])

TypeInv == LockInv /\ RunOK /\ ProcsOK /\ DeletionsOK /\ ScansOK

LEMMA TypeInvType == TypeInv => TypeOK
  BY DEF TypeInv, LockInv, Domains, RunOK, FilesOK, CountersOK, ProcsOK, DeletionsOK, TypeOK, Labels

LEMMA InitType == Init => TypeInv
  <1> SUFFICES ASSUME Init PROVE TypeInv  OBVIOUS
  <1>1. LockInv  BY InitLock
  <1>2. FilesOK
    <2>1. <<>> \in Seq(Seq(Unit)) /\ <<>> \in Seq(Unit) /\ Len(<<>>) = 0  OBVIOUS
    <2> QED  BY <2>1 DEF Init, FilesOK, NoFile
  <1>3. CountersOK  BY DEF Init, CountersOK
  <1>4. ProcsOK  BY BoundAssumption DEF Init, ProcsOK, Labels, NoFile
  <1>5. DeletionsOK  BY BoundAssumption DEF Init, DeletionsOK
  <1>6. ScansOK
    <2>1. \A d \in Deleters : parts[d] = <<>> /\ found[d] = {}  BY DEF Init
    <2>2. <<>> \in Seq(Part) /\ Len(<<>>) = 0  OBVIOUS
    <2>3. Readable(<<>>)  BY <2>2 DEF Readable
    <2>4. IsFiniteSet({})  BY FS_EmptySet
    <2> QED  BY <2>1, <2>3, <2>4 DEF ScansOK
  <1> QED  BY <1>1, <1>2, <1>3, <1>4, <1>5, <1>6 DEF TypeInv, RunOK

LEMMA NextProcs == ASSUME LockInv, ProcsOK, [Next]_vars PROVE ProcsOK'
  <1>0. locks \in Nat /\ lockAt \in 0 .. locks  BY DEF LockInv, Domains
  <1>m. ASSUME NEW p \in Procs, NEW l \in Labels, Goto(p, l) PROVE pc' \in [Procs -> Labels]
    BY <1>m DEF Goto, ProcsOK
  <1>d. ASSUME NEW p \in Writers, lockFd' \in {lockFd, [lockFd EXCEPT ![p] = NoFile]},
               UNCHANGED locks
        PROVE  lockFd' \in [Writers -> 0 .. locks']
    <2>1. NoFile \in 0 .. locks  BY <1>0 DEF NoFile
    <2> QED  BY <1>d, <2>1 DEF ProcsOK
  <1>1. ASSUME NEW w \in Writers, OpenLock(w) PROVE ProcsOK'
    <2>1. UNCHANGED kills  BY <1>1 DEF OpenLock
    <2>2. pc' \in [Procs -> Labels]
      BY <1>1, <1>m DEF OpenLock, Labels, Procs
    <2>3. lockFd' \in [Writers -> 0 .. locks']
      <3>1. CASE UNCHANGED lockVars  BY <3>1 DEF lockVars, ProcsOK
      <3>2. CASE /\ locks'  = IF lockAt = NoFile THEN locks + 1 ELSE locks
                 /\ lockAt' = IF lockAt = NoFile THEN locks + 1 ELSE lockAt
                 /\ lockFd' = [lockFd EXCEPT ![w] = lockAt']
        BY <3>2, <1>0 DEF ProcsOK
      <3> QED  BY <1>1, <3>1, <3>2 DEF OpenLock
    <2> QED  BY <2>1, <2>2, <2>3 DEF ProcsOK
  <1>2. ASSUME NEW w \in Writers, Lock(w) \/ Interrupt(w) PROVE ProcsOK'
    <2>1. UNCHANGED <<kills, locks>> /\ lockFd' \in {lockFd, [lockFd EXCEPT ![w] = NoFile]}
      BY <1>2 DEF Lock, Interrupt, lockVars
    <2>2. pc' \in [Procs -> Labels]
      BY <1>2, <1>m DEF Lock, Interrupt, Labels, Holding, Procs
    <2> QED  BY <2>1, <2>2, <1>d DEF ProcsOK
  <1>3. ASSUME NEW w \in Writers, RunStep(w) PROVE ProcsOK'
    <2>1. UNCHANGED <<kills, locks>> /\ lockFd' \in {lockFd, [lockFd EXCEPT ![w] = NoFile]}
      BY <1>3 DEF RunStep, OpenLog, BeginWrite, WritePart, StatArchives, CloseActive,
         RemoveOldest, ShiftArchive, Reopen, EndRun, lockVars
    <2>2. UNCHANGED pc \/ \E l \in {"done"} \cup Holding : Goto(w, l)
      BY <1>3 DEF RunStep, OpenLog, BeginWrite, WritePart, StatArchives, CloseActive,
         RemoveOldest, ShiftArchive, Reopen, EndRun, GiveUp, Holding
    <2>3. pc' \in [Procs -> Labels]
      BY <2>2, <1>m DEF Labels, Procs, ProcsOK
    <2> QED  BY <2>1, <2>3, <1>d DEF ProcsOK
  <1>4. ASSUME NEW d \in Deleters, DeleteStep(d) PROVE ProcsOK'
    <2>1. UNCHANGED <<kills, locks, lockFd>>
      BY <1>4 DEF DeleteStep, Select, Plan, Confirm, Scan, ReadAgain, CheckLock, Unlink,
         RemoveLock, Rollup, lockVars
    <2>2. UNCHANGED pc \/ \E l \in {"idle"} \cup Deleting : Goto(d, l)
      BY <1>4 DEF DeleteStep, Select, Plan, Confirm, Scan, ReadAgain, CheckLock, Unlink,
         RemoveLock, Rollup, AfterUnlink, Deleting
    <2>3. pc' \in [Procs -> Labels]
      BY <2>2, <1>m DEF Labels, Procs, ProcsOK
    <2> QED  BY <2>1, <2>3 DEF ProcsOK
  <1>5. ASSUME NEW p \in Procs, Kill(p) PROVE ProcsOK'
    <2>1. kills' \in 0 .. MaxKills  BY <1>5, BoundAssumption DEF Kill, ProcsOK
    <2>2. pc' \in [Procs -> Labels]  BY <1>5, <1>m DEF Kill, Labels
    <2>3. UNCHANGED locks  BY <1>5 DEF Kill
    <2>4. lockFd' \in [Writers -> 0 .. locks']
      <3>1. CASE p \in Writers  BY <1>5, <2>3, <3>1, <1>d DEF Kill
      <3>2. CASE p \notin Writers  BY <1>5, <2>3, <3>2 DEF Kill, ProcsOK
      <3> QED  BY <3>1, <3>2
    <2> QED  BY <2>1, <2>2, <2>4 DEF ProcsOK
  <1>6. CASE UNCHANGED vars  BY <1>6 DEF vars, lockVars, ProcsOK
  <1> QED  BY <1>1, <1>2, <1>3, <1>4, <1>5, <1>6 DEF Next

\* Everything a deletion keeps
DeletionInv == DeletionsOK /\ ScansOK

LEMMA TailReadable ==
  ASSUME NEW ps, Readable(ps), ps # <<>> PROVE Readable(Tail(ps))
  <1>1. ps \in Seq(Part)  BY DEF Readable
  <1>2. /\ Tail(ps) \in Seq(Part) /\ Len(Tail(ps)) = Len(ps) - 1
        /\ \A i \in 1 .. Len(Tail(ps)) : Tail(ps)[i] = ps[i + 1]
    BY <1>1, HeadTailProperties
  <1>3. ASSUME NEW i \in 1 .. Len(Tail(ps))
        PROVE  /\ Tail(ps)[i].file \in 1 .. Len(data)
               /\ Tail(ps)[i].length <= Len(data[Tail(ps)[i].file])
    <2>1. i + 1 \in 1 .. Len(ps) /\ Tail(ps)[i] = ps[i + 1]  BY <1>1, <1>2
    <2> QED  BY <2>1 DEF Readable
  <1> QED  BY <1>2, <1>3 DEF Readable

\* A step of a run changes nothing of a deletion but the ghost `late'
LEMMA DeletionKept ==
  ASSUME DeletionInv, RunOK, RunOK', Grown,
         UNCHANGED <<targets, found, parts, failed, deletions, doomed, missed, counted>>,
         late' \in [Deleters -> SUBSET Writers]
  PROVE  DeletionInv'
  <1>1. DeletionsOK'  BY DEF DeletionsOK, DeletionInv
  <1>2. ASSUME NEW d \in Deleters PROVE Readable(parts[d])' /\ IsFiniteSet(found[d])'
    <2>1. Readable(parts[d]) /\ IsFiniteSet(found[d])  BY DEF DeletionInv, ScansOK
    <2>2. parts' = parts /\ found' = found  OBVIOUS
    <2>3. PICK ps : ps = parts[d]  OBVIOUS
    <2>4. \A i \in 1 .. Len(ps) :
            ps[i].file \in 1 .. Len(data') /\ ps[i].length <= Len(data'[ps[i].file])
      BY <2>1, <2>3, StillReadable DEF RunOK
    <2>5. ps \in Seq(Part)  BY <2>1, <2>3 DEF Readable
    <2> QED  BY <2>1, <2>2, <2>3, <2>4, <2>5 DEF Readable
  <1> QED  BY <1>1, <1>2 DEF DeletionInv, ScansOK

LEMMA DeleteStepInv == ASSUME RunOK, DeletionInv, NEW d \in Deleters, DeleteStep(d)
                       PROVE  DeletionInv'
  <1> USE DEF DeletionInv
  <1>f. FilesOK  BY DEF RunOK
  <1>s. Readable(Scanned)  BY <1>f, ScannedReadable
  <1>r. Rows(Scanned) \in SUBSET RunID /\ IsFiniteSet(Rows(Scanned))  BY <1>f, <1>s, RowsType
  <1>d. UNCHANGED data
    BY DEF DeleteStep, Select, Plan, Confirm, Scan, ReadAgain, CheckLock, Unlink, RemoveLock,
       Rollup, fileVars
  <1>p. Readable(parts[d]) /\ IsFiniteSet(found[d])  BY DEF ScansOK
  <1>q. Rows(parts[d]) \in SUBSET RunID /\ IsFiniteSet(Rows(parts[d]))
        /\ Headless(parts[d]) \in SUBSET Writers
    BY <1>f, <1>p, RowsType
  <1>k. ASSUME NEW F, IsFiniteSet(F), F \in SUBSET RunID,
               NEW P, Readable(P),
               found' \in {found, [found EXCEPT ![d] = F]},
               parts' \in {parts, [parts EXCEPT ![d] = P]}
        PROVE  /\ ScansOK'
               /\ found' \in [Deleters -> SUBSET RunID] /\ parts' \in [Deleters -> Seq(Part)]
    <2>1. P \in Seq(Part)  BY <1>k DEF Readable
    <2>2. found' \in [Deleters -> SUBSET RunID] /\ parts' \in [Deleters -> Seq(Part)]
      BY <1>k, <2>1 DEF DeletionsOK
    <2>3. ASSUME NEW e \in Deleters PROVE Readable(parts[e])' /\ IsFiniteSet(found[e])'
      <3>1. found'[e] \in {found[e], F} /\ parts'[e] \in {parts[e], P}
        BY <1>k, <2>3 DEF DeletionsOK
      <3>2. Readable(parts[e]) /\ IsFiniteSet(found[e])  BY DEF ScansOK
      <3>3. IsFiniteSet(found'[e])  BY <1>k, <3>1, <3>2
      <3>4. Readable(parts'[e])  BY <1>k, <3>1, <3>2
      <3> QED  BY <1>d, <3>3, <3>4 DEF Readable
    <2> QED  BY <2>2, <2>3 DEF ScansOK
  <1>1. CASE Select(d)
    <2>1. targets' \in [Deleters -> SUBSET RunID]
      <3>1. PICK T \in SUBSET Rows(Scanned) : targets' = [targets EXCEPT ![d] = T]
        BY <1>1 DEF Select
      <3>2. T \in SUBSET RunID  BY <3>1, <1>r
      <3> QED  BY <3>1, <3>2 DEF DeletionsOK
    <2>2. deletions' \in 0 .. MaxDeletions
      BY <1>1, BoundAssumption DEF Select, DeletionsOK
    <2>3. UNCHANGED <<found, parts, failed, late, doomed, missed, counted>>
      BY <1>1 DEF Select, ghosts
    <2>4. ScansOK'  BY <2>3, <1>k, <1>p, <1>r
    <2> QED  BY <2>1, <2>2, <2>3, <2>4 DEF DeletionsOK
  <1>2. CASE Plan(d)
    <2>1. UNCHANGED <<targets, parts, failed, deletions, late, doomed, missed, counted>>
          /\ found' = [found EXCEPT ![d] = Rows(Scanned)]
      BY <1>2 DEF Plan, ghosts
    <2>2. ScansOK' /\ found' \in [Deleters -> SUBSET RunID]  BY <2>1, <1>k, <1>p, <1>r
    <2> QED  BY <2>1, <2>2 DEF DeletionsOK
  <1>3. CASE Confirm(d)
    <2>1. UNCHANGED <<targets, found, parts, failed, deletions, late, doomed, missed, counted>>
      BY <1>3 DEF Confirm, delVars, ghosts
    <2>2. ScansOK'  BY <2>1, <1>k, <1>p, <1>r
    <2> QED  BY <2>1, <2>2 DEF DeletionsOK
  <1>4. CASE Scan(d)
    <2>1. /\ UNCHANGED <<targets, found, deletions, late, doomed, missed, counted>>
          /\ parts' = [parts EXCEPT ![d] = Scanned]
          /\ failed' = [failed EXCEPT ![d] = FALSE]
      BY <1>4 DEF Scan, ghosts
    <2>2. ScansOK' /\ parts' \in [Deleters -> Seq(Part)]  BY <2>1, <1>k, <1>s, <1>r
    <2>3. failed' \in [Deleters -> BOOLEAN]  BY <2>1 DEF DeletionsOK
    <2> QED  BY <2>1, <2>2, <2>3 DEF DeletionsOK
  <1>5. CASE ReadAgain(d)
    <2>1. UNCHANGED <<targets, parts, failed, deletions, doomed, missed, counted>>
          /\ found' = [found EXCEPT ![d] = Rows(parts[d])]
          /\ late' = [late EXCEPT ![d] = Overlooked(d)]
      BY <1>5 DEF ReadAgain
    <2>2. ScansOK' /\ found' \in [Deleters -> SUBSET RunID]  BY <2>1, <1>k, <1>p, <1>q
    <2>3. Overlooked(d) \subseteq Writers  BY DEF Overlooked
    <2>4. late' \in [Deleters -> SUBSET Writers]  BY <2>1, <2>3 DEF DeletionsOK
    <2> QED  BY <2>1, <2>2, <2>4 DEF DeletionsOK
  <1>6. CASE CheckLock(d)
    <2>1. UNCHANGED <<targets, found, parts, failed, deletions, late, counted>>
      BY <1>6 DEF CheckLock, delVars
    <2>2. doomed' \subseteq Writers
      <3>1. {row[1] : row \in targets[d]} \subseteq Writers /\ late[d] \subseteq Writers
        BY DEF DeletionsOK, RunID
      <3>2. doomed' = doomed \/ Doom(d)  BY <1>6 DEF CheckLock
      <3> QED  BY <3>1, <3>2, <1>q DEF Doom, DeletionsOK
    <2>3. missed' \subseteq Writers
      <3>1. missed' = missed \/ missed' = missed \cup Displaced(d)  BY <1>6 DEF CheckLock
      <3>2. Displaced(d) \subseteq Writers  BY DEF Displaced
      <3> QED  BY <3>1, <3>2 DEF DeletionsOK
    <2>4. ScansOK'  BY <2>1, <1>k, <1>p, <1>r
    <2> QED  BY <2>1, <2>2, <2>3, <2>4 DEF DeletionsOK
  <1>7. CASE Unlink(d)
    <2>1. UNCHANGED <<targets, found, deletions, late, doomed, missed, counted>>
      BY <1>7 DEF Unlink, ghosts
    <2>2. failed' \in [Deleters -> BOOLEAN]  BY <1>7 DEF Unlink, DeletionsOK
    <2>3. parts' = parts \/ (parts[d] # <<>> /\ parts' = [parts EXCEPT ![d] = Tail(parts[d])])
      BY <1>7 DEF Unlink
    <2>4. PICK P : Readable(P) /\ parts' \in {parts, [parts EXCEPT ![d] = P]}
      BY <2>3, <1>p, TailReadable
    <2>5. ScansOK' /\ parts' \in [Deleters -> Seq(Part)]  BY <2>1, <2>4, <1>k, <1>r
    <2> QED  BY <2>1, <2>2, <2>5 DEF DeletionsOK
  <1>8. CASE RemoveLock(d)
    <2>1. UNCHANGED <<targets, found, parts, failed, deletions, late, doomed, missed, counted>>
      BY <1>8 DEF RemoveLock, delVars
    <2>2. ScansOK'  BY <2>1, <1>k, <1>p, <1>r
    <2> QED  BY <2>1, <2>2 DEF DeletionsOK
  <1>9. CASE Rollup(d)
    <2>1. UNCHANGED <<targets, found, parts, failed, deletions, late, doomed, missed>>
      BY <1>9 DEF Rollup, delVars
    <2>2. ScansOK'  BY <2>1, <1>k, <1>p, <1>r
    <2>3. ASSUME NEW w \in Writers PROVE Cardinality({row \in found[d] : row[1] = w}) \in Nat
      <3>1. PICK R : R = {row \in found[d] : row[1] = w}  OBVIOUS
      <3>2. R \in SUBSET found[d]  BY <3>1
      <3> QED  BY <3>1, <3>2, <1>p, FS_Subset, FS_CardinalityType
    <2>4. counted' \in [Writers -> Nat]
      <3> DEFINE n(w) == Cardinality({row \in found[d] : row[1] = w})
      <3>1. CASE UNCHANGED counted  BY <3>1 DEF DeletionsOK
      <3>2. CASE counted' = [w \in Writers |-> counted[w] + n(w)]
        <4>1. \A w \in Writers : n(w) \in Nat  BY <2>3
        <4> HIDE DEF n
        <4> QED  BY <3>2, <4>1 DEF DeletionsOK
      <3> QED  BY <1>9, <3>1, <3>2 DEF Rollup
    <2> QED  BY <2>1, <2>2, <2>4 DEF DeletionsOK
  <1> QED
    BY <1>1, <1>2, <1>3, <1>4, <1>5, <1>6, <1>7, <1>8, <1>9 DEF DeleteStep

LEMMA NextType == TypeInv /\ [Next]_vars => TypeInv'
  <1> SUFFICES ASSUME TypeInv, [Next]_vars PROVE TypeInv'  OBVIOUS
  <1>1. LockInv' /\ RunOK' /\ Grown /\ ProcsOK'
    BY NextLock, NextRun, NextProcs DEF TypeInv
  <1>2. DeletionInv'
    <2>0. LockInv /\ RunOK /\ DeletionInv  BY DEF TypeInv, DeletionInv
    <2>a. ASSUME UNCHANGED <<targets, found, parts, failed, deletions, doomed, missed, counted, late>>
          PROVE  DeletionInv'
      BY <2>a, <2>0, <1>1, DeletionKept DEF DeletionInv, DeletionsOK
    <2>1. ASSUME NEW w \in Writers, OpenLock(w) \/ Interrupt(w) PROVE DeletionInv'
      BY <2>1, <2>a DEF OpenLock, Interrupt, delVars, ghosts
    <2>2. ASSUME NEW w \in Writers, Lock(w) PROVE DeletionInv'
      <3>1. late' \in [Deleters -> SUBSET Writers]
        BY <2>0, <2>2 DEF Lock, DeletionsOK, DeletionInv
      <3> QED  BY <2>2, <3>1, <2>0, <1>1, DeletionKept DEF Lock, delVars
    <2>3. ASSUME NEW w \in Writers, RunStep(w) PROVE DeletionInv'
      BY <2>3, <2>a DEF RunStep, OpenLog, BeginWrite, WritePart, StatArchives, CloseActive,
         RemoveOldest, ShiftArchive, Reopen, EndRun, delVars, ghosts
    <2>4. ASSUME NEW d \in Deleters, DeleteStep(d) PROVE DeletionInv'
      BY <2>0, <2>4, DeleteStepInv
    <2>5. ASSUME NEW p \in Procs, Kill(p) PROVE DeletionInv'
      BY <2>5, <2>a DEF Kill, delVars, ghosts
    <2>6. CASE UNCHANGED vars  BY <2>6, <2>a DEF vars, delVars, ghosts
    <2> QED  BY <2>1, <2>2, <2>3, <2>4, <2>5, <2>6 DEF Next
  <1> QED  BY <1>1, <1>2 DEF TypeInv, DeletionInv

\* Every variable of the model has its type: what openRotatingLog, rotate and a
\* deletion do to the names, the files and the counts stays within their ranges,
\* and a deletion reads only files that exist.
THEOREM FilesTypeCorrect == Spec => []TypeOK
  <1>1. Spec => []TypeInv  BY InitType, NextType, PTL DEF Spec
  <1> QED  BY <1>1, TypeInvType, PTL

-----------------------------------------------------------------------------
(* The size of a file                                                      *)

\* A run that is yet to open the log has no file open
NotYetOpen == \A w \in Writers : pc[w] \in {"idle", "lock", "open"} => fd[w] = NoFile

\* What a run believes the length to be is never too little, and within the limit
SizeKnown ==
    \A w \in Writers :
        /\ size[w] <= MaxSize
        /\ pc[w] \in Holding /\ fd[w] # NoFile => Len(data[fd[w]]) <= size[w]

\* The log has been renamed when it is opened anew
RenamedAway == \A w \in Writers : pc[w] = "reopen" => dir[0] = NoFile

SizeInv == NotYetOpen /\ (raced \/ (SizeBounded /\ SizeKnown /\ RenamedAway))

LEMMA InitSize == Init => SizeInv
  <1> SUFFICES ASSUME Init PROVE SizeInv  OBVIOUS
  <1>1. \A w \in Writers : pc[w] = "idle" /\ fd[w] = NoFile /\ size[w] = 0
    BY DEF Init, Procs
  <1>2. data = <<>> /\ Len(<<>>) = 0  BY DEF Init
  <1>3. SizeBounded  BY <1>2 DEF SizeBounded
  <1>4. SizeKnown  BY <1>1, SizeAssumption DEF SizeKnown, Holding
  <1> QED  BY <1>1, <1>3, <1>4 DEF SizeInv, NotYetOpen, RenamedAway

LEMMA NextNotYetOpen == ASSUME TypeInv, NotYetOpen, [Next]_vars PROVE NotYetOpen'
  <1>t. /\ fd \in [Writers -> 0 .. Len(data)] /\ Domains
    BY DEF TypeInv, RunOK, FilesOK, LockInv
  <1>m. ASSUME NEW p \in Procs, NEW l, Goto(p, l), l \notin {"idle", "lock", "open"} \/ p \notin Writers,
               \A v \in Writers : v # p => fd'[v] = fd[v]
        PROVE  NotYetOpen'
    BY <1>m, <1>t, Moved DEF NotYetOpen, Procs
  <1>1. ASSUME NEW w \in Writers, OpenLock(w) \/ Lock(w) \/ Interrupt(w) PROVE NotYetOpen'
    <2>1. UNCHANGED fd  BY <1>1 DEF OpenLock, Lock, Interrupt, runVars
    <2>2. pc[w] \in {"idle", "lock"} /\ \E l : Goto(w, l)  BY <1>1 DEF OpenLock, Lock, Interrupt
    <2> QED  BY <2>1, <2>2, <1>t, Moved DEF NotYetOpen, Procs
  <1>2. ASSUME NEW w \in Writers, RunStep(w) PROVE NotYetOpen'
    <2>1. CASE UNCHANGED <<pc, fd>>  BY <2>1 DEF NotYetOpen
    <2>2. CASE ~UNCHANGED <<pc, fd>>
      <3>1. UNCHANGED <<pc, fd>> \/ \E l \in {"run", "part", "stat", "close", "remove", "shift", "reopen", "done"} : Goto(w, l)
        BY <1>2 DEF RunStep, OpenLog, BeginWrite, WritePart, StatArchives, CloseActive,
           RemoveOldest, ShiftArchive, Reopen, EndRun, GiveUp
      <3>2. \A v \in Writers : v # w => fd'[v] = fd[v]
        BY <1>2, <1>t DEF RunStep, OpenLog, OpenActive, BeginWrite, WritePart, StatArchives, CloseActive,
           RemoveOldest, ShiftArchive, Reopen, EndRun
      <3> QED  BY <2>2, <3>1, <3>2, <1>m DEF Procs
    <2> QED  BY <2>1, <2>2
  <1>3. ASSUME NEW d \in Deleters, DeleteStep(d) PROVE NotYetOpen'
    <2>1. UNCHANGED fd
      BY <1>3 DEF DeleteStep, Select, Plan, Confirm, Scan, ReadAgain, CheckLock, Unlink,
         RemoveLock, Rollup, runVars
    <2>2. UNCHANGED pc \/ \E l : Goto(d, l)
      BY <1>3 DEF DeleteStep, Select, Plan, Confirm, Scan, ReadAgain, CheckLock, Unlink,
         RemoveLock, Rollup
    <2>3. d \notin Writers /\ d \in Procs  BY ProcessAssumption DEF Procs
    <2> QED  BY <2>1, <2>2, <2>3, <1>t, Moved DEF NotYetOpen, Procs
  <1>4. ASSUME NEW p \in Procs, Kill(p) PROVE NotYetOpen'
    <2>1. \A v \in Writers : v # p => fd'[v] = fd[v]  BY <1>4, <1>t DEF Kill
    <2>2. \E l : Goto(p, l) /\ (p \in Writers => l = "done")  BY <1>4 DEF Kill
    <2> QED  BY <2>1, <2>2, <1>m
  <1>5. CASE UNCHANGED vars  BY <1>5 DEF vars, runVars, NotYetOpen
  <1> QED  BY <1>1, <1>2, <1>3, <1>4, <1>5 DEF Next

Sized == SizeBounded /\ SizeKnown /\ RenamedAway

\* While no deletion races, what a run does to the sizes is all that is done to them
LEMMA SizedLocally ==
  ASSUME TypeInv, TypeInv', Sized, ~raced, NEW w \in Writers, RunStep(w),
         \A f \in 1 .. Len(data') : Len(data'[f]) <= MaxSize,
         size'[w] <= MaxSize,
         pc'[w] \in Holding /\ fd'[w] # NoFile => Len(data'[fd'[w]]) <= size'[w],
         pc'[w] = "reopen" => dir'[0] = NoFile
  PROVE  Sized'
  <1>h. pc[w] \in Holding
    BY DEF RunStep, OpenLog, BeginWrite, WritePart, StatArchives, CloseActive, RemoveOldest,
       ShiftArchive, Reopen, EndRun, Holding
  <1>t. size \in [Writers -> Nat] /\ Domains
    BY DEF TypeInv, RunOK, CountersOK, LockInv
  <1>1. ASSUME NEW v \in Writers, v # w PROVE pc'[v] \notin Holding /\ size'[v] = size[v]
    <2>1. pc[v] \notin Holding
      BY <1>h, <1>1, Excluded DEF LockExcludesUnlessRaced, LockExcludes, Holds, TypeInv
    <2>2. UNCHANGED pc \/ \E l : Goto(w, l)
      BY DEF RunStep, OpenLog, BeginWrite, WritePart, StatArchives, CloseActive, RemoveOldest,
         ShiftArchive, Reopen, EndRun, GiveUp
    <2>3. pc'[v] = pc[v]  BY <1>1, <1>t, <2>2, Moved DEF Procs
    <2>4. size'[v] = size[v]
      BY <1>1, <1>t DEF RunStep, OpenLog, BeginWrite, WritePart, StatArchives, CloseActive,
         RemoveOldest, ShiftArchive, Reopen, EndRun
    <2> QED  BY <2>1, <2>3, <2>4
  <1>2. SizeBounded'  BY DEF SizeBounded
  <1>3. SizeKnown'
    <2> SUFFICES ASSUME NEW v \in Writers
                 PROVE  /\ size'[v] <= MaxSize
                        /\ pc'[v] \in Holding /\ fd'[v] # NoFile => Len(data'[fd'[v]]) <= size'[v]
      BY DEF SizeKnown, NoFile
    <2> QED  BY <1>1 DEF Sized, SizeKnown
  <1>4. RenamedAway'  BY <1>1 DEF RenamedAway, Holding
  <1> QED  BY <1>2, <1>3, <1>4 DEF Sized

LEMMA RunStepSized ==
  ASSUME TypeInv, TypeInv', NotYetOpen, Sized, ~raced, NEW w \in Writers, RunStep(w)
  PROVE  Sized'
  <1>b. \A f \in 1 .. Len(data) : Len(data[f]) <= MaxSize  BY DEF Sized, SizeBounded
  <1>k. size[w] <= MaxSize /\ (pc[w] \in Holding /\ fd[w] # NoFile => Len(data[fd[w]]) <= size[w])
    BY DEF Sized, SizeKnown
  <1>f. FilesOK /\ CountersOK /\ MaxSize \in Nat
    BY SizeAssumption DEF TypeInv, RunOK
  <1>d. Domains /\ w \in Procs  BY DEF TypeInv, LockInv, Procs
  <1>s. ASSUME UNCHANGED <<data, size>>, pc[w] \in Holding, fd'[w] \in {fd[w], NoFile},
               pc'[w] = "reopen" => dir'[0] = NoFile
        PROVE  Sized'
    <2>1. \A f \in 1 .. Len(data') : Len(data'[f]) <= MaxSize  BY <1>b, <1>s
    <2>2. size'[w] <= MaxSize  BY <1>k, <1>s
    <2>3. pc'[w] \in Holding /\ fd'[w] # NoFile => Len(data'[fd'[w]]) <= size'[w]
      BY <1>k, <1>s
    <2> QED  BY <2>1, <2>2, <2>3, <1>s, SizedLocally
  <1>1. CASE OpenLog(w)
    <2>1. CASE OpenActive(w) /\ size' = [size EXCEPT ![w] = Len(data'[dir'[0]])] /\ Goto(w, "run")
      <3>1. UNCHANGED written  BY <1>1 DEF OpenLog, ghosts
      <3>2. dir'[0] \in 1 .. Len(data') /\ fd'[w] = dir'[0]  BY <2>1, <3>1, <1>f, OpenActiveFiles
      <3>3. \A f \in 1 .. Len(data') : Len(data'[f]) <= MaxSize
        <4>1. CASE data' = data  BY <4>1, <1>b
        <4>2. CASE data' = Append(data, <<>>)
          <5>1. Len(<<>>) = 0 /\ <<>> \in Seq(Unit)  OBVIOUS
          <5>2. /\ Len(data') = Len(data) + 1 /\ data'[Len(data) + 1] = <<>>
                /\ \A i \in 1 .. Len(data) : data'[i] = data[i] 
            BY <4>2, <5>1, <1>f, AppendProperties DEF FilesOK
          <5>3. \A i \in 1 .. Len(data) + 1 : i \in 1 .. Len(data) \/ i = Len(data) + 1
            BY <1>f DEF FilesOK
          <5> QED  BY <5>1, <5>2, <5>3, <1>b, <1>f
        <4> QED  BY <2>1, <4>1, <4>2 DEF OpenActive
      <3>4. size'[w] = Len(data'[dir'[0]])  BY <2>1, <1>f DEF CountersOK
      <3>5. size'[w] \in Nat  BY DEF TypeInv, RunOK, CountersOK
      <3>6. size'[w] <= MaxSize  BY <3>2, <3>3, <3>4
      <3>7. pc'[w] = "run"  BY <2>1, <1>d, Moved
      <3> QED  BY <3>2, <3>3, <3>4, <3>5, <3>6, <3>7, SizedLocally
    <2>2. CASE UNCHANGED <<fileVars, fd, size>> /\ Goto(w, "done")
      <3>1. pc'[w] = "done"  BY <2>2, <1>d, Moved
      <3>2. pc[w] \in Holding  BY <1>1 DEF OpenLog, Holding
      <3> QED  BY <2>2, <3>1, <3>2, <1>s DEF fileVars
    <2> QED  BY <1>1, <2>1, <2>2 DEF OpenLog
  <1>2. CASE BeginWrite(w)
    <2>1. \E l \in {"stat", "part"} : Goto(w, l)  BY <1>2 DEF BeginWrite
    <2>2. pc'[w] # "reopen"  BY <2>1, <1>d, Moved
    <2> QED  BY <1>2, <2>2, <1>s DEF BeginWrite, Holding, fileVars
  <1>3. CASE WritePart(w)
    <2>1. PICK n \in 0 .. PartSize(w) :
            /\ data' = [data EXCEPT ![fd[w]] = @ \o Units(w, n)]
            /\ written' = written \o Units(w, n)
            /\ size' = [size EXCEPT ![w] = @ + n]
            /\ \E l \in {"run", "stat"} : Goto(w, l)
      BY <1>3 DEF WritePart, GiveUp
    <2>2. size[w] \in Nat /\ left[w] \in Nat  BY <1>f DEF CountersOK
    <2>3. n \in Nat /\ size[w] + n <= MaxSize  BY <2>2, <1>f, <1>k DEF PartSize
    <2>4. UNCHANGED <<dir, fd>> /\ pc[w] \in Holding  BY <1>3 DEF WritePart, Holding
    <2>5. /\ Len(data') = Len(data)
          /\ \A f \in 1 .. Len(data) : f # fd[w] => data'[f] = data[f]
          /\ fd[w] # NoFile => Len(data'[fd[w]]) = Len(data[fd[w]]) + n
      BY <2>1, <2>3, <2>4, <1>f, WritePartFiles
    <2>6. size'[w] = size[w] + n  BY <2>1, <1>f DEF CountersOK
    <2>7. fd[w] # NoFile => Len(data[fd[w]]) \in Nat /\ Len(data'[fd[w]]) <= size[w] + n
      <3> SUFFICES ASSUME fd[w] # NoFile
                   PROVE  Len(data[fd[w]]) \in Nat /\ Len(data'[fd[w]]) <= size[w] + n
        OBVIOUS
      <3>1. fd[w] \in 1 .. Len(data)  BY <1>f DEF FilesOK, NoFile
      <3>2. Len(data[fd[w]]) \in Nat  BY <3>1, <1>f DEF FilesOK
      <3>3. Len(data[fd[w]]) <= size[w]  BY <1>k, <2>4
      <3> QED  BY <3>2, <3>3, <2>2, <2>3, <2>5
    <2>8. \A f \in 1 .. Len(data') : Len(data'[f]) <= MaxSize
      <3> SUFFICES ASSUME NEW f \in 1 .. Len(data) PROVE Len(data'[f]) <= MaxSize  BY <2>5
      <3>1. CASE f # fd[w]  BY <3>1, <2>5, <1>b
      <3>2. CASE f = fd[w]
        <4>1. f # NoFile  BY <1>f DEF NoFile, FilesOK
        <4>2. Len(data'[f]) <= size[w] + n  BY <3>2, <4>1, <2>7
        <4>3. Len(data'[f]) \in Nat  BY <3>2, <4>1, <2>3, <2>5, <2>7
        <4> QED  BY <4>2, <4>3, <2>2, <2>3, <1>f
      <3> QED  BY <3>1, <3>2
    <2>9. pc'[w] # "reopen"  BY <2>1, <1>d, Moved
    <2> QED  BY <2>3, <2>4, <2>6, <2>7, <2>8, <2>9, SizedLocally
  <1>4. CASE StatArchives(w)
    <2>1. pc'[w] # "reopen"  BY <1>4, <1>d, Moved DEF StatArchives, GiveUp
    <2> QED  BY <1>4, <2>1, <1>s DEF StatArchives, Holding, fileVars
  <1>5. CASE CloseActive(w)
    <2>1. pc'[w] # "reopen"  BY <1>5, <1>d, Moved DEF CloseActive, GiveUp
    <2>2. fd'[w] \in {fd[w], NoFile}  BY <1>5, <1>f DEF CloseActive, FilesOK
    <2> QED  BY <1>5, <2>1, <2>2, <1>s DEF CloseActive, Holding, fileVars
  <1>6. CASE RemoveOldest(w)
    <2>1. pc'[w] # "reopen"  BY <1>6, <1>d, Moved DEF RemoveOldest, GiveUp
    <2> QED  BY <1>6, <2>1, <1>s DEF RemoveOldest, Holding
  <1>7. CASE ShiftArchive(w)
    <2>1. pc'[w] = "reopen" => dir'[0] = NoFile
      <3>1. CASE UNCHANGED pc  BY <3>1, <1>7 DEF ShiftArchive
      <3>2. CASE GiveUp(w)  BY <3>2, <1>d, Moved DEF GiveUp
      <3>3. CASE shift[w] = 0 /\ dir' = Renamed(dir, shift[w], shift[w] + 1)
        <4>1. 0 \in Names /\ 1 \in Names  BY SizeAssumption DEF Names
        <4> QED  BY <3>3, <4>1, <1>d DEF Renamed, Domains
      <3> QED  BY <1>7, <3>1, <3>2, <3>3, <1>d, SizeAssumption DEF ShiftArchive, Domains
    <2> QED  BY <1>7, <2>1, <1>s DEF ShiftArchive, Holding
  <1>8. CASE Reopen(w)
    <2>1. CASE UNCHANGED <<fileVars, fd, size>> /\ GiveUp(w)
      <3>1. pc'[w] # "reopen"  BY <2>1, <1>d, Moved DEF GiveUp
      <3> QED  BY <1>8, <2>1, <3>1, <1>s DEF Reopen, Holding, fileVars
    <2>2. CASE OpenActive(w) /\ size' \in {size, [size EXCEPT ![w] = 0]} /\ \E l \in {"run", "part"} : Goto(w, l)
      <3>1. dir[0] = NoFile  BY <1>8 DEF Reopen, Sized, RenamedAway
      <3>2. data' = Append(data, <<>>) /\ dir'[0] = Len(data) + 1
        <4>1. 0 \in Names  BY SizeAssumption DEF Names
        <4> QED  BY <2>2, <3>1, <4>1, <1>d DEF OpenActive, Domains
      <3>3. fd'[w] = Len(data) + 1  BY <2>2, <3>2, <1>f DEF OpenActive, FilesOK
      <3>4. Len(<<>>) = 0 /\ <<>> \in Seq(Unit)  OBVIOUS
      <3>5. /\ Len(data') = Len(data) + 1 /\ data'[Len(data) + 1] = <<>>
            /\ \A i \in 1 .. Len(data) : data'[i] = data[i] 
        BY <3>2, <3>4, <1>f, AppendProperties DEF FilesOK
      <3>6. \A i \in 1 .. Len(data) + 1 : i \in 1 .. Len(data) \/ i = Len(data) + 1
        BY <1>f DEF FilesOK
      <3>7. \A f \in 1 .. Len(data') : Len(data'[f]) <= MaxSize
        BY <3>4, <3>5, <3>6, <1>b, <1>f
      <3>8. size'[w] \in Nat /\ size'[w] <= MaxSize  BY <2>2, <1>f, <1>k DEF CountersOK
      <3>9. pc'[w] # "reopen"  BY <2>2, <1>d, Moved
      <3> QED  BY <3>3, <3>4, <3>5, <3>7, <3>8, <3>9, SizedLocally
    <2> QED  BY <1>8, <2>1, <2>2 DEF Reopen, GiveUp
  <1>9. CASE EndRun(w)
    <2>1. pc'[w] # "reopen"  BY <1>9, <1>d, Moved DEF EndRun
    <2>2. fd'[w] \in {fd[w], NoFile}  BY <1>9, <1>f DEF EndRun, FilesOK
    <2> QED  BY <1>9, <2>1, <2>2, <1>s DEF EndRun, Holding, fileVars
  <1> QED
    BY <1>1, <1>2, <1>3, <1>4, <1>5, <1>6, <1>7, <1>8, <1>9 DEF RunStep

LEMMA NextSize == TypeInv /\ TypeInv' /\ SizeInv /\ [Next]_vars => SizeInv'
  <1> SUFFICES ASSUME TypeInv, TypeInv', SizeInv, [Next]_vars, ~raced' PROVE Sized'
    BY NextNotYetOpen DEF SizeInv, Sized
  <1>r. ~raced
    BY DEF Next, OpenLock, Lock, Interrupt, RunStep, OpenLog, BeginWrite, WritePart,
       StatArchives, CloseActive, RemoveOldest, ShiftArchive, Reopen, EndRun, DeleteStep, Select,
       Plan, Confirm, Scan, ReadAgain, CheckLock, Unlink, RemoveLock, Rollup, Kill, ghosts, vars
  <1>s. Sized /\ NotYetOpen  BY <1>r DEF SizeInv, Sized
  <1>d. Domains  BY DEF TypeInv, LockInv
  <1>k. ASSUME UNCHANGED <<data, size>>, dir[0] = NoFile => dir'[0] = NoFile,
               \A v \in Writers : /\ pc'[v] = "reopen" => pc[v] = "reopen"
                                  /\ pc'[v] \in Holding /\ fd'[v] # NoFile
                                     => pc[v] \in Holding /\ fd'[v] = fd[v]
        PROVE  Sized'
    <2>1. SizeBounded'  BY <1>k, <1>r, <1>s DEF Sized, SizeBounded
    <2>2. SizeKnown'
      <3> SUFFICES ASSUME NEW v \in Writers
                   PROVE  /\ size'[v] <= MaxSize
                          /\ pc'[v] \in Holding /\ fd'[v] # NoFile => Len(data'[fd'[v]]) <= size'[v]
        BY DEF SizeKnown, NoFile
      <3> QED  BY <1>k, <1>s DEF Sized, SizeKnown
    <2>3. RenamedAway'  BY <1>k, <1>s DEF Sized, RenamedAway
    <2> QED  BY <2>1, <2>2, <2>3 DEF Sized
  <1>1. ASSUME NEW w \in Writers, OpenLock(w) \/ Lock(w) \/ Interrupt(w) PROVE Sized'
    <2>1. UNCHANGED <<data, size, dir, fd>>
      BY <1>1 DEF OpenLock, Lock, Interrupt, fileVars, runVars
    <2>2. pc[w] \in {"idle", "lock"} /\ fd[w] = NoFile
      BY <1>1, <1>s DEF OpenLock, Lock, Interrupt, NotYetOpen
    <2>3. \E l \in {"lock", "open", "done"} : Goto(w, l)  BY <1>1 DEF OpenLock, Lock, Interrupt
    <2>4. pc'[w] # "reopen" /\ \A v \in Writers : v # w => pc'[v] = pc[v]
      BY <2>3, <1>d, Moved DEF Procs
    <2> QED  BY <2>1, <2>2, <2>4, <1>k
  <1>2. ASSUME NEW w \in Writers, RunStep(w) PROVE Sized'
    BY <1>2, <1>r, <1>s, RunStepSized
  <1>3. ASSUME NEW d \in Deleters, DeleteStep(d) PROVE Sized'
    <2>1. UNCHANGED <<data, size, fd>>
      BY <1>3 DEF DeleteStep, Select, Plan, Confirm, Scan, ReadAgain, CheckLock, Unlink,
         RemoveLock, Rollup, fileVars, runVars
    <2>2. UNCHANGED pc \/ \E l : Goto(d, l)
      BY <1>3 DEF DeleteStep, Select, Plan, Confirm, Scan, ReadAgain, CheckLock, Unlink,
         RemoveLock, Rollup
    <2>3. d \notin Writers /\ d \in Procs  BY ProcessAssumption DEF Procs
    <2>4. \A v \in Writers : pc'[v] = pc[v]  BY <2>2, <2>3, <1>d, Moved DEF Procs
    <2>5. dir[0] = NoFile => dir'[0] = NoFile
      <3>0. 0 \in DOMAIN dir  BY <1>d, SizeAssumption DEF Domains, Names
      <3>1. CASE Unlink(d)
        <4>1. dir' = dir \/ dir' = [dir EXCEPT ![Head(parts[d]).name] = NoFile]
          BY <3>1 DEF Unlink
        <4> QED  BY <3>0, <4>1
      <3>2. CASE ~Unlink(d)
        BY <1>3, <3>2 DEF DeleteStep, Select, Plan, Confirm, Scan, ReadAgain, CheckLock,
           RemoveLock, Rollup, fileVars
      <3> QED  BY <3>1, <3>2
    <2> QED  BY <2>1, <2>4, <2>5, <1>k
  <1>4. ASSUME NEW p \in Procs, Kill(p) PROVE Sized'
    <2>1. UNCHANGED <<data, size, dir>>  BY <1>4 DEF Kill, fileVars
    <2>2. \E l \in {"done", "idle"} : Goto(p, l)  BY <1>4 DEF Kill
    <2>3. pc'[p] \notin Holding /\ \A v \in Writers : v # p => pc'[v] = pc[v]
      BY <2>2, <1>d, Moved DEF Procs, Holding
    <2>4. \A v \in Writers : v # p => fd'[v] = fd[v]
      BY <1>4 DEF Kill, TypeInv, RunOK, FilesOK
    <2> QED  BY <2>1, <2>3, <2>4, <1>k DEF Holding
  <1>5. CASE UNCHANGED vars
    BY <1>5, <1>k DEF vars, fileVars, runVars
  <1> QED  BY <1>1, <1>2, <1>3, <1>4, <1>5 DEF Next

\* --max-size holds for the log and every archive, however many runs, failures
\* and kills: rotatingLogFile's idea of the size is never less than the file's
\* length, so no write it lets through makes the file longer than the limit.
THEOREM SizeBoundedAlways == Spec => []SizeBounded
  <1>1. SizeInv => SizeBounded  BY DEF SizeInv, SizeBounded
  <1> QED  BY <1>1, InitType, NextType, InitSize, NextSize, PTL DEF Spec
-----------------------------------------------------------------------------
(* What Flat returns, place by place                                       *)

\* Element i of u is element col[i] of sequence row[i], one of the first m of ss; the
\* order of u is that of the rows and columns, and u leaves none of them out
Laid(u, ss, m, row, col) ==
    /\ \A i \in 1 .. Len(u) :
         /\ row[i] \in 1 .. m /\ col[i] \in 1 .. Len(ss[row[i]])
         /\ u[i] = ss[row[i]][col[i]]
    /\ \A i, j \in 1 .. Len(u) :
         i < j => row[i] < row[j] \/ (row[i] = row[j] /\ col[i] < col[j])
    /\ \A r \in 1 .. m : \A c \in 1 .. Len(ss[r]) :
         \E i \in 1 .. Len(u) : row[i] = r /\ col[i] = c

\* One more sequence at the end
LEMMA LaidStep ==
  ASSUME NEW T, NEW ss \in Seq(Seq(T)), NEW m \in Nat, m + 1 <= Len(ss),
         NEW u \in Seq(T), NEW row, NEW col, Laid(u, ss, m, row, col)
  PROVE  \E r, c : Laid(u \o ss[m + 1], ss, m + 1, r, c)
  <1>0. PICK a \in Nat, b \in Nat, v \in Seq(T) : a = Len(u) /\ v = ss[m + 1] /\ b = Len(v)
    <2>1. m + 1 \in 1 .. Len(ss)  OBVIOUS
    <2>2. ss[m + 1] \in Seq(T)  BY <2>1
    <2> QED  BY <2>2, LenProperties
  <1>1. /\ Len(u \o v) = a + b
        /\ \A i \in 1 .. a + b : (u \o v)[i] = IF i <= a THEN u[i] ELSE v[i - a]
    BY <1>0, ConcatProperties
  <1> DEFINE r == [i \in 1 .. a + b |-> IF i <= a THEN row[i] ELSE m + 1]
             c == [i \in 1 .. a + b |-> IF i <= a THEN col[i] ELSE i - a]
  <1>a. ASSUME NEW i \in 1 .. a
        PROVE  /\ i \in 1 .. a + b /\ r[i] = row[i] /\ c[i] = col[i]
               /\ row[i] \in 1 .. m /\ col[i] \in 1 .. Len(ss[row[i]])
               /\ (u \o v)[i] = ss[row[i]][col[i]]
    <2>1. i \in 1 .. a + b /\ i <= a  OBVIOUS
    <2>2. r[i] = row[i] /\ c[i] = col[i] /\ (u \o v)[i] = u[i]  BY <2>1, <1>1
    <2>3. /\ row[i] \in 1 .. m /\ col[i] \in 1 .. Len(ss[row[i]])
          /\ u[i] = ss[row[i]][col[i]]
      BY <1>0 DEF Laid
    <2> QED  BY <2>1, <2>2, <2>3
  <1>b. ASSUME NEW k \in 1 .. b
        PROVE  /\ a + k \in 1 .. a + b /\ r[a + k] = m + 1 /\ c[a + k] = k
               /\ (u \o v)[a + k] = v[k]
    <2>1. a + k \in 1 .. a + b /\ ~(a + k <= a) /\ (a + k) - a = k  OBVIOUS
    <2> QED  BY <2>1, <1>1
  <1>c. ASSUME NEW i \in 1 .. a + b PROVE i \in 1 .. a \/ \E k \in 1 .. b : i = a + k
    <2>1. i \in 1 .. a \/ (i - a \in 1 .. b /\ i = a + (i - a))  OBVIOUS
    <2> QED  BY <2>1
  <1> HIDE DEF r, c
  <1>3. ASSUME NEW i \in 1 .. a + b
        PROVE  /\ r[i] \in 1 .. m + 1 /\ c[i] \in 1 .. Len(ss[r[i]])
               /\ (u \o v)[i] = ss[r[i]][c[i]]
    <2>1. CASE i \in 1 .. a
      <3>1. row[i] \in 1 .. m + 1  BY <2>1, <1>a
      <3> QED  BY <2>1, <3>1, <1>a
    <2>2. ASSUME NEW k \in 1 .. b, i = a + k
          PROVE  /\ r[i] \in 1 .. m + 1 /\ c[i] \in 1 .. Len(ss[r[i]])
                 /\ (u \o v)[i] = ss[r[i]][c[i]]
      <3>1. m + 1 \in 1 .. m + 1  OBVIOUS
      <3> QED  BY <2>2, <3>1, <1>b, <1>0
    <2> QED  BY <2>1, <2>2, <1>c
  <1>4. ASSUME NEW i \in 1 .. a + b, NEW j \in 1 .. a + b, i < j
        PROVE  r[i] < r[j] \/ (r[i] = r[j] /\ c[i] < c[j])
    <2>1. CASE j \in 1 .. a
      <3>1. i \in 1 .. a  BY <1>4, <2>1
      <3>2. row[i] < row[j] \/ (row[i] = row[j] /\ col[i] < col[j])
        BY <1>0, <1>4, <2>1, <3>1 DEF Laid
      <3> QED  BY <2>1, <3>1, <3>2, <1>a
    <2>2. ASSUME NEW k \in 1 .. b, j = a + k, i \in 1 .. a PROVE r[i] < r[j]
      <3>1. row[i] < m + 1  BY <2>2, <1>a
      <3> QED  BY <2>2, <3>1, <1>a, <1>b
    <2>3. ASSUME NEW k \in 1 .. b, j = a + k, NEW l \in 1 .. b, i = a + l
          PROVE  r[i] = r[j] /\ c[i] < c[j]
      <3>1. l < k  BY <2>3, <1>4
      <3> QED  BY <2>3, <3>1, <1>b
    <2> QED  BY <2>1, <2>2, <2>3, <1>c
  <1>5. ASSUME NEW k \in 1 .. m + 1, NEW l \in 1 .. Len(ss[k])
        PROVE  \E i \in 1 .. a + b : r[i] = k /\ c[i] = l
    <2>1. CASE k = m + 1
      <3>1. l \in 1 .. b  BY <2>1, <1>0
      <3> QED  BY <2>1, <3>1, <1>b
    <2>2. CASE k # m + 1
      <3>1. k \in 1 .. m  BY <2>2
      <3>2. PICK i \in 1 .. Len(u) : row[i] = k /\ col[i] = l  BY <3>1 DEF Laid
      <3>3. i \in 1 .. a  BY <1>0
      <3> QED  BY <3>2, <3>3, <1>a
    <2> QED  BY <2>1, <2>2
  <1>6. Laid(u \o v, ss, m + 1, r, c)
    <2>1. Len(u \o v) = a + b  BY <1>1
    <2>2. \A i \in 1 .. Len(u \o v) :
            /\ r[i] \in 1 .. m + 1 /\ c[i] \in 1 .. Len(ss[r[i]])
            /\ (u \o v)[i] = ss[r[i]][c[i]]
      BY <2>1, <1>3
    <2>3. \A i, j \in 1 .. Len(u \o v) : i < j => r[i] < r[j] \/ (r[i] = r[j] /\ c[i] < c[j])
      BY <2>1, <1>4
    <2>4. \A k \in 1 .. m + 1 : \A l \in 1 .. Len(ss[k]) :
            \E i \in 1 .. Len(u \o v) : r[i] = k /\ c[i] = l
      BY <2>1, <1>5
    <2> QED  BY <2>2, <2>3, <2>4 DEF Laid
  <1>7. Laid(u \o ss[m + 1], ss, m + 1, r, c)  BY <1>0, <1>6
  <1> QED  BY <1>7

LEMMA FlatLaid ==
  ASSUME NEW T, NEW ss \in Seq(Seq(T))
  PROVE  \E row, col : Laid(Flat(ss), ss, Len(ss), row, col)
  <1>0. PICK n \in Nat : n = Len(ss)  OBVIOUS
  <1>1. PICK f : FlatTo(ss, f, n) /\ Flat(ss) = f[n]  BY <1>0, FlatDef
  <1> DEFINE S == {m \in Nat : m <= n => f[m] \in Seq(T) /\ \E row, col : Laid(f[m], ss, m, row, col)}
  <1>2. 0 \in S
    <2>1. f[0] = <<>>  BY <1>1, FlatSteps
    <2>2. <<>> \in Seq(T) /\ Laid(<<>>, ss, 0, <<>>, <<>>)  BY DEF Laid
    <2> QED  BY <2>1, <2>2
  <1>3. ASSUME NEW m \in Nat, m \in S PROVE m + 1 \in S
    <2> SUFFICES ASSUME m + 1 <= n
                 PROVE  f[m + 1] \in Seq(T) /\ \E row, col : Laid(f[m + 1], ss, m + 1, row, col)
      OBVIOUS
    <2>0. m \in 0 .. n - 1 /\ m <= n /\ m + 1 \in 1 .. n  OBVIOUS
    <2>1. f[m + 1] = f[m] \o ss[m + 1]  BY <1>1, <2>0, FlatSteps
    <2>2. f[m] \in Seq(T) /\ \E row, col : Laid(f[m], ss, m, row, col)  BY <2>0, <1>3
    <2>3. ss[m + 1] \in Seq(T)  BY <2>0, <1>0
    <2>4. f[m + 1] \in Seq(T)  BY <2>1, <2>2, <2>3
    <2>5. m + 1 <= Len(ss)  BY <1>0
    <2> QED  BY <2>1, <2>2, <2>4, <2>5, LaidStep
  <1> HIDE DEF S
  <1>4. n \in S  BY <1>2, <1>3, Induction
  <1>5. \E row, col : Laid(f[n], ss, n, row, col)  BY <1>4 DEF S
  <1> QED  BY <1>0, <1>1, <1>5

\* The files of a name, and of a scan, are read from the oldest on
Earlier(m, i, n, j) == m > n \/ (m = n /\ i < j)

LEMMA ContentType == ASSUME FilesOK, NEW n \in Names PROVE Content(n) \in Seq(Unit)
  <1>1. CASE dir[n] = NoFile  BY <1>1 DEF Content
  <1>2. CASE dir[n] # NoFile
    <2>1. dir[n] \in 1 .. Len(data)  BY <1>2 DEF FilesOK, NoFile
    <2>2. data[dir[n]] \in Seq(Unit)  BY <2>1 DEF FilesOK
    <2> QED  BY <1>2, <2>2 DEF Content
  <1> QED  BY <1>1, <1>2

RetainedAs(name, col) ==
    /\ \A i \in 1 .. Len(Retained) :
         /\ name[i] \in Names /\ col[i] \in 1 .. Len(Content(name[i]))
         /\ Retained[i] = Content(name[i])[col[i]]
    /\ \A i, j \in 1 .. Len(Retained) :
         i < j => Earlier(name[i], col[i], name[j], col[j])
    /\ \A n \in Names : \A k \in 1 .. Len(Content(n)) :
         \E i \in 1 .. Len(Retained) : name[i] = n /\ col[i] = k

LEMMA RetainedLaid == FilesOK => \E name, col : RetainedAs(name, col)
  <1> SUFFICES ASSUME FilesOK PROVE \E name, col : RetainedAs(name, col)  OBVIOUS
  <1> DEFINE ss == [i \in 1 .. Keep + 1 |-> Content(Keep + 1 - i)]
  <1>0. Keep \in Nat  BY SizeAssumption
  <1>1. \A i \in 1 .. Keep + 1 : Keep + 1 - i \in Names  BY <1>0 DEF Names
  <1>2. \A n \in Names : Keep + 1 - n \in 1 .. Keep + 1 /\ Keep + 1 - (Keep + 1 - n) = n
    BY <1>0 DEF Names
  <1>3. ss \in Seq(Seq(Unit)) /\ Len(ss) = Keep + 1  BY <1>0, <1>1, ContentType
  <1>4. Retained = Flat(ss)  BY DEF Retained
  <1>5. \A i \in 1 .. Keep + 1 : ss[i] = Content(Keep + 1 - i)  OBVIOUS
  <1> HIDE DEF ss
  <1>6. PICK row, col : Laid(Retained, ss, Keep + 1, row, col)  BY <1>3, <1>4, FlatLaid
  <1> DEFINE name == [i \in 1 .. Len(Retained) |-> Keep + 1 - row[i]]
  <1>7. ASSUME NEW i \in 1 .. Len(Retained)
        PROVE  /\ name[i] \in Names /\ col[i] \in 1 .. Len(Content(name[i]))
               /\ Retained[i] = Content(name[i])[col[i]]
               /\ row[i] \in 1 .. Keep + 1 /\ name[i] = Keep + 1 - row[i]
    <2>1. /\ row[i] \in 1 .. Keep + 1 /\ col[i] \in 1 .. Len(ss[row[i]])
          /\ Retained[i] = ss[row[i]][col[i]]
      BY <1>6 DEF Laid
    <2>2. name[i] = Keep + 1 - row[i]  OBVIOUS
    <2>3. ss[row[i]] = Content(name[i])  BY <2>1, <2>2, <1>5
    <2> QED  BY <2>1, <2>2, <2>3, <1>1
  <1>8. ASSUME NEW i \in 1 .. Len(Retained), NEW j \in 1 .. Len(Retained), i < j
        PROVE  Earlier(name[i], col[i], name[j], col[j])
    <2>1. row[i] < row[j] \/ (row[i] = row[j] /\ col[i] < col[j])  BY <1>6, <1>8 DEF Laid
    <2>2. /\ row[i] \in 1 .. Keep + 1 /\ name[i] = Keep + 1 - row[i]
          /\ row[j] \in 1 .. Keep + 1 /\ name[j] = Keep + 1 - row[j]
      BY <1>7
    <2> HIDE DEF name
    <2> QED  BY <2>1, <2>2, <1>0 DEF Earlier
  <1>9. ASSUME NEW n \in Names, NEW k \in 1 .. Len(Content(n))
        PROVE  \E i \in 1 .. Len(Retained) : name[i] = n /\ col[i] = k
    <2>1. Keep + 1 - n \in 1 .. Keep + 1 /\ ss[Keep + 1 - n] = Content(n)  BY <1>2, <1>5
    <2>2. PICK i \in 1 .. Len(Retained) : row[i] = Keep + 1 - n /\ col[i] = k
      BY <2>1, <1>6 DEF Laid
    <2>3. name[i] = n  BY <2>2, <1>2
    <2> QED  BY <2>2, <2>3
  <1> HIDE DEF name
  <1>10. RetainedAs(name, col)  BY <1>7, <1>8, <1>9 DEF RetainedAs
  <1> QED  BY <1>10

\* A scan finds each file at its name, once
Record(n) == [name |-> n, file |-> dir[n], length |-> Len(data[dir[n]])]

LEMMA ScannedLaid ==
  ASSUME FilesOK
  PROVE  \E name :
           /\ \A i \in 1 .. Len(Scanned) :
                name[i] \in Names /\ dir[name[i]] # NoFile /\ Scanned[i] = Record(name[i])
           /\ \A i, j \in 1 .. Len(Scanned) : name[i] = name[j] => i = j
           /\ \A n \in Names : dir[n] # NoFile => \E i \in 1 .. Len(Scanned) : name[i] = n
  <1> DEFINE ss == [i \in 1 .. Keep + 1 |-> PartAt(Keep + 1 - i)]
  <1>0. Keep \in Nat  BY SizeAssumption
  <1>1. \A i \in 1 .. Keep + 1 : Keep + 1 - i \in Names  BY <1>0 DEF Names
  <1>2. \A n \in Names : Keep + 1 - n \in 1 .. Keep + 1 /\ Keep + 1 - (Keep + 1 - n) = n
    BY <1>0 DEF Names
  <1>p. ASSUME NEW n \in Names
        PROVE  /\ PartAt(n) \in Seq({Record(m) : m \in Names})
               /\ \A c \in 1 .. Len(PartAt(n)) : c = 1 /\ dir[n] # NoFile /\ PartAt(n)[c] = Record(n)
               /\ dir[n] # NoFile => 1 \in 1 .. Len(PartAt(n))
    <2>1. CASE dir[n] = NoFile
      <3>1. PartAt(n) = <<>>  BY <2>1 DEF PartAt
      <3> QED  BY <2>1, <3>1
    <2>2. CASE dir[n] # NoFile
      <3>1. PartAt(n) = <<Record(n)>>  BY <2>2 DEF PartAt, Record
      <3> QED  BY <2>2, <3>1
    <2> QED  BY <2>1, <2>2
  <1>3. ss \in Seq(Seq({Record(m) : m \in Names})) /\ Len(ss) = Keep + 1
    BY <1>0, <1>1, <1>p
  <1>4. Scanned = Flat(ss)  BY DEF Scanned
  <1>5. \A i \in 1 .. Keep + 1 : ss[i] = PartAt(Keep + 1 - i)  OBVIOUS
  <1> HIDE DEF ss
  <1>6. PICK row, col : Laid(Scanned, ss, Keep + 1, row, col)  BY <1>3, <1>4, FlatLaid
  <1> DEFINE name == [i \in 1 .. Len(Scanned) |-> Keep + 1 - row[i]]
  <1>7. ASSUME NEW i \in 1 .. Len(Scanned)
        PROVE  /\ name[i] \in Names /\ dir[name[i]] # NoFile /\ Scanned[i] = Record(name[i])
               /\ row[i] \in 1 .. Keep + 1 /\ name[i] = Keep + 1 - row[i] /\ col[i] = 1
    <2>1. /\ row[i] \in 1 .. Keep + 1 /\ col[i] \in 1 .. Len(ss[row[i]])
          /\ Scanned[i] = ss[row[i]][col[i]]
      BY <1>6 DEF Laid
    <2>2. name[i] = Keep + 1 - row[i] /\ name[i] \in Names  BY <2>1, <1>1
    <2>3. ss[row[i]] = PartAt(name[i])  BY <2>1, <2>2, <1>5
    <2> HIDE DEF name
    <2> QED  BY <2>1, <2>2, <2>3, <1>p
  <1>8. ASSUME NEW i \in 1 .. Len(Scanned), NEW j \in 1 .. Len(Scanned), name[i] = name[j]
        PROVE  i = j
    <2>1. /\ row[i] \in 1 .. Keep + 1 /\ name[i] = Keep + 1 - row[i] /\ col[i] = 1
          /\ row[j] \in 1 .. Keep + 1 /\ name[j] = Keep + 1 - row[j] /\ col[j] = 1
      BY <1>7
    <2>2. row[i] = row[j]
      <3> HIDE DEF name
      <3> QED  BY <2>1, <1>8, <1>0
    <2>3. ~(i < j) /\ ~(j < i)  BY <2>1, <2>2, <1>6 DEF Laid
    <2>4. i \in Nat /\ j \in Nat  OBVIOUS
    <2> QED  BY <2>3, <2>4
  <1>9. ASSUME NEW n \in Names, dir[n] # NoFile
        PROVE  \E i \in 1 .. Len(Scanned) : name[i] = n
    <2>1. Keep + 1 - n \in 1 .. Keep + 1 /\ ss[Keep + 1 - n] = PartAt(n)  BY <1>2, <1>5
    <2>2. 1 \in 1 .. Len(ss[Keep + 1 - n])  BY <2>1, <1>9, <1>p
    <2>3. PICK i \in 1 .. Len(Scanned) : row[i] = Keep + 1 - n /\ col[i] = 1
      BY <2>1, <2>2, <1>6 DEF Laid
    <2>4. name[i] = n  BY <2>3, <1>2
    <2> QED  BY <2>4
  <1> HIDE DEF name
  <1> QED  BY <1>7, <1>8, <1>9

\* A reader of the parts sees what their files hold, up to the scanned length
UnitsAs(ps, row, col) ==
    /\ \A i \in 1 .. Len(UnitsOf(ps)) :
         /\ row[i] \in 1 .. Len(ps) /\ col[i] \in 1 .. ps[row[i]].length
         /\ UnitsOf(ps)[i] = data[ps[row[i]].file][col[i]]
    /\ \A i, j \in 1 .. Len(UnitsOf(ps)) : row[i] = row[j] /\ col[i] = col[j] => i = j
    /\ \A r \in 1 .. Len(ps) : \A c \in 1 .. ps[r].length :
         \E i \in 1 .. Len(UnitsOf(ps)) : row[i] = r /\ col[i] = c

LEMMA UnitsLaid ==
  ASSUME FilesOK, NEW ps, Readable(ps)
  PROVE  \E row, col : UnitsAs(ps, row, col)
  <1> DEFINE ss == [i \in 1 .. Len(ps) |-> SubSeq(data[ps[i].file], 1, ps[i].length)]
  <1>1. ASSUME NEW i \in 1 .. Len(ps)
        PROVE  /\ ss[i] \in Seq(Unit) /\ Len(ss[i]) = ps[i].length
               /\ \A c \in 1 .. ps[i].length : ss[i][c] = data[ps[i].file][c]
    <2>0. ps[i] \in Part /\ ps[i].file \in 1 .. Len(data) /\ ps[i].length <= Len(data[ps[i].file])
      BY <1>1 DEF Readable
    <2>1. PICK u \in Seq(Unit), n \in Nat : u = data[ps[i].file] /\ n = ps[i].length /\ n <= Len(u)
      BY <2>0 DEF FilesOK, Part
    <2>2. \A k \in 1 .. n : u[k] \in Unit  BY <2>1
    <2>3. /\ SubSeq(u, 1, n) \in Seq(Unit) /\ Len(SubSeq(u, 1, n)) = IF 1 <= n THEN n - 1 + 1 ELSE 0
          /\ \A k \in 1 .. n - 1 + 1 : SubSeq(u, 1, n)[k] = u[1 + k - 1]
      BY <2>2, SubSeqProperties
    <2>4. Len(SubSeq(u, 1, n)) = n /\ \A k \in 1 .. n : SubSeq(u, 1, n)[k] = u[k]
      <3>1. \A k \in 1 .. n : k \in 1 .. n - 1 + 1 /\ 1 + k - 1 = k  OBVIOUS
      <3>2. (IF 1 <= n THEN n - 1 + 1 ELSE 0) = n  OBVIOUS
      <3> QED  BY <2>3, <3>1, <3>2
    <2>5. ss[i] = SubSeq(u, 1, n)  BY <2>1
    <2> HIDE DEF ss
    <2> QED  BY <2>1, <2>3, <2>4, <2>5
  <1>2. PICK n \in Nat : n = Len(ps)  BY DEF Readable
  <1>3. ss \in Seq(Seq(Unit)) /\ Len(ss) = n
    <2>1. \A i \in 1 .. n : SubSeq(data[ps[i].file], 1, ps[i].length) \in Seq(Unit)  BY <1>1, <1>2
    <2> QED  BY <1>2, <2>1
  <1>4. UnitsOf(ps) = Flat(ss)  BY DEF UnitsOf
  <1> HIDE DEF ss
  <1>5. PICK row, col : Laid(UnitsOf(ps), ss, n, row, col)  BY <1>3, <1>4, FlatLaid
  <1>6. ASSUME NEW i \in 1 .. Len(UnitsOf(ps))
        PROVE  /\ row[i] \in 1 .. Len(ps) /\ col[i] \in 1 .. ps[row[i]].length
               /\ UnitsOf(ps)[i] = data[ps[row[i]].file][col[i]]
    <2>1. /\ row[i] \in 1 .. n /\ col[i] \in 1 .. Len(ss[row[i]])
          /\ UnitsOf(ps)[i] = ss[row[i]][col[i]]
      BY <1>5 DEF Laid
    <2> QED  BY <2>1, <1>1, <1>2
  <1>7. ASSUME NEW i \in 1 .. Len(UnitsOf(ps)), NEW j \in 1 .. Len(UnitsOf(ps)),
               row[i] = row[j] /\ col[i] = col[j]
        PROVE  i = j
    <2>1. col[i] \in Nat /\ row[i] \in Nat  BY <1>5, <1>2 DEF Laid
    <2>2. ~(i < j) /\ ~(j < i)  BY <2>1, <1>5, <1>7 DEF Laid
    <2>3. i \in Nat /\ j \in Nat  OBVIOUS
    <2> QED  BY <2>2, <2>3
  <1>8. ASSUME NEW r \in 1 .. Len(ps), NEW c \in 1 .. ps[r].length
        PROVE  \E i \in 1 .. Len(UnitsOf(ps)) : row[i] = r /\ col[i] = c
    BY <1>1, <1>2, <1>5 DEF Laid
  <1>9. UnitsAs(ps, row, col)  BY <1>6, <1>7, <1>8 DEF UnitsAs
  <1> QED  BY <1>9

-----------------------------------------------------------------------------
(* The log with its archives is the end of what was written                *)

\* Every unit of a file was written, at one place, and carries a number its run has given
Placed == \A f \in 1 .. Len(data) : \A i \in 1 .. Len(data[f]) :
            \E p \in 1 .. Len(written) : written[p] = data[f][i]
WrittenOnce == \A p, q \in 1 .. Len(written) : written[p] = written[q] => p = q
Numbered == \A p \in 1 .. Len(written) : written[p][2] \in 1 .. sent[written[p][1]]

\* No two names lead to the same file
OneName == \A m, n \in Names : dir[m] = dir[n] /\ dir[m] # NoFile => m = n

PlaceInv == Placed /\ WrittenOnce /\ Numbered /\ OneName

\* The files are in the order of what was written ...
InOrder ==
    \A m, n \in Names : \A i \in 1 .. Len(Content(m)), j \in 1 .. Len(Content(n)) :
      \A p, q \in 1 .. Len(written) :
        written[p] = Content(m)[i] /\ written[q] = Content(n)[j] /\ Earlier(m, i, n, j) => p < q

\* ... and nothing is missing after a unit that no deletion has set out to remove
Stored(u) == \E n \in Names : \E i \in 1 .. Len(Content(n)) : Content(n)[i] = u
NoGap ==
    \A p, q \in 1 .. Len(written) :
      p < q /\ NotDoomed(written[p]) /\ Stored(written[p]) => Stored(written[q])

\* The file that a run writes to is the one at the log's name
OpenIsLog ==
    \A w \in Writers :
      /\ pc[w] = "run" => fd[w] \in {NoFile, dir[0]}
      /\ pc[w] \in {"part", "stat", "close"} => fd[w] = dir[0] /\ fd[w] # NoFile
      /\ pc[w] \in {"remove", "shift", "reopen"} => fd[w] = NoFile

\* While a deletion removes files nobody has the log
QuietWindow ==
    raced \/ \A d \in Deleters : pc[d] \in Removing => \A w \in Writers : ~Holds(w)

\* From its comparison on, a deletion has seen or overlooked every run of which there
\* is something, and overlooked the one that goes on; and its rows are the selected ones
Readers(ps) == {UnitsOf(ps)[i][1] : i \in 1 .. Len(UnitsOf(ps))}
Known(d) ==
    /\ \A w \in Writers : Holds(w) => w \in late[d]
    /\ \A n \in Names : \A i \in 1 .. Len(Content(n)) :
         Content(n)[i][1] \in late[d] \cup Readers(parts[d])
Compared(d) == Known(d) /\ Rows(parts[d]) \subseteq targets[d]
Agreed == \A d \in Deleters : pc[d] = "check" => Compared(d)

\* What is there when a deletion removes files is doomed
AllDoomed ==
    \A d \in Deleters : pc[d] = "unlink" =>
      \A n \in Names : \A i \in 1 .. Len(Content(n)) : ~NotDoomed(Content(n)[i])

WindowInv == QuietWindow /\ Agreed
KeepInv == PlaceInv /\ WindowInv /\ (raced \/ (OpenIsLog /\ AllDoomed /\ InOrder /\ NoGap))

LEMMA KeptInOrder == ASSUME FilesOK, KeepInv PROVE KeepsTheNewest
  <1> SUFFICES ASSUME ~raced PROVE KeepsTheNewest  BY DEF KeepsTheNewest
  <1>0. PlaceInv /\ InOrder /\ NoGap  BY DEF KeepInv
  <1>1. PICK name, col : RetainedAs(name, col)  BY RetainedLaid
  <1>2. ASSUME NEW i \in 1 .. Len(Retained)
        PROVE  /\ name[i] \in Names /\ col[i] \in 1 .. Len(Content(name[i]))
               /\ Retained[i] = Content(name[i])[col[i]]
               /\ \E p \in 1 .. Len(written) : written[p] = Retained[i]
    <2>1. /\ name[i] \in Names /\ col[i] \in 1 .. Len(Content(name[i]))
          /\ Retained[i] = Content(name[i])[col[i]]
      BY <1>1 DEF RetainedAs
    <2>2. dir[name[i]] \in 1 .. Len(data) /\ Content(name[i]) = data[dir[name[i]]]
      <3>1. CASE dir[name[i]] = NoFile
        <4>1. Content(name[i]) = <<>>  BY <3>1 DEF Content
        <4> QED  BY <2>1, <4>1
      <3>2. CASE dir[name[i]] # NoFile
        BY <2>1, <3>2 DEF Content, FilesOK, NoFile
      <3> QED  BY <3>1, <3>2
    <2> QED  BY <2>1, <2>2, <1>0 DEF PlaceInv, Placed
  <1>3. Len(Retained) \in Nat /\ Len(written) \in Nat
    <2>1. Len(written) \in Nat  BY DEF FilesOK
    <2>2. Retained \in Seq(Unit)
      <3> DEFINE ss == [i \in 1 .. Keep + 1 |-> Content(Keep + 1 - i)]
      <3>1. \A i \in 1 .. Keep + 1 : Content(Keep + 1 - i) \in Seq(Unit)
        BY SizeAssumption, ContentType DEF Names
      <3>2. ss \in Seq(Seq(Unit))  BY <3>1, SizeAssumption
      <3>3. Retained = Flat(ss)  BY DEF Retained
      <3> HIDE DEF ss
      <3> QED  BY <3>2, <3>3, FlatType
    <2> QED  BY <2>1, <2>2, LenProperties
  <1>4. ASSUME NEW i \in 1 .. Len(Retained), NEW j \in 1 .. Len(Retained), i < j,
               NEW p \in 1 .. Len(written), written[p] = Retained[i],
               NEW q \in 1 .. Len(written), written[q] = Retained[j]
        PROVE  p < q
    <2>1. Earlier(name[i], col[i], name[j], col[j])  BY <1>1, <1>4 DEF RetainedAs
    <2>2. /\ name[i] \in Names /\ col[i] \in 1 .. Len(Content(name[i]))
          /\ written[p] = Content(name[i])[col[i]]
      BY <1>2, <1>4
    <2>3. /\ name[j] \in Names /\ col[j] \in 1 .. Len(Content(name[j]))
          /\ written[q] = Content(name[j])[col[j]]
      BY <1>2, <1>4
    <2>4. InOrder  BY <1>0
    <2> HIDE <1>0, <1>4
    <2> QED  BY <2>1, <2>2, <2>3, <2>4, Zenon DEF InOrder
  <1>5. ASSUME NEW i \in 1 .. Len(Retained), NEW p \in 1 .. Len(written), written[p] = Retained[i],
               NEW j \in i + 1 .. Len(Retained)
        PROVE  \E q \in p + 1 .. Len(written) : written[q] = Retained[j]
    <2>1. j \in 1 .. Len(Retained) /\ i < j  BY <1>3
    <2>2. PICK q \in 1 .. Len(written) : written[q] = Retained[j]  BY <2>1, <1>2
    <2>3. p < q  BY <2>1, <2>2, <1>4, <1>5
    <2>4. q \in p + 1 .. Len(written)  BY <2>3, <1>3
    <2> QED  BY <2>2, <2>4
  <1>6. ASSUME NEW i \in 1 .. Len(Retained), NEW p \in 1 .. Len(written), written[p] = Retained[i],
               NotDoomed(Retained[i]), NEW q \in p + 1 .. Len(written)
        PROVE  \E j \in i + 1 .. Len(Retained) : Retained[j] = written[q]
    <2>1. q \in 1 .. Len(written) /\ p < q  BY <1>3
    <2>2. Stored(written[p])  BY <1>2, <1>6 DEF Stored
    <2>3. Stored(written[q])  BY <2>1, <2>2, <1>6, <1>0 DEF NoGap
    <2>4. PICK n \in Names : \E k \in 1 .. Len(Content(n)) : Content(n)[k] = written[q]
      BY <2>3 DEF Stored
    <2>5. PICK k \in 1 .. Len(Content(n)) : Content(n)[k] = written[q]  BY <2>4
    <2>6. PICK j \in 1 .. Len(Retained) : name[j] = n /\ col[j] = k  BY <1>1 DEF RetainedAs
    <2>7. Retained[j] = written[q]  BY <2>5, <2>6, <1>2
    <2>8. ~(j < i)
      <3> SUFFICES ASSUME j < i PROVE FALSE  OBVIOUS
      <3>1. q < p  BY <2>1, <2>7, <1>4, <1>6
      <3> QED  BY <3>1, <2>1, <1>3
    <2>9. j # i
      <3> SUFFICES ASSUME j = i PROVE FALSE  OBVIOUS
      <3>1. p = q  BY <2>1, <2>7, <1>6, <1>0 DEF PlaceInv, WrittenOnce
      <3> QED  BY <3>1, <2>1, <1>3
    <2>10. j \in i + 1 .. Len(Retained)  BY <2>8, <2>9, <1>3
    <2> QED  BY <2>7, <2>10
  <1>7. \A i \in 1 .. Len(Retained) : \E p \in 1 .. Len(written) :
            /\ written[p] = Retained[i]
            /\ \A j \in i + 1 .. Len(Retained) :
                 \E q \in p + 1 .. Len(written) : written[q] = Retained[j]
            /\ NotDoomed(Retained[i]) =>
                 \A q \in p + 1 .. Len(written) :
                   \E j \in i + 1 .. Len(Retained) : Retained[j] = written[q]
    <2> TAKE i \in 1 .. Len(Retained)
    <2>1. PICK p \in 1 .. Len(written) : written[p] = Retained[i]  BY <1>2
    <2> WITNESS p \in 1 .. Len(written)
    <2> QED  BY <2>1, <1>5, <1>6
  <1> QED  BY <1>7 DEF KeepsTheNewest

\* What a step of a run, or its death, leaves of a deletion
LEMMA RunStepFrame ==
  ASSUME TypeInv, NEW w \in Writers, RunStep(w) \/ OpenLock(w) \/ Interrupt(w)
  PROVE  /\ UNCHANGED <<late, parts, targets, found, failed, raced, doomed, missed, counted>>
         /\ \A d \in Deleters : pc'[d] = pc[d]
         /\ \A v \in Writers : v # w => pc'[v] = pc[v]
         /\ Holds(w)' => Holds(w)
  <1>1. UNCHANGED <<late, parts, targets, found, failed, raced, doomed, missed, counted>>
    BY DEF OpenLock, Interrupt, RunStep, OpenLog, BeginWrite, WritePart, StatArchives, CloseActive,
       RemoveOldest, ShiftArchive, Reopen, EndRun, ghosts, delVars
  <1>2. UNCHANGED pc \/ \E l : Goto(w, l) /\ (l \in Holding => pc[w] \in Holding)
    BY DEF OpenLock, Interrupt, RunStep, OpenLog, BeginWrite, WritePart, StatArchives, CloseActive,
       RemoveOldest, ShiftArchive, Reopen, EndRun, GiveUp, Holding
  <1>3. Domains /\ w \in Procs  BY DEF TypeInv, LockInv, Procs
  <1>4. CASE UNCHANGED pc  BY <1>1, <1>4 DEF Holds
  <1>5. CASE \E l : Goto(w, l) /\ (l \in Holding => pc[w] \in Holding)
    <2>1. PICK l : Goto(w, l) /\ (l \in Holding => pc[w] \in Holding)  BY <1>5
    <2>2. pc'[w] = l /\ \A q \in Procs : q # w => pc'[q] = pc[q]  BY <2>1, <1>3, Moved
    <2>3. \A d \in Deleters : d \in Procs /\ d # w  BY ProcessAssumption DEF Procs
    <2> QED  BY <1>1, <2>1, <2>2, <2>3 DEF Holds, Procs
  <1> QED  BY <1>2, <1>4, <1>5

LEMMA KillFrame ==
  ASSUME TypeInv, NEW p \in Procs, Kill(p)
  PROVE  /\ UNCHANGED <<late, parts, targets, found, failed, raced, doomed, missed, counted>>
         /\ UNCHANGED <<data, dir, written, sent>>
         /\ p \in Writers => pc'[p] = "done"
         /\ p \notin Writers => pc'[p] = "idle"
         /\ \A q \in Procs : q # p => pc'[q] = pc[q]
         /\ \A w \in Writers : w # p => fd'[w] = fd[w]
  <1>1. Domains /\ fd \in [Writers -> 0 .. Len(data)]  BY DEF TypeInv, LockInv, RunOK, FilesOK
  <1>2. UNCHANGED <<late, parts, targets, found, failed, raced, doomed, missed, counted>>
        /\ UNCHANGED <<data, dir, written, sent>>
    BY DEF Kill, ghosts, delVars, fileVars
  <1>3. CASE p \in Writers
    BY <1>1, <1>2, <1>3, Moved DEF Kill
  <1>4. CASE p \notin Writers
    BY <1>1, <1>2, <1>4, Moved DEF Kill
  <1> QED  BY <1>3, <1>4

LEMMA DeleteStepFrame ==
  ASSUME TypeInv, NEW d \in Deleters, DeleteStep(d)
  PROVE  /\ UNCHANGED <<data, fd, written, sent>>
         /\ \A w \in Writers : pc'[w] = pc[w]
         /\ \A e \in Deleters : e # d =>
              /\ pc'[e] = pc[e] /\ late'[e] = late[e] /\ parts'[e] = parts[e]
              /\ targets'[e] = targets[e] /\ found'[e] = found[e] /\ failed'[e] = failed[e]
         /\ raced => raced'
         /\ doomed \subseteq doomed' /\ missed \subseteq missed'
  <1>1. UNCHANGED <<data, fd, written, sent>>
    BY DEF DeleteStep, Select, Plan, Confirm, Scan, ReadAgain, CheckLock, Unlink, RemoveLock,
       Rollup, fileVars, runVars, ghosts
  <1>2. UNCHANGED pc \/ \E l : Goto(d, l)
    BY DEF DeleteStep, Select, Plan, Confirm, Scan, ReadAgain, CheckLock, Unlink, RemoveLock, Rollup
  <1>3. d \in Procs /\ d \notin Writers /\ Domains
    BY ProcessAssumption DEF Procs, TypeInv, LockInv
  <1>4. \A q \in Procs : q # d => pc'[q] = pc[q]  BY <1>2, <1>3, Moved
  <1>5. ASSUME NEW e \in Deleters, e # d
        PROVE  /\ late'[e] = late[e] /\ parts'[e] = parts[e]
               /\ targets'[e] = targets[e] /\ found'[e] = found[e] /\ failed'[e] = failed[e]
    <2>1. DeletionsOK  BY DEF TypeInv
    <2>2. late'[e] = late[e] /\ parts'[e] = parts[e]
      BY <2>1, <1>5 DEF DeleteStep, Select, Plan, Confirm, Scan, ReadAgain, CheckLock, Unlink,
         RemoveLock, Rollup, delVars, ghosts, DeletionsOK
    <2>3. found'[e] = found[e] /\ failed'[e] = failed[e]
      BY <2>1, <1>5 DEF DeleteStep, Select, Plan, Confirm, Scan, ReadAgain, CheckLock, Unlink,
         RemoveLock, Rollup, delVars, ghosts, DeletionsOK
    <2>4. targets'[e] = targets[e]
      <3>1. CASE Select(d)
        <4>1. \E T : targets' = [targets EXCEPT ![d] = T]  BY <3>1 DEF Select
        <4> QED  BY <4>1, <2>1, <1>5 DEF DeletionsOK
      <3>2. CASE ~Select(d)
        BY <3>2 DEF DeleteStep, Plan, Confirm, Scan, ReadAgain, CheckLock, Unlink,
           RemoveLock, Rollup, delVars
      <3> QED  BY <3>1, <3>2
    <2> QED  BY <2>2, <2>3, <2>4
  <1>6. raced => raced'
    BY DEF DeleteStep, Select, Plan, Confirm, Scan, ReadAgain, CheckLock, Unlink, RemoveLock,
       Rollup, ghosts
  <1>7. doomed \subseteq doomed'
    BY DEF DeleteStep, Select, Plan, Confirm, Scan, ReadAgain, CheckLock, Unlink, RemoveLock,
       Rollup, ghosts, Doom
  <1>8. missed \subseteq missed'
    BY DEF DeleteStep, Select, Plan, Confirm, Scan, ReadAgain, CheckLock, Unlink, RemoveLock,
       Rollup, ghosts
  <1> QED  BY <1>1, <1>3, <1>4, <1>5, <1>6, <1>7, <1>8 DEF Procs

\* Taking the lock is what a deletion overlooks
LEMMA LockFrame ==
  ASSUME TypeInv, NEW w \in Writers, Lock(w)
  PROVE  /\ UNCHANGED <<data, dir, fd, written, sent, parts, targets, found, failed, doomed, missed, counted>>
         /\ pc[w] = "lock" /\ pc'[w] = "open"
         /\ \A d \in Deleters : pc'[d] = pc[d]
         /\ \A v \in Writers : v # w => pc'[v] = pc[v]
         /\ \A d \in Deleters : pc[d] = "check" => late'[d] = late[d] \cup {w}
         /\ raced \/ (\E d \in Deleters : pc[d] \in Removing) => raced'
  <1>1. UNCHANGED <<data, dir, fd, written, sent, parts, targets, found, failed, doomed, missed, counted>>
    BY DEF Lock, fileVars, runVars, delVars
  <1>2. Domains /\ w \in Procs  BY DEF TypeInv, LockInv, Procs
  <1>3. pc[w] = "lock" /\ pc'[w] = "open" /\ \A q \in Procs : q # w => pc'[q] = pc[q]
    BY <1>2, Moved DEF Lock
  <1>4. \A d \in Deleters : d \in Procs /\ d # w  BY ProcessAssumption DEF Procs
  <1>5. \A d \in Deleters : pc[d] = "check" => late'[d] = late[d] \cup {w}
    BY DEF Lock
  <1>6. raced \/ (\E d \in Deleters : pc[d] \in Removing) => raced'
    BY Zenon DEF Lock
  <1> QED  BY <1>1, <1>3, <1>4, <1>5, <1>6 DEF Procs

LEMMA RacedStays == ASSUME [Next]_vars, raced PROVE raced'
  BY DEF Next, OpenLock, Lock, Interrupt, RunStep, OpenLog, BeginWrite, WritePart,
     StatArchives, CloseActive, RemoveOldest, ShiftArchive, Reopen, EndRun, DeleteStep, Select,
     Plan, Confirm, Scan, ReadAgain, CheckLock, Unlink, RemoveLock, Rollup, Kill, ghosts, vars

\* Nobody has the log when a deletion finds the lock free
LEMMA FreeWhenUnlocked ==
  ASSUME LockInv, ~raced, ~LogFileLocked, NEW w \in Writers PROVE ~Holds(w)
  <1> SUFFICES ASSUME Holds(w) PROVE FALSE  OBVIOUS
  <1>1. lockFd[w] # NoFile  BY DEF Holds, LockInv, HasLockFile
  <1>2. lockFd[w] = lockAt  BY <1>1 DEF LockInv, SameLockFile
  <1> QED  BY <1>1, <1>2 DEF LogFileLocked, Locked

LEMMA NextQuiet == ASSUME TypeInv, QuietWindow, [Next]_vars PROVE QuietWindow'
  <1>r. raced => raced'  BY RacedStays
  <1> SUFFICES ASSUME ~raced', NEW d \in Deleters, pc'[d] \in Removing, NEW v \in Writers
               PROVE  ~Holds(v)'
    BY DEF QuietWindow
  <1>d. d \in Procs /\ v \in Procs /\ Domains  BY DEF Procs, TypeInv, LockInv
  <1>k. ASSUME pc[d] \in Removing, Holds(v)' => Holds(v) PROVE ~Holds(v)'
    BY <1>k, <1>r DEF QuietWindow
  <1>1. ASSUME NEW w \in Writers, OpenLock(w) \/ Interrupt(w) \/ RunStep(w) PROVE ~Holds(v)'
    <2>1. Holds(v)' => Holds(v)  BY <1>1, RunStepFrame DEF Holds
    <2> QED  BY <1>1, <2>1, <1>k, RunStepFrame
  <1>2. ASSUME NEW w \in Writers, Lock(w) PROVE ~Holds(v)'
    BY <1>2, LockFrame
  <1>3. ASSUME NEW e \in Deleters, DeleteStep(e) PROVE ~Holds(v)'
    <2>1. Holds(v)' => Holds(v)  BY <1>3, DeleteStepFrame DEF Holds
    <2>2. CASE pc[d] \in Removing  BY <2>1, <2>2, <1>k
    <2>3. CASE pc[d] \notin Removing
      <3>1. e = d  BY <1>3, <2>3, DeleteStepFrame
      <3>2. CASE CheckLock(d) /\ ~LogFileLocked
        <4>1. ~Holds(v)  BY <3>2, <1>r, FreeWhenUnlocked DEF TypeInv
        <4> QED  BY <2>1, <4>1
      <3>3. CASE ~CheckLock(d) \/ LogFileLocked
        <4>1. pc[d] # "unlink"  BY <2>3 DEF Removing
        <4>2. \E l \in {"plan", "idle", "confirm", "scan", "read", "check", "rollup"} : Goto(d, l)
          BY <1>3, <3>1, <3>3, <4>1 DEF DeleteStep, Select, Plan, Confirm, Scan, ReadAgain, CheckLock,
             Unlink, RemoveLock, Rollup
        <4> QED  BY <4>2, <1>d, Moved DEF Removing
      <3> QED  BY <3>2, <3>3
    <2> QED  BY <2>2, <2>3
  <1>4. ASSUME NEW p \in Procs, Kill(p) PROVE ~Holds(v)'
    <2>1. \A q \in Procs : pc'[q] = pc[q] \/ pc'[q] \in {"done", "idle"}  BY <1>4, KillFrame
    <2>2. Holds(v)' => Holds(v)  BY <2>1, <1>d DEF Holds, Holding
    <2>3. pc[d] \in Removing  BY <2>1, <1>d DEF Removing
    <2> QED  BY <2>2, <2>3, <1>k
  <1>5. CASE UNCHANGED vars
    <2>1. UNCHANGED pc  BY <1>5 DEF vars
    <2> QED  BY <2>1, <1>k DEF Holds
  <1> QED  BY <1>1, <1>2, <1>3, <1>4, <1>5 DEF Next

\* A write of n units: each goes to the end of what was written, and of the open file
Wrote(w, n) ==
    /\ Len(written') = Len(written) + n
    /\ \A p \in 1 .. Len(written) : written'[p] = written[p]
    /\ \A k \in 1 .. n : written'[Len(written) + k] = <<w, sent[w] + k>>
    /\ Len(data') = Len(data)
    /\ \A f \in 1 .. Len(data) : f # fd[w] => data'[f] = data[f]
    /\ fd[w] # NoFile =>
         /\ Len(data'[fd[w]]) = Len(data[fd[w]]) + n
         /\ \A i \in 1 .. Len(data[fd[w]]) : data'[fd[w]][i] = data[fd[w]][i]
         /\ \A k \in 1 .. n : data'[fd[w]][Len(data[fd[w]]) + k] = <<w, sent[w] + k>>
    /\ sent'[w] = sent[w] + n /\ \A v \in Writers : v # w => sent'[v] = sent[v]

\* What one sequence and another are together
LEMMA Joined ==
  ASSUME NEW T, NEW s \in Seq(T), NEW u \in Seq(T)
  PROVE  /\ Len(s \o u) = Len(s) + Len(u)
         /\ \A i \in 1 .. Len(s) : (s \o u)[i] = s[i]
         /\ \A k \in 1 .. Len(u) : (s \o u)[Len(s) + k] = u[k]
  <1>1. PICK a \in Nat, b \in Nat : a = Len(s) /\ b = Len(u)  BY LenProperties
  <1>2. /\ Len(s \o u) = a + b
        /\ \A i \in 1 .. a + b : (s \o u)[i] = IF i <= a THEN s[i] ELSE u[i - a]
    BY <1>1, ConcatProperties
  <1>3. ASSUME NEW i \in 1 .. a PROVE (s \o u)[i] = s[i]
    <2>1. i \in 1 .. a + b /\ i <= a  OBVIOUS
    <2> QED  BY <2>1, <1>2
  <1>4. ASSUME NEW k \in 1 .. b PROVE (s \o u)[a + k] = u[k]
    <2>1. a + k \in 1 .. a + b /\ ~(a + k <= a) /\ (a + k) - a = k  OBVIOUS
    <2> QED  BY <2>1, <1>2
  <1> QED  BY <1>1, <1>2, <1>3, <1>4

LEMMA PartWritten ==
  ASSUME TypeInv, NEW w \in Writers, WritePart(w)
  PROVE  \E n \in Nat : Wrote(w, n)
  <1>f. FilesOK /\ CountersOK  BY DEF TypeInv, RunOK
  <1>1. PICK n \in 0 .. PartSize(w) :
          /\ data' = [data EXCEPT ![fd[w]] = @ \o Units(w, n)]
          /\ written' = written \o Units(w, n)
          /\ sent' = [sent EXCEPT ![w] = @ + n]
    BY DEF WritePart
  <1>2. n \in Nat
    <2>1. PartSize(w) \in Int  BY <1>f, SizeAssumption DEF PartSize, CountersOK
    <2> QED  BY <2>1
  <1>3. PICK u \in Seq(Unit) : u = Units(w, n) /\ Len(u) = n  BY <1>2, <1>f, UnitsAreUnits
  <1>4. \A k \in 1 .. n : u[k] = <<w, sent[w] + k>>  BY <1>3 DEF Units
  <1>5. UNCHANGED <<dir, fd>>  BY DEF WritePart
  <1>6. /\ Len(data') = Len(data)
        /\ \A f \in 1 .. Len(data) : f # fd[w] => data'[f] = data[f]
    BY <1>1, <1>2, <1>5, <1>f, WritePartFiles
  <1>7. /\ Len(written') = Len(written) + n
        /\ \A p \in 1 .. Len(written) : written'[p] = written[p]
        /\ \A k \in 1 .. n : written'[Len(written) + k] = <<w, sent[w] + k>>
    <2>1. PICK s \in Seq(Unit) : s = written  BY <1>f DEF FilesOK
    <2>2. written' = s \o u  BY <1>1, <1>3, <2>1
    <2>3. /\ Len(s \o u) = Len(s) + n
          /\ \A i \in 1 .. Len(s) : (s \o u)[i] = s[i]
          /\ \A k \in 1 .. n : (s \o u)[Len(s) + k] = u[k]
      BY <1>3, Joined
    <2> QED  BY <2>1, <2>2, <2>3, <1>4
  <1>8. ASSUME fd[w] # NoFile
        PROVE  /\ Len(data'[fd[w]]) = Len(data[fd[w]]) + n
               /\ \A i \in 1 .. Len(data[fd[w]]) : data'[fd[w]][i] = data[fd[w]][i]
               /\ \A k \in 1 .. n : data'[fd[w]][Len(data[fd[w]]) + k] = <<w, sent[w] + k>>
    <2>0. fd[w] \in 1 .. Len(data)  BY <1>8, <1>f DEF FilesOK, NoFile
    <2>1. PICK b \in Seq(Unit) : b = data[fd[w]]  BY <2>0, <1>f DEF FilesOK
    <2>2. data'[fd[w]] = b \o u
      <3>1. DOMAIN data = 1 .. Len(data)  BY <1>f DEF FilesOK
      <3> QED  BY <3>1, <2>0, <2>1, <1>1, <1>3
    <2>3. /\ Len(b \o u) = Len(b) + n
          /\ \A i \in 1 .. Len(b) : (b \o u)[i] = b[i]
          /\ \A k \in 1 .. n : (b \o u)[Len(b) + k] = u[k]
      BY <1>3, Joined
    <2> QED  BY <2>1, <2>2, <2>3, <1>4
  <1>9. sent'[w] = sent[w] + n /\ \A v \in Writers : v # w => sent'[v] = sent[v]
    BY <1>1, <1>f DEF CountersOK
  <1> QED  BY <1>2, <1>6, <1>7, <1>8, <1>9 DEF Wrote

\* Any other step leaves what was written as it is; a new file is empty
SameUnits ==
    /\ UNCHANGED <<written, sent>>
    /\ Len(data') >= Len(data)
    /\ \A f \in 1 .. Len(data) : data'[f] = data[f]
    /\ \A f \in 1 .. Len(data') : f \in 1 .. Len(data) \/ Len(data'[f]) = 0

LEMMA SameWhenUnchanged == ASSUME FilesOK, UNCHANGED <<data, written, sent>> PROVE SameUnits
  BY DEF SameUnits, FilesOK

LEMMA SameWhenOpened ==
  ASSUME FilesOK, NEW w \in Writers, OpenActive(w), UNCHANGED <<written, sent>>
  PROVE  SameUnits
  <1>1. CASE data' = data  BY <1>1, SameWhenUnchanged
  <1>2. CASE data' = Append(data, <<>>)
    <2>1. Len(<<>>) = 0 /\ <<>> \in Seq(Unit) /\ Len(data) \in Nat  BY DEF FilesOK
    <2>2. /\ Len(data') = Len(data) + 1 /\ data'[Len(data) + 1] = <<>>
          /\ \A i \in 1 .. Len(data) : data'[i] = data[i]
      BY <1>2, <2>1, AppendProperties DEF FilesOK
    <2>3. \A i \in 1 .. Len(data) + 1 : i \in 1 .. Len(data) \/ i = Len(data) + 1  BY <2>1
    <2> QED  BY <2>1, <2>2, <2>3 DEF SameUnits
  <1> QED  BY <1>1, <1>2 DEF OpenActive

LEMMA NextUnits ==
  ASSUME TypeInv, [Next]_vars
  PROVE  SameUnits \/ \E w \in Writers : WritePart(w)
  <1>f. FilesOK  BY DEF TypeInv, RunOK
  <1>1. ASSUME NEW w \in Writers, OpenLock(w) \/ Lock(w) \/ Interrupt(w) PROVE SameUnits
    <2>1. UNCHANGED <<data, written, sent>>
      BY <1>1 DEF OpenLock, Lock, Interrupt, fileVars, runVars, ghosts
    <2> QED  BY <2>1, <1>f, SameWhenUnchanged
  <1>2. ASSUME NEW w \in Writers, RunStep(w), ~WritePart(w) PROVE SameUnits
    <2>1. UNCHANGED <<written, sent>>
      BY <1>2 DEF RunStep, OpenLog, BeginWrite, StatArchives, CloseActive, RemoveOldest,
         ShiftArchive, Reopen, EndRun, ghosts
    <2>2. UNCHANGED data \/ OpenActive(w)
      BY <1>2 DEF RunStep, OpenLog, BeginWrite, StatArchives, CloseActive, RemoveOldest,
         ShiftArchive, Reopen, EndRun, fileVars
    <2> QED  BY <2>1, <2>2, <1>f, SameWhenUnchanged, SameWhenOpened
  <1>3. ASSUME NEW d \in Deleters, DeleteStep(d) PROVE SameUnits
    BY <1>3, <1>f, DeleteStepFrame, SameWhenUnchanged
  <1>4. ASSUME NEW p \in Procs, Kill(p) PROVE SameUnits
    BY <1>4, <1>f, KillFrame, SameWhenUnchanged
  <1>5. CASE UNCHANGED vars
    BY <1>5, <1>f, SameWhenUnchanged DEF vars, fileVars, runVars, ghosts
  <1> QED  BY <1>1, <1>2, <1>3, <1>4, <1>5 DEF Next

\* What a step does to the names
Opened == dir[0] = NoFile /\ dir' = [dir EXCEPT ![0] = Len(data) + 1]
Dropped(n) == dir' = [dir EXCEPT ![n] = NoFile]

LEMMA NextNames ==
  ASSUME TypeInv, [Next]_vars
  PROVE  \/ UNCHANGED dir \/ Opened
         \/ \E n \in Names : Dropped(n)
         \/ \E n \in 0 .. Keep - 1 : dir' = Renamed(dir, n, n + 1)
  <1>0. Keep \in Names  BY SizeAssumption DEF Names
  <1>1. ASSUME NEW w \in Writers, RunStep(w)
        PROVE  \/ UNCHANGED dir \/ Opened \/ Dropped(Keep)
               \/ \E n \in 0 .. Keep - 1 : dir' = Renamed(dir, n, n + 1)
    <2>1. CASE RemoveOldest(w)  BY <2>1 DEF RemoveOldest, Dropped
    <2>2. CASE ShiftArchive(w)
      <3>1. shift[w] \in 0 .. Keep - 1  BY DEF TypeInv, LockInv, Domains
      <3>2. UNCHANGED dir \/ dir' = Renamed(dir, shift[w], shift[w] + 1)
        BY <2>2 DEF ShiftArchive
      <3> QED  BY <3>1, <3>2
    <2>3. CASE OpenActive(w)  BY <2>3 DEF OpenActive, Opened
    <2>4. CASE ~RemoveOldest(w) /\ ~ShiftArchive(w) /\ ~OpenActive(w)
      BY <1>1, <2>4 DEF RunStep, OpenLog, BeginWrite, WritePart, StatArchives, CloseActive,
         Reopen, EndRun, fileVars
    <2> QED  BY <2>1, <2>2, <2>3, <2>4
  <1>2. ASSUME NEW d \in Deleters, DeleteStep(d)
        PROVE  UNCHANGED dir \/ \E n \in Names : Dropped(n)
    <2>1. CASE Unlink(d) /\ parts[d] # <<>>
      <3>1. parts[d] \in Seq(Part)  BY DEF TypeInv, ScansOK, Readable
      <3>2. Head(parts[d]) \in Part  BY <2>1, <3>1
      <3>3. Head(parts[d]).name \in Names  BY <3>2 DEF Part
      <3> QED  BY <2>1, <3>3 DEF Unlink, Dropped
    <2>2. CASE Unlink(d) /\ parts[d] = <<>>  BY <2>2 DEF Unlink
    <2>3. CASE ~Unlink(d)
      BY <1>2, <2>3 DEF DeleteStep, Select, Plan, Confirm, Scan, ReadAgain, CheckLock, RemoveLock,
         Rollup, fileVars
    <2> QED  BY <2>1, <2>2, <2>3
  <1>3. ASSUME NEW w \in Writers, OpenLock(w) \/ Lock(w) \/ Interrupt(w) PROVE UNCHANGED dir
    BY <1>3 DEF OpenLock, Lock, Interrupt, fileVars
  <1>4. ASSUME NEW p \in Procs, Kill(p) PROVE UNCHANGED dir  BY <1>4 DEF Kill, fileVars
  <1>5. CASE UNCHANGED vars  BY <1>5 DEF vars, fileVars
  <1> QED  BY <1>0, <1>1, <1>2, <1>3, <1>4, <1>5 DEF Next

LEMMA NextOneName == ASSUME TypeInv, OneName, [Next]_vars PROVE OneName'
  <1>0. dir \in [Names -> 0 .. Len(data)] /\ Len(data) \in Nat /\ Keep \in Nat /\ 0 \in Names
    BY SizeAssumption DEF TypeInv, RunOK, FilesOK, Names
  <1>1. CASE UNCHANGED dir  BY <1>1 DEF OneName
  <1>2. CASE Opened
    <2>1. \A n \in Names : dir'[n] = (IF n = 0 THEN Len(data) + 1 ELSE dir[n])
      BY <1>0, <1>2 DEF Opened
    <2>2. \A n \in Names : dir[n] # Len(data) + 1  BY <1>0
    <2> QED  BY <2>1, <2>2 DEF OneName
  <1>3. ASSUME NEW n \in Names, Dropped(n) PROVE OneName'
    BY <1>0, <1>3 DEF OneName, Dropped
  <1>4. ASSUME NEW n \in 0 .. Keep - 1, dir' = Renamed(dir, n, n + 1) PROVE OneName'
    <2>1. n \in Names /\ n + 1 \in Names /\ n # n + 1  BY <1>0 DEF Names
    <2>2. /\ dir'[n] = NoFile /\ dir'[n + 1] = dir[n]
          /\ \A m \in Names : m # n /\ m # n + 1 => dir'[m] = dir[m]
      BY <1>0, <1>4, <2>1 DEF Renamed
    <2>3. PICK k \in Names : k = n + 1  BY <2>1
    <2> QED  BY <2>1, <2>2, <2>3 DEF OneName
  <1> QED  BY <1>1, <1>2, <1>3, <1>4, NextNames

LEMMA NextPlaced == ASSUME TypeInv, TypeInv', PlaceInv, [Next]_vars PROVE PlaceInv'
  <1>n. OneName'  BY NextOneName DEF PlaceInv
  <1>p. Placed /\ WrittenOnce /\ Numbered  BY DEF PlaceInv
  <1>f. FilesOK /\ CountersOK /\ FilesOK'  BY DEF TypeInv, RunOK
  <1>1. CASE SameUnits
    <2>1. Placed'
      <3> SUFFICES ASSUME NEW f \in 1 .. Len(data'), NEW i \in 1 .. Len(data'[f])
                   PROVE  \E p \in 1 .. Len(written) : written[p] = data'[f][i]
        BY <1>1 DEF Placed, SameUnits
      <3>1. CASE f \in 1 .. Len(data)
        <4>1. data'[f] = data[f]  BY <3>1, <1>1 DEF SameUnits
        <4> QED  BY <3>1, <4>1, <1>p DEF Placed
      <3>2. CASE Len(data'[f]) = 0  BY <3>2
      <3> QED  BY <3>1, <3>2, <1>1 DEF SameUnits
    <2>2. WrittenOnce' /\ Numbered'
      BY <1>1, <1>p DEF SameUnits, WrittenOnce, Numbered
    <2> QED  BY <2>1, <2>2, <1>n DEF PlaceInv
  <1>2. ASSUME NEW w \in Writers, WritePart(w) PROVE PlaceInv'
    <2>1. PICK n \in Nat : Wrote(w, n)  BY <1>2, PartWritten
    <2>2. PICK L \in Nat, s \in Nat : L = Len(written) /\ s = sent[w]
      BY <1>f DEF FilesOK, CountersOK
    <2>3. /\ Len(written') = L + n
          /\ \A p \in 1 .. L : p \in 1 .. L + n /\ written'[p] = written[p]
          /\ \A k \in 1 .. n : L + k \in 1 .. L + n /\ written'[L + k] = <<w, s + k>>
          /\ \A p \in 1 .. L + n : p \in 1 .. L \/ \E k \in 1 .. n : p = L + k
      <3>1. ASSUME NEW p \in 1 .. L + n PROVE p \in 1 .. L \/ \E k \in 1 .. n : p = L + k
        <4>1. p \in 1 .. L \/ (p - L \in 1 .. n /\ p = L + (p - L))  OBVIOUS
        <4> QED  BY <4>1
      <3>2. /\ \A p \in 1 .. L : p \in 1 .. L + n
            /\ \A k \in 1 .. n : L + k \in 1 .. L + n
        OBVIOUS
      <3> QED  BY <2>1, <2>2, <3>1, <3>2 DEF Wrote
    <2>4. Placed'
      <3> SUFFICES ASSUME NEW f \in 1 .. Len(data'), NEW i \in 1 .. Len(data'[f])
                   PROVE  \E p \in 1 .. Len(written') : written'[p] = data'[f][i]
        BY DEF Placed
      <3>0. f \in 1 .. Len(data) /\ Len(data[f]) \in Nat  BY <2>1, <1>f DEF Wrote, FilesOK
      <3>1. ASSUME i \in 1 .. Len(data[f]), data'[f][i] = data[f][i]
            PROVE  \E p \in 1 .. Len(written') : written'[p] = data'[f][i]
        <4>1. PICK p \in 1 .. L : written[p] = data[f][i]
          BY <3>0, <3>1, <1>p, <2>2 DEF Placed
        <4> QED  BY <4>1, <3>1, <2>3
      <3>2. CASE f # fd[w]
        BY <3>0, <3>1, <3>2, <2>1 DEF Wrote
      <3>3. CASE f = fd[w]
        <4>1. f # NoFile  BY <3>0, <1>f DEF NoFile, FilesOK
        <4>2. Len(data'[f]) = Len(data[f]) + n  BY <3>3, <4>1, <2>1 DEF Wrote
        <4>3. CASE i \in 1 .. Len(data[f])
          BY <3>1, <3>3, <4>1, <4>3, <2>1 DEF Wrote
        <4>4. CASE i \notin 1 .. Len(data[f])
          <5>1. PICK k \in 1 .. n : i = Len(data[f]) + k
            <6>1. i - Len(data[f]) \in 1 .. n /\ i = Len(data[f]) + (i - Len(data[f]))
              BY <3>0, <4>2, <4>4
            <6> QED  BY <6>1
          <5>2. data'[f][i] = <<w, s + k>>  BY <3>3, <4>1, <5>1, <2>1, <2>2 DEF Wrote
          <5> QED  BY <5>1, <5>2, <2>3
        <4> QED  BY <4>3, <4>4
      <3> QED  BY <3>2, <3>3
    <2>5. ASSUME NEW p \in 1 .. L
          PROVE  /\ written[p] \in Unit /\ written[p][1] \in Writers
                 /\ written[p][2] \in 1 .. sent[written[p][1]]
      <3>1. p \in 1 .. Len(written)  BY <2>2
      <3>2. written[p] \in Unit  BY <3>1, <1>f DEF FilesOK
      <3>3. written[p][1] \in Writers  BY <3>2 DEF Unit
      <3> QED  BY <3>1, <3>2, <3>3, <1>p DEF Numbered
    <2>6. sent'[w] = s + n /\ \A v \in Writers : v # w => sent'[v] = sent[v]
      BY <2>1, <2>2 DEF Wrote
    <2>7. WrittenOnce'
      <3>1. ASSUME NEW p \in 1 .. L, NEW k \in 1 .. n PROVE written[p] # <<w, s + k>>
        <4> SUFFICES ASSUME written[p] = <<w, s + k>> PROVE FALSE  OBVIOUS
        <4>1. s + k \in 1 .. s  BY <2>5, <2>2
        <4> QED  BY <4>1
      <3>2. ASSUME NEW j \in 1 .. n, NEW k \in 1 .. n, <<w, s + j>> = <<w, s + k>> PROVE j = k
        BY <3>2
      <3> SUFFICES ASSUME NEW p \in 1 .. L + n, NEW q \in 1 .. L + n, written'[p] = written'[q]
                   PROVE  p = q
        BY <2>3 DEF WrittenOnce
      <3>3. CASE p \in 1 .. L /\ q \in 1 .. L
        BY <3>3, <2>2, <2>3, <1>p DEF WrittenOnce
      <3>4. ASSUME NEW j \in 1 .. n, p = L + j PROVE p = q
        <4>1. written'[p] = <<w, s + j>>  BY <3>4, <2>3
        <4>2. q \notin 1 .. L
          <5> SUFFICES ASSUME q \in 1 .. L PROVE FALSE  OBVIOUS
          <5> QED  BY <4>1, <2>3, <3>1
        <4>3. PICK k \in 1 .. n : q = L + k  BY <4>2, <2>3
        <4> QED  BY <3>2, <3>4, <4>1, <4>3, <2>3
      <3>5. ASSUME NEW k \in 1 .. n, q = L + k, p \in 1 .. L PROVE p = q
        BY <3>1, <3>5, <2>3
      <3> QED  BY <3>3, <3>4, <3>5, <2>3
    <2>8. Numbered'
      <3> SUFFICES ASSUME NEW p \in 1 .. L + n
                   PROVE  written'[p][2] \in 1 .. sent'[written'[p][1]]
        BY <2>3 DEF Numbered
      <3>1. CASE p \in 1 .. L
        <4>1. written'[p] = written[p] /\ sent[written[p][1]] \in Nat
          BY <3>1, <2>3, <2>5, <1>f DEF CountersOK
        <4>2. CASE written[p][1] = w
          <5>1. written[p][2] \in 1 .. s  BY <3>1, <4>2, <2>5, <2>2
          <5>2. written[p][2] \in 1 .. s + n  BY <5>1
          <5> QED  BY <4>1, <4>2, <5>2, <2>6
        <4>3. CASE written[p][1] # w  BY <3>1, <4>1, <4>3, <2>5, <2>6
        <4> QED  BY <4>2, <4>3
      <3>2. ASSUME NEW k \in 1 .. n, p = L + k
            PROVE  written'[p][2] \in 1 .. sent'[written'[p][1]]
        <4>1. written'[p] = <<w, s + k>>  BY <3>2, <2>3
        <4>2. s + k \in 1 .. s + n  OBVIOUS
        <4> QED  BY <4>1, <4>2, <2>6
      <3> QED  BY <3>1, <3>2, <2>3
    <2> QED  BY <2>4, <2>7, <2>8, <1>n DEF PlaceInv
  <1> QED  BY <1>1, <1>2, NextUnits

\* A deletion removes names, and nothing else
LEMMA DeleteNames ==
  ASSUME TypeInv, NEW d \in Deleters, DeleteStep(d)
  PROVE  /\ \A n \in Names : dir'[n] \in {dir[n], NoFile}
         /\ pc[d] = "unlink" \/ UNCHANGED dir
  <1>1. CASE Unlink(d)
    <2>1. pc[d] = "unlink"  BY <1>1 DEF Unlink
    <2>2. dir' = dir \/ dir' = [dir EXCEPT ![Head(parts[d]).name] = NoFile]
      BY <1>1 DEF Unlink
    <2>3. DOMAIN dir = Names  BY DEF TypeInv, LockInv, Domains
    <2> QED  BY <2>1, <2>2, <2>3
  <1>2. CASE ~Unlink(d)
    BY <1>2 DEF DeleteStep, Select, Plan, Confirm, Scan, ReadAgain, CheckLock, RemoveLock,
       Rollup, fileVars
  <1> QED  BY <1>1, <1>2

\* A run that moves holds the lock
LEMMA MovesHolding == ASSUME NEW w \in Writers, RunStep(w) PROVE Holds(w)
  BY DEF RunStep, OpenLog, BeginWrite, WritePart, StatArchives, CloseActive, RemoveOldest,
     ShiftArchive, Reopen, EndRun, Holds, Holding

\* Where a unit of a file comes from: it was there, or the write of n units has added it
WasThere(f, i) ==
    f \in 1 .. Len(data) /\ i \in 1 .. Len(data[f]) /\ data'[f][i] = data[f][i]
IsNew(w, n, f, i) ==
    /\ f \in 1 .. Len(data) /\ f = fd[w]
    /\ \E k \in 1 .. n : i = Len(data[f]) + k /\ data'[f][i] = <<w, sent[w] + k>>

LEMMA UnitOrigin ==
  ASSUME TypeInv, NEW w \in Writers, NEW n \in Nat, Wrote(w, n),
         NEW f \in 1 .. Len(data'), NEW i \in 1 .. Len(data'[f])
  PROVE  WasThere(f, i) \/ IsNew(w, n, f, i)
  <1>0. FilesOK  BY DEF TypeInv, RunOK
  <1>1. f \in 1 .. Len(data) /\ Len(data[f]) \in Nat  BY <1>0 DEF Wrote, FilesOK
  <1>2. CASE f # fd[w]  BY <1>1, <1>2 DEF Wrote, WasThere
  <1>3. CASE f = fd[w] /\ i \in 1 .. Len(data[f])
    <2>1. fd[w] # NoFile  BY <1>1, <1>3, <1>0 DEF NoFile, FilesOK
    <2> QED  BY <1>1, <1>3, <2>1 DEF Wrote, WasThere
  <1>4. CASE f = fd[w] /\ i \notin 1 .. Len(data[f])
    <2>1. fd[w] # NoFile  BY <1>1, <1>4, <1>0 DEF NoFile, FilesOK
    <2>2. Len(data'[f]) = Len(data[f]) + n  BY <1>4, <2>1 DEF Wrote
    <2>3. PICK k \in 1 .. n : i = Len(data[f]) + k
      <3>1. i - Len(data[f]) \in 1 .. n /\ i = Len(data[f]) + (i - Len(data[f]))
        BY <1>1, <1>4, <2>2
      <3> QED  BY <3>1
    <2>4. data'[f][i] = <<w, sent[w] + k>>  BY <1>4, <2>1, <2>3 DEF Wrote
    <2> QED  BY <1>1, <1>4, <2>3, <2>4 DEF IsNew
  <1> QED  BY <1>2, <1>3, <1>4

\* A name leads to a file that is not new only if some name did before
LEMMA NamedBefore ==
  ASSUME TypeInv, [Next]_vars, NEW n \in Names, dir'[n] \in 1 .. Len(data)
  PROVE  \E m \in Names : dir[m] = dir'[n]
  <1>0. dir \in [Names -> 0 .. Len(data)] /\ Len(data) \in Nat /\ Keep \in Nat /\ 0 \in Names
    BY SizeAssumption DEF TypeInv, RunOK, FilesOK, Names
  <1>1. CASE UNCHANGED dir  BY <1>1
  <1>2. CASE Opened
    <2>1. dir'[n] = IF n = 0 THEN Len(data) + 1 ELSE dir[n]  BY <1>0, <1>2 DEF Opened
    <2>2. Len(data) + 1 \notin 1 .. Len(data)  BY <1>0
    <2> QED  BY <2>1, <2>2
  <1>3. ASSUME NEW k \in Names, Dropped(k) PROVE \E m \in Names : dir[m] = dir'[n]
    <2>1. dir'[n] \in {dir[n], NoFile}  BY <1>0, <1>3 DEF Dropped
    <2> QED  BY <2>1 DEF NoFile
  <1>4. ASSUME NEW k \in 0 .. Keep - 1, dir' = Renamed(dir, k, k + 1)
        PROVE  \E m \in Names : dir[m] = dir'[n]
    <2>1. k \in Names /\ k + 1 \in Names /\ k # k + 1  BY <1>0 DEF Names
    <2>2. /\ dir'[k] = NoFile /\ dir'[k + 1] = dir[k]
          /\ \A m \in Names : m # k /\ m # k + 1 => dir'[m] = dir[m]
      BY <1>0, <1>4, <2>1 DEF Renamed
    <2>3. CASE n = k  BY <2>2, <2>3 DEF NoFile
    <2>4. CASE n = k + 1  BY <2>1, <2>2, <2>4
    <2>5. CASE n # k /\ n # k + 1  BY <2>2, <2>5
    <2> QED  BY <2>3, <2>4, <2>5
  <1> QED  BY <1>1, <1>2, <1>3, <1>4, NextNames

LEMMA FileOf ==
  ASSUME FilesOK, NEW n \in Names, NEW i \in 1 .. Len(Content(n))
  PROVE  dir[n] \in 1 .. Len(data) /\ Content(n) = data[dir[n]]
  <1>1. CASE dir[n] = NoFile
    <2>1. Content(n) = <<>>  BY <1>1 DEF Content
    <2> QED  BY <2>1
  <1>2. CASE dir[n] # NoFile  BY <1>2 DEF Content, FilesOK, NoFile
  <1> QED  BY <1>1, <1>2

LEMMA FilesSame ==
  ASSUME UNCHANGED <<data, dir>>
  PROVE  \A n \in Names : Content(n)' = Content(n)
  BY DEF Content

\* A unit found at a name was found at a name before, in the same file, or is of a run
\* that has the log
Came(n, i) ==
    \E m \in Names : /\ dir[m] = dir'[n] /\ i \in 1 .. Len(Content(m))
                     /\ Content(m)[i] = Content(n)'[i]

LEMMA StoredBefore ==
  ASSUME TypeInv, TypeInv', [Next]_vars, NEW n \in Names, NEW i \in 1 .. Len(Content(n)')
  PROVE  Came(n, i) \/ Holds(Content(n)'[i][1])
  <1>0. FilesOK /\ FilesOK'  BY DEF TypeInv, RunOK
  <1>1. dir'[n] \in 1 .. Len(data') /\ Content(n)' = data'[dir'[n]]
    <2>1. CASE dir'[n] = NoFile
      <3>1. Content(n)' = <<>>  BY <2>1 DEF Content
      <3> QED  BY <3>1
    <2>2. CASE dir'[n] # NoFile
      <3>1. dir'[n] \in 0 .. Len(data')  BY <1>0 DEF FilesOK
      <3>2. Len(data') \in Nat  BY <1>0 DEF FilesOK
      <3>3. Content(n)' = data'[dir'[n]]  BY <2>2 DEF Content
      <3> QED  BY <2>2, <3>1, <3>2, <3>3 DEF NoFile
    <2> QED  BY <2>1, <2>2
  <1>2. ASSUME WasThere(dir'[n], i) PROVE Came(n, i)
    <2>1. PICK m \in Names : dir[m] = dir'[n]  BY <1>2, NamedBefore DEF WasThere
    <2>2. Content(m) = data[dir[m]]  BY <1>2, <2>1, <1>0 DEF Content, WasThere, NoFile, FilesOK
    <2>3. i \in 1 .. Len(Content(m)) /\ Content(m)[i] = Content(n)'[i]
      BY <1>1, <1>2, <2>1, <2>2 DEF WasThere
    <2> QED  BY <2>1, <2>3 DEF Came
  <1>3. CASE SameUnits
    <2>1. dir'[n] \in 1 .. Len(data)
      <3>1. CASE Len(data'[dir'[n]]) = 0  BY <1>1, <3>1
      <3> QED  BY <1>1, <1>3, <3>1 DEF SameUnits
    <2>2. data'[dir'[n]] = data[dir'[n]]  BY <1>3, <2>1 DEF SameUnits
    <2>3. WasThere(dir'[n], i)  BY <1>1, <2>1, <2>2 DEF WasThere
    <2> QED  BY <1>2, <2>3
  <1>4. ASSUME NEW w \in Writers, WritePart(w) PROVE Came(n, i) \/ Holds(Content(n)'[i][1])
    <2>1. PICK k \in Nat : Wrote(w, k)  BY <1>4, PartWritten
    <2>2. i \in 1 .. Len(data'[dir'[n]])  BY <1>1
    <2>3. WasThere(dir'[n], i) \/ IsNew(w, k, dir'[n], i)  BY <1>1, <2>1, <2>2, UnitOrigin
    <2>4. ASSUME IsNew(w, k, dir'[n], i) PROVE Holds(Content(n)'[i][1])
      <3>1. \E h : data'[dir'[n]][i] = <<w, h>>  BY <2>4 DEF IsNew
      <3>2. Content(n)'[i][1] = w  BY <1>1, <3>1
      <3>3. Holds(w)  BY <1>4 DEF WritePart, Holds, Holding
      <3> QED  BY <3>2, <3>3
    <2> QED  BY <1>2, <2>3, <2>4
  <1> QED  BY <1>3, <1>4, NextUnits

\* What a file holds stays there
Extended ==
    /\ Len(data') >= Len(data)
    /\ \A f \in 1 .. Len(data) :
         /\ Len(data'[f]) >= Len(data[f])
         /\ \A i \in 1 .. Len(data[f]) : data'[f][i] = data[f][i]

LEMMA NextExtends == ASSUME TypeInv, [Next]_vars PROVE Extended
  <1>0. FilesOK  BY DEF TypeInv, RunOK
  <1>1. Len(data) \in Nat /\ \A f \in 1 .. Len(data) : Len(data[f]) \in Nat
    BY <1>0 DEF FilesOK
  <1>2. CASE SameUnits
    <2>1. \A f \in 1 .. Len(data) : data'[f] = data[f]  BY <1>2 DEF SameUnits
    <2> QED  BY <1>1, <1>2, <2>1 DEF SameUnits, Extended
  <1>3. ASSUME NEW w \in Writers, WritePart(w) PROVE Extended
    <2>1. PICK n \in Nat : Wrote(w, n)  BY <1>3, PartWritten
    <2>2. ASSUME NEW f \in 1 .. Len(data)
          PROVE  /\ Len(data'[f]) >= Len(data[f])
                 /\ \A i \in 1 .. Len(data[f]) : data'[f][i] = data[f][i]
      <3>1. CASE f # fd[w]
        <4>1. data'[f] = data[f]  BY <2>1, <3>1 DEF Wrote
        <4> QED  BY <1>1, <4>1
      <3>2. CASE f = fd[w]
        <4>1. fd[w] # NoFile  BY <1>1, <3>2 DEF NoFile
        <4>2. Len(data'[f]) = Len(data[f]) + n  BY <2>1, <3>2, <4>1 DEF Wrote
        <4>3. \A i \in 1 .. Len(data[f]) : data'[f][i] = data[f][i]  BY <2>1, <3>2, <4>1 DEF Wrote
        <4>4. Len(data[f]) \in Nat  BY <1>1
        <4> QED  BY <4>2, <4>3, <4>4
      <3> QED  BY <3>1, <3>2
    <2>3. Len(data') >= Len(data)  BY <1>1, <2>1 DEF Wrote
    <2> QED  BY <2>2, <2>3 DEF Extended
  <1> QED  BY <1>2, <1>3, NextUnits

\* A reader of the scanned lengths sees the same, however the files have grown
LEMMA SubSeqSame ==
  ASSUME NEW T, NEW u \in Seq(T), NEW v \in Seq(T), NEW n \in Nat, n <= Len(u), n <= Len(v),
         \A k \in 1 .. n : u[k] = v[k]
  PROVE  SubSeq(u, 1, n) = SubSeq(v, 1, n)
  OBVIOUS

LEMMA UnitsSame ==
  ASSUME TypeInv, TypeInv', [Next]_vars, NEW d \in Deleters, parts'[d] = parts[d]
  PROVE  UnitsOf(parts[d])' = UnitsOf(parts[d])
  <1>0. FilesOK /\ FilesOK' /\ Extended  BY NextExtends DEF TypeInv, RunOK
  <1>1. PICK ps : ps = parts[d]  OBVIOUS
  <1>2. Readable(ps)  BY <1>1 DEF TypeInv, ScansOK
  <1>3. ASSUME NEW i \in 1 .. Len(ps)
        PROVE  SubSeq(data'[ps[i].file], 1, ps[i].length) = SubSeq(data[ps[i].file], 1, ps[i].length)
    <2>0. ps[i] \in Part /\ ps[i].file \in 1 .. Len(data) /\ ps[i].length <= Len(data[ps[i].file])
      BY <1>2 DEF Readable
    <2>1. PICK f \in 1 .. Len(data), n \in Nat : f = ps[i].file /\ n = ps[i].length /\ n <= Len(data[f])
      BY <2>0 DEF Part
    <2>2. Len(data) \in Nat /\ Len(data') \in Nat /\ Len(data') >= Len(data)
      BY <1>0 DEF FilesOK, Extended
    <2>3. f \in 1 .. Len(data')  BY <2>2
    <2>4. PICK u \in Seq(Unit) : u = data[f]  BY <1>0 DEF FilesOK
    <2>5. PICK v \in Seq(Unit) : v = data'[f]
      <3>1. data' \in Seq(Seq(Unit))  BY <1>0 DEF FilesOK, Unit
      <3> QED  BY <2>3, <3>1
    <2>6. Len(v) >= Len(u) /\ \A k \in 1 .. Len(u) : v[k] = u[k]
      BY <1>0, <2>4, <2>5 DEF Extended
    <2>7. n <= Len(v) /\ \A k \in 1 .. n : v[k] = u[k]  BY <2>1, <2>4, <2>5, <2>6
    <2>8. SubSeq(v, 1, n) = SubSeq(u, 1, n)  BY <2>1, <2>4, <2>7, SubSeqSame
    <2> QED  BY <2>1, <2>4, <2>5, <2>8
  <1>4. [i \in 1 .. Len(ps) |-> SubSeq(data'[ps[i].file], 1, ps[i].length)]
        = [i \in 1 .. Len(ps) |-> SubSeq(data[ps[i].file], 1, ps[i].length)]
    BY <1>3
  <1>5. UnitsOf(parts[d])' = Flat([i \in 1 .. Len(ps) |-> SubSeq(data'[ps[i].file], 1, ps[i].length)])
    BY <1>1 DEF UnitsOf
  <1>6. UnitsOf(parts[d]) = Flat([i \in 1 .. Len(ps) |-> SubSeq(data[ps[i].file], 1, ps[i].length)])
    BY <1>1 DEF UnitsOf
  <1> QED  BY <1>4, <1>5, <1>6

\* What the comparison finds the same it has read; the rest it has overlooked
LEMMA ComparisonKnows ==
  ASSUME TypeInv, NEW d \in Deleters, Unchanged(parts[d]),
         NEW n \in Names, NEW i \in 1 .. Len(Content(n))
  PROVE  Content(n)[i][1] \in Overlooked(d) \cup Readers(parts[d])
  <1>0. FilesOK /\ Readable(parts[d])  BY DEF TypeInv, RunOK, ScansOK
  <1>1. PICK ps : ps = parts[d]  OBVIOUS
  <1>2. dir[n] \in 1 .. Len(data) /\ Content(n) = data[dir[n]]  BY <1>0, FileOf
  <1>w. Content(n)[i][1] \in Writers
    <2>1. Content(n) \in Seq(Unit)  BY <1>0, ContentType
    <2>2. Content(n)[i] \in Unit  BY <2>1
    <2> QED  BY <2>2 DEF Unit
  <1>3. CASE \A k \in 1 .. Len(ps) : ps[k].name # n
    <2>1. \E k \in 1 .. Len(Content(n)) : Content(n)[k][1] = Content(n)[i][1]  OBVIOUS
    <2> QED  BY <1>1, <1>3, <1>w, <2>1 DEF Overlooked
  <1>4. ASSUME NEW k \in 1 .. Len(ps), ps[k].name = n
        PROVE  Content(n)[i][1] \in Overlooked(d) \cup Readers(ps)
    <2>1. /\ ps[k] \in Part /\ ps[k].file = dir[n]
          /\ n # 0 => Len(data[dir[n]]) = ps[k].length
      BY <1>0, <1>1, <1>4 DEF Unchanged, Readable
    <2>2. ps[k].length \in Nat  BY <2>1 DEF Part
    <2>3. CASE i <= ps[k].length
      <3>1. i \in 1 .. ps[k].length  BY <2>2, <2>3
      <3>2. PICK row, col : UnitsAs(ps, row, col)  BY <1>0, <1>1, UnitsLaid
      <3>3. PICK j \in 1 .. Len(UnitsOf(ps)) : row[j] = k /\ col[j] = i
        BY <3>1, <3>2 DEF UnitsAs
      <3>4. UnitsOf(ps)[j] = Content(n)[i]  BY <1>2, <2>1, <3>2, <3>3 DEF UnitsAs
      <3> QED  BY <3>4 DEF Readers
    <2>4. CASE ~(i <= ps[k].length)
      <3>1. Len(data[dir[n]]) \in Nat  BY <1>0, <1>2 DEF FilesOK
      <3>2. n = 0  BY <1>2, <2>1, <2>4, <3>1
      <3>3. i \in ps[k].length + 1 .. Len(data[ps[k].file])  BY <1>2, <2>1, <2>2, <2>4, <3>1
      <3>4. data[ps[k].file][i][1] = Content(n)[i][1]  BY <1>2, <2>1
      <3> QED  BY <1>1, <1>4, <1>w, <3>2, <3>3, <3>4 DEF Overlooked
    <2> QED  BY <2>3, <2>4
  <1> QED  BY <1>1, <1>3, <1>4

LEMMA NextWindow == ASSUME TypeInv, TypeInv', WindowInv, [Next]_vars PROVE WindowInv'
  <1>q. QuietWindow'  BY NextQuiet DEF WindowInv
  <1>s. SUFFICES ASSUME NEW d \in Deleters, pc'[d] = "check" PROVE Compared(d)'
    BY <1>q DEF WindowInv, Agreed
  <1>d. d \in Procs /\ Domains /\ FilesOK /\ DeletionsOK  BY DEF Procs, TypeInv, LockInv, RunOK
  <1>k. ASSUME pc[d] = "check", parts'[d] = parts[d], targets'[d] = targets[d],
               late[d] \subseteq late'[d],
               \A w \in Writers : Holds(w)' => Holds(w) \/ w \in late'[d]
        PROVE  Compared(d)'
    <2>1. Compared(d)  BY <1>k DEF WindowInv, Agreed
    <2>2. UnitsOf(parts[d])' = UnitsOf(parts[d])  BY <1>k, UnitsSame
    <2>3. Rows(parts[d])' = Rows(parts[d]) /\ Readers(parts[d])' = Readers(parts[d])
      BY <2>2 DEF Rows, Readers
    <2>4. \A w \in Writers : Holds(w)' => w \in late'[d]  BY <1>k, <2>1 DEF Compared, Known
    <2>5. ASSUME NEW n \in Names, NEW i \in 1 .. Len(Content(n)')
          PROVE  Content(n)'[i][1] \in late'[d] \cup Readers(parts[d])'
      <3>1. CASE Came(n, i)
        <4>1. PICK m \in Names : i \in 1 .. Len(Content(m)) /\ Content(m)[i] = Content(n)'[i]
          BY <3>1 DEF Came
        <4>2. Content(m)[i][1] \in late[d] \cup Readers(parts[d])
          BY <2>1, <4>1 DEF Compared, Known
        <4> QED  BY <4>1, <4>2, <2>3, <1>k
      <3>2. CASE Holds(Content(n)'[i][1])
        <4>1. Content(n)'[i][1] \in late[d]  BY <2>1, <3>2 DEF Compared, Known, Holds
        <4> QED  BY <4>1, <1>k
      <3> QED  BY <3>1, <3>2, StoredBefore
    <2>6. Known(d)'  BY <2>4, <2>5 DEF Known
    <2> QED  BY <2>1, <2>3, <2>6, <1>k DEF Compared
  <1>1. ASSUME NEW w \in Writers, OpenLock(w) \/ Interrupt(w) \/ RunStep(w) PROVE Compared(d)'
    <2>1. \A v \in Writers : Holds(v)' => Holds(v)  BY <1>1, RunStepFrame DEF Holds
    <2> QED  BY <1>1, <1>s, <2>1, <1>k, RunStepFrame
  <1>2. ASSUME NEW w \in Writers, Lock(w) PROVE Compared(d)'
    <2>1. pc[d] = "check" /\ late'[d] = late[d] \cup {w}  BY <1>2, <1>s, LockFrame
    <2>2. \A v \in Writers : Holds(v)' => Holds(v) \/ v = w  BY <1>2, LockFrame DEF Holds
    <2> QED  BY <1>2, <2>1, <2>2, <1>k, LockFrame
  <1>3. ASSUME NEW e \in Deleters, DeleteStep(e), e # d PROVE Compared(d)'
    <2>1. \A v \in Writers : Holds(v)' => Holds(v)  BY <1>3, DeleteStepFrame DEF Holds
    <2> QED  BY <1>3, <1>s, <2>1, <1>k, DeleteStepFrame
  <1>4. ASSUME DeleteStep(d) PROVE Compared(d)'
    <2>1. ReadAgain(d)
      <3>1. CASE Unlink(d)
        <4>1. pc[d] = "unlink"  BY <3>1 DEF Unlink
        <4>2. UNCHANGED pc \/ \E l \in {"rmLock", "idle"} : Goto(d, l)
          BY <3>1 DEF Unlink, AfterUnlink
        <4> QED  BY <4>1, <4>2, <1>d, <1>s, Moved
      <3>2. CASE ~Unlink(d) /\ ~ReadAgain(d)
        <4>1. \E l \in {"plan", "idle", "confirm", "scan", "read", "unlink", "rollup"} : Goto(d, l)
          BY <1>4, <3>2 DEF DeleteStep, Select, Plan, Confirm, Scan, CheckLock, RemoveLock, Rollup
        <4> QED  BY <4>1, <1>d, <1>s, Moved
      <3> QED  BY <3>1, <3>2
    <2>2. UNCHANGED <<data, dir, parts, targets>> /\ late' = [late EXCEPT ![d] = Overlooked(d)]
      BY <2>1 DEF ReadAgain, fileVars
    <2>3. late'[d] = Overlooked(d)  BY <2>2, <1>d DEF DeletionsOK
    <2>4. Unchanged(parts[d]) /\ Covers(d, Rows(parts[d]))
      <3> SUFFICES ASSUME ~(Unchanged(parts[d]) /\ Covers(d, Rows(parts[d]))) PROVE FALSE  OBVIOUS
      <3>1. Goto(d, "idle")  BY <2>1 DEF ReadAgain
      <3> QED  BY <3>1, <1>d, <1>s, Moved
    <2>5. UnitsOf(parts[d])' = UnitsOf(parts[d])  BY <2>2 DEF UnitsOf
    <2>6. Rows(parts[d])' = Rows(parts[d]) /\ Readers(parts[d])' = Readers(parts[d])
      BY <2>5 DEF Rows, Readers
    <2>7. \A w \in Writers : Holds(w)' => w \in late'[d]
      <3>1. \A w \in Writers : Holds(w)' => Holds(w)  BY <1>4, DeleteStepFrame DEF Holds
      <3> QED  BY <2>3, <3>1 DEF Overlooked
    <2>8. \A n \in Names : Content(n)' = Content(n)  BY <2>2, FilesSame
    <2>9. ASSUME NEW n \in Names, NEW i \in 1 .. Len(Content(n)')
          PROVE  Content(n)'[i][1] \in late'[d] \cup Readers(parts[d])'
      BY <2>3, <2>4, <2>6, <2>8, ComparisonKnows
    <2>10. Known(d)'  BY <2>7, <2>9 DEF Known
    <2> QED  BY <2>2, <2>4, <2>6, <2>10 DEF Compared, Covers
  <1>5. ASSUME NEW p \in Procs, Kill(p) PROVE Compared(d)'
    <2>1. p # d  BY <1>5, <1>s, ProcessAssumption, KillFrame
    <2>2. \A v \in Writers : Holds(v)' => Holds(v)  BY <1>5, KillFrame DEF Holds, Holding, Procs
    <2> QED  BY <1>5, <1>s, <1>d, <2>1, <2>2, <1>k, KillFrame
  <1>6. CASE UNCHANGED vars
    <2>1. UNCHANGED <<pc, parts, targets, late>>  BY <1>6 DEF vars, delVars, ghosts
    <2> QED  BY <2>1, <1>s, <1>k DEF Holds
  <1> QED  BY <1>1, <1>2, <1>3, <1>4, <1>5, <1>6 DEF Next

\* What is there when a deletion finds the lock free is in its rows, has no row at all,
\* or was overlooked
LEMMA CheckDooms ==
  ASSUME TypeInv, WindowInv, NEW d \in Deleters, CheckLock(d), pc'[d] = "unlink",
         NEW n \in Names, NEW i \in 1 .. Len(Content(n))
  PROVE  Content(n)[i][1] \in doomed'
  <1>0. d \in Procs /\ Domains  BY DEF Procs, TypeInv, LockInv
  <1>1. Compared(d)  BY DEF CheckLock, WindowInv, Agreed
  <1>2. ~LogFileLocked  BY <1>0, Moved DEF CheckLock
  <1>3. Doom(d)  BY <1>2 DEF CheckLock
  <1>4. CASE Content(n)[i][1] \in late[d]  BY <1>3, <1>4 DEF Doom
  <1>5. CASE Content(n)[i][1] \in Readers(parts[d])
    <2>1. PICK j \in 1 .. Len(UnitsOf(parts[d])) : UnitsOf(parts[d])[j][1] = Content(n)[i][1]
      BY <1>5 DEF Readers
    <2>2. CASE UnitsOf(parts[d])[j][1] \in {r[1] : r \in Rows(parts[d])}
      BY <1>1, <1>3, <2>1, <2>2 DEF Doom, Compared
    <2>3. CASE UnitsOf(parts[d])[j][1] \notin {r[1] : r \in Rows(parts[d])}
      BY <1>3, <2>1, <2>3 DEF Doom, Headless
    <2> QED  BY <2>2, <2>3
  <1> QED  BY <1>1, <1>4, <1>5 DEF Compared, Known

\* Contents may be lost, but are not otherwise changed
LEMMA Shrunk ==
  ASSUME UNCHANGED data, NEW n \in Names, dir'[n] \in {dir[n], NoFile}
  PROVE  Content(n)' = Content(n) \/ Content(n)' = <<>>
  BY DEF Content

LEMMA NextAllDoomed ==
  ASSUME TypeInv, WindowInv, AllDoomed, [Next]_vars, ~raced' PROVE AllDoomed'
  <1>r. ~raced  BY RacedStays
  <1>q. QuietWindow  BY DEF WindowInv
  <1> SUFFICES ASSUME NEW d \in Deleters, pc'[d] = "unlink",
                      NEW n \in Names, NEW i \in 1 .. Len(Content(n)')
               PROVE  Content(n)'[i][1] \in doomed'
    BY DEF AllDoomed, NotDoomed
  <1>k. ASSUME pc[d] = "unlink", UNCHANGED data, dir'[n] \in {dir[n], NoFile}, doomed \subseteq doomed'
        PROVE  Content(n)'[i][1] \in doomed'
    <2>1. Content(n)' = Content(n) \/ Content(n)' = <<>>  BY <1>k, Shrunk
    <2>2. CASE Content(n)' = <<>>  BY <2>2
    <2>3. CASE Content(n)' = Content(n)  BY <2>3, <1>k DEF AllDoomed, NotDoomed
    <2> QED  BY <2>1, <2>2, <2>3
  <1>1. CASE \E w \in Writers : RunStep(w)
    <2>1. PICK w \in Writers : RunStep(w)  BY <1>1
    <2>2. pc[d] = "unlink"  BY <2>1, RunStepFrame
    <2> QED  BY <2>1, <2>2, <1>q, <1>r, MovesHolding DEF QuietWindow, Removing
  <1>2. CASE \E w \in Writers : OpenLock(w) \/ Interrupt(w)
    <2>1. PICK w \in Writers : OpenLock(w) \/ Interrupt(w)  BY <1>2
    <2>2. UNCHANGED <<data, dir>>  BY <2>1 DEF OpenLock, Interrupt, fileVars
    <2> QED  BY <2>1, <2>2, <1>k, RunStepFrame
  <1>3. CASE \E w \in Writers : Lock(w)  BY <1>3, LockFrame DEF Removing
  <1>4. CASE \E e \in Deleters : DeleteStep(e)
    <2>1. PICK e \in Deleters : DeleteStep(e)  BY <1>4
    <2>2. CASE pc[d] = "unlink"  BY <2>1, <2>2, <1>k, DeleteStepFrame, DeleteNames
    <2>3. CASE pc[d] # "unlink"
      <3>1. e = d  BY <2>1, <2>3, DeleteStepFrame
      <3>2. d \in Procs /\ Domains  BY DEF Procs, TypeInv, LockInv
      <3>3. CheckLock(d)
        <4>1. CASE Unlink(d)  BY <4>1, <2>3 DEF Unlink
        <4>2. CASE ~Unlink(d) /\ ~CheckLock(d)
          <5>1. \E l \in {"plan", "idle", "confirm", "scan", "read", "check", "rollup"} : Goto(d, l)
            BY <2>1, <3>1, <4>2 DEF DeleteStep, Select, Plan, Confirm, Scan, ReadAgain, RemoveLock,
               Rollup
          <5> QED  BY <5>1, <3>2, Moved
        <4> QED  BY <4>1, <4>2
      <3>4. Content(n)' = Content(n)  BY <3>3 DEF CheckLock, fileVars, Content
      <3> QED  BY <3>3, <3>4, CheckDooms
    <2> QED  BY <2>2, <2>3
  <1>5. CASE \E p \in Procs : Kill(p)
    <2>1. PICK p \in Procs : Kill(p)  BY <1>5
    <2>2. d \in Procs /\ pc'[d] \notin {"done", "idle"}  BY DEF Procs
    <2>3. p # d  BY <2>1, <2>2, KillFrame
    <2> QED  BY <2>1, <2>2, <2>3, <1>k, KillFrame
  <1>6. CASE UNCHANGED vars  BY <1>6, <1>k DEF vars, delVars, fileVars, ghosts
  <1> QED  BY <1>1, <1>2, <1>3, <1>4, <1>5, <1>6 DEF Next

OpenFor(w) ==
    /\ pc[w] = "run" => fd[w] \in {NoFile, dir[0]}
    /\ pc[w] \in {"part", "stat", "close"} => fd[w] = dir[0] /\ fd[w] # NoFile
    /\ pc[w] \in {"remove", "shift", "reopen"} => fd[w] = NoFile

LEMMA RunStepOpen ==
  ASSUME TypeInv, NEW w \in Writers, RunStep(w), OpenFor(w)
  PROVE  OpenFor(w)'
  <1>0. Domains /\ w \in Procs /\ FilesOK  BY DEF TypeInv, LockInv, Procs, RunOK
  <1>1. CASE OpenLog(w)
    <2>1. CASE OpenActive(w) /\ Goto(w, "run")
      <3>1. UNCHANGED written  BY <1>1 DEF OpenLog, ghosts
      <3>2. pc'[w] = "run" /\ fd'[w] = dir'[0]  BY <2>1, <3>1, <1>0, Moved, OpenActiveFiles
      <3> QED  BY <3>2 DEF OpenFor
    <2>2. CASE Goto(w, "done")
      <3>1. pc'[w] = "done"  BY <2>2, <1>0, Moved
      <3> QED  BY <3>1 DEF OpenFor
    <2> QED  BY <1>1, <2>1, <2>2 DEF OpenLog
  <1>2. CASE BeginWrite(w)
    <2>1. \E l \in {"stat", "part"} : Goto(w, l)  BY <1>2 DEF BeginWrite
    <2>2. pc'[w] \in {"stat", "part"}  BY <2>1, <1>0, Moved
    <2> QED  BY <2>2, <1>2 DEF BeginWrite, OpenFor, fileVars
  <1>3. CASE WritePart(w)
    <2>1. \E l \in {"run", "stat"} : Goto(w, l)  BY <1>3 DEF WritePart, GiveUp
    <2>2. pc'[w] \in {"run", "stat"}  BY <2>1, <1>0, Moved
    <2> QED  BY <2>2, <1>3 DEF WritePart, OpenFor
  <1>4. CASE StatArchives(w)
    <2>1. \E l \in {"run", "close"} : Goto(w, l)  BY <1>4 DEF StatArchives, GiveUp
    <2>2. pc'[w] \in {"run", "close"}  BY <2>1, <1>0, Moved
    <2> QED  BY <2>2, <1>4 DEF StatArchives, OpenFor, fileVars
  <1>5. CASE CloseActive(w)
    <2>1. UNCHANGED dir /\ pc[w] = "close"  BY <1>5 DEF CloseActive, fileVars
    <2>2. CASE fd' = [fd EXCEPT ![w] = NoFile]
      <3>1. fd'[w] = NoFile  BY <2>2, <1>0 DEF FilesOK
      <3>2. \E l \in {"run", "remove"} : Goto(w, l)  BY <1>5 DEF CloseActive, GiveUp
      <3>3. pc'[w] \in {"run", "remove"}  BY <3>2, <1>0, Moved
      <3> QED  BY <3>1, <3>3 DEF OpenFor
    <2>3. CASE GiveUp(w) /\ UNCHANGED fd
      <3>1. pc'[w] = "run"  BY <2>3, <1>0, Moved DEF GiveUp
      <3> QED  BY <3>1, <2>1, <2>3 DEF OpenFor
    <2> QED  BY <1>5, <2>2, <2>3 DEF CloseActive
  <1>6. CASE RemoveOldest(w)
    <2>1. \E l \in {"run", "shift"} : Goto(w, l)  BY <1>6 DEF RemoveOldest, GiveUp
    <2>2. pc'[w] \in {"run", "shift"}  BY <2>1, <1>0, Moved
    <2> QED  BY <2>2, <1>6 DEF RemoveOldest, OpenFor
  <1>7. CASE ShiftArchive(w)
    <2>1. UNCHANGED pc \/ \E l \in {"run", "reopen"} : Goto(w, l)
      BY <1>7 DEF ShiftArchive, GiveUp
    <2>2. pc'[w] \in {"run", "shift", "reopen"}  BY <1>7, <2>1, <1>0, Moved DEF ShiftArchive
    <2> QED  BY <2>2, <1>7 DEF ShiftArchive, OpenFor
  <1>8. CASE Reopen(w)
    <2>1. \E l \in {"run", "part"} : Goto(w, l)  BY <1>8 DEF Reopen, GiveUp
    <2>2. pc'[w] \in {"run", "part"}  BY <2>1, <1>0, Moved
    <2>3. CASE OpenActive(w)
      <3>1. UNCHANGED written  BY <1>8 DEF Reopen, ghosts
      <3>2. fd'[w] = dir'[0] /\ fd'[w] # NoFile
        <4>1. /\ dir'[0] \in 1 .. Len(data') /\ fd'[w] = dir'[0]
              /\ FilesOK'
          BY <2>3, <3>1, <1>0, OpenActiveFiles
        <4> QED  BY <4>1 DEF NoFile
      <3> QED  BY <2>2, <3>2 DEF OpenFor
    <2>4. CASE GiveUp(w) /\ UNCHANGED <<fileVars, fd>>
      <3>1. pc'[w] = "run"  BY <2>4, <1>0, Moved DEF GiveUp
      <3> QED  BY <3>1, <2>4, <1>8 DEF Reopen, OpenFor
    <2> QED  BY <1>8, <2>3, <2>4 DEF Reopen
  <1>9. CASE EndRun(w)
    <2>1. pc'[w] = "done"  BY <1>9, <1>0, Moved DEF EndRun
    <2> QED  BY <2>1 DEF OpenFor
  <1> QED  BY <1>1, <1>2, <1>3, <1>4, <1>5, <1>6, <1>7, <1>8, <1>9 DEF RunStep

LEMMA NextOpenIsLog ==
  ASSUME TypeInv, QuietWindow, OpenIsLog, [Next]_vars, ~raced' PROVE OpenIsLog'
  <1>r. ~raced  BY RacedStays
  <1>0. Domains  BY DEF TypeInv, LockInv
  <1>i. \A v \in Writers : OpenFor(v)  BY DEF OpenIsLog, OpenFor
  <1> SUFFICES ASSUME NEW v \in Writers PROVE OpenFor(v)'  BY DEF OpenIsLog, OpenFor
  <1>v. v \in Procs  BY DEF Procs
  <1>k. ASSUME pc'[v] = pc[v], fd'[v] = fd[v], UNCHANGED dir PROVE OpenFor(v)'
    BY <1>i, <1>k DEF OpenFor
  <1>n. ASSUME pc'[v] \notin Holding \/ pc'[v] = "open" PROVE OpenFor(v)'
    BY <1>n DEF OpenFor, Holding
  <1>1. ASSUME NEW w \in Writers, RunStep(w) PROVE OpenFor(v)'
    <2>1. CASE v = w  BY <1>1, <2>1, <1>i, RunStepOpen
    <2>2. CASE v # w
      <3>1. pc[v] \notin Holding
        <4>1. LockExcludes  BY <1>r, Excluded DEF TypeInv, LockExcludesUnlessRaced
        <4> QED  BY <4>1, <1>1, <2>2, MovesHolding DEF LockExcludes, Holds
      <3> QED  BY <1>1, <2>2, <3>1, <1>n, RunStepFrame
    <2> QED  BY <2>1, <2>2
  <1>2. ASSUME NEW w \in Writers, OpenLock(w) \/ Lock(w) \/ Interrupt(w) PROVE OpenFor(v)'
    <2>1. UNCHANGED <<dir, fd>>  BY <1>2 DEF OpenLock, Lock, Interrupt, fileVars, runVars
    <2>2. \E l \in {"lock", "open", "done"} : Goto(w, l)  BY <1>2 DEF OpenLock, Lock, Interrupt
    <2>3. w \in Procs  BY DEF Procs
    <2>4. CASE v = w
      <3>1. pc'[v] \in {"lock", "open", "done"}  BY <2>2, <2>3, <2>4, <1>0, Moved
      <3> QED  BY <3>1, <1>n DEF Holding
    <2>5. CASE v # w  BY <2>1, <2>2, <2>3, <2>5, <1>0, <1>v, <1>k, Moved
    <2> QED  BY <2>4, <2>5
  <1>3. ASSUME NEW d \in Deleters, DeleteStep(d) PROVE OpenFor(v)'
    <2>1. pc'[v] = pc[v] /\ fd'[v] = fd[v]  BY <1>3, DeleteStepFrame
    <2>2. CASE pc[d] = "unlink"
      <3>1. ~Holds(v)  BY <1>r, <2>2 DEF QuietWindow, Removing
      <3> QED  BY <2>1, <3>1, <1>n DEF Holds
    <2>3. CASE UNCHANGED dir  BY <2>1, <2>3, <1>k
    <2> QED  BY <1>3, <2>2, <2>3, DeleteNames
  <1>4. ASSUME NEW p \in Procs, Kill(p) PROVE OpenFor(v)'
    <2>1. CASE p = v  BY <1>4, <2>1, <1>n, KillFrame DEF Holding
    <2>2. CASE p # v  BY <1>4, <2>2, <1>k, <1>v, KillFrame
    <2> QED  BY <2>1, <2>2
  <1>5. CASE UNCHANGED vars  BY <1>5, <1>k DEF vars, fileVars, runVars
  <1> QED  BY <1>1, <1>2, <1>3, <1>4, <1>5 DEF Next

\* The files keep their order when each of them is emptied, or comes from a name g,
\* and no two of them pass each other
LEMMA OrderKept ==
  ASSUME InOrder, UNCHANGED written, NEW g,
         \A n \in Names : \/ Len(Content(n)') = 0
                          \/ g[n] \in Names /\ Content(n)' = Content(g[n]),
         \A m, n \in Names : m > n /\ Len(Content(m)') # 0 /\ Len(Content(n)') # 0 => g[m] > g[n]
  PROVE  InOrder'
  <1> SUFFICES ASSUME NEW m \in Names, NEW n \in Names,
                      NEW i \in 1 .. Len(Content(m)'), NEW j \in 1 .. Len(Content(n)'),
                      NEW p \in 1 .. Len(written), NEW q \in 1 .. Len(written),
                      written[p] = Content(m)'[i], written[q] = Content(n)'[j], Earlier(m, i, n, j)
               PROVE  p < q
    BY DEF InOrder
  <1>1. Len(Content(m)') # 0 /\ Len(Content(n)') # 0
    <2>1. CASE Len(Content(m)') = 0  BY <2>1
    <2>2. CASE Len(Content(n)') = 0  BY <2>2
    <2> QED  BY <2>1, <2>2
  <1>2. /\ g[m] \in Names /\ Content(m)' = Content(g[m])
        /\ g[n] \in Names /\ Content(n)' = Content(g[n])
    BY <1>1
  <1>3. Earlier(g[m], i, g[n], j)  BY <1>1 DEF Earlier
  <1>4. i \in 1 .. Len(Content(g[m])) /\ j \in 1 .. Len(Content(g[n]))  BY <1>2
  <1>5. written[p] = Content(g[m])[i] /\ written[q] = Content(g[n])[j]  BY <1>2
  <1> QED  BY <1>2, <1>3, <1>4, <1>5, Zenon DEF InOrder

\* Nothing is missing when nothing is lost, whatever else is doomed
LEMMA GapKept ==
  ASSUME NoGap, UNCHANGED written, doomed \subseteq doomed', \A u : Stored(u)' <=> Stored(u)
  PROVE  NoGap'
  BY DEF NoGap, NotDoomed

Order == InOrder /\ NoGap

LEMMA SameContent ==
  ASSUME Order, UNCHANGED written, doomed \subseteq doomed',
         \A n \in Names : \/ Content(n)' = Content(n)
                          \/ Len(Content(n)) = 0 /\ Len(Content(n)') = 0
  PROVE  Order'
  <1>1. InOrder'
    <2> DEFINE g == [n \in Names |-> n]
    <2>1. \A n \in Names : g[n] = n  OBVIOUS
    <2> HIDE DEF g
    <2> QED  BY <2>1, OrderKept DEF Order
  <1>2. ASSUME NEW u PROVE Stored(u)' <=> Stored(u)
    <2>1. ASSUME NEW n \in Names
          PROVE  (\E i \in 1 .. Len(Content(n)') : Content(n)'[i] = u)
                 <=> (\E i \in 1 .. Len(Content(n)) : Content(n)[i] = u)
      <3>1. CASE Content(n)' = Content(n)  BY <3>1
      <3>2. CASE Len(Content(n)) = 0 /\ Len(Content(n)') = 0  BY <3>2
      <3> QED  BY <3>1, <3>2
    <2> QED  BY <2>1 DEF Stored
  <1> QED  BY <1>1, <1>2, GapKept DEF Order

\* A step that leaves the names as they are, or creates the log
LEMMA NamesSame ==
  ASSUME FilesOK, SameUnits,
         \/ UNCHANGED dir
         \/ Opened /\ Len(data') = Len(data) + 1,
         NEW n \in Names
  PROVE  \/ Content(n)' = Content(n)
         \/ Len(Content(n)) = 0 /\ Len(Content(n)') = 0
  <1>0. dir[n] \in 0 .. Len(data) /\ Len(data) \in Nat /\ DOMAIN dir = Names  BY DEF FilesOK
  <1>1. CASE dir'[n] = dir[n]
    <2>1. CASE dir[n] = NoFile  BY <1>1, <2>1 DEF Content
    <2>2. CASE dir[n] # NoFile
      <3>1. dir[n] \in 1 .. Len(data)  BY <1>0, <2>2 DEF NoFile
      <3>2. data'[dir[n]] = data[dir[n]]  BY <3>1 DEF SameUnits
      <3> QED  BY <1>1, <3>2 DEF Content
    <2> QED  BY <2>1, <2>2
  <1>2. CASE dir'[n] # dir[n]
    <2>1. Opened /\ n = 0 /\ Len(data') = Len(data) + 1  BY <1>0, <1>2 DEF Opened
    <2>2. dir[n] = NoFile /\ dir'[n] = Len(data) + 1  BY <2>1, <1>0 DEF Opened
    <2>3. Len(Content(n)) = 0
      <3>1. Content(n) = <<>>  BY <2>2 DEF Content
      <3> QED  BY <3>1
    <2>4. Len(data) + 1 \in 1 .. Len(data') /\ Len(data) + 1 \notin 1 .. Len(data)
          /\ Len(data) + 1 # 0
      BY <2>1, <1>0
    <2>5. Len(data'[Len(data) + 1]) = 0  BY <2>4 DEF SameUnits
    <2>6. Content(n)' = data'[Len(data) + 1]  BY <2>2, <2>4 DEF Content, NoFile
    <2> QED  BY <2>3, <2>5, <2>6
  <1> QED  BY <1>1, <1>2

LEMMA OpenedSame ==
  ASSUME TypeInv, NEW w \in Writers, OpenActive(w), UNCHANGED <<written, sent>>
  PROVE  \A n \in Names : \/ Content(n)' = Content(n)
                          \/ Len(Content(n)) = 0 /\ Len(Content(n)') = 0
  <1>1. FilesOK  BY DEF TypeInv, RunOK
  <1>2. SameUnits  BY <1>1, SameWhenOpened
  <1>3. UNCHANGED dir \/ (Opened /\ Len(data') = Len(data) + 1)
    <2>1. CASE dir[0] = NoFile
      <3>1. Opened /\ data' = Append(data, <<>>)  BY <2>1 DEF OpenActive, Opened
      <3>2. <<>> \in Seq(Unit)  OBVIOUS
      <3>3. Len(data') = Len(data) + 1  BY <3>1, <3>2, <1>1, AppendProperties DEF FilesOK
      <3> QED  BY <3>1, <3>3
    <2>2. CASE dir[0] # NoFile  BY <2>2 DEF OpenActive
    <2> QED  BY <2>1, <2>2
  <1> QED  BY <1>1, <1>2, <1>3, NamesSame

\* The oldest archive holds what was written before everything else that is there
LEMMA OldestDropped ==
  ASSUME TypeInv, PlaceInv, Order, UNCHANGED <<data, written, doomed>>, Dropped(Keep)
  PROVE  Order'
  <1>0. Keep \in Names /\ DOMAIN dir = Names /\ Len(written) \in Nat
    BY SizeAssumption DEF Names, TypeInv, LockInv, Domains, RunOK, FilesOK
  <1>1. Content(Keep)' = <<>> /\ \A n \in Names : n # Keep => Content(n)' = Content(n)
    BY <1>0 DEF Dropped, Content
  <1>2. InOrder'
    <2> DEFINE g == [n \in Names |-> n]
    <2>1. \A n \in Names : g[n] = n  OBVIOUS
    <2>2. Len(Content(Keep)') = 0  BY <1>1
    <2> HIDE DEF g
    <2> QED  BY <2>1, <2>2, <1>1, OrderKept DEF Order
  <1>3. NoGap'
    <2> SUFFICES ASSUME NEW p \in 1 .. Len(written), NEW q \in 1 .. Len(written),
                        p < q, NotDoomed(written[p]), Stored(written[p])'
                 PROVE  Stored(written[q])'
      BY DEF NoGap, NotDoomed
    <2>1. PICK n \in Names : \E i \in 1 .. Len(Content(n)') : Content(n)'[i] = written[p]
      BY DEF Stored
    <2>2. PICK i \in 1 .. Len(Content(n)') : Content(n)'[i] = written[p]  BY <2>1
    <2>3. n # Keep
      <3> SUFFICES ASSUME n = Keep PROVE FALSE  OBVIOUS
      <3>1. Len(Content(n)') = 0  BY <1>1
      <3> QED  BY <3>1
    <2>4. i \in 1 .. Len(Content(n)) /\ Content(n)[i] = written[p]  BY <2>2, <2>3, <1>1
    <2>5. Stored(written[q])  BY <2>4 DEF Stored, Order, NoGap
    <2>6. PICK m \in Names : \E j \in 1 .. Len(Content(m)) : Content(m)[j] = written[q]
      BY <2>5 DEF Stored
    <2>7. PICK j \in 1 .. Len(Content(m)) : Content(m)[j] = written[q]  BY <2>6
    <2>8. m # Keep
      <3> SUFFICES ASSUME m = Keep PROVE FALSE  OBVIOUS
      <3>1. Earlier(m, j, n, i)  BY <2>3, SizeAssumption DEF Earlier, Names
      <3>2. InOrder  BY DEF Order
      <3>3. q < p  BY <2>4, <2>7, <3>1, <3>2, Zenon DEF InOrder
      <3> QED  BY <3>3, <1>0
    <2>9. Content(m)' = Content(m)  BY <2>8, <1>1
    <2> QED  BY <2>7, <2>9 DEF Stored
  <1> QED  BY <1>2, <1>3 DEF Order

\* A file that moves to the next name, which is free, passes none
LEMMA ArchiveShifted ==
  ASSUME TypeInv, Order, UNCHANGED <<data, written, doomed>>,
         NEW n \in 0 .. Keep - 1, dir[n + 1] = NoFile, dir' = Renamed(dir, n, n + 1)
  PROVE  Order'
  <1>0. n \in Names /\ n + 1 \in Names /\ n \in Nat /\ DOMAIN dir = Names
    BY SizeAssumption DEF Names, TypeInv, LockInv, Domains
  <1>1. /\ dir'[n] = NoFile /\ dir'[n + 1] = dir[n]
        /\ \A m \in Names : m # n /\ m # n + 1 => dir'[m] = dir[m]
    BY <1>0 DEF Renamed
  <1>2. /\ Content(n)' = <<>> /\ Content(n + 1)' = Content(n) /\ Content(n + 1) = <<>>
        /\ \A m \in Names : m # n /\ m # n + 1 => Content(m)' = Content(m)
    BY <1>1 DEF Content
  <1>3. Len(Content(n)') = 0 /\ Len(Content(n + 1)) = 0  BY <1>2
  <1>4. InOrder'
    <2> DEFINE g == [m \in Names |-> IF m = n + 1 THEN n ELSE m]
    <2>1. \A m \in Names : g[m] = IF m = n + 1 THEN n ELSE m  OBVIOUS
    <2> HIDE DEF g
    <2>2. \A m \in Names : Len(Content(m)') = 0 \/ (g[m] \in Names /\ Content(m)' = Content(g[m]))
      BY <2>1, <1>0, <1>2, <1>3
    <2>3. ASSUME NEW k \in Names, NEW m \in Names, k > m, Len(Content(k)') # 0, Len(Content(m)') # 0
          PROVE  g[k] > g[m]
      <3>1. k # n /\ m # n  BY <2>3, <1>3
      <3>2. k \in Nat /\ m \in Nat  BY SizeAssumption DEF Names
      <3> QED  BY <2>1, <2>3, <3>1, <3>2, <1>0
    <2> QED  BY <2>2, <2>3, OrderKept DEF Order
  <1>5. ASSUME NEW u PROVE Stored(u)' <=> Stored(u)
    <2>1. ASSUME Stored(u)' PROVE Stored(u)
      <3>1. PICK m \in Names : \E i \in 1 .. Len(Content(m)') : Content(m)'[i] = u
        BY <2>1 DEF Stored
      <3>2. PICK i \in 1 .. Len(Content(m)') : Content(m)'[i] = u  BY <3>1
      <3>3. CASE m = n  BY <3>3, <1>3
      <3>4. CASE m = n + 1  BY <3>2, <3>4, <1>0, <1>2 DEF Stored
      <3>5. CASE m # n /\ m # n + 1  BY <3>2, <3>5, <1>2 DEF Stored
      <3> QED  BY <3>3, <3>4, <3>5
    <2>2. ASSUME Stored(u) PROVE Stored(u)'
      <3>1. PICK m \in Names : \E i \in 1 .. Len(Content(m)) : Content(m)[i] = u
        BY <2>2 DEF Stored
      <3>2. PICK i \in 1 .. Len(Content(m)) : Content(m)[i] = u  BY <3>1
      <3>3. CASE m = n + 1  BY <3>3, <1>3
      <3>4. CASE m = n  BY <3>2, <3>4, <1>0, <1>2 DEF Stored
      <3>5. CASE m # n /\ m # n + 1  BY <3>2, <3>5, <1>2 DEF Stored
      <3> QED  BY <3>3, <3>4, <3>5
    <2> QED  BY <2>1, <2>2
  <1> QED  BY <1>4, <1>5, GapKept DEF Order

\* A deletion takes only what is doomed
LEMMA DoomedDropped ==
  ASSUME TypeInv, Order, AllDoomed, UNCHANGED <<data, written, doomed>>,
         NEW d \in Deleters, pc[d] = "unlink",
         \A n \in Names : dir'[n] \in {dir[n], NoFile}
  PROVE  Order'
  <1>1. \A n \in Names : Content(n)' = Content(n) \/ Len(Content(n)') = 0
    <2> TAKE n \in Names
    <2>1. Content(n)' = Content(n) \/ Content(n)' = <<>>  BY Shrunk
    <2> QED  BY <2>1
  <1>2. InOrder'
    <2> DEFINE g == [n \in Names |-> n]
    <2>1. \A n \in Names : g[n] = n  OBVIOUS
    <2> HIDE DEF g
    <2> QED  BY <2>1, <1>1, OrderKept DEF Order
  <1>3. ASSUME NEW u, Stored(u)' PROVE ~NotDoomed(u)
    <2>1. PICK m \in Names : \E i \in 1 .. Len(Content(m)') : Content(m)'[i] = u
      BY <1>3 DEF Stored
    <2>2. PICK i \in 1 .. Len(Content(m)') : Content(m)'[i] = u  BY <2>1
    <2>3. CASE Len(Content(m)') = 0  BY <2>3
    <2>4. CASE Content(m)' = Content(m)  BY <2>2, <2>4 DEF AllDoomed
    <2> QED  BY <2>3, <2>4, <1>1
  <1>4. NoGap'  BY <1>3 DEF NoGap, NotDoomed
  <1> QED  BY <1>2, <1>4 DEF Order

\* A write goes to the end of the log, as it goes to the end of what was written
LEMMA LogGrows ==
  ASSUME TypeInv, OneName, NEW w \in Writers, WritePart(w), OpenIsLog, NEW n \in Nat, Wrote(w, n)
  PROVE  /\ \A m \in Names : m # 0 => Content(m)' = Content(m)
         /\ Len(Content(0)') = Len(Content(0)) + n
         /\ \A i \in 1 .. Len(Content(0)) : Content(0)'[i] = Content(0)[i]
         /\ \A k \in 1 .. n : Content(0)'[Len(Content(0)) + k] = <<w, sent[w] + k>>
  <1>0. FilesOK /\ 0 \in Names  BY SizeAssumption DEF TypeInv, RunOK, Names
  <1>1. UNCHANGED <<dir, fd>> /\ fd[w] = dir[0] /\ dir[0] # NoFile
    BY DEF WritePart, OpenIsLog
  <1>2. ASSUME NEW m \in Names, m # 0 PROVE Content(m)' = Content(m)
    <2>1. CASE dir[m] = NoFile  BY <1>1, <2>1 DEF Content
    <2>2. CASE dir[m] # NoFile
      <3>1. dir[m] \in 1 .. Len(data) /\ dir[m] # fd[w]
        BY <1>0, <1>1, <1>2, <2>2 DEF FilesOK, NoFile, OneName
      <3>2. data'[dir[m]] = data[dir[m]]  BY <3>1 DEF Wrote
      <3> QED  BY <1>1, <3>2 DEF Content
    <2> QED  BY <2>1, <2>2
  <1>3. Content(0) = data[fd[w]] /\ Content(0)' = data'[fd[w]]  BY <1>1 DEF Content
  <1> QED  BY <1>1, <1>2, <1>3 DEF Wrote

\* A unit that was there, and one that a write of n units has added
Old(m, i, p) ==
    i \in 1 .. Len(Content(m)) /\ p \in 1 .. Len(written) /\ written[p] = Content(m)[i]
Fresh(m, i, p, n) == m = 0 /\ \E k \in 1 .. n : i = Len(Content(0)) + k /\ p = Len(written) + k

\* Where a unit is found, in a file and among what was written, after a write
LEMMA FoundAgain ==
  ASSUME TypeInv, TypeInv', PlaceInv, PlaceInv', OpenIsLog,
         NEW w \in Writers, WritePart(w), NEW n \in Nat, Wrote(w, n),
         NEW m \in Names, NEW i \in 1 .. Len(Content(m)'),
         NEW p \in 1 .. Len(written'), written'[p] = Content(m)'[i]
  PROVE  Old(m, i, p) \/ Fresh(m, i, p, n)
  <1>f. FilesOK  BY DEF TypeInv, RunOK
  <1>0. FilesOK /\ 0 \in Names /\ Len(written) \in Nat
    BY <1>f, SizeAssumption DEF FilesOK, Names
  <1>c. Len(Content(0)) \in Nat  BY <1>0, ContentType
  <1>1. /\ \A l \in Names : l # 0 => Content(l)' = Content(l)
        /\ Len(Content(0)') = Len(Content(0)) + n
        /\ \A l \in 1 .. Len(Content(0)) : Content(0)'[l] = Content(0)[l]
        /\ \A k \in 1 .. n : Content(0)'[Len(Content(0)) + k] = <<w, sent[w] + k>>
    BY LogGrows DEF PlaceInv
  <1>2. WrittenOnce' /\ Placed  BY DEF PlaceInv
  <1>w. /\ Len(written') = Len(written) + n
        /\ \A q \in 1 .. Len(written) : written'[q] = written[q]
        /\ \A k \in 1 .. n : written'[Len(written) + k] = <<w, sent[w] + k>>
    BY DEF Wrote
  <1>3. ASSUME i \in 1 .. Len(Content(m)), Content(m)'[i] = Content(m)[i]
        PROVE  Old(m, i, p)
    <2>1. dir[m] \in 1 .. Len(data) /\ Content(m) = data[dir[m]]
      <3>1. CASE dir[m] = NoFile
        <4>1. Content(m) = <<>>  BY <3>1 DEF Content
        <4> QED  BY <1>3, <4>1
      <3>2. CASE dir[m] # NoFile  BY <1>0, <3>2 DEF Content, FilesOK, NoFile
      <3> QED  BY <3>1, <3>2
    <2>2. PICK q \in 1 .. Len(written) : written[q] = Content(m)[i]
      BY <1>2, <1>3, <2>1 DEF Placed
    <2>3. q \in 1 .. Len(written') /\ written'[q] = written[q]  BY <1>w, <1>0
    <2>4. p = q  BY <1>2, <1>3, <2>2, <2>3 DEF WrittenOnce
    <2> QED  BY <1>3, <2>2, <2>4 DEF Old
  <1>4. CASE m # 0
    <2>1. i \in 1 .. Len(Content(m)) /\ Content(m)'[i] = Content(m)[i]  BY <1>1, <1>4
    <2> QED  BY <1>3, <2>1
  <1>5. CASE m = 0 /\ i \in 1 .. Len(Content(0))
    <2>1. i \in 1 .. Len(Content(m)) /\ Content(m)'[i] = Content(m)[i]  BY <1>1, <1>5
    <2> QED  BY <1>3, <2>1
  <1>6. CASE m = 0 /\ i \notin 1 .. Len(Content(0))
    <2>1. PICK k \in 1 .. n : i = Len(Content(0)) + k
      <3>1. i - Len(Content(0)) \in 1 .. n /\ i = Len(Content(0)) + (i - Len(Content(0)))
        BY <1>1, <1>6, <1>c
      <3> QED  BY <3>1
    <2>2. written'[Len(written) + k] = Content(m)'[i]  BY <1>1, <1>6, <1>w, <2>1
    <2>3. Len(written) + k \in 1 .. Len(written')  BY <1>w, <1>0
    <2>4. p = Len(written) + k  BY <1>2, <2>2, <2>3 DEF WrittenOnce
    <2> QED  BY <1>6, <2>1, <2>4 DEF Fresh
  <1> QED  BY <1>4, <1>5, <1>6

LEMMA WritePartOrder ==
  ASSUME TypeInv, TypeInv', PlaceInv, PlaceInv', OpenIsLog, Order,
         NEW w \in Writers, WritePart(w)
  PROVE  Order'
  <1>f. FilesOK  BY DEF TypeInv, RunOK
  <1>0. FilesOK /\ 0 \in Names /\ Len(written) \in Nat
    BY <1>f, SizeAssumption DEF FilesOK, Names
  <1>c. Len(Content(0)) \in Nat  BY <1>0, ContentType
  <1>1. PICK n \in Nat : Wrote(w, n)  BY PartWritten
  <1>w. /\ Len(written') = Len(written) + n
        /\ \A q \in 1 .. Len(written) : written'[q] = written[q]
        /\ \A k \in 1 .. n : written'[Len(written) + k] = <<w, sent[w] + k>>
    BY <1>1 DEF Wrote
  <1>2. /\ \A l \in Names : l # 0 => Content(l)' = Content(l)
        /\ Len(Content(0)') = Len(Content(0)) + n
        /\ \A l \in 1 .. Len(Content(0)) : Content(0)'[l] = Content(0)[l]
        /\ \A k \in 1 .. n : Content(0)'[Len(Content(0)) + k] = <<w, sent[w] + k>>
    BY <1>1, LogGrows DEF PlaceInv
  <1>3. InOrder'
    <2> SUFFICES ASSUME NEW l \in Names, NEW m \in Names,
                        NEW i \in 1 .. Len(Content(l)'), NEW j \in 1 .. Len(Content(m)'),
                        NEW p \in 1 .. Len(written'), NEW q \in 1 .. Len(written'),
                        written'[p] = Content(l)'[i], written'[q] = Content(m)'[j], Earlier(l, i, m, j)
                 PROVE  p < q
      BY DEF InOrder
    <2>1. Old(l, i, p) \/ Fresh(l, i, p, n)  BY <1>1, FoundAgain
    <2>2. Old(m, j, q) \/ Fresh(m, j, q, n)  BY <1>1, FoundAgain
    <2>3. ASSUME Old(l, i, p), Old(m, j, q) PROVE p < q
      <3>1. InOrder  BY DEF Order
      <3> QED  BY <2>3, <3>1, Zenon DEF InOrder, Old
    <2>4. ASSUME Old(l, i, p), Fresh(m, j, q, n) PROVE p < q
      <3>1. PICK k \in 1 .. n : q = Len(written) + k  BY <2>4 DEF Fresh
      <3>2. p \in 1 .. Len(written)  BY <2>4 DEF Old
      <3> QED  BY <3>1, <3>2, <1>0
    <2>5. ASSUME Fresh(l, i, p, n) PROVE p < q
      <3>1. PICK h \in 1 .. n : i = Len(Content(0)) + h /\ p = Len(written) + h
        BY <2>5 DEF Fresh
      <3>2. m = 0 /\ i < j  BY <2>5, SizeAssumption DEF Earlier, Names, Fresh
      <3>3. ~Old(m, j, q)  BY <3>1, <3>2, <1>c DEF Old
      <3>4. PICK k \in 1 .. n : j = Len(Content(0)) + k /\ q = Len(written) + k
        BY <2>2, <3>3 DEF Fresh
      <3> QED  BY <3>1, <3>2, <3>4, <1>0, <1>c
    <2> QED  BY <2>1, <2>2, <2>3, <2>4, <2>5
  <1>4. NoGap'
    <2>u. UNCHANGED doomed  BY DEF WritePart
    <2> SUFFICES ASSUME NEW p \in 1 .. Len(written'), NEW q \in 1 .. Len(written'), p < q,
                        NotDoomed(written'[p]), Stored(written[p])'
                 PROVE  Stored(written[q])'
      BY <2>u DEF NoGap, NotDoomed
    <2>1. CASE q \notin 1 .. Len(written)
      <3>1. PICK k \in 1 .. n : q = Len(written) + k
        <4>1. q - Len(written) \in 1 .. n /\ q = Len(written) + (q - Len(written))
          BY <1>w, <1>0, <2>1
        <4> QED  BY <4>1
      <3>2. Len(Content(0)) + k \in 1 .. Len(Content(0)')  BY <1>2, <1>c
      <3>3. Content(0)'[Len(Content(0)) + k] = written'[q]  BY <1>2, <1>w, <3>1
      <3> QED  BY <1>0, <3>2, <3>3 DEF Stored
    <2>2. CASE q \in 1 .. Len(written)
      <3>1. p \in 1 .. Len(written) /\ written'[p] = written[p] /\ written'[q] = written[q]
        BY <1>w, <1>0, <2>2
      <3>2. PICK l \in Names : \E i \in 1 .. Len(Content(l)') : Content(l)'[i] = written'[p]
        BY DEF Stored
      <3>3. PICK i \in 1 .. Len(Content(l)') : Content(l)'[i] = written'[p]  BY <3>2
      <3>4. Old(l, i, p)
        <4>1. Old(l, i, p) \/ Fresh(l, i, p, n)  BY <1>1, <3>3, FoundAgain
        <4>2. ~Fresh(l, i, p, n)  BY <3>1, <1>0 DEF Fresh
        <4> QED  BY <4>1, <4>2
      <3>5. Stored(written[p])  BY <3>4 DEF Stored, Old
      <3>6. NotDoomed(written[p]) /\ NoGap  BY <3>1 DEF Order
      <3>7. Stored(written[q])  BY <2>2, <3>1, <3>5, <3>6 DEF NoGap
      <3>8. PICK m \in Names : \E j \in 1 .. Len(Content(m)) : Content(m)[j] = written[q]
        BY <3>7 DEF Stored
      <3>9. PICK j \in 1 .. Len(Content(m)) : Content(m)[j] = written[q]  BY <3>8
      <3>10. j \in 1 .. Len(Content(m)') /\ Content(m)'[j] = Content(m)[j]
        <4>1. CASE m # 0  BY <4>1, <1>2
        <4>2. CASE m = 0
          <5>1. j \in 1 .. Len(Content(0)) + n  BY <4>2, <1>c
          <5> QED  BY <5>1, <4>2, <1>2
        <4> QED  BY <4>1, <4>2
      <3> QED  BY <3>1, <3>9, <3>10 DEF Stored
    <2> QED  BY <2>1, <2>2
  <1> QED  BY <1>3, <1>4 DEF Order

LEMMA NextOrder ==
  ASSUME TypeInv, TypeInv', TargetFree, KeepInv, PlaceInv', [Next]_vars, ~raced'
  PROVE  Order'
  <1>r. ~raced  BY RacedStays
  <1>k. PlaceInv /\ QuietWindow /\ OpenIsLog /\ AllDoomed /\ Order
    BY <1>r DEF KeepInv, WindowInv, Order
  <1>u. ASSUME UNCHANGED <<data, dir, written>>, doomed \subseteq doomed' PROVE Order'
    BY <1>u, <1>k, FilesSame, SameContent
  <1>1. ASSUME NEW w \in Writers, OpenLock(w) \/ Lock(w) \/ Interrupt(w) PROVE Order'
    BY <1>1, <1>u DEF OpenLock, Lock, Interrupt, fileVars, ghosts
  <1>2. ASSUME NEW w \in Writers, RunStep(w) PROVE Order'
    <2>d. UNCHANGED doomed  BY <1>2, RunStepFrame
    <2>1. CASE WritePart(w)  BY <2>1, <1>k, WritePartOrder
    <2>2. CASE RemoveOldest(w)
      <3>1. UNCHANGED dir \/ Dropped(Keep)  BY <2>2 DEF RemoveOldest, Dropped
      <3>2. UNCHANGED <<data, written>>  BY <2>2 DEF RemoveOldest, ghosts
      <3> QED  BY <2>d, <3>1, <3>2, <1>k, <1>u, OldestDropped
    <2>3. CASE ShiftArchive(w)
      <3>1. UNCHANGED <<data, written>>  BY <2>3 DEF ShiftArchive, ghosts
      <3>2. UNCHANGED dir \/ dir' = Renamed(dir, shift[w], shift[w] + 1)
        BY <2>3 DEF ShiftArchive
      <3>3. shift[w] \in 0 .. Keep - 1  BY DEF TypeInv, LockInv, Domains
      <3>4. dir[shift[w] + 1] = NoFile  BY <2>3, <1>r DEF TargetFree, ShiftArchive
      <3> QED  BY <2>d, <3>1, <3>2, <3>3, <3>4, <1>k, <1>u, ArchiveShifted
    <2>4. CASE OpenLog(w) \/ Reopen(w)
      <3>1. UNCHANGED <<written, sent>>  BY <2>4 DEF OpenLog, Reopen, ghosts
      <3>2. UNCHANGED <<data, dir>> \/ OpenActive(w)  BY <2>4 DEF OpenLog, Reopen, fileVars
      <3> QED  BY <2>d, <3>1, <3>2, <1>k, <1>u, OpenedSame, SameContent
    <2>5. CASE BeginWrite(w) \/ StatArchives(w) \/ CloseActive(w) \/ EndRun(w)
      BY <2>5, <2>d, <1>u DEF BeginWrite, StatArchives, CloseActive, EndRun, fileVars, ghosts
    <2> QED  BY <1>2, <2>1, <2>2, <2>3, <2>4, <2>5 DEF RunStep
  <1>3. ASSUME NEW d \in Deleters, DeleteStep(d) PROVE Order'
    <2>1. CASE Unlink(d)
      <3>1. UNCHANGED <<data, written, doomed>> /\ pc[d] = "unlink"  BY <2>1 DEF Unlink, ghosts
      <3>2. \A n \in Names : dir'[n] \in {dir[n], NoFile}  BY <1>3, DeleteNames
      <3> QED  BY <3>1, <3>2, <1>k, DoomedDropped
    <2>2. CASE ~Unlink(d)
      <3>1. UNCHANGED dir
        BY <1>3, <2>2 DEF DeleteStep, Select, Plan, Confirm, Scan, ReadAgain, CheckLock, RemoveLock,
           Rollup, fileVars
      <3> QED  BY <1>3, <3>1, <1>u, DeleteStepFrame
    <2> QED  BY <2>1, <2>2
  <1>4. ASSUME NEW p \in Procs, Kill(p) PROVE Order'  BY <1>4, <1>u, KillFrame
  <1>5. CASE UNCHANGED vars  BY <1>5, <1>u DEF vars, fileVars, ghosts
  <1> QED  BY <1>1, <1>2, <1>3, <1>4, <1>5 DEF Next

LEMMA InitKeep == Init => KeepInv
  <1> SUFFICES ASSUME Init PROVE KeepInv  OBVIOUS
  <1>0. FilesOK  BY InitType DEF TypeInv, RunOK
  <1>1. Len(written) = 0 /\ Len(data) = 0  BY DEF Init
  <1>2. \A n \in Names : dir[n] = NoFile /\ Content(n) = <<>>  BY DEF Init, Content
  <1>3. \A n \in Names : Len(Content(n)) = 0  BY <1>2
  <1>4. \A p \in Procs : pc[p] = "idle"  BY DEF Init
  <1>5. PlaceInv  BY <1>1, <1>2 DEF PlaceInv, Placed, WrittenOnce, Numbered, OneName
  <1>6. WindowInv  BY <1>4 DEF WindowInv, QuietWindow, Agreed, Procs, Removing
  <1>7. OpenIsLog /\ AllDoomed  BY <1>4 DEF OpenIsLog, AllDoomed, Procs
  <1>8. InOrder /\ NoGap  BY <1>1 DEF InOrder, NoGap
  <1> QED  BY <1>5, <1>6, <1>7, <1>8 DEF KeepInv

LEMMA NextKeep == TypeInv /\ TypeInv' /\ TargetFree /\ KeepInv /\ [Next]_vars => KeepInv'
  <1> SUFFICES ASSUME TypeInv, TypeInv', TargetFree, KeepInv, [Next]_vars PROVE KeepInv'
    OBVIOUS
  <1>1. PlaceInv'  BY NextPlaced DEF KeepInv
  <1>2. WindowInv'  BY NextWindow DEF KeepInv
  <1>3. ASSUME ~raced' PROVE (OpenIsLog /\ AllDoomed /\ InOrder /\ NoGap)'
    <2>1. ~raced  BY <1>3, RacedStays
    <2>2. OpenIsLog /\ AllDoomed /\ WindowInv /\ QuietWindow
      BY <2>1 DEF KeepInv, WindowInv
    <2>3. OpenIsLog'  BY <1>3, <2>2, NextOpenIsLog
    <2>4. AllDoomed'  BY <1>3, <2>2, NextAllDoomed
    <2>5. Order'  BY <1>1, <1>3, NextOrder
    <2> QED  BY <2>3, <2>4, <2>5 DEF Order
  <1> QED  BY <1>1, <1>2, <1>3 DEF KeepInv

\* Whatever is killed or fails in the middle of a rotation, and whatever is deleted,
\* the log with its archives, read in order, is the end of what was written, but
\* for the runs that a deletion set out to remove; as long as no deletion has gone
\* on beside a run.
THEOREM KeepsTheNewestAlways == Spec => []KeepsTheNewest
  <1>1. Init => TypeInv /\ TargetFree /\ KeepInv
    BY InitType, InitLock, InitKeep
  <1>2. TypeInv /\ TargetFree /\ KeepInv /\ [Next]_vars => (TypeInv /\ TargetFree /\ KeepInv)'
    BY NextType, NextFree, NextKeep DEF TypeInv
  <1>3. TypeInv /\ KeepInv => KeepsTheNewest  BY KeptInOrder DEF TypeInv, RunOK
  <1> QED  BY <1>1, <1>2, <1>3, PTL DEF Spec

-----------------------------------------------------------------------------
(* The daily summary counts a run once                                     *)

\* A run that has written anything has opened the log
Begun == \A w \in Writers : /\ pc[w] \notin Deleting
                            /\ pc[w] \in {"idle", "lock", "open"} => sent[w] = 0

\* No unit is in two places
Unshared ==
    \A f, g \in 1 .. Len(data) : \A i \in 1 .. Len(data[f]), j \in 1 .. Len(data[g]) :
      data[f][i] = data[g][j] => f = g /\ i = j

LEMMA NextBegun == ASSUME TypeInv, Begun, [Next]_vars PROVE Begun'
  <1>0. Domains  BY DEF TypeInv, LockInv
  <1> SUFFICES ASSUME NEW v \in Writers
               PROVE  /\ pc'[v] \notin Deleting
                      /\ pc'[v] \in {"idle", "lock", "open"} => sent'[v] = 0
    BY DEF Begun
  <1>v. v \in Procs  BY DEF Procs
  <1>k. ASSUME pc'[v] = pc[v], sent'[v] = sent[v]
        PROVE  pc'[v] \notin Deleting /\ (pc'[v] \in {"idle", "lock", "open"} => sent'[v] = 0)
    BY <1>k DEF Begun
  <1>1. ASSUME NEW w \in Writers, OpenLock(w) \/ Lock(w) \/ Interrupt(w)
        PROVE  pc'[v] \notin Deleting /\ (pc'[v] \in {"idle", "lock", "open"} => sent'[v] = 0)
    <2>1. UNCHANGED sent  BY <1>1 DEF OpenLock, Lock, Interrupt, runVars
    <2>2. /\ \E l \in {"lock", "open", "done"} : Goto(w, l)
          /\ pc[w] \in {"idle", "lock"}
      BY <1>1 DEF OpenLock, Lock, Interrupt
    <2>3. w \in Procs  BY DEF Procs
    <2>4. CASE v = w
      <3>1. pc'[v] \in {"lock", "open", "done"}  BY <2>2, <2>3, <2>4, <1>0, Moved
      <3>2. sent[v] = 0  BY <2>2, <2>4 DEF Begun
      <3> QED  BY <2>1, <3>1, <3>2 DEF Deleting
    <2>5. CASE v # w  BY <2>1, <2>2, <2>3, <2>5, <1>0, <1>v, <1>k, Moved
    <2> QED  BY <2>4, <2>5
  <1>2. ASSUME NEW w \in Writers, RunStep(w)
        PROVE  pc'[v] \notin Deleting /\ (pc'[v] \in {"idle", "lock", "open"} => sent'[v] = 0)
    <2>1. CASE v = w
      <3>1. w \in Procs  BY DEF Procs
      <3>2. \/ UNCHANGED pc /\ pc[w] = "shift"
            \/ \E l \in {"run", "part", "stat", "close", "remove", "shift", "reopen", "done"} : Goto(w, l)
        BY <1>2 DEF RunStep, OpenLog, BeginWrite, WritePart, StatArchives, CloseActive,
           RemoveOldest, ShiftArchive, Reopen, EndRun, GiveUp
      <3>3. pc'[w] \in {"run", "part", "stat", "close", "remove", "shift", "reopen", "done"}
        BY <3>1, <3>2, <1>0, Moved
      <3> QED  BY <2>1, <3>3 DEF Deleting
    <2>2. CASE v # w
      <3>1. sent'[v] = sent[v]
        <4>1. CASE WritePart(w)
          BY <2>2, <4>1, PartWritten DEF Wrote
        <4>2. CASE ~WritePart(w)
          BY <1>2, <4>2 DEF RunStep, OpenLog, BeginWrite, StatArchives, CloseActive,
             RemoveOldest, ShiftArchive, Reopen, EndRun
        <4> QED  BY <4>1, <4>2
      <3> QED  BY <1>2, <2>2, <3>1, <1>k, RunStepFrame
    <2> QED  BY <2>1, <2>2
  <1>3. ASSUME NEW d \in Deleters, DeleteStep(d)
        PROVE  pc'[v] \notin Deleting /\ (pc'[v] \in {"idle", "lock", "open"} => sent'[v] = 0)
    BY <1>3, <1>k, DeleteStepFrame
  <1>4. ASSUME NEW p \in Procs, Kill(p)
        PROVE  pc'[v] \notin Deleting /\ (pc'[v] \in {"idle", "lock", "open"} => sent'[v] = 0)
    <2>1. CASE p = v  BY <1>4, <2>1, KillFrame DEF Deleting
    <2>2. CASE p # v  BY <1>4, <2>2, <1>k, <1>v, KillFrame
    <2> QED  BY <2>1, <2>2
  <1>5. CASE UNCHANGED vars  BY <1>5, <1>k DEF vars, runVars
  <1> QED  BY <1>1, <1>2, <1>3, <1>4, <1>5 DEF Next

LEMMA NextUnshared == ASSUME TypeInv, PlaceInv, Unshared, [Next]_vars PROVE Unshared'
  <1>0. FilesOK /\ CountersOK  BY DEF TypeInv, RunOK
  <1>1. CASE SameUnits
    <2> SUFFICES ASSUME NEW f \in 1 .. Len(data'), NEW g \in 1 .. Len(data'),
                        NEW i \in 1 .. Len(data'[f]), NEW j \in 1 .. Len(data'[g]),
                        data'[f][i] = data'[g][j]
                 PROVE  f = g /\ i = j
      BY DEF Unshared
    <2>1. f \in 1 .. Len(data)
      <3>1. CASE Len(data'[f]) = 0  BY <3>1
      <3> QED  BY <3>1, <1>1 DEF SameUnits
    <2>2. g \in 1 .. Len(data)
      <3>1. CASE Len(data'[g]) = 0  BY <3>1
      <3> QED  BY <3>1, <1>1 DEF SameUnits
    <2>3. data'[f] = data[f] /\ data'[g] = data[g]  BY <1>1, <2>1, <2>2 DEF SameUnits
    <2> QED  BY <2>1, <2>2, <2>3 DEF Unshared
  <1>2. ASSUME NEW w \in Writers, WritePart(w) PROVE Unshared'
    <2>1. PICK n \in Nat : Wrote(w, n)  BY <1>2, PartWritten
    <2>s. sent[w] \in Nat  BY <1>0 DEF CountersOK
    <2>n. ASSUME NEW f \in 1 .. Len(data), NEW i \in 1 .. Len(data[f]), NEW k \in 1 .. n
          PROVE  data[f][i] # <<w, sent[w] + k>>
      <3> SUFFICES ASSUME data[f][i] = <<w, sent[w] + k>> PROVE FALSE  OBVIOUS
      <3>1. PICK p \in 1 .. Len(written) : written[p] = <<w, sent[w] + k>>
        BY DEF PlaceInv, Placed
      <3>2. sent[w] + k \in 1 .. sent[w]  BY <3>1 DEF PlaceInv, Numbered
      <3> QED  BY <3>2, <2>s
    <2>t. ASSUME NEW h \in 1 .. n, NEW k \in 1 .. n, <<w, sent[w] + h>> = <<w, sent[w] + k>>
          PROVE  h = k
      <3>1. sent[w] + h = sent[w] + k  BY <2>t
      <3> QED  BY <3>1, <2>s
    <2> SUFFICES ASSUME NEW f \in 1 .. Len(data'), NEW g \in 1 .. Len(data'),
                        NEW i \in 1 .. Len(data'[f]), NEW j \in 1 .. Len(data'[g]),
                        data'[f][i] = data'[g][j]
                 PROVE  f = g /\ i = j
      BY DEF Unshared
    <2>2. WasThere(f, i) \/ IsNew(w, n, f, i)  BY <2>1, UnitOrigin
    <2>3. WasThere(g, j) \/ IsNew(w, n, g, j)  BY <2>1, UnitOrigin
    <2>4. CASE WasThere(f, i) /\ WasThere(g, j)
      <3>1. /\ f \in 1 .. Len(data) /\ i \in 1 .. Len(data[f])
            /\ g \in 1 .. Len(data) /\ j \in 1 .. Len(data[g])
            /\ data[f][i] = data[g][j]
        BY <2>4 DEF WasThere
      <3> QED  BY <3>1, Zenon DEF Unshared
    <2>5. CASE IsNew(w, n, f, i) /\ IsNew(w, n, g, j)
      <3>1. PICK h \in 1 .. n : i = Len(data[f]) + h /\ data'[f][i] = <<w, sent[w] + h>>
        BY <2>5 DEF IsNew
      <3>2. PICK k \in 1 .. n : j = Len(data[g]) + k /\ data'[g][j] = <<w, sent[w] + k>>
        BY <2>5 DEF IsNew
      <3>3. f = g  BY <2>5 DEF IsNew
      <3> QED  BY <2>t, <3>1, <3>2, <3>3
    <2>6. CASE WasThere(f, i) /\ IsNew(w, n, g, j)  BY <2>6, <2>n DEF WasThere, IsNew
    <2>7. CASE IsNew(w, n, f, i) /\ WasThere(g, j)  BY <2>7, <2>n DEF WasThere, IsNew
    <2> QED  BY <2>2, <2>3, <2>4, <2>5, <2>6, <2>7
  <1> QED  BY <1>1, <1>2, NextUnits

\* The rows of parts that are different files show each run once
OnePerRun(rows) == \A x, y \in rows : x[1] = y[1] => x = y
Apart(ps) == \A i, j \in 1 .. Len(ps) : ps[i].file = ps[j].file => i = j

LEMMA RowsOnce ==
  ASSUME FilesOK, Unshared, NEW ps, Readable(ps), Apart(ps)
  PROVE  OnePerRun(Rows(ps))
  <1>1. PICK row, col : UnitsAs(ps, row, col)  BY UnitsLaid
  <1>2. ASSUME NEW i \in 1 .. Len(UnitsOf(ps)), NEW j \in 1 .. Len(UnitsOf(ps)),
               UnitsOf(ps)[i] = UnitsOf(ps)[j]
        PROVE  i = j
    <2>1. /\ row[i] \in 1 .. Len(ps) /\ col[i] \in 1 .. ps[row[i]].length
          /\ UnitsOf(ps)[i] = data[ps[row[i]].file][col[i]]
          /\ row[j] \in 1 .. Len(ps) /\ col[j] \in 1 .. ps[row[j]].length
          /\ UnitsOf(ps)[j] = data[ps[row[j]].file][col[j]]
      BY <1>1 DEF UnitsAs
    <2>2. ASSUME NEW r \in 1 .. Len(ps), NEW c \in 1 .. ps[r].length
          PROVE  ps[r].file \in 1 .. Len(data) /\ c \in 1 .. Len(data[ps[r].file])
      <3>1. ps[r] \in Part /\ ps[r].file \in 1 .. Len(data) /\ ps[r].length <= Len(data[ps[r].file])
        BY DEF Readable
      <3>2. ps[r].length \in Nat /\ Len(data[ps[r].file]) \in Nat  BY <3>1 DEF Part, FilesOK
      <3> QED  BY <3>1, <3>2
    <2>3. ps[row[i]].file = ps[row[j]].file /\ col[i] = col[j]
      <3>1. ps[row[i]].file \in 1 .. Len(data) /\ col[i] \in 1 .. Len(data[ps[row[i]].file])
        BY <2>1, <2>2
      <3>2. ps[row[j]].file \in 1 .. Len(data) /\ col[j] \in 1 .. Len(data[ps[row[j]].file])
        BY <2>1, <2>2
      <3>3. data[ps[row[i]].file][col[i]] = data[ps[row[j]].file][col[j]]  BY <1>2, <2>1
      <3>4. PICK f, g : f = ps[row[i]].file /\ g = ps[row[j]].file  OBVIOUS
      <3>5. PICK c, e : c = col[i] /\ e = col[j]  OBVIOUS
      <3>6. /\ f \in 1 .. Len(data) /\ c \in 1 .. Len(data[f])
            /\ g \in 1 .. Len(data) /\ e \in 1 .. Len(data[g])
            /\ data[f][c] = data[g][e]
        BY <3>1, <3>2, <3>3, <3>4, <3>5
      <3>7. f = g /\ c = e  BY <3>6, Zenon DEF Unshared
      <3> QED  BY <3>4, <3>5, <3>7
    <2>4. row[i] = row[j]  BY <2>1, <2>3 DEF Apart
    <2> QED  BY <1>1, <2>3, <2>4 DEF UnitsAs
  <1> SUFFICES ASSUME NEW x \in Rows(ps), NEW y \in Rows(ps), x[1] = y[1] PROVE x = y
    BY DEF OnePerRun
  <1> DEFINE Row(i) == <<UnitsOf(ps)[i][1], Cardinality({j \in Starts(UnitsOf(ps)) : j <= i})>>
  <1>3. PICK i \in Starts(UnitsOf(ps)) : x = Row(i)  BY DEF Rows
  <1>4. PICK j \in Starts(UnitsOf(ps)) : y = Row(j)  BY DEF Rows
  <1>5. /\ i \in 1 .. Len(UnitsOf(ps)) /\ UnitsOf(ps)[i][2] = 1
        /\ j \in 1 .. Len(UnitsOf(ps)) /\ UnitsOf(ps)[j][2] = 1
    BY <1>3, <1>4 DEF Starts
  <1>6. UnitsOf(ps)[i][1] = UnitsOf(ps)[j][1]  BY <1>3, <1>4
  <1>7. UnitsOf(ps)[i] \in Unit /\ UnitsOf(ps)[j] \in Unit
    <2>1. UnitsOf(ps) \in Seq(Unit)  BY UnitsType
    <2> QED  BY <2>1, <1>5
  <1>8. UnitsOf(ps)[i] = UnitsOf(ps)[j]  BY <1>5, <1>6, <1>7 DEF Unit
  <1>9. i = j  BY <1>2, <1>5, <1>8
  <1> QED  BY <1>3, <1>4, <1>9

\* A row's run has a unit in one of the files that were read
ReadIn(ps, w) ==
    \E r \in 1 .. Len(ps) : \E c \in 1 .. Len(data[ps[r].file]) : data[ps[r].file][c][1] = w

LEMMA RowsStored ==
  ASSUME FilesOK, NEW ps, Readable(ps), NEW x \in Rows(ps)
  PROVE  ReadIn(ps, x[1])
  <1>1. PICK row, col : UnitsAs(ps, row, col)  BY UnitsLaid
  <1>2. PICK i \in Starts(UnitsOf(ps)) : x[1] = UnitsOf(ps)[i][1]
    <2>1. PICK i \in Starts(UnitsOf(ps)) :
            x = <<UnitsOf(ps)[i][1], Cardinality({j \in Starts(UnitsOf(ps)) : j <= i})>>
      BY DEF Rows
    <2> QED  BY <2>1
  <1>3. i \in 1 .. Len(UnitsOf(ps))  BY <1>2 DEF Starts
  <1>4. /\ row[i] \in 1 .. Len(ps) /\ col[i] \in 1 .. ps[row[i]].length
        /\ UnitsOf(ps)[i] = data[ps[row[i]].file][col[i]]
    BY <1>1, <1>3 DEF UnitsAs
  <1>5. /\ ps[row[i]].length \in Nat /\ Len(data[ps[row[i]].file]) \in Nat
        /\ ps[row[i]].length <= Len(data[ps[row[i]].file])
    <2>1. ps[row[i]] \in Part /\ ps[row[i]].file \in 1 .. Len(data)
          /\ ps[row[i]].length <= Len(data[ps[row[i]].file])
      BY <1>4 DEF Readable
    <2> QED  BY <2>1 DEF Part, FilesOK
  <1>6. col[i] \in 1 .. Len(data[ps[row[i]].file])  BY <1>4, <1>5
  <1> QED  BY <1>2, <1>4, <1>6 DEF ReadIn

\* A run that is over, and of which nothing is left
NoneLeft(w) == \A n \in Names : \A i \in 1 .. Len(Content(n)) : Content(n)[i][1] # w
Over(w) == pc[w] = "done" /\ NoneLeft(w)

\* The runs that a deletion was asked for have written, and are over once the log was
\* found free; what it has read last is of them, each once, and not counted before
Selected(d) == {row[1] : row \in targets[d]}
FoundFor(d) ==
    /\ pc[d] = "plan" => \A row \in targets[d] : sent[row[1]] # 0
    /\ pc[d] \in Deleting \ {"plan"} => \A row \in targets[d] : pc[row[1]] = "done"
    /\ pc[d] \in {"check", "unlink", "rmLock", "rollup"} =>
         /\ found[d] \subseteq targets[d] /\ OnePerRun(found[d])
         /\ \A row \in found[d] : row[1] \in missed \/ counted[row[1]] = 0

\* Where there is something of a selected run: in the files of the scan, then at the
\* names still to be removed, then nowhere, unless the removal has missed it
InScan(d) ==
    \A n \in Names : \A i \in 1 .. Len(Content(n)) :
      Content(n)[i][1] \in Selected(d) => \E k \in 1 .. Len(parts[d]) : parts[d][k].file = dir[n]
ToRemove(d) ==
    \A n \in Names : \A i \in 1 .. Len(Content(n)) :
      Content(n)[i][1] \in Selected(d) /\ Content(n)[i][1] \notin missed =>
        \E k \in 1 .. Len(parts[d]) : parts[d][k].name = n
LeftFor(d) ==
    /\ pc[d] = "read" => Apart(parts[d])
    /\ pc[d] \in {"read", "check"} => InScan(d)
    /\ pc[d] = "unlink" => failed[d] \/ ToRemove(d)
    /\ pc[d] \in {"rmLock", "rollup"} => \A w \in Selected(d) : w \in missed \/ NoneLeft(w)

FoundOnce == \A d \in Deleters : FoundFor(d) /\ LeftFor(d)
CountedGone == \A w \in Writers : counted[w] # 0 => w \in missed \/ (counted[w] = 1 /\ Over(w))

CountInv == Begun /\ Unshared /\ (raced \/ (FoundOnce /\ CountedGone))

LEMMA DoneStays == ASSUME TypeInv, [Next]_vars, NEW w \in Writers, pc[w] = "done" PROVE pc'[w] = "done"
  <1>0. w \in Procs /\ Domains  BY DEF Procs, TypeInv, LockInv
  <1>1. ASSUME NEW v \in Writers, OpenLock(v) \/ Lock(v) \/ Interrupt(v) PROVE pc'[w] = pc[w]
    <2>1. pc[v] \in {"idle", "lock"} /\ \E l : Goto(v, l)  BY <1>1 DEF OpenLock, Lock, Interrupt
    <2> QED  BY <2>1, <1>0, Moved DEF Procs
  <1>2. ASSUME NEW v \in Writers, RunStep(v) PROVE pc'[w] = pc[w]
    <2>1. v # w  BY <1>2, MovesHolding DEF Holds, Holding
    <2> QED  BY <1>2, <2>1, RunStepFrame
  <1>3. ASSUME NEW d \in Deleters, DeleteStep(d) PROVE pc'[w] = pc[w]  BY <1>3, DeleteStepFrame
  <1>4. ASSUME NEW p \in Procs, Kill(p) PROVE pc'[w] = "done"
    <2>1. CASE p = w  BY <1>4, <2>1, KillFrame
    <2>2. CASE p # w  BY <1>0, <1>4, <2>2, KillFrame
    <2> QED  BY <2>1, <2>2
  <1>5. CASE UNCHANGED vars  BY <1>5 DEF vars
  <1> QED  BY <1>1, <1>2, <1>3, <1>4, <1>5 DEF Next

LEMMA OverStays ==
  ASSUME TypeInv, TypeInv', [Next]_vars, NEW w \in Writers, Over(w) PROVE Over(w)'
  <1>1. pc'[w] = "done"  BY DoneStays DEF Over
  <1>2. NoneLeft(w)'
    <2> SUFFICES ASSUME NEW n \in Names, NEW i \in 1 .. Len(Content(n)'), Content(n)'[i][1] = w
                 PROVE  FALSE
      BY DEF NoneLeft
    <2>1. CASE Came(n, i)  BY <2>1 DEF Came, Over, NoneLeft
    <2>2. CASE Holds(w)  BY <2>2 DEF Over, Holds, Holding
    <2> QED  BY <2>1, <2>2, StoredBefore
  <1> QED  BY <1>1, <1>2 DEF Over

LEMMA MissedStays == ASSUME TypeInv, [Next]_vars PROVE missed \subseteq missed'
  <1>1. ASSUME NEW w \in Writers, OpenLock(w) \/ Lock(w) \/ Interrupt(w) \/ RunStep(w)
        PROVE  missed \subseteq missed'
    BY <1>1, RunStepFrame, LockFrame
  <1>2. ASSUME NEW d \in Deleters, DeleteStep(d) PROVE missed \subseteq missed'
    BY <1>2, DeleteStepFrame
  <1>3. ASSUME NEW p \in Procs, Kill(p) PROVE missed \subseteq missed'  BY <1>3, KillFrame
  <1>4. CASE UNCHANGED vars  BY <1>4 DEF vars, ghosts
  <1> QED  BY <1>1, <1>2, <1>3, <1>4 DEF Next

LEMMA SentStays ==
  ASSUME TypeInv, [Next]_vars, NEW w \in Writers, sent[w] # 0 PROVE sent'[w] # 0
  <1>1. CASE SameUnits  BY <1>1 DEF SameUnits
  <1>2. ASSUME NEW v \in Writers, WritePart(v) PROVE sent'[w] # 0
    <2>1. PICK n \in Nat : Wrote(v, n)  BY <1>2, PartWritten
    <2>2. sent[w] \in Nat  BY DEF TypeInv, RunOK, CountersOK
    <2> QED  BY <2>1, <2>2 DEF Wrote
  <1> QED  BY <1>1, <1>2, NextUnits

\* With one deletion at a time; two that delete the same log both count it
OneDeletion == \A d, e \in Deleters : d = e

LEMMA ScanApart == ASSUME FilesOK, OneName PROVE Apart(Scanned)
  <1>1. PICK name :
          /\ \A i \in 1 .. Len(Scanned) :
               name[i] \in Names /\ dir[name[i]] # NoFile /\ Scanned[i] = Record(name[i])
          /\ \A i, j \in 1 .. Len(Scanned) : name[i] = name[j] => i = j
    BY ScannedLaid
  <1> SUFFICES ASSUME NEW i \in 1 .. Len(Scanned), NEW j \in 1 .. Len(Scanned),
                      Scanned[i].file = Scanned[j].file
               PROVE  i = j
    BY DEF Apart
  <1>2. dir[name[i]] = dir[name[j]]
    <2>1. Scanned[i] = Record(name[i]) /\ Scanned[j] = Record(name[j])  BY <1>1
    <2>2. Record(name[i]).file = Record(name[j]).file  BY <2>1
    <2> QED  BY <2>2 DEF Record
  <1>3. name[i] = name[j]  BY <1>1, <1>2 DEF OneName
  <1> QED  BY <1>1, <1>3

\* A run that a row shows has written
LEMMA RowsSent ==
  ASSUME TypeInv, PlaceInv, NEW ps, Readable(ps), NEW x \in Rows(ps)
  PROVE  x[1] \in Writers /\ sent[x[1]] # 0
  <1>0. FilesOK /\ CountersOK /\ Rows(ps) \subseteq RunID  BY RowsType DEF TypeInv, RunOK
  <1>1. x[1] \in Writers  BY <1>0 DEF RunID
  <1>2. ReadIn(ps, x[1])  BY <1>0, RowsStored
  <1>3. PICK r \in 1 .. Len(ps) : \E c \in 1 .. Len(data[ps[r].file]) : data[ps[r].file][c][1] = x[1]
    BY <1>2 DEF ReadIn
  <1>4. PICK c \in 1 .. Len(data[ps[r].file]) : data[ps[r].file][c][1] = x[1]  BY <1>3
  <1>5. ps[r].file \in 1 .. Len(data)  BY DEF Readable
  <1>6. PICK p \in 1 .. Len(written) : written[p] = data[ps[r].file][c]
    BY <1>5 DEF PlaceInv, Placed
  <1>7. written[p][2] \in 1 .. sent[x[1]]  BY <1>4, <1>6 DEF PlaceInv, Numbered
  <1> QED  BY <1>1, <1>7

\* A log that a deletion has found unchanged holds the runs of its rows
LEMMA ReadFinds ==
  ASSUME TypeInv, Unshared, CountedGone,
         NEW d \in Deleters, Unchanged(parts[d]), Apart(parts[d])
  PROVE  /\ \A row \in Rows(parts[d]) : row[1] \in missed \/ counted[row[1]] = 0
         /\ OnePerRun(Rows(parts[d]))
  <1>0. FilesOK /\ Readable(parts[d]) /\ Rows(parts[d]) \subseteq RunID
    BY RowsType DEF TypeInv, RunOK, ScansOK
  <1>1. OnePerRun(Rows(parts[d]))  BY <1>0, RowsOnce
  <1>2. ASSUME NEW x \in Rows(parts[d]) PROVE x[1] \in missed \/ counted[x[1]] = 0
    <2>1. x[1] \in Writers  BY <1>0 DEF RunID
    <2>2. PICK r \in 1 .. Len(parts[d]) :
            \E c \in 1 .. Len(data[parts[d][r].file]) : data[parts[d][r].file][c][1] = x[1]
      <3>1. ReadIn(parts[d], x[1])  BY <1>0, RowsStored
      <3> QED  BY <3>1 DEF ReadIn
    <2>3. PICK c \in 1 .. Len(data[parts[d][r].file]) : data[parts[d][r].file][c][1] = x[1]
      BY <2>2
    <2>4. /\ parts[d][r].name \in Names /\ parts[d][r].file \in 1 .. Len(data)
          /\ dir[parts[d][r].name] = parts[d][r].file
      <3>1. parts[d][r] \in Part /\ parts[d][r].file \in 1 .. Len(data)  BY <1>0 DEF Readable
      <3>2. dir[parts[d][r].name] = parts[d][r].file  BY DEF Unchanged
      <3> QED  BY <3>1, <3>2 DEF Part
    <2>5. Content(parts[d][r].name) = data[parts[d][r].file]
      BY <1>0, <2>4 DEF Content, NoFile, FilesOK
    <2>6. ~NoneLeft(x[1])  BY <2>3, <2>4, <2>5 DEF NoneLeft
    <2> QED  BY <2>1, <2>6 DEF CountedGone, Over
  <1> QED  BY <1>1, <1>2

\* A run that has written, and is not at work on the log, is over
LEMMA WroteAndOver ==
  ASSUME TypeInv, Begun, NEW w \in Writers, sent[w] # 0, ~Holds(w) PROVE pc[w] = "done"
  <1>1. pc[w] \in Labels  BY DEF TypeInv, ProcsOK, Procs
  <1> QED  BY <1>1 DEF Begun, Holds, Labels

\* What a deletion knows of the runs it was asked for stays true
LEMMA FoundForKept ==
  ASSUME TypeInv, [Next]_vars, NEW d \in Deleters, FoundFor(d), pc'[d] = pc[d],
         targets'[d] = targets[d], found'[d] = found[d], UNCHANGED counted
  PROVE  FoundFor(d)'
  <1>1. \A row \in targets[d] : row[1] \in Writers  BY DEF TypeInv, DeletionsOK, RunID
  <1>2. \A row \in targets[d] : sent[row[1]] # 0 => sent'[row[1]] # 0  BY <1>1, SentStays
  <1>3. \A row \in targets[d] : pc[row[1]] = "done" => pc'[row[1]] = "done"  BY <1>1, DoneStays
  <1>4. pc'[d] = "plan" => \A row \in targets'[d] : sent'[row[1]] # 0  BY <1>2 DEF FoundFor
  <1>5. pc'[d] \in Deleting \ {"plan"} => \A row \in targets'[d] : pc'[row[1]] = "done"
    BY <1>3 DEF FoundFor
  <1>6. pc'[d] \in {"check", "unlink", "rmLock", "rollup"} =>
          /\ found'[d] \subseteq targets'[d] /\ OnePerRun(found'[d])
          /\ \A row \in found'[d] : row[1] \in missed' \/ counted'[row[1]] = 0
    BY MissedStays DEF FoundFor
  <1> QED  BY <1>4, <1>5, <1>6 DEF FoundFor, OnePerRun

\* A selected run is over: no step adds anything of it
LEMMA InScanKept ==
  ASSUME TypeInv, TypeInv', [Next]_vars, NEW d \in Deleters, FoundFor(d),
         pc[d] \in Deleting \ {"plan"}, InScan(d), targets'[d] = targets[d], parts'[d] = parts[d]
  PROVE  InScan(d)'
  <1>1. Selected(d)' = Selected(d)  BY DEF Selected
  <1> SUFFICES ASSUME NEW n \in Names, NEW i \in 1 .. Len(Content(n)'),
                      Content(n)'[i][1] \in Selected(d)
               PROVE  \E k \in 1 .. Len(parts[d]) : parts[d][k].file = dir'[n]
    BY <1>1 DEF InScan
  <1>2. CASE Came(n, i)
    <2>1. PICK m \in Names : /\ dir[m] = dir'[n] /\ i \in 1 .. Len(Content(m))
                             /\ Content(m)[i] = Content(n)'[i]
      BY <1>2 DEF Came
    <2>2. \E k \in 1 .. Len(parts[d]) : parts[d][k].file = dir[m]  BY <2>1 DEF InScan
    <2> QED  BY <2>1, <2>2
  <1>3. CASE Holds(Content(n)'[i][1])
    <2>1. pc[Content(n)'[i][1]] = "done"  BY DEF FoundFor, Selected
    <2> QED  BY <1>3, <2>1 DEF Holds, Holding
  <1> QED  BY <1>2, <1>3, StoredBefore

LEMMA LeftForKept ==
  ASSUME TypeInv, TypeInv', [Next]_vars, NEW d \in Deleters, FoundFor(d), LeftFor(d),
         pc'[d] = pc[d], targets'[d] = targets[d], parts'[d] = parts[d], failed'[d] = failed[d],
         UNCHANGED <<data, dir>> \/ pc[d] # "unlink"
  PROVE  LeftFor(d)'
  <1>1. Selected(d)' = Selected(d) /\ missed \subseteq missed'  BY MissedStays DEF Selected
  <1>2. pc'[d] = "read" => Apart(parts[d])'  BY DEF LeftFor, Apart
  <1>3. pc'[d] \in {"read", "check"} => InScan(d)'  BY InScanKept DEF LeftFor, Deleting
  <1>4. pc'[d] = "unlink" => failed'[d] \/ ToRemove(d)'
    <2> SUFFICES ASSUME pc[d] = "unlink", ToRemove(d) PROVE ToRemove(d)'  BY DEF LeftFor
    <2>1. \A n \in Names : Content(n)' = Content(n)  BY FilesSame
    <2> QED  BY <1>1, <2>1 DEF ToRemove
  <1>5. ASSUME pc'[d] \in {"rmLock", "rollup"}, NEW w \in Selected(d)', w \notin missed'
        PROVE  NoneLeft(w)'
    <2>1. w \in Writers /\ pc[w] = "done"
      BY <1>1, <1>5 DEF Selected, FoundFor, Deleting, TypeInv, DeletionsOK, RunID
    <2>2. NoneLeft(w)  BY <1>1, <1>5 DEF LeftFor
    <2>3. Over(w)'  BY <2>1, <2>2, OverStays DEF Over
    <2> QED  BY <2>3 DEF Over
  <1> QED  BY <1>2, <1>3, <1>4, <1>5 DEF LeftFor

\* What was not renamed between the comparison and the lock is removed by its name
LEMMA CheckedToRemove ==
  ASSUME TypeInv, OneName, NEW d \in Deleters, CheckLock(d), pc'[d] = "unlink", InScan(d)
  PROVE  ToRemove(d)'
  <1>0. d \in Procs /\ Domains /\ FilesOK  BY DEF Procs, TypeInv, LockInv, RunOK
  <1>1. UNCHANGED <<data, dir, targets, parts>>  BY DEF CheckLock, fileVars, delVars
  <1>2. ~LogFileLocked  BY <1>0, Moved DEF CheckLock
  <1>3. missed' = missed \cup Displaced(d)  BY <1>2 DEF CheckLock
  <1>4. Selected(d)' = Selected(d) /\ \A n \in Names : Content(n)' = Content(n)
    BY <1>1, FilesSame DEF Selected
  <1> SUFFICES ASSUME NEW n \in Names, NEW i \in 1 .. Len(Content(n)),
                      Content(n)[i][1] \in Selected(d), Content(n)[i][1] \notin missed'
               PROVE  \E k \in 1 .. Len(parts[d]) : parts[d][k].name = n
    BY <1>1, <1>4 DEF ToRemove
  <1>5. PICK k \in 1 .. Len(parts[d]) : parts[d][k].file = dir[n]  BY DEF InScan
  <1>6. dir[n] \in 1 .. Len(data) /\ Content(n) = data[dir[n]]  BY <1>0, FileOf
  <1>7. parts[d][k].name \in Names
    <2>1. parts[d] \in Seq(Part)  BY DEF TypeInv, DeletionsOK
    <2>2. parts[d][k] \in Part  BY <2>1
    <2> QED  BY <2>2 DEF Part
  <1>8. Content(n)[i][1] \in Writers
    <2>1. Content(n) \in Seq(Unit)  BY <1>0, ContentType
    <2>2. Content(n)[i] \in Unit  BY <2>1
    <2> QED  BY <2>2 DEF Unit
  <1>9. dir[parts[d][k].name] = parts[d][k].file
    <2> SUFFICES ASSUME dir[parts[d][k].name] # parts[d][k].file PROVE FALSE  OBVIOUS
    <2>1. \E j \in 1 .. Len(data[parts[d][k].file]) : data[parts[d][k].file][j][1] = Content(n)[i][1]
      BY <1>5, <1>6
    <2>2. Content(n)[i][1] \in Displaced(d)  BY <1>8, <2>1 DEF Displaced
    <2> QED  BY <1>3, <2>2
  <1>10. parts[d][k].name = n  BY <1>5, <1>6, <1>7, <1>9 DEF OneName, NoFile
  <1> QED  BY <1>10

LEMMA DeleteStepFound ==
  ASSUME TypeInv, TypeInv', PlaceInv, Begun, Unshared, CountedGone, ~raced, [Next]_vars,
         NEW d \in Deleters, DeleteStep(d), FoundFor(d), LeftFor(d)
  PROVE  FoundFor(d)' /\ LeftFor(d)'
  <1>0. d \in Procs /\ Domains /\ FilesOK /\ DeletionsOK
    BY DEF Procs, TypeInv, LockInv, RunOK
  <1>t. \A row \in targets[d] : row[1] \in Writers  BY <1>0 DEF DeletionsOK, RunID
  <1>s. UNCHANGED <<data, sent>> /\ \A w \in Writers : pc'[w] = pc[w]  BY DeleteStepFrame
  <1>i. ASSUME pc'[d] = "idle" PROVE FoundFor(d)' /\ LeftFor(d)'
    BY <1>i DEF FoundFor, LeftFor, Deleting
  <1>1. CASE Select(d)
    <2>1. pc'[d] = "plan"  BY <1>1, <1>0, Moved DEF Select
    <2>2. PICK T \in SUBSET Rows(Scanned) : targets' = [targets EXCEPT ![d] = T]
      BY <1>1 DEF Select
    <2>3. targets'[d] \subseteq Rows(Scanned)  BY <2>2, <1>0 DEF DeletionsOK
    <2>4. \A row \in targets'[d] : sent'[row[1]] # 0
      BY <2>3, <1>0, <1>s, ScannedReadable, RowsSent
    <2> QED  BY <2>1, <2>4 DEF FoundFor, LeftFor
  <1>2. CASE Plan(d)
    <2>1. \E l \in {"confirm", "idle"} : Goto(d, l)  BY <1>2 DEF Plan
    <2>2. pc'[d] \in {"confirm", "idle"}  BY <2>1, <1>0, Moved
    <2>3. CASE pc'[d] = "confirm"
      <3>1. ~LogFileLocked
        <4> SUFFICES ASSUME LogFileLocked PROVE FALSE  OBVIOUS
        <4>1. Goto(d, "idle")  BY <1>2 DEF Plan
        <4> QED  BY <4>1, <2>3, <1>0, Moved
      <3>2. UNCHANGED targets /\ pc[d] = "plan"  BY <1>2 DEF Plan
      <3>3. ASSUME NEW row \in targets[d] PROVE pc'[row[1]] = "done"
        <4>1. row[1] \in Writers /\ sent[row[1]] # 0  BY <1>t, <3>2, <3>3 DEF FoundFor
        <4>2. ~Holds(row[1])  BY <4>1, <3>1, FreeWhenUnlocked DEF TypeInv
        <4> QED  BY <4>1, <4>2, <1>s, WroteAndOver
      <3> QED  BY <2>3, <3>2, <3>3 DEF FoundFor, LeftFor
    <2> QED  BY <2>2, <2>3, <1>i
  <1>3. CASE Confirm(d)
    <2>1. \E l \in {"scan", "idle"} : Goto(d, l)  BY <1>3 DEF Confirm
    <2>2. pc'[d] \in {"scan", "idle"}  BY <2>1, <1>0, Moved
    <2>3. pc[d] = "confirm" /\ UNCHANGED targets  BY <1>3 DEF Confirm, delVars
    <2>4. \A row \in targets'[d] : pc'[row[1]] = "done"
      BY <2>3, <1>t, <1>s DEF FoundFor, Deleting
    <2> QED  BY <2>2, <2>4, <1>i DEF FoundFor, LeftFor
  <1>4. CASE Scan(d)
    <2>1. pc'[d] = "read" /\ pc[d] = "scan"  BY <1>0, <1>4, Moved DEF Scan
    <2>2. parts'[d] = Scanned /\ UNCHANGED <<targets, data, dir>>
      BY <1>0, <1>4 DEF Scan, DeletionsOK, fileVars
    <2>3. Apart(Scanned)  BY <1>0, ScanApart DEF PlaceInv
    <2>4. \A row \in targets'[d] : pc'[row[1]] = "done"
      BY <2>1, <2>2, <1>t, <1>s DEF FoundFor, Deleting
    <2>5. ASSUME NEW n \in Names, NEW i \in 1 .. Len(Content(n)')
          PROVE  \E k \in 1 .. Len(parts'[d]) : parts'[d][k].file = dir'[n]
      <3>1. i \in 1 .. Len(Content(n))  BY <2>2, FilesSame
      <3>2. dir[n] \in 1 .. Len(data)  BY <3>1, <1>0, FileOf
      <3>3. PICK k \in 1 .. Len(Scanned) : Scanned[k] = Record(n)
        BY <3>2, <1>0, ScannedLaid DEF NoFile
      <3>4. Scanned[k].file = dir[n]  BY <3>3 DEF Record
      <3> QED  BY <2>2, <3>4
    <2>6. InScan(d)'  BY <2>5 DEF InScan
    <2> QED  BY <2>1, <2>2, <2>3, <2>4, <2>6 DEF FoundFor, LeftFor, Apart
  <1>5. CASE ReadAgain(d)
    <2>1. pc[d] = "read" /\ UNCHANGED <<counted, missed, targets, parts>>  BY <1>5 DEF ReadAgain
    <2>2. \E l \in {"check", "idle"} : Goto(d, l)  BY <1>5 DEF ReadAgain
    <2>3. pc'[d] \in {"check", "idle"}  BY <2>2, <1>0, Moved
    <2>4. found'[d] = Rows(parts[d])  BY <1>0, <1>5 DEF ReadAgain, DeletionsOK
    <2>5. CASE pc'[d] = "check"
      <3>1. Unchanged(parts[d]) /\ Covers(d, Rows(parts[d]))
        <4> SUFFICES ASSUME ~(Unchanged(parts[d]) /\ Covers(d, Rows(parts[d]))) PROVE FALSE
          OBVIOUS
        <4>1. Goto(d, "idle")  BY <1>5 DEF ReadAgain
        <4> QED  BY <4>1, <2>5, <1>0, Moved
      <3>2. Apart(parts[d]) /\ InScan(d)  BY <2>1 DEF LeftFor
      <3>3. OnePerRun(found'[d]) /\ \A row \in found'[d] : row[1] \in missed' \/ counted'[row[1]] = 0
        BY <2>1, <2>4, <3>1, <3>2, ReadFinds
      <3>4. found'[d] \subseteq targets'[d]  BY <2>1, <2>4, <3>1 DEF Covers
      <3>5. \A row \in targets'[d] : pc'[row[1]] = "done"
        BY <2>1, <1>t, <1>s DEF FoundFor, Deleting
      <3>6. InScan(d)'  BY <2>1, <3>2, InScanKept DEF Deleting
      <3>7. FoundFor(d)'  BY <2>5, <3>3, <3>4, <3>5 DEF FoundFor, OnePerRun
      <3> QED  BY <2>5, <3>6, <3>7 DEF LeftFor
    <2> QED  BY <2>3, <2>5, <1>i
  <1>6. CASE CheckLock(d)
    <2>1. pc[d] = "check" /\ UNCHANGED <<counted, found, targets>>
      BY <1>6 DEF CheckLock, delVars
    <2>2. \E l \in {"unlink", "idle"} : Goto(d, l)  BY <1>6 DEF CheckLock
    <2>3. pc'[d] \in {"unlink", "idle"}  BY <2>2, <1>0, Moved
    <2>4. CASE pc'[d] = "unlink"
      <3>1. ToRemove(d)'  BY <1>6, <2>1, <2>4, CheckedToRemove DEF PlaceInv, LeftFor
      <3>2. LeftFor(d)'  BY <2>4, <3>1 DEF LeftFor
      <3>3. \A row \in targets'[d] : pc'[row[1]] = "done"
        BY <2>1, <1>t, <1>s DEF FoundFor, Deleting
      <3>4. found'[d] \subseteq targets'[d] /\ OnePerRun(found'[d])
            /\ \A row \in found'[d] : row[1] \in missed' \/ counted'[row[1]] = 0
        BY <2>1, MissedStays DEF FoundFor
      <3>5. FoundFor(d)'  BY <2>4, <3>3, <3>4 DEF FoundFor, OnePerRun
      <3> QED  BY <3>2, <3>5
    <2> QED  BY <2>3, <2>4, <1>i
  <1>7. CASE Unlink(d)
    <2>1. pc[d] = "unlink" /\ UNCHANGED <<counted, found, targets, missed>>
      BY <1>7 DEF Unlink, ghosts
    <2>2. UNCHANGED pc \/ \E l \in {"rmLock", "idle"} : Goto(d, l)
      BY <1>7 DEF Unlink, AfterUnlink
    <2>3. pc'[d] \in {"unlink", "rmLock", "idle"}  BY <2>1, <2>2, <1>0, Moved
    <2>4. Selected(d)' = Selected(d)  BY <2>1 DEF Selected
    <2>5. ASSUME pc'[d] # "idle" PROVE FoundFor(d)'
      <3>1. \A row \in targets'[d] : pc'[row[1]] = "done"
        BY <2>1, <1>t, <1>s DEF FoundFor, Deleting
      <3>2. found'[d] \subseteq targets'[d] /\ OnePerRun(found'[d])
            /\ \A row \in found'[d] : row[1] \in missed' \/ counted'[row[1]] = 0
        BY <2>1 DEF FoundFor
      <3> QED  BY <2>3, <2>5, <3>1, <3>2 DEF FoundFor, OnePerRun
    <2>6. CASE parts[d] = <<>>
      <3>1. Goto(d, AfterUnlink(d)) /\ UNCHANGED dir  BY <1>7, <2>6 DEF Unlink
      <3>2. CASE failed[d]
        <4>1. pc'[d] = "idle"  BY <3>1, <3>2, <1>0, Moved DEF AfterUnlink
        <4> QED  BY <4>1, <1>i
      <3>3. CASE ~failed[d]
        <4>1. pc'[d] = "rmLock"  BY <3>1, <3>3, <1>0, Moved DEF AfterUnlink
        <4>2. \A n \in Names : Content(n)' = Content(n)  BY <3>1, <1>s, FilesSame
        <4>3. ASSUME NEW w \in Selected(d), w \notin missed PROVE NoneLeft(w)'
          <5> SUFFICES ASSUME NEW n \in Names, NEW i \in 1 .. Len(Content(n)), Content(n)[i][1] = w
                       PROVE  FALSE
            BY <4>2 DEF NoneLeft
          <5>1. \E k \in 1 .. Len(parts[d]) : parts[d][k].name = n
            BY <2>1, <3>3, <4>3 DEF LeftFor, ToRemove
          <5>2. Len(parts[d]) = 0  BY <2>6
          <5> QED  BY <5>1, <5>2
        <4>4. LeftFor(d)'  BY <2>1, <2>4, <4>1, <4>3 DEF LeftFor
        <4> QED  BY <2>5, <4>1, <4>4
      <3> QED  BY <3>2, <3>3
    <2>7. CASE parts[d] # <<>>
      <3>1. pc'[d] = "unlink"  BY <1>7, <2>1, <2>7 DEF Unlink
      <3>2. parts'[d] = Tail(parts[d]) /\ parts[d] \in Seq(Part)
        BY <1>7, <2>7, <1>0 DEF Unlink, DeletionsOK
      <3>3. CASE failed' = [failed EXCEPT ![d] = TRUE]
        <4>1. failed'[d]  BY <3>3, <1>0 DEF DeletionsOK
        <4> QED  BY <2>5, <3>1, <4>1 DEF LeftFor
      <3>4. CASE dir' = [dir EXCEPT ![Head(parts[d]).name] = NoFile] /\ UNCHANGED failed
        <4>1. CASE failed[d]  BY <2>5, <3>1, <3>4, <4>1 DEF LeftFor
        <4>2. ASSUME ~failed[d], NEW n \in Names, NEW i \in 1 .. Len(Content(n)'),
                     Content(n)'[i][1] \in Selected(d), Content(n)'[i][1] \notin missed
              PROVE  \E k \in 1 .. Len(parts'[d]) : parts'[d][k].name = n
          <5>1. n # Head(parts[d]).name /\ dir'[n] = dir[n] /\ Content(n)' = Content(n)
            <6>1. CASE dir'[n] = NoFile
              <7>1. Content(n)' = <<>>  BY <6>1 DEF Content
              <7> QED  BY <4>2, <7>1
            <6>2. CASE dir'[n] # NoFile
              <7>1. n # Head(parts[d]).name /\ dir'[n] = dir[n]
                BY <3>4, <6>2, <1>0 DEF Domains
              <7> QED  BY <7>1, <1>s DEF Content
            <6> QED  BY <6>1, <6>2
          <5>2. PICK k \in 1 .. Len(parts[d]) : parts[d][k].name = n
            BY <2>1, <4>2, <5>1 DEF LeftFor, ToRemove
          <5>3. k # 1  BY <2>7, <3>2, <5>1, <5>2
          <5>4. PICK s \in Seq(Part) : s = parts[d] /\ s # <<>>  BY <2>7, <3>2
          <5>5. Len(Tail(s)) = Len(s) - 1 /\ \A j \in 1 .. Len(s) - 1 : Tail(s)[j] = s[j + 1]
            BY <5>4
          <5>6. k - 1 \in 1 .. Len(s) - 1 /\ k - 1 + 1 = k  BY <5>2, <5>3, <5>4
          <5>7. Tail(s)[k - 1] = s[k]  BY <5>5, <5>6
          <5> QED  BY <3>2, <5>2, <5>4, <5>5, <5>6, <5>7
        <4>3. CASE ~failed[d]
          <5>1. ToRemove(d)'  BY <2>1, <2>4, <4>2, <4>3 DEF ToRemove
          <5> QED  BY <2>5, <3>1, <5>1 DEF LeftFor
        <4> QED  BY <4>1, <4>3
      <3> QED  BY <1>7, <2>7, <3>3, <3>4 DEF Unlink
    <2> QED  BY <2>6, <2>7
  <1>8. CASE RemoveLock(d)
    <2>1. pc[d] = "rmLock" /\ UNCHANGED <<found, targets, counted, missed, data, dir>>
      BY <1>8 DEF RemoveLock, delVars, fileVars
    <2>2. pc'[d] = "rollup"  BY <1>8, <1>0, Moved DEF RemoveLock
    <2>3. Selected(d)' = Selected(d) /\ \A n \in Names : Content(n)' = Content(n)
      BY <2>1, FilesSame DEF Selected
    <2>4. ASSUME NEW w \in Selected(d), w \notin missed PROVE NoneLeft(w)'
      <3>1. NoneLeft(w)  BY <2>1, <2>4 DEF LeftFor
      <3> QED  BY <2>3, <3>1 DEF NoneLeft
    <2>5. LeftFor(d)'  BY <2>1, <2>2, <2>3, <2>4 DEF LeftFor
    <2>6. \A row \in targets'[d] : pc'[row[1]] = "done"
      BY <2>1, <1>t, <1>s DEF FoundFor, Deleting
    <2>7. found'[d] \subseteq targets'[d] /\ OnePerRun(found'[d])
          /\ \A row \in found'[d] : row[1] \in missed' \/ counted'[row[1]] = 0
      BY <2>1 DEF FoundFor
    <2>8. FoundFor(d)'  BY <2>2, <2>6, <2>7 DEF FoundFor, OnePerRun
    <2> QED  BY <2>5, <2>8
  <1>9. CASE Rollup(d)
    <2>1. pc'[d] = "idle"  BY <1>9, <1>0, Moved DEF Rollup
    <2> QED  BY <2>1, <1>i
  <1> QED  BY <1>1, <1>2, <1>3, <1>4, <1>5, <1>6, <1>7, <1>8, <1>9 DEF DeleteStep

LEMMA NextFoundOnce ==
  ASSUME TypeInv, TypeInv', KeepInv, Begun, Unshared, FoundOnce, CountedGone, OneDeletion,
         [Next]_vars, ~raced'
  PROVE  FoundOnce'
  <1>r. ~raced  BY RacedStays
  <1> SUFFICES ASSUME NEW d \in Deleters PROVE FoundFor(d)' /\ LeftFor(d)'
    BY DEF FoundOnce
  <1>i. FoundFor(d) /\ LeftFor(d)  BY DEF FoundOnce
  <1>q. QuietWindow /\ PlaceInv  BY DEF KeepInv, WindowInv
  <1>k. ASSUME pc'[d] = pc[d], UNCHANGED <<parts, targets, found, failed, counted>>,
               UNCHANGED <<data, dir>> \/ pc[d] # "unlink"
        PROVE  FoundFor(d)' /\ LeftFor(d)'
    <2>1. FoundFor(d)'  BY <1>i, <1>k, FoundForKept
    <2>2. LeftFor(d)'  BY <1>i, <1>k, LeftForKept
    <2> QED  BY <2>1, <2>2
  <1>1. ASSUME NEW w \in Writers, RunStep(w) PROVE FoundFor(d)' /\ LeftFor(d)'
    <2>1. pc[d] # "unlink"
      BY <1>1, <1>q, <1>r, MovesHolding DEF QuietWindow, Removing
    <2> QED  BY <1>1, <2>1, <1>k, RunStepFrame
  <1>2. ASSUME NEW w \in Writers, OpenLock(w) \/ Interrupt(w) PROVE FoundFor(d)' /\ LeftFor(d)'
    <2>1. UNCHANGED <<data, dir>>  BY <1>2 DEF OpenLock, Interrupt, fileVars
    <2> QED  BY <1>2, <2>1, <1>k, RunStepFrame
  <1>3. ASSUME NEW w \in Writers, Lock(w) PROVE FoundFor(d)' /\ LeftFor(d)'
    BY <1>3, <1>k, LockFrame
  <1>4. ASSUME NEW e \in Deleters, DeleteStep(e) PROVE FoundFor(d)' /\ LeftFor(d)'
    <2>1. e = d  BY DEF OneDeletion
    <2> QED  BY <1>4, <2>1, <1>i, <1>q, <1>r, DeleteStepFound
  <1>5. ASSUME NEW p \in Procs, Kill(p) PROVE FoundFor(d)' /\ LeftFor(d)'
    <2>1. CASE p = d
      <3>1. p \notin Writers  BY <2>1, ProcessAssumption
      <3>2. pc'[d] = "idle"  BY <1>5, <2>1, <3>1, KillFrame
      <3> QED  BY <3>2 DEF FoundFor, LeftFor, Deleting
    <2>2. CASE p # d
      <3>1. d \in Procs  BY DEF Procs
      <3> QED  BY <1>5, <2>2, <3>1, <1>k, KillFrame
    <2> QED  BY <2>1, <2>2
  <1>6. CASE UNCHANGED vars  BY <1>6, <1>k DEF vars, delVars, fileVars, ghosts
  <1> QED  BY <1>1, <1>2, <1>3, <1>4, <1>5, <1>6 DEF Next

LEMMA NextCountedGone ==
  ASSUME TypeInv, TypeInv', FoundOnce, CountedGone, [Next]_vars PROVE CountedGone'
  <1>m. missed \subseteq missed'  BY MissedStays
  <1>k. ASSUME UNCHANGED counted PROVE CountedGone'
    BY <1>k, <1>m, OverStays DEF CountedGone
  <1>1. CASE \E d \in Deleters : Rollup(d)
    <2>1. PICK d \in Deleters : Rollup(d)  BY <1>1
    <2>2. FoundFor(d) /\ pc[d] = "rollup"  BY <2>1 DEF FoundOnce, Rollup
    <2>3. /\ OnePerRun(found[d])
          /\ \A row \in found[d] : row[1] \in missed \/ (counted[row[1]] = 0 /\ Over(row[1]))
      <3>1. LeftFor(d)  BY DEF FoundOnce
      <3>2. \A row \in found[d] : row[1] \in Selected(d) /\ pc[row[1]] = "done"
        BY <2>2 DEF FoundFor, Selected, Deleting
      <3>3. \A row \in found[d] : row[1] \in missed \/ Over(row[1])
        BY <2>2, <3>1, <3>2 DEF LeftFor, Over
      <3> QED  BY <2>2, <3>3 DEF FoundFor
    <2>c. counted \in [Writers -> Nat]  BY DEF TypeInv, DeletionsOK
    <2>4. CASE counted' = [w \in Writers |->
                             counted[w] + Cardinality({row \in found[d] : row[1] = w})]
      <3> SUFFICES ASSUME NEW w \in Writers, counted'[w] # 0, w \notin missed'
                   PROVE  counted'[w] = 1 /\ Over(w)'
        BY DEF CountedGone
      <3>m. w \notin missed  BY <1>m
      <3>1. counted'[w] = counted[w] + Cardinality({row \in found[d] : row[1] = w})  BY <2>4
      <3>2. CASE \E row \in found[d] : row[1] = w
        <4>1. PICK row \in found[d] : row[1] = w  BY <3>2
        <4>2. {r \in found[d] : r[1] = w} = {row}  BY <4>1, <2>3 DEF OnePerRun
        <4>3. Cardinality({row}) = 1  BY FS_Singleton
        <4>4. counted[w] = 0 /\ Over(w)  BY <4>1, <2>3, <3>m
        <4> QED  BY <3>1, <4>2, <4>3, <4>4, OverStays
      <3>3. CASE ~\E row \in found[d] : row[1] = w
        <4>1. {r \in found[d] : r[1] = w} = {}  BY <3>3
        <4>2. Cardinality({}) = 0  BY FS_EmptySet
        <4>3. counted[w] \in Nat  BY <2>c
        <4>4. counted'[w] = counted[w] + 0  BY <3>1, <4>1, <4>2
        <4>5. counted'[w] = counted[w]  BY <4>3, <4>4
        <4> QED  BY <4>5, <3>m, OverStays DEF CountedGone
      <3> QED  BY <3>2, <3>3
    <2> QED  BY <2>1, <2>4, <1>k DEF Rollup
  <1>2. CASE ~\E d \in Deleters : Rollup(d)
    <2>1. ASSUME NEW w \in Writers, OpenLock(w) \/ Lock(w) \/ Interrupt(w) \/ RunStep(w)
          PROVE  UNCHANGED counted
      BY <2>1, RunStepFrame, LockFrame
    <2>2. ASSUME NEW d \in Deleters, DeleteStep(d) PROVE UNCHANGED counted
      BY <1>2, <2>2 DEF DeleteStep, Select, Plan, Confirm, Scan, ReadAgain, CheckLock, Unlink,
         RemoveLock, ghosts
    <2>3. ASSUME NEW p \in Procs, Kill(p) PROVE UNCHANGED counted  BY <2>3, KillFrame
    <2>4. ASSUME UNCHANGED vars PROVE UNCHANGED counted  BY <2>4 DEF vars, ghosts
    <2> QED  BY <2>1, <2>2, <2>3, <2>4, <1>k DEF Next
  <1> QED  BY <1>1, <1>2

LEMMA InitCount == Init => CountInv
  <1> SUFFICES ASSUME Init PROVE CountInv  OBVIOUS
  <1>1. \A p \in Procs : pc[p] = "idle"  BY DEF Init
  <1>2. \A w \in Writers : sent[w] = 0 /\ counted[w] = 0  BY DEF Init
  <1>3. Begun  BY <1>1, <1>2 DEF Begun, Deleting, Procs
  <1>4. Unshared
    <2>1. Len(data) = 0  BY DEF Init
    <2> QED  BY <2>1 DEF Unshared
  <1>5. FoundOnce
    <2>1. \A d \in Deleters : pc[d] = "idle"  BY <1>1 DEF Procs
    <2> QED  BY <2>1 DEF FoundOnce, FoundFor, LeftFor, Deleting
  <1>6. CountedGone  BY <1>2 DEF CountedGone
  <1> QED  BY <1>3, <1>4, <1>5, <1>6 DEF CountInv

LEMMA NextCount ==
  ASSUME TypeInv, TypeInv', KeepInv, CountInv, OneDeletion, [Next]_vars PROVE CountInv'
  <1>1. Begun'  BY NextBegun DEF CountInv
  <1>2. Unshared'  BY NextUnshared DEF CountInv, KeepInv
  <1>3. ASSUME ~raced' PROVE FoundOnce' /\ CountedGone'
    <2>1. ~raced  BY <1>3, RacedStays
    <2>2. FoundOnce /\ CountedGone /\ Begun /\ Unshared  BY <2>1 DEF CountInv
    <2> QED  BY <1>3, <2>2, NextFoundOnce, NextCountedGone
  <1> QED  BY <1>1, <1>2, <1>3 DEF CountInv

LEMMA CountedGoneOnce == ASSUME TypeInv, CountInv PROVE CountedOnce
  <1> SUFFICES ASSUME ~raced, NEW w \in Writers \ missed, counted[w] > 0
               PROVE  counted[w] = 1 /\ \A i \in 1 .. Len(Retained) : Retained[i][1] # w
    BY DEF CountedOnce
  <1>1. counted[w] \in Nat  BY DEF TypeInv, DeletionsOK
  <1>2. counted[w] = 1 /\ NoneLeft(w)  BY <1>1 DEF CountInv, CountedGone, Over
  <1>3. FilesOK  BY DEF TypeInv, RunOK
  <1>4. PICK name, col : RetainedAs(name, col)  BY <1>3, RetainedLaid
  <1>5. ASSUME NEW i \in 1 .. Len(Retained) PROVE Retained[i][1] # w
    BY <1>2, <1>4 DEF RetainedAs, NoneLeft
  <1> QED  BY <1>2, <1>5

\* A run enters the daily summary at most once, and only when none of it is left, as long
\* as one deletion goes on at a time and none has gone on beside a run: a log that
\* changed, or a part that could not be removed, keeps the run out.
THEOREM CountedOnceAlways == OneDeletion => (Spec => []CountedOnce)
  <1> SUFFICES ASSUME OneDeletion PROVE Spec => []CountedOnce  OBVIOUS
  <1>1. Init => TypeInv /\ TargetFree /\ KeepInv /\ CountInv
    BY InitType, InitLock, InitKeep, InitCount
  <1>2. TypeInv /\ TargetFree /\ KeepInv /\ CountInv /\ [Next]_vars
        => (TypeInv /\ TargetFree /\ KeepInv /\ CountInv)'
    BY NextType, NextFree, NextKeep, NextCount DEF TypeInv
  <1>3. TypeInv /\ CountInv => CountedOnce  BY CountedGoneOnce
  <1> QED  BY <1>1, <1>2, <1>3, PTL DEF Spec
=============================================================================
