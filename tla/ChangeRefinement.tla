-------------------------- MODULE ChangeRefinement --------------------------
(***************************************************************************)
(* The processes of Change implement Guarded, for any number of runs, any  *)
(* contents, faults, crashes, edits and reboots, as long as nobody acts on *)
(* a run while its own apply still works on it (Early = FALSE).            *)
(***************************************************************************)
EXTENDS ChangeProofs

Before(r) == snap[Apply(r)].before

\* The steps of a process that works under the lock of a state file
Acting == {"stop", "stillActive", "rbRead", "rbWrite", "rbVerify", "disarm", "mark"}
\* The steps of an apply before it has written the state file, and the target
Fresh      == {"idle", "hasPending", "prepare", "writeState"}
Unapplied  == Fresh \cup {"arm", "isActive", "applyWrite"}

\* What an apply may rely on: its state file is there from the step that writes it
\* on, its change is not in effect before it is made and not when it is about to
\* be completed without a confirmation.
ApplyOK(r) ==
    /\ pc[Apply(r)] \in Fresh => state[r] = NoState
    /\ pc[Apply(r)] \in Work \ Fresh => state[r] # NoState
    /\ pc[Apply(r)] \in Unapplied => author # r
    /\ pc[Apply(r)] \in {"abortDisarm", "abortMark"} => Owner # r

\* What any process may rely on: under the lock it works on a pending change, it
\* undoes to the target that the apply has seen, and it writes over nobody's change.
ProcOK(p) ==
    /\ stateLock[RunOf(p)] = p /\ pc[p] \in Acting => Pending(state[RunOf(p)])
    /\ pc[p] \in Acting => snap[p].before = Before(RunOf(p))
    /\ p[1] \in {"timer", "rollback"} /\ pc[p] \in {"disarm", "mark"} => Owner # RunOf(p)
    /\ pc[p] = "rbWrite" => author \in {RunOf(p), NoRun}
    /\ pc[p] \in {"stop", "stillActive"} => p[1] \in {"apply", "confirm"}

\* While a change is pending nobody but its own processes and other programs
\* writes the target.
RunOK(r) ==
    /\ state[r] # NoState => state[r].before = Before(r)
    /\ pc[Apply(r)] = "writeState" \/ Pending(state[r]) => author \in {r, NoRun} \/ target = Before(r)

\* A file that is not there has no permission bits.
AbsentIsClean ==
    Kind = "authorized-keys" =>
        /\ target.data = Empty => target.mode = 0
        /\ \A r \in Runs : Before(r).data = Empty => Before(r).mode = 0

RefInv == /\ \A r \in Runs : ApplyOK(r) /\ RunOK(r)
          /\ \A p \in Procs : ProcOK(p)
          /\ AbsentIsClean

Inv == FinalInv /\ PendingInv /\ RefInv

-----------------------------------------------------------------------------
LEMMA NoRunIsNoRun == NoRun \notin Runs
  BY FreshAssumption

LEMMA OwnerIs == \A r \in Runs : Owner = r <=> author = r /\ target # Before(r)
  BY NoRunIsNoRun DEF Owner, Before

LEMMA OwnerSame ==
  ASSUME author' = author, target' = target, \A r \in Runs : Before(r)' = Before(r)
  PROVE  Owner' = Owner
  BY DEF Owner, Before

LEMMA InitRef == Init => RefInv
  <1> SUFFICES ASSUME Init PROVE RefInv  OBVIOUS
  <1>1. \A p \in Procs : pc[p] = "idle" /\ snap[p] = NoSnapshot  BY DEF Init
  <1>2. \A r \in Runs : pc[Apply(r)] = "idle" /\ snap[Apply(r)] = NoSnapshot
    BY <1>1, ApplyIsProc
  <1>3. \A r \in Runs : ApplyOK(r) /\ RunOK(r)
    BY <1>2, NoRunIsNoRun DEF Init, ApplyOK, RunOK, Fresh, Unapplied, Work, Pending
  <1>4. \A p \in Procs : ProcOK(p)
    BY <1>1 DEF ProcOK, Acting
  <1>5. AbsentIsClean
    <2>1. \A r \in Runs : Before(r).mode = 0  BY <1>2 DEF Before, NoSnapshot
    <2>2. target \in InitTargets  BY DEF Init
    <2> QED  BY <2>1, <2>2, AbsentAssumption DEF AbsentIsClean
  <1> QED  BY <1>3, <1>4, <1>5 DEF RefInv

\* A step of process p that leaves the target and the state files alone
LEMMA QuietStep ==
  ASSUME RefInv, TypeOK, NEW p \in Procs, UNCHANGED <<target, author, state>>,
         \A x \in Procs : x # p => pc'[x] = pc[x] /\ snap'[x] = snap[x],
         \A x \in Procs : x # p /\ stateLock'[RunOf(x)] = x => stateLock[RunOf(x)] = x,
         \A r \in Runs : Before(r)' = Before(r),
         ProcOK(p)', p = Apply(RunOf(p)) => ApplyOK(RunOf(p))' /\ pc'[p] # "writeState"
  PROVE  RefInv'
  <1>1. Owner' = Owner  BY OwnerSame
  <1>2. ASSUME NEW x \in Procs, x # p PROVE ProcOK(x)'
    BY <1>1, <1>2, RunOfType DEF RefInv, ProcOK
  <1>3. ASSUME NEW r \in Runs, Apply(r) # p PROVE ApplyOK(r)'
    BY <1>1, <1>3, ApplyIsProc DEF RefInv, ApplyOK
  <1>4. ASSUME NEW r \in Runs PROVE ApplyOK(r)'
    BY <1>3, ApplyIsProc DEF Apply
  <1>5. ASSUME NEW r \in Runs PROVE RunOK(r)'
    <2>1. pc'[Apply(r)] = "writeState" => pc[Apply(r)] = "writeState"
      BY ApplyIsProc
    <2> QED  BY <2>1 DEF RefInv, RunOK
  <1>6. AbsentIsClean'  BY DEF RefInv, AbsentIsClean
  <1> QED  BY <1>2, <1>4, <1>5, <1>6 DEF RefInv

-----------------------------------------------------------------------------
(* Who may act, and on what                                                *)

LEMMA Typed1 == ASSUME Inv PROVE TypeOK /\ RefInv  BY DEF Inv, FinalInv

\* An apply between its first and its last write works on a pending change
LEMMA WorkIsPending ==
  ASSUME Inv, NEW r \in Runs, pc[Apply(r)] \in Work \ Fresh
  PROVE  Pending(state[r]) /\ r \notin kept
  BY DEF Inv, RefInv, ApplyOK, FinalInv, OpenWhileWorking, OwnWork, Pending

LEMMA ActingIsPending ==
  ASSUME Inv, NEW p \in Procs, pc[p] \in Acting
  PROVE  Pending(state[RunOf(p)]) /\ RunOf(p) \notin kept
  <1>r. RunOf(p) \in Runs  BY RunOfType
  <1>1. CASE stateLock[RunOf(p)] = p
    <2>1. Pending(state[RunOf(p)])  BY <1>1 DEF Inv, RefInv, ProcOK
    <2> QED  BY <2>1, <1>r DEF Inv, FinalInv, KeptIsClosed, Pending
  <1>2. CASE stateLock[RunOf(p)] # p
    <2>1. p = Apply(RunOf(p)) /\ pc[p] \in {"rbRead", "rbWrite", "rbVerify"}
      BY <1>2 DEF Inv, FinalInv, StateLockHeld, Body, Other, Acting
    <2>2. pc[Apply(RunOf(p))] \in Work \ Fresh  BY <2>1 DEF Work, Fresh
    <2> QED  BY <2>2, <1>r, WorkIsPending
  <1> QED  BY <1>1, <1>2

\* Nobody else acts on a run whose apply is not over
LEMMA OthersIdle ==
  ASSUME Inv, NEW r \in Runs, pc[Apply(r)] \in OwnWork, NEW x \in Procs, x # Apply(r), RunOf(x) = r
  PROVE  pc[x] = "idle"
  BY DEF Inv, FinalInv, Quiescent, Other

\* At most one process acts, on whatever run
LEMMA OneActs ==
  ASSUME Inv, NEW p \in Procs, pc[p] \in Acting, NEW x \in Procs, x # p
  PROVE  pc[x] \notin Acting
  <1> SUFFICES ASSUME pc[x] \in Acting PROVE FALSE  OBVIOUS
  <1>r. RunOf(p) \in Runs /\ RunOf(x) \in Runs  BY RunOfType
  <1>1. RunOf(x) = RunOf(p)
    BY <1>r, ActingIsPending DEF Inv, PendingInv, AtMostOnePending
  <1>2. ASSUME NEW y \in Procs, RunOf(y) = RunOf(p), pc[y] \in Acting
        PROVE  \/ stateLock[RunOf(p)] = y
               \/ y = Apply(RunOf(p)) /\ pc[y] \in OwnWork
    BY <1>2 DEF Inv, FinalInv, StateLockHeld, Body, Other, Acting, OwnWork, Work
  <1>3. "idle" \notin Acting  BY DEF Acting
  <1> QED  BY <1>1, <1>2, <1>3, <1>r, OthersIdle

\* While an apply may write, nobody acts on another run
LEMMA WritingAlone ==
  ASSUME Inv, NEW r \in Runs, pc[Apply(r)] \in Writing, NEW x \in Procs, RunOf(x) # r
  PROVE  pc[x] \notin Acting
  BY RunOfType, ActingIsPending DEF Inv, PendingInv, OthersClosed

LEMMA OneApplyWorks ==
  ASSUME Inv, NEW r \in Runs, NEW q \in Runs, q # r, pc[Apply(r)] \notin {"idle", "done"}
  PROVE  pc[Apply(q)] \in {"idle", "done"}
  BY OneApply DEF Inv, PendingInv

-----------------------------------------------------------------------------
(* Steps that leave the target and the state files alone                   *)

LEMMA Stutter ==
  ASSUME UNCHANGED <<state, kept, edits>>, Owner' = Owner PROVE UNCHANGED Promise!vars
  BY DEF Promise!vars

LEMMA RecordStep ==
  ASSUME TypeOK, NEW r \in Runs, state[r] = NoState, r \notin kept, \A q \in Runs : ~Pending(state[q]),
         NEW s \in Snapshots, ~s.completed, state' = [state EXCEPT ![r] = s],
         UNCHANGED <<kept, edits>>, Owner' = Owner
  PROVE  Promise!Record(r)
  <1>1. s # NoState  BY FreshAssumption
  <1> QED  BY <1>1 DEF Promise!Record, RecordOf, Pending, TypeOK

\* A step of an apply outside the lock
LEMMA QuietApply ==
  ASSUME Inv, NEW r \in Runs, NEW l \in PCs, Goto(Apply(r), l),
         UNCHANGED <<target, author, state, stateLock, kept, edits>>,
         \A x \in Procs : x # Apply(r) => snap'[x] = snap[x],
         snap'[Apply(r)].before = Before(r),
         l \notin {"writeState", "rbWrite", "stop", "stillActive"},
         l \in Acting => Pending(state[r]), ApplyOK(r)'
  PROVE  RefInv' /\ UNCHANGED Promise!vars
  <1>1. Apply(r) \in Procs /\ RunOf(Apply(r)) = r /\ Apply(r)[1] = "apply"  BY ApplyIsProc
  <1>2. pc'[Apply(r)] = l /\ \A x \in Procs : x # Apply(r) => pc'[x] = pc[x]
    BY <1>1, Typed1 DEF Goto, TypeOK
  <1>3. \A q \in Runs : Before(q)' = Before(q)
    BY ApplyIsProc, ApplyInjective DEF Before
  <1>4. ProcOK(Apply(r))'  BY <1>1, <1>2 DEF ProcOK, Before
  <1>5. RefInv'  BY <1>1, <1>2, <1>3, <1>4, QuietStep, Typed1
  <1> QED  BY <1>3, <1>5, OwnerSame, Stutter

LEMMA ApplyQuietSteps ==
  ASSUME Inv, NEW r \in Runs,
         \/ LockApply(r) \/ HasPendingChange(r) \/ ArmChangeGuard(r) \/ VerifyGuard(r)
         \/ AbortDisarm(r) \/ SaveApplied(r) \/ FailSave(r) \/ UnlockApply(r)
  PROVE  RefInv' /\ UNCHANGED Promise!vars
  <1>t. TypeOK /\ ApplyOK(r) /\ Apply(r) \in Procs  BY Typed1, ApplyIsProc DEF RefInv
  <1>o. author # r => Owner # r  BY OwnerIs
  <1>1. PICK l \in PCs : Goto(Apply(r), l) /\ l \notin Acting \ {"rbRead"} /\ l # "writeState"
    BY DEF LockApply, HasPendingChange, ArmChangeGuard, VerifyGuard, AbortDisarm, SaveApplied,
           FailSave, UnlockApply, PCs, Acting
  <1>2. /\ UNCHANGED <<target, author, state, stateLock, kept, edits>>
        /\ \A x \in Procs : x # Apply(r) => snap'[x] = snap[x]
        /\ snap'[Apply(r)].before = Before(r)
    BY <1>t DEF LockApply, HasPendingChange, ArmChangeGuard, VerifyGuard, AbortDisarm, SaveApplied,
           FailSave, UnlockApply, Before, TypeOK, Snapshots, env
  <1>3. pc'[Apply(r)] = l  BY <1>1, <1>t DEF Goto, TypeOK
  <1>4. l = "rbRead" => pc[Apply(r)] = "failSave"
    BY <1>3, <1>t DEF LockApply, HasPendingChange, ArmChangeGuard, VerifyGuard, AbortDisarm, SaveApplied,
           FailSave, UnlockApply, Goto, TypeOK
  <1>5. l \in Acting => Pending(state[r])
    <2>1. "failSave" \in Work \ Fresh  BY DEF Work, Fresh
    <2> QED  BY <1>1, <1>4, <2>1, WorkIsPending DEF Acting
  <1>6. \A q \in Runs : Before(q)' = Before(q)
    BY <1>2, ApplyIsProc, ApplyInjective DEF Before
  <1>7. Owner' = Owner  BY <1>2, <1>6, OwnerSame
  <1>8. ApplyOK(r)'
    <2>1. /\ l \in Fresh => pc[Apply(r)] \in Fresh
          /\ l \in Work \ Fresh => pc[Apply(r)] \in Work \ Fresh
          /\ l \in Unapplied => pc[Apply(r)] \in Unapplied
          /\ l \in {"abortDisarm", "abortMark"} =>
               pc[Apply(r)] \in {"abortDisarm", "abortMark"} \cup Unapplied
      BY <1>3, <1>t DEF LockApply, HasPendingChange, ArmChangeGuard, VerifyGuard, AbortDisarm,
         SaveApplied, FailSave, UnlockApply, Goto, TypeOK, Fresh, Work, Unapplied
    <2> QED  BY <1>2, <1>3, <1>7, <1>o, <1>t, <2>1 DEF ApplyOK
  <1> QED  BY <1>1, <1>2, <1>5, <1>8, QuietApply DEF Acting

\* A step of a timer's job, a command, or an apply that confirms or undoes
LEMMA QuietGuard ==
  ASSUME Inv, NEW p \in Procs, NEW l \in PCs, Goto(p, l),
         UNCHANGED <<target, author, state, kept, edits>>,
         \A x \in Procs : x # p /\ stateLock'[RunOf(x)] = x => stateLock[RunOf(x)] = x,
         \A x \in Procs : x # p => snap'[x] = snap[x],
         p = Apply(RunOf(p)) => snap'[p].before = snap[p].before,
         p = Apply(RunOf(p)) => ApplyOK(RunOf(p))' /\ l # "writeState",
         ProcOK(p)'
  PROVE  RefInv' /\ UNCHANGED Promise!vars
  <1>2. pc'[p] = l /\ \A x \in Procs : x # p => pc'[x] = pc[x]
    BY Typed1 DEF Goto, TypeOK
  <1>3. \A q \in Runs : Before(q)' = Before(q)
    BY ApplyIsProc DEF Before
  <1>4. RefInv'  BY <1>2, <1>3, QuietStep, Typed1
  <1> QED  BY <1>3, <1>4, OwnerSame, Stutter

LEMMA GuardQuietSteps ==
  ASSUME Inv, NEW p \in Procs,
         \/ LockState(p) \/ ReadChangeState(p) \/ ConfirmStop(p) \/ ConfirmStillActive(p)
         \/ RollbackRead(p) \/ RollbackVerify(p) \/ Disarm(p) \/ UnlockState(p)
  PROVE  RefInv' /\ UNCHANGED Promise!vars
  <1> DEFINE r == RunOf(p)
  <1>t. TypeOK /\ ProcOK(p) /\ r \in Runs  BY Typed1, RunOfType DEF RefInv
  <1>k. RunOK(r) /\ ApplyOK(r)  BY <1>t, Typed1 DEF RefInv
  <1>o. p = Apply(r) <=> p[1] = "apply"  BY OtherRole DEF Other
  <1>1. PICK l \in PCs : Goto(p, l)
    BY DEF LockState, ReadChangeState, ConfirmStop, ConfirmStillActive, RollbackRead,
           RollbackVerify, Disarm, UnlockState, Leave, AfterBody, AfterUndo, PCs
  <1>2. pc'[p] = l  BY <1>1, <1>t DEF Goto, TypeOK
  <1>3. UNCHANGED <<target, author, state, kept, edits>>
    BY DEF LockState, ReadChangeState, ConfirmStop, ConfirmStillActive, RollbackRead,
           RollbackVerify, Disarm, UnlockState, env
  <1>4. \A x \in Procs : x # p => snap'[x] = snap[x]
    BY <1>t DEF LockState, ReadChangeState, ConfirmStop, ConfirmStillActive, RollbackRead,
           RollbackVerify, Disarm, UnlockState, Leave, Forget, TypeOK
  <1>5. \A x \in Procs : x # p /\ stateLock'[RunOf(x)] = x => stateLock[RunOf(x)] = x
    BY <1>t, FreeIsNoProc, RunOfType
       DEF LockState, ReadChangeState, ConfirmStop, ConfirmStillActive, RollbackRead,
           RollbackVerify, Disarm, UnlockState, TypeOK
  <1>6. CASE ReadChangeState(p)
    <2>1. CASE Readable(state[r]) /\ ~state[r].completed
      <3>1. snap'[p] = state[r] /\ l = IF Confirming(p) THEN "stop" ELSE "rbRead"
        BY <1>2, <1>6, <1>t, <2>1 DEF ReadChangeState, Goto, TypeOK
      <3>2. state[r] # NoState /\ Pending(state[r]) /\ state[r].before = Before(r)
        BY <1>k, <2>1 DEF Readable, Pending, RunOK
      <3>3. p = Apply(r) => l = "stop"
        BY <1>6, <1>o, <3>1 DEF Inv, FinalInv, StateLockHeld, Confirming, ReadChangeState
      <3>4. l = "stop" => p[1] \in {"apply", "confirm"}  BY <3>1 DEF Confirming
      <3>5. p = Apply(r) => snap'[p].before = snap[p].before  BY <3>1, <3>2 DEF Before
      <3>6. Before(r)' = Before(r)  BY <1>4, <1>t, <3>5, ApplyIsProc DEF Before
      <3>7. ProcOK(p)'
        BY <1>2, <1>3, <3>1, <3>2, <3>4, <3>6 DEF ProcOK
      <3>8. p = Apply(r) => ApplyOK(r)'
        BY <1>2, <3>3 DEF ApplyOK, Fresh, Unapplied, Work
      <3> QED  BY <1>1, <1>3, <1>4, <1>5, <3>1, <3>5, <3>7, <3>8, QuietGuard
    <2>2. CASE ~(Readable(state[r]) /\ ~state[r].completed)
      <3>1. l = "unlockState" /\ snap' = snap
        BY <1>2, <1>6, <1>t, <2>2 DEF ReadChangeState, Goto, TypeOK
      <3>2. ProcOK(p)'  BY <1>2, <3>1 DEF ProcOK, Acting
      <3>3. p = Apply(r) => ApplyOK(r)'  BY <1>2, <3>1 DEF ApplyOK, Fresh, Unapplied, Work
      <3> QED  BY <1>1, <1>3, <1>4, <1>5, <3>1, <3>2, <3>3, QuietGuard
    <2> QED  BY <2>1, <2>2
  <1>7. CASE ~ReadChangeState(p)
    <2>1. p = Apply(r) => snap'[p] = snap[p]
      BY <1>7, <1>o DEF LockState, ConfirmStop, ConfirmStillActive, RollbackRead,
           RollbackVerify, Disarm, UnlockState, Leave, Forget
    <2>2. l \in Acting => snap' = snap /\ stateLock' = stateLock /\ pc[p] \in Acting
      BY <1>2, <1>7, <1>t DEF LockState, ConfirmStop, ConfirmStillActive, RollbackRead,
           RollbackVerify, Disarm, UnlockState, Leave, Goto, Acting, TypeOK
    <2>3. \A q \in Runs : Before(q)' = Before(q)
      BY <1>4, <2>1, ApplyIsProc DEF Before
    <2>4. Owner' = Owner  BY <1>3, <2>3, OwnerSame
    <2>5. l \in {"disarm", "abortDisarm"} => Owner # r
      <3>1. l \in {"disarm", "abortDisarm"} => Restored(snap[p], target) /\ pc[p] \in Acting
        BY <1>2, <1>7, <1>t DEF LockState, ConfirmStop, ConfirmStillActive, RollbackRead,
           RollbackVerify, Disarm, UnlockState, Leave, Goto, AfterBody, AfterUndo, TypeOK, Acting
      <3> QED  BY <3>1, <1>t, OwnerIs DEF Restored, ProcOK
    <2>6. p[1] \in {"timer", "rollback"} /\ l = "mark" => pc[p] = "disarm"
      BY <1>2, <1>7, <1>t DEF LockState, ConfirmStop, ConfirmStillActive, RollbackRead,
           RollbackVerify, Disarm, UnlockState, Leave, Goto, AfterBody, AfterUndo, TypeOK, ProcOK
    <2>7. l = "rbWrite" => author \in {r, NoRun}
      <3>1. l = "rbWrite" => pc[p] \in Acting /\ target # snap[p].before
        BY <1>2, <1>7, <1>t DEF LockState, ConfirmStop, ConfirmStillActive, RollbackRead, Restored,
           RollbackVerify, Disarm, UnlockState, Leave, Goto, AfterBody, AfterUndo, TypeOK, Acting
      <3> QED  BY <3>1, <1>t, <1>k, ActingIsPending DEF ProcOK, RunOK
    <2>8. l \in {"stop", "stillActive"} => pc[p] \in {"stop", "stillActive"}
      BY <1>2, <1>7, <1>t DEF LockState, ConfirmStop, ConfirmStillActive, RollbackRead,
           RollbackVerify, Disarm, UnlockState, Leave, Goto, AfterBody, AfterUndo, TypeOK
    <2>9. ProcOK(p)'
      BY <1>2, <1>3, <1>t, <2>2, <2>3, <2>4, <2>5, <2>6, <2>7, <2>8, ActingIsPending DEF ProcOK
    <2>10. p = Apply(r) => ApplyOK(r)' /\ l # "writeState"
      <3>1. p = Apply(r) => l \notin Fresh \cup {"arm", "isActive", "applyWrite", "abortMark"}
        BY <1>2, <1>7, <1>t, <1>o DEF LockState, ConfirmStop, ConfirmStillActive, RollbackRead,
           RollbackVerify, Disarm, UnlockState, Leave, Goto, AfterBody, AfterUndo, TypeOK, Fresh
      <3>2. p = Apply(r) /\ l \in Work \ Fresh => pc[p] \in Work \ Fresh
        BY <1>2, <1>7, <1>t, <1>o DEF LockState, ConfirmStop, ConfirmStillActive, RollbackRead,
           RollbackVerify, Disarm, UnlockState, Leave, Goto, AfterBody, AfterUndo, TypeOK, Fresh, Work
      <3> QED  BY <1>2, <1>3, <1>k, <2>4, <2>5, <3>1, <3>2 DEF ApplyOK, Unapplied, Fresh
    <2> QED  BY <1>1, <1>3, <1>4, <1>5, <2>1, <2>9, <2>10, QuietGuard
  <1> QED  BY <1>6, <1>7

\* What starts and ends the processes
LEMMA CommandStep ==
  ASSUME Inv, NEW p \in Procs, Command(p) PROVE RefInv' /\ UNCHANGED Promise!vars
  <1>1. p # Apply(RunOf(p)) /\ "lock" \in PCs
    BY TypedAssumption, OtherRole DEF Command, Other, PCs
  <1>2. pc'[p] = "lock"  BY Typed1 DEF Command, Goto, TypeOK
  <1>3. ProcOK(p)'  BY <1>2 DEF ProcOK, Acting
  <1> QED  BY <1>1, <1>3, QuietGuard DEF Command, env

LEMMA TimerFiresStep ==
  ASSUME Inv, NEW r \in Runs, TimerFires(r) PROVE RefInv' /\ UNCHANGED Promise!vars
  <1> DEFINE p == <<"timer", r>>
  <1>0. p \in Procs /\ p[1] = "timer"  BY DEF Procs, Roles
  <1>1. p # Apply(RunOf(p)) /\ "lock" \in PCs  BY <1>0, OtherRole DEF Other, PCs
  <1>2. Goto(p, "lock")  BY DEF TimerFires
  <1> HIDE DEF p
  <1>3. pc'[p] = "lock"  BY <1>0, <1>2, Typed1 DEF Goto, TypeOK
  <1>4. ProcOK(p)'  BY <1>3 DEF ProcOK, Acting
  <1> QED  BY <1>0, <1>1, <1>2, <1>4, QuietGuard DEF TimerFires, env

LEMMA CrashStep ==
  ASSUME Inv, NEW p \in Procs, Crash(p) PROVE RefInv' /\ UNCHANGED Promise!vars
  <1>o. p = Apply(RunOf(p)) <=> p[1] = "apply"  BY OtherRole DEF Other
  <1>1. PICK l \in PCs : Goto(p, l) /\ l \in {"idle", "done"} /\ (p[1] = "apply" => l = "done")
    BY DEF Crash, PCs
  <1>2. pc'[p] = l  BY <1>1, Typed1 DEF Goto, TypeOK
  <1>3. ProcOK(p)'  BY <1>1, <1>2 DEF ProcOK, Acting
  <1>4. p = Apply(RunOf(p)) => ApplyOK(RunOf(p))'
    BY <1>1, <1>2, <1>o DEF ApplyOK, Fresh, Unapplied, Work
  <1>5. /\ \A x \in Procs : x # p => snap'[x] = snap[x]
        /\ p = Apply(RunOf(p)) => snap'[p] = snap[p]
    BY <1>o, Typed1 DEF Crash, Forget, TypeOK
  <1>6. \A x \in Procs : x # p /\ stateLock'[RunOf(x)] = x => stateLock[RunOf(x)] = x
    BY RunOfType, FreeIsNoProc DEF Crash, Dropped
  <1> QED  BY <1>1, <1>3, <1>4, <1>5, <1>6, QuietGuard DEF Crash

-----------------------------------------------------------------------------
(* Steps that write the state file                                         *)

\* Process p writes snapshot s of its run and nothing else
LEMMA StateStep ==
  ASSUME Inv, NEW p \in Procs, NEW l \in PCs, Goto(p, l),
         UNCHANGED <<target, author, snap, stateLock>>,
         NEW s \in Snapshots, s.before = Before(RunOf(p)), state' = [state EXCEPT ![RunOf(p)] = s],
         Pending(s) \/ \A x \in Procs : x # p /\ RunOf(x) = RunOf(p) => pc[x] \notin Acting,
         Pending(s) => author \in {RunOf(p), NoRun} \/ target = Before(RunOf(p)),
         ProcOK(p)', l # "writeState",
         p = Apply(RunOf(p)) => ApplyOK(RunOf(p))',
         p # Apply(RunOf(p)) => pc[Apply(RunOf(p))] \notin Fresh
  PROVE  RefInv' /\ Owner' = Owner
  <1> DEFINE r == RunOf(p)
  <1>r. r \in Runs /\ s # NoState  BY RunOfType, FreshAssumption
  <1>t. TypeOK /\ RefInv  BY Typed1
  <1>1. pc'[p] = l /\ \A x \in Procs : x # p => pc'[x] = pc[x]  BY <1>t DEF Goto, TypeOK
  <1>2. state'[r] = s /\ \A q \in Runs : q # r => state'[q] = state[q]
    BY <1>r, <1>t DEF TypeOK
  <1>3. \A q \in Runs : Before(q)' = Before(q)  BY DEF Before
  <1>4. Owner' = Owner  BY <1>3, OwnerSame
  <1> HIDE DEF r
  <1>5. ASSUME NEW x \in Procs, x # p PROVE ProcOK(x)'
    <2>1. RunOf(x) \in Runs  BY RunOfType
    <2>2. pc[x] \in Acting /\ Pending(state[RunOf(x)]) => Pending(state'[RunOf(x)])
      BY <1>2, <1>5, <2>1 DEF r
    <2> QED  BY <1>1, <1>3, <1>4, <1>5, <1>t, <2>1, <2>2 DEF RefInv, ProcOK
  <1>6. ASSUME NEW q \in Runs PROVE ApplyOK(q)'
    <2>1. CASE Apply(q) = p  BY <2>1, ApplyIsProc
    <2>2. CASE Apply(q) # p
      <3>1. pc'[Apply(q)] = pc[Apply(q)]  BY <1>1, <2>2, ApplyIsProc
      <3>2. ApplyOK(q)  BY <1>t DEF RefInv
      <3>3. CASE q = r
        <4>1. pc[Apply(q)] \notin Fresh  BY <2>2, <3>3 DEF r
        <4> QED  BY <1>2, <1>4, <1>r, <3>1, <3>2, <3>3, <4>1 DEF ApplyOK
      <3>4. CASE q # r  BY <1>2, <1>4, <3>1, <3>2, <3>4 DEF ApplyOK
      <3> QED  BY <3>3, <3>4
    <2> QED  BY <2>1, <2>2
  <1>7. ASSUME NEW q \in Runs PROVE RunOK(q)'
    <2>1. pc'[Apply(q)] = "writeState" => q # r /\ pc[Apply(q)] = "writeState"
      <3>1. CASE Apply(q) = p  BY <1>1, <3>1
      <3>2. CASE Apply(q) # p
        <4>1. pc'[Apply(q)] = pc[Apply(q)]  BY <1>1, <3>2, ApplyIsProc
        <4> QED  BY <3>2, <4>1 DEF r, Fresh
      <3> QED  BY <3>1, <3>2
    <2>2. RunOK(q)  BY <1>t DEF RefInv
    <2>3. CASE q = r  BY <1>2, <1>3, <2>1, <2>3 DEF RunOK, r
    <2>4. CASE q # r  BY <1>2, <1>3, <2>1, <2>2, <2>4 DEF RunOK
    <2> QED  BY <2>3, <2>4
  <1>8. AbsentIsClean'  BY <1>3, <1>t DEF RefInv, AbsentIsClean
  <1>9. \A x \in Procs : ProcOK(x)'  BY <1>5
  <1> QED  BY <1>4, <1>6, <1>7, <1>8, <1>9 DEF RefInv

\* A state file is there and remains what it was for the promise
LEMMA SameRecord ==
  ASSUME TypeOK, NEW r \in Runs, Pending(state[r]), NEW s \in Snapshots, ~s.completed,
         state' = [state EXCEPT ![r] = s], UNCHANGED <<kept, edits>>, Owner' = Owner
  PROVE  UNCHANGED Promise!vars
  <1>1. s # NoState  BY FreshAssumption
  <1>2. \A q \in Runs : RecordOf(state'[q]) = RecordOf(state[q])
    BY <1>1 DEF RecordOf, Pending, TypeOK
  <1> QED  BY <1>2 DEF Promise!vars

LEMMA CloseStep ==
  ASSUME TypeOK, NEW r \in Runs, Pending(state[r]), NEW s \in Snapshots, s.completed,
         state' = [state EXCEPT ![r] = s], UNCHANGED <<kept, edits>>, Owner' = Owner, Owner # r
  PROVE  Promise!Close(r)
  <1>1. s # NoState  BY FreshAssumption
  <1> QED  BY <1>1 DEF Promise!Close, RecordOf, Pending, TypeOK

LEMMA KeepStep ==
  ASSUME TypeOK, NEW r \in Runs, Pending(state[r]), NEW s \in Snapshots, s.completed,
         state' = [state EXCEPT ![r] = s], kept' = kept \cup {r}, UNCHANGED edits, Owner' = Owner
  PROVE  Promise!Keep(r)
  <1>1. s # NoState  BY FreshAssumption
  <1> QED  BY <1>1 DEF Promise!Keep, RecordOf, Pending, TypeOK

\* The next step's label, and what an apply relies on there
LEMMA ApplyMoves ==
  ASSUME Inv, NEW r \in Runs, NEW l \in PCs, Goto(Apply(r), l), UNCHANGED <<snap, stateLock>>,
         l \notin Unapplied, l \notin {"abortDisarm", "abortMark", "rbWrite", "stop", "stillActive"},
         l \in Work => state'[r] # NoState, l \in Acting => Pending(state'[r])
  PROVE  ProcOK(Apply(r))' /\ ApplyOK(r)'
  <1>1. Apply(r) \in Procs /\ RunOf(Apply(r)) = r /\ Apply(r)[1] = "apply"  BY ApplyIsProc
  <1>2. pc'[Apply(r)] = l  BY <1>1, Typed1 DEF Goto, TypeOK
  <1>3. ProcOK(Apply(r))'  BY <1>1, <1>2 DEF ProcOK, Before
  <1> QED  BY <1>2, <1>3 DEF ApplyOK, Unapplied

LEMMA WriteChangeStateStep ==
  ASSUME Inv, NEW r \in Runs, WriteChangeState(r)
  PROVE  RefInv' /\ [Promise!Next]_(Promise!vars)
  <1>p. Apply(r) \in Procs /\ RunOf(Apply(r)) = r  BY ApplyIsProc
  <1>t. TypeOK /\ ApplyOK(r) /\ RunOK(r)  BY Typed1 DEF RefInv
  <1>s. snap[Apply(r)] \in Snapshots /\ ~snap[Apply(r)].completed
    BY <1>p, <1>t DEF TypeOK, Inv, FinalInv, SnapsOpen
  <1>a. pc[Apply(r)] = "writeState"  BY DEF WriteChangeState
  <1>1. CASE state' = [state EXCEPT ![r] = snap[Apply(r)]] /\ Goto(Apply(r), "arm")
    <2>1. state[r] = NoState /\ author # r  BY <1>a, <1>t DEF ApplyOK, Fresh, Unapplied
    <2>2. r \notin kept  BY <1>a DEF Inv, FinalInv, OpenWhileWorking, OwnWork, Work
    <2>3. \A q \in Runs : ~Pending(state[q])
      BY <1>a, <2>1 DEF Inv, PendingInv, OthersClosed, Writing, Pending
    <2>4. state'[r] = snap[Apply(r)] /\ snap[Apply(r)] # NoState
      BY <1>1, <1>s, <1>t, FreshAssumption DEF TypeOK
    <2>5. pc'[Apply(r)] = "arm" /\ "arm" \in PCs  BY <1>1, <1>p, <1>t DEF Goto, TypeOK, PCs
    <2>6. UNCHANGED <<target, author, snap, stateLock, kept, edits>>  BY DEF WriteChangeState, env
    <2>7. ProcOK(Apply(r))'  BY <1>p, <2>5 DEF ProcOK, Acting
    <2>8. ApplyOK(r)'
      BY <2>1, <2>4, <2>5, <2>6 DEF ApplyOK, Fresh, Unapplied, Work
    <2>9. author \in {r, NoRun} \/ target = Before(r)  BY <1>a, <1>t DEF RunOK
    <2>10. Pending(snap[Apply(r)])  BY <1>s, <2>4 DEF Pending
    <2>11. snap[Apply(r)].before = Before(r)  BY DEF Before
    <2>12. RefInv' /\ Owner' = Owner
      BY <1>1, <1>p, <1>s, <2>5, <2>6, <2>7, <2>8, <2>9, <2>10, <2>11, StateStep
    <2>13. Promise!Record(r)
      BY <1>1, <1>s, <1>t, <2>1, <2>2, <2>3, <2>6, <2>12, RecordStep
    <2> QED  BY <2>12, <2>13 DEF Promise!Next
  <1>2. CASE Goto(Apply(r), "unlock") /\ UNCHANGED state
    <2>1. "unlock" \in PCs /\ "unlock" \notin Unapplied \cup Acting \cup Work
      BY DEF PCs, Unapplied, Fresh, Acting, Work
    <2>2. UNCHANGED <<target, author, snap, stateLock, kept, edits, state>>
      BY <1>2 DEF WriteChangeState, env
    <2>3. ApplyOK(r)'  BY <1>2, <2>1, <2>2, ApplyMoves
    <2>4. RefInv' /\ UNCHANGED Promise!vars
      BY <1>2, <2>1, <2>2, <2>3, QuietApply DEF Before
    <2> QED  BY <2>4
  <1> QED  BY <1>1, <1>2 DEF WriteChangeState

\* The state file gains the rules that were loaded, or stays
LEMMA AppliedSteps ==
  ASSUME Inv, NEW r \in Runs, WriteApplied(r) \/ FailWrite(r)
  PROVE  RefInv' /\ UNCHANGED Promise!vars
  <1>p. Apply(r) \in Procs /\ RunOf(Apply(r)) = r  BY ApplyIsProc
  <1>t. TypeOK /\ RunOK(r)  BY Typed1 DEF RefInv
  <1>s. snap[Apply(r)] \in Snapshots /\ ~snap[Apply(r)].completed
    BY <1>p, <1>t DEF TypeOK, Inv, FinalInv, SnapsOpen
  <1>a. pc[Apply(r)] \in Work \ Fresh  BY DEF WriteApplied, FailWrite, Work, Fresh
  <1>w. Pending(state[r])  BY <1>a, WorkIsPending
  <1>1. PICK l \in {"unlock", "lock", "failSave", "rbRead"} : Goto(Apply(r), l)
    BY DEF WriteApplied, FailWrite
  <1>2. l \in PCs /\ l \notin Unapplied /\ l # "writeState"
    BY DEF PCs, Unapplied, Fresh
  <1>3. UNCHANGED <<target, author, snap, stateLock, kept, edits>>
    BY DEF WriteApplied, FailWrite, env
  <1>4. Pending(snap[Apply(r)])  BY <1>s, FreshAssumption DEF Pending
  <1>5. state' = [state EXCEPT ![r] = snap[Apply(r)]] \/ state' = state
    BY DEF WriteApplied, FailWrite
  <1>6. Pending(state'[r])  BY <1>4, <1>5, <1>t, <1>w DEF TypeOK
  <1>7. ProcOK(Apply(r))' /\ ApplyOK(r)'
    <2>1. state'[r] # NoState  BY <1>6 DEF Pending
    <2> QED  BY <1>1, <1>2, <1>3, <1>6, <2>1, ApplyMoves
  <1>8. CASE state' = state
    BY <1>1, <1>2, <1>3, <1>7, <1>8, <1>w, QuietApply DEF Before
  <1>9. CASE state' = [state EXCEPT ![r] = snap[Apply(r)]]
    <2>1. author \in {r, NoRun} \/ target = Before(r)  BY <1>t, <1>w DEF RunOK
    <2>2. snap[Apply(r)].before = Before(r)  BY DEF Before
    <2>3. RefInv' /\ Owner' = Owner
      BY <1>1, <1>2, <1>3, <1>4, <1>7, <1>9, <1>p, <1>s, <2>1, <2>2, StateStep
    <2> QED  BY <1>3, <1>9, <1>s, <1>t, <1>w, <2>3, SameRecord
  <1> QED  BY <1>5, <1>8, <1>9

\* A change that was not made is completed
LEMMA AbortMarkStep ==
  ASSUME Inv, NEW r \in Runs, AbortMark(r)
  PROVE  RefInv' /\ [Promise!Next]_(Promise!vars)
  <1>p. Apply(r) \in Procs /\ RunOf(Apply(r)) = r  BY ApplyIsProc
  <1>t. TypeOK /\ ApplyOK(r)  BY Typed1 DEF RefInv
  <1>s. snap[Apply(r)] \in Snapshots  BY <1>p, <1>t DEF TypeOK
  <1>a. pc[Apply(r)] = "abortMark" /\ Goto(Apply(r), "unlock")  BY DEF AbortMark
  <1>w. Pending(state[r])  BY <1>a, WorkIsPending DEF Work, Fresh
  <1>1. "unlock" \in PCs /\ "unlock" \notin Unapplied \cup Acting \cup Work /\ "idle" \notin Acting
    BY DEF PCs, Unapplied, Fresh, Acting, Work
  <1>2. UNCHANGED <<target, author, snap, stateLock, kept, edits>>  BY DEF AbortMark, env
  <1>3. ProcOK(Apply(r))' /\ ApplyOK(r)'  BY <1>a, <1>1, <1>2, ApplyMoves
  <1>4. CASE state' = state
    <2>1. RefInv' /\ UNCHANGED Promise!vars
      BY <1>a, <1>1, <1>2, <1>3, <1>4, QuietApply DEF Before
    <2> QED  BY <2>1
  <1>5. CASE state' = [state EXCEPT ![r] = Completed(snap[Apply(r)])]
    <2> DEFINE s == Completed(snap[Apply(r)])
    <2>1. s \in Snapshots /\ s.completed  BY <1>s, CompletedType
    <2>2. s.before = Before(r)  BY <1>s DEF Completed, Before, Snapshots
    <2>3. state' = [state EXCEPT ![r] = s]  BY <1>5
    <2>4. ~Pending(s)  BY <2>1 DEF Pending
    <2> HIDE DEF s
    <2>5. \A x \in Procs : x # Apply(r) /\ RunOf(x) = r => pc[x] \notin Acting
      BY <1>a, <1>1, OthersIdle DEF OwnWork, Work
    <2>6. RefInv' /\ Owner' = Owner
      BY <1>a, <1>1, <1>2, <1>3, <1>p, <2>1, <2>2, <2>3, <2>4, <2>5, StateStep DEF Unapplied, Fresh
    <2>7. Owner # r  BY <1>a, <1>t DEF ApplyOK
    <2>8. Promise!Close(r)  BY <1>2, <1>t, <1>w, <2>1, <2>3, <2>6, <2>7, CloseStep
    <2> QED  BY <2>6, <2>8 DEF Promise!Next
  <1> QED  BY <1>4, <1>5 DEF AbortMark

\* markChangeCompleted: the change is kept, or it is undone
LEMMA MarkStep ==
  ASSUME Inv, NEW p \in Procs, Mark(p)
  PROVE  RefInv' /\ [Promise!Next]_(Promise!vars)
  <1> DEFINE r == RunOf(p)
  <1>r. r \in Runs  BY RunOfType
  <1>t. TypeOK /\ ProcOK(p)  BY Typed1 DEF RefInv
  <1>s. snap[p] \in Snapshots  BY <1>t DEF TypeOK
  <1>a. pc[p] = "mark" /\ Goto(p, "unlockState")  BY DEF Mark
  <1>l. stateLock[r] = p  BY <1>a DEF Inv, FinalInv, StateLockHeld
  <1>w. Pending(state[r]) /\ snap[p].before = Before(r)
    BY <1>a, <1>t, ActingIsPending DEF Acting, ProcOK
  <1>1. /\ "unlockState" \in PCs /\ "idle" \notin Acting
        /\ "unlockState" \notin Unapplied \cup Fresh \cup Acting \cup Work
    BY DEF PCs, Unapplied, Fresh, Acting, Work
  <1>2. UNCHANGED <<target, author, snap, stateLock, edits>>  BY DEF Mark, env
  <1>3. pc'[p] = "unlockState"  BY <1>a, <1>t DEF Goto, TypeOK
  <1>4. ProcOK(p)'  BY <1>3 DEF ProcOK, Acting
  <1>5. p = Apply(r) => ApplyOK(r)'  BY <1>3 DEF ApplyOK, Unapplied, Fresh, Work
  <1>6. p # Apply(r) => pc[Apply(r)] \notin Fresh
    <2>1. Fresh \subseteq OwnWork  BY DEF Fresh, OwnWork, Work
    <2>2. p # Apply(r) /\ pc[Apply(r)] \in OwnWork => pc[p] = "idle"  BY <1>r, OthersIdle
    <2> QED  BY <1>a, <2>1, <2>2
  <1>7. CASE UNCHANGED <<state, kept>>
    <2>1. RefInv' /\ UNCHANGED Promise!vars
      BY <1>a, <1>1, <1>2, <1>4, <1>5, <1>7, QuietGuard DEF Fresh
    <2> QED  BY <2>1
  <1>8. CASE /\ state' = [state EXCEPT ![r] = Completed(snap[p])]
             /\ kept' = IF Confirming(p) THEN kept \cup {r} ELSE kept
    <2> DEFINE s == Completed(snap[p])
    <2>1. s \in Snapshots /\ s.completed  BY <1>s, CompletedType
    <2>2. s.before = Before(r)  BY <1>s, <1>w DEF Completed, Snapshots
    <2>3. state' = [state EXCEPT ![r] = s]  BY <1>8
    <2>4. ~Pending(s)  BY <2>1 DEF Pending
    <2> HIDE DEF s, r
    <2>5. \A x \in Procs : x # p => pc[x] \notin Acting
      BY <1>a, OneActs DEF Acting
    <2>6. RefInv' /\ Owner' = Owner
      BY <1>a, <1>1, <1>2, <1>4, <1>5, <1>6, <2>1, <2>2, <2>3, <2>4, <2>5, StateStep DEF r, Fresh
    <2>7. CASE Confirming(p)
      <3>1. Promise!Keep(r)  BY <1>2, <1>8, <1>r, <1>t, <1>w, <2>1, <2>3, <2>6, <2>7, KeepStep
      <3> QED  BY <1>r, <2>6, <3>1 DEF Promise!Next
    <2>8. CASE ~Confirming(p)
      <3>1. p[1] \in {"timer", "rollback"}
        BY <1>l, <2>8 DEF Confirming, Procs, Roles, r
      <3>2. Owner # r  BY <1>a, <1>t, <3>1 DEF ProcOK, r
      <3>3. Promise!Close(r)
        BY <1>2, <1>8, <1>r, <1>t, <1>w, <2>1, <2>3, <2>6, <2>8, <3>2, CloseStep
      <3> QED  BY <1>r, <2>6, <3>3 DEF Promise!Next
    <2> QED  BY <2>7, <2>8
  <1> QED  BY <1>7, <1>8 DEF Mark

-----------------------------------------------------------------------------
(* Steps that write the target                                             *)

\* Process p writes the target while nobody else acts
LEMMA TargetStep ==
  ASSUME Inv, NEW p \in Procs, NEW l \in PCs, Goto(p, l),
         UNCHANGED <<state, snap, stateLock, kept, edits>>,
         Pending(state[RunOf(p)]), RunOf(p) \notin kept, author' \in {RunOf(p), NoRun},
         \A x \in Procs : x # p => pc[x] \notin Acting,
         Kind = "authorized-keys" => (target'.data = Empty => target'.mode = 0),
         ProcOK(p)', l # "writeState",
         p = Apply(RunOf(p)) => ApplyOK(RunOf(p))',
         p # Apply(RunOf(p)) => pc[Apply(RunOf(p))] \notin OwnWork
  PROVE  RefInv' /\ [Promise!Next]_(Promise!vars)
  <1> DEFINE r == RunOf(p)
  <1>r. r \in Runs  BY RunOfType
  <1>t. TypeOK /\ RefInv  BY Typed1
  <1>1. pc'[p] = l /\ \A x \in Procs : x # p => pc'[x] = pc[x]  BY <1>t DEF Goto, TypeOK
  <1>2. \A q \in Runs : Before(q)' = Before(q)  BY DEF Before
  <1>3. Owner' \in {r, NoRun}  BY DEF Owner
  <1> HIDE DEF r
  <1>4. ASSUME NEW x \in Procs PROVE ProcOK(x)'
    <2>1. x # p => pc'[x] \notin Acting  BY <1>1
    <2> QED  BY <2>1 DEF ProcOK, Acting
  <1>5. ASSUME NEW q \in Runs PROVE ApplyOK(q)'
    <2>1. CASE Apply(q) = p  BY <2>1, ApplyIsProc
    <2>2. CASE Apply(q) # p
      <3>1. pc'[Apply(q)] = pc[Apply(q)] /\ ApplyOK(q)  BY <1>1, <1>t, <2>2, ApplyIsProc DEF RefInv
      <3>2. CASE q = r
        <4>1. pc[Apply(q)] \notin OwnWork  BY <2>2, <3>2 DEF r
        <4>2. Unapplied \cup {"abortDisarm", "abortMark"} \subseteq OwnWork
          BY DEF Unapplied, Fresh, OwnWork, Work
        <4> QED  BY <3>1, <4>1, <4>2 DEF ApplyOK
      <3>3. CASE q # r
        <4>1. author' # q /\ Owner' # q  BY <1>3, <3>3, NoRunIsNoRun DEF r
        <4> QED  BY <3>1, <4>1 DEF ApplyOK
      <3> QED  BY <3>2, <3>3
    <2> QED  BY <2>1, <2>2
  <1>6. ASSUME NEW q \in Runs PROVE RunOK(q)'
    <2>1. RunOK(q)  BY <1>t DEF RefInv
    <2>2. CASE q = r  BY <1>2, <2>1, <2>2 DEF RunOK, r
    <2>3. CASE q # r
      <3>1. ~Pending(state[q])  BY <1>r, <2>3 DEF Inv, PendingInv, AtMostOnePending, r
      <3>2. pc[Apply(q)] # "writeState"
        BY <1>r, <2>3 DEF Inv, PendingInv, OthersClosed, Writing, r
      <3>3. pc'[Apply(q)] # "writeState"  BY <1>1, <3>2, ApplyIsProc
      <3> QED  BY <1>2, <2>1, <3>1, <3>3 DEF RunOK
    <2> QED  BY <2>2, <2>3
  <1>7. AbsentIsClean'  BY <1>2, <1>t DEF RefInv, AbsentIsClean
  <1>8. Promise!Write(r)  BY <1>3, <1>r DEF Promise!Write, RecordOf, Pending, r
  <1> QED  BY <1>4, <1>5, <1>6, <1>7, <1>8, <1>r DEF RefInv, Promise!Next

\* What is written is never a file that is not there but has a mode
LEMMA WrittenIsClean ==
  ASSUME Kind = "authorized-keys", NEW t, t.data = Empty => t.mode = 0, NEW c, NEW m,
         NEW w, w = Written(t, c, m) \/ w \in AfterFailedWrite(t, c)
  PROVE  w.data = Empty => w.mode = 0
  BY DEF Written, AfterFailedWrite

\* applyChange
LEMMA ApplyChangeStep ==
  ASSUME Inv, NEW r \in Runs, ApplyChange(r)
  PROVE  RefInv' /\ [Promise!Next]_(Promise!vars)
  <1>p. Apply(r) \in Procs /\ RunOf(Apply(r)) = r  BY ApplyIsProc
  <1>t. TypeOK /\ AbsentIsClean  BY Typed1 DEF RefInv
  <1>a. pc[Apply(r)] = "applyWrite"  BY DEF ApplyChange
  <1>w. Pending(state[r]) /\ r \notin kept  BY <1>a, WorkIsPending DEF Work, Fresh
  <1>1. PICK l \in {"saveApplied", "unlock", "lock", "failSave", "rbRead"} : Goto(Apply(r), l)
    BY DEF ApplyChange
  <1>2. l \in PCs /\ l \notin Unapplied /\ l # "writeState"  BY DEF PCs, Unapplied, Fresh
  <1>3. UNCHANGED <<state, snap, stateLock, kept, edits>> /\ AuthorIs(r)  BY DEF ApplyChange, env
  <1>4. ProcOK(Apply(r))' /\ ApplyOK(r)'
    <2>1. state'[r] # NoState /\ Pending(state'[r])  BY <1>3, <1>w DEF Pending
    <2> QED  BY <1>1, <1>2, <1>3, <2>1, ApplyMoves
  <1>5. CASE target' = target
    <2>1. author' = author  BY <1>3, <1>5 DEF AuthorIs
    <2>2. RefInv' /\ UNCHANGED Promise!vars
      BY <1>1, <1>2, <1>3, <1>4, <1>5, <1>w, <2>1, QuietApply DEF Before
    <2> QED  BY <2>2
  <1>6. CASE target' # target
    <2>1. author' = r  BY <1>3, <1>6 DEF AuthorIs
    <2>2. \A x \in Procs : x # Apply(r) => pc[x] \notin Acting
      <3>1. pc[Apply(r)] \in OwnWork /\ pc[Apply(r)] \in Writing /\ "idle" \notin Acting
        BY <1>a DEF OwnWork, Work, Writing, Acting
      <3> QED  BY <3>1, OthersIdle, WritingAlone
    <2>3. Kind = "authorized-keys" => (target'.data = Empty => target'.mode = 0)
      <3>1. \/ target' = Written(target, snap[Apply(r)].applied, Before(r).mode)
            \/ target' \in AfterFailedWrite(target, snap[Apply(r)].applied)
        BY DEF ApplyChange, Before
      <3> QED  BY <1>t, <3>1, WrittenIsClean DEF AbsentIsClean
    <2> QED  BY <1>1, <1>2, <1>3, <1>4, <1>p, <1>w, <2>1, <2>2, <2>3, TargetStep
  <1> QED  BY <1>5, <1>6

\* rollbackChange, its write
LEMMA RollbackWriteStep ==
  ASSUME Inv, NEW p \in Procs, RollbackWrite(p)
  PROVE  RefInv' /\ [Promise!Next]_(Promise!vars)
  <1> DEFINE r == RunOf(p)
  <1>r. r \in Runs  BY RunOfType
  <1>t. TypeOK /\ AbsentIsClean /\ ProcOK(p)  BY Typed1 DEF RefInv
  <1>s. snap[p] \in Snapshots /\ snap[p].before = Before(r)
    BY <1>t DEF TypeOK, ProcOK, Acting, RollbackWrite
  <1>a. pc[p] = "rbWrite"  BY DEF RollbackWrite
  <1>w. Pending(state[r]) /\ r \notin kept  BY <1>a, ActingIsPending DEF Acting
  <1>o. p = Apply(r) <=> p[1] = "apply"  BY OtherRole DEF Other
  <1>1. PICK l \in {"abortDisarm", "disarm", "rbVerify", "unlockState", "unlock"} : Goto(p, l)
    BY DEF RollbackWrite, AfterUndo, AfterBody
  <1>2. l \in PCs /\ l # "writeState"  BY DEF PCs
  <1>3. UNCHANGED <<state, snap, stateLock, kept, edits>>  BY DEF RollbackWrite, env
  <1>4. pc'[p] = l  BY <1>1, <1>t DEF Goto, TypeOK
  <1>5. author' \in {r, NoRun}  BY <1>a, <1>t DEF RollbackWrite, ProcOK
  <1>6. l \in {"abortDisarm", "disarm"} => target' = Before(r)
    <2> SUFFICES ASSUME l \in {"abortDisarm", "disarm"} PROVE target' = Before(r)  OBVIOUS
    <2>1. /\ target' = Written(target, snap[p].before.data, snap[p].before.mode)
          /\ snap[p].before.data = Empty /\ Kind = "authorized-keys"
      BY <1>4, <1>t DEF RollbackWrite, AfterBody, Goto, TypeOK
    <2>2. target' = [data |-> Empty, mode |-> 0]  BY <2>1 DEF Written
    <2>3. Before(r).mode = 0 /\ Before(r).data = Empty  BY <1>r, <1>s, <1>t, <2>1 DEF AbsentIsClean
    <2>4. Before(r) \in Targets  BY <1>s DEF Snapshots
    <2> QED  BY <2>2, <2>3, <2>4 DEF Targets
  <1>7. l \in {"abortDisarm", "disarm"} => Owner' # r
    <2>1. Before(r)' = Before(r)  BY <1>3 DEF Before
    <2>2. (Owner = r <=> author = r /\ target # Before(r))'
      BY <1>r, NoRunIsNoRun DEF Owner, Before
    <2> QED  BY <1>6, <2>1, <2>2
  <1>8. Before(r)' = Before(r)  BY <1>3 DEF Before
  <1> HIDE DEF r
  <1>9. ProcOK(p)'
    <2>1. stateLock'[r] = p /\ l \in Acting => Pending(state'[r])  BY <1>3, <1>w
    <2> QED  BY <1>1, <1>3, <1>4, <1>7, <1>8, <1>s, <2>1 DEF ProcOK, r
  <1>10. p = Apply(r) => ApplyOK(r)'
    <2>1. state'[r] # NoState  BY <1>3, <1>w DEF Pending
    <2> QED  BY <1>1, <1>4, <1>7, <2>1 DEF ApplyOK, Unapplied, Fresh
  <1>11. \A x \in Procs : x # p => pc[x] \notin Acting  BY <1>a, OneActs DEF Acting
  <1>12. p # Apply(r) => pc[Apply(r)] \notin OwnWork  BY <1>a, <1>r, OthersIdle DEF r
  <1>13. Kind = "authorized-keys" => (target'.data = Empty => target'.mode = 0)
    <2>1. \/ target' = Written(target, snap[p].before.data, snap[p].before.mode)
          \/ target' \in AfterFailedWrite(target, snap[p].before.data)
      BY DEF RollbackWrite
    <2> QED  BY <1>t, <2>1, WrittenIsClean DEF AbsentIsClean
  <1> QED  BY <1>1, <1>2, <1>3, <1>5, <1>9, <1>10, <1>11, <1>12, <1>13, <1>w, TargetStep DEF r

-----------------------------------------------------------------------------
(* The snapshot, other programs and the machine                            *)

\* The target that the apply has to bring back
LEMMA PrepareStep ==
  ASSUME Inv, NEW r \in Runs, PrepareChangeSnapshot(r)
  PROVE  RefInv' /\ UNCHANGED Promise!vars
  <1>p. Apply(r) \in Procs /\ RunOf(Apply(r)) = r  BY ApplyIsProc
  <1>q. \A q \in Runs : Apply(q) \in Procs /\ (q # r => Apply(q) # Apply(r))
    BY ApplyIsProc, ApplyInjective
  <1>t. TypeOK /\ RefInv /\ ApplyOK(r)  BY Typed1 DEF RefInv
  <1>a. pc[Apply(r)] = "prepare"  BY DEF PrepareChangeSnapshot
  <1>b. state[r] = NoState /\ author # r  BY <1>a, <1>t DEF ApplyOK, Fresh, Unapplied
  <1>u. UNCHANGED <<target, author, state, stateLock, kept, edits>>  BY DEF PrepareChangeSnapshot, env
  <1>1. CASE Goto(Apply(r), "unlock") /\ UNCHANGED snap
    <2>1. "unlock" \in PCs /\ "unlock" \notin Unapplied \cup Acting \cup Work
      BY DEF PCs, Unapplied, Fresh, Acting, Work
    <2>2. ApplyOK(r)'  BY <1>1, <1>u, <2>1, ApplyMoves
    <2> QED  BY <1>1, <1>u, <2>1, <2>2, QuietApply DEF Before
  <1>2. CASE ~(Goto(Apply(r), "unlock") /\ UNCHANGED snap)
    <2>1. PICK c \in Requested :
            snap' = [snap EXCEPT ![Apply(r)] = [before |-> target, applied |-> c,
                                                appliedState |-> Empty, completed |-> FALSE]]
      BY <1>2 DEF PrepareChangeSnapshot
    <2>2. Goto(Apply(r), "writeState")  BY <1>2 DEF PrepareChangeSnapshot
    <2>3. /\ pc'[Apply(r)] = "writeState"
          /\ \A x \in Procs : x # Apply(r) => pc'[x] = pc[x] /\ snap'[x] = snap[x]
      BY <1>p, <1>t, <2>1, <2>2 DEF Goto, TypeOK
    <2>4. Before(r)' = target  BY <1>p, <1>t, <2>1 DEF Before, TypeOK
    <2>5. \A q \in Runs : q # r => Before(q)' = Before(q)  BY <1>q, <2>3 DEF Before
    <2>6. Owner' = Owner
      <3>1. CASE author \in Runs
        <4>1. snap'[Apply(author)] = snap[Apply(author)]  BY <1>b, <1>q, <2>3, <3>1
        <4> QED  BY <1>u, <3>1, <4>1 DEF Owner
      <3>2. CASE author \notin Runs  BY <1>u, <3>2 DEF Owner
      <3> QED  BY <3>1, <3>2
    <2>7. ASSUME NEW q \in Runs PROVE ApplyOK(q)'
      <3>1. CASE q = r
        BY <1>b, <1>u, <2>3, <3>1 DEF ApplyOK, Work, Fresh
      <3>2. CASE q # r
        BY <1>q, <1>t, <1>u, <2>3, <2>6, <3>2 DEF RefInv, ApplyOK
      <3> QED  BY <3>1, <3>2
    <2>8. ASSUME NEW q \in Runs PROVE RunOK(q)'
      <3>1. CASE q = r
        BY <1>b, <1>u, <2>4, <3>1 DEF RunOK
      <3>2. CASE q # r
        BY <1>q, <1>t, <1>u, <2>3, <2>5, <3>2 DEF RefInv, RunOK
      <3> QED  BY <3>1, <3>2
    <2>9. ASSUME NEW x \in Procs PROVE ProcOK(x)'
      <3>1. CASE x = Apply(r)  BY <2>3, <3>1 DEF ProcOK, Acting
      <3>2. CASE x # Apply(r) /\ RunOf(x) = r
        <4>1. pc'[x] = "idle"  BY <1>a, <2>3, <3>2, OthersIdle DEF OwnWork
        <4> QED  BY <4>1 DEF ProcOK, Acting
      <3>3. CASE RunOf(x) # r
        <4>1. x # Apply(r) /\ RunOf(x) \in Runs  BY <1>p, <3>3, RunOfType
        <4> QED  BY <1>t, <1>u, <2>3, <2>5, <2>6, <3>3, <4>1 DEF RefInv, ProcOK
      <3> QED  BY <3>1, <3>2, <3>3
    <2>10. AbsentIsClean'
      BY <1>t, <1>u, <2>4, <2>5 DEF RefInv, AbsentIsClean
    <2>11. RefInv'  BY <2>7, <2>8, <2>9, <2>10 DEF RefInv
    <2> QED  BY <1>u, <2>6, <2>11, Stutter
  <1> QED  BY <1>1, <1>2

LEMMA ExternalEditStep ==
  ASSUME Inv, ExternalEdit
  PROVE  RefInv' /\ [Promise!Next]_(Promise!vars)
  <1>t. RefInv  BY Typed1
  <1>1. UNCHANGED <<state, stateLock, pc, snap, kept>> /\ author' = NoRun /\ target' \in Foreign
    BY DEF ExternalEdit
  <1>2. Owner' = NoRun  BY <1>1, NoRunIsNoRun DEF Owner
  <1>3. \A q \in Runs : Before(q)' = Before(q)  BY <1>1 DEF Before
  <1>4. ASSUME NEW q \in Runs PROVE ApplyOK(q)' /\ RunOK(q)'
    BY <1>t, <1>1, <1>2, <1>3, NoRunIsNoRun DEF RefInv, ApplyOK, RunOK
  <1>5. ASSUME NEW x \in Procs PROVE ProcOK(x)'
    BY <1>t, <1>1, <1>2, <1>3, NoRunIsNoRun, RunOfType DEF RefInv, ProcOK
  <1>6. AbsentIsClean'
    BY <1>t, <1>1, <1>3, AbsentAssumption DEF RefInv, AbsentIsClean
  <1>7. Promise!Displace  BY <1>1, <1>2 DEF Promise!Displace, ExternalEdit
  <1> QED  BY <1>4, <1>5, <1>6, <1>7 DEF RefInv, Promise!Next

LEMMA RebootStep ==
  ASSUME Inv, Reboot
  PROVE  RefInv' /\ [Promise!Next]_(Promise!vars)
  <1>t. RefInv  BY Typed1
  <1>1. /\ UNCHANGED <<snap, kept, edits>> /\ \A r \in Runs : state'[r] = NoState
        /\ \/ target' \in InitTargets /\ author' = NoRun
           \/ target' = target /\ author' = author
    BY DEF Reboot
  <1>2. \A q \in Runs : Before(q)' = Before(q)  BY <1>1 DEF Before
  <1>3. Owner' \in {Owner, NoRun}
    BY <1>1, <1>2, NoRunIsNoRun, OwnerSame DEF Owner
  <1>4. \A x \in Procs : pc'[x] \in {"idle", "done"} /\ (x[1] = "apply" /\ pc'[x] = "idle" => pc[x] = "idle")
    BY DEF Reboot
  <1>5. ASSUME NEW q \in Runs PROVE ApplyOK(q)'
    <2>1. /\ pc'[Apply(q)] \in {"idle", "done"}
          /\ pc'[Apply(q)] = "idle" => pc[Apply(q)] = "idle"
      BY <1>4, ApplyIsProc
    <2>2. pc'[Apply(q)] = "idle" => author' # q
      BY <1>1, <1>t, <2>1, NoRunIsNoRun DEF RefInv, ApplyOK, Unapplied, Fresh
    <2> QED  BY <1>1, <2>1, <2>2 DEF ApplyOK, Unapplied, Fresh, Work
  <1>6. ASSUME NEW q \in Runs PROVE RunOK(q)'
    BY <1>1, <1>4, ApplyIsProc DEF RunOK, Pending
  <1>7. ASSUME NEW x \in Procs PROVE ProcOK(x)'
    BY <1>4 DEF ProcOK, Acting
  <1>8. AbsentIsClean'
    BY <1>t, <1>1, <1>2, AbsentAssumption DEF RefInv, AbsentIsClean
  <1>9. Promise!Reboot  BY <1>1, <1>3 DEF Promise!Reboot, RecordOf
  <1> QED  BY <1>5, <1>6, <1>7, <1>8, <1>9 DEF RefInv, Promise!Next

-----------------------------------------------------------------------------
LEMMA NextRef ==
  ASSUME Inv, [Next]_vars
  PROVE  RefInv' /\ [Promise!Next]_(Promise!vars)
  <1>1. ASSUME NEW r \in Runs, ApplyStep(r) PROVE RefInv' /\ [Promise!Next]_(Promise!vars)
    BY <1>1, ApplyQuietSteps, WriteChangeStateStep, AppliedSteps, AbortMarkStep, ApplyChangeStep,
       PrepareStep DEF ApplyStep
  <1>2. ASSUME NEW p \in Procs, GuardStep(p) PROVE RefInv' /\ [Promise!Next]_(Promise!vars)
    BY <1>2, GuardQuietSteps, MarkStep, RollbackWriteStep DEF GuardStep
  <1>3. ASSUME NEW r \in Runs, TimerFires(r) PROVE RefInv' /\ [Promise!Next]_(Promise!vars)
    BY <1>3, TimerFiresStep
  <1>4. ASSUME NEW p \in Procs, Command(p) \/ Crash(p) PROVE RefInv' /\ [Promise!Next]_(Promise!vars)
    BY <1>4, CommandStep, CrashStep
  <1>5. CASE UNCHANGED vars
    <2>1. RefInv  BY Typed1
    <2>2. UNCHANGED <<target, state, stateLock, pc, snap, author, kept, edits>>  BY <1>5 DEF vars, env
    <2>3. \A q \in Runs : Before(q)' = Before(q)  BY <2>2 DEF Before
    <2>4. Owner' = Owner  BY <2>2, <2>3, OwnerSame
    <2>5. ASSUME NEW q \in Runs PROVE ApplyOK(q)' /\ RunOK(q)'
      BY <2>1, <2>2, <2>3, <2>4 DEF RefInv, ApplyOK, RunOK
    <2>6. ASSUME NEW x \in Procs PROVE ProcOK(x)'
      BY <2>1, <2>2, <2>3, <2>4, RunOfType DEF RefInv, ProcOK
    <2>7. AbsentIsClean'  BY <2>1, <2>2, <2>3 DEF RefInv, AbsentIsClean
    <2>8. UNCHANGED Promise!vars  BY <2>2, <2>4, Stutter
    <2> QED  BY <2>5, <2>6, <2>7, <2>8 DEF RefInv
  <1> QED  BY <1>1, <1>2, <1>3, <1>4, <1>5, ExternalEditStep, RebootStep DEF Next

LEMMA InitPromise == Init => Promise!Init
  <1> SUFFICES ASSUME Init PROVE Promise!Init  OBVIOUS
  <1>1. Owner = NoRun  BY NoRunIsNoRun DEF Init, Owner
  <1> QED  BY <1>1 DEF Init, Promise!Init, RecordOf

\* The files, locks, timers and processes of `edc change' implement Guarded: for
\* any runs, contents, faults, crashes, edits and reboots a change is recorded
\* before it is made, made and undone only while it is pending and unconfirmed, and
\* completed only by a confirmation or when nothing of it is in effect.
THEOREM ChangeImplementsGuarded ==
    ASSUME Early = FALSE
    PROVE  Spec => ImplementsGuarded
  <1>1. Init => Inv  BY InitFinal, InitPending, InitRef DEF Inv
  <1>2. Inv /\ [Next]_vars => Inv'  BY NextFinal, NextPending, NextRef DEF Inv
  <1>3. Inv /\ [Next]_vars => [Promise!Next]_(Promise!vars)  BY NextRef
  <1>4. Spec => Promise!Init /\ [][Promise!Next]_(Promise!vars)
    BY <1>1, <1>2, <1>3, InitPromise, PTL DEF Spec
  <1> QED  BY <1>4 DEF ImplementsGuarded, Promise!Spec
=============================================================================
