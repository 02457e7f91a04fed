---------------------------- MODULE ChangeProofs ----------------------------
(***************************************************************************)
(* Theorems about Change for every set of runs, every content and fault,   *)
(* any number of crashes, edits and reboots.                               *)
(***************************************************************************)
EXTENDS Change, TLAPS

-----------------------------------------------------------------------------
(* What is written to a target is a target.                                *)

\* iptables-restore maps rules to rules.
LEMMA RestoreType ==
    ASSUME NEW c \in Contents, NEW i \in Contents, NEW d
    PROVE  Restore(c, i, d) \in Contents
  BY DEF Restore, Contents

LEMMA EmptyType == Empty \in Contents
  BY DEF Empty, Contents

\* applyChange and rollbackChange leave a file or a set of tables.
LEMMA WrittenType ==
    ASSUME NEW t \in Targets, NEW c \in Contents, NEW m \in Modes
    PROVE  Written(t, c, m) \in Targets
  <1>1. t.data \in Contents  BY DEF Targets
  <1>2. Restore(t.data, c, Parts) \in Contents  BY <1>1, RestoreType
  <1>3. FileMode(m) \in Modes  BY ModeAssumption DEF FileMode
  <1>4. 0 \in Modes  BY ModeAssumption
  <1> QED  BY <1>2, <1>3, <1>4, EmptyType DEF Written, Targets

\* ... and so does a write that fails half way.
LEMMA FailedWriteType ==
    ASSUME NEW t \in Targets, NEW c \in Contents
    PROVE  AfterFailedWrite(t, c) \subseteq Targets
  <1>1. t.data \in Contents  BY DEF Targets
  <1>2. \A d \in SUBSET Parts : [t EXCEPT !.data = Restore(@, c, d)] \in Targets
    BY <1>1, RestoreType DEF Targets
  <1> QED  BY <1>2 DEF AfterFailedWrite

LEMMA NoSnapshotType == NoSnapshot \in Snapshots
  BY EmptyType, ModeAssumption DEF NoSnapshot, Snapshots, Targets

LEMMA CompletedType ==
    ASSUME NEW s \in Snapshots
    PROVE  Completed(s) \in Snapshots /\ Completed(s).completed
  BY DEF Completed, Snapshots

LEMMA ApplyIsProc == \A r \in Runs : Apply(r) \in Procs /\ RunOf(Apply(r)) = r /\ Apply(r)[1] = "apply"
  BY DEF Apply, Procs, Roles, RunOf

LEMMA RunOfType == \A p \in Procs : RunOf(p) \in Runs
  BY DEF RunOf, Procs

-----------------------------------------------------------------------------
(* Type correctness                                                        *)

LEMMA InitType == Init => TypeOK
  BY ContentAssumption, BoundAssumption, NoSnapshotType DEF Init, TypeOK, PCs

\* One step per action of an apply.
LEMMA ApplyStepType ==
    ASSUME TypeOK, NEW r \in Runs, ApplyStep(r)
    PROVE  TypeOK'
  <1> DEFINE p == Apply(r)
  <1>p. p \in Procs /\ RunOf(p) = r  BY ApplyIsProc
  <1>s. snap[p] \in Snapshots  BY <1>p DEF TypeOK
  <1> HIDE DEF p
  <1> USE <1>p DEF p, env
  <1>1. CASE LockApply(r)
    BY <1>1 DEF LockApply, TypeOK, Goto, PCs
  <1>2. CASE HasPendingChange(r)
    BY <1>2 DEF HasPendingChange, TypeOK, Goto, PCs
  <1>3. CASE PrepareChangeSnapshot(r)
    <2>1. \A c \in Requested : [before |-> target, applied |-> c, appliedState |-> Empty,
                                completed |-> FALSE] \in Snapshots
      BY ContentAssumption, EmptyType DEF TypeOK, Snapshots
    <2>2. snap' \in [Procs -> Snapshots]
      BY <1>3, <2>1 DEF PrepareChangeSnapshot, TypeOK
    <2> QED  BY <1>3, <2>2 DEF PrepareChangeSnapshot, TypeOK, Goto, PCs
  <1>4. CASE WriteChangeState(r)
    BY <1>4, <1>s DEF WriteChangeState, TypeOK, Goto, PCs
  <1>5. CASE ArmChangeGuard(r)
    BY <1>5 DEF ArmChangeGuard, TypeOK, Goto, PCs
  <1>6. CASE VerifyGuard(r)
    BY <1>6 DEF VerifyGuard, TypeOK, Goto, PCs
  <1>7. CASE AbortDisarm(r)
    BY <1>7 DEF AbortDisarm, StopTimer, TypeOK, Goto, PCs
  <1>8. CASE AbortMark(r)
    BY <1>8, <1>s, CompletedType DEF AbortMark, TypeOK, Goto, PCs
  <1>9. CASE ApplyChange(r)
    <2>1. snap[p].applied \in Contents /\ snap[p].before.mode \in Modes
      BY <1>s DEF Snapshots, Targets
    <2>2. target' \in Targets
      BY <1>9, <2>1, WrittenType, FailedWriteType DEF ApplyChange, TypeOK
    <2>3. author' \in Runs \cup {NoRun}
      BY <1>9 DEF ApplyChange, AuthorIs, TypeOK
    <2> QED  BY <1>9, <2>2, <2>3 DEF ApplyChange, TypeOK, Goto, PCs
  <1>10. CASE SaveApplied(r) \/ FailSave(r)
    <2>1. [snap[p] EXCEPT !.appliedState = target.data] \in Snapshots
      BY <1>s DEF TypeOK, Snapshots, Targets
    <2>2. snap' \in [Procs -> Snapshots]
      BY <1>10, <2>1 DEF SaveApplied, FailSave, TypeOK
    <2> QED  BY <1>10, <2>2 DEF SaveApplied, FailSave, TypeOK, Goto, PCs
  <1>11. CASE WriteApplied(r)
    BY <1>11, <1>s DEF WriteApplied, TypeOK, Goto, PCs
  <1>12. CASE FailWrite(r)
    BY <1>12, <1>s DEF FailWrite, TypeOK, Goto, PCs
  <1>13. CASE UnlockApply(r)
    BY <1>13 DEF UnlockApply, TypeOK, Goto, PCs
  <1> QED
    BY <1>1, <1>2, <1>3, <1>4, <1>5, <1>6, <1>7, <1>8, <1>9, <1>10, <1>11, <1>12, <1>13
    DEF ApplyStep

\* One step per action of the processes that confirm or undo.
LEMMA GuardStepType ==
    ASSUME TypeOK, NEW p \in Procs, GuardStep(p)
    PROVE  TypeOK'
  <1>p. RunOf(p) \in Runs  BY RunOfType
  <1>s. snap[p] \in Snapshots  BY DEF TypeOK
  <1> USE <1>p DEF env
  <1>f. Forget(p) => snap' \in [Procs -> Snapshots]
    BY NoSnapshotType DEF Forget, TypeOK
  <1>1. CASE LockState(p)
    BY <1>1, <1>f DEF LockState, Leave, TypeOK, Goto, PCs
  <1>2. CASE ReadChangeState(p)
    <2>1. state[RunOf(p)] \in Snapshots \cup {NoState}  BY DEF TypeOK
    <2>2. snap' \in [Procs -> Snapshots]
      BY <1>2, <2>1 DEF ReadChangeState, Readable, TypeOK
    <2> QED  BY <1>2, <2>2 DEF ReadChangeState, TypeOK, Goto, PCs
  <1>3. CASE ConfirmStop(p)
    BY <1>3 DEF ConfirmStop, StopTimer, TypeOK, Goto, PCs
  <1>4. CASE ConfirmStillActive(p)
    BY <1>4 DEF ConfirmStillActive, TypeOK, Goto, PCs
  <1>5. CASE RollbackRead(p)
    BY <1>5 DEF RollbackRead, AfterBody, AfterUndo, TypeOK, Goto, PCs
  <1>6. CASE RollbackWrite(p)
    <2>1. snap[p].before.data \in Contents /\ snap[p].before.mode \in Modes
      BY <1>s DEF Snapshots, Targets
    <2>2. target' \in Targets
      BY <1>6, <2>1, WrittenType, FailedWriteType DEF RollbackWrite, TypeOK
    <2>3. author' \in Runs \cup {NoRun}
      BY <1>6 DEF RollbackWrite, TypeOK
    <2> QED  BY <1>6, <2>2, <2>3 DEF RollbackWrite, AfterBody, AfterUndo, TypeOK, Goto, PCs
  <1>7. CASE RollbackVerify(p)
    BY <1>7 DEF RollbackVerify, AfterBody, AfterUndo, TypeOK, Goto, PCs
  <1>8. CASE Disarm(p)
    BY <1>8 DEF Disarm, StopTimer, TypeOK, Goto, PCs
  <1>9. CASE Mark(p)
    BY <1>9, <1>s, CompletedType DEF Mark, AfterBody, AfterUndo, TypeOK, Goto, PCs
  <1>10. CASE UnlockState(p)
    BY <1>10, <1>f DEF UnlockState, Leave, TypeOK, Goto, PCs
  <1> QED
    BY <1>1, <1>2, <1>3, <1>4, <1>5, <1>6, <1>7, <1>8, <1>9, <1>10 DEF GuardStep

LEMMA NextType ==
    ASSUME TypeOK, [Next]_vars
    PROVE  TypeOK'
  <1>1. CASE \E r \in Runs : ApplyStep(r)
    BY <1>1, ApplyStepType
  <1>2. CASE \E r \in Runs : TimerFires(r)
    <2>1. \A r \in Runs : <<"timer", r>> \in Procs  BY DEF Procs, Roles
    <2> QED  BY <1>2, <2>1 DEF TimerFires, TypeOK, Goto, PCs, env
  <1>3. CASE \E p \in Procs : GuardStep(p)
    BY <1>3, GuardStepType
  <1>4. CASE \E p \in Procs : Command(p)
    BY <1>4 DEF Command, TypeOK, Goto, PCs, env
  <1>5. CASE \E p \in Procs : Crash(p)
    <2> PICK p \in Procs : Crash(p)  BY <1>5
    <2>1. snap' \in [Procs -> Snapshots]
      BY NoSnapshotType DEF Crash, Forget, TypeOK
    <2>2. crashes' \in 0 .. MaxCrashes
      BY BoundAssumption DEF Crash, TypeOK
    <2> QED  BY <2>1, <2>2, RunOfType DEF Crash, Dropped, TypeOK, Goto, PCs
  <1>6. CASE ExternalEdit
    BY <1>6, ContentAssumption, BoundAssumption DEF ExternalEdit, TypeOK
  <1>7. CASE Reboot
    BY <1>7, ContentAssumption, BoundAssumption DEF Reboot, TypeOK, PCs
  <1>8. CASE UNCHANGED vars
    BY <1>8 DEF TypeOK, vars, env
  <1> QED  BY <1>1, <1>2, <1>3, <1>4, <1>5, <1>6, <1>7, <1>8 DEF Next

\* Every variable keeps its type, whatever fails, crashes or is edited.
THEOREM TypeCorrect == Spec => []TypeOK
  BY InitType, NextType, PTL DEF Spec

-----------------------------------------------------------------------------
(* One pending change at a time                                            *)

\* The steps between the check for pending changes and an apply's last write
\* of a state that is not completed
Writing == {"prepare", "writeState", "arm", "isActive", "applyWrite",
            "saveApplied", "writeApplied", "failSave", "failWrite"}

\* An apply that runs owns the apply lock.
LockHeld == \A r \in Runs : pc[Apply(r)] \notin {"idle", "done"} => applyLock = Apply(r)

\* While an apply may still write a pending state, no other run is pending.
OthersClosed ==
    \A r, q \in Runs : pc[Apply(r)] \in Writing /\ q # r => ~Pending(state[q])

PendingInv == TypeOK /\ LockHeld /\ OthersClosed /\ AtMostOnePending

LEMMA ApplyInjective == \A r, q \in Runs : Apply(r) = Apply(q) => r = q
  BY DEF Apply

LEMMA FreeIsNoApply == \A q \in Runs : Apply(q) # Free
  <1>1. Free[1] = "lock"  BY DEF Free
  <1>2. \A q \in Runs : Apply(q)[1] = "apply"  BY ApplyIsProc
  <1> QED  BY <1>1, <1>2

LEMMA InitPending == Init => PendingInv
  <1> SUFFICES ASSUME Init PROVE PendingInv  OBVIOUS
  <1>1. TypeOK  BY InitType
  <1>2. \A r \in Runs : pc[Apply(r)] = "idle" /\ state[r] = NoState
    BY ApplyIsProc DEF Init
  <1> QED  BY <1>1, <1>2 DEF PendingInv, LockHeld, OthersClosed, AtMostOnePending, Pending, Writing

\* Two applies never run side by side.
LEMMA OneApply ==
    ASSUME LockHeld, NEW r \in Runs, NEW q \in Runs,
           pc[Apply(r)] \notin {"idle", "done"}, pc[Apply(q)] \notin {"idle", "done"}
    PROVE  r = q
  BY ApplyInjective DEF LockHeld

\* A step that writes no pending state, that moves no apply into Writing and
\* leaves the apply lock to the applies that run, keeps the invariant.
LEMMA HarmlessStep ==
    ASSUME PendingInv, TypeOK',
           \A r \in Runs : Pending(state'[r]) => Pending(state[r]),
           \A r \in Runs : pc'[Apply(r)] \in Writing => pc[Apply(r)] \in Writing,
           \A r \in Runs : pc'[Apply(r)] \notin {"idle", "done"} => applyLock' = Apply(r)
    PROVE  PendingInv'
  <1>1. LockHeld'  BY DEF LockHeld
  <1>2. OthersClosed'  BY DEF PendingInv, OthersClosed
  <1>3. AtMostOnePending'  BY DEF PendingInv, AtMostOnePending
  <1> QED  BY <1>1, <1>2, <1>3 DEF PendingInv

\* A write of run r's own state during Writing: all other runs are closed.
LEMMA OwnStateStep ==
    ASSUME PendingInv, TypeOK', NEW r \in Runs, pc[Apply(r)] \in Writing,
           \A q \in Runs : q # r => state'[q] = state[q] /\ pc'[Apply(q)] = pc[Apply(q)],
           applyLock' = applyLock
    PROVE  PendingInv'
  <1>0. pc[Apply(r)] \notin {"idle", "done"}  BY DEF Writing
  <1>1. applyLock = Apply(r)  BY <1>0 DEF PendingInv, LockHeld
  <1>2. \A q \in Runs : q # r => pc[Apply(q)] \in {"idle", "done"}
    BY <1>0, OneApply DEF PendingInv
  <1>3. \A q \in Runs : q # r => ~Pending(state[q])
    BY DEF PendingInv, OthersClosed
  <1>4. LockHeld'  BY <1>1, <1>2 DEF LockHeld
  <1>5. OthersClosed'  BY <1>2, <1>3 DEF OthersClosed, Pending, Writing
  <1>6. AtMostOnePending'  BY <1>3 DEF AtMostOnePending, Pending
  <1> QED  BY <1>4, <1>5, <1>6 DEF PendingInv

LEMMA ApplyStepPending ==
    ASSUME PendingInv, NEW r \in Runs, ApplyStep(r)
    PROVE  PendingInv'
  <1>t. TypeOK /\ TypeOK'  BY ApplyStepType DEF PendingInv
  <1>p. Apply(r) \in Procs /\ \A q \in Runs : q # r => Apply(q) \in Procs /\ Apply(q) # Apply(r)
    BY ApplyIsProc, ApplyInjective
  <1>l. pc[Apply(r)] \notin {"idle", "done"} => applyLock = Apply(r)
    BY DEF PendingInv, LockHeld
  <1>o. pc[Apply(r)] \notin {"idle", "done"}
          => \A q \in Runs : q # r => pc[Apply(q)] \in {"idle", "done"}
    BY OneApply DEF PendingInv
  <1>1. CASE LockApply(r)
    <2>1. applyLock = Free => \A q \in Runs : pc[Apply(q)] \in {"idle", "done"}
      BY FreeIsNoApply DEF PendingInv, LockHeld
    <2>2. \A q \in Runs : pc'[Apply(q)] \in Writing => pc[Apply(q)] \in Writing
      BY <1>1, <1>t, <1>p DEF LockApply, Goto, TypeOK, Writing
    <2>3. \A q \in Runs : pc'[Apply(q)] \notin {"idle", "done"} => applyLock' = Apply(q)
      BY <1>1, <1>t, <1>p, <2>1 DEF LockApply, Goto, TypeOK, PendingInv, LockHeld
    <2> QED  BY <1>1, <1>t, <2>2, <2>3, HarmlessStep DEF LockApply
  <1>2. CASE HasPendingChange(r)
    <2>1. applyLock = Apply(r)  BY <1>2, <1>l DEF HasPendingChange
    <2>2. MayApply => \A q \in Runs : ~Pending(state[q])
      BY DEF MayApply, Pending
    <2>3. \A q \in Runs : q # r => pc'[Apply(q)] \in {"idle", "done"}
      BY <1>2, <1>t, <1>p, <1>o DEF HasPendingChange, Goto, TypeOK
    <2>4. pc'[Apply(r)] \in Writing => MayApply
      BY <1>2, <1>t, <1>p DEF HasPendingChange, Goto, TypeOK, Writing
    <2>5. applyLock' = applyLock /\ state' = state  BY <1>2 DEF HasPendingChange
    <2>6. LockHeld'  BY <2>1, <2>3, <2>5 DEF LockHeld
    <2>7. OthersClosed'  BY <2>2, <2>3, <2>4, <2>5 DEF OthersClosed, Writing
    <2>8. AtMostOnePending'  BY <2>5 DEF PendingInv, AtMostOnePending
    <2> QED  BY <1>t, <2>6, <2>7, <2>8 DEF PendingInv
  <1>3. CASE PrepareChangeSnapshot(r)
    BY <1>3, <1>t, <1>p, OwnStateStep DEF PrepareChangeSnapshot, Goto, TypeOK, Writing
  <1>4. CASE WriteChangeState(r)
    BY <1>4, <1>t, <1>p, OwnStateStep DEF WriteChangeState, Goto, TypeOK, Writing
  <1>5. CASE ArmChangeGuard(r)
    BY <1>5, <1>t, <1>p, OwnStateStep DEF ArmChangeGuard, Goto, TypeOK, Writing
  <1>6. CASE VerifyGuard(r)
    BY <1>6, <1>t, <1>p, OwnStateStep DEF VerifyGuard, Goto, TypeOK, Writing
  <1>7. CASE AbortDisarm(r)
    <2>1. \A q \in Runs : pc'[Apply(q)] \in Writing => pc[Apply(q)] \in Writing
      BY <1>7, <1>t, <1>p DEF AbortDisarm, Goto, TypeOK, Writing
    <2>2. \A q \in Runs : pc'[Apply(q)] \notin {"idle", "done"} => applyLock' = Apply(q)
      BY <1>7, <1>t, <1>p, <1>l, <1>o DEF AbortDisarm, Goto, TypeOK
    <2> QED  BY <1>7, <1>t, <2>1, <2>2, HarmlessStep DEF AbortDisarm
  <1>8. CASE AbortMark(r)
    <2>1. \A q \in Runs : pc'[Apply(q)] \in Writing => pc[Apply(q)] \in Writing
      BY <1>8, <1>t, <1>p DEF AbortMark, Goto, TypeOK, Writing
    <2>2. \A q \in Runs : pc'[Apply(q)] \notin {"idle", "done"} => applyLock' = Apply(q)
      BY <1>8, <1>t, <1>p, <1>l, <1>o DEF AbortMark, Goto, TypeOK
    <2>3. snap[Apply(r)] \in Snapshots  BY <1>t, <1>p DEF TypeOK
    <2>4. \A q \in Runs : Pending(state'[q]) => Pending(state[q])
      BY <1>8, <1>t, <2>3, CompletedType DEF AbortMark, Pending, TypeOK
    <2> QED  BY <1>t, <2>1, <2>2, <2>4, HarmlessStep
  <1>9. CASE ApplyChange(r)
    BY <1>9, <1>t, <1>p, OwnStateStep DEF ApplyChange, Goto, TypeOK, Writing
  <1>10. CASE SaveApplied(r) \/ FailSave(r)
    BY <1>10, <1>t, <1>p, OwnStateStep DEF SaveApplied, FailSave, Goto, TypeOK, Writing
  <1>11. CASE WriteApplied(r)
    BY <1>11, <1>t, <1>p, OwnStateStep DEF WriteApplied, Goto, TypeOK, Writing
  <1>12. CASE FailWrite(r)
    BY <1>12, <1>t, <1>p, OwnStateStep DEF FailWrite, Goto, TypeOK, Writing
  <1>13. CASE UnlockApply(r)
    <2>1. \A q \in Runs : pc'[Apply(q)] \in {"idle", "done"}
      BY <1>13, <1>t, <1>p, <1>o DEF UnlockApply, Goto, TypeOK
    <2> QED  BY <1>13, <1>t, <2>1, HarmlessStep DEF UnlockApply, Writing
  <1> QED
    BY <1>1, <1>2, <1>3, <1>4, <1>5, <1>6, <1>7, <1>8, <1>9, <1>10, <1>11, <1>12, <1>13
    DEF ApplyStep

\* confirm and rollback close a run, and never start an apply.
LEMMA GuardStepPending ==
    ASSUME PendingInv, NEW p \in Procs, GuardStep(p)
    PROVE  PendingInv'
  <1>t. TypeOK /\ TypeOK'  BY GuardStepType DEF PendingInv
  <1>s. snap[p] \in Snapshots /\ RunOf(p) \in Runs  BY <1>t, RunOfType DEF TypeOK
  <1>q. \A q \in Runs : Apply(q) \in Procs /\ Apply(q)[1] = "apply"  BY ApplyIsProc
  <1>a. applyLock' = applyLock
    BY DEF GuardStep, LockState, ReadChangeState, ConfirmStop, ConfirmStillActive, RollbackRead,
           RollbackWrite, RollbackVerify, Disarm, Mark, UnlockState
  <1>b. pc[p] \notin {"idle", "done"}
    BY DEF GuardStep, LockState, ReadChangeState, ConfirmStop, ConfirmStillActive, RollbackRead,
           RollbackWrite, RollbackVerify, Disarm, Mark, UnlockState
  <1>c. \E label \in PCs \ Writing : Goto(p, label)
    BY DEF GuardStep, LockState, ReadChangeState, ConfirmStop, ConfirmStillActive, RollbackRead,
           RollbackWrite, RollbackVerify, Disarm, Mark, UnlockState, Leave, AfterBody, AfterUndo, PCs, Writing
  <1>1. \A q \in Runs : pc'[Apply(q)] \in Writing => pc[Apply(q)] \in Writing
    BY <1>c, <1>t, <1>q DEF Goto, TypeOK
  <1>2. \A q \in Runs : pc'[Apply(q)] \notin {"idle", "done"} => applyLock' = Apply(q)
    BY <1>a, <1>b, <1>c, <1>t, <1>q DEF Goto, TypeOK, PendingInv, LockHeld
  <1>3. \A q \in Runs : Pending(state'[q]) => Pending(state[q])
    <2>1. CASE Mark(p)
      BY <2>1, <1>t, <1>s, CompletedType DEF Mark, Pending, TypeOK
    <2>2. CASE ~Mark(p)
      <3>1. state' = state
        BY <2>2 DEF GuardStep, LockState, ReadChangeState, ConfirmStop, ConfirmStillActive,
                    RollbackRead, RollbackWrite, RollbackVerify, Disarm, UnlockState
      <3> QED  BY <3>1
    <2> QED  BY <2>1, <2>2
  <1> QED  BY <1>t, <1>1, <1>2, <1>3, HarmlessStep

LEMMA NextPending ==
    ASSUME PendingInv, [Next]_vars
    PROVE  PendingInv'
  <1>t. TypeOK /\ TypeOK'  BY NextType DEF PendingInv
  <1>q. \A q \in Runs : Apply(q) \in Procs /\ Apply(q)[1] = "apply"  BY ApplyIsProc
  <1>1. CASE \E r \in Runs : ApplyStep(r)
    BY <1>1, ApplyStepPending
  <1>2. CASE \E r \in Runs : TimerFires(r)
    <2>1. \A q, r \in Runs : Apply(q) # <<"timer", r>>  BY DEF Apply
    <2>2. \A q \in Runs : pc'[Apply(q)] = pc[Apply(q)]
      BY <1>2, <1>t, <1>q, <2>1 DEF TimerFires, Goto, TypeOK
    <2>3. state' = state /\ applyLock' = applyLock  BY <1>2 DEF TimerFires
    <2> QED  BY <1>t, <2>2, <2>3, HarmlessStep DEF PendingInv, LockHeld
  <1>3. CASE \E p \in Procs : GuardStep(p)
    BY <1>3, GuardStepPending
  <1>4. CASE \E p \in Procs : Command(p)
    <2> PICK p \in Procs : Command(p)  BY <1>4
    <2>1. \A q \in Runs : Apply(q) # p  BY <1>q, TypedAssumption DEF Command
    <2>2. \A q \in Runs : pc'[Apply(q)] = pc[Apply(q)]
      BY <1>t, <1>q, <2>1 DEF Command, Goto, TypeOK
    <2>3. state' = state /\ applyLock' = applyLock  BY DEF Command
    <2> QED  BY <1>t, <2>2, <2>3, HarmlessStep DEF PendingInv, LockHeld
  <1>5. CASE \E p \in Procs : Crash(p)
    <2> PICK p \in Procs : Crash(p)  BY <1>5
    <2>1. \A q \in Runs : pc'[Apply(q)] = IF Apply(q) = p THEN "done" ELSE pc[Apply(q)]
      BY <1>t, <1>q DEF Crash, Goto, TypeOK
    <2>2. \A q \in Runs : Apply(q) # p /\ applyLock = Apply(q) => applyLock' = Apply(q)
      BY DEF Crash, Dropped
    <2>3. state' = state  BY DEF Crash
    <2>4. \A q \in Runs : pc'[Apply(q)] \notin {"idle", "done"} => applyLock' = Apply(q)
      BY <2>1, <2>2 DEF PendingInv, LockHeld
    <2>5. \A q \in Runs : pc'[Apply(q)] \in Writing => pc[Apply(q)] \in Writing
      BY <2>1 DEF Writing
    <2> QED  BY <1>t, <2>3, <2>4, <2>5, HarmlessStep
  <1>6. CASE ExternalEdit
    <2>1. state' = state /\ applyLock' = applyLock /\ pc' = pc  BY <1>6 DEF ExternalEdit
    <2> QED  BY <1>t, <2>1, HarmlessStep DEF PendingInv, LockHeld
  <1>7. CASE Reboot
    <2>1. \A q \in Runs : pc'[Apply(q)] \in {"idle", "done"} /\ state'[q] = NoState
      BY <1>7, <1>q DEF Reboot
    <2> QED  BY <1>t, <2>1, HarmlessStep DEF Pending, Writing
  <1>8. CASE UNCHANGED vars
    <2>1. state' = state /\ applyLock' = applyLock /\ pc' = pc  BY <1>8 DEF vars
    <2> QED  BY <1>t, <2>1, HarmlessStep DEF PendingInv, LockHeld
  <1> QED  BY <1>1, <1>2, <1>3, <1>4, <1>5, <1>6, <1>7, <1>8 DEF Next

\* Protected changes happen one at a time (docs/host-changes.md): whatever
\* crashes, fails, fires early or reboots, at most one state file is pending.
THEOREM OnePendingChange == Spec => []AtMostOnePending
  <1>1. PendingInv => AtMostOnePending  BY DEF PendingInv
  <1> QED  BY InitPending, NextPending, <1>1, PTL DEF Spec

-----------------------------------------------------------------------------
(* A confirmed change is final.  This needs Early = FALSE: no timer and no  *)
(* command acts on a run while its own apply still works on it.             *)

OwnWork == {"idle", "hasPending", "prepare"} \cup Work
Body    == {"rbRead", "rbWrite", "rbVerify", "disarm", "mark"}
Other(p) == p # Apply(RunOf(p))

\* Nobody else works on a run before its apply has finished.
Quiescent == \A p \in Procs : Other(p) /\ pc[Apply(RunOf(p))] \in OwnWork => pc[p] = "idle"

\* An apply that has not written its state left nothing to act on.
Unstarted ==
    \A r \in Runs : pc[Apply(r)] \in {"idle", "hasPending", "prepare"}
                      => state[r] = NoState /\ timer[r] = "none"

\* The state lock is held where the code relies on it.
StateLockHeld ==
    \A p \in Procs :
        \/ pc[p] \in {"read", "stop", "stillActive", "disarm", "mark", "unlockState"}
        \/ Other(p) /\ pc[p] \in Body
        => stateLock[RunOf(p)] = p

\* Until its apply has finished, a run is neither confirmed nor completed.
OpenWhileWorking ==
    \A r \in Runs : pc[Apply(r)] \in OwnWork
                      => r \notin kept /\ (state[r] = NoState \/ ~state[r].completed)

\* A confirmed run has a completed state, and nobody is undoing it.
KeptIsClosed == \A r \in kept : state[r] = NoState \/ state[r].completed
NobodyUndoes ==
    \A p \in Procs : Other(p) /\ pc[p] \in Body \cup {"stop", "stillActive"} => RunOf(p) \notin kept

\* No process works with the snapshot of a completed run.
SnapsOpen == \A p \in Procs : ~snap[p].completed

FinalInv == /\ SnapsOpen /\ TypeOK /\ Quiescent /\ Unstarted /\ StateLockHeld
            /\ OpenWhileWorking /\ KeptIsClosed /\ NobodyUndoes

LEMMA FreeIsNoProc == \A x \in Procs : x # Free /\ x # Stale
  <1>1. Free[1] = "lock" /\ Stale[1] = "lock"  BY DEF Free, Stale
  <1>2. \A x \in Procs : x[1] # "lock"  BY DEF Procs, Roles
  <1> QED  BY <1>1, <1>2

LEMMA OtherRole == \A p \in Procs : Other(p) <=> p[1] # "apply"
  BY DEF Other, Apply, RunOf, Procs, Roles

LEMMA InitFinal == Init => FinalInv
  <1> SUFFICES ASSUME Init PROVE FinalInv  OBVIOUS
  <1>1. TypeOK  BY InitType
  <1>2. \A r \in Runs : pc[Apply(r)] = "idle"  BY ApplyIsProc DEF Init
  <1> QED
    BY <1>1, <1>2 DEF Init, FinalInv, Quiescent, Unstarted, StateLockHeld, OpenWhileWorking,
                      KeptIsClosed, NobodyUndoes, SnapsOpen, NoSnapshot, Body

LEMMA ApplyStepFinal ==
    ASSUME FinalInv, NEW r \in Runs, ApplyStep(r)
    PROVE  FinalInv'
  <1>t. TypeOK /\ TypeOK'  BY ApplyStepType DEF FinalInv
  <1>p. Apply(r) \in Procs /\ RunOf(Apply(r)) = r /\ ~Other(Apply(r))
    BY ApplyIsProc DEF Other
  <1>q. \A q \in Runs : Apply(q) \in Procs /\ (q # r => Apply(q) # Apply(r))
    BY ApplyIsProc, ApplyInjective
  <1>o. \A p \in Procs : Other(p) => p # Apply(r)
    BY ApplyIsProc DEF Other
  <1>a. UNCHANGED <<stateLock, kept>>
    BY DEF ApplyStep, LockApply, HasPendingChange, PrepareChangeSnapshot, WriteChangeState, ArmChangeGuard, VerifyGuard, AbortDisarm, AbortMark, ApplyChange, SaveApplied, WriteApplied, FailSave, FailWrite, UnlockApply
  <1>b. \E label \in PCs : Goto(Apply(r), label)
             /\ label \notin {"read", "stop", "stillActive", "disarm", "mark", "unlockState"}
             /\ (label \in {"idle", "hasPending", "prepare"} =>
                     pc[Apply(r)] \in {"idle", "hasPending"} /\ UNCHANGED <<state, timer>>)
             /\ (label \in OwnWork => pc[Apply(r)] \in OwnWork)
    BY DEF ApplyStep, LockApply, HasPendingChange, PrepareChangeSnapshot, WriteChangeState, ArmChangeGuard, VerifyGuard, AbortDisarm, AbortMark, ApplyChange, SaveApplied, WriteApplied, FailSave, FailWrite, UnlockApply, PCs, OwnWork, Work
  <1>c. \A q \in Runs : q # r => state'[q] = state[q] /\ timer'[q] = timer[q]
    BY <1>t DEF ApplyStep, LockApply, HasPendingChange, PrepareChangeSnapshot, WriteChangeState, ArmChangeGuard, VerifyGuard, AbortDisarm, AbortMark, ApplyChange, SaveApplied, WriteApplied, FailSave, FailWrite, UnlockApply, StopTimer, TypeOK
  <1>d. \A p \in Procs : pc'[p] = pc[p] \/ p = Apply(r)
    BY <1>b, <1>t DEF Goto, TypeOK
  <1>1. Quiescent'
    BY <1>b, <1>d, <1>o, <1>p, <1>q, <1>t, RunOfType DEF FinalInv, Quiescent, Goto, TypeOK, Other
  <1>2. Unstarted'
    BY <1>b, <1>c, <1>p, <1>q, <1>t DEF FinalInv, Unstarted, Goto, TypeOK
  <1>3. StateLockHeld'
    BY <1>a, <1>b, <1>d, <1>p, <1>t DEF FinalInv, StateLockHeld, Goto, TypeOK, Other
  <1>4. OpenWhileWorking'
    <2>1. pc'[Apply(r)] \in OwnWork => r \notin kept' /\ (state'[r] = NoState \/ ~state'[r].completed)
      <3> SUFFICES ASSUME pc'[Apply(r)] \in OwnWork
                   PROVE  r \notin kept' /\ (state'[r] = NoState \/ ~state'[r].completed)
        OBVIOUS
      <3>1. pc[Apply(r)] \in OwnWork
        BY <1>b, <1>p, <1>t DEF Goto, TypeOK
      <3>2. r \notin kept' /\ (state[r] = NoState \/ ~state[r].completed)
        BY <1>a, <3>1 DEF FinalInv, OpenWhileWorking
      <3>3. state'[r] = state[r] \/ state'[r] = snap[Apply(r)]
        BY <1>t, <1>p DEF ApplyStep, LockApply, HasPendingChange, PrepareChangeSnapshot, WriteChangeState, ArmChangeGuard, VerifyGuard, AbortDisarm, AbortMark, ApplyChange, SaveApplied, WriteApplied, FailSave, FailWrite, UnlockApply, Goto, TypeOK, OwnWork, Work
      <3> QED  BY <3>2, <3>3, <1>p DEF FinalInv, SnapsOpen
    <2> QED  BY <2>1, <1>a, <1>c, <1>d, <1>q DEF FinalInv, OpenWhileWorking
  <1>5. KeptIsClosed'
    <2>1. state' = state \/ pc[Apply(r)] \in OwnWork
      BY DEF ApplyStep, LockApply, HasPendingChange, PrepareChangeSnapshot, WriteChangeState, ArmChangeGuard, VerifyGuard, AbortDisarm, AbortMark, ApplyChange, SaveApplied, WriteApplied, FailSave, FailWrite, UnlockApply, OwnWork, Work
    <2>2. pc[Apply(r)] \in OwnWork => r \notin kept  BY DEF FinalInv, OpenWhileWorking
    <2>3. kept \subseteq Runs  BY <1>t DEF TypeOK
    <2> QED  BY <1>a, <1>c, <2>1, <2>2, <2>3 DEF FinalInv, KeptIsClosed
  <1>6. NobodyUndoes'
    BY <1>a, <1>d, <1>o DEF FinalInv, NobodyUndoes, Other
  <1>7. SnapsOpen'
    <2>1. snap[Apply(r)] \in Snapshots  BY <1>t, <1>p DEF TypeOK
    <2>2. \/ snap' = snap
          \/ \E s \in Snapshots : ~s.completed /\ snap' = [snap EXCEPT ![Apply(r)] = s]
      <3>1. CASE PrepareChangeSnapshot(r)
        <4>1. \A c \in Requested : [before |-> target, applied |-> c, appliedState |-> Empty,
                                    completed |-> FALSE] \in Snapshots
          BY <1>t, ContentAssumption, EmptyType DEF TypeOK, Snapshots
        <4> QED  BY <3>1, <4>1 DEF PrepareChangeSnapshot
      <3>2. CASE SaveApplied(r) \/ FailSave(r)
        <4>1. [snap[Apply(r)] EXCEPT !.appliedState = target.data] \in Snapshots
          BY <1>t, <2>1 DEF TypeOK, Snapshots, Targets
        <4>2. ~[snap[Apply(r)] EXCEPT !.appliedState = target.data].completed
          BY <1>p, <2>1 DEF FinalInv, SnapsOpen, Snapshots
        <4> QED  BY <3>2, <4>1, <4>2 DEF SaveApplied, FailSave
      <3>3. CASE ~(PrepareChangeSnapshot(r) \/ SaveApplied(r) \/ FailSave(r))
        BY <3>3 DEF ApplyStep, LockApply, HasPendingChange, WriteChangeState, ArmChangeGuard,
                    VerifyGuard, AbortDisarm, AbortMark, ApplyChange, WriteApplied, FailWrite,
                    UnlockApply
      <3> QED  BY <3>1, <3>2, <3>3
    <2> QED  BY <1>t, <2>2 DEF FinalInv, SnapsOpen, TypeOK
  <1> QED  BY <1>t, <1>1, <1>2, <1>3, <1>4, <1>5, <1>6, <1>7 DEF FinalInv

\* The steps under the state lock, and those of the unlocked rollback.
LEMMA GuardStepFinal ==
    ASSUME FinalInv, NEW p \in Procs, GuardStep(p)
    PROVE  FinalInv'
  <1>t. TypeOK /\ TypeOK'  BY GuardStepType DEF FinalInv
  <1>r. RunOf(p) \in Runs /\ snap[p] \in Snapshots  BY <1>t, RunOfType DEF TypeOK
  <1>q. \A q \in Runs : Apply(q) \in Procs /\ RunOf(Apply(q)) = q /\ ~Other(Apply(q))
    BY ApplyIsProc DEF Other
  <1>o. Other(p) <=> p[1] # "apply"  BY OtherRole
  <1>w. pc[p] # "idle"
    BY DEF GuardStep, LockState, ReadChangeState, ConfirmStop, ConfirmStillActive, RollbackRead,
           RollbackWrite, RollbackVerify, Disarm, Mark, UnlockState
  <1>c. \A x \in Procs : x # p => pc'[x] = pc[x]
    BY <1>t DEF GuardStep, LockState, ReadChangeState, ConfirmStop, ConfirmStillActive, RollbackRead,
           RollbackWrite, RollbackVerify, Disarm, Mark, UnlockState, Leave, Goto, TypeOK
  <1>e. ~Other(p) /\ pc'[p] \in OwnWork => pc[p] \in OwnWork
    <2>1. ~Other(p) /\ pc[p] = "read" => Confirming(p)
      BY <1>o DEF FinalInv, StateLockHeld, Confirming
    <2> QED
      BY <1>t, <1>o, <2>1 DEF GuardStep, LockState, ReadChangeState, ConfirmStop, ConfirmStillActive,
             RollbackRead, RollbackWrite, RollbackVerify, Disarm, Mark, UnlockState, Leave, Goto,
             AfterBody, AfterUndo, TypeOK, OwnWork, Work
  <1>f. pc'[p] \notin {"hasPending", "prepare"} /\ (~Other(p) => pc'[p] # "idle")
    BY <1>t, <1>o DEF GuardStep, LockState, ReadChangeState, ConfirmStop, ConfirmStillActive, RollbackRead,
           RollbackWrite, RollbackVerify, Disarm, Mark, UnlockState, Leave, Goto, AfterBody, AfterUndo, TypeOK
  <1>g. \A q \in Runs : q # RunOf(p) => state'[q] = state[q] /\ timer'[q] = timer[q]
                                       /\ stateLock'[q] = stateLock[q] /\ (q \in kept' <=> q \in kept)
    BY <1>t, <1>r DEF GuardStep, LockState, ReadChangeState, ConfirmStop, ConfirmStillActive, RollbackRead,
           RollbackWrite, RollbackVerify, Disarm, Mark, UnlockState, Leave, StopTimer, TypeOK
  <1>1. Quiescent'
    BY <1>c, <1>e, <1>q, <1>w, RunOfType DEF FinalInv, Quiescent, Other
  <1>2. Unstarted'
    BY <1>c, <1>e, <1>f, <1>g, <1>q, <1>w, <1>r DEF FinalInv, Unstarted, Quiescent, Other, OwnWork
  <1>3. StateLockHeld'
    <2>1. CASE LockState(p)
      <3>1. stateLock[RunOf(p)] = Free => \A x \in Procs : x # stateLock[RunOf(p)]
        BY FreeIsNoProc
      <3> QED
        BY <2>1, <3>1, <1>c, <1>g, <1>t, <1>r, RunOfType
        DEF LockState, Leave, Goto, FinalInv, StateLockHeld, Body, TypeOK, Other
    <2>2. CASE UnlockState(p)
      BY <2>2, <1>c, <1>g, <1>t, <1>r, RunOfType
      DEF UnlockState, Leave, Goto, FinalInv, StateLockHeld, Body, TypeOK, Other
    <2>3. CASE ~LockState(p) /\ ~UnlockState(p)
      <3>1. stateLock' = stateLock
        BY <2>3 DEF GuardStep, LockState, ReadChangeState, ConfirmStop, ConfirmStillActive, RollbackRead,
           RollbackWrite, RollbackVerify, Disarm, Mark, UnlockState
      <3>2. \/ pc'[p] \in {"read", "stop", "stillActive", "disarm", "mark", "unlockState"}
            \/ Other(p) /\ pc'[p] \in Body
            => stateLock[RunOf(p)] = p
        BY <2>3, <1>t, <1>o DEF GuardStep, LockState, ReadChangeState, ConfirmStop, ConfirmStillActive, RollbackRead,
           RollbackWrite, RollbackVerify, Disarm, Mark, UnlockState,
           Goto, AfterBody, AfterUndo, FinalInv, StateLockHeld, Body, TypeOK
      <3> QED  BY <3>1, <3>2, <1>c DEF FinalInv, StateLockHeld, Other
    <2> QED  BY <2>1, <2>2, <2>3
  <1>4. OpenWhileWorking'
    <2> SUFFICES ASSUME NEW q \in Runs, pc'[Apply(q)] \in OwnWork
                 PROVE  q \notin kept' /\ (state'[q] = NoState \/ ~state'[q].completed)
      BY DEF OpenWhileWorking
    <2>1. pc[Apply(q)] \in OwnWork  BY <1>c, <1>e, <1>q
    <2>2. q \notin kept /\ (state[q] = NoState \/ ~state[q].completed)
      BY <2>1 DEF FinalInv, OpenWhileWorking
    <2>3. CASE q # RunOf(p)  BY <2>2, <2>3, <1>g
    <2>4. CASE q = RunOf(p)
      <3>1. p = Apply(q)  BY <2>1, <2>4, <1>w DEF FinalInv, Quiescent, Other
      <3>2. ~Mark(p)  BY <2>1, <3>1 DEF Mark, OwnWork, Work
      <3>3. state' = state /\ kept' = kept
        BY <3>2 DEF GuardStep, LockState, ReadChangeState, ConfirmStop, ConfirmStillActive, RollbackRead,
           RollbackWrite, RollbackVerify, Disarm, Mark, UnlockState
      <3> QED  BY <2>2, <3>3
    <2> QED  BY <2>3, <2>4
  <1>5. KeptIsClosed'
    BY <1>t, <1>r, CompletedType DEF GuardStep, LockState, ReadChangeState, ConfirmStop, ConfirmStillActive, RollbackRead,
           RollbackWrite, RollbackVerify, Disarm, Mark, UnlockState, FinalInv, KeptIsClosed, TypeOK
  <1>6. NobodyUndoes'
    <2>1. CASE Mark(p)
      <3>1. Confirming(p) => stateLock[RunOf(p)] = p
        BY <2>1, <1>o DEF Confirming, Mark, FinalInv, StateLockHeld, Body
      <3>2. Confirming(p) => \A x \in Procs : x # p /\ RunOf(x) = RunOf(p) /\ Other(x)
                                              => pc[x] \notin Body \cup {"stop", "stillActive"}
        BY <3>1 DEF FinalInv, StateLockHeld
      <3>3. pc'[p] \notin Body \cup {"stop", "stillActive"}
        BY <2>1, <1>t DEF Mark, Goto, AfterBody, AfterUndo, TypeOK, Body
      <3>4. RunOf(p) \in kept' /\ RunOf(p) \notin kept => Confirming(p)
        BY <2>1 DEF Mark
      <3> QED  BY <3>2, <3>3, <3>4, <1>c, <1>g, RunOfType DEF FinalInv, NobodyUndoes, Other
    <2>2. CASE ~Mark(p)
      <3>1. kept' = kept
        BY <2>2 DEF GuardStep, LockState, ReadChangeState, ConfirmStop, ConfirmStillActive, RollbackRead,
           RollbackWrite, RollbackVerify, Disarm, Mark, UnlockState
      <3>2. Other(p) /\ pc'[p] \in Body \cup {"stop", "stillActive"} => RunOf(p) \notin kept
        <4>1. CASE ReadChangeState(p)
          <5>1. pc'[p] \in Body \cup {"stop", "stillActive"}
                  => Readable(state[RunOf(p)]) /\ ~state[RunOf(p)].completed
            BY <4>1, <1>t DEF ReadChangeState, Goto, TypeOK, Body
          <5> QED  BY <5>1 DEF FinalInv, KeptIsClosed, Readable
        <4>2. CASE ~ReadChangeState(p)
          BY <2>2, <4>2, <1>t DEF GuardStep, LockState, ReadChangeState, ConfirmStop, ConfirmStillActive, RollbackRead,
           RollbackWrite, RollbackVerify, Disarm, Mark, UnlockState,
             Leave, Goto, AfterBody, AfterUndo, FinalInv, NobodyUndoes, Body, TypeOK
        <4> QED  BY <4>1, <4>2
      <3> QED  BY <3>1, <3>2, <1>c DEF FinalInv, NobodyUndoes, Other
    <2> QED  BY <2>1, <2>2
  <1>7. SnapsOpen'
    <2>1. \/ snap' = snap \/ snap' = [snap EXCEPT ![p] = NoSnapshot]
          \/ /\ snap' = [snap EXCEPT ![p] = state[RunOf(p)]]
             /\ ~state[RunOf(p)].completed
      BY DEF GuardStep, LockState, ReadChangeState, ConfirmStop, ConfirmStillActive, RollbackRead,
           RollbackWrite, RollbackVerify, Disarm, Mark, UnlockState, Leave, Forget
    <2> QED  BY <1>t, <2>1 DEF FinalInv, SnapsOpen, TypeOK, NoSnapshot
  <1> QED  BY <1>t, <1>1, <1>2, <1>3, <1>4, <1>5, <1>6, <1>7 DEF FinalInv

LEMMA NextFinal ==
    ASSUME Early = FALSE, FinalInv, [Next]_vars
    PROVE  FinalInv'
  <1>t. TypeOK /\ TypeOK'  BY NextType DEF FinalInv
  <1>q. \A q \in Runs : Apply(q) \in Procs /\ RunOf(Apply(q)) = q /\ ~Other(Apply(q))
    BY ApplyIsProc DEF Other
  <1>1. CASE \E r \in Runs : ApplyStep(r)
    BY <1>1, ApplyStepFinal
  <1>2. CASE \E r \in Runs : TimerFires(r)
    <2> PICK r \in Runs : TimerFires(r)  BY <1>2
    <2> DEFINE p == <<"timer", r>>
    <2>p. p \in Procs /\ RunOf(p) = r /\ p[1] = "timer"  BY DEF Procs, Roles, RunOf
    <2>o. Other(p)  BY <2>p, OtherRole
    <2> HIDE DEF p
    <2>1. pc[Apply(r)] \notin OwnWork
      BY DEF TimerFires, FinalInv, Unstarted, OwnWork
    <2>2. \A x \in Procs : pc'[x] = IF x = p THEN "lock" ELSE pc[x]
      BY <1>t DEF TimerFires, Goto, TypeOK, p
    <2>3. UNCHANGED <<state, stateLock, snap, kept>>  BY DEF TimerFires
    <2>4. \A q \in Runs : pc'[Apply(q)] = pc[Apply(q)]  BY <2>2, <2>o, <1>q
    <2>5. \A q \in Runs : q # r => timer'[q] = timer[q]  BY <1>t DEF TimerFires, TypeOK
    <2>6. Quiescent'
      BY <2>1, <2>2, <2>4, <2>p, RunOfType DEF FinalInv, Quiescent, Other
    <2>7. Unstarted'
      BY <2>1, <2>3, <2>4, <2>5 DEF FinalInv, Unstarted, OwnWork
    <2>8. StateLockHeld' /\ NobodyUndoes'
      BY <2>2, <2>3 DEF FinalInv, StateLockHeld, NobodyUndoes, Other, Body
    <2>9. OpenWhileWorking' /\ KeptIsClosed' /\ SnapsOpen'
      BY <2>3, <2>4 DEF FinalInv, OpenWhileWorking, KeptIsClosed, SnapsOpen
    <2> QED  BY <1>t, <2>6, <2>7, <2>8, <2>9 DEF FinalInv
  <1>3. CASE \E p \in Procs : GuardStep(p)
    BY <1>3, GuardStepFinal
  <1>4. CASE \E p \in Procs : Command(p)
    <2> PICK p \in Procs : Command(p)  BY <1>4
    <2>o. Other(p) /\ RunOf(p) \in Runs  BY OtherRole, RunOfType, TypedAssumption DEF Command
    <2>1. pc[Apply(RunOf(p))] \notin OwnWork
      BY <2>o DEF Command, FinalInv, Unstarted, OwnWork
    <2>2. \A x \in Procs : pc'[x] = IF x = p THEN "lock" ELSE pc[x]
      BY <1>t DEF Command, Goto, TypeOK
    <2>3. UNCHANGED <<state, timer, stateLock, snap, kept>>  BY DEF Command
    <2>4. \A q \in Runs : pc'[Apply(q)] = pc[Apply(q)]  BY <2>2, <2>o, <1>q
    <2>6. Quiescent'
      BY <2>1, <2>2, <2>4, RunOfType DEF FinalInv, Quiescent, Other
    <2>8. StateLockHeld' /\ NobodyUndoes'
      BY <2>2, <2>3 DEF FinalInv, StateLockHeld, NobodyUndoes, Other, Body
    <2>9. Unstarted' /\ OpenWhileWorking' /\ KeptIsClosed' /\ SnapsOpen'
      BY <2>3, <2>4 DEF FinalInv, Unstarted, OpenWhileWorking, KeptIsClosed, SnapsOpen
    <2> QED  BY <1>t, <2>6, <2>8, <2>9 DEF FinalInv
  <1>5. CASE \E p \in Procs : Crash(p)
    <2> PICK p \in Procs : Crash(p)  BY <1>5
    <2>o. RunOf(p) \in Runs /\ (Other(p) <=> p[1] # "apply")  BY RunOfType, OtherRole
    <2>1. \A x \in Procs : x # p => pc'[x] = pc[x]
      BY <1>t DEF Crash, Goto, TypeOK
    <2>2. pc'[p] \in {"idle", "done"} /\ (~Other(p) => pc'[p] = "done") /\ pc[p] \notin {"idle", "done"}
      BY <1>t, <2>o, KillAssumption DEF Crash, Goto, TypeOK
    <2>3. UNCHANGED <<state, kept>>  BY DEF Crash
    <2>4. \A r \in Runs : r # RunOf(p) => timer'[r] = timer[r]
      BY <1>t, <2>o DEF Crash, TypeOK
    <2>5. \A x \in Procs : x # p /\ stateLock[RunOf(x)] = x => stateLock'[RunOf(x)] = x
      BY RunOfType DEF Crash, Dropped
    <2>6. Quiescent'
      BY <2>1, <2>2, <2>o, <1>q, RunOfType DEF FinalInv, Quiescent, Other, OwnWork, Work
    <2>7. Unstarted'
      BY <2>1, <2>2, <2>3, <2>4, <1>q DEF FinalInv, Unstarted, Quiescent, Crash, OwnWork
    <2>8. StateLockHeld'
      BY <2>1, <2>2, <2>5 DEF FinalInv, StateLockHeld, Other, Body
    <2>9. NobodyUndoes' /\ KeptIsClosed'
      BY <2>1, <2>2, <2>3 DEF FinalInv, NobodyUndoes, KeptIsClosed, Other, Body
    <2>10. OpenWhileWorking'
      BY <2>1, <2>2, <2>3, <1>q DEF FinalInv, OpenWhileWorking, OwnWork, Work
    <2>11. SnapsOpen'
      BY <1>t DEF FinalInv, SnapsOpen, Crash, Forget, NoSnapshot, TypeOK
    <2> QED  BY <1>t, <2>6, <2>7, <2>8, <2>9, <2>10, <2>11 DEF FinalInv
  <1>6. CASE ExternalEdit
    <2>1. UNCHANGED <<state, timer, stateLock, pc, snap, kept>>  BY <1>6 DEF ExternalEdit
    <2> QED
      BY <1>t, <2>1 DEF FinalInv, Quiescent, Unstarted, StateLockHeld, OpenWhileWorking,
                        KeptIsClosed, NobodyUndoes, SnapsOpen, Other
  <1>7. CASE Reboot
    <2>1. \A r \in Runs : state'[r] = NoState /\ timer'[r] = "none"  BY <1>7 DEF Reboot
    <2>2. \A x \in Procs : pc'[x] \in {"idle", "done"}
      BY <1>7 DEF Reboot
    <2>3. \A r \in Runs : pc'[Apply(r)] \in OwnWork => pc[Apply(r)] = "idle"
      BY <1>7, <1>q, ApplyIsProc DEF Reboot, OwnWork, Work
    <2>4. \A x \in Procs : pc[x] = "idle" => pc'[x] = "idle"
      BY <1>7 DEF Reboot
    <2>5. kept' = kept /\ snap' = snap  BY <1>7 DEF Reboot
    <2>6. kept \subseteq Runs  BY <1>t DEF TypeOK
    <2>7. Quiescent'
      BY <2>3, <2>4, RunOfType DEF FinalInv, Quiescent, Other, OwnWork
    <2>8. OpenWhileWorking'
      BY <2>1, <2>3, <2>5 DEF FinalInv, OpenWhileWorking, OwnWork
    <2>9. Unstarted' /\ StateLockHeld' /\ KeptIsClosed' /\ NobodyUndoes' /\ SnapsOpen'
      BY <2>1, <2>2, <2>5, <2>6 DEF FinalInv, Unstarted, StateLockHeld, KeptIsClosed, NobodyUndoes,
                                    SnapsOpen, Body
    <2> QED  BY <1>t, <2>7, <2>8, <2>9 DEF FinalInv
  <1>8. CASE UNCHANGED vars
    BY <1>t, <1>8 DEF vars, FinalInv, Quiescent, Unstarted, StateLockHeld, OpenWhileWorking,
                      KeptIsClosed, NobodyUndoes, SnapsOpen, Other
  <1> QED  BY <1>1, <1>2, <1>3, <1>4, <1>5, <1>6, <1>7, <1>8 DEF Next

\* Nobody at the writing step of a rollback works on a confirmed run.
LEMMA UndoesUnconfirmed ==
    ASSUME FinalInv, NEW p \in Procs, pc[p] = "rbWrite"
    PROVE  RunOf(p) \notin kept
  <1>1. CASE Other(p)  BY <1>1 DEF FinalInv, NobodyUndoes, Body
  <1>2. CASE ~Other(p)
    BY <1>2, RunOfType DEF FinalInv, OpenWhileWorking, Other, OwnWork, Work
  <1> QED  BY <1>1, <1>2

\* A confirmed change is never undone: confirmChange and rollbackState exclude
\* each other through the state lock and the completed mark, with any crashes,
\* faults, edits and reboots, when nothing acts on a run its apply still works on.
THEOREM ConfirmedIsFinal ==
    ASSUME Early = FALSE
    PROVE  Spec => ConfirmedStays
  <1>1. FinalInv /\ [Next]_vars => FinalInv'  BY NextFinal
  <1>2. FinalInv => \A p \in Procs : RollsBack(p) => RunOf(p) \notin kept
    BY UndoesUnconfirmed DEF RollsBack
  <1>3. Spec => []FinalInv  BY InitFinal, <1>1, PTL DEF Spec
  <1> QED  BY <1>2, <1>3, PTL DEF ConfirmedStays, Spec

=============================================================================
