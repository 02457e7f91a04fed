------------------------- MODULE ChangeGuardProofs -------------------------
(***************************************************************************)
(* A protected change that nobody confirms stays guarded until it is       *)
(* undone, edc refuses to undo only what somebody else has written since,  *)
(* and the rollback of a file overwrites only what its own apply wrote.    *)
(***************************************************************************)
EXTENDS ChangeRefinement

-----------------------------------------------------------------------------
(* An unconfirmed change is guarded.  The hypotheses exclude what the code   *)
(* cannot make good: an apply that is overtaken (Early), a state file or a   *)
(* timer that cannot be written or stopped, a target that cannot be read or  *)
(* written back, a command or a timer's job that is killed while it holds    *)
(* the lock, a reboot that takes the state file and leaves the changed file. *)

\* What a rollback can bring back: every table is loaded, a file has permissions.
Sound(t) == IF Kind = "iptables" THEN Parts # {} /\ \A x \in Parts : t.data[x] # Nothing
                                 ELSE t.data # Empty => t.mode # 0

Benign ==
    /\ Early = FALSE
    /\ \A f \in {"write", "save", "undo", "stop"} : ~MayFail(f)
    /\ KillPoints \subseteq {"apply"} \X Work
    /\ Kind = "authorized-keys" => MaxReboots = 0
    /\ \A t \in InitTargets \cup Foreign : Sound(t)

\* The creator of a state file's lock is at work on that run.
HoldsAt == {"read", "stop", "stillActive", "mark", "unlockState"}
Holder(r) ==
    /\ stateLock[r] # Stale
    /\ stateLock[r] \in Procs =>
         /\ RunOf(stateLock[r]) = r
         /\ pc[stateLock[r]] \in Acting \cup {"read", "unlockState"}
         /\ stateLock[r][1] = "apply" => pc[stateLock[r]] \in HoldsAt

\* Who comes to which step
RoleOK(p) ==
    /\ p[1] = "confirm" => pc[p] \notin {"rbRead", "rbWrite", "rbVerify", "disarm"}
    /\ p[1] = "apply" => pc[p] # "disarm"
    /\ pc[p] = "stillActive" => ~Active(RunOf(p))

\* The timer waits before the target is written, and its job starts once.
TimerOK(r) ==
    /\ pc[Apply(r)] = "applyWrite" => Active(r)
    /\ timer[r] = "armed" => pc[<<"timer", r>>] = "idle"

ControlInv == (\A r \in Runs : Holder(r) /\ TimerOK(r)) /\ (\A p \in Procs : RoleOK(p))

LEMMA TimerIsProc == \A r \in Runs : <<"timer", r>> \in Procs /\ RunOf(<<"timer", r>>) = r
                                     /\ <<"timer", r>> # Apply(r) /\ <<"timer", r>>[1] = "timer"
  BY DEF Procs, Roles, RunOf, Apply

LEMMA ApplyFrame ==
  ASSUME TypeOK, NEW r \in Runs, ApplyStep(r)
  PROVE  /\ \A x \in Procs : x # Apply(r) => pc'[x] = pc[x] /\ snap'[x] = snap[x]
         /\ \A q \in Runs : q # r => state'[q] = state[q] /\ timer'[q] = timer[q]
         /\ UNCHANGED <<stateLock, kept, env>>
  BY DEF TypeOK, ApplyStep, Goto, StopTimer,
     LockApply, HasPendingChange, PrepareChangeSnapshot, WriteChangeState, ArmChangeGuard, VerifyGuard,
     AbortDisarm, AbortMark, ApplyChange, SaveApplied, WriteApplied, FailSave, FailWrite, UnlockApply

LEMMA GuardFrame ==
  ASSUME TypeOK, NEW p \in Procs, GuardStep(p)
  PROVE  /\ \A x \in Procs : x # p => pc'[x] = pc[x] /\ snap'[x] = snap[x]
         /\ \A q \in Runs : q # RunOf(p) => /\ state'[q] = state[q] /\ timer'[q] = timer[q]
                                            /\ stateLock'[q] = stateLock[q]
         /\ UNCHANGED <<applyLock, env>>
  BY DEF TypeOK, GuardStep, Goto, StopTimer, Leave, Forget,
     LockState, ReadChangeState, ConfirmStop, ConfirmStillActive, RollbackRead, RollbackWrite,
     RollbackVerify, Disarm, Mark, UnlockState

LEMMA InitControl == Init => ControlInv
  <1> SUFFICES ASSUME Init PROVE ControlInv  OBVIOUS
  <1>1. \A p \in Procs : pc[p] = "idle"  BY DEF Init
  <1>2. \A r \in Runs : stateLock[r] = Free /\ timer[r] = "none"  BY DEF Init
  <1>3. Free # Stale  BY DEF Free, Stale
  <1> QED  BY <1>1, <1>2, <1>3, FreeIsNoProc, ApplyIsProc DEF ControlInv, Holder, RoleOK, TimerOK

LEMMA ApplyStepControl ==
  ASSUME Inv, Inv', Benign, ControlInv, NEW r \in Runs, ApplyStep(r)
  PROVE  ControlInv'
  <1>t. TypeOK  BY Typed1
  <1>p. Apply(r) \in Procs /\ RunOf(Apply(r)) = r /\ Apply(r)[1] = "apply"  BY ApplyIsProc
  <1>f. /\ \A x \in Procs : x # Apply(r) => pc'[x] = pc[x] /\ snap'[x] = snap[x]
        /\ \A q \in Runs : q # r => state'[q] = state[q] /\ timer'[q] = timer[q]
        /\ UNCHANGED <<stateLock, kept, env>>
    BY <1>t, ApplyFrame
  <1>1. /\ pc[Apply(r)] \notin HoldsAt /\ pc'[Apply(r)] \notin HoldsAt
        /\ pc'[Apply(r)] # "disarm"
        /\ pc'[Apply(r)] = "applyWrite" => Active(r)'
    BY <1>t, <1>p DEF TypeOK, ApplyStep, Goto, HoldsAt, Active,
     LockApply, HasPendingChange, PrepareChangeSnapshot, WriteChangeState, ArmChangeGuard, VerifyGuard,
     AbortDisarm, AbortMark, ApplyChange, SaveApplied, WriteApplied, FailSave, FailWrite, UnlockApply
  <1>2. timer'[r] = timer[r] \/ timer'[r] = "none" \/ pc[Apply(r)] = "arm"
    BY <1>t DEF TypeOK, ApplyStep, StopTimer,
     LockApply, HasPendingChange, PrepareChangeSnapshot, WriteChangeState, ArmChangeGuard, VerifyGuard,
     AbortDisarm, AbortMark, ApplyChange, SaveApplied, WriteApplied, FailSave, FailWrite, UnlockApply
  <1>3. pc[Apply(r)] = "arm" => \A x \in Procs : x # Apply(r) /\ RunOf(x) = r => pc[x] = "idle"
    BY OthersIdle DEF OwnWork, Work
  <1>4. ASSUME NEW q \in Runs PROVE Holder(q)'
    <2>1. Holder(q)  BY DEF ControlInv
    <2>2. stateLock[q] # Apply(r)  BY <2>1, <1>1, <1>p DEF Holder
    <2> QED  BY <2>1, <2>2, <1>f DEF Holder
  <1>5. ASSUME NEW q \in Runs PROVE TimerOK(q)'
    <2>1. TimerOK(q)  BY DEF ControlInv
    <2>2. CASE q = r  BY <2>1, <2>2, <1>1, <1>2, <1>3, <1>f, TimerIsProc DEF TimerOK
    <2>3. CASE q # r
      <3>1. pc'[Apply(q)] = pc[Apply(q)]  BY <2>3, <1>f, ApplyIsProc, ApplyInjective
      <3>2. pc'[<<"timer", q>>] = pc[<<"timer", q>>]  BY <1>f, <1>p, TimerIsProc
      <3> QED  BY <2>1, <2>3, <3>1, <3>2, <1>f DEF TimerOK, Active
    <2> QED  BY <2>2, <2>3
  <1>6. ASSUME NEW x \in Procs PROVE RoleOK(x)'
    <2>1. RoleOK(x)  BY DEF ControlInv
    <2>2. CASE x = Apply(r)  BY <2>2, <1>1, <1>p DEF RoleOK, HoldsAt
    <2>3. CASE x # Apply(r)
      <3>1. pc'[x] = pc[x]  BY <2>3, <1>f
      <3>2. pc[x] = "stillActive" => ~Active(RunOf(x))'
        <4> SUFFICES ASSUME pc[x] = "stillActive" PROVE ~Active(RunOf(x))'  OBVIOUS
        <4>1. ~Active(RunOf(x))  BY <2>1 DEF RoleOK
        <4>2. RunOf(x) = r => pc[Apply(r)] # "arm"  BY <1>3, <2>3
        <4> QED  BY <4>1, <4>2, <1>2, <1>f, RunOfType DEF Active
      <3> QED  BY <2>1, <3>1, <3>2 DEF RoleOK
    <2> QED  BY <2>2, <2>3
  <1> QED  BY <1>4, <1>5, <1>6 DEF ControlInv

LEMMA GuardStepControl ==
  ASSUME Inv, Inv', Benign, ControlInv, NEW p \in Procs, GuardStep(p)
  PROVE  ControlInv'
  <1>t. TypeOK /\ TypeOK'  BY Typed1 DEF Inv, FinalInv
  <1> DEFINE r == RunOf(p)
  <1>r. r \in Runs  BY RunOfType
  <1>f. /\ \A x \in Procs : x # p => pc'[x] = pc[x] /\ snap'[x] = snap[x]
        /\ \A q \in Runs : q # r => /\ state'[q] = state[q] /\ timer'[q] = timer[q]
                                    /\ stateLock'[q] = stateLock[q]
    BY <1>t, GuardFrame
  <1>h. Holder(r) /\ RoleOK(p)  BY <1>r DEF ControlInv
  <1>l. /\ stateLock[r] = p /\ p[1] = "apply" => pc[p] \in HoldsAt
        /\ stateLock[r] = p => pc[p] \in Acting \cup {"read", "unlockState"}
    BY <1>h DEF Holder
  <1> HIDE DEF r
  <1>1. \/ stateLock' = stateLock
        \/ pc[p] = "lock" /\ stateLock[r] = Free /\ stateLock' = [stateLock EXCEPT ![r] = p] /\ pc'[p] = "read"
        \/ pc[p] = "unlockState" /\ stateLock' = [stateLock EXCEPT ![r] = Free]
    BY <1>t DEF r, TypeOK, GuardStep, Goto,
     LockState, ReadChangeState, ConfirmStop, ConfirmStillActive, RollbackRead, RollbackWrite,
     RollbackVerify, Disarm, Mark, UnlockState
  <1>2. stateLock' = stateLock /\ stateLock[r] = p
          => /\ pc'[p] \in Acting \cup {"read", "unlockState"}
             /\ p[1] = "apply" => pc'[p] \in HoldsAt
    <2> SUFFICES ASSUME stateLock' = stateLock, stateLock[r] = p
                 PROVE  /\ pc'[p] \in Acting \cup {"read", "unlockState"}
                        /\ p[1] = "apply" => pc'[p] \in HoldsAt
      OBVIOUS
    <2>1. pc[p] # "lock"  BY <1>l DEF Acting
    <2>2. pc[p] # "unlockState"
      BY <1>r, <1>t, FreeIsNoProc DEF GuardStep, TypeOK, r,
        LockState, ReadChangeState, ConfirmStop, ConfirmStillActive, RollbackRead, RollbackWrite,
        RollbackVerify, Disarm, Mark, UnlockState
    <2>3. CASE p[1] = "apply"
      <3>1. pc[p] \in HoldsAt  BY <1>l, <2>3
      <3>2. Confirming(p)  BY <2>3 DEF Confirming, r
      <3> QED
        BY <1>t, <2>2, <3>1, <3>2 DEF TypeOK, GuardStep, Goto, HoldsAt, Acting,
           LockState, ReadChangeState, ConfirmStop, ConfirmStillActive, RollbackRead, RollbackWrite,
           RollbackVerify, Disarm, Mark, UnlockState
    <2>4. CASE p[1] # "apply"
      <3>1. AfterUndo(p) = "disarm" /\ AfterBody(p) = "unlockState"
        BY <2>4 DEF AfterUndo, AfterBody, r
      <3> QED
        BY <1>t, <2>1, <2>2, <2>4, <3>1 DEF TypeOK, GuardStep, Goto, Acting,
           LockState, ReadChangeState, ConfirmStop, ConfirmStillActive, RollbackRead, RollbackWrite,
           RollbackVerify, Disarm, Mark, UnlockState
    <2> QED  BY <2>3, <2>4
  <1>3. pc'[p] # "applyWrite" /\ (pc'[p] = "disarm" => p[1] \notin {"apply", "confirm"})
    <2>1. AfterUndo(p) = "disarm" => p[1] # "apply"  BY DEF AfterUndo
    <2>2. AfterUndo(p) \in {"disarm", "abortDisarm"} /\ AfterBody(p) \in {"unlockState", "unlock"}
      BY DEF AfterUndo, AfterBody
    <2>3. pc[p] \in {"rbRead", "rbWrite", "rbVerify"} => p[1] # "confirm"  BY <1>h DEF RoleOK
    <2> QED
      BY <1>t, <2>1, <2>2, <2>3 DEF TypeOK, GuardStep, Goto, Leave,
         LockState, ReadChangeState, ConfirmStop, ConfirmStillActive, RollbackRead, RollbackWrite,
         RollbackVerify, Disarm, Mark, UnlockState
  <1>4. p[1] = "confirm" => pc'[p] \notin {"rbRead", "rbWrite", "rbVerify"}
    <2> SUFFICES ASSUME p[1] = "confirm" PROVE pc'[p] \notin {"rbRead", "rbWrite", "rbVerify"}  OBVIOUS
    <2>1. Confirming(p)  BY DEF Confirming
    <2>2. pc[p] \notin {"rbRead", "rbWrite", "rbVerify", "disarm"}  BY <1>h DEF RoleOK
    <2> QED
      BY <1>t, <2>1, <2>2 DEF TypeOK, GuardStep, Goto, Leave,
         LockState, ReadChangeState, ConfirmStop, ConfirmStillActive, RollbackRead, RollbackWrite,
         RollbackVerify, Disarm, Mark, UnlockState
  <1>5. /\ timer'[r] = timer[r] \/ timer'[r] = "none"
        /\ pc'[p] = "stillActive" => timer'[r] = "none"
    <2>1. AfterUndo(p) # "stillActive" /\ AfterBody(p) # "stillActive"
      BY DEF AfterUndo, AfterBody
    <2>2. ~MayFail("stop")  BY DEF Benign
    <2> QED
      BY <1>t, <2>1, <2>2 DEF TypeOK, GuardStep, Goto, Leave, StopTimer, Active, r,
         LockState, ReadChangeState, ConfirmStop, ConfirmStillActive, RollbackRead, RollbackWrite,
         RollbackVerify, Disarm, Mark, UnlockState
  <1>6. ASSUME NEW q \in Runs PROVE Holder(q)'
    <2>1. Holder(q)  BY DEF ControlInv
    <2>2. CASE q # r
      <3>1. stateLock'[q] = stateLock[q] /\ stateLock[q] # p  BY <2>1, <2>2, <1>f DEF Holder, r
      <3> QED  BY <2>1, <3>1, <1>f DEF Holder
    <2>3. CASE q = r
      <3>1. CASE stateLock' = stateLock  BY <2>1, <2>3, <3>1, <1>2, <1>f DEF Holder, r
      <3>2. CASE pc[p] = "lock" /\ stateLock[r] = Free /\ stateLock' = [stateLock EXCEPT ![r] = p] /\ pc'[p] = "read"
        <4>1. stateLock'[q] = p  BY <1>r, <1>t, <2>3, <3>2 DEF TypeOK
        <4> QED  BY <4>1, <2>3, <3>2, FreeIsNoProc DEF Holder, HoldsAt, r
      <3>3. CASE pc[p] = "unlockState" /\ stateLock' = [stateLock EXCEPT ![r] = Free]
        <4>1. stateLock'[q] = Free  BY <1>r, <1>t, <2>3, <3>3 DEF TypeOK
        <4>2. Free # Stale  BY DEF Free, Stale
        <4> QED  BY <4>1, <4>2, FreeIsNoProc DEF Holder
      <3> QED  BY <1>1, <3>1, <3>2, <3>3
    <2> QED  BY <2>2, <2>3
  <1>7. ASSUME NEW q \in Runs PROVE TimerOK(q)'
    <2>1. TimerOK(q)  BY DEF ControlInv
    <2>2. pc'[Apply(q)] = "applyWrite" => Active(q)'
      <3> SUFFICES ASSUME pc'[Apply(q)] = "applyWrite" PROVE Active(q)'  OBVIOUS
      <3>1. p # Apply(q)  BY <1>3
      <3>2. pc[Apply(q)] = "applyWrite"  BY <1>f, <3>1, ApplyIsProc
      <3>3. q # r
        <4> SUFFICES ASSUME q = r PROVE FALSE  OBVIOUS
        <4>1. pc[p] = "idle"  BY <3>1, <3>2, OthersIdle DEF OwnWork, Work, r
        <4> QED
          BY <4>1 DEF GuardStep, LockState, ReadChangeState, ConfirmStop, ConfirmStillActive,
             RollbackRead, RollbackWrite, RollbackVerify, Disarm, Mark, UnlockState
      <3> QED  BY <2>1, <3>2, <3>3, <1>f DEF TimerOK, Active
    <2>3. timer'[q] = "armed" => pc'[<<"timer", q>>] = "idle"
      <3> SUFFICES ASSUME timer'[q] = "armed" PROVE pc'[<<"timer", q>>] = "idle"  OBVIOUS
      <3>1. timer[q] = "armed"  BY <1>5, <1>f
      <3>2. pc[<<"timer", q>>] = "idle"  BY <2>1, <3>1 DEF TimerOK
      <3>3. pc[p] # "idle"
          BY DEF GuardStep, LockState, ReadChangeState, ConfirmStop, ConfirmStillActive,
             RollbackRead, RollbackWrite, RollbackVerify, Disarm, Mark, UnlockState
      <3> QED  BY <1>f, <3>2, <3>3, TimerIsProc
    <2> QED  BY <2>2, <2>3 DEF TimerOK
  <1>8. ASSUME NEW x \in Procs PROVE RoleOK(x)'
    <2>1. RoleOK(x)  BY DEF ControlInv
    <2>2. CASE x = p  BY <2>2, <1>3, <1>4, <1>5 DEF RoleOK, Active, r
    <2>3. CASE x # p
      <3>1. ~Active(RunOf(x)) => ~Active(RunOf(x))'  BY <1>5, <1>f, RunOfType DEF Active
      <3> QED  BY <2>1, <2>3, <3>1, <1>f DEF RoleOK
    <2> QED  BY <2>2, <2>3
  <1> QED  BY <1>6, <1>7, <1>8 DEF ControlInv

LEMMA NextControl ==
  ASSUME Inv, Inv', Benign, ControlInv, [Next]_vars
  PROVE  ControlInv'
  <1>t. TypeOK  BY Typed1
  <1>1. ASSUME NEW r \in Runs, TimerFires(r) PROVE ControlInv'
    <2>1. timer[r] = "armed" /\ pc[<<"timer", r>>] = "idle"
      BY <1>1 DEF TimerFires, ControlInv, TimerOK
    <2>2. pc'[<<"timer", r>>] = "lock" /\ \A x \in Procs : x # <<"timer", r>> => pc'[x] = pc[x]
      BY <1>1, <1>t, TimerIsProc DEF TimerFires, Goto, TypeOK
    <2>3. timer'[r] = "fired" /\ (\A q \in Runs : q # r => timer'[q] = timer[q]) /\ stateLock' = stateLock
      BY <1>1, <1>t DEF TimerFires, TypeOK
    <2>4. \A q \in Runs : Active(q)' <=> Active(q)  BY <2>1, <2>3 DEF Active
    <2>5. ASSUME NEW q \in Runs PROVE Holder(q)'
      <3>1. Holder(q)  BY DEF ControlInv
      <3>2. stateLock[q] # <<"timer", r>>  BY <3>1, <2>1, TimerIsProc DEF Holder, Acting
      <3> QED  BY <3>1, <3>2, <2>2, <2>3 DEF Holder
    <2>6. ASSUME NEW q \in Runs PROVE TimerOK(q)'
      <3>1. TimerOK(q)  BY DEF ControlInv
      <3>2. pc'[Apply(q)] = pc[Apply(q)]  BY <2>2, ApplyIsProc, TimerIsProc
      <3>3. q # r => pc'[<<"timer", q>>] = pc[<<"timer", q>>]  BY <2>2, TimerIsProc
      <3> QED  BY <3>1, <3>2, <3>3, <2>3, <2>4 DEF TimerOK
    <2>7. ASSUME NEW x \in Procs PROVE RoleOK(x)'
      <3>1. RoleOK(x)  BY DEF ControlInv
      <3>2. Active(RunOf(x))' <=> Active(RunOf(x))  BY <2>4, RunOfType
      <3> QED  BY <3>1, <3>2, <2>2 DEF RoleOK
    <2> QED  BY <2>5, <2>6, <2>7 DEF ControlInv
  <1>2. ASSUME NEW p \in Procs, Command(p) PROVE ControlInv'
    <2>1. p[1] \in {"confirm", "rollback"} /\ pc[p] = "idle"  BY <1>2, TypedAssumption DEF Command
    <2>2. pc'[p] = "lock" /\ \A x \in Procs : x # p => pc'[x] = pc[x]
      BY <1>2, <1>t DEF Command, Goto, TypeOK
    <2>3. timer' = timer /\ stateLock' = stateLock  BY <1>2 DEF Command
    <2>5. ASSUME NEW q \in Runs PROVE Holder(q)'
      <3>1. Holder(q)  BY DEF ControlInv
      <3>2. stateLock[q] # p  BY <3>1, <2>1 DEF Holder, Acting
      <3> QED  BY <3>1, <3>2, <2>2, <2>3 DEF Holder
    <2>6. ASSUME NEW q \in Runs PROVE TimerOK(q)'
      <3>1. TimerOK(q)  BY DEF ControlInv
      <3>2. pc'[Apply(q)] = pc[Apply(q)] /\ pc'[<<"timer", q>>] = pc[<<"timer", q>>]
        BY <2>1, <2>2, ApplyIsProc, TimerIsProc
      <3> QED  BY <3>1, <3>2, <2>3 DEF TimerOK, Active
    <2>7. ASSUME NEW x \in Procs PROVE RoleOK(x)'
      <3>1. RoleOK(x)  BY DEF ControlInv
      <3> QED  BY <3>1, <2>2, <2>3 DEF RoleOK, Active
    <2> QED  BY <2>5, <2>6, <2>7 DEF ControlInv
  <1>3. ASSUME NEW p \in Procs, Crash(p) PROVE ControlInv'
    <2>1. p[1] = "apply" /\ pc[p] \in Work  BY <1>3 DEF Crash, Benign
    <2>2. pc'[p] = "done" /\ \A x \in Procs : x # p => pc'[x] = pc[x]
      BY <1>3, <1>t, <2>1 DEF Crash, Goto, TypeOK
    <2>3. \A q \in Runs : stateLock[q] # p
      BY <2>1, <1>t DEF ControlInv, Holder, HoldsAt, Work
    <2>4. timer' = timer /\ \A q \in Runs : stateLock'[q] = stateLock[q]
      BY <1>3, <2>1, <2>3 DEF Crash, Dropped
    <2>5. ASSUME NEW q \in Runs PROVE Holder(q)'
      BY <2>2, <2>3, <2>4 DEF ControlInv, Holder
    <2>6. ASSUME NEW q \in Runs PROVE TimerOK(q)'
      BY <2>1, <2>2, <2>4, ApplyIsProc, TimerIsProc DEF ControlInv, TimerOK, Active
    <2>7. ASSUME NEW x \in Procs PROVE RoleOK(x)'
      BY <2>2, <2>4 DEF ControlInv, RoleOK, Active
    <2> QED  BY <2>5, <2>6, <2>7 DEF ControlInv
  <1>4. CASE ExternalEdit
    BY <1>4 DEF ExternalEdit, ControlInv, Holder, TimerOK, RoleOK, Active
  <1>5. CASE Reboot
    <2>1. \A x \in Procs : pc'[x] \in {"idle", "done"}  BY <1>5 DEF Reboot
    <2>2. \A q \in Runs : stateLock'[q] = Free /\ timer'[q] = "none"  BY <1>5 DEF Reboot
    <2>3. Free # Stale  BY DEF Free, Stale
    <2> QED  BY <2>1, <2>2, <2>3, FreeIsNoProc, ApplyIsProc DEF ControlInv, Holder, RoleOK, TimerOK
  <1>6. CASE UNCHANGED vars
    BY <1>6 DEF vars, ControlInv, Holder, TimerOK, RoleOK, Active
  <1> QED  BY <1>1, <1>2, <1>3, <1>4, <1>5, <1>6, ApplyStepControl, GuardStepControl DEF Next

-----------------------------------------------------------------------------
(* What a rollback writes is what the apply has seen                       *)

\* The target, and what a run may have to bring back, can be written back.
SoundInv ==
    /\ Sound(target)
    /\ \A r \in Runs : pc[Apply(r)] \in Work \/ state[r] # NoState => Sound(Before(r))

\* Writing a sound content over whatever is there brings it back exactly.
LEMMA WrittenBack ==
  ASSUME NEW b \in Targets, NEW t \in Targets, Sound(b),
         Kind = "authorized-keys" => (b.data = Empty => b.mode = 0)
  PROVE  Written(t, b.data, b.mode) = b
  <1>1. b = [data |-> b.data, mode |-> b.mode] /\ b.data \in Contents /\ t.data \in Contents  BY DEF Targets
  <1>2. CASE Kind = "iptables"
    <2>1. \A x \in Parts : b.data[x] # Nothing  BY <1>2 DEF Sound
    <2>2. Restore(t.data, b.data, Parts) = [x \in Parts |-> b.data[x]]  BY <2>1 DEF Restore
    <2>3. b.data = [x \in Parts |-> b.data[x]]  BY <1>1 DEF Contents
    <2> QED  BY <1>1, <1>2, <2>2, <2>3 DEF Written
  <1>3. CASE Kind # "iptables"
    <2>1. Kind = "authorized-keys"  BY <1>3, KindAssumption
    <2>2. CASE b.data = Empty  BY <1>1, <1>3, <2>1, <2>2 DEF Written
    <2>3. CASE b.data # Empty
      <3>1. b.mode # 0  BY <1>3, <2>3 DEF Sound
      <3> QED  BY <1>1, <1>3, <2>3, <3>1 DEF Written, FileMode
    <2> QED  BY <2>2, <2>3
  <1> QED  BY <1>2, <1>3

\* A write over a sound target leaves a sound one.
LEMMA WrittenIsSound ==
  ASSUME NEW t \in Targets, Sound(t), NEW c \in Contents, NEW m \in Modes,
         NEW w, w = Written(t, c, m) \/ w \in AfterFailedWrite(t, c)
  PROVE  Sound(w)
  <1>1. CASE Kind = "iptables"
    <2>1. PICK d \in SUBSET Parts : w.data = Restore(t.data, c, d)
      <3>1. CASE w = Written(t, c, m)
        <4>1. w.data = Restore(t.data, c, Parts)  BY <1>1, <3>1 DEF Written
        <4> QED  BY <4>1
      <3>2. CASE w \in AfterFailedWrite(t, c)
        <4>1. PICK d \in SUBSET Parts : w = [t EXCEPT !.data = Restore(@, c, d)]
          BY <1>1, <3>2 DEF AfterFailedWrite
        <4>2. w.data = Restore(t.data, c, d)  BY <4>1 DEF Targets
        <4> QED  BY <4>2
      <3> QED  BY <3>1, <3>2
    <2>2. \A x \in Parts : w.data[x] # Nothing  BY <1>1, <2>1 DEF Restore, Sound
    <2> QED  BY <1>1, <2>2 DEF Sound
  <1>2. CASE Kind # "iptables"
    <2>1. CASE w = Written(t, c, m)
      <3>1. c # Empty => w.mode = FileMode(m)  BY <1>2, <2>1 DEF Written
      <3>2. c = Empty => w.data = Empty  BY <1>2, <2>1 DEF Written
      <3>3. FileMode(m) # 0  BY <1>2, KindAssumption DEF FileMode
      <3> QED  BY <1>2, <3>1, <3>2, <3>3 DEF Sound
    <2>2. CASE w \in AfterFailedWrite(t, c)  BY <1>2, <2>2 DEF AfterFailedWrite
    <2> QED  BY <2>1, <2>2
  <1> QED  BY <1>1, <1>2

\* A step of an apply changes its snapshot of the target only when it takes it,
\* and comes to work only from there.
LEMMA ApplyBefore ==
  ASSUME Inv, NEW r \in Runs, ApplyStep(r), ~PrepareChangeSnapshot(r)
  PROVE  /\ \A q \in Runs : Before(q)' = Before(q)
         /\ pc'[Apply(r)] \in Work => pc[Apply(r)] \in Work
         /\ state'[r] # NoState => state[r] # NoState \/ pc[Apply(r)] \in Work
  <1>t. TypeOK  BY Typed1
  <1>p. Apply(r) \in Procs  BY ApplyIsProc
  <1>1. Before(r)' = Before(r)
    BY <1>t, <1>p DEF TypeOK, Snapshots, Before, ApplyStep,
     LockApply, HasPendingChange, WriteChangeState, ArmChangeGuard, VerifyGuard,
     AbortDisarm, AbortMark, ApplyChange, SaveApplied, WriteApplied, FailSave, FailWrite, UnlockApply
  <1>2. \A q \in Runs : q # r => Before(q)' = Before(q)
    BY <1>t, ApplyFrame, ApplyIsProc, ApplyInjective DEF Before
  <1>3. pc'[Apply(r)] \in Work => pc[Apply(r)] \in Work
    BY <1>t, <1>p DEF TypeOK, Work, Goto, ApplyStep,
     LockApply, HasPendingChange, WriteChangeState, ArmChangeGuard, VerifyGuard,
     AbortDisarm, AbortMark, ApplyChange, SaveApplied, WriteApplied, FailSave, FailWrite, UnlockApply
  <1>4. state'[r] # NoState => state[r] # NoState \/ pc[Apply(r)] \in Work
    BY <1>t DEF TypeOK, Work, ApplyStep,
     LockApply, HasPendingChange, WriteChangeState, ArmChangeGuard, VerifyGuard,
     AbortDisarm, AbortMark, ApplyChange, SaveApplied, WriteApplied, FailSave, FailWrite, UnlockApply
  <1> QED  BY <1>1, <1>2, <1>3, <1>4

\* The steps under a state file's lock keep what the apply has seen.
LEMMA GuardBefore ==
  ASSUME Inv, NEW p \in Procs, GuardStep(p)
  PROVE  /\ \A q \in Runs : Before(q)' = Before(q)
         /\ \A q \in Runs : pc'[Apply(q)] \in Work => pc[Apply(q)] \in Work \/ state[q] # NoState
         /\ \A q \in Runs : state'[q] # NoState => state[q] # NoState
  <1>t. TypeOK /\ RefInv  BY Typed1
  <1>r. RunOf(p) \in Runs  BY RunOfType
  <1>f. /\ \A x \in Procs : x # p => pc'[x] = pc[x] /\ snap'[x] = snap[x]
        /\ \A q \in Runs : q # RunOf(p) => state'[q] = state[q]
    BY <1>t, GuardFrame
  <1>a. pc[p] \in Acting => state[RunOf(p)] # NoState  BY ActingIsPending DEF Pending
  <1>1. p[1] = "apply" => snap'[p] = snap[p] \/ (state[RunOf(p)] # NoState /\ snap'[p] = state[RunOf(p)])
    BY <1>t DEF TypeOK, GuardStep, Leave, Forget, Readable,
     LockState, ReadChangeState, ConfirmStop, ConfirmStillActive, RollbackRead, RollbackWrite,
     RollbackVerify, Disarm, Mark, UnlockState
  <1>2. pc'[p] \in Work /\ pc[p] \notin Acting => state[RunOf(p)] # NoState
    BY <1>t DEF TypeOK, GuardStep, Goto, Leave, Readable, Work, Acting,
     LockState, ReadChangeState, ConfirmStop, ConfirmStillActive, RollbackRead, RollbackWrite,
     RollbackVerify, Disarm, Mark, UnlockState
  <1>3. state'[RunOf(p)] # NoState => state[RunOf(p)] # NoState
    BY <1>t, <1>a DEF TypeOK, GuardStep, Acting,
     LockState, ReadChangeState, ConfirmStop, ConfirmStillActive, RollbackRead, RollbackWrite,
     RollbackVerify, Disarm, Mark, UnlockState
  <1>4. ASSUME NEW q \in Runs PROVE Before(q)' = Before(q)
    <2>1. CASE Apply(q) = p
      <3>1. RunOf(p) = q /\ p[1] = "apply"  BY <2>1, ApplyIsProc
      <3>2. state[q] # NoState => state[q].before = Before(q)  BY <1>t DEF RefInv, RunOK
      <3> QED  BY <1>1, <2>1, <3>1, <3>2 DEF Before
    <2>2. CASE Apply(q) # p  BY <2>2, <1>f, ApplyIsProc DEF Before
    <2> QED  BY <2>1, <2>2
  <1>5. ASSUME NEW q \in Runs, pc'[Apply(q)] \in Work PROVE pc[Apply(q)] \in Work \/ state[q] # NoState
    BY <1>5, <1>2, <1>a, <1>f, ApplyIsProc
  <1> QED  BY <1>3, <1>4, <1>5, <1>f

LEMMA InitSound == Init /\ Benign => SoundInv
  <1> SUFFICES ASSUME Init, Benign PROVE SoundInv  OBVIOUS
  <1>1. \A r \in Runs : pc[Apply(r)] = "idle" /\ state[r] = NoState  BY ApplyIsProc DEF Init
  <1> QED  BY <1>1 DEF Init, Benign, SoundInv, Work

LEMMA NextSound ==
  ASSUME Inv, Inv', Benign, SoundInv, [Next]_vars
  PROVE  SoundInv'
  <1>t. TypeOK /\ RefInv /\ AbsentIsClean  BY Typed1 DEF RefInv
  <1>1. ASSUME NEW r \in Runs, ApplyStep(r) PROVE SoundInv'
    <2>p. Apply(r) \in Procs  BY ApplyIsProc
    <2>1. Sound(target')
      <3>1. CASE target' = target  BY <3>1 DEF SoundInv
      <3>2. CASE target' # target
        <4>1. ApplyChange(r)
          BY <1>1, <3>2 DEF ApplyStep, LockApply, HasPendingChange, PrepareChangeSnapshot, WriteChangeState,
             ArmChangeGuard, VerifyGuard, AbortDisarm, AbortMark, SaveApplied, WriteApplied,
             FailSave, FailWrite, UnlockApply
        <4>2. snap[Apply(r)].applied \in Contents /\ snap[Apply(r)].before.mode \in Modes /\ target \in Targets
          BY <1>t, <2>p DEF TypeOK, Snapshots, Targets
        <4>3. \/ target' = Written(target, snap[Apply(r)].applied, snap[Apply(r)].before.mode)
              \/ target' \in AfterFailedWrite(target, snap[Apply(r)].applied)
          BY <4>1 DEF ApplyChange
        <4> QED  BY <4>2, <4>3, WrittenIsSound DEF SoundInv
      <3> QED  BY <3>1, <3>2
    <2>2. CASE PrepareChangeSnapshot(r)
      <3>1. \A q \in Runs : q # r => Before(q)' = Before(q) /\ pc'[Apply(q)] = pc[Apply(q)]
        BY <1>1, <1>t, ApplyFrame, ApplyIsProc, ApplyInjective DEF Before
      <3>2. state' = state /\ state[r] = NoState
        BY <1>t, <2>2 DEF PrepareChangeSnapshot, RefInv, ApplyOK, Fresh
      <3>3. pc'[Apply(r)] \in Work => Before(r)' = target
        BY <1>t, <2>2, <2>p DEF PrepareChangeSnapshot, TypeOK, Before, Goto, Work
      <3> QED  BY <2>1, <3>1, <3>2, <3>3 DEF SoundInv
    <2>3. CASE ~PrepareChangeSnapshot(r)
      <3>1. /\ \A q \in Runs : Before(q)' = Before(q)
            /\ pc'[Apply(r)] \in Work => pc[Apply(r)] \in Work
            /\ state'[r] # NoState => state[r] # NoState \/ pc[Apply(r)] \in Work
        BY <1>1, <2>3, ApplyBefore
      <3>2. \A q \in Runs : q # r => pc'[Apply(q)] = pc[Apply(q)] /\ state'[q] = state[q]
        BY <1>1, <1>t, ApplyFrame, ApplyIsProc, ApplyInjective
      <3> QED  BY <2>1, <3>1, <3>2 DEF SoundInv
    <2> QED  BY <2>2, <2>3
  <1>2. ASSUME NEW p \in Procs, GuardStep(p) PROVE SoundInv'
    <2>1. Sound(target')
      <3>1. CASE target' = target  BY <3>1 DEF SoundInv
      <3>2. CASE target' # target
        <4>1. RollbackWrite(p)
          BY <1>2, <3>2 DEF GuardStep, LockState, ReadChangeState, ConfirmStop, ConfirmStillActive,
             RollbackRead, RollbackVerify, Disarm, Mark, UnlockState
        <4>2. snap[p].before.data \in Contents /\ snap[p].before.mode \in Modes /\ target \in Targets
          BY <1>t DEF TypeOK, Snapshots, Targets
        <4>3. target' = Written(target, snap[p].before.data, snap[p].before.mode)
          BY <4>1 DEF RollbackWrite, Benign
        <4> QED  BY <4>2, <4>3, WrittenIsSound DEF SoundInv
      <3> QED  BY <3>1, <3>2
    <2> QED  BY <1>2, <2>1, GuardBefore DEF SoundInv
  <1>3. ASSUME NEW r \in Runs, TimerFires(r) PROVE SoundInv'
    <2>1. \A q \in Runs : pc'[Apply(q)] = pc[Apply(q)]
      BY <1>3, <1>t, ApplyIsProc, TimerIsProc DEF TimerFires, Goto, TypeOK
    <2> QED  BY <1>3, <2>1 DEF TimerFires, SoundInv, Before
  <1>4. ASSUME NEW p \in Procs, Command(p) \/ Crash(p) PROVE SoundInv'
    <2>1. \A q \in Runs : pc'[Apply(q)] \in Work => pc[Apply(q)] \in Work
      BY <1>4, <1>t, ApplyIsProc DEF Command, Crash, Goto, TypeOK, Work
    <2>2. \A q \in Runs : snap'[Apply(q)] = snap[Apply(q)]
      BY <1>4, <1>t, ApplyIsProc DEF Command, Crash, Forget, TypeOK
    <2> QED  BY <1>4, <2>1, <2>2 DEF Command, Crash, SoundInv, Before
  <1>5. CASE ExternalEdit
    BY <1>5 DEF ExternalEdit, SoundInv, Before, Benign
  <1>6. CASE Reboot
    <2>1. \A q \in Runs : pc'[Apply(q)] \notin Work /\ state'[q] = NoState
      BY <1>6, ApplyIsProc DEF Reboot, Work
    <2>2. Sound(target')  BY <1>6 DEF Reboot, SoundInv, Benign
    <2> QED  BY <2>1, <2>2 DEF SoundInv
  <1>7. CASE UNCHANGED vars  BY <1>7 DEF vars, SoundInv, Before
  <1> QED  BY <1>1, <1>2, <1>3, <1>4, <1>5, <1>6, <1>7 DEF Next

-----------------------------------------------------------------------------
(* A snapshot recognises what its own apply has left                       *)

Matches(s) ==
    IF Kind = "iptables" THEN s.appliedState # Empty => s.appliedState = target.data
                         ELSE target.data = s.applied /\ target.mode = FileMode(s.before.mode)

\* Until the target is written, the state file is what the apply holds in memory.
Recorded(r) ==
    /\ pc[Apply(r)] \in {"writeState", "arm", "isActive", "applyWrite"}
         => snap[Apply(r)].appliedState = Empty /\ snap[Apply(r)].applied # Empty
    /\ pc[Apply(r)] \in {"arm", "isActive", "applyWrite"} => state[r] = snap[Apply(r)]

\* While the run's own change is the last write, its snapshots match the target.
MatchRun(r) ==
    author = r => Matches(snap[Apply(r)]) /\ (state[r] # NoState => Matches(state[r]))
MatchProc(p) ==
    /\ pc[p] \in Acting /\ author = RunOf(p) => Matches(snap[p])
    /\ pc[p] = "rbVerify" => author # RunOf(p)

MatchInv == (\A r \in Runs : Recorded(r) /\ MatchRun(r)) /\ (\A p \in Procs : MatchProc(p))

LEMMA InitMatch == Init => MatchInv
  <1> SUFFICES ASSUME Init PROVE MatchInv  OBVIOUS
  <1>1. \A p \in Procs : pc[p] = "idle"  BY DEF Init
  <1>2. author = NoRun  BY DEF Init
  <1> QED  BY <1>1, <1>2, NoRunIsNoRun, ApplyIsProc, RunOfType DEF MatchInv, Recorded, MatchRun, MatchProc, Acting

\* A step of a rollback restores the target, so that nobody's change is in effect.
LEMMA RollbackRestores ==
  ASSUME Inv, Benign, SoundInv, NEW p \in Procs, RollbackWrite(p)
  PROVE  target' = Before(RunOf(p)) /\ author' = NoRun
  <1>t. TypeOK /\ RefInv /\ AbsentIsClean  BY Typed1 DEF RefInv
  <1>r. RunOf(p) \in Runs  BY RunOfType
  <1>1. pc[p] \in Acting  BY DEF RollbackWrite, Acting
  <1>2. snap[p].before = Before(RunOf(p))  BY <1>1, <1>t DEF RefInv, ProcOK
  <1>3. state[RunOf(p)] # NoState  BY <1>1, ActingIsPending DEF Pending
  <1>4. Sound(Before(RunOf(p)))  BY <1>r, <1>3 DEF SoundInv
  <1>5. Before(RunOf(p)) \in Targets /\ target \in Targets
    BY <1>t, <1>r, ApplyIsProc DEF TypeOK, Snapshots, Before
  <1>6. /\ target' = Written(target, snap[p].before.data, snap[p].before.mode)
        /\ author' = IF Restored(snap[p], target') THEN NoRun ELSE author
    BY DEF RollbackWrite, Benign
  <1>7. target' = Before(RunOf(p))
    BY <1>2, <1>4, <1>5, <1>6, <1>t, <1>r, WrittenBack DEF AbsentIsClean
  <1> QED  BY <1>2, <1>6, <1>7 DEF Restored

\* applyChange
LEMMA ApplyChangeMatch ==
  ASSUME Inv, Inv', Benign, MatchInv, NEW r \in Runs, ApplyChange(r)
  PROVE  MatchInv'
  <1>t. TypeOK /\ RefInv  BY Typed1
  <1>p. Apply(r) \in Procs /\ RunOf(Apply(r)) = r /\ Apply(r)[1] = "apply"  BY ApplyIsProc
  <1>a. pc[Apply(r)] = "applyWrite"  BY DEF ApplyChange
  <1>b. author # r  BY <1>a, <1>t DEF RefInv, ApplyOK, Unapplied
  <1>s. UNCHANGED <<state, snap>>  BY DEF ApplyChange
  <1>f. \A x \in Procs : x # Apply(r) => pc'[x] = pc[x]  BY <1>t DEF ApplyChange, Goto, TypeOK
  <1>c. author' = IF target' = target THEN author ELSE r  BY DEF ApplyChange, AuthorIs
  <1>o. \A x \in Procs : x # Apply(r) => pc[x] \notin Acting
    <2>1. pc[Apply(r)] \in OwnWork /\ pc[Apply(r)] \in Writing /\ "idle" \notin Acting
      BY <1>a DEF OwnWork, Work, Writing, Acting
    <2> QED  BY <2>1, OthersIdle, WritingAlone
  <1>d. /\ state[r] = snap[Apply(r)]
        /\ snap[Apply(r)].appliedState = Empty /\ snap[Apply(r)].applied # Empty
    BY <1>a DEF MatchInv, Recorded
  <1>1. pc'[Apply(r)] \in {"saveApplied", "unlock", "lock", "failSave", "rbRead"}
    BY <1>t, <1>p DEF ApplyChange, Goto, TypeOK
  <1>2. ASSUME NEW q \in Runs PROVE Recorded(q)'
    <2>1. CASE q = r  BY <2>1, <1>1 DEF Recorded
    <2>2. CASE q # r
      <3>1. pc'[Apply(q)] = pc[Apply(q)]  BY <2>2, <1>f, ApplyIsProc, ApplyInjective
      <3> QED  BY <3>1, <1>s DEF MatchInv, Recorded
    <2> QED  BY <2>1, <2>2
  <1>3. CASE target' = target
    <2>1. author' = author  BY <1>3, <1>c
    <2>2. ASSUME NEW q \in Runs PROVE MatchRun(q)'
      BY <1>3, <1>s, <2>1 DEF MatchInv, MatchRun, Matches
    <2>3. ASSUME NEW x \in Procs PROVE MatchProc(x)'
      <3>1. CASE x = Apply(r)  BY <3>1, <2>1, <1>b, <1>p DEF MatchProc
      <3>2. CASE x # Apply(r)  BY <3>2, <1>f, <1>o DEF MatchProc, Acting
      <3> QED  BY <3>1, <3>2
    <2> QED  BY <1>2, <2>2, <2>3 DEF MatchInv
  <1>4. CASE target' # target
    <2>1. author' = r  BY <1>4, <1>c
    <2>2. Kind = "authorized-keys" => pc'[Apply(r)] # "rbRead"
      BY <1>4, <1>t, <1>p DEF ApplyChange, AfterFailedWrite, Goto, TypeOK
    <2>3. Kind = "iptables" => pc'[Apply(r)] # "rbRead"
      BY <1>t, <1>p DEF ApplyChange, Goto, TypeOK
    <2>4. Matches(snap[Apply(r)])'
      <3>1. CASE Kind = "iptables"  BY <3>1, <1>d, <1>s DEF Matches
      <3>2. CASE Kind = "authorized-keys"
        <4>1. target' = Written(target, snap[Apply(r)].applied, snap[Apply(r)].before.mode)
          BY <1>4, <3>2 DEF ApplyChange, AfterFailedWrite
        <4>2. target' = [data |-> snap[Apply(r)].applied, mode |-> FileMode(snap[Apply(r)].before.mode)]
          BY <4>1, <3>2, <1>d DEF Written
        <4> QED  BY <4>2, <3>2, <1>s DEF Matches
      <3> QED  BY <3>1, <3>2, KindAssumption
    <2>5. ASSUME NEW q \in Runs PROVE MatchRun(q)'
      BY <2>1, <2>4, <1>d, <1>s DEF MatchRun, Matches
    <2>6. ASSUME NEW x \in Procs PROVE MatchProc(x)'
      <3>1. CASE x = Apply(r)
        BY <3>1, <2>2, <2>3, <1>1, KindAssumption DEF MatchProc, Acting
      <3>2. CASE x # Apply(r)  BY <3>2, <1>f, <1>o DEF MatchProc, Acting
      <3> QED  BY <3>1, <3>2
    <2> QED  BY <1>2, <2>5, <2>6 DEF MatchInv
  <1> QED  BY <1>3, <1>4

\* The other steps of an apply leave the target alone.
LEMMA ApplyStepMatch ==
  ASSUME Inv, Inv', Benign, MatchInv, NEW r \in Runs, ApplyStep(r), ~ApplyChange(r)
  PROVE  MatchInv'
  <1>t. TypeOK /\ RefInv  BY Typed1
  <1>p. Apply(r) \in Procs /\ RunOf(Apply(r)) = r /\ Apply(r)[1] = "apply"  BY ApplyIsProc
  <1>f. /\ \A x \in Procs : x # Apply(r) => pc'[x] = pc[x] /\ snap'[x] = snap[x]
        /\ \A q \in Runs : q # r => state'[q] = state[q]
    BY <1>t, ApplyFrame
  <1>u. UNCHANGED <<target, author>>
    BY DEF ApplyStep, LockApply, HasPendingChange, PrepareChangeSnapshot, WriteChangeState,
       ArmChangeGuard, VerifyGuard, AbortDisarm, AbortMark, SaveApplied, WriteApplied,
       FailSave, FailWrite, UnlockApply
  <1>m. Recorded(r) /\ MatchRun(r)  BY DEF MatchInv
  <1>1. ASSUME NEW q \in Runs, q # r PROVE Recorded(q)' /\ MatchRun(q)'
    <2>1. pc'[Apply(q)] = pc[Apply(q)] /\ snap'[Apply(q)] = snap[Apply(q)] /\ state'[q] = state[q]
      BY <1>1, <1>f, ApplyIsProc, ApplyInjective
    <2> QED  BY <2>1, <1>u DEF MatchInv, Recorded, MatchRun, Matches
  <1>2. ASSUME NEW x \in Procs, x # Apply(r) PROVE MatchProc(x)'
    BY <1>2, <1>f, <1>u DEF MatchInv, MatchProc, Matches
  <1>3. CASE PrepareChangeSnapshot(r)
    <2>1. author # r /\ author' # r /\ state'[r] = NoState
      BY <1>3, <1>t DEF PrepareChangeSnapshot, RefInv, ApplyOK, Unapplied, Fresh
    <2>2. pc'[Apply(r)] \in {"writeState", "unlock"}
      BY <1>3, <1>t, <1>p DEF PrepareChangeSnapshot, Goto, TypeOK
    <2>3. pc'[Apply(r)] = "writeState"
            => snap'[Apply(r)].appliedState = Empty /\ snap'[Apply(r)].applied # Empty
      <3> SUFFICES ASSUME pc'[Apply(r)] = "writeState"
                   PROVE  snap'[Apply(r)].appliedState = Empty /\ snap'[Apply(r)].applied # Empty
        OBVIOUS
      <3>1. PICK c \in Requested : snap' = [snap EXCEPT ![Apply(r)] =
                          [before |-> target, applied |-> c, appliedState |-> Empty, completed |-> FALSE]]
        BY <1>3, <1>t, <1>p DEF PrepareChangeSnapshot, Goto, TypeOK
      <3>2. c # Empty  BY ContentAssumption
      <3> QED  BY <3>1, <3>2, <1>t, <1>p DEF TypeOK
    <2>4. Recorded(r)' /\ MatchRun(r)' /\ MatchProc(Apply(r))'
      BY <2>1, <2>2, <2>3, <1>p DEF Recorded, MatchRun, MatchProc, Acting
    <2> QED  BY <1>1, <1>2, <2>4 DEF MatchInv
  <1>4. CASE ~PrepareChangeSnapshot(r)
    <2>1. Recorded(r)'
      <3>1. pc'[Apply(r)] \in {"writeState", "arm", "isActive", "applyWrite"}
              => snap'[Apply(r)] = snap[Apply(r)] /\ pc[Apply(r)] \in {"writeState", "arm", "isActive"}
        BY <1>4, <1>t, <1>p DEF TypeOK, ApplyStep, Goto,
         LockApply, HasPendingChange, WriteChangeState, ArmChangeGuard, VerifyGuard,
         AbortDisarm, AbortMark, SaveApplied, WriteApplied, FailSave, FailWrite, UnlockApply
      <3>2. pc'[Apply(r)] \in {"arm", "isActive", "applyWrite"}
              => \/ state'[r] = state[r] /\ pc[Apply(r)] \in {"arm", "isActive"}
                 \/ state'[r] = snap[Apply(r)]
        BY <1>4, <1>t, <1>p DEF TypeOK, ApplyStep, Goto,
         LockApply, HasPendingChange, WriteChangeState, ArmChangeGuard, VerifyGuard,
         AbortDisarm, AbortMark, SaveApplied, WriteApplied, FailSave, FailWrite, UnlockApply
      <3> QED  BY <3>1, <3>2, <1>m DEF Recorded
    <2>2. author = r => Matches(snap[Apply(r)])'
      <3> SUFFICES ASSUME author = r PROVE Matches(snap[Apply(r)])'  OBVIOUS
      <3>1. \/ snap'[Apply(r)] = snap[Apply(r)]
            \/ SaveApplied(r) \/ FailSave(r)
        BY <1>4 DEF ApplyStep,
         LockApply, HasPendingChange, WriteChangeState, ArmChangeGuard, VerifyGuard,
         AbortDisarm, AbortMark, WriteApplied, FailWrite, UnlockApply
      <3>2. CASE snap'[Apply(r)] = snap[Apply(r)]  BY <3>2, <1>m, <1>u DEF MatchRun, Matches
      <3>3. CASE SaveApplied(r) \/ FailSave(r)
        <4>1. snap' = [snap EXCEPT ![Apply(r)].appliedState = target.data] \/ snap' = snap
          BY <3>3 DEF SaveApplied, FailSave
        <4>2. CASE snap' = snap  BY <4>2, <3>2
        <4>3. CASE snap' = [snap EXCEPT ![Apply(r)].appliedState = target.data]
          <5>1. /\ snap'[Apply(r)].appliedState = target.data
                /\ snap'[Apply(r)].applied = snap[Apply(r)].applied
                /\ snap'[Apply(r)].before = snap[Apply(r)].before
            BY <4>3, <1>t, <1>p DEF TypeOK, Snapshots
          <5> QED  BY <5>1, <1>m, <1>u DEF MatchRun, Matches
        <4> QED  BY <4>1, <4>2, <4>3
      <3> QED  BY <3>1, <3>2, <3>3
    <2>3. author = r /\ state'[r] # NoState => Matches(state[r])'
      <3> SUFFICES ASSUME author = r, state'[r] # NoState PROVE Matches(state[r])'  OBVIOUS
      <3>1. \/ state'[r] = state[r]
            \/ state'[r] = snap[Apply(r)] \/ state'[r] = Completed(snap[Apply(r)])
        BY <1>4, <1>t DEF TypeOK, ApplyStep,
         LockApply, HasPendingChange, WriteChangeState, ArmChangeGuard, VerifyGuard,
         AbortDisarm, AbortMark, SaveApplied, WriteApplied, FailSave, FailWrite, UnlockApply
      <3>2. /\ Completed(snap[Apply(r)]).applied = snap[Apply(r)].applied
            /\ Completed(snap[Apply(r)]).appliedState = snap[Apply(r)].appliedState
            /\ Completed(snap[Apply(r)]).before = snap[Apply(r)].before
        BY <1>t, <1>p DEF TypeOK, Snapshots, Completed
      <3> QED  BY <3>1, <3>2, <1>m, <1>u DEF MatchRun, Matches
    <2>5. MatchProc(Apply(r))'
      <3>1. pc'[Apply(r)] # "rbVerify"
        BY <1>4, <1>t, <1>p DEF TypeOK, ApplyStep, Goto,
         LockApply, HasPendingChange, WriteChangeState, ArmChangeGuard, VerifyGuard,
         AbortDisarm, AbortMark, SaveApplied, WriteApplied, FailSave, FailWrite, UnlockApply
      <3> QED  BY <3>1, <2>2, <1>p, <1>u DEF MatchProc
    <2>6. MatchRun(r)'  BY <2>2, <2>3, <1>u DEF MatchRun
    <2> QED  BY <1>1, <1>2, <2>1, <2>5, <2>6 DEF MatchInv
  <1> QED  BY <1>3, <1>4

\* The steps under a state file's lock
LEMMA GuardStepMatch ==
  ASSUME Inv, Inv', Benign, SoundInv, MatchInv, NEW p \in Procs, GuardStep(p)
  PROVE  MatchInv'
  <1> DEFINE r == RunOf(p)
  <1>t. TypeOK /\ RefInv  BY Typed1
  <1>r. r \in Runs  BY RunOfType
  <1>f. /\ \A x \in Procs : x # p => pc'[x] = pc[x] /\ snap'[x] = snap[x]
        /\ \A q \in Runs : q # r => state'[q] = state[q]
    BY <1>t, GuardFrame
  <1>m. MatchRun(r) /\ MatchProc(p)  BY <1>r DEF MatchInv
  <1>i. pc[p] # "idle"
    BY DEF GuardStep, LockState, ReadChangeState, ConfirmStop, ConfirmStillActive,
       RollbackRead, RollbackWrite, RollbackVerify, Disarm, Mark, UnlockState
  <1>l. pc'[p] \notin {"writeState", "arm", "isActive", "applyWrite"}
    BY <1>t DEF TypeOK, GuardStep, Goto, Leave, AfterUndo, AfterBody,
       LockState, ReadChangeState, ConfirmStop, ConfirmStillActive,
       RollbackRead, RollbackWrite, RollbackVerify, Disarm, Mark, UnlockState
  <1> HIDE DEF r
  <1>1. ASSUME NEW q \in Runs PROVE Recorded(q)'
    <2> SUFFICES ASSUME pc'[Apply(q)] \in {"writeState", "arm", "isActive", "applyWrite"}
                 PROVE  Recorded(q)'
      BY DEF Recorded
    <2>1. p # Apply(q)  BY <1>l
    <2>2. pc'[Apply(q)] = pc[Apply(q)] /\ snap'[Apply(q)] = snap[Apply(q)]  BY <1>f, <2>1, ApplyIsProc
    <2>3. q # r  BY <2>1, <2>2, <1>i, OthersIdle DEF OwnWork, Work, r
    <2> QED  BY <2>2, <2>3, <1>f DEF MatchInv, Recorded
  <1>2. CASE RollbackWrite(p)
    <2>1. author' = NoRun  BY <1>2, RollbackRestores
    <2> QED  BY <1>1, <2>1, NoRunIsNoRun, RunOfType DEF MatchInv, MatchRun, MatchProc
  <1>3. CASE ~RollbackWrite(p)
    <2>u. UNCHANGED <<target, author>>
      BY <1>3 DEF GuardStep, LockState, ReadChangeState, ConfirmStop, ConfirmStillActive,
         RollbackRead, RollbackVerify, Disarm, Mark, UnlockState
    <2>1. pc'[p] # "rbVerify"
      BY <1>t, <1>3 DEF TypeOK, GuardStep, Goto, Leave, AfterUndo, AfterBody,
         LockState, ReadChangeState, ConfirmStop, ConfirmStillActive,
         RollbackRead, RollbackVerify, Disarm, Mark, UnlockState
    <2>2. \/ snap'[p] = snap[p] /\ (pc'[p] \in Acting => pc[p] \in Acting)
          \/ state[r] # NoState /\ snap'[p] = state[r]
          \/ pc'[p] \notin Acting /\ p[1] # "apply"
      BY <1>t, <1>3 DEF TypeOK, GuardStep, Goto, Leave, Forget, AfterUndo, AfterBody, Readable, Acting, r,
         LockState, ReadChangeState, ConfirmStop, ConfirmStillActive,
         RollbackRead, RollbackVerify, Disarm, Mark, UnlockState
    <2>3. \/ state'[r] = state[r]
          \/ pc[p] \in Acting /\ state'[r] = Completed(snap[p])
      BY <1>t, <1>3 DEF TypeOK, GuardStep, Acting, r,
         LockState, ReadChangeState, ConfirmStop, ConfirmStillActive,
         RollbackRead, RollbackVerify, Disarm, Mark, UnlockState
    <2>4. /\ Completed(snap[p]).applied = snap[p].applied
          /\ Completed(snap[p]).appliedState = snap[p].appliedState
          /\ Completed(snap[p]).before = snap[p].before
      BY <1>t DEF TypeOK, Snapshots, Completed
    <2>5. ASSUME author = r, pc'[p] \in Acting \/ p[1] = "apply", snap'[p] # snap[p]
          PROVE  Matches(snap[p])'
      BY <2>2, <2>5, <2>u, <1>m DEF MatchRun, Matches
    <2>6. ASSUME NEW q \in Runs PROVE MatchRun(q)'
      <3> SUFFICES ASSUME author = q
                   PROVE  Matches(snap[Apply(q)])' /\ (state'[q] # NoState => Matches(state[q])')
        BY <2>u DEF MatchRun
      <3>m. MatchRun(q)  BY DEF MatchInv
      <3>1. Matches(snap[Apply(q)])'
        <4>1. CASE p = Apply(q)
          <5>1. q = r /\ p[1] = "apply"  BY <4>1, ApplyIsProc DEF r
          <5>2. CASE snap'[p] = snap[p]  BY <4>1, <5>2, <3>m, <2>u DEF MatchRun, Matches
          <5>3. CASE snap'[p] # snap[p]  BY <4>1, <5>1, <5>3, <2>5
          <5> QED  BY <5>2, <5>3
        <4>2. CASE p # Apply(q)
          <5>1. snap'[Apply(q)] = snap[Apply(q)]  BY <4>2, <1>f, ApplyIsProc
          <5> QED  BY <5>1, <3>m, <2>u DEF MatchRun, Matches
        <4> QED  BY <4>1, <4>2
      <3>2. state'[q] # NoState => Matches(state[q])'
        <4>1. CASE state'[q] = state[q]  BY <4>1, <3>m, <2>u DEF MatchRun, Matches
        <4>2. CASE state'[q] # state[q]
          <5>1. q = r /\ pc[p] \in Acting /\ state'[q] = Completed(snap[p])  BY <4>2, <2>3, <1>f
          <5>2. Matches(snap[p])  BY <5>1, <1>m DEF MatchProc, r
          <5> QED  BY <5>1, <5>2, <2>4, <2>u DEF Matches
        <4> QED  BY <4>1, <4>2
      <3> QED  BY <3>1, <3>2
    <2>7. MatchProc(p)'
      <3>1. ASSUME pc'[p] \in Acting, author = r PROVE Matches(snap[p])'
        <4>1. CASE snap'[p] # snap[p]  BY <3>1, <4>1, <2>5
        <4>2. CASE snap'[p] = snap[p] /\ pc[p] \in Acting
          BY <3>1, <4>2, <1>m, <2>u DEF MatchProc, Matches, r
        <4>3. CASE state[r] # NoState /\ snap'[p] = state[r]
          BY <3>1, <4>3, <1>m, <2>u DEF MatchRun, Matches
        <4> QED  BY <3>1, <2>2, <4>1, <4>2, <4>3
      <3> QED  BY <3>1, <2>1, <2>u DEF MatchProc, r
    <2>8. ASSUME NEW x \in Procs, x # p PROVE MatchProc(x)'
      BY <2>8, <1>f, <2>u DEF MatchInv, MatchProc, Matches
    <2> QED  BY <1>1, <2>6, <2>7, <2>8 DEF MatchInv
  <1> QED  BY <1>2, <1>3

LEMMA NextMatch ==
  ASSUME Inv, Inv', Benign, SoundInv, MatchInv, [Next]_vars
  PROVE  MatchInv'
  <1>t. TypeOK  BY Typed1
  <1>1. ASSUME UNCHANGED <<target, author, state>>,
               \A x \in Procs : pc'[x] = pc[x] \/ pc'[x] \in {"idle", "done", "lock"},
               \A x \in Procs : snap'[x] = snap[x] \/ (pc'[x] \in {"idle", "done", "lock"} /\ x[1] # "apply")
        PROVE  MatchInv'
    <2>1. ASSUME NEW q \in Runs PROVE Recorded(q)' /\ MatchRun(q)'
      <3>1. snap'[Apply(q)] = snap[Apply(q)]  BY <1>1, ApplyIsProc
      <3>2. pc'[Apply(q)] = pc[Apply(q)] \/ pc'[Apply(q)] \in {"idle", "done", "lock"}  BY <1>1, ApplyIsProc
      <3> QED  BY <1>1, <3>1, <3>2 DEF MatchInv, Recorded, MatchRun, Matches
    <2>2. ASSUME NEW x \in Procs PROVE MatchProc(x)'
      BY <1>1 DEF MatchInv, MatchProc, Matches, Acting
    <2> QED  BY <2>1, <2>2 DEF MatchInv
  <1>2. ASSUME NEW r \in Runs, TimerFires(r) PROVE MatchInv'
    <2>1. \A x \in Procs : pc'[x] = pc[x] \/ pc'[x] = "lock"
      BY <1>2, <1>t DEF TimerFires, Goto, TypeOK
    <2> QED  BY <1>1, <1>2, <2>1 DEF TimerFires
  <1>3. ASSUME NEW p \in Procs, Command(p) PROVE MatchInv'
    <2>1. \A x \in Procs : pc'[x] = pc[x] \/ pc'[x] = "lock"
      BY <1>3, <1>t DEF Command, Goto, TypeOK
    <2> QED  BY <1>1, <1>3, <2>1 DEF Command
  <1>4. ASSUME NEW p \in Procs, Crash(p) PROVE MatchInv'
    <2>1. \A x \in Procs : pc'[x] = pc[x] \/ pc'[x] \in {"idle", "done"}
      BY <1>4, <1>t DEF Crash, Goto, TypeOK
    <2>2. snap' = snap  BY <1>4 DEF Crash, Forget, Benign
    <2> QED  BY <1>1, <1>4, <2>1, <2>2 DEF Crash
  <1>5. ASSUME UNCHANGED <<snap>>, author' = NoRun, \A r \in Runs : Recorded(r)' PROVE MatchInv'
    BY <1>5, NoRunIsNoRun, RunOfType DEF MatchInv, MatchRun, MatchProc
  <1>6. CASE ExternalEdit
    <2>1. \A r \in Runs : Recorded(r)'  BY <1>6 DEF ExternalEdit, MatchInv, Recorded
    <2> QED  BY <1>5, <1>6, <2>1 DEF ExternalEdit
  <1>7. CASE Reboot
    <2>1. Kind = "iptables"
      <3>1. MaxReboots # 0  BY <1>7, <1>t DEF Reboot, TypeOK
      <3> QED  BY <3>1, KindAssumption DEF Benign
    <2>2. \A x \in Procs : pc'[x] \in {"idle", "done"}  BY <1>7 DEF Reboot
    <2>3. \A r \in Runs : Recorded(r)'  BY <2>2, ApplyIsProc DEF Recorded
    <2> QED  BY <1>5, <1>7, <2>1, <2>3 DEF Reboot
  <1>8. CASE UNCHANGED vars  BY <1>1, <1>8 DEF vars
  <1> QED
    BY <1>2, <1>3, <1>4, <1>6, <1>7, <1>8, ApplyChangeMatch, ApplyStepMatch, GuardStepMatch DEF Next

-----------------------------------------------------------------------------
(* Somebody watches over a change in effect                                *)

\* The holder of the lock will confirm the run, or undo it.
Attended(r) ==
    /\ stateLock[r] \in Procs
    /\ pc[stateLock[r]] \in {"read", "stop", "stillActive", "rbRead", "rbWrite", "mark"}
Watched(r) == InEffect(r) => Pending(state[r]) /\ (Active(r) \/ Attended(r))
\* Nobody gives the lock back before that.
Finished(p) == pc[p] = "unlockState" => ~InEffect(RunOf(p))

WatchInv == (\A r \in Runs : Watched(r)) /\ (\A p \in Procs : Finished(p))

LEMMA InEffectIs == \A r \in Runs : InEffect(r) <=> author = r /\ r \notin kept /\ target # Before(r)
  BY DEF InEffect, Before

LEMMA InEffectIsPrimed ==
  \A r \in Runs : InEffect(r)' <=> author' = r /\ r \notin kept' /\ target' # Before(r)'
  BY DEF InEffect, Before

\* Only applyChange brings a change into effect.
LEMMA OnlyApplyChanges ==
  ASSUME Inv, Benign, SoundInv, [Next]_vars, NEW r \in Runs, ~ApplyChange(r), InEffect(r)'
  PROVE  InEffect(r)
  <1>t. TypeOK /\ RefInv  BY Typed1
  <1>n. author' # NoRun  BY InEffectIsPrimed, NoRunIsNoRun
  <1>1. ASSUME NEW q \in Runs, ApplyStep(q) PROVE InEffect(r)
    <2>1. kept' = kept  BY <1>1, <1>t, ApplyFrame
    <2>2. CASE ApplyChange(q)
      <3>1. q # r /\ snap' = snap  BY <2>2 DEF ApplyChange
      <3>2. target' = target /\ author' = author
        BY <2>2, <3>1, InEffectIsPrimed DEF ApplyChange, AuthorIs
      <3> QED  BY <2>1, <3>1, <3>2, InEffectIs, InEffectIsPrimed DEF Before
    <2>3. CASE ~ApplyChange(q)
      <3>1. UNCHANGED <<target, author>>
        BY <1>1, <2>3 DEF ApplyStep, LockApply, HasPendingChange, PrepareChangeSnapshot, WriteChangeState,
           ArmChangeGuard, VerifyGuard, AbortDisarm, AbortMark, SaveApplied, WriteApplied,
           FailSave, FailWrite, UnlockApply
      <3>2. PrepareChangeSnapshot(q) => author # q
        BY <1>t DEF PrepareChangeSnapshot, RefInv, ApplyOK, Unapplied, Fresh
      <3>3. Before(r)' = Before(r)
        <4>1. CASE ~PrepareChangeSnapshot(q)  BY <1>1, <4>1, ApplyBefore
        <4>2. CASE PrepareChangeSnapshot(q)
          <5>1. q # r  BY <3>1, <3>2, <4>2, InEffectIsPrimed
          <5> QED  BY <5>1, <1>1, <1>t, ApplyFrame, ApplyIsProc, ApplyInjective DEF Before
        <4> QED  BY <4>1, <4>2
      <3> QED  BY <2>1, <3>1, <3>3, InEffectIs, InEffectIsPrimed
    <2> QED  BY <2>2, <2>3
  <1>2. ASSUME NEW p \in Procs, GuardStep(p) PROVE InEffect(r)
    <2>1. ~RollbackWrite(p)  BY <1>n, RollbackRestores
    <2>2. UNCHANGED <<target, author>> /\ kept \subseteq kept'
      BY <1>2, <2>1 DEF GuardStep, LockState, ReadChangeState, ConfirmStop, ConfirmStillActive,
         RollbackRead, RollbackVerify, Disarm, Mark, UnlockState
    <2> QED  BY <1>2, <2>2, GuardBefore, InEffectIs, InEffectIsPrimed
  <1>3. ASSUME UNCHANGED <<target, author, kept>>, \A q \in Runs : snap'[Apply(q)] = snap[Apply(q)]
        PROVE  InEffect(r)
    BY <1>3, InEffectIs, InEffectIsPrimed DEF Before
  <1>4. ASSUME NEW q \in Runs, TimerFires(q) PROVE InEffect(r)  BY <1>3, <1>4 DEF TimerFires
  <1>5. ASSUME NEW p \in Procs, Command(p) PROVE InEffect(r)  BY <1>3, <1>5 DEF Command
  <1>6. ASSUME NEW p \in Procs, Crash(p) PROVE InEffect(r)
    <2>1. snap' = snap  BY <1>6 DEF Crash, Forget, Benign
    <2> QED  BY <1>3, <1>6, <2>1 DEF Crash
  <1>7. CASE ExternalEdit  BY <1>7, <1>n DEF ExternalEdit
  <1>8. CASE Reboot
    <2>1. MaxReboots # 0  BY <1>8, <1>t DEF Reboot, TypeOK
    <2> QED  BY <1>8, <1>n, <2>1, KindAssumption DEF Benign, Reboot
  <1>9. CASE UNCHANGED vars  BY <1>3, <1>9 DEF vars
  <1> QED  BY <1>1, <1>2, <1>4, <1>5, <1>6, <1>7, <1>8, <1>9 DEF Next

\* rollbackChange does not take its own apply's change for somebody else's.
LEMMA OwnIsRecognised ==
  ASSUME Inv, SoundInv, MatchInv, NEW p \in Procs, pc[p] \in Acting, author = RunOf(p)
  PROVE  ~TargetChanged(snap[p], target)
  <1>r. RunOf(p) \in Runs  BY RunOfType
  <1>1. Matches(snap[p])  BY DEF MatchInv, MatchProc
  <1>2. snap[p].before = Before(RunOf(p))  BY Typed1 DEF RefInv, ProcOK
  <1>3. Sound(Before(RunOf(p)))
    BY <1>r, ActingIsPending DEF Pending, SoundInv
  <1>4. CASE Kind = "iptables"  BY <1>1, <1>4 DEF Matches, TargetChanged
  <1>5. CASE Kind # "iptables"
    <2>1. snap[p].before.data # Empty => FileMode(snap[p].before.mode) = snap[p].before.mode
      BY <1>2, <1>3, <1>5 DEF Sound, FileMode
    <2> QED  BY <1>1, <1>5, <2>1 DEF Matches, TargetChanged
  <1> QED  BY <1>4, <1>5

\* The state of a change that can be undone is a valid one.
LEMMA SoundIsReadable ==
  ASSUME Inv, SoundInv, NEW r \in Runs, state[r] # NoState PROVE Readable(state[r])
  <1>1. state[r].before = Before(r)  BY Typed1 DEF RefInv, RunOK
  <1>2. Sound(Before(r))  BY DEF SoundInv
  <1>3. CASE Kind = "iptables"
    <2>1. PICK x \in Parts : Before(r).data[x] # Nothing  BY <1>2, <1>3 DEF Sound
    <2>2. Before(r).data # Empty  BY <2>1 DEF Empty
    <2> QED  BY <1>1, <2>2 DEF Readable
  <1> QED  BY <1>3 DEF Readable

LEMMA InitWatch == Init => WatchInv
  <1> SUFFICES ASSUME Init PROVE WatchInv  OBVIOUS
  <1>1. \A p \in Procs : pc[p] = "idle"  BY DEF Init
  <1>2. \A r \in Runs : ~InEffect(r)  BY NoRunIsNoRun DEF Init, InEffect
  <1> QED  BY <1>1, <1>2 DEF WatchInv, Watched, Finished

\* A step that leaves a run's record, timer, lock and the holder of the lock alone
LEMMA StillWatched ==
  ASSUME WatchInv, NEW r \in Runs, InEffect(r)' => InEffect(r),
         state'[r] = state[r], Active(r) => Active(r)', stateLock'[r] = stateLock[r],
         stateLock[r] \in Procs => pc'[stateLock[r]] = pc[stateLock[r]]
  PROVE  Watched(r)'
  BY DEF WatchInv, Watched, Attended, Pending

LEMMA ApplyStepWatch ==
  ASSUME Inv, Inv', Benign, ControlInv, SoundInv, WatchInv, [Next]_vars, NEW r \in Runs, ApplyStep(r)
  PROVE  WatchInv'
  <1>t. TypeOK /\ RefInv  BY Typed1
  <1>p. Apply(r) \in Procs /\ RunOf(Apply(r)) = r /\ Apply(r)[1] = "apply"  BY ApplyIsProc
  <1>f. /\ \A x \in Procs : x # Apply(r) => pc'[x] = pc[x] /\ snap'[x] = snap[x]
        /\ \A q \in Runs : q # r => state'[q] = state[q] /\ timer'[q] = timer[q]
        /\ UNCHANGED <<stateLock, kept, env>>
    BY <1>t, ApplyFrame
  <1>1. pc[Apply(r)] \notin HoldsAt /\ pc'[Apply(r)] # "unlockState"
    BY <1>t, <1>p DEF TypeOK, ApplyStep, Goto, HoldsAt,
     LockApply, HasPendingChange, PrepareChangeSnapshot, WriteChangeState, ArmChangeGuard, VerifyGuard,
     AbortDisarm, AbortMark, ApplyChange, SaveApplied, WriteApplied, FailSave, FailWrite, UnlockApply
  <1>2. \A q \in Runs : stateLock[q] # Apply(r)
    BY <1>1, <1>p DEF ControlInv, Holder
  <1>3. \A q \in Runs : stateLock[q] \in Procs => pc'[stateLock[q]] = pc[stateLock[q]]
    BY <1>2, <1>f
  <1>4. ASSUME NEW q \in Runs, q # r PROVE Watched(q)'
    <2>1. ~ApplyChange(q)
      <3>1. ApplyChange(q) => pc[Apply(q)] = "applyWrite"  BY DEF ApplyChange
      <3>2. ApplyChange(q) => pc'[Apply(q)] # "applyWrite"
        BY <1>t, ApplyIsProc DEF ApplyChange, Goto, TypeOK
      <3> QED  BY <3>1, <3>2, <1>4, <1>f, ApplyIsProc, ApplyInjective
    <2>2. InEffect(q)' => InEffect(q)  BY <2>1, OnlyApplyChanges
    <2> QED  BY <1>3, <1>4, <1>f, <2>2, StillWatched DEF Active
  <1>5. Watched(r)'
    <2> SUFFICES ASSUME InEffect(r)' PROVE Pending(state[r])' /\ (Active(r) \/ Attended(r))'
      BY DEF Watched
    <2>1. CASE ApplyChange(r)
      <3>1. pc[Apply(r)] = "applyWrite" /\ UNCHANGED <<state, timer>>  BY <2>1 DEF ApplyChange
      <3>2. Active(r)  BY <3>1 DEF ControlInv, TimerOK
      <3>3. Pending(state[r])  BY <3>1, WorkIsPending DEF Work, Fresh
      <3> QED  BY <3>1, <3>2, <3>3 DEF Active, Pending
    <2>2. CASE ~ApplyChange(r)
      <3>1. InEffect(r)  BY <2>2, OnlyApplyChanges
      <3>2. author = r /\ Owner = r  BY <3>1, InEffectIs, OwnerIs
      <3>3. pc[Apply(r)] \notin Unapplied \cup {"abortDisarm", "abortMark"}
        BY <3>2, <1>t DEF RefInv, ApplyOK
      <3>4. SaveApplied(r) \/ WriteApplied(r) \/ FailSave(r) \/ FailWrite(r) \/ UnlockApply(r)
        BY <2>2, <3>3 DEF Unapplied, Fresh, ApplyStep, LockApply, HasPendingChange, PrepareChangeSnapshot,
           WriteChangeState, ArmChangeGuard, VerifyGuard, AbortDisarm, AbortMark
      <3>5. timer' = timer /\ (state'[r] = state[r] \/ state'[r] = snap[Apply(r)])
        BY <3>4, <1>t DEF SaveApplied, WriteApplied, FailSave, FailWrite, UnlockApply, TypeOK
      <3>6. Pending(snap[Apply(r)])
        <4>1. snap[Apply(r)] # NoState  BY <1>t, <1>p, FreshAssumption DEF TypeOK
        <4>2. ~snap[Apply(r)].completed  BY <1>p DEF Inv, FinalInv, SnapsOpen
        <4> QED  BY <4>1, <4>2 DEF Pending
      <3>7. Pending(state[r]) /\ (Active(r) \/ Attended(r))  BY <3>1 DEF WatchInv, Watched
      <3>8. Pending(state[r])'
        <4>1. CASE state'[r] = state[r]  BY <3>7, <4>1 DEF Pending
        <4>2. CASE state'[r] = snap[Apply(r)]  BY <3>6, <4>2 DEF Pending
        <4> QED  BY <3>5, <4>1, <4>2
      <3>9. (Active(r) \/ Attended(r))'  BY <3>5, <3>7, <1>3, <1>f DEF Active, Attended
      <3> QED  BY <3>8, <3>9
    <2> QED  BY <2>1, <2>2
  <1>6. ASSUME NEW x \in Procs PROVE Finished(x)'
    <2>1. CASE x = Apply(r)  BY <2>1, <1>1 DEF Finished
    <2>2. CASE x # Apply(r)
      <3> SUFFICES ASSUME pc[x] = "unlockState" PROVE ~InEffect(RunOf(x))'  BY <2>2, <1>f DEF Finished
      <3>1. RunOf(x) \in Runs /\ ~InEffect(RunOf(x))  BY RunOfType DEF WatchInv, Finished
      <3>2. ~ApplyChange(RunOf(x))
        <4> SUFFICES ASSUME ApplyChange(RunOf(x)) PROVE FALSE  OBVIOUS
        <4>1. pc[Apply(RunOf(x))] = "applyWrite"  BY DEF ApplyChange
        <4>2. x # Apply(RunOf(x))  BY <4>1
        <4> QED  BY <3>1, <4>1, <4>2, OthersIdle DEF OwnWork, Work
      <3> QED  BY <3>1, <3>2, OnlyApplyChanges
    <2> QED  BY <2>1, <2>2
  <1> QED  BY <1>4, <1>5, <1>6 DEF WatchInv

\* A process that works under the lock of a run whose change is in effect goes on
\* until it has confirmed the change or undone it.
LEMMA GuardStepOwn ==
  ASSUME Inv, Inv', Benign, ControlInv, SoundInv, MatchInv, WatchInv, [Next]_vars,
         NEW p \in Procs, GuardStep(p), InEffect(RunOf(p))'
  PROVE  /\ Pending(state[RunOf(p)])' /\ (Active(RunOf(p)) \/ Attended(RunOf(p)))'
         /\ pc'[p] # "unlockState"
  <1> DEFINE r == RunOf(p)
  <1>t. TypeOK /\ RefInv  BY Typed1
  <1>r. r \in Runs  BY RunOfType
  <1>i. pc[p] \notin {"idle", "applyWrite"}
    BY DEF GuardStep, LockState, ReadChangeState, ConfirmStop, ConfirmStillActive,
       RollbackRead, RollbackWrite, RollbackVerify, Disarm, Mark, UnlockState
  <1>e. InEffect(r)
    <2>1. ApplyChange(r) => pc[Apply(r)] = "applyWrite"  BY DEF ApplyChange
    <2>2. pc[Apply(r)] # "applyWrite"  BY <1>i, <1>r, OthersIdle DEF OwnWork, Work
    <2> QED  BY <1>r, <2>1, <2>2, OnlyApplyChanges
  <1>o. author = r /\ Owner = r /\ target # Before(r)  BY <1>e, <1>r, InEffectIs, OwnerIs
  <1>g. Pending(state[r]) /\ (Active(r) \/ Attended(r))  BY <1>e, <1>r DEF WatchInv, Watched
  <1>h. Holder(r) /\ RoleOK(p) /\ Finished(p) /\ MatchProc(p) /\ ProcOK(p)
    BY <1>r, <1>t DEF ControlInv, WatchInv, MatchInv, RefInv
  <1>l. pc[p] \in HoldsAt => stateLock[r] = p  BY DEF Inv, FinalInv, StateLockHeld, HoldsAt
  <1>c. p[1] \in {"apply", "timer", "confirm", "rollback"}  BY DEF Procs, Roles
  <1> HIDE DEF r
  <1>1. pc[p] \notin {"rbVerify", "disarm", "unlockState"}
    <2>1. pc[p] # "rbVerify"  BY <1>h, <1>o DEF MatchProc, r
    <2>2. pc[p] # "disarm"  BY <1>h, <1>o, <1>c DEF RoleOK, ProcOK, r
    <2>3. pc[p] # "unlockState"  BY <1>h, <1>e DEF Finished, r
    <2> QED  BY <2>1, <2>2, <2>3
  \* enough: the lock's holder p has come to a step at which it attends
  <1>2. ASSUME state' = state, stateLock'[r] = p,
               pc'[p] \in {"read", "stop", "stillActive", "rbRead", "rbWrite", "mark"}
        PROVE  Pending(state[r])' /\ (Active(r) \/ Attended(r))' /\ pc'[p] # "unlockState"
    BY <1>2, <1>g DEF Pending, Attended
  <1>3. CASE LockState(p)
    <2>1. CASE stateLock[r] = Free
      <3>1. state' = state /\ stateLock'[r] = p /\ pc'[p] = "read"
        BY <1>3, <2>1, <1>t, <1>r DEF LockState, Goto, TypeOK, r
      <3> QED  BY <3>1, <1>2 DEF r
    <2>2. CASE stateLock[r] # Free
      <3>1. UNCHANGED <<stateLock, state>> /\ Leave(p) /\ pc[p] = "lock"  BY <1>3, <2>2 DEF LockState, r
      <3>2. stateLock[r] \in Procs  BY <2>2, <1>h, <1>t, <1>r DEF Holder, TypeOK
      <3>3. PICK h \in Procs : h = stateLock[r]  BY <3>2
      <3>4. RunOf(h) = r /\ pc[h] \in Acting \cup {"read", "unlockState"}  BY <3>3, <1>h DEF Holder
      <3>5. h # p  BY <3>1, <3>4 DEF Acting
      <3>6. pc[h] \notin {"rbVerify", "disarm", "unlockState"}
        <4>0. RoleOK(h) /\ Finished(h) /\ MatchProc(h) /\ ProcOK(h) /\ h[1] \in Roles
          BY <1>t DEF ControlInv, WatchInv, MatchInv, RefInv, Procs
        <4>1. pc[h] # "rbVerify"  BY <4>0, <3>4, <1>o DEF MatchProc
        <4>2. pc[h] # "disarm"  BY <4>0, <3>4, <1>o DEF RoleOK, ProcOK, Roles
        <4>3. pc[h] # "unlockState"  BY <4>0, <3>4, <1>e DEF Finished
        <4> QED  BY <4>1, <4>2, <4>3
      <3>7. pc'[h] = pc[h]  BY <3>1, <3>5, <1>t DEF Leave, Goto, TypeOK
      <3>8. Attended(r)'  BY <3>1, <3>3, <3>4, <3>6, <3>7 DEF Attended, Acting
      <3>9. pc'[p] # "unlockState"  BY <3>1, <1>t DEF Leave, Goto, TypeOK
      <3> QED  BY <3>1, <3>8, <3>9, <1>g DEF Pending, r
    <2> QED  BY <2>1, <2>2
  <1>4. CASE ReadChangeState(p)
    <2>1. stateLock[r] = p  BY <1>4, <1>l DEF ReadChangeState, HoldsAt
    <2>2. Readable(state[r]) /\ ~state[r].completed  BY <1>g, <1>r, SoundIsReadable DEF Pending
    <2>3. state' = state /\ stateLock'[r] = p /\ pc'[p] \in {"stop", "rbRead"}
      BY <1>4, <2>1, <2>2, <1>t DEF ReadChangeState, Goto, TypeOK, r
    <2> QED  BY <2>3, <1>2 DEF r
  <1>5. CASE ConfirmStop(p) \/ ConfirmStillActive(p)
    <2>1. stateLock[r] = p  BY <1>5, <1>l DEF ConfirmStop, ConfirmStillActive, HoldsAt
    <2>2. pc[p] = "stillActive" => ~Active(r)  BY <1>h DEF RoleOK, r
    <2>3. state' = state /\ stateLock'[r] = p /\ pc'[p] \in {"mark", "stillActive"}
      BY <1>5, <2>1, <2>2, <1>t DEF ConfirmStop, ConfirmStillActive, Goto, TypeOK, r
    <2> QED  BY <2>3, <1>2 DEF r
  <1>6. CASE RollbackRead(p)
    <2>1. pc[p] \in Acting /\ snap[p].before = Before(r)
      BY <1>6, <1>h DEF RollbackRead, ProcOK, Acting, r
    <2>2. ~TargetChanged(snap[p], target)  BY <2>1, <1>o, OwnIsRecognised DEF r
    <2>3. ~Restored(snap[p], target)  BY <2>1, <1>o DEF Restored
    <2>4. Goto(p, "rbWrite") /\ UNCHANGED <<state, stateLock, timer>>
      BY <1>6, <2>2, <2>3 DEF RollbackRead, Benign
    <2>5. pc'[p] = "rbWrite" /\ \A x \in Procs : x # p => pc'[x] = pc[x]
      BY <2>4, <1>t DEF Goto, TypeOK
    <2>6. CASE stateLock[r] = p  BY <2>4, <2>5, <2>6, <1>2 DEF r
    <2>7. CASE stateLock[r] # p
      <3>1. (Active(r) \/ Attended(r))'  BY <2>4, <2>5, <2>7, <1>g DEF Active, Attended
      <3> QED  BY <3>1, <2>4, <2>5, <1>g DEF Pending, r
    <2> QED  BY <2>6, <2>7
  <1>7. ~RollbackWrite(p)
    <2>1. author' # NoRun  BY InEffectIsPrimed, <1>r, NoRunIsNoRun DEF r
    <2> QED  BY <2>1, RollbackRestores
  <1>8. ~Mark(p)
    <2> SUFFICES ASSUME Mark(p) PROVE FALSE  OBVIOUS
    <2>1. pc[p] = "mark" /\ stateLock[r] = p  BY <1>l DEF Mark, HoldsAt
    <2>2. p[1] \notin {"timer", "rollback"}  BY <2>1, <1>h, <1>o DEF ProcOK, r
    <2>3. Confirming(p)  BY <1>c, <2>1, <2>2 DEF Confirming, r
    <2>4. r \in kept'  BY <2>3 DEF Mark, Benign, r
    <2> QED  BY <2>4, <1>r, InEffectIsPrimed DEF r
  <1> QED
    BY <1>1, <1>3, <1>4, <1>5, <1>6, <1>7, <1>8 DEF GuardStep, RollbackVerify, Disarm, UnlockState

LEMMA GuardStepWatch ==
  ASSUME Inv, Inv', Benign, ControlInv, SoundInv, MatchInv, WatchInv, [Next]_vars,
         NEW p \in Procs, GuardStep(p)
  PROVE  WatchInv'
  <1>t. TypeOK  BY Typed1
  <1>f. /\ \A x \in Procs : x # p => pc'[x] = pc[x]
        /\ \A q \in Runs : q # RunOf(p) => /\ state'[q] = state[q] /\ timer'[q] = timer[q]
                                           /\ stateLock'[q] = stateLock[q]
    BY <1>t, GuardFrame
  <1>n. \A q \in Runs : ~ApplyChange(q)
    <2> SUFFICES ASSUME NEW q \in Runs, ApplyChange(q) PROVE FALSE  OBVIOUS
    <2>1. pc[Apply(q)] = "applyWrite" /\ pc'[Apply(q)] # "applyWrite"
      BY <1>t, ApplyIsProc DEF ApplyChange, Goto, TypeOK
    <2>2. p = Apply(q)  BY <2>1, <1>f, ApplyIsProc
    <2> QED
      BY <2>1, <2>2 DEF GuardStep, LockState, ReadChangeState, ConfirmStop, ConfirmStillActive,
         RollbackRead, RollbackWrite, RollbackVerify, Disarm, Mark, UnlockState
  <1>e. \A q \in Runs : InEffect(q)' => InEffect(q)  BY <1>n, OnlyApplyChanges
  <1>1. ASSUME NEW q \in Runs PROVE Watched(q)'
    <2>1. CASE q = RunOf(p)  BY <2>1, GuardStepOwn DEF Watched
    <2>2. CASE q # RunOf(p)
      <3>1. stateLock[q] \in Procs => RunOf(stateLock[q]) = q  BY DEF ControlInv, Holder
      <3>2. stateLock[q] \in Procs => pc'[stateLock[q]] = pc[stateLock[q]]  BY <2>2, <3>1, <1>f
      <3> QED  BY <2>2, <3>2, <1>e, <1>f, StillWatched DEF Active
    <2> QED  BY <2>1, <2>2
  <1>2. ASSUME NEW x \in Procs PROVE Finished(x)'
    <2>1. CASE x = p  BY <2>1, GuardStepOwn DEF Finished
    <2>2. CASE x # p  BY <2>2, <1>e, <1>f, RunOfType DEF WatchInv, Finished
    <2> QED  BY <2>1, <2>2
  <1> QED  BY <1>1, <1>2 DEF WatchInv

LEMMA NextWatch ==
  ASSUME Inv, Inv', Benign, ControlInv, SoundInv, MatchInv, WatchInv, [Next]_vars
  PROVE  WatchInv'
  <1>t. TypeOK  BY Typed1
  \* a step of a process that is at work on no run, or of the environment
  <1>1. ASSUME NEW p \in Procs, \A q \in Runs : stateLock[q] # p,
               \A q \in Runs : ~ApplyChange(q),
               UNCHANGED state, \A q \in Runs : Active(q) => Active(q)',
               \A q \in Runs : stateLock'[q] = stateLock[q],
               \A x \in Procs : x # p => pc'[x] = pc[x], pc'[p] # "unlockState"
        PROVE  WatchInv'
    <2>e. \A q \in Runs : InEffect(q)' => InEffect(q)  BY <1>1, OnlyApplyChanges
    <2>1. ASSUME NEW q \in Runs PROVE Watched(q)'
      <3>1. stateLock[q] \in Procs => pc'[stateLock[q]] = pc[stateLock[q]]  BY <1>1
      <3> QED  BY <1>1, <2>e, <3>1, StillWatched
    <2>2. ASSUME NEW x \in Procs PROVE Finished(x)'
      BY <1>1, <2>e, RunOfType DEF WatchInv, Finished
    <2> QED  BY <2>1, <2>2 DEF WatchInv
  <1>n. ASSUME UNCHANGED target PROVE \A q \in Runs : InEffect(q)' /\ ApplyChange(q) => FALSE
    <2> SUFFICES ASSUME NEW q \in Runs, InEffect(q)', ApplyChange(q) PROVE FALSE  OBVIOUS
    <2>1. author # q  BY Typed1 DEF ApplyChange, RefInv, ApplyOK, Unapplied
    <2>2. author' = author  BY <1>n DEF ApplyChange, AuthorIs
    <2> QED  BY <2>1, <2>2, InEffectIsPrimed
  <1>2. ASSUME NEW r \in Runs, TimerFires(r) PROVE WatchInv'
    <2>1. pc[<<"timer", r>>] = "idle"  BY <1>2 DEF TimerFires, ControlInv, TimerOK
    <2>2. \A q \in Runs : stateLock[q] # <<"timer", r>>
      BY <2>1, TimerIsProc DEF ControlInv, Holder, Acting
    <2>3. pc'[<<"timer", r>>] = "lock" /\ \A x \in Procs : x # <<"timer", r>> => pc'[x] = pc[x]
      BY <1>2, <1>t, TimerIsProc DEF TimerFires, Goto, TypeOK
    <2>4. \A q \in Runs : Active(q) => Active(q)'  BY <1>2, <1>t DEF TimerFires, TypeOK, Active
    <2>5. UNCHANGED <<state, stateLock>>  BY <1>2 DEF TimerFires
    <2>6. \A q \in Runs : ~ApplyChange(q)
      BY <2>3, <1>t, ApplyIsProc, TimerIsProc DEF ApplyChange, Goto, TypeOK
    <2> QED  BY <1>1, <2>2, <2>3, <2>4, <2>5, <2>6, TimerIsProc
  <1>3. ASSUME NEW p \in Procs, Command(p) PROVE WatchInv'
    <2>1. pc[p] = "idle" /\ p[1] # "apply"  BY <1>3, TypedAssumption DEF Command
    <2>2. \A q \in Runs : stateLock[q] # p  BY <2>1 DEF ControlInv, Holder, Acting
    <2>3. pc'[p] = "lock" /\ \A x \in Procs : x # p => pc'[x] = pc[x]
      BY <1>3, <1>t DEF Command, Goto, TypeOK
    <2>4. UNCHANGED <<state, stateLock, timer>>  BY <1>3 DEF Command
    <2>6. \A q \in Runs : ~ApplyChange(q)
      BY <2>1, <2>3, <1>t, ApplyIsProc DEF ApplyChange, Goto, TypeOK
    <2> QED  BY <1>1, <2>2, <2>3, <2>4, <2>6 DEF Active
  <1>4. ASSUME NEW p \in Procs, Crash(p) PROVE WatchInv'
    <2>1. p[1] = "apply" /\ pc[p] \in Work  BY <1>4 DEF Crash, Benign
    <2>2. \A q \in Runs : stateLock[q] # p  BY <2>1 DEF ControlInv, Holder, HoldsAt, Work
    <2>3. pc'[p] = "done" /\ \A x \in Procs : x # p => pc'[x] = pc[x]
      BY <1>4, <1>t, <2>1 DEF Crash, Goto, TypeOK
    <2>4. UNCHANGED <<state, timer>> /\ \A q \in Runs : stateLock'[q] = stateLock[q]
      BY <1>4, <2>1, <2>2 DEF Crash, Dropped
    <2>6. \A q \in Runs : ~ApplyChange(q)
      BY <2>3, <1>t, ApplyIsProc DEF ApplyChange, Goto, TypeOK
    <2> QED  BY <1>1, <2>2, <2>3, <2>4, <2>6 DEF Active
  <1>5. ASSUME author' = NoRun PROVE WatchInv'
    <2>1. \A q \in Runs : ~InEffect(q)'  BY <1>5, NoRunIsNoRun, InEffectIsPrimed
    <2> QED  BY <2>1, RunOfType DEF WatchInv, Watched, Finished
  <1>6. CASE Reboot
    <2>1. MaxReboots # 0  BY <1>6, <1>t DEF Reboot, TypeOK
    <2> QED  BY <1>5, <1>6, <2>1, KindAssumption DEF Benign, Reboot
  <1>7. CASE UNCHANGED vars
    BY <1>7 DEF vars, WatchInv, Watched, Attended, Finished, InEffect, Active, Pending
  <1> QED
    BY <1>2, <1>3, <1>4, <1>5, <1>6, <1>7, ApplyStepWatch, GuardStepWatch DEF Next, ExternalEdit

-----------------------------------------------------------------------------
WatchedInv == Inv /\ ControlInv /\ SoundInv /\ MatchInv /\ WatchInv

LEMMA WatchedAlways == ASSUME Benign PROVE Spec => []WatchedInv
  <1>b. Early = FALSE  BY DEF Benign
  <1>1. Init => WatchedInv
    BY InitFinal, InitPending, InitRef, InitControl, InitSound, InitMatch, InitWatch DEF WatchedInv, Inv
  <1>2. Inv /\ [Next]_vars => Inv'  BY <1>b, NextFinal, NextPending, NextRef DEF Inv
  <1>3. WatchedInv /\ [Next]_vars => WatchedInv'
    BY <1>2, NextControl, NextSound, NextMatch, NextWatch DEF WatchedInv
  <1> QED  BY <1>1, <1>3, PTL DEF Spec

\* An unconfirmed change that is still in effect after its apply has ended is
\* guarded: its state is pending and valid, and its timer waits, or its job or a
\* command works on the run.  For any number of runs and whatever is requested,
\* edited, typed and killed among the applies.
THEOREM UnconfirmedChangeIsGuarded ==
    ASSUME Benign
    PROVE  Spec => []UnconfirmedIsGuarded
  <1>1. WatchedInv => UnconfirmedIsGuarded
    <2> SUFFICES ASSUME WatchedInv, NEW r \in Runs, InEffect(r)
                 PROVE  /\ Pending(state[r]) /\ Readable(state[r])
                        /\ Active(r) \/ stateLock[r] \in Procs
      BY DEF UnconfirmedIsGuarded
    <2>1. Pending(state[r]) /\ (Active(r) \/ Attended(r))  BY DEF WatchedInv, WatchInv, Watched
    <2>2. Readable(state[r])  BY <2>1, SoundIsReadable DEF WatchedInv, Pending
    <2> QED  BY <2>1, <2>2 DEF Attended
  <1> QED  BY <1>1, WatchedAlways, PTL

\* rollback_target_changed is true: edc refuses to undo a change only when
\* somebody else has written the target since.
THEOREM RefusalIsTrue ==
    ASSUME Benign
    PROVE  Spec => RefusesOnlyForeign
  <1>1. ASSUME WatchedInv, [Next]_vars, NEW p \in Procs,
               pc[p] = "rbRead", pc'[p] = AfterBody(p), author = RunOf(p)
        PROVE  FALSE
    <2>t. TypeOK  BY <1>1, Typed1 DEF WatchedInv
    <2>0. pc[p] \in Acting  BY <1>1 DEF Acting
    <2>1. ~TargetChanged(snap[p], target)  BY <1>1, <2>0, OwnIsRecognised DEF WatchedInv
    <2>2. AfterBody(p) \in {"unlockState", "unlock"}  BY DEF AfterBody
    <2>3. pc'[p] # pc[p]  BY <1>1, <2>2
    <2>4. ~RollbackRead(p)
      <3> SUFFICES ASSUME RollbackRead(p) PROVE FALSE  OBVIOUS
      <3>1. pc'[p] \in {AfterUndo(p), "rbWrite"}
        BY <2>t, <2>1 DEF RollbackRead, Benign, Goto, TypeOK
      <3>2. AfterUndo(p) \in {"abortDisarm", "disarm"}  BY DEF AfterUndo
      <3> QED  BY <1>1, <2>2, <3>1, <3>2
    <2>5. ASSUME NEW r \in Runs, ApplyStep(r) PROVE FALSE
      <3>1. p = Apply(r)  BY <2>t, <2>3, <2>5, ApplyFrame
      <3> QED
        BY <1>1, <2>5, <3>1 DEF ApplyStep, LockApply, HasPendingChange, PrepareChangeSnapshot,
           WriteChangeState, ArmChangeGuard, VerifyGuard, AbortDisarm, AbortMark, ApplyChange,
           SaveApplied, WriteApplied, FailSave, FailWrite, UnlockApply
    <2>6. ASSUME NEW x \in Procs, GuardStep(x) PROVE FALSE
      <3>1. p = x  BY <2>t, <2>3, <2>6, GuardFrame
      <3> QED
        BY <1>1, <2>4, <2>6, <3>1 DEF GuardStep, LockState, ReadChangeState, ConfirmStop,
           ConfirmStillActive, RollbackWrite, RollbackVerify, Disarm, Mark, UnlockState
    <2>7. ASSUME NEW r \in Runs, TimerFires(r) PROVE FALSE
      BY <1>1, <2>t, <2>2, <2>3, <2>7 DEF TimerFires, Goto, TypeOK
    <2>8. ASSUME NEW x \in Procs, Command(x) \/ Crash(x) PROVE FALSE
      BY <1>1, <2>t, <2>2, <2>3, <2>8 DEF Command, Crash, Goto, TypeOK
    <2>9. CASE ExternalEdit  BY <2>3, <2>9 DEF ExternalEdit
    <2>10. CASE Reboot  BY <1>1, <2>2, <2>10 DEF Reboot
    <2>11. CASE UNCHANGED vars  BY <2>3, <2>11 DEF vars
    <2> QED  BY <1>1, <2>5, <2>6, <2>7, <2>8, <2>9, <2>10, <2>11 DEF Next
  <1>2. WatchedInv /\ [Next]_vars =>
          [\A p \in Procs : pc[p] = "rbRead" /\ pc'[p] = AfterBody(p) => author # RunOf(p)]_vars
    BY <1>1
  <1> QED  BY <1>2, WatchedAlways, PTL DEF Spec, RefusesOnlyForeign

-----------------------------------------------------------------------------
(* A rollback of a file overwrites nobody else's content.  Between edc's     *)
(* look at the file and its rename nobody may edit it (Quiet), and what      *)
(* others write must differ from what was requested: edc compares contents.  *)
(* Faults, kills and reboots are not restricted.                             *)
Distinct == /\ Early = FALSE /\ Kind = "authorized-keys" /\ "rbWrite" \in Quiet
            /\ \A t \in Foreign : t.data \notin Requested

\* While a change is pending, the file is what its run has written or has seen, or
\* somebody else's.
Origin(r) == pc[Apply(r)] = "writeState" \/ Pending(state[r])
               => author = r \/ target = Before(r) \/ target \in Foreign

\* What is compared with the file is a requested content.
Asked(r) == /\ pc[Apply(r)] \in Work => snap[Apply(r)].applied \in Requested
            /\ state[r] # NoState => state[r].applied \in Requested
AskedBy(p) == /\ pc[p] \in Acting => snap[p].applied \in Requested
              /\ pc[p] = "rbWrite" => author = RunOf(p)

OriginInv == (\A r \in Runs : Origin(r) /\ Asked(r)) /\ (\A p \in Procs : AskedBy(p))

LEMMA InitOrigin == Init => OriginInv
  <1> SUFFICES ASSUME Init PROVE OriginInv  OBVIOUS
  <1>1. \A p \in Procs : pc[p] = "idle"  BY DEF Init
  <1>2. \A r \in Runs : pc[Apply(r)] = "idle" /\ state[r] = NoState  BY <1>1, ApplyIsProc DEF Init
  <1> QED  BY <1>1, <1>2 DEF OriginInv, Origin, Asked, AskedBy, Acting, Work, Pending

LEMMA ApplyStepOrigin ==
  ASSUME Inv, Distinct, OriginInv, NEW r \in Runs, ApplyStep(r)
  PROVE  OriginInv'
  <1>t. TypeOK /\ RefInv  BY Typed1
  <1>p. Apply(r) \in Procs /\ RunOf(Apply(r)) = r  BY ApplyIsProc
  <1>f. /\ \A x \in Procs : x # Apply(r) => pc'[x] = pc[x] /\ snap'[x] = snap[x]
        /\ \A q \in Runs : q # r => state'[q] = state[q]
    BY <1>t, ApplyFrame
  <1>m. Origin(r) /\ Asked(r)  BY DEF OriginInv
  <1>1. (target' = target /\ author' = author) \/ (ApplyChange(r) /\ author' = r)
    BY DEF ApplyStep, LockApply, HasPendingChange, PrepareChangeSnapshot, WriteChangeState,
       ArmChangeGuard, VerifyGuard, AbortDisarm, AbortMark, SaveApplied, WriteApplied,
       FailSave, FailWrite, UnlockApply, ApplyChange, AuthorIs
  <1>2. ASSUME NEW q \in Runs, q # r PROVE Origin(q)' /\ Asked(q)'
    <2>1. /\ pc'[Apply(q)] = pc[Apply(q)] /\ snap'[Apply(q)] = snap[Apply(q)] /\ state'[q] = state[q]
          /\ Before(q)' = Before(q)
      BY <1>2, <1>f, ApplyIsProc, ApplyInjective DEF Before
    <2>2. Asked(q)'  BY <2>1 DEF OriginInv, Asked
    <2>3. CASE target' = target /\ author' = author
      BY <2>1, <2>2, <2>3 DEF OriginInv, Origin, Pending
    <2>4. CASE ApplyChange(r)
      <3>1. pc[Apply(r)] = "applyWrite"  BY <2>4 DEF ApplyChange
      <3>2. ~Pending(state[q])  BY <1>2, <3>1 DEF Inv, PendingInv, OthersClosed, Writing
      <3>3. pc[Apply(q)] # "writeState"  BY <1>2, <3>1, OneApplyWorks
      <3> QED  BY <2>1, <2>2, <3>2, <3>3 DEF Origin, Pending
    <2> QED  BY <1>1, <2>3, <2>4
  <1>3. ASSUME NEW x \in Procs, x # Apply(r) PROVE AskedBy(x)'
    <2>1. CASE target' = target /\ author' = author  BY <1>3, <1>f, <2>1 DEF OriginInv, AskedBy
    <2>2. CASE ApplyChange(r)
      <3>1. pc[Apply(r)] \in OwnWork /\ pc[Apply(r)] \in Writing /\ "idle" \notin Acting
        BY <2>2 DEF ApplyChange, OwnWork, Work, Writing, Acting
      <3>2. pc[x] \notin Acting  BY <1>3, <3>1, OthersIdle, WritingAlone
      <3> QED  BY <1>3, <1>f, <3>2 DEF AskedBy, Acting
    <2> QED  BY <1>1, <2>1, <2>2
  <1>4. CASE PrepareChangeSnapshot(r)
    <2>1. target' = target /\ state'[r] = NoState
      BY <1>4, <1>t DEF PrepareChangeSnapshot, RefInv, ApplyOK, Fresh
    <2>2. \/ pc'[Apply(r)] = "unlock"
          \/ /\ pc'[Apply(r)] = "writeState" /\ Before(r)' = target
             /\ snap'[Apply(r)].applied \in Requested
      BY <1>4, <1>t, <1>p DEF PrepareChangeSnapshot, Goto, TypeOK, Before
    <2>3. Origin(r)' /\ Asked(r)' /\ AskedBy(Apply(r))'
      BY <2>1, <2>2 DEF Origin, Asked, AskedBy, Acting, Work, Pending
    <2> QED  BY <1>2, <1>3, <2>3 DEF OriginInv
  <1>5. CASE ~PrepareChangeSnapshot(r)
    <2>1. /\ Before(r)' = Before(r)
          /\ pc'[Apply(r)] \in Work => pc[Apply(r)] \in Work
      BY <1>5, ApplyBefore
    <2>2. snap'[Apply(r)].applied = snap[Apply(r)].applied
      BY <1>5, <1>t, <1>p DEF TypeOK, Snapshots, ApplyStep,
       LockApply, HasPendingChange, WriteChangeState, ArmChangeGuard, VerifyGuard,
       AbortDisarm, AbortMark, ApplyChange, SaveApplied, WriteApplied, FailSave, FailWrite, UnlockApply
    <2>3. \/ state'[r] = state[r]
          \/ /\ pc[Apply(r)] \in Work
             /\ state'[r] = snap[Apply(r)] \/ state'[r] = Completed(snap[Apply(r)])
      BY <1>5, <1>t DEF TypeOK, Work, ApplyStep,
       LockApply, HasPendingChange, WriteChangeState, ArmChangeGuard, VerifyGuard,
       AbortDisarm, AbortMark, ApplyChange, SaveApplied, WriteApplied, FailSave, FailWrite, UnlockApply
    <2>4. /\ Completed(snap[Apply(r)]).applied = snap[Apply(r)].applied
          /\ Completed(snap[Apply(r)]).completed = TRUE
      BY <1>t, <1>p DEF TypeOK, Snapshots, Completed
    <2>5. Asked(r)'  BY <2>1, <2>2, <2>3, <2>4, <1>m DEF Asked
    <2>6. Origin(r)'
      <3>1. pc'[Apply(r)] # "writeState"
        BY <1>5, <1>t, <1>p DEF TypeOK, ApplyStep, Goto,
         LockApply, HasPendingChange, WriteChangeState, ArmChangeGuard, VerifyGuard,
         AbortDisarm, AbortMark, ApplyChange, SaveApplied, WriteApplied, FailSave, FailWrite, UnlockApply
      <3> SUFFICES ASSUME Pending(state'[r]), author' # r
                   PROVE  target' = Before(r) \/ target' \in Foreign
        BY <2>1, <3>1 DEF Origin, Pending
      <3>2. target' = target /\ author' = author  BY <1>1
      <3>3. Pending(state[r]) \/ pc[Apply(r)] = "writeState"
        <4>1. CASE state'[r] = state[r]  BY <4>1
        <4>2. CASE pc[Apply(r)] \in Work  BY <4>2, WorkIsPending DEF Fresh, Work
        <4> QED  BY <2>3, <4>1, <4>2
      <3> QED  BY <3>2, <3>3, <1>m DEF Origin
    <2>7. AskedBy(Apply(r))'
      <3>1. pc'[Apply(r)] \in Acting => pc'[Apply(r)] = "rbRead"
        BY <1>5, <1>t, <1>p DEF TypeOK, ApplyStep, Goto, Acting,
         LockApply, HasPendingChange, WriteChangeState, ArmChangeGuard, VerifyGuard,
         AbortDisarm, AbortMark, ApplyChange, SaveApplied, WriteApplied, FailSave, FailWrite, UnlockApply
      <3> QED  BY <2>5, <3>1 DEF Asked, AskedBy, Acting, Work
    <2> QED  BY <1>2, <1>3, <2>5, <2>6, <2>7 DEF OriginInv
  <1> QED  BY <1>4, <1>5

LEMMA GuardStepOrigin ==
  ASSUME Inv, Distinct, OriginInv, NEW p \in Procs, GuardStep(p)
  PROVE  OriginInv'
  <1> DEFINE r == RunOf(p)
  <1>t. TypeOK /\ RefInv  BY Typed1
  <1>r. r \in Runs  BY RunOfType
  <1>f. /\ \A x \in Procs : x # p => pc'[x] = pc[x] /\ snap'[x] = snap[x]
        /\ \A q \in Runs : q # r => state'[q] = state[q]
    BY <1>t, GuardFrame
  <1>m. Asked(r) /\ AskedBy(p) /\ Origin(r)  BY <1>r DEF OriginInv
  <1>b. \A q \in Runs : Before(q)' = Before(q)  BY GuardBefore
  <1>a. pc[p] \in Acting => Pending(state[r])  BY ActingIsPending DEF r
  <1> HIDE DEF r
  <1>l. pc'[p] # "writeState"
    BY <1>t DEF TypeOK, GuardStep, Goto, Leave, AfterUndo, AfterBody,
       LockState, ReadChangeState, ConfirmStop, ConfirmStillActive,
       RollbackRead, RollbackWrite, RollbackVerify, Disarm, Mark, UnlockState
  <1>1. \/ target' = target /\ author' = author
        \/ pc[p] = "rbWrite" /\ (target' = snap[p].before \/ author' = author)
    BY DEF GuardStep, Restored, LockState, ReadChangeState, ConfirmStop, ConfirmStillActive,
       RollbackRead, RollbackWrite, RollbackVerify, Disarm, Mark, UnlockState
  <1>2. \/ snap'[p] = snap[p] /\ (pc'[p] \in Acting => pc[p] \in Acting)
        \/ state[r] # NoState /\ snap'[p] = state[r]
        \/ pc'[p] \notin Acting /\ p[1] # "apply"
    BY <1>t DEF TypeOK, GuardStep, Goto, Leave, Forget, AfterUndo, AfterBody, Readable, Acting, r,
       LockState, ReadChangeState, ConfirmStop, ConfirmStillActive,
       RollbackRead, RollbackWrite, RollbackVerify, Disarm, Mark, UnlockState
  <1>3. state'[r] = state[r] \/ (pc[p] \in Acting /\ state'[r] = Completed(snap[p]))
    BY <1>t DEF TypeOK, GuardStep, Acting, r,
       LockState, ReadChangeState, ConfirmStop, ConfirmStillActive,
       RollbackRead, RollbackWrite, RollbackVerify, Disarm, Mark, UnlockState
  <1>4. Completed(snap[p]).applied = snap[p].applied /\ Completed(snap[p]).completed = TRUE
    BY <1>t DEF TypeOK, Snapshots, Completed
  <1>5. \A q \in Runs : state'[q] # NoState => state'[q].applied \in Requested
    BY <1>3, <1>4, <1>f, <1>m DEF OriginInv, Asked, AskedBy
  <1>6. \A q \in Runs : Pending(state'[q]) => Pending(state[q])
    BY <1>3, <1>4, <1>f DEF Pending
  <1>7. ASSUME NEW q \in Runs PROVE Asked(q)'
    <2> SUFFICES ASSUME pc'[Apply(q)] \in Work PROVE snap'[Apply(q)].applied \in Requested
      BY <1>5 DEF Asked
    <2>1. CASE p = Apply(q)
      <3>1. q = r /\ p[1] = "apply"  BY <2>1, ApplyIsProc DEF r
      <3>2. CASE snap'[p] = snap[p]
        <4>1. pc[p] \in Acting \/ pc[p] = "read"
          BY <1>t, <2>1, <3>1 DEF TypeOK, GuardStep, Goto, Leave, Work, Acting,
             LockState, ReadChangeState, ConfirmStop, ConfirmStillActive,
             RollbackRead, RollbackWrite, RollbackVerify, Disarm, Mark, UnlockState
        <4>2. CASE pc[p] \in Acting  BY <2>1, <3>2, <4>2, <1>m DEF AskedBy
        <4>3. CASE pc[p] = "read"
          <5>1. snap'[p] = state[r] /\ state[r] # NoState
            BY <1>t, <2>1, <4>3 DEF TypeOK, GuardStep, Goto, Leave, Work, Readable, r,
               LockState, ReadChangeState, ConfirmStop, ConfirmStillActive,
               RollbackRead, RollbackWrite, RollbackVerify, Disarm, Mark, UnlockState
          <5> QED  BY <2>1, <5>1, <1>m DEF Asked
        <4> QED  BY <4>1, <4>2, <4>3
      <3>3. CASE snap'[p] # snap[p]  BY <2>1, <3>1, <3>3, <1>2, <1>m DEF Asked
      <3> QED  BY <3>2, <3>3
    <2>2. CASE p # Apply(q)
      <3>1. pc'[Apply(q)] = pc[Apply(q)] /\ snap'[Apply(q)] = snap[Apply(q)]  BY <2>2, <1>f, ApplyIsProc
      <3> QED  BY <3>1 DEF OriginInv, Asked
    <2> QED  BY <2>1, <2>2
  <1>8. ASSUME NEW q \in Runs PROVE Origin(q)'
    <2> SUFFICES ASSUME pc'[Apply(q)] = "writeState" \/ Pending(state'[q])
                 PROVE  author' = q \/ target' = Before(q) \/ target' \in Foreign
      BY <1>b DEF Origin, Pending
    <2>1. pc[Apply(q)] = "writeState" \/ Pending(state[q])  BY <1>6, <1>l, <1>f, ApplyIsProc
    <2>2. author = q \/ target = Before(q) \/ target \in Foreign  BY <2>1 DEF OriginInv, Origin
    <2>3. CASE target' = target /\ author' = author  BY <2>2, <2>3
    <2>4. CASE pc[p] = "rbWrite" /\ (target' = snap[p].before \/ author' = author)
      <3>1. pc[p] \in Acting  BY <2>4 DEF Acting
      <3>2. q = r
        <4>1. CASE Pending(state[q])
          BY <1>a, <1>r, <3>1, <4>1 DEF Inv, PendingInv, AtMostOnePending
        <4>2. CASE pc[Apply(q)] = "writeState"
          BY <4>2, <3>1, WritingAlone DEF Writing, r
        <4> QED  BY <2>1, <4>1, <4>2
      <3>3. snap[p].before = Before(r) /\ author = r
        BY <2>4, <3>1, <1>t, <1>m DEF RefInv, ProcOK, AskedBy, r
      <3> QED  BY <2>4, <3>2, <3>3
    <2> QED  BY <1>1, <2>3, <2>4
  <1>9. AskedBy(p)'
    <2>1. pc'[p] \in Acting => snap'[p].applied \in Requested
      BY <1>2, <1>m DEF AskedBy, Asked
    <2>2. pc'[p] = "rbWrite" => author' = r
      <3> SUFFICES ASSUME pc'[p] = "rbWrite" PROVE author' = r  OBVIOUS
      <3>1. RollbackRead(p)
        BY <1>t DEF TypeOK, GuardStep, Goto, Leave, AfterUndo, AfterBody,
           LockState, ReadChangeState, ConfirmStop, ConfirmStillActive,
           RollbackWrite, RollbackVerify, Disarm, Mark, UnlockState
      <3>2. pc[p] \in Acting /\ author' = author  BY <3>1 DEF RollbackRead, Acting
      <3>3. ~Restored(snap[p], target) /\ ~TargetChanged(snap[p], target)
        BY <3>1, <1>t DEF RollbackRead, AfterUndo, AfterBody, Goto, TypeOK
      <3>4. snap[p].before = Before(r) /\ snap[p].applied \in Requested
        BY <3>2, <1>t, <1>m DEF RefInv, ProcOK, AskedBy, r
      <3>5. target # Before(r) /\ target.data \in Requested
        BY <3>3, <3>4 DEF Restored, TargetChanged, Distinct
      <3>6. target \notin Foreign  BY <3>5 DEF Distinct
      <3> QED  BY <3>2, <3>5, <3>6, <1>a, <1>m DEF Origin
    <2> QED  BY <2>1, <2>2 DEF AskedBy, r
  <1>10. ASSUME NEW x \in Procs, x # p PROVE AskedBy(x)'
    <2>1. CASE target' = target /\ author' = author  BY <1>10, <2>1, <1>f DEF OriginInv, AskedBy
    <2>2. CASE pc[p] = "rbWrite"
      <3>1. pc[x] \notin Acting  BY <1>10, <2>2, OneActs DEF Acting
      <3> QED  BY <1>10, <3>1, <1>f DEF AskedBy, Acting
    <2> QED  BY <1>1, <2>1, <2>2
  <1> QED  BY <1>7, <1>8, <1>9, <1>10 DEF OriginInv

LEMMA NextOrigin ==
  ASSUME Inv, Distinct, OriginInv, [Next]_vars
  PROVE  OriginInv'
  <1>t. TypeOK  BY Typed1
  <1>1. ASSUME UNCHANGED <<target, author, state>>,
               \A x \in Procs : pc'[x] = pc[x] \/ pc'[x] \in {"idle", "done", "lock"},
               \A x \in Procs : snap'[x] = snap[x] \/ (pc'[x] \in {"idle", "done", "lock"} /\ x[1] # "apply")
        PROVE  OriginInv'
    <2>1. ASSUME NEW q \in Runs PROVE Origin(q)' /\ Asked(q)'
      <3>1. snap'[Apply(q)] = snap[Apply(q)]  BY <1>1, ApplyIsProc
      <3>2. pc'[Apply(q)] = pc[Apply(q)] \/ pc'[Apply(q)] \in {"idle", "done", "lock"}  BY <1>1, ApplyIsProc
      <3> QED  BY <1>1, <3>1, <3>2 DEF OriginInv, Origin, Asked, Before, Work, Pending
    <2>2. ASSUME NEW x \in Procs PROVE AskedBy(x)'  BY <1>1 DEF OriginInv, AskedBy, Acting
    <2> QED  BY <2>1, <2>2 DEF OriginInv
  <1>2. ASSUME NEW r \in Runs, TimerFires(r) PROVE OriginInv'
    <2>1. \A x \in Procs : pc'[x] = pc[x] \/ pc'[x] = "lock"
      BY <1>2, <1>t DEF TimerFires, Goto, TypeOK
    <2> QED  BY <1>1, <1>2, <2>1 DEF TimerFires
  <1>3. ASSUME NEW p \in Procs, Command(p) PROVE OriginInv'
    <2>1. \A x \in Procs : pc'[x] = pc[x] \/ pc'[x] = "lock"
      BY <1>3, <1>t DEF Command, Goto, TypeOK
    <2> QED  BY <1>1, <1>3, <2>1 DEF Command
  <1>4. ASSUME NEW p \in Procs, Crash(p) PROVE OriginInv'
    <2>1. pc'[p] \in {"idle", "done"} /\ \A x \in Procs : x # p => pc'[x] = pc[x]
      BY <1>4, <1>t DEF Crash, Goto, TypeOK
    <2>2. \A x \in Procs : snap'[x] = snap[x] \/ (x = p /\ p[1] # "apply")
      BY <1>4, <1>t DEF Crash, Forget, TypeOK
    <2> QED  BY <1>1, <1>4, <2>1, <2>2 DEF Crash
  <1>5. CASE ExternalEdit
    <2>1. \A x \in Procs : pc[x] # "rbWrite"  BY <1>5 DEF ExternalEdit, Distinct
    <2>2. UNCHANGED <<state, pc, snap>> /\ target' \in Foreign  BY <1>5 DEF ExternalEdit
    <2> QED  BY <2>1, <2>2 DEF OriginInv, Origin, Asked, AskedBy, Pending
  <1>6. CASE Reboot
    <2>1. \A x \in Procs : pc'[x] \in {"idle", "done"}  BY <1>6 DEF Reboot
    <2>2. \A q \in Runs : state'[q] = NoState /\ pc'[Apply(q)] \in {"idle", "done"}
      BY <1>6, <2>1, ApplyIsProc DEF Reboot
    <2> QED  BY <2>1, <2>2 DEF OriginInv, Origin, Asked, AskedBy, Acting, Work, Pending
  <1>7. CASE UNCHANGED vars  BY <1>1, <1>7 DEF vars
  <1> QED  BY <1>2, <1>3, <1>4, <1>5, <1>6, <1>7, ApplyStepOrigin, GuardStepOrigin DEF Next

\* The rollback of an authorized_keys file writes only over what its own apply wrote:
\* "If the target changes after apply, edc refuses to overwrite the new state during
\* rollback".
THEOREM RollbackOverwritesOwnFile ==
    ASSUME Distinct
    PROVE  Spec => RollbackOverwritesOwn
  <1>e. Early = FALSE  BY DEF Distinct
  <1>1. Init => Inv /\ OriginInv  BY InitFinal, InitPending, InitRef, InitOrigin DEF Inv
  <1>2. Inv /\ [Next]_vars => Inv'  BY <1>e, NextFinal, NextPending, NextRef DEF Inv
  <1>3. Inv /\ OriginInv /\ [Next]_vars => (Inv /\ OriginInv)'  BY <1>2, NextOrigin
  <1>4. OriginInv =>
          [\A p \in Procs : RollsBack(p) /\ Comparable(snap[p]) => author = RunOf(p)]_vars
    BY DEF OriginInv, AskedBy, RollsBack
  <1> QED  BY <1>1, <1>3, <1>4, PTL DEF Spec, RollbackOverwritesOwn
=============================================================================
