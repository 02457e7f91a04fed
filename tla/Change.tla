------------------------------- MODULE Change -------------------------------
(***************************************************************************)
(* `edc change': a host change (an authorized_keys file or the iptables    *)
(* rules) that is undone by a systemd timer unless somebody confirms it.   *)
(*                                                                         *)
(* The actors are separate operating-system processes that share nothing   *)
(* but files under /run/edc, the target itself and the timer units held by *)
(* systemd: `change apply' of each run, the `change rollback' that a run's *)
(* timer starts, and the `change confirm' and `change rollback' commands   *)
(* a person types.  One action is one system call or external command.     *)
(***************************************************************************)
EXTENDS Naturals, FiniteSets

CONSTANTS
    Runs,            \* run IDs: one `change apply' each
    Kind,            \* "authorized-keys" or "iptables"
    Parts,           \* iptables: the tables; authorized-keys: the one file
    Rules,           \* what a part can hold (for a file: bytes and owner)
    Nothing,         \* an absent part: no such file, a table never loaded
    Modes,           \* permission bits (0 for iptables, which has none)
    InitTargets,     \* the targets a behaviour may start from
    Requested,       \* what the input file of an apply may hold
    Foreign,         \* what other programs may leave in the target
    NoState,         \* the run has no state file
    NoRun,           \* no edc run: the target's author is somebody else
    Faults,          \* external commands and writes that may fail
    Early,           \* a run's timer and commands may act while it applies
    Quiet,           \* the steps of an edc process during which nobody edits the target
    Typed,           \* the commands a person may type: confirm, rollback
    KillPoints,      \* the <<role, step>> pairs at which a process may be killed
    MaxEdits, MaxCrashes, MaxReboots    \* bounds on the environment

FaultNames == {"write", "save", "restore", "undo", "arm", "stop", "isActive"}
Contents   == [Parts -> Rules \cup {Nothing}]
Empty      == [t \in Parts |-> Nothing]
Targets    == [data : Contents, mode : Modes]
Snapshots  == [before : Targets, applied : Contents,
               appliedState : Contents, completed : BOOLEAN]

ASSUME KindAssumption  == Kind \in {"authorized-keys", "iptables"}
ASSUME BoundAssumption == MaxEdits \in Nat /\ MaxCrashes \in Nat /\ MaxReboots \in Nat
ASSUME SwitchAssumption == Early \in BOOLEAN
ASSUME FaultAssumption == Faults \subseteq FaultNames
\* writeChangeFile turns mode 0 into 0600 (384)
ASSUME ModeAssumption  == 0 \in Modes /\ 384 \in Modes
ASSUME ContentAssumption ==
    /\ Nothing \notin Rules
    /\ InitTargets \subseteq Targets
    /\ Requested \subseteq Contents \ {Empty}
    /\ Foreign \subseteq Targets
\* A file that is not there has no permission bits
ASSUME AbsentAssumption == \A t \in InitTargets \cup Foreign : t.data = Empty => t.mode = 0
ASSUME TypedAssumption == Typed \subseteq {"confirm", "rollback"}
ASSUME KillAssumption  == \A k \in KillPoints : k[2] \notin {"idle", "done"}
ASSUME FreshAssumption == NoState \notin Snapshots /\ NoRun \notin Runs

Roles == {"apply", "timer", "confirm", "rollback"}
Procs == Roles \X Runs
RunOf(p) == p[2]
Free  == <<"lock", "free">>   \* the lock file does not exist
Stale == <<"lock", "stale">>  \* a killed process left the lock file behind

VARIABLES
    target,      \* the file or the rules that are being changed
    state,       \* state[r]: the file /run/edc/change-<r>.json
    applyLock,   \* /run/edc/change-apply.lock: its creator, Free or Stale
    stateLock,   \* stateLock[r]: the file change-<r>.json.lock
    timer,       \* timer[r]: "none", "armed", or "fired" while its job runs
    pc,          \* pc[p]: the step at which process p is
    snap,        \* snap[p]: the changeSnapshot p holds in memory
    author,      \* ghost: the run whose apply wrote the target last, or NoRun
    kept,        \* ghost: the runs somebody confirmed
    edits, crashes, reboots

env  == <<edits, crashes, reboots>>
vars == <<target, state, applyLock, stateLock, timer, pc, snap, author, kept, env>>

PCs == {"idle", "hasPending", "prepare", "writeState", "arm", "isActive",
        "abortDisarm", "abortMark", "applyWrite", "saveApplied", "writeApplied",
        "failSave", "failWrite", "lock", "read", "stop", "stillActive",
        "rbRead", "rbWrite", "rbVerify", "disarm", "mark", "unlockState",
        "unlock", "done"}

\* The steps during which an apply owns the change: nobody is expected to
\* confirm it or to undo it yet.
Work == {"writeState", "arm", "isActive", "abortDisarm", "abortMark", "applyWrite",
         "saveApplied", "writeApplied", "failSave", "failWrite",
         "rbRead", "rbWrite", "rbVerify"}

TypeOK ==
    /\ target \in Targets
    /\ state \in [Runs -> Snapshots \cup {NoState}]
    /\ applyLock \in Procs \cup {Free, Stale}
    /\ stateLock \in [Runs -> Procs \cup {Free, Stale}]
    /\ timer \in [Runs -> {"none", "armed", "fired"}]
    /\ pc \in [Procs -> PCs]
    /\ snap \in [Procs -> Snapshots]
    /\ author \in Runs \cup {NoRun}
    /\ kept \in SUBSET Runs
    /\ edits \in 0 .. MaxEdits /\ crashes \in 0 .. MaxCrashes /\ reboots \in 0 .. MaxReboots

NoSnapshot == [before |-> [data |-> Empty, mode |-> 0], applied |-> Empty,
               appliedState |-> Empty, completed |-> FALSE]

Init ==
    /\ target \in InitTargets
    /\ state = [r \in Runs |-> NoState]
    /\ applyLock = Free
    /\ stateLock = [r \in Runs |-> Free]
    /\ timer = [r \in Runs |-> "none"]
    /\ pc = [p \in Procs |-> "idle"]
    /\ snap = [p \in Procs |-> NoSnapshot]
    /\ author = NoRun
    /\ kept = {}
    /\ edits = 0 /\ crashes = 0 /\ reboots = 0

-----------------------------------------------------------------------------
(* What the code computes from a snapshot and the target.                  *)

\* readChangeState: an iptables state without saved rules is invalid
Readable(s) == s # NoState /\ (Kind = "iptables" => s.before.data # Empty)
Pending(s)  == s # NoState /\ ~s.completed

MayApplyIfReadable == \A r \in Runs : state[r] # NoState => Readable(state[r])
\* hasPendingChange: a state file that does not parse is an error
MayApply == \A r \in Runs : state[r] # NoState => Readable(state[r]) /\ ~Pending(state[r])

FileModeDecimal(m) == IF m = 0 THEN 600 ELSE m
\* writeChangeFile: mode 0 means "the default"
FileMode(m) == IF Kind = "authorized-keys" /\ m = 0 THEN 384 ELSE m

\* iptables-restore replaces only the tables named in its input, in order,
\* each with its own COMMIT; `done' is the set of tables it committed
Restore(current, input, done) ==
    [t \in Parts |-> IF t \in done /\ input[t] # Nothing THEN input[t] ELSE current[t]]

\* The target after the named content was written over it
Written(current, content, mode) ==
    IF Kind = "iptables"
    THEN [data |-> Restore(current.data, content, Parts), mode |-> mode]
    ELSE IF content = Empty THEN [data |-> Empty, mode |-> 0]
    ELSE [data |-> content, mode |-> FileMode(mode)]

\* The targets a failing write may leave: a file is replaced by one rename,
\* the tables that iptables-restore committed before the failure stay
AfterFailedWrite(current, content) ==
    IF Kind = "iptables"
    THEN {[current EXCEPT !.data = Restore(@, content, done)] : done \in SUBSET Parts}
    ELSE {current}

RestoredByMode(s, current) == current.mode = s.before.mode
\* rollbackChange: nothing to undo
Restored(s, current) == current = s.before

TargetChangedByMode(s, current) == Kind = "authorized-keys" /\ current.mode # FileMode(s.before.mode)
TargetChangedByRequest(s, current) == current.data # s.applied \/ current.mode # s.before.mode
\* rollbackChange: rollback_target_changed
TargetChanged(s, current) ==
    IF Kind = "iptables"
    THEN s.appliedState # Empty /\ current.data # s.appliedState
    ELSE \/ current.data # s.applied
         \/ current.mode # IF s.before.data = Empty THEN FileMode(s.before.mode)
                                                    ELSE s.before.mode

\* is-active: the timer waits, or its job has not ended yet
Active(r) == timer[r] # "none"

-----------------------------------------------------------------------------
(* Small steps shared by the actions.                                      *)

Goto(p, label)  == pc' = [pc EXCEPT ![p] = label]
MayFail(f)      == f \in Faults
CompletedForgotten(s) == s
Completed(s)    == [s EXCEPT !.completed = TRUE]

\* The ghost follows the writes that change the target
AuthorIs(r)     == author' = IF target' = target THEN author ELSE r

\* The memory of a process that ends is gone (the properties still look at
\* the snapshot of an apply)
Forget(p) == snap' = IF p[1] = "apply" THEN snap ELSE [snap EXCEPT ![p] = NoSnapshot]

\* The process returns: an apply releases its lock first, a timer's job ends
\* (--collect removes the unit), a person may type the command again.
Leave(p) ==
    /\ Goto(p, CASE p[1] = "apply" -> "unlock"
                 [] p[1] = "timer" -> "done"
                 [] OTHER -> "idle")
    /\ timer' = IF p[1] = "timer" THEN [timer EXCEPT ![RunOf(p)] = "none"] ELSE timer
    /\ Forget(p)

\* Where the body of withChangeLock, or the unlocked rollback of a failed
\* apply, ends
AfterBody(p) == IF stateLock[RunOf(p)] = p THEN "unlockState" ELSE "unlock"

\* Where they go on when the target is as it was: the failed apply ends like one
\* whose timer was not armed
AfterUndo(p) == IF p[1] = "apply" THEN "abortDisarm" ELSE "disarm"

\* confirmChange is running: typed, or called by apply --yes
Confirming(p) == p[1] = "confirm" \/ (p[1] = "apply" /\ stateLock[RunOf(p)] = p)

-----------------------------------------------------------------------------
(* edc change apply                                                        *)

Apply(r) == <<"apply", r>>

LockApplyShared(r) ==
    /\ pc[Apply(r)] = "idle"
    /\ applyLock' = Apply(r) /\ Goto(Apply(r), "hasPending")
    /\ UNCHANGED <<target, state, stateLock, timer, snap, author, kept, env>>

\* withChangeApplyLock, O_EXCL: a second apply fails at once
LockApply(r) ==
    /\ pc[Apply(r)] = "idle"
    /\ IF applyLock = Free
       THEN applyLock' = Apply(r) /\ Goto(Apply(r), "hasPending")
       ELSE UNCHANGED applyLock /\ Goto(Apply(r), "done")
    /\ UNCHANGED <<target, state, stateLock, timer, snap, author, kept, env>>

HasPendingChange(r) ==
    /\ pc[Apply(r)] = "hasPending"
    /\ Goto(Apply(r), IF MayApply THEN "prepare" ELSE "unlock")
    /\ UNCHANGED <<target, state, applyLock, stateLock, timer, snap, author, kept, env>>

\* The snapshot of the target, or an error: the input is empty or invalid,
\* the target is not a regular file, iptables-save failed
PrepareChangeSnapshot(r) ==
    /\ pc[Apply(r)] = "prepare"
    /\ \/ /\ \E c \in Requested :
               snap' = [snap EXCEPT ![Apply(r)] =
                          [before |-> target, applied |-> c,
                           appliedState |-> Empty, completed |-> FALSE]]
          /\ Goto(Apply(r), "writeState")
       \/ /\ Goto(Apply(r), "unlock")
          /\ UNCHANGED snap
    /\ UNCHANGED <<target, state, applyLock, stateLock, timer, author, kept, env>>

\* writeChangeState: temporary file and rename
WriteChangeState(r) ==
    /\ pc[Apply(r)] = "writeState"
    /\ \/ /\ state' = [state EXCEPT ![r] = snap[Apply(r)]]
          /\ Goto(Apply(r), "arm")
       \/ /\ MayFail("write")
          /\ Goto(Apply(r), "unlock")
          /\ UNCHANGED state
    /\ UNCHANGED <<target, applyLock, stateLock, timer, snap, author, kept, env>>

\* systemd-run: a failure, or an exit status 0 without a timer
ArmChangeGuard(r) ==
    /\ pc[Apply(r)] = "arm"
    /\ \/ /\ timer' = [timer EXCEPT ![r] = "armed"]
          /\ Goto(Apply(r), "isActive")
       \/ /\ MayFail("arm")
          /\ timer' \in {timer, [timer EXCEPT ![r] = "armed"]}
          /\ \E next \in {"isActive", "abortDisarm"} : Goto(Apply(r), next)
    /\ UNCHANGED <<target, state, applyLock, stateLock, snap, author, kept, env>>

VerifyGuardUnchecked(r) ==
    /\ pc[Apply(r)] = "isActive"
    /\ Goto(Apply(r), "applyWrite")
    /\ UNCHANGED <<target, state, applyLock, stateLock, timer, snap, author, kept, env>>

VerifyGuard(r) ==
    /\ pc[Apply(r)] = "isActive"
    /\ \/ Active(r) /\ Goto(Apply(r), "applyWrite")
       \/ (~Active(r) \/ MayFail("isActive")) /\ Goto(Apply(r), "abortDisarm")
    /\ UNCHANGED <<target, state, applyLock, stateLock, timer, snap, author, kept, env>>

\* systemctl stop <unit>.timer; the job that the timer started goes on
StopTimer(r) == timer' = [timer EXCEPT ![r] = "none"]

AbortDisarm(r) ==
    /\ pc[Apply(r)] = "abortDisarm"
    /\ StopTimer(r) \/ (MayFail("stop") /\ UNCHANGED timer)
    /\ Goto(Apply(r), "abortMark")
    /\ UNCHANGED <<target, state, applyLock, stateLock, snap, author, kept, env>>

AbortMark(r) ==
    /\ pc[Apply(r)] = "abortMark"
    /\ \/ state' = [state EXCEPT ![r] = Completed(snap[Apply(r)])]
       \/ MayFail("write") /\ UNCHANGED state
    /\ Goto(Apply(r), "unlock")
    /\ UNCHANGED <<target, applyLock, stateLock, timer, snap, author, kept, env>>

\* applyChange
ApplyChange(r) ==
    LET s == snap[Apply(r)] IN
    /\ pc[Apply(r)] = "applyWrite"
    /\ \/ /\ target' = Written(target, s.applied, s.before.mode)
          /\ AuthorIs(r)
          /\ Goto(Apply(r), IF Kind = "iptables" THEN "saveApplied" ELSE "unlock")
       \/ /\ Kind = "authorized-keys"      \* --yes
          /\ target' = Written(target, s.applied, s.before.mode)
          /\ AuthorIs(r)
          /\ Goto(Apply(r), "lock")
       \/ /\ MayFail("restore")
          /\ target' \in AfterFailedWrite(target, s.applied)
          /\ AuthorIs(r)
          /\ Goto(Apply(r), IF Kind = "iptables" THEN "failSave" ELSE "rbRead")
    /\ UNCHANGED <<state, applyLock, stateLock, timer, snap, kept, env>>

\* iptables-save after the apply
SaveApplied(r) ==
    /\ pc[Apply(r)] = "saveApplied"
    /\ \/ /\ snap' = [snap EXCEPT ![Apply(r)].appliedState = target.data]
          /\ Goto(Apply(r), "writeApplied")
       \/ /\ MayFail("save")
          /\ Goto(Apply(r), "failSave")
          /\ UNCHANGED snap
    /\ UNCHANGED <<target, state, applyLock, stateLock, timer, author, kept, env>>

WriteApplied(r) ==
    LET s == snap[Apply(r)] IN
    /\ pc[Apply(r)] = "writeApplied"
    /\ \/ /\ state' = [state EXCEPT ![r] = s]
          /\ \E next \in {"unlock", "lock"} : Goto(Apply(r), next)    \* lock: --yes
       \/ /\ MayFail("write")
          /\ Goto(Apply(r), IF s.appliedState = Empty THEN "failSave" ELSE "rbRead")
          /\ UNCHANGED state
    /\ UNCHANGED <<target, applyLock, stateLock, timer, snap, author, kept, env>>

\* rollbackChangeAfterApplyFailure: what iptables-restore left is the applied state
FailSave(r) ==
    /\ pc[Apply(r)] = "failSave"
    /\ \/ /\ snap' = [snap EXCEPT ![Apply(r)].appliedState = target.data]
          /\ Goto(Apply(r), "failWrite")
       \/ /\ MayFail("save")
          /\ Goto(Apply(r), "rbRead")
          /\ UNCHANGED snap
    /\ UNCHANGED <<target, state, applyLock, stateLock, timer, author, kept, env>>

FailWrite(r) ==
    /\ pc[Apply(r)] = "failWrite"
    /\ \/ state' = [state EXCEPT ![r] = snap[Apply(r)]]
       \/ MayFail("write") /\ UNCHANGED state
    /\ Goto(Apply(r), "rbRead")
    /\ UNCHANGED <<target, applyLock, stateLock, timer, snap, author, kept, env>>

UnlockApply(r) ==
    /\ pc[Apply(r)] = "unlock"
    /\ applyLock' = Free
    /\ Goto(Apply(r), "done")
    /\ UNCHANGED <<target, state, stateLock, timer, snap, author, kept, env>>

-----------------------------------------------------------------------------
(* confirmChange and rollbackState, under the lock of the run's state file *)

\* A person types confirm or rollback for a run that has a state file
Command(p) ==
    /\ p[1] \in Typed
    /\ pc[p] = "idle"
    /\ state[RunOf(p)] # NoState
    /\ Early \/ pc[Apply(RunOf(p))] \notin Work
    /\ Goto(p, "lock")
    /\ UNCHANGED <<target, state, applyLock, stateLock, timer, snap, author, kept, env>>

\* The timer elapses and systemd starts `edc change rollback'
TimerFires(r) ==
    /\ timer[r] = "armed"
    /\ Early \/ pc[Apply(r)] \notin Work
    /\ timer' = [timer EXCEPT ![r] = "fired"]
    /\ Goto(<<"timer", r>>, "lock")
    /\ UNCHANGED <<target, state, applyLock, stateLock, snap, author, kept, env>>

\* withChangeLock, O_EXCL: the loser fails at once
LockState(p) ==
    /\ pc[p] = "lock"
    /\ \/ /\ stateLock[RunOf(p)] = Free
          /\ stateLock' = [stateLock EXCEPT ![RunOf(p)] = p]
          /\ Goto(p, "read")
          /\ UNCHANGED <<timer, snap>>
       \/ /\ stateLock[RunOf(p)] # Free
          /\ Leave(p)
          /\ UNCHANGED stateLock
    /\ UNCHANGED <<target, state, applyLock, author, kept, env>>

\* readChangeState; an invalid or a completed state is an error
ReadChangeState(p) ==
    LET s == state[RunOf(p)] IN
    /\ pc[p] = "read"
    /\ IF Readable(s) /\ ~s.completed
       THEN /\ snap' = [snap EXCEPT ![p] = s]
            /\ Goto(p, IF Confirming(p) THEN "stop" ELSE "rbRead")
       ELSE /\ Goto(p, "unlockState")
            /\ UNCHANGED snap
    /\ UNCHANGED <<target, state, applyLock, stateLock, timer, author, kept, env>>

\* disarmGuard in confirmChange: stopping a unit that is gone is an error
ConfirmStop(p) ==
    LET r == RunOf(p) IN
    /\ pc[p] = "stop"
    /\ \/ Active(r) /\ StopTimer(r) /\ Goto(p, "mark")
       \/ (~Active(r) \/ MayFail("stop")) /\ UNCHANGED timer /\ Goto(p, "stillActive")
    /\ UNCHANGED <<target, state, applyLock, stateLock, snap, author, kept, env>>

\* is-active decides: a timer that lives on refuses the confirmation
ConfirmStillActive(p) ==
    /\ pc[p] = "stillActive"
    /\ \/ Active(RunOf(p)) /\ Goto(p, "unlockState")
       \/ (~Active(RunOf(p)) \/ MayFail("isActive")) /\ Goto(p, "mark")
    /\ UNCHANGED <<target, state, applyLock, stateLock, timer, snap, author, kept, env>>

\* rollbackChange reads the target and decides
RollbackRead(p) ==
    /\ pc[p] = "rbRead"
    /\ \/ Goto(p, CASE Restored(snap[p], target)      -> AfterUndo(p)
                    [] TargetChanged(snap[p], target) -> AfterBody(p)
                    [] OTHER                          -> "rbWrite")
       \/ MayFail("save") /\ Goto(p, AfterBody(p))
    /\ UNCHANGED <<target, state, applyLock, stateLock, timer, snap, author, kept, env>>

\* ... removes the file, or writes what the snapshot holds
RollbackWrite(p) ==
    LET s == snap[p] IN
    /\ pc[p] = "rbWrite"
    /\ \/ /\ target' = Written(target, s.before.data, s.before.mode)
          /\ author' = IF Restored(s, target') THEN NoRun ELSE author
          /\ Goto(p, IF s.before.data = Empty /\ Kind = "authorized-keys"
                     THEN AfterUndo(p) ELSE "rbVerify")
       \/ /\ MayFail("undo")
          /\ target' \in AfterFailedWrite(target, s.before.data)
          /\ author' = IF Restored(s, target') THEN NoRun ELSE author
          /\ Goto(p, AfterBody(p))
    /\ UNCHANGED <<state, applyLock, stateLock, timer, snap, kept, env>>

RollbackVerify(p) ==
    /\ pc[p] = "rbVerify"
    /\ \/ Goto(p, IF Restored(snap[p], target) THEN AfterUndo(p) ELSE AfterBody(p))
       \/ MayFail("save") /\ Goto(p, AfterBody(p))
    /\ UNCHANGED <<target, state, applyLock, stateLock, timer, snap, author, kept, env>>

\* rollbackState, disarmGuard after a rollback: its result is ignored
Disarm(p) ==
    /\ pc[p] = "disarm"
    /\ StopTimer(RunOf(p)) \/ (MayFail("stop") /\ UNCHANGED timer)
    /\ Goto(p, "mark")
    /\ UNCHANGED <<target, state, applyLock, stateLock, snap, author, kept, env>>

\* markChangeCompleted, by the holder of the state file's lock
Mark(p) ==
    LET r == RunOf(p) IN
    /\ pc[p] = "mark"
    /\ \/ /\ state' = [state EXCEPT ![r] = Completed(snap[p])]
          /\ kept' = IF Confirming(p) THEN kept \cup {r} ELSE kept
       \/ MayFail("write") /\ UNCHANGED <<state, kept>>
    /\ Goto(p, "unlockState")
    /\ UNCHANGED <<target, applyLock, stateLock, timer, snap, author, env>>

UnlockState(p) ==
    /\ pc[p] = "unlockState"
    /\ stateLock' = [stateLock EXCEPT ![RunOf(p)] = Free]
    /\ Leave(p)
    /\ UNCHANGED <<target, state, applyLock, author, kept, env>>

-----------------------------------------------------------------------------
(* The environment                                                         *)

\* Another program rewrites the target
ExternalEdit ==
    /\ edits < MaxEdits
    /\ \A p \in Procs : pc[p] \notin Quiet
    /\ edits' = edits + 1
    /\ target' \in Foreign \ {target}
    /\ author' = NoRun
    /\ UNCHANGED <<state, applyLock, stateLock, timer, pc, snap, kept, crashes, reboots>>

Dropped(lock, gone) == IF lock \in gone THEN Stale ELSE lock

\* A process is killed between two steps; its lock files stay
Crash(p) ==
    /\ crashes < MaxCrashes
    /\ <<p[1], pc[p]>> \in KillPoints
    /\ crashes' = crashes + 1
    /\ applyLock' = Dropped(applyLock, {p})
    /\ stateLock' = [r \in Runs |-> Dropped(stateLock[r], {p})]
    /\ Goto(p, IF p[1] \in {"apply", "timer"} THEN "done" ELSE "idle")
    /\ timer' = IF p[1] = "timer" THEN [timer EXCEPT ![RunOf(p)] = "none"] ELSE timer
    /\ Forget(p)
    /\ UNCHANGED <<target, state, author, kept, edits, reboots>>

\* /run is a tmpfs and the timers are transient: a reboot takes both, and the
\* iptables rules; a file keeps what was written
Reboot ==
    /\ reboots < MaxReboots
    /\ reboots' = reboots + 1
    /\ state' = [r \in Runs |-> NoState]
    /\ applyLock' = Free
    /\ stateLock' = [r \in Runs |-> Free]
    /\ timer' = [r \in Runs |-> "none"]
    /\ pc' = [p \in Procs |-> IF p[1] \in {"apply", "timer"} /\ pc[p] # "idle"
                              THEN "done" ELSE "idle"]
    /\ IF Kind = "iptables" THEN target' \in InitTargets /\ author' = NoRun
                            ELSE UNCHANGED <<target, author>>
    /\ UNCHANGED <<snap, kept, edits, crashes>>

ApplyStep(r) ==
    \/ LockApply(r) \/ HasPendingChange(r) \/ PrepareChangeSnapshot(r)
    \/ WriteChangeState(r) \/ ArmChangeGuard(r) \/ VerifyGuard(r)
    \/ AbortDisarm(r) \/ AbortMark(r) \/ ApplyChange(r)
    \/ SaveApplied(r) \/ WriteApplied(r) \/ FailSave(r) \/ FailWrite(r)
    \/ UnlockApply(r)

GuardStep(p) ==
    \/ LockState(p) \/ ReadChangeState(p) \/ ConfirmStop(p) \/ ConfirmStillActive(p)
    \/ RollbackRead(p) \/ RollbackWrite(p) \/ RollbackVerify(p)
    \/ Disarm(p) \/ Mark(p) \/ UnlockState(p)

Next ==
    \/ \E r \in Runs : ApplyStep(r) \/ TimerFires(r)
    \/ \E p \in Procs : GuardStep(p) \/ Command(p) \/ Crash(p)
    \/ ExternalEdit
    \/ Reboot

Spec == Init /\ [][Next]_vars

\* systemd starts the job of an elapsed timer, and a process that runs goes
\* on; nobody has to apply or to type a command.
Fairness ==
    /\ \A r \in Runs : WF_vars(TimerFires(r))
    /\ \A r \in Runs : WF_vars(ApplyStep(r) /\ pc[Apply(r)] # "idle")
    /\ \A p \in Procs : WF_vars(GuardStep(p))

FairSpec == Spec /\ Fairness

-----------------------------------------------------------------------------
(* Properties                                                              *)

\* "Run only one protected change at a time": no two state files are pending,
\* whatever interleaves, crashes or fails (hasPendingChange under the apply
\* lock, and every later write of a state file).
AtMostOnePending ==
    \A r, q \in Runs : Pending(state[r]) /\ Pending(state[q]) => r = q

\* Run r changed the target, nobody confirmed it and nobody wrote since
InEffect(r) == author = r /\ r \notin kept /\ target # snap[Apply(r)].before

\* An unconfirmed change that is still in effect after its apply has ended is
\* guarded: its state is pending and valid, and the timer is armed, or its job
\* or a command is working on the run.
UnconfirmedIsGuarded ==
    \A r \in Runs :
        InEffect(r) /\ pc[Apply(r)] = "done"
            => /\ Pending(state[r]) /\ Readable(state[r])
               /\ Active(r) \/ stateLock[r] \in Procs

\* Process p takes the step that writes the target back
RollsBack(p) == pc[p] = "rbWrite" /\ pc'[p] # "rbWrite" /\ target' # target /\ reboots' = reboots

\* The snapshot says what the apply left.  An apply of iptables that is killed
\* before it has recorded the loaded rules leaves nothing to compare with.
Comparable(s) == Kind = "iptables" => s.appliedState # Empty

\* A rollback writes only over what its own apply wrote: "If the target changes
\* after apply, edc refuses to overwrite the new state during rollback".
RollbackOverwritesOwn ==
    [][\A p \in Procs : RollsBack(p) /\ Comparable(snap[p]) => author = RunOf(p)]_vars

\* Once confirmed, a change is not undone by edc: neither by a timer that fired
\* while confirm ran nor by a rollback command that waited for the lock.
ConfirmedStays == [][\A p \in Procs : RollsBack(p) => RunOf(p) \notin kept]_vars

\* rollback_target_changed is true: edc refuses to undo a change only when
\* somebody else has written the target since.
RefusesOnlyForeign ==
    [][\A p \in Procs :
         pc[p] = "rbRead" /\ pc'[p] = AfterBody(p) => author # RunOf(p)]_vars

\* "If no confirmation arrives, the timer runs the rollback command": an
\* unconfirmed change does not stay in effect for ever.
UnconfirmedIsUndone == \A r \in Runs : InEffect(r) ~> ~InEffect(r)

-----------------------------------------------------------------------------
(* What is promised                                                        *)

RecordOf(s) == IF s = NoState THEN "none" ELSE IF s.completed THEN "completed" ELSE "pending"
Owner       == IF author \in Runs /\ target # snap[Apply(author)].before THEN author ELSE NoRun

Promise == INSTANCE Guarded WITH
               record <- [r \in Runs |-> RecordOf(state[r])],
               owner  <- Owner

\* The processes, files, locks and timers together implement Guarded: one change
\* at a time, recorded before the target is written, written and undone only
\* while its record is pending and unconfirmed, and completed only by a
\* confirmation or when the target is as it was before.
ImplementsGuarded == Promise!Spec

=============================================================================
