# A TLA+ verification project for edc

`edc` is a command-line toolkit for systems work. Most of its code reads a host
and prints what it found; a small part changes something and has to be right
when processes interleave, are killed, or meet failing commands. This project
models that part.

## 1. Inventory

### Parts that keep state and act concurrently

| Part | Source (under `src/internal/edc/`) | State | Operations | What is hard |
|---|---|---|---|---|
| protected host change | `change.go`, `change_exec_linux.go`, `route_guard.go` | the target (authorized_keys or iptables rules), one state file per run, an apply lock file, one lock file per state file, a transient systemd timer per run | `apply`, `confirm`, `rollback` (typed, or started by the timer) | processes that share only files; O_EXCL locks that survive a crash; a timer that races a confirmation; external edits; commands that fail half way |
| route switching | `route.go`, `route_state.go`, `route_guard.go`, `route_backend.go` | the default route, a state file, a timer | `switch`, `rollback` | no lock between the interactive switch and the timer's rollback; signals during the confirmation |
| SSH tunnels | `tunnel.go`, `tunnel_file.go`, `tui_tunnel.go` | a record file and a control socket per tunnel, ports, ssh processes | `up`, `down`, `restart`, `test` | no lock; ssh outlives edc; a failing check is taken for a dead tunnel |
| file-system watch | `watch_fs.go`, `watch_fs_queue.go` and `watch_fs_*.go` | a bounded event queue, per-rule debounce timers, at most one running action | event sources, the stream loop, actions | overflow and loss accounting; events during an action; shutdown |
| command logs | `log.go`, `log_run.go`, `log_rotate.go`, `log_prune.go`, `log_history_delete.go`, `log_stats.go` | a log and its numbered archives under a lock file, a child process, a daily summary | write, rotate, restart, stop, delete | rotation in the middle of a write; signals, timeouts and exits in any order; crash between renames |
| remote execution | `remote*.go`, `internal/remotesetup` | worker pools, recipes on disk | run a recipe on many hosts | partial failure, cancellation |
| history and recordings | `history_*.go` | a SQLite database, a bounded queue of samples | append, prune, retention | pruning beside a recording; all writes are transactions |

### What makes the modelled parts correct

- **protected host change**: two protected changes are never pending together; a change
  that nobody confirmed keeps a working guard until it is undone; an undo overwrites only
  what its own apply wrote, and never a confirmed change.
- **route switching**: an unconfirmed route is guarded and is undone even if the switch
  dies; a run is recorded as completed only when the original route is back; other routes
  are left alone.
- **file-system watch**: every event is delivered in order or counted as lost, exactly
  once; the queue stays bounded; no trigger of a rule is forgotten; commands do not
  overlap; stopping always ends.
- **SSH tunnels**: an ssh process that a command leaves behind is in the list and can be
  stopped by its name; when `down` says that a tunnel stopped, it has.
- **command logs**: no attempt starts beside what is left of the one before; markers and
  output do not mix; exit code 0 is earned; a signal or a timeout ends the run. One run at a
  time has the log; a rotation drops the oldest output and nothing else, also when it is
  killed half way; a deletion takes only what it was asked for, and counts it once.

### Parts that only read, parse or draw

`info`, `top`, `check`, `du`, `clean`, `audit`, `svc`, `ctr`, `proc`, `jobs`, `listen`,
`changes`, `events`, the network probes (`dns`, `tcp`, `http`, `quality`, `doctor`),
`trace` and `capture` with their eBPF programs, `ai`, `grep`, `compress`, `view`, `snapshot`,
`report`, the TUI screens, completion, configuration, localisation and update. They are
parsers, samplers and renderers; what matters about them is the text they read and write.

`PROJECT.json` lists every component, the ones left out too, and under `hazards` the places in
the code where an interleaving, a crash or a failing step could go wrong.

## 2. Plan

| Order | Module | Models | State of it |
|---|---|---|---|
| 1 | `Change`, `MCChange`, `ChangeProofs`, `ChangeGuardProofs` | `edc change`: files, locks, timer | done; all safety properties proved, some under named hypotheses |
| 2 | `Guarded`, `ChangeRefinement` | the abstract promise of a protected change, and the proof that `Change` implements it | done; checked and proved |
| 3 | `Route`, `MCRoute`, `RouteProofs` | `edc route switch` and `rollback` | done; the four safety properties proved, two under named hypotheses |
| 4 | `Tunnel`, `MCTunnel`, `TunnelProofs` | `edc tunnel` with record files, control sockets, ports and ssh | done; type and both safety properties proved |
| 5 | `FsQueue`, `FsWatch`, `MCFsWatch`, `FsWatchProofs` | the event queue, and the watch loop that extends it | done; the safety of queue and loop proved |
| 6 | `LogRun`, `MCLogRun`, `LogRunProofs` | the wrapper around one command | done; its safety proved |
| 7 | `LogFiles`, `MCLogFiles`, `LogFilesProofs` | the lock, the rotation and the deletion of a log, system call by system call | done; its safety proved |
| 8 | `Collector` | the helper container of `ctr collect`, removed on every path | open |
| 9 | `Recorder` | `top -w` with its queue of samples, beside retention and prune | open |

`FsWatch` composes with `FsQueue` by EXTENDS: the queue's actions are steps of the watch with
the loop's variables unchanged, and the loop's steps that touch the queue conjoin the queue's
action (`TakeEvent` with `Receive`, `LeaveLoop` with `CloseDriver`). `Change` instantiates
`Guarded` under a refinement mapping. The other modules are independent: in the program they
share no state, except that a write of `LogRun` is what `LogFiles` takes apart into its system
calls; `LogRun` keeps what a caller sees of it, success or failure.

A theorem still worth proving: `RollbackOverwritesOwn` of `Change` for iptables, where a restore
that stops half way leaves a target nobody wrote.

## 3. The models

Every module says in its header what one action stands for. Data is reduced to what the
properties tell apart; every branch, early return and error path that changes state is kept.

### Change (`change.go`, `change_exec_linux.go`, `route_guard.go`)

Processes are pairs of a role and a run: `apply`, the `timer` job, and the `confirm` and
`rollback` commands a person types. They share what the real processes share:

| Variable | In the program |
|---|---|
| `target` | the authorized_keys file (content and mode) or the iptables tables |
| `state[r]` | `/run/edc/change-<r>.json`, written by temporary file and rename |
| `applyLock`, `stateLock[r]` | the two kinds of O_EXCL lock files; `Stale` after their owner was killed |
| `timer[r]` | the transient systemd timer: none, armed, or fired while its job runs |
| `pc[p]`, `snap[p]` | where the process is and the `changeSnapshot` in its memory |
| `author`, `kept` | ghosts: who wrote the target last, and which runs were confirmed |

One action is one system call or one external command, so a crash can fall between any two.
`Written`, `Restore` and `AfterFailedWrite` describe what a write does: a file is replaced by
one rename and mode 0 becomes 0600; `iptables-restore` replaces only the tables its input
names, one COMMIT after the other, and a failing one keeps the tables it has committed.
`TargetChanged` and `Restored` are the two comparisons of `rollbackChange`. Names of tables, of
files and the text of rules are model values. `AfterUndo` is what follows when the rollback of a
failed apply has restored the target: the timer is stopped and the run marked, by the same steps
(`AbortDisarm`, `AbortMark`) as when the timer could not be verified, and without the state lock.

`Guarded` says what all of this is for, with four variables: the record of each run (none, pending,
completed), the run whose change is in effect, the runs somebody confirmed, and the number of
edits. A change is recorded before it is made (`Record`, `Write`), undone only while it is pending
and not confirmed, and its record is closed only by a confirmation (`Keep`) or when nothing of it is in
effect (`Close`). `Change` maps `record` to `RecordOf`, which reads the state files, and `owner` to
`Owner`: the last author of the target, unless the target is what that author found.

### Route (`route.go`, `route_state.go`, `route_guard.go`, `route_backend_linux.go`)

The routes to the destination are a function from metric to next hop. There is no lock: the
switch, the rollback of its timer and a typed rollback interleave freely on the table and on
the state file. `GuardTier` and `GuardDecision` are the risk policy; the ghost `waived` records
the runs it lets through without a verified timer, `gaveUp` those whose timer's rollback has
reported a failure. `Residual` is `rollbackOps`. Deciding which exit to use, the reachability
checks and `--dry-run` come before the first change and are the one early return of
`TakeSnapshot`.

### Tunnel (`tunnel.go`, `tui_tunnel.go`)

Commands are processes that share the record files (`rec`), the control sockets (`sock`), the
ports and the ssh masters, and take no lock. One action is one file operation or one call of
ssh: `up` loads the records, rejects conflicts, tries its port, removes the old socket, starts ssh
and saves; with port `auto` a lost race for the port begins again with another one, at most
`Attempts` times. Masters die, other programs take ports, any call may fail, and a command may be
killed at any step. The ghost `excused` holds the masters that edc lost without a fault of its own:
the one of a killed command, the one that a failing check declared dead, and the one of which the
user was told that it could not be stopped.

### FsQueue and FsWatch (`watch_fs_queue.go`, `watch_fs.go`, `watch_fs_source*.go`)

`FsQueue` has the driver (emits, loses, fails, ends), the queue goroutine (`qpc`: handing over,
in the select, finished) with its hysteresis, and the closing protocol of the source, driver
first. Events are numbers in the order in which the driver saw them, which is what the order
and accounting properties need. `FsWatch` adds `streamFSWatch`: rules armed by matching
events, one worker goroutine, the result channel with room for one, and every way out of the
loop (signal or duration, driver error, closed source, output that breaks). Debounce is left
open: any armed rule may be the next to start. The grouping of output, the status line and the
contents of records are left out.

### LogRun (`log.go`, `log_run.go`, `log_unix.go`)

The wrapper's control (`pc` from taking the lock to the exit code), the two goroutines of an
attempt, the signal and failure channels, both timers, and the command with its process group:
a leader, at most one helper in the group that may hold the output pipe, and at most one
outsider that left the group. `seen` gathers what happened in the attempt and determines the
exit code (`Result`). The command may ignore SIGTERM, so SIGTERM changes nothing; SIGKILL ends
the group, unless it is refused (a member runs as another user), which only the loop of an attempt notes: without
its process marker a command is killed and waited for (`reap`) whether the signal was refused or not. A write to
the log, the rotation inside it included, is one step that may fail.

### LogFiles (`log.go`, `log_unix.go`, `log_rotate.go`, `log_history_delete.go`, `log_prune.go`, `log_stats.go`)

Names and files are kept apart: `dir` leads from the log and its archives to files, `lockAt` from
the lock's name to a lock file, and `fd` and `lockFd` are what a process has open, whatever has
become of the name. A run waits for the lock, opens the log and writes; a write that does not fit
is cut and rotates, one rename per step, and each of these calls may fail or be the last one
before the run is killed. A deletion plans, asks, scans again, compares, checks the lock, unlinks
part by part and removes the lock file, and the summary counts the runs that are gone. Output
is a sequence of units that carry their run, so that order and loss can be stated; what the
markers say besides the start of a run is left out.

Nothing locks a log against a run while it is deleted, and three ghosts keep the ways apart in which that shows.
`raced` becomes true when a run takes the lock between a deletion's check of it and the end of its removals, or has the lock
file open when the deletion removes it: the finding `log_delete`. `late[d]` are the runs that the comparison before the check
overlooks, because they write after the scan, or take the lock and release it before the check (`Overlooked`, `Lock`): they go with the log although nobody selected
them (`GainedRunIsKept` would say they do not). `missed` are the runs whose file a rotation renamed between the comparison and
the check (`Displaced`): the removal goes by names and leaves them, to be counted again (`NotCountedTwice`); both are among the known disagreements of section 6. The properties of `log_files` say
that nothing else goes wrong: all but the type invariant excuse what happens after a deletion
has `raced`; besides, `KeepsTheNewest` takes the overlooked runs for deleted and `CountedOnce` leaves out the missed ones.

## 4. Runs

| Run | Checks | What it shows |
|---|---|---|
| `change_keys` | `TypeOK`, `UnconfirmedIsGuarded`, `RollbackOverwritesOwn`, `RefusesOnlyForeign`, `ImplementsGuarded` | two authorized_keys changes with timers, confirmations and one edit by another program |
| `change_tables` | `UnconfirmedIsUndone`, `RollbackOverwritesOwn`, `RefusesOnlyForeign`, `ImplementsGuarded` | an iptables change whose restore stops half way, whose timer may not be armed and whose apply may be killed, with an edit and a reboot: the timer undoes it |
| `change_crash` | `AtMostOnePending`, `ConfirmedStays` | early timers, every fault, a kill at any step and a reboot |
| `change_early` | `UnconfirmedIsGuarded` (violated) | a rollback between arming and writing leaves the change unguarded |
| `route_switch` | `TypeOK`, `UnconfirmedIsGuarded`, `CompletedIsRestored`, `BackupRoutesUntouched`, `UnconfirmedIsUndone` | one switch against its timer, a typed rollback, kills, failing calls and another program's routes; an unconfirmed route goes away even if the switch dies |
| `route_backup` | `RollbackKeepsBaseline` (violated) | the rollback deletes a backup route that was there before |
| `tunnel` | `TypeOK`, `NoOrphan`, `DownMeansStopped` | two commands at a time for two tunnels that may want one port, with dying masters, taken ports, failing calls and a kill |
| `fswatch` | `TypeOK`, `NoTriggerLost`, `SummaryCountsLoss`, `ClosedMeansDrained`, `EveryEventCounted`, `InOrder`, `DropsUntilResume`, `StopEnds`, `ArmedRuns` | the whole watch with a queue at its limit; stopping ends and armed rules run |
| `log_run` | `TypeOK`, `GroupStoppedBeforeRestart`, `OneWriter`, `ZeroMeansDone`, `SignalPreventsAttempts`, `Ends` | every restart policy with timeouts, signals and failures |
| `log_write_fails` | `LogErrorStopsGroup` (violated) | a log failure just before the exit leaves the group running |
| `log_files` | `TypeOK`, `LockExcludesUnlessRaced`, `KeepsTheNewest`, `SizeBounded`, `CountedOnce`, `RotationDropsOldestOnly` | two runs with one output file, two archives, two deletions, one kill at any system call, every call failing |
| `log_delete` | `LockExcludes` (violated) | a deletion removes the lock file a run has open; two later runs write the log together |

Deadlock is not checked: all of these programs end, and a terminal state is normal. That they
do not get stuck before is what `UnconfirmedIsUndone`, `StopEnds`, `ArmedRuns` and `Ends` say.
The commands of a tunnel have no loop but the bounded one over ports, and a run of `edc log` waits
for its lock only as long as another run has it.

### Bounds, and why they are enough

- **Change.** Two runs are enough for two applies to meet (`AtMostOnePending` is proved for any
  number). Two tables distinguish a restore of all, some or none. One edit: with two, another
  program may restore exactly what edc wrote, which no comparison of contents can notice.
  `Early = FALSE` keeps the timer and the commands away from a run while its apply works;
  `change_early` and `change_crash` lift it. `Quiet` names the steps between edc's look at the
  target and its write, where an edit by another program is overwritten because no lock
  stops it; the passing runs that check `RollbackOverwritesOwn` keep edits out of them.
  `KillPoints` selects where processes may be killed: nowhere, in the working steps of an
  apply (`change_tables`), or anywhere (`change_crash`). `Typed` leaves the manual rollback out of
  two runs to keep them small; the other runs have it. `ImplementsGuarded` is proved for all
  constants with `Early = FALSE`; the two runs check the definition itself, with one file and
  with two tables.
- **Route.** Two metrics give one route with or without a backup; a third only in
  `route_backup`, which needs a baseline of two and one route more. Two changes by another
  program allow a route to appear and vanish again. `Early` as above; `Overlap = FALSE` means
  one switch at a time.
- **Tunnel.** Two names that can want the same port (one `auto`, one fixed), two ports, two commands
  at a time, two masters: a port lost between the choice and the bind, a retry, a conflict
  and a restart all happen. `Overlap = FALSE` keeps two commands for the same name
  apart (see the known disagreements).
- **FsWatch.** Limit 2 and Resume 1 with channels of capacity 1 reach full,
  dropping, drained and accepting again within 4 events. Two rules with
  overlapping matches: an event may arm none, one or both.
- **LogRun.** Three option records cover each restart policy, with and without a timeout, with
  one restart. One signal, one helper, one outsider and a pipe that holds nothing or
  something.
- **LogFiles.** Two archives are the least for a rename between archives and a gap between them. A size
  of 2 and writes of 2 and 3 give a write that fits exactly, one longer than the limit, and a log that
  an earlier run left full. Two deletions let the second one meet what the first left behind.
  `log_delete` needs a third run and neither faults nor kills.

### Fairness

Only what the scheduler and the kernel give. `Change` and `Route`: a process that runs takes its next
step and systemd starts the job of an elapsed timer; nothing is assumed of people, of other programs
or of crashes. `FsWatch`: goroutines that can run do; a command ends, at the latest by
its timeout or by the cancelled context; `StartAction` is strongly fair for each rule,
since the loop always takes the rule whose deadline is the earliest, so that a rule cannot be
passed over for ever although the worker is busy in between. No write has to fail, which is
why `OutputFails` is outside the fair steps. `LogRun`: the wrapper, its goroutines and
its timers; nothing about the command, which may run, fork and ignore SIGTERM for ever. `Tunnel` and
`LogFiles` state safety only and assume no fairness.

## 5. Proofs

All theorems hold for every value of the constants that satisfies the named assumptions in the modules.

- **`ChangeProofs`.** `TypeCorrect`: the type invariant, one step per action. `OnePendingChange`:
  `AtMostOnePending` is not inductive, since an apply writes its state file several steps after it has
  looked for pending ones. `PendingInv` adds that an apply between lock and unlock holds the
  apply lock (`LockHeld`) and that every other state file is closed while an apply may still
  write its own (`OthersClosed`); a stale lock, which nobody can take, keeps both true after a
  crash. Everything else never reopens a state (`HarmlessStep`). `ConfirmedIsFinal`: no
  rollback writes over a confirmed change if `Early = FALSE`; `FinalInv` says that a confirmed
  run's state is completed, that whoever is inside a body holds the state lock, and that a process
  in a rollback works on an unconfirmed run. `change_crash` checks the property without that
  hypothesis on its instance (authorized_keys).
- **`ChangeRefinement`.** `ChangeImplementsGuarded`: if `Early = FALSE`, `Spec` implies `ImplementsGuarded`,
  the specification of `Guarded` under the mapping of `Change`. The initial states map to the initial one
  (`InitPromise`), and each step is a step of `Guarded` or changes nothing there. The simulation needs more
  than `PendingInv` and `FinalInv`. `RefInv` adds what an apply knows at each step about its own
  state file and about whether its change is in effect (`ApplyOK`), that a process under a state lock works on a
  pending run and undoes to the content that the apply of this run found (`ProcOK`), that
  while a run is pending the target is its own, another program's or what it was before (`RunOK`), and that a file that
  does not exist has no mode (`AbsentIsClean`). The lemmas follow the effect of an action, not its
  name: those that leave records and target alone, those that write a record (`SameRecord`,
  `CloseStep`, `KeepStep`, `RecordStep`), those that write the target (`TargetStep`), and the four
  that do more.
- **`ChangeGuardProofs`.** Three theorems under two sets of hypotheses, each of which excludes something
  that is a known disagreement (section 6) or that no program can make good.
  `Benign`, for `UnconfirmedChangeIsGuarded` and `RefusalIsTrue`: no timer fires during its own apply; no
  write of a state file, save of the rules, restore by a rollback or `systemctl stop` fails (the restore of the apply,
  arming the timer and verifying it may); only an apply is killed, at any of its steps; no reboot removes
  the guard of a change that is on disk; every table is loaded and every file has mode bits at the start and
  after an edit by another program. The invariant `WatchedInv` has four layers. `ControlInv`: who holds the state lock,
  what each role does, when a timer may fire. `SoundInv`: whatever is in the target, in a snapshot or in a
  process can be saved and read back. `MatchInv`: the target of a pending run is what its state
  file says, or another program's. `WatchInv`: at each step of the apply what the later steps rely on, and afterwards
  that the timer waits, its job runs, or the rollback has refused a target that somebody else changed.
  `UnconfirmedIsGuarded` by itself speaks of the last of these states only.
  `Distinct`, for `RollbackOverwritesOwnFile`: an authorized_keys change, edits not between a rollback's look and its write,
  and nobody else writes exactly what edc was asked to write. Faults, kills and reboots are free. `OriginInv`
  says where each content comes from: who wrote the target, what each state file and
  each process remembers of it, and that a rollback was asked for by its own run.
- **`RouteProofs`.** `RouteTypeCorrect`; `BackupRoutesStay` for any overlap, fault, kill and early timer,
  as long as no other program edits the table: `BackupInv` says that every state file and every process works
  on operations for the first route only (`StateFits`, `ProcFits`). `UnconfirmedStaysGuarded`, for
  any number of overlapping runs, if no timer elapses during its own switch: `GuardInv` says that a run whose switch has not begun has neither
  file nor timer (`Quiet`), that only its own processes write them (`Authored`), and what
  guards it at each step of the switch and after it (`Guards`). `CompletedMeansRestored` further needs one
  run (`OneRun`; two overlapping switches are a known disagreement) and other programs' routes
  behind the first one (`OthersBehind`; a route in front of it is one that edc cannot have put back): `RestoreInv` says which exit was
  chosen, what the state file knows of it, and that the first route is back before a run is marked completed.
- **`TunnelProofs`.** `NoOrphanAlways` and `DownMeansStoppedAlways`, both for `Overlap = FALSE`. The invariant
  says that one command works on a name at a time (`Alone`), and what that command may rely on
  (`PcOf`): before it removes the old socket no master of the name runs that has no excuse, and
  after the start the socket is its own master's. `NoOrphan` alone is not inductive: it says nothing of a
  command that is about to remove a socket. `TunnelTypeCorrect` holds for any overlap; it needs
  that what a command remembers of a port or a master is one (`GoodCmds`).
- **`FsWatchProofs`.** `QueueAccounting` (bound, accounting, hysteresis) and `EventsInOrder`, for
  every limit, resume point and capacity. `OrderInv` says that each of the four places an event
  passes through is increasing and that everything further down is older. `WatchImplementsQueue`
  proves `Spec => QueueSpec`: each step of the watch is a step of the queue or leaves it
  alone, and `WatchQueueCorrect` carries the properties over to the watch. For the loop itself:
  `WatchTypeCorrect`; `TriggersAreKept`, since an event that is being handled arms its rules before the
  next one is taken and a rule leaves the armed set only when its worker starts; `ClosedIsDrained` and
  `SummaryIsComplete` from `ClosingInv`: once the loop has closed the source, driver first, nobody
  hands over another event, so what is read afterwards is final.
- **`LogRunProofs`.** `TypeCorrect` with `LimitInv` (never more attempts than the limit allows);
  `RestartIsClean` from `PhaseInv` (who runs when), `StopInv` (whatever asks for a stop arms the kill
  timer, and SIGKILL leaves nobody unless it was refused) and `CleanInv` (what is left of the
  group at the end of an attempt); `MarkersWrittenAlone` from `PhaseInv`. `ZeroIsEarned`: `DoneInv` relates what
  the attempt has seen to who has ended, and 0 is what `Result` gives for nothing but a reaped command with status 0;
  `SignalsPreventAttempts`: `SignalInv` says that a signal which was received is seen at the next place
  that can start an attempt.
- **`LogFilesProofs`.** `LockExcludesAlways`: a flock excludes on a file, not on a name. `LockInv` adds
  that a run that waits or writes has a lock file open, and that it is the one at the name unless a
  deletion has raced. `RotationDropsOldestOnlyAlways` from `TargetFree`: the name that the next
  rename writes to is free, however earlier rotations ended, since a rotation removes the last archive first
  and then moves from the oldest to the newest.
  `FilesTypeCorrect` needs to know what `Flat` returns, which is a recursive function: the library's induction
  theorems cannot be instantiated, so the lemma `Induction` takes the least index at which the claim fails
  instead. `SizeBoundedAlways`: rotatingLogFile's own idea of the size is never less than the length of its file
  (`SizeKnown`), also when a rotation ended half way, and the log it makes anew is empty because the old one
  was renamed away (`RenamedAway`).
  `KeepsTheNewestAlways`: `FlatLaid` says of `Flat`, place by place, from which file and which place in it each unit
  of the retained log comes (`Laid`), so that the property can be told from the files alone. `KeepInv` then has three
  parts. `PlaceInv`: every unit in a file was written, no unit was written twice, no file has two names. `WindowInv`: what a
  deletion relies on. Between its comparison and its check of the lock runs may go on, but every unit in the log is of a run
  that the comparison has read or of one in `late`, and all rows that it read were selected (`Compared`); while
  it removes files no run has the lock (`QuietWindow`). And, unless a deletion raced with a run:
  the file a run writes to is the one at the log's name (`OpenIsLog`), a deletion that removes files finds only units of
  runs in `doomed` (`AllDoomed`), the files are in the order of the writes
  (`InOrder`), and nothing is missing after a unit that no deletion has set out to remove (`NoGap`). The property
  alone is not inductive: a rename half way through a rotation keeps it only because of where the other files are.
  `CountedOnceAlways` assumes `OneDeletion`, that no two deletions go on at once: two do count a run
  twice (section 6). Deletions may follow each other without bound, and runs, kills and
  failures are free. `CountInv` follows the selected runs to the summary, as long as they are not `missed`: they have begun
  when they are selected, have ended when the deletion goes on, and are found once and not yet counted when it
  compares (`FoundFor`); their units lie in the files of the scan until the check of the lock (`InScan`) and in the parts still to
  be removed after it (`ToRemove`), so that they are counted only when none is left (`LeftFor`); and a counted run
  has ended and left nothing (`CountedGone`). Since runs write between the scan and the check, what was read is told from
  what is there by the fact that files only grow at their end (`Extended`).

Only model-checked: the liveness properties `UnconfirmedIsUndone` (of `Change` and of `Route`), `StopEnds`,
`ArmedRuns` and `Ends`, since fairness is out of the prover's reach; and `RollbackOverwritesOwn` for iptables.
The instances of the passing runs that check these properties meet `Benign`, `~Early`, `OneRun`,
`OthersBehind`, `~Overlap` and `OneDeletion`, with an apply that is killed, a restore that stops half way and a timer that cannot be armed
(`change_tables`); for `Distinct`, `change_keys` is wider: there another program may also write a requested content
with another mode.

## 6. Findings

Four runs show a disagreement between the code and what is written about it; `PROJECT.json`
quotes the lines.

1. `change_early`: the apply arms the timer and then writes the target without holding the run's
   state lock. A rollback in between finds nothing to undo, disarms and completes the run; the
   change then lands with no guard.
2. `route_backup`: `rollbackOps` deletes every route but the original as soon as there is one
   more than the baseline, also those that belong to the baseline.
3. `log_write_fails`: when a log write fails just before the command ends, the select may take the two
   results first; the run returns 2 without having stopped the group.
4. `log_delete`: the deletion of a log asks whether its lock is held and later removes the lock file by its
   name. A run that opened the file in between holds a lock nobody else can find; the next run creates
   a new lock file, and both write and rotate the same log.

### Known disagreements

These are kept out of the passing runs by their constants or excused by a property. Where the
last column names a configuration, the change it describes reproduces the case.

| Where | What | How to see it |
|---|---|---|
| `change.go:770` | with no table loaded `iptables-save` prints nothing; the state that is saved is invalid for every reader, so neither confirm nor rollback works | `ChangeTables.cfg` with `InitTargets <- TableInitEmpty`: `UnconfirmedIsGuarded` |
| `change.go:413` | a table that the apply loaded for the first time is not in the saved rules; restoring them leaves it, the check after the rollback fails | `ChangeTables.cfg` with `InitTargets <- TableInitPart`: `UnconfirmedIsUndone` |
| `change.go:469` | a file with mode 0000 is written with 0600 and then taken for one that somebody else changed | `ChangeKeys.cfg` with `InitTargets <- KeyInitMode0`: `RefusesOnlyForeign` |
| `change.go:566` | confirm is killed after it stopped the timer and before it marked the run | `ChangeKeys.cfg` with `KillPoints <- KillConfirm`, `MaxCrashes = 1`: `UnconfirmedIsGuarded` |
| `change.go:410` | the apply is killed before `AppliedState` is on disk, or the save of it fails: the rollback cannot tell its own rules from later ones and overwrites them | excused by `Comparable` in `RollbackOverwritesOwn`; without that conjunct `change_tables` violates it |
| `change.go:571` | the timer fires once; if a confirm that is then refused holds the lock at that moment, nobody tries again | `ChangeTables.cfg` with `"stop"` in `Faults`: `UnconfirmedIsGuarded` |
| `change.go:249` | the rollback of a failed apply takes no state lock: a confirm beside it is accepted, and the rules it confirmed are undone after all | `ChangeTables.cfg` with `Early = TRUE`: `ImplementsGuarded`, `ConfirmedStays` |
| `change.go:20` | `/run/edc` and the timer do not survive a reboot, an authorized_keys change does: it stays, unguarded | no document claims otherwise; the reboot of `Guarded` allows it |
| `route.go:708` | the timer's rollback runs while the confirmed switch is disarming it: the switch reports success for a route that is gone | `RouteSwitch.cfg` with `PROPERTY ReportedIsInEffect` |
| `route.go:656` | two overlapping switches: the second takes the first one's route for the original | `RouteSwitch.cfg` with `Runs = {r1, r2}`, `Overlap = TRUE`, `Faults = {}`, `KillPoints <- NoKill`, `MaxEdits = 0`: `AllUndone` |
| `tunnel.go:581` | two starts of one name: the second removes the socket of the first one's ssh, which runs on, unlisted (`docs/remote.md:300` calls a tunnel with a file whose ssh is gone `stale`; this is the opposite case, and nothing shows it) | `Tunnel.cfg` with `Overlap = TRUE`: `NoOrphan` |
| `tunnel.go:595` | a command killed between the start of ssh and the save of its record leaves an ssh process no list shows | excused in `NoOrphan` |
| `tunnel.go:700` | any failing check counts as a dead master: `down` removes the record and the socket of a tunnel that runs | excused in `NoOrphan` and `DownMeansStopped` |
| `tunnel.go:587` | the comment says a port that is taken after it was chosen is tried again with a new one; if `available` is the one to notice, its error is not a port race and the start ends | the model ends the start there, too |
| `tunnel_file.go:17` | two definitions saved at the same time: one is lost | not modelled |
| `log_stats.go:113` | "It runs before the deletion", says the comment; `log_prune.go:297` writes the summary after it, so that a kill in between loses the removed runs from the summary | `CountedOnce` requires at most once, not exactly once |
| `log_run.go:67` | a command whose process marker could not be written is killed; when the SIGKILL is refused, its error is dropped and the wrapper waits for the command without a timer and without reading signals | excused by `"signalErr" \in seen` in `Ends` |
| `log_history_delete.go:105` | the deletion lists the files once, reads no further than that listing says, accepts a log that has grown since and asks for the lock last (line 112): a run that writes its start in between and ends is deleted with the log although nobody selected it. The comment at line 97 says "A family that gained a run or a lock since the plan is kept and counted as skipped", `docs/history.md:245` says edc "keeps a file that changed after the browser read it" | `LogFiles.cfg` with `INVARIANT GainedRunIsKept`; excused by `late` in `KeepsTheNewest` |
| `log_history_delete.go:118` | a rotation between the comparison and the check of the lock renames the compared file: the removal by name misses it, its runs are reported as deleted and counted, and found and counted again by the next deletion, although `log_prune.go:296` writes the summary "for the runs that were really removed, so a log that changed and was kept is not counted twice later" | `LogFiles.cfg` with `INVARIANT NotCountedTwice`; excused by `missed` in `CountedOnce` |
| `log_history_delete.go:108` | two deletions of one log at the same time both find it unchanged and both count its runs | `LogFiles.cfg` with a second deleter: `CountedOnce` |
| `log_history_read.go` | a run whose start marker was rotated away belongs to nobody: its tail is deleted with the runs that share its files, although `docs/history.md:245` keeps a file that holds a run that was not selected; a file with nothing but such a tail can never be deleted | excused in `KeepsTheNewest` |
| `history_prune.go:298` | "a run that is being recorded is not deleted", says the comment, "because its last activity is recent"; a dashboard that is paused, or a host that sleeps, for longer than `--retain` writes nothing, and the hourly retention deletes its run; the next sample fails on the foreign key | not modelled |

## 7. Not modelled

- Reuse of a process ID: the log wrapper may signal the group of a leader that was already
  reaped; while a member lives the ID is not given out again, and the model takes the group of
  an ended command to be empty afterwards. Clocks that jump are left out as well.
- The waits of `os/exec` after an exit (`WaitDelay`) and the resource sampler of a log run.
- The definition file of the tunnels and the markers inside a log: text, read and written whole.
- Recordings: the queue of samples in `history_store.go` has one writer, whose first error ends the recording; SQLite
  serialises what would interleave; the retention goroutine of `history_prune.go` is the part worth a module
  (see the table above).
- `ctr collect`, the pool of `remote` (workers over hosts that share nothing but a channel of results sorted
  at the end), the store of recipes (refused if the file changed since it was read) and the self
  update (one rename).
- The inside of the event drivers (how inotify keeps its watches, how fanotify finds a path): they
  are seen through their channel.
- The reboot of a host in `Route`: table, timers and state files vanish together.
- Parsers, samplers, renderers and screens, by far the largest part of the code: eBPF and packet
  decoding, `/proc`, container and service queries, the dashboards. `clean` and `du` only report. What could be
  wrong in them is a byte layout or a text, not an order of steps; see the components in `PROJECT.json`.
