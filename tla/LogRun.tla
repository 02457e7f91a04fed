------------------------------- MODULE LogRun --------------------------------
(***************************************************************************)
(* `edc log': the wrapper that runs a command, records its output in the   *)
(* log file, stops it on a timeout, a signal or a log error, and restarts  *)
(* it.                                                                     *)
(*                                                                         *)
(* The command is the leader of a process group.  It may start a helper in *)
(* the group, which may or may not keep the output pipe open, and an       *)
(* outsider that left the group and keeps the pipe.  Two goroutines of an  *)
(* attempt copy the pipe to the log and wait for the leader.  SIGTERM may  *)
(* be ignored; SIGKILL may not.                                            *)
(***************************************************************************)
EXTENDS Integers

CONSTANTS
    Options,     \* [restart, limit, timeout]: the options of a run
    Faults,      \* "open", "write", "start", "signal": what may fail
    MaxSignals   \* bound on the signals sent to the wrapper

Restarts == {"never", "on-failure", "always"}

ASSUME OptionsAssumption ==
    Options \subseteq [restart : Restarts, limit : Nat, timeout : {"set", "unset"}]
ASSUME SignalAssumption == MaxSignals \in Nat

VARIABLES
    opts,      \* the options of this run
    pc,        \* where the wrapper is
    attempt,   \* the number of attempts begun
    code,      \* exit code: 0, 1 (the command's), 2, 124 or 130
    sig, sent, \* signals in the channel, and sent so far
    leader,    \* the command: "none", "run", "exited" (a zombie), "reaped"
    status,    \* its exit status: 0, or 1 for anything else
    helper,    \* "none", "quiet", "loud" (keeps the pipe), "gone"
    outsider,  \* "none", "run", "gone"
    unread,    \* bytes in the pipe: 0 or 1
    pipe,      \* the wrapper's end of the pipe: "open", "closed"
    copier,    \* "none", "copy", "sent" (result in the channel), "taken"
    waiter,    \* "none", "wait", "sent", "taken"
    failures,  \* the channel of log failures: "none", "sent", "taken"
    timeout,   \* the attempt's timer: "nil", "armed"
    kill,      \* the kill timer: "unset", "armed", "fired"
    seen,      \* what happened in the attempt
    late       \* ghost: commands started since the first signal

Events == {"interrupted", "timedOut", "forced", "logErr", "signalErr", "writeErr", "readErr"}

procVars == <<leader, status, helper, outsider>>
ioVars   == <<unread, pipe, copier, waiter, failures>>
timeVars == <<timeout, kill>>
runVars  == <<opts, attempt, sent, late>>
vars     == <<runVars, pc, code, sig, procVars, ioVars, timeVars, seen>>

PCs == {"lock", "gate", "start", "spawn", "process", "reap", "top", "select", "end",
        "decide", "delay", "exit"}

TypeOK ==
    /\ opts \in Options
    /\ pc \in PCs
    /\ attempt \in Nat /\ attempt <= opts.limit + 1
    /\ code \in {0, 1, 2, 124, 130}
    /\ sent \in 0 .. MaxSignals /\ sig \in 0 .. sent
    /\ leader \in {"none", "run", "exited", "reaped"} /\ status \in {0, 1}
    /\ helper \in {"none", "quiet", "loud", "gone"} /\ outsider \in {"none", "run", "gone"}
    /\ unread \in {0, 1} /\ pipe \in {"open", "closed"}
    /\ copier \in {"none", "copy", "sent", "taken"} /\ waiter \in {"none", "wait", "sent", "taken"}
    /\ failures \in {"none", "sent", "taken"}
    /\ timeout \in {"nil", "armed"} /\ kill \in {"unset", "armed", "fired"}
    /\ seen \subseteq Events
    /\ late \in Nat

Init ==
    /\ opts \in Options
    /\ pc = "lock" /\ attempt = 0 /\ code = 2 /\ sig = 0 /\ sent = 0 /\ late = 0
    /\ leader = "none" /\ status = 0 /\ helper = "none" /\ outsider = "none"
    /\ unread = 0 /\ pipe = "open" /\ copier = "none" /\ waiter = "none" /\ failures = "none"
    /\ timeout = "nil" /\ kill = "unset" /\ seen = {}

HelperRuns == helper \in {"quiet", "loud"}
GroupEmpty == leader \in {"none", "reaped"} /\ ~HelperRuns
PipeHeld   == leader = "run" \/ helper = "loud" \/ outsider = "run"

Exit(c) ==
    /\ pc' = "exit" /\ code' = c

-----------------------------------------------------------------------------
(* The command and its descendants                                         *)

Fork ==
    /\ leader = "run"
    /\ \/ /\ helper = "none" /\ helper' \in {"quiet", "loud"}
          /\ UNCHANGED outsider
       \/ /\ outsider = "none" /\ outsider' = "run"
          /\ UNCHANGED helper
    /\ UNCHANGED <<runVars, pc, code, sig, leader, status, ioVars, timeVars, seen>>

LeaderExits ==
    /\ leader = "run"
    /\ leader' = "exited" /\ status' \in {0, 1}
    /\ UNCHANGED <<runVars, pc, code, sig, helper, outsider, ioVars, timeVars, seen>>

DescendantEnds ==
    /\ \/ HelperRuns /\ helper' = "gone" /\ UNCHANGED outsider
       \/ outsider = "run" /\ outsider' = "gone" /\ UNCHANGED helper
    /\ UNCHANGED <<runVars, pc, code, sig, leader, status, ioVars, timeVars, seen>>

Output ==
    /\ PipeHeld /\ pipe = "open" /\ unread = 0
    /\ unread' = 1
    /\ UNCHANGED <<runVars, pc, code, sig, procVars, pipe, copier, waiter, failures, timeVars, seen>>

\* kill(-pid, SIGKILL): the leader and the helper end, the outsider does not
KillGroup ==
    /\ leader' = IF leader = "run" THEN "exited" ELSE leader
    /\ status' = IF leader = "run" THEN 1 ELSE status
    /\ helper' = IF HelperRuns THEN "gone" ELSE helper
    /\ UNCHANGED outsider

\* Ctrl-C or SIGTERM for the wrapper
Signal ==
    /\ sent < MaxSignals /\ pc # "exit"
    /\ sent' = sent + 1 /\ sig' = sig + 1
    /\ UNCHANGED <<opts, attempt, late, pc, code, procVars, ioVars, timeVars, seen>>

-----------------------------------------------------------------------------
(* The goroutines of an attempt                                            *)

WaitReturns ==
    /\ waiter = "wait" /\ leader = "exited"
    /\ leader' = "reaped" /\ waiter' = "sent"
    /\ UNCHANGED <<runVars, pc, code, sig, status, helper, outsider, unread, pipe, copier,
                   failures, timeVars, seen>>

\* copyLogStream: after a failed write it goes on reading, so that the command
\* is not blocked
CopyData ==
    /\ copier = "copy" /\ unread = 1 /\ pipe = "open"
    /\ unread' = 0
    /\ \/ UNCHANGED <<failures, seen>>
       \/ /\ "write" \in Faults /\ "writeErr" \notin seen
          /\ failures' = "sent" /\ seen' = seen \cup {"writeErr"}
    /\ UNCHANGED <<runVars, pc, code, sig, procVars, pipe, copier, waiter, timeVars>>

CopyEnds ==
    /\ copier = "copy"
    /\ \/ pipe = "open" /\ unread = 0 /\ ~PipeHeld /\ UNCHANGED seen
       \/ pipe = "closed" /\ seen' = seen \cup {"readErr"}
    /\ copier' = "sent" /\ pipe' = "closed"
    /\ UNCHANGED <<runVars, pc, code, sig, procVars, unread, waiter, failures, timeVars>>

-----------------------------------------------------------------------------
(* runLogWithStreams up to the attempt                                     *)

\* lockLogFile polls until it has the lock or a signal comes; openRotatingLog
LockLog ==
    /\ pc = "lock"
    /\ \/ pc' = "gate" /\ UNCHANGED <<code, sig>>
       \/ sig > 0 /\ Exit(130) /\ sig' = sig - 1
       \/ "open" \in Faults /\ Exit(2) /\ UNCHANGED sig
    /\ UNCHANGED <<runVars, procVars, ioVars, timeVars, seen>>

GateOpen ==
    /\ pc = "gate"
    /\ pc' = "start" /\ attempt' = attempt + 1
    /\ UNCHANGED <<opts, sent, late, code, sig, procVars, ioVars, timeVars, seen>>
\* A signal that nobody has taken yet prevents the next attempt
Gate ==
    /\ pc = "gate"
    /\ \/ sig > 0 /\ Exit(130) /\ sig' = sig - 1 /\ UNCHANGED attempt
       \/ sig = 0 /\ pc' = "start" /\ attempt' = attempt + 1 /\ UNCHANGED <<code, sig>>
    /\ UNCHANGED <<opts, sent, late, procVars, ioVars, timeVars, seen>>

-----------------------------------------------------------------------------
(* runLogAttempt                                                           *)

MayFail == "write" \in Faults

\* The start marker, written and synced; the attempt's own state is new
WriteStart ==
    /\ pc = "start"
    /\ \/ pc' = "spawn" /\ UNCHANGED code
       \/ MayFail /\ Exit(2)
    /\ leader' = "none" /\ status' = 0 /\ helper' = "none" /\ outsider' = "none"
    /\ unread' = 0 /\ pipe' = "open" /\ copier' = "none" /\ waiter' = "none"
    /\ timeout' = "nil" /\ kill' = "unset" /\ seen' = {}
    /\ UNCHANGED <<runVars, sig, failures>>

Spawn ==
    /\ pc = "spawn"
    /\ \/ /\ pc' = "process" /\ leader' = "run"
          /\ late' = IF sent > 0 THEN late + 1 ELSE late
          /\ UNCHANGED code
       \/ /\ "start" \in Faults /\ Exit(2)
          /\ UNCHANGED <<leader, late>>
    /\ UNCHANGED <<opts, attempt, sent, sig, status, helper, outsider, ioVars, timeVars, seen>>

\* The process marker; without it the command is killed at once.  Whether the
\* SIGKILL was refused is not looked at
WriteProcess ==
    /\ pc = "process"
    /\ \/ /\ pc' = "top" /\ copier' = "copy" /\ waiter' = "wait"
          /\ timeout' = IF opts.timeout = "set" THEN "armed" ELSE "nil"
          /\ UNCHANGED <<procVars, pipe, seen>>
       \/ /\ MayFail
          /\ pc' = "reap" /\ pipe' = "closed"
          /\ \/ KillGroup /\ UNCHANGED seen
             \/ "signal" \in Faults /\ seen' = seen \cup {"signalErr"} /\ UNCHANGED procVars
          /\ UNCHANGED <<copier, waiter, timeout>>
    /\ UNCHANGED <<runVars, code, sig, unread, failures, kill>>

\* process.Wait for that command, however long it takes: no signal is read
\* meanwhile, and no timer is set
ReapKilled ==
    /\ pc = "reap" /\ leader = "exited"
    /\ leader' = "reaped" /\ Exit(2)
    /\ UNCHANGED <<runVars, sig, status, helper, outsider, ioVars, timeVars, seen>>

BothDone == waiter = "taken" /\ copier = "taken"

TopWaitOnly ==
    /\ pc = "top"
    /\ pc' = IF waiter = "taken" /\ (kill # "armed" \/ GroupEmpty) THEN "end" ELSE "select"
    /\ UNCHANGED <<runVars, code, sig, procVars, ioVars, timeVars, seen>>
\* The loop ends when the command and its output are done; once it was told to
\* stop, only with an empty group or after SIGKILL
Top ==
    /\ pc = "top"
    /\ \/ /\ pc' = IF BothDone /\ (kill # "armed" \/ GroupEmpty) THEN "end" ELSE "select"
          /\ UNCHANGED seen
       \/ /\ "signal" \in Faults /\ BothDone /\ kill = "armed" /\ ~GroupEmpty
          /\ pc' = "end" /\ seen' = seen \cup {"signalErr"}
    /\ UNCHANGED <<runVars, code, sig, procVars, ioVars, timeVars>>

\* stop: the first signal to the group arms the kill timer
Stop == kill' = IF kill = "unset" THEN "armed" ELSE kill

\* A signal to the group may be refused: a member runs as another user
Noted(e) ==
    \/ seen' = seen \cup {e}
    \/ "signal" \in Faults /\ seen' = seen \cup {e, "signalErr"}

Selecting == pc = "select" /\ pc' = "top"

TakeSignal ==
    /\ Selecting /\ sig > 0
    /\ sig' = sig - 1
    /\ timeout' = "nil"
    /\ Noted("interrupted") /\ Stop
    /\ UNCHANGED <<runVars, code, procVars, ioVars>>

TimeoutFires ==
    /\ Selecting /\ timeout = "armed"
    /\ timeout' = "nil"
    /\ Noted("timedOut") /\ Stop
    /\ UNCHANGED <<runVars, code, sig, procVars, ioVars>>

KillFiresOnly ==
    /\ Selecting /\ kill = "armed"
    /\ kill' = "fired"
    /\ KillGroup /\ seen' = seen \cup {"forced"}
    /\ UNCHANGED <<runVars, code, sig, ioVars, timeout>>
\* SIGKILL for the group; closing the pipe frees the copier from an outsider
KillFires ==
    /\ Selecting /\ kill = "armed"
    /\ kill' = "fired" /\ pipe' = "closed"
    /\ \/ KillGroup /\ seen' = seen \cup {"forced"}
       \/ /\ "signal" \in Faults /\ seen' = seen \cup {"forced", "signalErr"}
          /\ UNCHANGED procVars
    /\ UNCHANGED <<runVars, code, sig, unread, copier, waiter, failures, timeout>>

TakeFailure ==
    /\ Selecting /\ failures = "sent"
    /\ failures' = "taken"
    /\ Noted("logErr") /\ Stop
    /\ UNCHANGED <<runVars, code, sig, procVars, unread, pipe, copier, waiter, timeout>>

\* The exit status of the command asks for another attempt
Eligible == opts.restart = "always" \/ (opts.restart = "on-failure" /\ status # 0)

TakeWaitOnly ==
    /\ Selecting /\ waiter = "sent"
    /\ waiter' = "taken"
    /\ UNCHANGED <<runVars, code, sig, procVars, unread, pipe, copier, failures, timeVars, seen>>
\* What is left of the group is stopped before another attempt
TakeWait ==
    /\ Selecting /\ waiter = "sent"
    /\ waiter' = "taken"
    /\ \/ ~(Eligible /\ kill = "unset") /\ UNCHANGED <<kill, seen>>
       \/ Eligible /\ kill = "unset" /\ Stop /\ UNCHANGED seen
       \/ Eligible /\ kill = "unset" /\ Stop /\ "signal" \in Faults /\ seen' = seen \cup {"signalErr"}
    /\ UNCHANGED <<runVars, code, sig, procVars, unread, pipe, copier, failures, timeout>>

TakeCopy ==
    /\ Selecting /\ copier = "sent"
    /\ copier' = "taken"
    /\ UNCHANGED <<runVars, code, sig, procVars, unread, pipe, waiter, failures, timeVars, seen>>

LogError     == seen \cap {"logErr", "writeErr"} # {} \/ ("readErr" \in seen /\ "forced" \notin seen)
WrapperError == LogError \/ "signalErr" \in seen

ResultOfCommand ==
    IF WrapperError THEN 2 ELSE IF "interrupted" \in seen THEN 130 ELSE status
Result ==
    IF WrapperError THEN 2
    ELSE IF "interrupted" \in seen THEN 130
    ELSE IF "timedOut" \in seen THEN 124 ELSE status

\* The end marker, written and synced
WriteEnd ==
    /\ pc = "end"
    /\ \/ pc' = "decide" /\ code' = Result
       \/ MayFail /\ Exit(2)
    /\ UNCHANGED <<runVars, sig, procVars, ioVars, timeVars, seen>>

-----------------------------------------------------------------------------
(* runLogWithStreams after the attempt                                     *)

Final == \/ "interrupted" \in seen \/ WrapperError \/ opts.restart = "never"
         \/ opts.restart = "on-failure" /\ code = 0

DecideOnceMore ==
    /\ pc = "decide"
    /\ \/ (Final \/ attempt > opts.limit + 1) /\ Exit(code)
       \/ ~Final /\ attempt <= opts.limit + 1 /\ pc' = "delay" /\ UNCHANGED code
    /\ UNCHANGED <<runVars, sig, procVars, ioVars, timeVars, seen>>
\* Another attempt, unless the result is final or the limit is reached; the
\* restart and limit markers may fail
Decide ==
    /\ pc = "decide"
    /\ \/ Final /\ Exit(code)
       \/ ~Final /\ attempt > opts.limit /\ Exit(code)
       \/ ~Final /\ attempt <= opts.limit /\ pc' = "delay" /\ UNCHANGED code
       \/ ~Final /\ MayFail /\ Exit(2)
    /\ UNCHANGED <<runVars, sig, procVars, ioVars, timeVars, seen>>

Delay ==
    /\ pc = "delay"
    /\ \/ pc' = "gate" /\ UNCHANGED <<code, sig>>
       \/ sig > 0 /\ sig' = sig - 1 /\ (Exit(130) \/ (MayFail /\ Exit(2)))
    /\ UNCHANGED <<runVars, procVars, ioVars, timeVars, seen>>

-----------------------------------------------------------------------------
Wrapper ==
    \/ LockLog \/ Gate \/ WriteStart \/ Spawn \/ WriteProcess \/ ReapKilled \/ Top
    \/ TakeSignal \/ TimeoutFires \/ KillFires \/ TakeFailure \/ TakeWait \/ TakeCopy
    \/ WriteEnd \/ Decide \/ Delay

Next ==
    \/ Wrapper
    \/ WaitReturns \/ CopyData \/ CopyEnds
    \/ Fork \/ LeaderExits \/ DescendantEnds \/ Output \/ Signal

Spec == Init /\ [][Next]_vars

\* The wrapper and its goroutines run and timers fire.  Nothing is assumed of
\* the command and its descendants, nor that anybody sends a signal.
Fairness ==
    /\ WF_vars(Wrapper) /\ WF_vars(TimeoutFires) /\ WF_vars(KillFires)
    /\ WF_vars(WaitReturns) /\ WF_vars(CopyData) /\ WF_vars(CopyEnds)

FairSpec == Spec /\ Fairness

-----------------------------------------------------------------------------
(* Properties                                                              *)

\* The wrapper returned because the attempts were used up
GaveUp ==
    /\ pc = "exit" /\ attempt > opts.limit
    /\ \/ opts.restart = "always" /\ code \in {0, 1, 124}
       \/ opts.restart = "on-failure" /\ code \in {1, 124}

\* "For an exit eligible for restart, the wrapper stops remaining group members
\* before it returns or starts another attempt."
GroupStoppedBeforeRestart ==
    pc \in {"delay", "gate", "start"} \/ GaveUp => ~HelperRuns

\* The log file has no lock of its own: the wrapper writes its markers only
\* while no goroutine copies output into the file, so the output of an attempt
\* is between its markers.
OneWriter ==
    pc \in {"start", "process", "end", "decide", "delay", "exit"} => copier \in {"none", "taken"}

\* Exit code 0 means that the command of the last attempt exited 0 in time, and
\* that all of its output is in the log unless the group had to be killed.
ZeroMeansDone ==
    pc = "exit" /\ code = 0 =>
        /\ leader = "reaped" /\ status = 0
        /\ seen \subseteq {"forced", "readErr"}
        /\ "forced" \in seen \/ unread = 0

\* "An external SIGINT or SIGTERM ... prevents another attempt": at most the one
\* command that was about to start is started after a signal.
SignalPreventsAttempts == late <= 1

\* With a timeout, or once a signal was sent, the wrapper ends, also when the
\* command ignores SIGTERM and a descendant outside the group keeps the pipe.
Ends == (sent > 0 \/ opts.timeout = "set") ~> (pc = "exit" \/ "signalErr" \in seen)

\* "If a log write fails, the wrapper stops the child process group and returns
\* exit code 2."
LogErrorStopsGroup ==
    pc = "exit" /\ LogError => code = 2 /\ ~HelperRuns
=============================================================================
