---------------------------- MODULE LogRunProofs -----------------------------
(* Proofs about LogRun, for every set of options and every number of       *)
(* signals.                                                                *)
EXTENDS LogRun, TLAPS

Looping == pc \in {"top", "select"}

\* Who runs when: the goroutines only inside the loop, the command from Spawn
\* until the waiter has reaped it.
PhaseInv ==
    /\ copier \in {"copy", "sent"} => Looping
    /\ leader \in {"run", "exited"} => Looping \/ pc \in {"process", "reap"}
    /\ waiter \in {"sent", "taken"} => leader = "reaped"
    /\ pc \in {"spawn", "process"} => kill = "unset" /\ waiter = "none" /\ seen = {}
    /\ pc = "reap" => waiter = "none"

\* Whatever asks for a stop arms the kill timer, and SIGKILL leaves nobody in
\* the group unless it was refused.
StopInv ==
    /\ (Looping \/ pc = "end") /\ waiter = "taken" /\ Eligible => kill # "unset"
    /\ (Looping \/ pc = "end") /\ "timedOut" \in seen => kill # "unset"
    /\ (Looping \/ pc = "end") /\ kill = "fired" => (leader # "run" /\ ~HelperRuns) \/ "signalErr" \in seen

\* At the end of an attempt that will be followed by another one, or that used
\* up the last, the group is empty.
CleanInv ==
    /\ pc = "end" => \/ ~HelperRuns \/ WrapperError
                     \/ kill = "unset" /\ ~Eligible /\ "timedOut" \notin seen
    /\ pc = "end" => waiter = "taken"
    /\ pc = "decide" => code = Result /\ (~Final => ~HelperRuns)
    /\ pc \in {"delay", "gate", "start"} \/ GaveUp => ~HelperRuns
    /\ pc = "lock" => ~HelperRuns

RestartInv == PhaseInv /\ StopInv /\ CleanInv

\* Another attempt is begun only while the limit is not reached
LimitInv == (pc = "lock" => attempt = 0) /\ (pc \in {"gate", "delay"} => attempt <= opts.limit)

-----------------------------------------------------------------------------

\* The type invariant.
THEOREM TypeCorrect == Spec => []TypeOK
<1>1. Init => TypeOK /\ LimitInv
  BY OptionsAssumption, SignalAssumption DEF Init, TypeOK, LimitInv, PCs
<1>2. TypeOK /\ LimitInv /\ [Next]_vars => TypeOK' /\ LimitInv'
  <2> SUFFICES ASSUME TypeOK, LimitInv, [Next]_vars PROVE TypeOK' /\ LimitInv'
    OBVIOUS
  <2> USE OptionsAssumption, SignalAssumption DEF TypeOK, LimitInv, PCs, runVars, procVars, ioVars, timeVars, Exit
  <2>0. /\ {"interrupted", "timedOut", "forced", "logErr", "signalErr", "writeErr", "readErr"} \subseteq Events
        /\ opts.limit \in Nat
    BY DEF Events
  <2>1. CASE LockLog BY <2>0, <2>1 DEF LockLog
  <2>2. CASE Gate BY <2>0, <2>2 DEF Gate
  <2>3. CASE WriteStart BY <2>0, <2>3 DEF WriteStart
  <2>4. CASE Spawn BY <2>0, <2>4 DEF Spawn
  <2>5. CASE WriteProcess \/ ReapKilled BY <2>0, <2>5 DEF WriteProcess, KillGroup, ReapKilled
  <2>6. CASE Top BY <2>0, <2>6 DEF Top
  <2>7. CASE TakeSignal BY <2>0, <2>7 DEF TakeSignal, Selecting, Noted, Stop
  <2>8. CASE TimeoutFires BY <2>0, <2>8 DEF TimeoutFires, Selecting, Noted, Stop
  <2>9. CASE KillFires BY <2>0, <2>9 DEF KillFires, Selecting, KillGroup
  <2>10. CASE TakeFailure BY <2>0, <2>10 DEF TakeFailure, Selecting, Noted, Stop
  <2>11. CASE TakeWait BY <2>0, <2>11 DEF TakeWait, Selecting, Stop
  <2>12. CASE TakeCopy BY <2>0, <2>12 DEF TakeCopy, Selecting
  <2>13. CASE WriteEnd BY <2>0, <2>13 DEF WriteEnd, Result
  <2>14. CASE Decide BY <2>0, <2>14 DEF Decide
  <2>15. CASE Delay BY <2>0, <2>15 DEF Delay
  <2>16. CASE WaitReturns BY <2>0, <2>16 DEF WaitReturns
  <2>17. CASE CopyData BY <2>0, <2>17 DEF CopyData
  <2>18. CASE CopyEnds BY <2>0, <2>18 DEF CopyEnds
  <2>19. CASE Fork BY <2>0, <2>19 DEF Fork
  <2>20. CASE LeaderExits \/ DescendantEnds \/ Output
    BY <2>0, <2>20 DEF LeaderExits, DescendantEnds, Output
  <2>21. CASE Signal BY <2>0, <2>21 DEF Signal
  <2>22. CASE UNCHANGED vars BY <2>0, <2>22 DEF vars
  <2> QED
    BY <2>1, <2>2, <2>3, <2>4, <2>5, <2>6, <2>7, <2>8, <2>9, <2>10, <2>11, <2>12, <2>13,
       <2>14, <2>15, <2>16, <2>17, <2>18, <2>19, <2>20, <2>21, <2>22
    DEF Next, Wrapper
<1> QED BY <1>1, <1>2, PTL DEF Spec

-----------------------------------------------------------------------------
LEMMA PhaseStep == TypeOK /\ PhaseInv /\ [Next]_vars => PhaseInv'
<1> SUFFICES ASSUME TypeOK, PhaseInv, [Next]_vars PROVE PhaseInv'
  OBVIOUS
<1> USE DEF PhaseInv, Looping, TypeOK, runVars, procVars, ioVars, timeVars, Exit
<1>1. CASE LockLog \/ Gate BY <1>1 DEF LockLog, Gate
<1>2. CASE WriteStart BY <1>2 DEF WriteStart
<1>3. CASE Spawn BY <1>3 DEF Spawn
<1>4. CASE WriteProcess \/ ReapKilled BY <1>4 DEF WriteProcess, KillGroup, ReapKilled
<1>5. CASE Top BY <1>5 DEF Top, BothDone
<1>6. CASE TakeSignal \/ TimeoutFires \/ TakeFailure
  BY <1>6 DEF TakeSignal, TimeoutFires, TakeFailure, Selecting
<1>7. CASE KillFires BY <1>7 DEF KillFires, Selecting, KillGroup
<1>8. CASE TakeWait \/ TakeCopy BY <1>8 DEF TakeWait, TakeCopy, Selecting
<1>9. CASE WriteEnd \/ Decide \/ Delay BY <1>9 DEF WriteEnd, Decide, Delay
<1>10. CASE WaitReturns \/ CopyData \/ CopyEnds BY <1>10 DEF WaitReturns, CopyData, CopyEnds
<1>11. CASE Fork \/ LeaderExits \/ DescendantEnds \/ Output \/ Signal
  BY <1>11 DEF Fork, LeaderExits, DescendantEnds, Output, Signal
<1>12. CASE UNCHANGED vars BY <1>12 DEF vars
<1> QED
  BY <1>1, <1>2, <1>3, <1>4, <1>5, <1>6, <1>7, <1>8, <1>9, <1>10, <1>11, <1>12
  DEF Next, Wrapper

LEMMA StopStep == TypeOK /\ PhaseInv /\ StopInv /\ [Next]_vars => StopInv'
<1> SUFFICES ASSUME TypeOK, PhaseInv, StopInv, [Next]_vars PROVE StopInv'
  OBVIOUS
<1> USE DEF PhaseInv, StopInv, Looping, TypeOK, HelperRuns, Eligible,
            runVars, procVars, ioVars, timeVars, Exit
<1>1. CASE LockLog \/ Gate BY <1>1 DEF LockLog, Gate
<1>2. CASE WriteStart BY <1>2 DEF WriteStart
<1>3. CASE Spawn BY <1>3 DEF Spawn
<1>4. CASE WriteProcess \/ ReapKilled BY <1>4 DEF WriteProcess, KillGroup, ReapKilled
<1>5. CASE Top BY <1>5 DEF Top
<1>6. CASE TakeSignal \/ TimeoutFires \/ TakeFailure
  BY <1>6 DEF TakeSignal, TimeoutFires, TakeFailure, Selecting, Noted, Stop
<1>7. CASE KillFires BY <1>7 DEF KillFires, Selecting, KillGroup
<1>8. CASE TakeWait BY <1>8 DEF TakeWait, Selecting, Stop
<1>9. CASE TakeCopy BY <1>9 DEF TakeCopy, Selecting
<1>10. CASE WriteEnd \/ Decide \/ Delay BY <1>10 DEF WriteEnd, Decide, Delay
<1>11. CASE WaitReturns \/ CopyData \/ CopyEnds BY <1>11 DEF WaitReturns, CopyData, CopyEnds
<1>12. CASE Fork \/ LeaderExits \/ DescendantEnds \/ Output \/ Signal
  BY <1>12 DEF Fork, LeaderExits, DescendantEnds, Output, Signal
<1>13. CASE UNCHANGED vars BY <1>13 DEF vars
<1> QED
  BY <1>1, <1>2, <1>3, <1>4, <1>5, <1>6, <1>7, <1>8, <1>9, <1>10, <1>11, <1>12, <1>13
  DEF Next, Wrapper

LEMMA CleanStep == TypeOK /\ RestartInv /\ [Next]_vars => CleanInv'
<1> SUFFICES ASSUME TypeOK, PhaseInv, StopInv, CleanInv, [Next]_vars PROVE CleanInv'
  BY DEF RestartInv
<1>0. opts.restart \in Restarts
  BY OptionsAssumption DEF TypeOK
<1> USE <1>0 DEF PhaseInv, CleanInv, Looping, TypeOK, HelperRuns, GaveUp,
            runVars, procVars, ioVars, timeVars, Exit
<1>1. CASE LockLog \/ Gate BY <1>1 DEF LockLog, Gate
<1>2. CASE WriteStart BY <1>2 DEF WriteStart
<1>3. CASE Spawn BY <1>3 DEF Spawn
<1>4. CASE WriteProcess \/ ReapKilled BY <1>4 DEF WriteProcess, KillGroup, ReapKilled
<1>5. CASE Top
  BY <1>5 DEF Top, BothDone, GroupEmpty, StopInv, WrapperError, Eligible, LogError
<1>6. CASE TakeSignal \/ TimeoutFires \/ TakeFailure \/ KillFires \/ TakeWait \/ TakeCopy
  BY <1>6 DEF TakeSignal, TimeoutFires, TakeFailure, KillFires, TakeWait, TakeCopy, Selecting
<1>7. CASE WriteEnd
  BY <1>7 DEF WriteEnd, Result, Final, Eligible, WrapperError, LogError, Restarts
<1>8. CASE Decide
  BY <1>8 DEF Decide, Result, Final, WrapperError, Restarts
<1>9. CASE Delay BY <1>9 DEF Delay
<1>10. CASE WaitReturns \/ CopyData \/ CopyEnds
  BY <1>10 DEF WaitReturns, CopyData, CopyEnds, Result, Final, WrapperError, LogError, Eligible
<1>11. CASE Fork \/ LeaderExits \/ DescendantEnds \/ Output \/ Signal
  BY <1>11 DEF Fork, LeaderExits, DescendantEnds, Output, Signal, Result, Final, WrapperError, LogError, Eligible
<1>12. CASE UNCHANGED vars
  BY <1>12 DEF vars, Result, Final, WrapperError, LogError, Eligible
<1> QED
  BY <1>1, <1>2, <1>3, <1>4, <1>5, <1>6, <1>7, <1>8, <1>9, <1>10, <1>11, <1>12
  DEF Next, Wrapper

LEMMA RestartInvariant == Spec => []RestartInv
<1>1. Init => RestartInv
  BY DEF Init, RestartInv, PhaseInv, StopInv, CleanInv, Looping, HelperRuns, GaveUp
<1>2. TypeOK /\ RestartInv /\ [Next]_vars => RestartInv'
  BY PhaseStep, StopStep, CleanStep DEF RestartInv
<1> QED BY <1>1, <1>2, TypeCorrect, PTL DEF Spec

\* No attempt begins, and the wrapper does not give up, while a member of the
\* previous command's group runs.
THEOREM RestartIsClean == Spec => []GroupStoppedBeforeRestart
<1>1. RestartInv => GroupStoppedBeforeRestart
  BY DEF RestartInv, CleanInv, GroupStoppedBeforeRestart
<1> QED BY <1>1, RestartInvariant, PTL

\* The wrapper's markers and the copied output are never written at once.
THEOREM MarkersWrittenAlone == Spec => []OneWriter
<1>1. TypeOK /\ RestartInv => OneWriter
  BY DEF RestartInv, PhaseInv, OneWriter, Looping, TypeOK
<1> QED BY <1>1, RestartInvariant, TypeCorrect, PTL

-----------------------------------------------------------------------------
(* The exit code and the signals.                                          *)

\* The copier closes its end of the pipe when all of the output is in the log,
\* or says so; an attempt ends when both goroutines have been heard; and the code
\* 0 is only ever the result of such an attempt.
DoneInv ==
    /\ copier \in {"sent", "taken"} => pipe = "closed" /\ (unread = 0 \/ "readErr" \in seen)
    /\ pc \in {"end", "decide"} => BothDone
    /\ pc = "exit" /\ code = 0 => BothDone
    /\ ZeroMeansDone

LEMMA DoneStep == TypeOK /\ RestartInv /\ DoneInv /\ [Next]_vars => DoneInv'
<1> SUFFICES ASSUME TypeOK, PhaseInv, CleanInv, DoneInv, [Next]_vars PROVE DoneInv'
  BY DEF RestartInv
<1> USE DEF PhaseInv, DoneInv, ZeroMeansDone, BothDone, Looping, TypeOK,
            runVars, procVars, ioVars, timeVars, Exit
<1>1. CASE LockLog \/ Gate BY <1>1 DEF LockLog, Gate
<1>2. CASE WriteStart BY <1>2 DEF WriteStart
<1>3. CASE Spawn BY <1>3 DEF Spawn
<1>4. CASE WriteProcess \/ ReapKilled BY <1>4 DEF WriteProcess, KillGroup, ReapKilled
<1>5. CASE Top BY <1>5 DEF Top
<1>6. CASE TakeSignal \/ TimeoutFires \/ TakeFailure
  BY <1>6 DEF TakeSignal, TimeoutFires, TakeFailure, Selecting, Noted
<1>7. CASE KillFires BY <1>7 DEF KillFires, Selecting, KillGroup
<1>8. CASE TakeWait \/ TakeCopy BY <1>8 DEF TakeWait, TakeCopy, Selecting
<1>9. CASE WriteEnd BY <1>9 DEF WriteEnd
<1>10. CASE Decide
  <2>1. code = Result  BY <1>10 DEF Decide, CleanInv
  <2>2. code = 0 => seen \subseteq {"forced", "readErr"} /\ status = 0
                    /\ ("readErr" \in seen => "forced" \in seen)
    BY <2>1 DEF Result, WrapperError, LogError, Events
  <2> QED BY <1>10, <2>2 DEF Decide
<1>11. CASE Delay BY <1>11 DEF Delay
<1>12. CASE WaitReturns \/ CopyData \/ CopyEnds BY <1>12 DEF WaitReturns, CopyData, CopyEnds
<1>13. CASE Fork \/ LeaderExits \/ DescendantEnds \/ Output \/ Signal
  BY <1>13 DEF Fork, LeaderExits, DescendantEnds, Output, Signal
<1>14. CASE UNCHANGED vars BY <1>14 DEF vars
<1> QED
  BY <1>1, <1>2, <1>3, <1>4, <1>5, <1>6, <1>7, <1>8, <1>9, <1>10, <1>11, <1>12, <1>13, <1>14
  DEF Next, Wrapper

\* Exit code 0 is earned: the command of the last attempt was reaped with status
\* 0, in time and without a signal, and all of its output is in the log unless
\* its group had to be killed.
THEOREM ZeroIsEarned == Spec => []ZeroMeansDone
<1>1. Init => DoneInv
  BY DEF Init, DoneInv, ZeroMeansDone
<1>2. DoneInv => ZeroMeansDone
  BY DEF DoneInv
<1> QED BY <1>1, <1>2, DoneStep, RestartInvariant, TypeCorrect, PTL DEF Spec

\* A signal is in the channel until something has taken it that makes the run end
\* with this attempt; an attempt is begun only with an empty channel.
SignalInv ==
    /\ sent > 0 /\ pc # "exit" =>
         sig > 0 \/ ("interrupted" \in seen /\ pc \in {"top", "select", "end", "decide"})
    /\ sent = 0 \/ pc \in {"start", "spawn"} => late = 0
    /\ late <= 1

LEMMA SignalStep == TypeOK /\ SignalInv /\ [Next]_vars => SignalInv'
<1> SUFFICES ASSUME TypeOK, SignalInv, [Next]_vars PROVE SignalInv'
  OBVIOUS
<1> USE SignalAssumption DEF SignalInv, TypeOK, PCs, runVars, procVars, ioVars, timeVars, Exit
<1>1. CASE LockLog \/ Gate BY <1>1 DEF LockLog, Gate
<1>2. CASE WriteStart BY <1>2 DEF WriteStart
<1>3. CASE Spawn BY <1>3 DEF Spawn
<1>4. CASE WriteProcess \/ ReapKilled BY <1>4 DEF WriteProcess, KillGroup, ReapKilled
<1>5. CASE Top BY <1>5 DEF Top
<1>6. CASE TakeSignal \/ TimeoutFires \/ TakeFailure
  BY <1>6 DEF TakeSignal, TimeoutFires, TakeFailure, Selecting, Noted
<1>7. CASE KillFires BY <1>7 DEF KillFires, Selecting
<1>8. CASE TakeWait \/ TakeCopy BY <1>8 DEF TakeWait, TakeCopy, Selecting
<1>9. CASE WriteEnd BY <1>9 DEF WriteEnd
<1>10. CASE Decide BY <1>10 DEF Decide, Final
<1>11. CASE Delay BY <1>11 DEF Delay
<1>12. CASE WaitReturns \/ CopyData \/ CopyEnds BY <1>12 DEF WaitReturns, CopyData, CopyEnds
<1>13. CASE Fork \/ LeaderExits \/ DescendantEnds \/ Output \/ Signal
  BY <1>13 DEF Fork, LeaderExits, DescendantEnds, Output, Signal
<1>14. CASE UNCHANGED vars BY <1>14 DEF vars
<1> QED
  BY <1>1, <1>2, <1>3, <1>4, <1>5, <1>6, <1>7, <1>8, <1>9, <1>10, <1>11, <1>12, <1>13, <1>14
  DEF Next, Wrapper

\* However many signals are sent and whenever they come, at most the one command
\* that was about to start is started after the first of them.
THEOREM SignalsPreventAttempts == Spec => []SignalPreventsAttempts
<1>1. Init => SignalInv
  BY DEF Init, SignalInv
<1>2. SignalInv => SignalPreventsAttempts
  BY DEF SignalInv, SignalPreventsAttempts
<1> QED BY <1>1, <1>2, SignalStep, TypeCorrect, PTL DEF Spec
=============================================================================
