------------------------------- MODULE FsWatch -------------------------------
(***************************************************************************)
(* `edc watch fs': streamFSWatch, the loop that prints events and runs the *)
(* command of each rule, on top of the queue of FsQueue.                   *)
(*                                                                         *)
(* A matching event arms its rule; the command starts when the rule's      *)
(* debounce has passed and no other command runs.  One worker goroutine    *)
(* runs it and sends the result over a channel with room for one.          *)
(* Debounce periods are left open: any pending rule may be the next one.   *)
(***************************************************************************)
EXTENDS FsQueue

CONSTANTS
    Rules,          \* the rules of the configuration
    Matches,        \* Matches[e]: the rules that event e matches
    NoEvent,        \* no event is pending
    WriteFails      \* the output may break

ASSUME RuleAssumption  == Matches \in [1 .. MaxEvents -> SUBSET Rules]
ASSUME NoEventAssumption == NoEvent \notin 1 .. MaxEvents
ASSUME WriteAssumption == WriteFails \in BOOLEAN

None == "none"

VARIABLES
    lpc,        \* "loop", "closing", "summary", "wait" (deferred), "ended"
    pending,    \* pending[r]: the event that armed rule r, or NoEvent
    running,    \* the loop waits for the result of a command
    worker,     \* the rule whose command the worker runs, or None
    completed,  \* the channel with the worker's result
    stopping,   \* no new event and no new command
    cancelled,  \* ctx: a signal came or the duration is over
    killed,     \* actionCtx was cancelled
    failure,    \* why the watch stopped: None, "closed" or "driver"
    exit,       \* exit code, -1 before the end
    actions,    \* summary.Actions
    reported,   \* summary.Dropped, -1 before the summary
    matched,    \* ghost: the last received event that matches the rule
    ran         \* ghost: the event with which the rule's command last started

loopVars == <<lpc, pending, running, worker, completed, stopping, cancelled, killed,
              failure, exit, actions, reported, matched, ran>>
vars == <<qvars, loopVars>>

MaybeEvent == 1 .. MaxEvents \cup {NoEvent}

TypeOK ==
    /\ QueueTypeOK
    /\ lpc \in {"loop", "closing", "summary", "wait", "ended"}
    /\ pending \in [Rules -> MaybeEvent]
    /\ matched \in [Rules -> MaybeEvent] /\ ran \in [Rules -> MaybeEvent]
    /\ running \in BOOLEAN /\ worker \in Rules \cup {None}
    /\ completed \in Seq(Rules) /\ Len(completed) <= 1
    /\ stopping \in BOOLEAN /\ cancelled \in BOOLEAN /\ killed \in BOOLEAN
    /\ failure \in {None, "closed", "driver"}
    /\ exit \in {-1, 0, 1, 2} /\ actions \in Nat /\ reported \in {-1} \cup Nat

Init ==
    /\ QueueInit
    /\ lpc = "loop"
    /\ pending = [r \in Rules |-> NoEvent]
    /\ matched = [r \in Rules |-> NoEvent] /\ ran = [r \in Rules |-> NoEvent]
    /\ running = FALSE /\ worker = None /\ completed = <<>>
    /\ stopping = FALSE /\ cancelled = FALSE /\ killed = FALSE
    /\ failure = None /\ exit = -1 /\ actions = 0 /\ reported = -1

-----------------------------------------------------------------------------
Looping == lpc = "loop"

\* A write fails: the loop returns; the deferred functions cancel the command
\* and wait for the worker
Return(code) ==
    /\ lpc' = "wait"
    /\ exit' = code
    /\ killed' = TRUE

\* The channels that a stopping loop no longer looks at are nil
Stop ==
    /\ stopping' = TRUE
    /\ killed' = TRUE

\* A signal, or the duration is over
Cancel ==
    /\ lpc # "ended" /\ ~cancelled
    /\ cancelled' = TRUE
    /\ killed' = TRUE
    /\ UNCHANGED <<qvars, lpc, pending, running, worker, completed, stopping, failure,
                   exit, actions, reported, matched, ran>>

NoticeCancel ==
    /\ Looping /\ cancelled /\ ~stopping
    /\ Stop
    /\ UNCHANGED <<qvars, lpc, pending, running, worker, completed, cancelled, failure,
                   exit, actions, reported, matched, ran>>

ArmedOnce(e) == [r \in Rules |-> IF r \in Matches[e] /\ ~running THEN e ELSE pending[r]]
\* The event arms every rule it matches, also one that is armed or running
Armed(e) == [r \in Rules |-> IF r \in Matches[e] THEN e ELSE pending[r]]

TakeEvent ==
    LET e == Head(out) IN
    /\ Looping /\ ~stopping
    /\ Receive
    /\ matched' = [r \in Rules |-> IF r \in Matches[e] THEN e ELSE matched[r]]
    /\ \/ /\ pending' = Armed(e)
          /\ UNCHANGED <<lpc, exit, killed>>
       \/ /\ WriteFails
          /\ Return(2)
          /\ UNCHANGED pending
    /\ UNCHANGED <<running, worker, completed, stopping, cancelled, failure,
                   actions, reported, ran>>

\* The queue closed its channel; the driver's error, if there is one, tells why
EventsClosed ==
    /\ Looping /\ ~stopping
    /\ out = <<>> /\ qpc = "finished"
    /\ failure' = IF driver = "failed" THEN "driver" ELSE "closed"
    /\ Stop
    /\ UNCHANGED <<qvars, lpc, pending, running, worker, completed, cancelled,
                   exit, actions, reported, matched, ran>>

TakeFailure ==
    /\ Looping /\ ~stopping
    /\ driver = "failed"
    /\ failure' = "driver"
    /\ Stop
    /\ UNCHANGED <<qvars, lpc, pending, running, worker, completed, cancelled,
                   exit, actions, reported, matched, ran>>

\* The debounce of rule r has passed and nothing runs
StartAction(r) ==
    /\ Looping /\ ~stopping /\ ~cancelled /\ ~running
    /\ pending[r] # NoEvent
    /\ pending' = [pending EXCEPT ![r] = NoEvent]
    /\ running' = TRUE
    /\ \/ /\ worker' = r
          /\ ran' = [ran EXCEPT ![r] = pending[r]]
          /\ UNCHANGED <<lpc, exit, killed>>
       \/ /\ WriteFails
          /\ Return(2)
          /\ UNCHANGED <<worker, ran>>
    /\ UNCHANGED <<qvars, completed, stopping, cancelled, failure, actions, reported, matched>>

ResultRoomNone == FALSE
\* make(chan fsWatchRecord, 1): the result finds room, read or not
ResultRoom == Len(completed) < 1

\* executeFSWatchAction ends: the command exited, timed out or was killed
WorkerEnds ==
    /\ worker # None
    /\ ResultRoom \/ (Looping /\ running)
    /\ completed' = Append(completed, worker)
    /\ worker' = None
    /\ UNCHANGED <<qvars, lpc, pending, running, stopping, cancelled, killed, failure,
                   exit, actions, reported, matched, ran>>

TakeResultStillRunning ==
    /\ Looping /\ completed # <<>>
    /\ completed' = Tail(completed)
    /\ actions' = actions + 1
    /\ UNCHANGED <<qvars, lpc, exit, killed, running, pending, worker, stopping, cancelled,
                   failure, reported, matched, ran>>
\* An action_result is printed
TakeResult ==
    /\ Looping /\ completed # <<>>
    /\ completed' = Tail(completed)
    /\ running' = FALSE
    /\ actions' = actions + 1
    /\ \/ UNCHANGED <<lpc, exit, killed>>
       \/ WriteFails /\ Return(2)
    /\ UNCHANGED <<qvars, pending, worker, stopping, cancelled, failure, reported, matched, ran>>

\* The ready record, a flush of the collected records or the grouped events of
\* a window cannot be written
OutputFails ==
    /\ Looping /\ WriteFails
    /\ Return(2)
    /\ UNCHANGED <<qvars, pending, running, worker, completed, stopping, cancelled, failure,
                   actions, reported, matched, ran>>

\* Stopping, and the last command is done: close the source before the summary
LeaveLoop ==
    /\ Looping /\ stopping /\ ~running
    /\ lpc' = "closing"
    /\ CloseDriver
    /\ UNCHANGED <<pending, running, worker, completed, stopping, cancelled, killed, failure,
                   exit, actions, reported, matched, ran>>

SummaryBeforeClose ==
    /\ lpc = "closing"
    /\ lpc' = "summary"
    /\ reported' = loss
    /\ UNCHANGED <<qvars, pending, running, worker, completed, stopping, cancelled, killed,
                   failure, exit, actions, matched, ran>>
\* loss.counts, after source.close has returned
CountLoss ==
    /\ lpc = "closing" /\ closing = "closed"
    /\ lpc' = "summary"
    /\ reported' = loss
    /\ UNCHANGED <<qvars, pending, running, worker, completed, stopping, cancelled, killed,
                   failure, exit, actions, matched, ran>>

\* The exit code: the output, the driver, a failed command
Summary ==
    /\ lpc = "summary"
    /\ \E code \in {0, 1, 2} :
         /\ code = 2 => WriteFails
         /\ failure # None => code # 0
         /\ failure = None /\ actions = 0 => code # 1
         /\ Return(code)
    /\ UNCHANGED <<qvars, pending, running, worker, completed, stopping, cancelled,
                   failure, actions, reported, matched, ran>>

\* The deferred functions: workers.Wait, then source.close in runFSWatch
CloseAtExit ==
    /\ lpc = "wait" /\ worker = None
    /\ CloseDriver
    /\ UNCHANGED loopVars

End ==
    /\ lpc = "wait" /\ worker = None /\ closing = "closed"
    /\ lpc' = "ended"
    /\ UNCHANGED <<qvars, pending, running, worker, completed, stopping, cancelled, killed,
                   failure, exit, actions, reported, matched, ran>>

LoopStep ==
    \/ NoticeCancel \/ TakeEvent \/ EventsClosed \/ TakeFailure
    \/ \E r \in Rules : StartAction(r)
    \/ TakeResult \/ LeaveLoop \/ CountLoss \/ Summary \/ CloseAtExit \/ End

DriverStep == DriverEmit \/ DriverLose \/ DriverFail \/ DriverEnd

Next ==
    \/ LoopStep \/ OutputFails \/ WorkerEnds \/ Cancel
    \/ (DriverStep \/ QueueStep \/ CloseStep) /\ UNCHANGED loopVars

Spec == Init /\ [][Next]_vars

\* Goroutines run; a command ends, at the latest when its timeout or the
\* cancelled context kills it; a driver whose done channel is closed ends.
\* Nobody has to make events or to press Ctrl-C, and no write has to fail.  The
\* select takes a result and starts the next command in spite of a flood of
\* events.
Fairness ==
    /\ WF_vars(LoopStep)
    /\ WF_vars(TakeResult) /\ \A r \in Rules : SF_vars(StartAction(r))
    /\ WF_vars(WorkerEnds)
    /\ WF_vars(QueueStep /\ UNCHANGED loopVars)
    /\ WF_vars(CloseStep /\ UNCHANGED loopVars)
    /\ WF_vars(closing # "no" /\ DriverEnd /\ UNCHANGED loopVars)

FairSpec == Spec /\ Fairness

-----------------------------------------------------------------------------
(* Properties                                                              *)

\* No trigger is lost: the last event that matched a rule is the one its command
\* last started with, or the rule is still armed with it, also when the event
\* came while a command was running.
NoTriggerLost ==
    lpc = "loop" => \A r \in Rules : pending[r] = matched[r] \/ (pending[r] = NoEvent /\ ran[r] = matched[r])

\* The summary's number of dropped events is the number of events that were
\* dropped: nothing is dropped or reported after it was read.
SummaryCountsLoss ==
    reported # -1 => reported = Lost

\* "source closed" is reported only after every event that was not dropped has
\* been received.
ClosedMeansDrained ==
    failure = "closed" => made = Len(taken) + Lost

\* A watch that stops ends, whatever the driver, the queue and the command are
\* doing and even when the output is broken.
StopEnds == (stopping \/ lpc # "loop") ~> lpc = "ended"

\* An armed rule runs its command, unless the watch stops first.
ArmedRuns == \A r \in Rules : (pending[r] # NoEvent) ~> (pending[r] = NoEvent \/ lpc # "loop" \/ stopping \/ cancelled)
=============================================================================
