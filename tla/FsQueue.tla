------------------------------- MODULE FsQueue -------------------------------
(***************************************************************************)
(* `edc watch fs': the memory queue between the driver (fanotify, inotify  *)
(* or FSEvents) and the watch loop.  fsWatchBuffered starts a goroutine    *)
(* that keeps reading from the driver while the loop is blocked by a slow  *)
(* terminal.  When the queue is full it drops new events until the queue   *)
(* is down to Resume, and adds what it dropped to the loss counters.       *)
(*                                                                         *)
(* Events are numbered in the order in which the driver saw them.          *)
(***************************************************************************)
EXTENDS Integers, Sequences

CONSTANTS
    Limit, Resume,   \* fsWatchQueueLimit, fsWatchQueueResume
    Handoff,         \* capacity of the channel to the watch loop
    DriverCap,       \* capacity of the driver's channel
    MaxEvents        \* bound on the events of a behaviour

ASSUME LimitAssumption == Limit \in Nat /\ Resume \in Nat /\ Resume < Limit
ASSUME CapAssumption   == Handoff \in Nat \ {0} /\ DriverCap \in Nat \ {0}
ASSUME EventAssumption == MaxEvents \in Nat

VARIABLES
    made,       \* the number of events the driver has sent or given up
    src,        \* the driver's channel
    driver,     \* "run", "failed" (it has an error to report) or "closed"
    queue, out, \* the queue and the channel to the loop
    in,         \* what the queue goroutine reads from: the driver, or nil
    dropping,   \* new events are dropped: "yes" or "no"
    dropped,    \* how many were dropped since the last report
    loss,       \* fsWatchLoss.dropped
    qpc,        \* where the queue goroutine is
    closing,    \* how far source.close has come
    taken       \* history: what the watch loop has received

driverVars == <<made, src, driver>>
queueVars  == <<queue, out, in, dropping, dropped, loss, qpc>>
qvars      == <<driverVars, queueVars, closing, taken>>

QueueTypeOK ==
    /\ made \in 0 .. MaxEvents
    /\ src \in Seq(Nat) /\ Len(src) <= DriverCap
    /\ driver \in {"run", "failed", "closed"}
    /\ queue \in Seq(Nat)
    /\ out \in Seq(Nat) /\ Len(out) <= Handoff
    /\ in \in {"driver", "nil"} /\ dropping \in {"yes", "no"}
    /\ dropped \in Nat /\ loss \in Nat
    /\ qpc \in {"hand", "select", "finished"}
    /\ closing \in {"no", "driver", "queue", "closed"}
    /\ taken \in Seq(Nat)

QueueInit ==
    /\ made = 0 /\ src = <<>> /\ driver = "run"
    /\ queue = <<>> /\ out = <<>> /\ in = "driver"
    /\ dropping = "no" /\ dropped = 0 /\ loss = 0
    /\ qpc = "hand" /\ closing = "no" /\ taken = <<>>

-----------------------------------------------------------------------------
(* The driver goroutine                                                    *)

\* An event goes into the driver's channel
DriverEmit ==
    /\ driver = "run" /\ made < MaxEvents /\ Len(src) < DriverCap
    /\ made' = made + 1
    /\ src' = Append(src, made + 1)
    /\ UNCHANGED <<driver, queueVars, closing, taken>>

\* fanotify gives up the events whose directory it cannot find, when too many wait
DriverLose ==
    /\ driver = "run"
    /\ \E n \in 1 .. MaxEvents - made : made' = made + n /\ loss' = loss + n
    /\ UNCHANGED <<src, driver, queue, out, in, dropping, dropped, qpc, closing, taken>>

\* The root was removed, a watch could not be added: the driver reports one
\* error and ends
DriverFail ==
    /\ driver = "run"
    /\ driver' = "failed"
    /\ UNCHANGED <<made, src, queueVars, closing, taken>>

\* The driver ends without an error: its watcher or its done channel was closed
DriverEnd ==
    /\ driver = "run"
    /\ driver' = "closed"
    /\ UNCHANGED <<made, src, queueVars, closing, taken>>

-----------------------------------------------------------------------------
(* The queue goroutine                                                     *)

\* The queue has drained far enough to accept events again
Drained(rest) == dropping = "yes" /\ Len(rest) <= Resume

PopWithoutResume(rest) ==
    /\ queue' = rest
    /\ UNCHANGED <<dropping, dropped, loss>>
PopForgetting(rest) ==
    /\ queue' = rest
    /\ dropping' = IF Drained(rest) THEN "no" ELSE dropping
    /\ dropped' = IF Drained(rest) THEN 0 ELSE dropped
    /\ UNCHANGED loss
\* pop: at Resume the queue accepts events again and reports what it dropped
Pop(rest) ==
    /\ queue' = rest
    /\ dropping' = IF Drained(rest) THEN "no" ELSE dropping
    /\ loss' = IF Drained(rest) THEN loss + dropped ELSE loss
    /\ dropped' = IF Drained(rest) THEN 0 ELSE dropped

SendUnbounded ==
    /\ queue # <<>>
    /\ out' = Append(out, Head(queue))
    /\ Pop(Tail(queue))
    /\ qpc' = "hand"
    /\ UNCHANGED <<in, driverVars, closing, taken>>
\* The first event of the queue goes to the loop, where there is room
Send ==
    /\ queue # <<>> /\ Len(out) < Handoff
    /\ out' = Append(out, Head(queue))
    /\ Pop(Tail(queue))
    /\ qpc' = "hand"
    /\ UNCHANGED <<in, driverVars, closing, taken>>

HandOver == qpc = "hand" /\ Send

\* The deferred functions: the rest of the count is reported, out is closed
Finish ==
    /\ qpc' = "finished"
    /\ loss' = loss + dropped
    /\ dropped' = 0
    /\ UNCHANGED <<queue, out, in, dropping, driverVars, closing, taken>>

HandedOverEarly ==
    /\ qpc = "hand"
    /\ queue = <<>> \/ Len(out) = Handoff
    /\ IF in = "nil"
       THEN Finish
       ELSE qpc' = "select" /\ UNCHANGED <<queue, out, in, dropping, dropped, loss,
                                           driverVars, closing, taken>>
\* Nothing more can be handed over now: wait, or end when the driver has ended
HandedOver ==
    /\ qpc = "hand"
    /\ queue = <<>> \/ Len(out) = Handoff
    /\ IF in = "nil" /\ queue = <<>>
       THEN Finish
       ELSE qpc' = "select" /\ UNCHANGED <<queue, out, in, dropping, dropped, loss,
                                           driverVars, closing, taken>>

SelectSend == qpc = "select" /\ Send

\* room in the queue, and not waiting for it to drain
Accept(n) == dropping = "no" /\ n < Limit

SelectEventBypassing ==
    /\ qpc = "select" /\ in = "driver" /\ src # <<>>
    /\ src' = Tail(src)
    /\ IF Len(out) < Handoff
       THEN out' = Append(out, Head(src)) /\ UNCHANGED <<queue, dropping, dropped>>
       ELSE IF Accept(Len(queue))
       THEN queue' = Append(queue, Head(src)) /\ UNCHANGED <<out, dropping, dropped>>
       ELSE dropping' = "yes" /\ dropped' = dropped + 1 /\ UNCHANGED <<out, queue>>
    /\ qpc' = "hand"
    /\ UNCHANGED <<in, loss, made, driver, closing, taken>>
\* An event of the driver is queued, or dropped
SelectEvent ==
    /\ qpc = "select" /\ in = "driver" /\ src # <<>>
    /\ src' = Tail(src)
    /\ queue' = IF Accept(Len(queue)) THEN Append(queue, Head(src)) ELSE queue
    /\ dropping' = IF Accept(Len(queue)) THEN dropping ELSE "yes"
    /\ dropped' = IF Accept(Len(queue)) THEN dropped ELSE dropped + 1
    /\ qpc' = "hand"
    /\ UNCHANGED <<out, in, loss, made, driver, closing, taken>>

SelectDriverClosed ==
    /\ qpc = "select" /\ in = "driver" /\ src = <<>> /\ driver # "run"
    /\ in' = "nil"
    /\ qpc' = "hand"
    /\ UNCHANGED <<queue, out, dropping, dropped, loss, driverVars, closing, taken>>

SelectDone == qpc = "select" /\ closing = "queue" /\ Finish

-----------------------------------------------------------------------------
(* The other end: the watch loop receives and closes                       *)

Receive ==
    /\ out # <<>>
    /\ taken' = Append(taken, Head(out))
    /\ out' = Tail(out)
    /\ UNCHANGED <<driverVars, queue, in, dropping, dropped, loss, qpc, closing>>

\* source.close: first the driver, then the queue
CloseDriver ==
    /\ closing = "no"
    /\ closing' = "driver"
    /\ UNCHANGED <<driverVars, queueVars, taken>>

DriverClosed ==
    /\ closing = "driver" /\ driver # "run"
    /\ closing' = "queue"
    /\ UNCHANGED <<driverVars, queueVars, taken>>

QueueClosed ==
    /\ closing = "queue" /\ qpc = "finished"
    /\ closing' = "closed"
    /\ UNCHANGED <<driverVars, queueVars, taken>>

QueueStep == HandOver \/ HandedOver \/ SelectSend \/ SelectEvent \/ SelectDriverClosed \/ SelectDone
CloseStep == DriverClosed \/ QueueClosed

QueueNext ==
    \/ DriverEmit \/ DriverLose \/ DriverFail \/ DriverEnd
    \/ QueueStep
    \/ Receive \/ CloseDriver \/ CloseStep

QueueSpec == QueueInit /\ [][QueueNext]_qvars

-----------------------------------------------------------------------------
(* Properties                                                              *)

\* The queue never holds more than Limit events, however the loop stalls.
QueueBounded == Len(queue) <= Limit

Lost == dropped + loss

\* Every event the driver saw is with the loop, on its way to it, or counted
\* as lost, once: nothing disappears and nothing is counted twice.
EveryEventCounted ==
    made = Len(taken) + Len(out) + Len(queue) + Len(src) + Lost

Increasing(s) == \A i, j \in DOMAIN s : i < j => s[i] < s[j]
Before(s, t)  == \A i \in DOMAIN s, j \in DOMAIN t : s[i] < t[j]

\* The loop receives the events in the driver's order.
InOrder == Increasing(taken)

\* The queue drops only while it is above Resume, and then has something to
\* report: between two reports it does not flip for every event.
DropsUntilResume ==
    /\ dropping = "yes" /\ qpc # "finished" => Len(queue) > Resume /\ dropped > 0
    /\ dropping = "no" => dropped = 0
=============================================================================
