---------------------------- MODULE FsWatchProofs ----------------------------
(***************************************************************************)
(* Theorems about `edc watch fs'.  First its event queue, for every Limit, *)
(* Resume and channel capacity and any number of events; the watch loop    *)
(* implements the queue's specification, so that they hold of the whole    *)
(* watch.  Then the loop itself, for any rules.                            *)
(***************************************************************************)
EXTENDS FsWatch, SequenceTheorems, TLAPS

-----------------------------------------------------------------------------
(* The queue: its type                                                     *)

\* What Append, Head and Tail do to a sequence of numbers.
LEMMA TailFacts ==
    ASSUME NEW s \in Seq(Nat), s # <<>>
    PROVE  /\ Len(s) \in Nat \ {0}
           /\ Head(s) = s[1] /\ Head(s) \in Nat
           /\ Tail(s) \in Seq(Nat)
           /\ Len(Tail(s)) = Len(s) - 1
           /\ DOMAIN Tail(s) = 1 .. (Len(s) - 1)
           /\ \A i \in 1 .. (Len(s) - 1) : Tail(s)[i] = s[i + 1] /\ i + 1 \in DOMAIN s
           /\ 1 \in DOMAIN s
  OBVIOUS

LEMMA AppendFacts ==
    ASSUME NEW s \in Seq(Nat), NEW x \in Nat
    PROVE  /\ Append(s, x) \in Seq(Nat)
           /\ Len(Append(s, x)) = Len(s) + 1
           /\ Len(s) \in Nat
           /\ DOMAIN Append(s, x) = 1 .. (Len(s) + 1)
           /\ DOMAIN s = 1 .. Len(s)
           /\ Append(s, x)[Len(s) + 1] = x
           /\ \A i \in 1 .. Len(s) : Append(s, x)[i] = s[i]
  OBVIOUS

\* The type invariant of the queue.
THEOREM QueueTypeCorrect == QueueSpec => []QueueTypeOK
<1>1. QueueInit => QueueTypeOK
  BY LimitAssumption, CapAssumption, EventAssumption DEF QueueInit, QueueTypeOK
<1>2. QueueTypeOK /\ [QueueNext]_qvars => QueueTypeOK'
  <2> SUFFICES ASSUME QueueTypeOK, [QueueNext]_qvars PROVE QueueTypeOK'
    OBVIOUS
  <2> USE LimitAssumption, CapAssumption, EventAssumption
  <2>1. CASE DriverEmit
    BY <2>1, AppendFacts DEF DriverEmit, QueueTypeOK, queueVars
  <2>12. CASE DriverLose
    BY <2>12 DEF DriverLose, QueueTypeOK
  <2>2. CASE DriverFail
    BY <2>2 DEF DriverFail, QueueTypeOK, queueVars
  <2>3. CASE DriverEnd
    BY <2>3 DEF DriverEnd, QueueTypeOK, queueVars
  <2>4. CASE Send
    <3>1. Tail(queue) \in Seq(Nat) /\ Head(queue) \in Nat
      BY <2>4, TailFacts DEF Send, QueueTypeOK
    <3>2. out' \in Seq(Nat) /\ Len(out') <= Handoff
      BY <2>4, <3>1, AppendFacts DEF Send, QueueTypeOK
    <3>3. dropping' \in {"yes", "no"} /\ dropped' \in Nat /\ loss' \in Nat /\ queue' \in Seq(Nat)
      BY <2>4, <3>1 DEF Send, Pop, Drained, QueueTypeOK
    <3> QED BY <2>4, <3>2, <3>3 DEF Send, QueueTypeOK, driverVars
  <2>5. CASE HandedOver
    BY <2>5 DEF HandedOver, Finish, QueueTypeOK, driverVars
  <2>6. CASE SelectEvent
    <3>1. Tail(src) \in Seq(Nat) /\ Head(src) \in Nat /\ Len(Tail(src)) <= DriverCap
      BY <2>6, TailFacts DEF SelectEvent, QueueTypeOK
    <3>2. queue' \in Seq(Nat) /\ dropping' \in {"yes", "no"} /\ dropped' \in Nat
      BY <2>6, <3>1, AppendFacts DEF SelectEvent, Accept, QueueTypeOK
    <3> QED BY <2>6, <3>1, <3>2 DEF SelectEvent, QueueTypeOK
  <2>7. CASE SelectDriverClosed
    BY <2>7 DEF SelectDriverClosed, QueueTypeOK, driverVars
  <2>8. CASE SelectDone
    BY <2>8 DEF SelectDone, Finish, QueueTypeOK, driverVars
  <2>9. CASE Receive
    <3>1. Tail(out) \in Seq(Nat) /\ Head(out) \in Nat /\ Len(Tail(out)) <= Handoff
      BY <2>9, TailFacts DEF Receive, QueueTypeOK
    <3> QED BY <2>9, <3>1, AppendFacts DEF Receive, QueueTypeOK, driverVars
  <2>10. CASE CloseDriver \/ DriverClosed \/ QueueClosed
    BY <2>10 DEF CloseDriver, DriverClosed, QueueClosed, QueueTypeOK, driverVars, queueVars
  <2>11. CASE UNCHANGED qvars
    BY <2>11 DEF qvars, QueueTypeOK, driverVars, queueVars
  <2> QED
    BY <2>1, <2>2, <2>3, <2>4, <2>5, <2>6, <2>7, <2>8, <2>9, <2>10, <2>11, <2>12
    DEF QueueNext, QueueStep, CloseStep, HandOver, SelectSend
<1> QED BY <1>1, <1>2, PTL DEF QueueSpec

-----------------------------------------------------------------------------
(* The bound, the accounting and the hysteresis                            *)

CountInv == QueueTypeOK /\ QueueBounded /\ EveryEventCounted /\ DropsUntilResume

LEMMA CountInvStep == CountInv /\ QueueTypeOK' /\ [QueueNext]_qvars => CountInv'
<1> SUFFICES ASSUME CountInv, QueueTypeOK', [QueueNext]_qvars PROVE CountInv'
  OBVIOUS
<1> USE LimitAssumption, CapAssumption DEF CountInv
<1>0. /\ Len(taken) \in Nat /\ Len(out) \in Nat /\ Len(queue) \in Nat /\ Len(src) \in Nat
      /\ made \in Nat /\ dropped \in Nat /\ loss \in Nat
  BY EventAssumption DEF QueueTypeOK
<1>1. CASE DriverEmit
  <2>1. Len(src') = Len(src) + 1
    BY <1>1, AppendFacts, <1>0 DEF DriverEmit, QueueTypeOK
  <2> QED BY <1>0, <1>1, <2>1
          DEF DriverEmit, QueueBounded, EveryEventCounted, DropsUntilResume, Lost, queueVars
<1>11. CASE DriverLose
  <2>1. PICK n \in 1 .. MaxEvents - made : made' = made + n /\ loss' = loss + n
    BY <1>11 DEF DriverLose
  <2>2. UNCHANGED <<src, queue, out, dropping, dropped, qpc, taken>>
    BY <1>11 DEF DriverLose
  <2> QED BY <1>0, <2>1, <2>2, EventAssumption
          DEF QueueBounded, EveryEventCounted, DropsUntilResume, Lost
<1>2. CASE DriverFail \/ DriverEnd
  BY <1>2 DEF DriverFail, DriverEnd, QueueBounded, EveryEventCounted, DropsUntilResume, Lost, queueVars
<1>3. CASE Send /\ qpc # "finished"
  <2>1. Len(queue') = Len(queue) - 1 /\ Head(queue) \in Nat /\ Tail(queue) = queue'
    BY <1>3, TailFacts DEF Send, Pop, QueueTypeOK
  <2>2. Len(out') = Len(out) + 1
    BY <1>3, <2>1, AppendFacts DEF Send, QueueTypeOK
  <2>3. QueueBounded'
    BY <2>1, <1>0 DEF QueueBounded
  <2>4. dropped' + loss' = dropped + loss
    BY <1>3, <1>0 DEF Send, Pop, Drained
  <2>5. EveryEventCounted'
    BY <1>3, <1>0, <2>1, <2>2, <2>4 DEF Send, EveryEventCounted, Lost, driverVars
  <2>6. DropsUntilResume'
    BY <1>3, <1>0, <2>1 DEF Send, Pop, Drained, DropsUntilResume, QueueTypeOK
  <2> QED BY <2>3, <2>5, <2>6
<1>4. CASE Finish
  BY <1>4, <1>0 DEF Finish, QueueBounded, EveryEventCounted, DropsUntilResume, Lost, driverVars
<1>5. CASE HandedOver /\ ~Finish
  BY <1>5, <1>0 DEF HandedOver, QueueBounded, EveryEventCounted, DropsUntilResume, Lost, driverVars
<1>6. CASE SelectEvent
  <2>1. Len(src') = Len(src) - 1 /\ Head(src) \in Nat
    BY <1>6, TailFacts DEF SelectEvent, QueueTypeOK
  <2>2. CASE Accept(Len(queue))
    <3>1. Len(queue') = Len(queue) + 1
      BY <1>6, <2>1, <2>2, AppendFacts DEF SelectEvent, Accept, QueueTypeOK
    <3> QED BY <1>6, <2>1, <2>2, <3>1, <1>0
            DEF SelectEvent, Accept, QueueBounded, EveryEventCounted, DropsUntilResume, Lost, QueueTypeOK
  <2>3. CASE ~Accept(Len(queue))
    <3>1. queue' = queue /\ dropping' = "yes" /\ dropped' = dropped + 1
      BY <1>6, <2>3 DEF SelectEvent
    <3>2. QueueBounded'
      BY <3>1 DEF QueueBounded
    <3>6. out' = out /\ taken' = taken /\ made' = made /\ loss' = loss
      BY <1>6 DEF SelectEvent
    <3>3. EveryEventCounted'
      BY <2>1, <3>1, <3>6, <1>0 DEF EveryEventCounted, Lost
    <3>4. Len(queue) > Resume
      BY <1>6, <2>3, <1>0 DEF SelectEvent, Accept, DropsUntilResume, QueueTypeOK
    <3>5. DropsUntilResume'
      BY <3>1, <3>4, <1>0 DEF DropsUntilResume
    <3> QED BY <3>2, <3>3, <3>5
  <2> QED BY <2>2, <2>3
<1>7. CASE SelectDriverClosed
  BY <1>7, <1>0 DEF SelectDriverClosed, QueueBounded, EveryEventCounted, DropsUntilResume, Lost, driverVars
<1>8. CASE Receive
  <2>1. Len(out') = Len(out) - 1 /\ Len(taken') = Len(taken) + 1
    BY <1>8, TailFacts, AppendFacts DEF Receive, QueueTypeOK
  <2> QED BY <1>8, <2>1, <1>0
          DEF Receive, QueueBounded, EveryEventCounted, DropsUntilResume, Lost, driverVars
<1>9. CASE CloseDriver \/ DriverClosed \/ QueueClosed
  BY <1>9 DEF CloseDriver, DriverClosed, QueueClosed, QueueBounded, EveryEventCounted,
              DropsUntilResume, Lost, driverVars, queueVars
<1>10. CASE UNCHANGED qvars
  BY <1>10 DEF qvars, QueueBounded, EveryEventCounted, DropsUntilResume, Lost, driverVars, queueVars
<1> QED
  BY <1>1, <1>2, <1>3, <1>4, <1>5, <1>6, <1>7, <1>8, <1>9, <1>10, <1>11
  DEF QueueNext, QueueStep, CloseStep, HandOver, SelectSend, SelectDone

\* However the loop stalls, the queue holds at most Limit events; every event
\* is delivered, on its way or counted as lost; and dropping stops at Resume.
THEOREM QueueAccounting == QueueSpec => [](QueueBounded /\ EveryEventCounted /\ DropsUntilResume)
<1>1. QueueInit => CountInv
  <2>1. QueueInit => QueueTypeOK
    BY LimitAssumption, CapAssumption, EventAssumption DEF QueueInit, QueueTypeOK
  <2> QED BY <2>1, LimitAssumption
          DEF CountInv, QueueInit, QueueBounded, EveryEventCounted, DropsUntilResume, Lost
<1>2. QueueSpec => []QueueTypeOK
  BY QueueTypeCorrect
<1>3. CountInv => QueueBounded /\ EveryEventCounted /\ DropsUntilResume
  BY DEF CountInv
<1> QED BY <1>1, <1>2, <1>3, CountInvStep, PTL DEF QueueSpec

-----------------------------------------------------------------------------
(* The order                                                               *)

\* Every element of s is at most n
UpTo(s, n) == \A i \in DOMAIN s : s[i] <= n

\* Each of the four places an event passes through is in order, everything in
\* a later place is newer, and the driver's next event is newer than them all.
OrderInv ==
    /\ QueueTypeOK
    /\ Increasing(taken) /\ Increasing(out) /\ Increasing(queue) /\ Increasing(src)
    /\ Before(taken, out) /\ Before(taken, queue) /\ Before(taken, src)
    /\ Before(out, queue) /\ Before(out, src) /\ Before(queue, src)
    /\ UpTo(taken, made) /\ UpTo(out, made) /\ UpTo(queue, made) /\ UpTo(src, made)

\* An element moves from the front of one sequence to the end of the one before it.
LEMMA MoveKeepsOrder ==
    ASSUME NEW s \in Seq(Nat), NEW t \in Seq(Nat), t # <<>>,
           Increasing(s), Increasing(t), Before(s, t)
    PROVE  /\ Increasing(Append(s, Head(t))) /\ Increasing(Tail(t))
           /\ Before(Append(s, Head(t)), Tail(t))
<1>1. Increasing(Append(s, Head(t)))
  <2> SUFFICES ASSUME NEW i \in DOMAIN Append(s, Head(t)), NEW j \in DOMAIN Append(s, Head(t)), i < j
               PROVE  Append(s, Head(t))[i] < Append(s, Head(t))[j]
    BY DEF Increasing
  <2>1. Head(t) = t[1] /\ 1 \in DOMAIN t /\ Head(t) \in Nat
    BY TailFacts
  <2>2. i \in DOMAIN s /\ Append(s, Head(t))[i] = s[i]
    BY <2>1, AppendFacts
  <2>3. CASE j \in DOMAIN s
    BY <2>1, <2>2, <2>3, AppendFacts DEF Increasing
  <2>4. CASE j = Len(s) + 1
    BY <2>1, <2>2, <2>4, AppendFacts DEF Before
  <2> QED BY <2>1, <2>3, <2>4, AppendFacts
<1>2. Increasing(Tail(t))
  BY TailFacts DEF Increasing
<1>3. Before(Append(s, Head(t)), Tail(t))
  <2> SUFFICES ASSUME NEW i \in DOMAIN Append(s, Head(t)), NEW j \in DOMAIN Tail(t)
               PROVE  Append(s, Head(t))[i] < Tail(t)[j]
    BY DEF Before
  <2>1. Tail(t)[j] = t[j + 1] /\ j + 1 \in DOMAIN t /\ 1 \in DOMAIN t /\ Head(t) = t[1] /\ Head(t) \in Nat /\ j \in Nat /\ j >= 1
    BY TailFacts
  <2>2. CASE i \in DOMAIN s
    BY <2>1, <2>2, AppendFacts DEF Before
  <2>3. CASE i = Len(s) + 1
    BY <2>1, <2>3, AppendFacts DEF Increasing
  <2> QED BY <2>1, <2>2, <2>3, AppendFacts
<1> QED BY <1>1, <1>2, <1>3

\* Before and the bound are kept when the front element of a sequence is dropped
\* or moved.
LEMMA BeforeFacts ==
    ASSUME NEW s \in Seq(Nat), NEW t \in Seq(Nat), NEW u \in Seq(Nat), t # <<>>
    PROVE  /\ Before(s, t) => Before(s, Tail(t))
           /\ Before(t, u) => Before(Tail(t), u)
           /\ Before(s, t) /\ Before(s, u) => Before(s, Append(u, Head(t)))
           /\ Before(s, u) /\ Before(t, u) => Before(Append(s, Head(t)), u)
<1>1. Before(s, t) => Before(s, Tail(t))
  BY TailFacts DEF Before
<1>2. Before(t, u) => Before(Tail(t), u)
  BY TailFacts DEF Before
<1>3. ASSUME Before(s, t), Before(s, u) PROVE Before(s, Append(u, Head(t)))
  <2> SUFFICES ASSUME NEW i \in DOMAIN s, NEW j \in DOMAIN Append(u, Head(t))
               PROVE  s[i] < Append(u, Head(t))[j]
    BY DEF Before
  <2>1. Head(t) = t[1] /\ 1 \in DOMAIN t /\ Head(t) \in Nat
    BY TailFacts
  <2>2. CASE j \in DOMAIN u
    BY <1>3, <2>1, <2>2, AppendFacts DEF Before
  <2>3. CASE j = Len(u) + 1
    BY <1>3, <2>1, <2>3, AppendFacts DEF Before
  <2> QED BY <2>1, <2>2, <2>3, AppendFacts
<1>4. ASSUME Before(s, u), Before(t, u) PROVE Before(Append(s, Head(t)), u)
  <2> SUFFICES ASSUME NEW i \in DOMAIN Append(s, Head(t)), NEW j \in DOMAIN u
               PROVE  Append(s, Head(t))[i] < u[j]
    BY DEF Before
  <2>1. Head(t) = t[1] /\ 1 \in DOMAIN t /\ Head(t) \in Nat
    BY TailFacts
  <2>2. CASE i \in DOMAIN s
    BY <1>4, <2>1, <2>2, AppendFacts DEF Before
  <2>3. CASE i = Len(s) + 1
    BY <1>4, <2>1, <2>3, AppendFacts DEF Before
  <2> QED BY <2>1, <2>2, <2>3, AppendFacts
<1> QED BY <1>1, <1>2, <1>3, <1>4

LEMMA UpToFacts ==
    ASSUME NEW s \in Seq(Nat), NEW t \in Seq(Nat), NEW n \in Nat, t # <<>>
    PROVE  /\ UpTo(t, n) => UpTo(Tail(t), n)
           /\ UpTo(s, n) /\ UpTo(t, n) => UpTo(Append(s, Head(t)), n)
<1>1. UpTo(t, n) => UpTo(Tail(t), n)
  BY TailFacts DEF UpTo
<1>2. ASSUME UpTo(s, n), UpTo(t, n) PROVE UpTo(Append(s, Head(t)), n)
  <2>1. Head(t) = t[1] /\ 1 \in DOMAIN t /\ Head(t) \in Nat
    BY TailFacts
  <2> QED BY <1>2, <2>1, AppendFacts DEF UpTo
<1> QED BY <1>1, <1>2

\* The driver's next number comes after everything that is at most made.
LEMMA NewestFacts ==
    ASSUME NEW s \in Seq(Nat), NEW t \in Seq(Nat), NEW n \in Nat, UpTo(s, n)
    PROVE  /\ UpTo(s, n + 1)
           /\ Increasing(s) => Increasing(Append(s, n + 1))
           /\ UpTo(Append(s, n + 1), n + 1)
           /\ Before(s, t) => Before(s, Append(t, n + 1))
<1> DEFINE x == n + 1
<1>0. /\ x \in Nat /\ \A i \in DOMAIN s : s[i] \in Nat /\ s[i] < x
      /\ DOMAIN s = 1 .. Len(s)
  BY DEF UpTo
<1>1. UpTo(s, x)
  BY <1>0 DEF UpTo
<1>2. Increasing(s) => Increasing(Append(s, x))
  <2> HIDE DEF x
  <2> SUFFICES ASSUME Increasing(s), NEW i \in DOMAIN Append(s, x), NEW j \in DOMAIN Append(s, x), i < j
               PROVE  Append(s, x)[i] < Append(s, x)[j]
    BY DEF Increasing
  <2>1. i \in DOMAIN s /\ Append(s, x)[i] = s[i]
    BY <1>0, AppendFacts
  <2>2. CASE j \in DOMAIN s
    BY <1>0, <2>1, <2>2, AppendFacts DEF Increasing
  <2>3. CASE j = Len(s) + 1
    BY <1>0, <2>1, <2>3, AppendFacts
  <2> QED BY <1>0, <2>2, <2>3, AppendFacts
<1>3. UpTo(Append(s, x), x)
  <2> HIDE DEF x
  <2> QED BY <1>0, AppendFacts DEF UpTo
<1>4. Before(s, t) => Before(s, Append(t, x))
  <2> HIDE DEF x
  <2> SUFFICES ASSUME Before(s, t), NEW i \in DOMAIN s, NEW j \in DOMAIN Append(t, x)
               PROVE  s[i] < Append(t, x)[j]
    BY DEF Before
  <2>1. CASE j \in DOMAIN t
    BY <1>0, <2>1, AppendFacts DEF Before
  <2>2. CASE j = Len(t) + 1
    BY <1>0, <2>2, AppendFacts
  <2> QED BY <1>0, <2>1, <2>2, AppendFacts
<1> QED BY <1>1, <1>2, <1>3, <1>4

LEMMA OrderInvStep == OrderInv /\ QueueTypeOK' /\ [QueueNext]_qvars => OrderInv'
<1> SUFFICES ASSUME OrderInv, QueueTypeOK', [QueueNext]_qvars PROVE OrderInv'
  OBVIOUS
<1>0. /\ taken \in Seq(Nat) /\ out \in Seq(Nat) /\ queue \in Seq(Nat) /\ src \in Seq(Nat)
      /\ made \in Nat
  BY EventAssumption DEF OrderInv, QueueTypeOK
<1>1. CASE DriverEmit
  <2>1. /\ made' = made + 1 /\ src' = Append(src, made + 1)
        /\ taken' = taken /\ out' = out /\ queue' = queue
    BY <1>1 DEF DriverEmit, queueVars
  <2>2. /\ UpTo(taken, made + 1) /\ UpTo(out, made + 1) /\ UpTo(queue, made + 1)
        /\ UpTo(Append(src, made + 1), made + 1)
    BY <1>0, NewestFacts DEF OrderInv
  <2>3. /\ Increasing(Append(src, made + 1))
        /\ Before(taken, Append(src, made + 1)) /\ Before(out, Append(src, made + 1))
        /\ Before(queue, Append(src, made + 1))
    BY <1>0, NewestFacts DEF OrderInv
  <2> QED BY <2>1, <2>2, <2>3 DEF OrderInv
<1>6. CASE DriverLose
  <2>1. UNCHANGED <<src, queue, out, taken>> /\ made' \in Nat /\ made <= made'
    BY <1>0, <1>6, EventAssumption DEF DriverLose, QueueTypeOK
  <2>2. \A s \in Seq(Nat) : UpTo(s, made) => UpTo(s, made')
    BY <1>0, <2>1 DEF UpTo
  <2> QED BY <1>0, <2>1, <2>2 DEF OrderInv
<1>2. CASE Send
  <2>1. /\ queue # <<>> /\ out' = Append(out, Head(queue)) /\ queue' = Tail(queue)
        /\ made' = made /\ src' = src /\ taken' = taken
    BY <1>2 DEF Send, Pop, driverVars
  <2>2. /\ Increasing(out') /\ Increasing(queue') /\ Before(out', queue')
    BY <1>0, <2>1, MoveKeepsOrder DEF OrderInv
  <2>3. /\ Before(taken, out') /\ Before(taken, queue') /\ Before(out', src) /\ Before(queue', src)
    BY <1>0, <2>1, BeforeFacts DEF OrderInv
  <2>4. UpTo(out', made) /\ UpTo(queue', made)
    BY <1>0, <2>1, UpToFacts DEF OrderInv
  <2> QED BY <2>1, <2>2, <2>3, <2>4 DEF OrderInv
<1>3. CASE Receive
  <2>1. /\ out # <<>> /\ taken' = Append(taken, Head(out)) /\ out' = Tail(out)
        /\ made' = made /\ src' = src /\ queue' = queue
    BY <1>3 DEF Receive, driverVars
  <2>2. /\ Increasing(taken') /\ Increasing(out') /\ Before(taken', out')
    BY <1>0, <2>1, MoveKeepsOrder DEF OrderInv
  <2>3. /\ Before(taken', queue) /\ Before(taken', src) /\ Before(out', queue) /\ Before(out', src)
    BY <1>0, <2>1, BeforeFacts DEF OrderInv
  <2>4. UpTo(taken', made) /\ UpTo(out', made)
    BY <1>0, <2>1, UpToFacts DEF OrderInv
  <2> QED BY <2>1, <2>2, <2>3, <2>4 DEF OrderInv
<1>4. CASE SelectEvent
  <2>1. /\ src # <<>> /\ src' = Tail(src)
        /\ queue' = Append(queue, Head(src)) \/ queue' = queue
        /\ made' = made /\ out' = out /\ taken' = taken
    BY <1>4 DEF SelectEvent
  <2>2. /\ Increasing(Append(queue, Head(src))) /\ Increasing(Tail(src))
        /\ Before(Append(queue, Head(src)), Tail(src))
    BY <1>0, <2>1, MoveKeepsOrder DEF OrderInv
  <2>3. /\ Before(taken, Append(queue, Head(src))) /\ Before(out, Append(queue, Head(src)))
        /\ Before(taken, Tail(src)) /\ Before(out, Tail(src)) /\ Before(queue, Tail(src))
    <3>1. Before(taken, src) /\ Before(out, src) /\ Before(queue, src)
          /\ Before(taken, queue) /\ Before(out, queue)
      BY DEF OrderInv
    <3> QED BY ONLY <1>0, <2>1, <3>1, BeforeFacts
  <2>4. UpTo(Append(queue, Head(src)), made) /\ UpTo(Tail(src), made)
    <3>1. UpTo(queue, made) /\ UpTo(src, made)
      BY DEF OrderInv
    <3> QED BY ONLY <1>0, <2>1, <3>1, UpToFacts
  <2>5. CASE queue' = Append(queue, Head(src))
    BY <2>1, <2>2, <2>3, <2>4, <2>5 DEF OrderInv
  <2>6. CASE queue' = queue
    BY <2>1, <2>2, <2>3, <2>4, <2>6 DEF OrderInv
  <2> QED BY <2>1, <2>5, <2>6
<1>5. CASE \/ DriverFail \/ DriverEnd \/ HandedOver \/ SelectDriverClosed \/ SelectDone
           \/ CloseDriver \/ DriverClosed \/ QueueClosed \/ UNCHANGED qvars
  <2>1. UNCHANGED <<made, src, queue, out, taken>>
    BY <1>5 DEF DriverFail, DriverEnd, HandedOver, SelectDriverClosed, SelectDone, Finish,
                CloseDriver, DriverClosed, QueueClosed, qvars, driverVars, queueVars
  <2> QED BY <2>1 DEF OrderInv
<1> QED
  BY <1>1, <1>2, <1>3, <1>4, <1>5, <1>6 DEF QueueNext, QueueStep, CloseStep, HandOver, SelectSend

\* The watch loop receives the events in the order in which the driver saw them,
\* whatever was dropped in between.
THEOREM EventsInOrder == QueueSpec => []InOrder
<1>1. QueueInit => OrderInv
  <2>1. QueueInit => QueueTypeOK
    BY LimitAssumption, CapAssumption, EventAssumption DEF QueueInit, QueueTypeOK
  <2> QED BY <2>1 DEF OrderInv, QueueInit, Increasing, Before, UpTo
<1>2. QueueSpec => []QueueTypeOK
  BY QueueTypeCorrect
<1>3. OrderInv => InOrder
  BY DEF OrderInv, InOrder
<1> QED BY <1>1, <1>2, <1>3, OrderInvStep, PTL DEF QueueSpec

-----------------------------------------------------------------------------
(* The whole watch                                                         *)

\* The watch (driver, queue, loop and worker) implements the queue's
\* specification: a step of the loop is a Receive, a step of source.close or
\* leaves the queue alone.
THEOREM WatchImplementsQueue == Spec => QueueSpec
<1>1. Init => QueueInit
  BY DEF Init
<1>2. [Next]_vars => [QueueNext]_qvars
  <2> SUFFICES ASSUME [Next]_vars PROVE [QueueNext]_qvars
    OBVIOUS
  <2>1. CASE TakeEvent
    BY <2>1 DEF TakeEvent, QueueNext
  <2>2. CASE LeaveLoop \/ CloseAtExit
    BY <2>2 DEF LeaveLoop, CloseAtExit, QueueNext
  <2>3. CASE NoticeCancel \/ EventsClosed \/ TakeFailure \/ (\E r \in Rules : StartAction(r))
             \/ TakeResult \/ OutputFails \/ CountLoss \/ Summary \/ End \/ WorkerEnds \/ Cancel
    BY <2>3 DEF NoticeCancel, EventsClosed, TakeFailure, StartAction, TakeResult, OutputFails, CountLoss,
                Summary, End, WorkerEnds, Cancel
  <2>4. CASE (DriverStep \/ QueueStep \/ CloseStep) /\ UNCHANGED loopVars
    BY <2>4 DEF DriverStep, QueueNext
  <2>5. CASE UNCHANGED vars
    BY <2>5 DEF vars
  <2> QED BY <2>1, <2>2, <2>3, <2>4, <2>5 DEF Next, LoopStep
<1> QED BY <1>1, <1>2, PTL DEF Spec, QueueSpec

\* So the bound, the accounting, the hysteresis and the order hold of the watch.
THEOREM WatchQueueCorrect ==
    Spec => [](QueueBounded /\ EveryEventCounted /\ DropsUntilResume /\ InOrder)
<1> QED BY WatchImplementsQueue, QueueAccounting, EventsInOrder, PTL

-----------------------------------------------------------------------------
(* The type invariant                                                      *)

Events == 1 .. MaxEvents

\* What travels through the channels and the queue are numbers of events, which
\* is what the rules are asked about.
EventsInv == src \in Seq(Events) /\ queue \in Seq(Events) /\ out \in Seq(Events)

\* One worker at a time: while no command is under way there is neither a worker
\* nor a result, and a worker that has not ended has left no result.
WorkerInv ==
    /\ ~running => worker = None /\ completed = <<>>
    /\ worker # None => completed = <<>>

LEMMA MoveEvent ==
    ASSUME NEW s \in Seq(Events), s # <<>>
    PROVE  Head(s) \in Events /\ Tail(s) \in Seq(Events)
  OBVIOUS

LEMMA AppendEvent ==
    ASSUME NEW s \in Seq(Events), NEW e \in Events
    PROVE  Append(s, e) \in Seq(Events)
  OBVIOUS

LEMMA OneResult ==
    ASSUME NEW s \in Seq(Rules), s # <<>>, Len(s) <= 1
    PROVE  Tail(s) = <<>>
<1>1. Len(s) \in Nat /\ Len(s) = 1 /\ Tail(s) \in Seq(Rules)  OBVIOUS
<1>2. Len(Tail(s)) = 0  BY <1>1
<1> QED BY <1>1, <1>2, EmptySeq

LEMMA EventsStep == QueueTypeOK /\ EventsInv /\ [QueueNext]_qvars => EventsInv'
<1> SUFFICES ASSUME QueueTypeOK, EventsInv, [QueueNext]_qvars PROVE EventsInv'
  OBVIOUS
<1> USE DEF EventsInv
<1>1. CASE DriverEmit
  <2>1. made + 1 \in Events  BY <1>1, EventAssumption DEF DriverEmit, QueueTypeOK, Events
  <2> QED BY <1>1, <2>1, AppendEvent DEF DriverEmit, queueVars
<1>2. CASE DriverLose \/ DriverFail \/ DriverEnd
  BY <1>2 DEF DriverLose, DriverFail, DriverEnd, queueVars
<1>3. CASE Send
  <2>1. Head(queue) \in Events /\ Tail(queue) \in Seq(Events)  BY <1>3, MoveEvent DEF Send
  <2> QED BY <1>3, <2>1, AppendEvent DEF Send, Pop, driverVars
<1>4. CASE HandedOver \/ SelectDone \/ SelectDriverClosed
  BY <1>4 DEF HandedOver, SelectDone, SelectDriverClosed, Finish, driverVars
<1>5. CASE SelectEvent
  <2>1. Head(src) \in Events /\ Tail(src) \in Seq(Events)  BY <1>5, MoveEvent DEF SelectEvent
  <2> QED BY <1>5, <2>1, AppendEvent DEF SelectEvent
<1>6. CASE Receive
  BY <1>6, MoveEvent DEF Receive, driverVars
<1>7. CASE CloseDriver \/ CloseStep
  BY <1>7 DEF CloseDriver, CloseStep, DriverClosed, QueueClosed, driverVars, queueVars
<1>8. CASE UNCHANGED qvars
  BY <1>8 DEF qvars, driverVars, queueVars
<1> QED
  BY <1>1, <1>2, <1>3, <1>4, <1>5, <1>6, <1>7, <1>8
  DEF QueueNext, QueueStep, HandOver, SelectSend

LEMMA QueueSteps == [Next]_vars => [QueueNext]_qvars
<1> SUFFICES ASSUME [Next]_vars PROVE [QueueNext]_qvars
  OBVIOUS
<1>1. CASE TakeEvent \/ LeaveLoop \/ CloseAtExit
  BY <1>1 DEF TakeEvent, LeaveLoop, CloseAtExit, QueueNext
<1>2. CASE NoticeCancel \/ EventsClosed \/ TakeFailure \/ (\E r \in Rules : StartAction(r))
           \/ TakeResult \/ OutputFails \/ CountLoss \/ Summary \/ End \/ WorkerEnds \/ Cancel
  BY <1>2 DEF NoticeCancel, EventsClosed, TakeFailure, StartAction, TakeResult, OutputFails, CountLoss,
              Summary, End, WorkerEnds, Cancel
<1>3. CASE (DriverStep \/ QueueStep \/ CloseStep) /\ UNCHANGED loopVars
  BY <1>3 DEF DriverStep, QueueNext
<1>4. CASE UNCHANGED vars
  BY <1>4 DEF vars
<1> QED BY <1>1, <1>2, <1>3, <1>4 DEF Next, LoopStep

LoopTypeOK ==
    /\ lpc \in {"loop", "closing", "summary", "wait", "ended"}
    /\ pending \in [Rules -> MaybeEvent]
    /\ matched \in [Rules -> MaybeEvent] /\ ran \in [Rules -> MaybeEvent]
    /\ running \in BOOLEAN /\ worker \in Rules \cup {None}
    /\ completed \in Seq(Rules) /\ Len(completed) <= 1
    /\ stopping \in BOOLEAN /\ cancelled \in BOOLEAN /\ killed \in BOOLEAN
    /\ failure \in {None, "closed", "driver"}
    /\ exit \in {-1, 0, 1, 2} /\ actions \in Nat /\ reported \in {-1} \cup Nat

LEMMA LoopTypeStep ==
    QueueTypeOK /\ EventsInv /\ LoopTypeOK /\ WorkerInv /\ [Next]_vars => LoopTypeOK' /\ WorkerInv'
<1> SUFFICES ASSUME QueueTypeOK, EventsInv, LoopTypeOK, WorkerInv, [Next]_vars
             PROVE  LoopTypeOK' /\ WorkerInv'
  OBVIOUS
<1> USE DEF LoopTypeOK, WorkerInv, MaybeEvent, None
<1>1. CASE Cancel \/ NoticeCancel \/ EventsClosed \/ TakeFailure \/ OutputFails
  BY <1>1 DEF Cancel, NoticeCancel, EventsClosed, TakeFailure, OutputFails, Stop, Return
<1>2. CASE TakeEvent
  <2>1. Head(out) \in Events /\ Head(out) \in MaybeEvent
    BY <1>2, MoveEvent DEF TakeEvent, Receive, EventsInv, Events
  <2>2. Armed(Head(out)) \in [Rules -> MaybeEvent]
    BY <2>1 DEF Armed
  <2>3. matched' \in [Rules -> MaybeEvent]
    BY <1>2, <2>1 DEF TakeEvent
  <2> QED BY <1>2, <2>2, <2>3 DEF TakeEvent, Return
<1>3. ASSUME NEW r \in Rules, StartAction(r) PROVE LoopTypeOK' /\ WorkerInv'
  <2>1. pending' \in [Rules -> MaybeEvent] /\ ran' \in [Rules -> MaybeEvent]
    BY <1>3 DEF StartAction
  <2> QED BY <1>3, <2>1 DEF StartAction, Return
<1>4. CASE WorkerEnds
  <2>1. completed = <<>> /\ worker \in Rules  BY <1>4 DEF WorkerEnds
  <2>2. completed' \in Seq(Rules) /\ Len(completed') <= 1
    BY <1>4, <2>1 DEF WorkerEnds
  <2> QED BY <1>4, <2>1, <2>2 DEF WorkerEnds
<1>5. CASE TakeResult
  <2>1. completed # <<>> /\ worker = None  BY <1>5 DEF TakeResult
  <2>2. completed' = <<>>  BY <1>5, <2>1, OneResult DEF TakeResult
  <2>3. completed' \in Seq(Rules) /\ Len(completed') <= 1  BY <2>2
  <2>4. lpc' \in {"loop", "wait"} /\ exit' \in {-1, 0, 1, 2} /\ killed' \in BOOLEAN
    BY <1>5 DEF TakeResult, Return, Looping
  <2>5. running' = FALSE /\ actions' \in Nat /\ worker' = None
    BY <1>5, <2>1 DEF TakeResult
  <2> QED BY <1>5, <2>2, <2>3, <2>4, <2>5 DEF TakeResult
<1>6. CASE LeaveLoop \/ CloseAtExit \/ End
  BY <1>6 DEF LeaveLoop, CloseAtExit, End, loopVars
<1>7. CASE CountLoss \/ Summary
  BY <1>7 DEF CountLoss, Summary, Return, QueueTypeOK
<1>8. CASE UNCHANGED loopVars
  BY <1>8 DEF loopVars
<1> QED
  BY <1>1, <1>2, <1>3, <1>4, <1>5, <1>6, <1>7, <1>8 DEF Next, LoopStep, vars

\* What holds of every state of the watch's types.
TypeInv == TypeOK /\ EventsInv /\ WorkerInv

LEMMA TypeInvariant == Spec => []TypeInv
<1>1. Init => EventsInv /\ LoopTypeOK /\ WorkerInv
  <2> SUFFICES ASSUME Init PROVE EventsInv /\ LoopTypeOK /\ WorkerInv
    OBVIOUS
  <2>1. EventsInv  BY DEF Init, QueueInit, EventsInv
  <2>2. LoopTypeOK
    <3>1. pending \in [Rules -> MaybeEvent] /\ matched \in [Rules -> MaybeEvent] /\ ran \in [Rules -> MaybeEvent]
      BY DEF Init, MaybeEvent
    <3>2. completed \in Seq(Rules) /\ Len(completed) <= 1  BY DEF Init
    <3> QED BY <3>1, <3>2 DEF Init, LoopTypeOK, None
  <2>3. WorkerInv  BY DEF Init, WorkerInv
  <2> QED BY <2>1, <2>2, <2>3
<1>2. Spec => []QueueTypeOK
  BY WatchImplementsQueue, QueueTypeCorrect, PTL
<1>3. QueueTypeOK /\ EventsInv /\ LoopTypeOK /\ WorkerInv /\ [Next]_vars
        => EventsInv' /\ LoopTypeOK' /\ WorkerInv'
  BY QueueSteps, EventsStep, LoopTypeStep
<1>4. QueueTypeOK /\ EventsInv /\ LoopTypeOK /\ WorkerInv => TypeInv
  BY DEF TypeInv, TypeOK, LoopTypeOK
<1> QED BY <1>1, <1>2, <1>3, <1>4, PTL DEF Spec

\* The type invariant of the watch: there is never more than one result in the
\* channel of the worker, and the rules are only asked about events.
THEOREM WatchTypeCorrect == Spec => []TypeOK
<1>1. TypeInv => TypeOK  BY DEF TypeInv
<1> QED BY <1>1, TypeInvariant, PTL

-----------------------------------------------------------------------------
(* Triggers                                                                *)

LEMMA TriggerStep == TypeInv /\ NoTriggerLost /\ [Next]_vars => NoTriggerLost'
<1> SUFFICES ASSUME TypeInv, NoTriggerLost, [Next]_vars PROVE NoTriggerLost'
  OBVIOUS
<1>0. /\ pending \in [Rules -> MaybeEvent] /\ matched \in [Rules -> MaybeEvent]
      /\ ran \in [Rules -> MaybeEvent]
  BY DEF TypeInv, TypeOK
<1> USE DEF NoTriggerLost, Looping
<1>1. CASE TakeEvent
  BY <1>0, <1>1 DEF TakeEvent, Armed, Return
<1>2. ASSUME NEW r \in Rules, StartAction(r) PROVE NoTriggerLost'
  BY <1>0, <1>2 DEF StartAction, Return
<1>3. CASE Cancel \/ NoticeCancel \/ EventsClosed \/ TakeFailure \/ OutputFails \/ WorkerEnds \/ TakeResult
  BY <1>3 DEF Cancel, NoticeCancel, EventsClosed, TakeFailure, OutputFails, WorkerEnds, TakeResult, Stop, Return
<1>4. CASE LeaveLoop \/ CloseAtExit \/ End \/ CountLoss \/ Summary
  BY <1>4 DEF LeaveLoop, CloseAtExit, End, CountLoss, Summary, Return, loopVars
<1>5. CASE UNCHANGED loopVars
  BY <1>5 DEF loopVars
<1> QED BY <1>1, <1>2, <1>3, <1>4, <1>5 DEF Next, LoopStep, vars

\* No trigger is lost, whatever rules an event matches and whether or not a
\* command runs when it comes.
THEOREM TriggersAreKept == Spec => []NoTriggerLost
<1>1. Init => NoTriggerLost
  BY DEF Init, NoTriggerLost
<1> QED BY <1>1, TriggerStep, TypeInvariant, PTL DEF Spec

-----------------------------------------------------------------------------
(* Closing                                                                 *)

\* How the parts end, one after the other: the queue goroutine ends after the
\* driver, source.close returns after both, and then nothing is left to count.
\* Before the loop is left nobody closes, so that the goroutine can only have
\* ended because the driver had and the queue was empty.
ClosingInv ==
    /\ in = "nil" => driver # "run" /\ src = <<>>
    /\ closing \in {"queue", "closed"} => driver # "run"
    /\ closing = "closed" => qpc = "finished"
    /\ qpc = "finished" => driver # "run" /\ dropped = 0
    /\ qpc = "finished" /\ closing = "no" => in = "nil" /\ queue = <<>>
    /\ lpc = "loop" => closing = "no"
    /\ reported # -1 => closing = "closed" /\ reported = loss
    /\ failure = "closed" => qpc = "finished" /\ in = "nil" /\ queue = <<>> /\ out = <<>>

LEMMA ClosingStep == TypeInv /\ ClosingInv /\ [Next]_vars => ClosingInv'
<1> SUFFICES ASSUME TypeInv, ClosingInv, [Next]_vars PROVE ClosingInv'
  OBVIOUS
<1> USE DEF ClosingInv, driverVars, queueVars, qvars, loopVars
<1>0. reported \in {-1} \cup Nat /\ loss \in Nat /\ dropped \in Nat
  BY DEF TypeInv, TypeOK, QueueTypeOK
<1>1. CASE TakeEvent
  BY <1>1 DEF TakeEvent, Receive, Looping, Return
<1>2. CASE (\E r \in Rules : StartAction(r)) \/ TakeResult \/ OutputFails \/ WorkerEnds \/ Cancel \/ NoticeCancel
  BY <1>2 DEF StartAction, TakeResult, OutputFails, WorkerEnds, Cancel, NoticeCancel, Return, Stop, Looping
<1>3. CASE EventsClosed \/ TakeFailure
  BY <1>3 DEF EventsClosed, TakeFailure, Stop, Looping
<1>4. CASE LeaveLoop \/ CloseAtExit
  BY <1>4 DEF LeaveLoop, CloseAtExit, CloseDriver, Looping
<1>5. CASE CountLoss \/ Summary \/ End
  BY <1>0, <1>5 DEF CountLoss, Summary, End, Return
<1>6. CASE DriverStep /\ UNCHANGED loopVars
  BY <1>6 DEF DriverStep, DriverEmit, DriverLose, DriverFail, DriverEnd
<1>7. CASE QueueStep /\ UNCHANGED loopVars
  <2>1. CASE Send /\ qpc # "finished"
    BY <1>7, <2>1 DEF Send, Pop
  <2>2. CASE HandedOver
    BY <1>0, <1>7, <2>2 DEF HandedOver, Finish
  <2>3. CASE SelectEvent \/ SelectDriverClosed
    BY <1>7, <2>3 DEF SelectEvent, SelectDriverClosed
  <2>4. CASE SelectDone
    BY <1>0, <1>7, <2>4 DEF SelectDone, Finish
  <2> QED BY <1>7, <2>1, <2>2, <2>3, <2>4 DEF QueueStep, HandOver, SelectSend
<1>8. CASE CloseStep /\ UNCHANGED loopVars
  BY <1>8 DEF CloseStep, DriverClosed, QueueClosed
<1>9. CASE UNCHANGED vars
  BY <1>9 DEF vars
<1> QED BY <1>1, <1>2, <1>3, <1>4, <1>5, <1>6, <1>7, <1>8, <1>9 DEF Next, LoopStep

LEMMA ClosingInvariant == Spec => []ClosingInv
<1>1. Init => ClosingInv
  BY DEF Init, QueueInit, ClosingInv, None
<1> QED BY <1>1, ClosingStep, TypeInvariant, PTL DEF Spec

\* The summary's number of dropped events is final: it is read after the driver
\* and the queue have ended and includes what the queue had not reported yet.
THEOREM SummaryIsComplete == Spec => []SummaryCountsLoss
<1>1. TypeInv /\ ClosingInv => SummaryCountsLoss
  BY DEF TypeInv, TypeOK, QueueTypeOK, ClosingInv, SummaryCountsLoss, Lost
<1> QED BY <1>1, ClosingInvariant, TypeInvariant, PTL

\* "source closed" comes after the last event: whatever was not dropped has been
\* received by the loop, for every size of the queue and its channels.
THEOREM ClosedIsDrained == Spec => []ClosedMeansDrained
<1>1. TypeInv /\ ClosingInv /\ EveryEventCounted => ClosedMeansDrained
  <2> SUFFICES ASSUME TypeInv, ClosingInv, EveryEventCounted, failure = "closed"
               PROVE  made = Len(taken) + Lost
    BY DEF ClosedMeansDrained
  <2>1. src = <<>> /\ queue = <<>> /\ out = <<>>  BY DEF ClosingInv
  <2>2. Len(taken) \in Nat /\ dropped \in Nat /\ loss \in Nat
    BY DEF TypeInv, TypeOK, QueueTypeOK
  <2> QED BY <2>1, <2>2 DEF EveryEventCounted, Lost
<1> QED BY <1>1, ClosingInvariant, TypeInvariant, WatchQueueCorrect, PTL
=============================================================================
