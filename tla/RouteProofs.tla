----------------------------- MODULE RouteProofs -----------------------------
(***************************************************************************)
(* Proofs about Route, for any routing tables, next hops, faults and kills *)
(* and, where the theorem says so, any number of switches at a time.       *)
(***************************************************************************)
EXTENDS Route, FiniteSetTheorems, TLAPS

-----------------------------------------------------------------------------
(* The operators on tables                                                 *)

\* Among metrics there is a lowest one
LEMMA LowestMetric ==
  ASSUME NEW T, T \subseteq Nat, T # {}
  PROVE  \E m \in T : \A k \in T : m <= k
  <1> DEFINE D == {0 .. k : k \in T}
  <1>1. D \subseteq FiniteSubsetsOf(Nat)
    <2> SUFFICES ASSUME NEW k \in T PROVE 0 .. k \in FiniteSubsetsOf(Nat)  OBVIOUS
    <2>1. IsFiniteSet(0 .. k)  BY FS_Interval
    <2> QED  BY <2>1 DEF FiniteSubsetsOf
  <1>2. D # {}  OBVIOUS
  <1>3. \E x \in D : \A y \in D : <<y, x>> \notin StrictSubsetOrdering(Nat)
    <2> HIDE DEF D
    <2> QED  BY <1>1, <1>2, WFMin, FS_StrictSubsetOrderingWellFounded
  <1>4. PICK m \in T : \A k \in T : <<0 .. k, 0 .. m>> \notin StrictSubsetOrdering(Nat)
    BY <1>3
  <1>5. ASSUME NEW k \in T, k < m PROVE FALSE
    <2>1. 0 .. k \in SUBSET Nat /\ 0 .. m \in SUBSET Nat  OBVIOUS
    <2>2. 0 .. k \subseteq 0 .. m  BY <1>5
    <2>3. 0 .. k # 0 .. m
      <3>1. m \in 0 .. m /\ m \notin 0 .. k  BY <1>5
      <3> QED  BY <3>1
    <2> QED  BY <2>1, <2>2, <2>3, <1>4 DEF StrictSubsetOrdering
  <1> QED  BY <1>5

\* The first route that the kernel lists is one of the table, and no route has a
\* lower metric
LEMMA FirstEntryIsLeast ==
  ASSUME NEW t \in Tables, Present(t) # {}
  PROVE  FirstEntry(t) \in Present(t) /\ \A s \in Present(t) : FirstEntry(t) <= s
  <1>1. Present(t) \subseteq Nat  BY SlotAssumption DEF Present
  <1>2. \E n \in Present(t) : \A m \in Present(t) : n <= m
    BY <1>1, LowestMetric
  <1> QED  BY <1>2 DEF FirstEntry, Min

LEMMA CountTyped ==
  ASSUME NEW t PROVE  RouteCountFor(t) \in 0 .. Cardinality(Slots)
  <1>1. IsFiniteSet(Slots) /\ Present(t) \in SUBSET Slots  BY SlotAssumption DEF Present
  <1>2. IsFiniteSet(Present(t)) /\ Cardinality(Present(t)) <= Cardinality(Slots)
    BY <1>1, FS_Subset
  <1>3. Cardinality(Present(t)) \in Nat /\ Cardinality(Slots) \in Nat
    BY <1>1, <1>2, FS_CardinalityType
  <1> QED  BY <1>2, <1>3 DEF RouteCountFor

LEMMA ResidualTyped ==
  ASSUME NEW t \in Tables, NEW s PROVE  Residual(s, t) \subseteq Slots \X Vias
  <1>1. \A x \in Present(t) : x \in Slots /\ t[x] \in Vias  BY DEF Present, Tables
  <1>2. Entries(t) \subseteq Slots \X Vias  BY <1>1 DEF Entries
  <1> QED  BY <1>2 DEF Residual

LEMMA ReplacedTyped ==
  ASSUME NEW t \in Tables, NEW s \in Slots, NEW v \in Vias \cup {NoVia}
  PROVE  Replaced(t, s, v) \in Tables
  BY DEF Replaced, Tables

LEMMA CompletedTyped ==
  ASSUME NEW s \in Snapshots PROVE Completed(s) \in Snapshots
  BY DEF Completed, Snapshots

LEMMA NoSnapshotTyped == NoSnapshot \in Snapshots
  <1>1. (CHOOSE s \in Slots : TRUE) \in Slots  BY SlotAssumption
  <1>2. (CHOOSE v \in Vias : TRUE) \in Vias  BY ViaAssumption
  <1>3. 0 \in 0 .. Cardinality(Slots)  BY SlotAssumption, FS_CardinalityType
  <1> QED  BY <1>1, <1>2, <1>3 DEF NoSnapshot, Snapshots

-----------------------------------------------------------------------------
(* Types                                                                   *)

LEMMA InitType == Init => TypeOK
  <1> SUFFICES ASSUME Init PROVE TypeOK  OBVIOUS
  <1>1. table \in Tables  BY TableAssumption DEF Init
  <1>2. pc \in [Procs -> PCs] /\ timer \in [Runs -> {"none", "armed", "fired"}]
    BY DEF Init, PCs
  <1>3. snap \in [Procs -> Snapshots]  BY NoSnapshotTyped DEF Init
  <1>4. edits \in 0 .. MaxEdits  BY BoundAssumption DEF Init
  <1> QED  BY <1>1, <1>2, <1>3, <1>4 DEF Init, TypeOK

\* A process that ends leaves everything typed
LEMMA LeaveTyped ==
  ASSUME TypeOK, NEW p \in Procs, NEW failed \in BOOLEAN, Leave(p, failed)
  PROVE  /\ pc' \in [Procs -> PCs] /\ timer' \in [Runs -> {"none", "armed", "fired"}]
         /\ gaveUp' \subseteq Runs /\ snap' \in [Procs -> Snapshots]
         /\ todo' \in [Procs -> SUBSET (Slots \X Vias)]
  <1>1. RunOf(p) \in Runs  BY DEF Procs, RunOf
  <1>2. pc' \in [Procs -> PCs]  BY DEF Leave, Goto, PCs, TypeOK
  <1>3. timer' \in [Runs -> {"none", "armed", "fired"}]  BY <1>1 DEF Leave, TypeOK
  <1>4. gaveUp' \subseteq Runs  BY <1>1 DEF Leave, TypeOK
  <1>5. snap' \in [Procs -> Snapshots]  BY NoSnapshotTyped DEF Leave, TypeOK
  <1>6. todo' \in [Procs -> SUBSET (Slots \X Vias)]  BY DEF Leave, TypeOK
  <1> QED  BY <1>2, <1>3, <1>4, <1>5, <1>6

LEMMA GotoTyped ==
  ASSUME TypeOK, NEW p \in Procs, NEW l \in PCs, Goto(p, l) PROVE pc' \in [Procs -> PCs]
  BY DEF Goto, TypeOK

LEMMA SwitchIsProc == ASSUME NEW r \in Runs PROVE Switch(r) \in Procs /\ RunOf(Switch(r)) = r
  BY DEF Switch, Procs, Roles, RunOf

LEMMA TakeSnapshotTyped == ASSUME TypeOK, NEW r \in Runs, TakeSnapshot(r) PROVE TypeOK'
  <1>1. Switch(r) \in Procs  BY SwitchIsProc
  <1>2. pc' \in [Procs -> PCs]  BY <1>1 DEF TakeSnapshot, Goto, PCs, TypeOK
  <1>3. ASSUME Present(table) # {}, NEW via \in Vias
        PROVE  [slot |-> FirstEntry(table), via |-> table[FirstEntry(table)], newVia |-> via,
                baseline |-> RouteCountFor(table), completed |-> FALSE] \in Snapshots
    <2>1. FirstEntry(table) \in Present(table)  BY <1>3, FirstEntryIsLeast DEF TypeOK
    <2>2. FirstEntry(table) \in Slots /\ table[FirstEntry(table)] \in Vias
      BY <2>1 DEF Present, TypeOK, Tables
    <2> QED  BY <2>2, <1>3, CountTyped DEF Snapshots
  <1>4. snap' \in [Procs -> Snapshots]
    BY <1>1, <1>3 DEF TakeSnapshot, TypeOK
  <1> QED  BY <1>2, <1>4 DEF TakeSnapshot, ghosts, TypeOK

LEMMA SwitchStepTyped == ASSUME TypeOK, NEW r \in Runs, SwitchStep(r) \/ AwaitConfirm(r) PROVE TypeOK'
  <1>s. Switch(r) \in Procs  BY SwitchIsProc
  <1>n. snap[Switch(r)] \in Snapshots /\ Completed(snap[Switch(r)]) \in Snapshots
    BY <1>s, CompletedTyped DEF TypeOK
  <1>p. ASSUME NEW l \in PCs, Goto(Switch(r), l) PROVE pc' \in [Procs -> PCs]
    BY <1>s, <1>p, GotoTyped
  <1>d. ASSUME NEW tier, Decide(r, tier) PROVE pc' \in [Procs -> PCs] /\ waived' \subseteq Runs
    BY <1>d, <1>p DEF Decide, PCs, TypeOK
  <1>1. CASE WriteState(r)
    <2>1. pc' \in [Procs -> PCs]  BY <1>1, <1>p DEF WriteState, PCs
    <2>2. state' \in [Runs -> Snapshots \cup {NoState}]  BY <1>1, <1>n DEF WriteState, TypeOK
    <2> QED  BY <1>1, <2>1, <2>2 DEF WriteState, ghosts, TypeOK
  <1>2. CASE ArmGuard(r)
    <2>1. pc' \in [Procs -> PCs] /\ waived' \subseteq Runs
      BY <1>2, <1>p, <1>d DEF ArmGuard, PCs, TypeOK
    <2>2. timer' \in [Runs -> {"none", "armed", "fired"}]  BY <1>2 DEF ArmGuard, TypeOK
    <2> QED  BY <1>2, <2>1, <2>2 DEF ArmGuard, TypeOK
  <1>3. CASE VerifyGuard(r)
    <2>1. pc' \in [Procs -> PCs] /\ waived' \subseteq Runs  BY <1>3, <1>d DEF VerifyGuard
    <2> QED  BY <1>3, <2>1 DEF VerifyGuard, TypeOK
  <1>4. CASE AbortDisarm(r) \/ KeepDisarm(r)
    <2>1. pc' \in [Procs -> PCs]  BY <1>4, <1>p DEF AbortDisarm, KeepDisarm, PCs
    <2>2. timer' \in [Runs -> {"none", "armed", "fired"}]
      BY <1>4 DEF AbortDisarm, KeepDisarm, StopTimer, TypeOK
    <2> QED  BY <1>4, <2>1, <2>2 DEF AbortDisarm, KeepDisarm, ghosts, TypeOK
  <1>5. CASE AbortMark(r) \/ KeepMark(r)
    <2>1. pc' \in [Procs -> PCs]  BY <1>5, <1>p DEF AbortMark, KeepMark, PCs
    <2>2. state' \in [Runs -> Snapshots \cup {NoState}]
      BY <1>5, <1>n DEF AbortMark, KeepMark, TypeOK
    <2> QED  BY <1>5, <2>1, <2>2 DEF AbortMark, KeepMark, ghosts, TypeOK
  <1>6. CASE ReplaceRoute(r)
    <2>1. pc' \in [Procs -> PCs]  BY <1>6, <1>p DEF ReplaceRoute, PCs
    <2>2. Replaced(table, snap[Switch(r)].slot, snap[Switch(r)].newVia) \in Tables
      BY <1>n, ReplacedTyped DEF Snapshots, TypeOK
    <2> QED  BY <1>6, <2>1, <2>2 DEF ReplaceRoute, TypeOK
  <1>7. CASE VerifyCount(r) \/ CheckIdentity(r)
    <2>1. pc' \in [Procs -> PCs]  BY <1>7, <1>p DEF VerifyCount, CheckIdentity, PCs
    <2> QED  BY <1>7, <2>1 DEF VerifyCount, CheckIdentity, ghosts, TypeOK
  <1>8. CASE AwaitConfirm(r)
    <2>1. pc' \in [Procs -> PCs]  BY <1>8, <1>p DEF AwaitConfirm, PCs
    <2> QED  BY <1>8, <2>1 DEF AwaitConfirm, TypeOK
  <1> QED  BY <1>1, <1>2, <1>3, <1>4, <1>5, <1>6, <1>7, <1>8 DEF SwitchStep

LEMMA RollbackStepTyped == ASSUME TypeOK, NEW p \in Procs, RollbackStep(p) PROVE TypeOK'
  <1>r. RunOf(p) \in Runs  BY DEF Procs, RunOf
  <1>n. snap[p] \in Snapshots /\ Completed(snap[p]) \in Snapshots  BY CompletedTyped DEF TypeOK
  <1>p. ASSUME NEW l \in PCs, Goto(p, l) PROVE pc' \in [Procs -> PCs]  BY <1>p, GotoTyped
  <1> DEFINE Ends == Leave(p, TRUE) \/ Leave(p, FALSE)
  <1>e. ASSUME Ends, UNCHANGED <<author, kept, waived, edits>>,
               table' \in Tables, state' \in [Runs -> Snapshots \cup {NoState}]
        PROVE  TypeOK'
    BY <1>e, LeaveTyped DEF TypeOK
  <1>1. CASE ReadRouteState(p)
    <2>1. CASE Leave(p, FALSE)  BY <1>1, <2>1, <1>e DEF ReadRouteState, TypeOK
    <2>2. CASE Pending(state[RunOf(p)]) /\ Goto(p, "rbRead")
      <3>1. state[RunOf(p)] \in Snapshots  BY <2>2, <1>r DEF Pending, TypeOK
      <3>2. pc' \in [Procs -> PCs]  BY <2>2, <1>p DEF PCs
      <3>3. snap' = [snap EXCEPT ![p] = state[RunOf(p)]] /\ UNCHANGED <<timer, todo, gaveUp>>
        BY <1>1, <2>2 DEF ReadRouteState
      <3>4. snap' \in [Procs -> Snapshots]  BY <3>1, <3>3 DEF TypeOK
      <3> QED  BY <1>1, <3>2, <3>3, <3>4 DEF ReadRouteState, TypeOK
    <2> QED  BY <1>1, <2>1, <2>2 DEF ReadRouteState
  <1>2. CASE RollbackRead(p)
    <2>1. CASE Leave(p, TRUE)  BY <1>2, <2>1, <1>e DEF RollbackRead, TypeOK
    <2>2. CASE /\ todo' = [todo EXCEPT ![p] = Residual(snap[p], table)]
               /\ Goto(p, "rbReplace") /\ UNCHANGED <<timer, snap, gaveUp>>
      <3>1. Residual(snap[p], table) \in SUBSET (Slots \X Vias)  BY ResidualTyped DEF TypeOK
      <3>2. pc' \in [Procs -> PCs]  BY <2>2, <1>p DEF PCs
      <3>3. todo' \in [Procs -> SUBSET (Slots \X Vias)]  BY <2>2, <3>1 DEF TypeOK
      <3> QED  BY <1>2, <2>2, <3>2, <3>3 DEF RollbackRead, TypeOK
    <2> QED  BY <1>2, <2>1, <2>2 DEF RollbackRead
  <1>3. CASE RollbackReplace(p)
    <2>1. CASE Leave(p, TRUE) /\ UNCHANGED table /\ UNCHANGED author
      BY <1>3, <2>1, <1>e DEF RollbackReplace, TypeOK
    <2>2. CASE /\ table' = Replaced(table, snap[p].slot, snap[p].via) /\ author' = NoRun
               /\ Goto(p, "rbDelete") /\ UNCHANGED <<timer, snap, todo, gaveUp>>
      <3>1. table' \in Tables  BY <2>2, <1>n, ReplacedTyped DEF Snapshots, TypeOK
      <3>2. pc' \in [Procs -> PCs]  BY <2>2, <1>p DEF PCs
      <3> QED  BY <1>3, <2>2, <3>1, <3>2 DEF RollbackReplace, TypeOK
    <2> QED  BY <1>3, <2>1, <2>2 DEF RollbackReplace
  <1>4. CASE RollbackDelete(p)
    <2>0. UNCHANGED <<state, author, kept, waived, edits>>  BY <1>4 DEF RollbackDelete
    <2>1. CASE Leave(p, TRUE) /\ UNCHANGED table
      BY <2>0, <2>1, <1>e DEF TypeOK
    <2>2. CASE Goto(p, "rbVerify") /\ UNCHANGED <<table, timer, snap, todo, gaveUp>>
      <3>1. pc' \in [Procs -> PCs]  BY <2>2, <1>p DEF PCs
      <3> QED  BY <2>0, <2>2, <3>1 DEF TypeOK
    <2>3. ASSUME NEW e \in todo[p], table' = [table EXCEPT ![e[1]] = NoVia],
                 todo' = [todo EXCEPT ![p] = @ \ {e}], UNCHANGED <<pc, timer, snap, gaveUp>>
          PROVE  TypeOK'
      <3>1. e[1] \in Slots  BY DEF TypeOK
      <3>2. table' \in Tables  BY <2>3, <3>1 DEF TypeOK, Tables
      <3>3. todo' \in [Procs -> SUBSET (Slots \X Vias)]  BY <2>3 DEF TypeOK
      <3> QED  BY <2>0, <2>3, <3>2, <3>3 DEF TypeOK
    <2>4. CASE todo[p] # {} /\ ~(Leave(p, TRUE) /\ UNCHANGED table)
      <3> DEFINE e == CHOOSE x \in todo[p] : \A y \in todo[p] : x[1] <= y[1]
      <3>1. e \in todo[p]
        <4>1. todo[p] \subseteq Slots \X Vias  BY DEF TypeOK
        <4>2. {x[1] : x \in todo[p]} \subseteq Nat /\ {x[1] : x \in todo[p]} # {}
          BY <2>4, <4>1, SlotAssumption
        <4>3. \E m \in {x[1] : x \in todo[p]} : \A k \in {x[1] : x \in todo[p]} : m <= k
          BY <4>2, LowestMetric
        <4> QED  BY <4>3
      <3>2. table' = [table EXCEPT ![e[1]] = NoVia] /\ todo' = [todo EXCEPT ![p] = @ \ {e}]
            /\ UNCHANGED <<pc, timer, snap, gaveUp>>
        BY <1>4, <2>4 DEF RollbackDelete
      <3> HIDE DEF e
      <3> QED  BY <3>1, <3>2, <2>3
    <2> QED  BY <1>4, <2>1, <2>2, <2>4 DEF RollbackDelete
  <1>5. CASE RollbackVerify(p)
    <2>1. CASE Leave(p, TRUE)  BY <1>5, <2>1, <1>e DEF RollbackVerify, TypeOK
    <2>2. CASE Goto(p, "rbDisarm") /\ UNCHANGED <<timer, snap, todo, gaveUp>>
      <3>1. pc' \in [Procs -> PCs]  BY <2>2, <1>p DEF PCs
      <3> QED  BY <1>5, <2>2, <3>1 DEF RollbackVerify, TypeOK
    <2> QED  BY <1>5, <2>1, <2>2 DEF RollbackVerify
  <1>6. CASE RollbackDisarm(p)
    <2>1. pc' \in [Procs -> PCs]  BY <1>6, <1>p DEF RollbackDisarm, PCs
    <2>2. timer' \in [Runs -> {"none", "armed", "fired"}]
      BY <1>6, <1>r DEF RollbackDisarm, StopTimer, TypeOK
    <2> QED  BY <1>6, <2>1, <2>2 DEF RollbackDisarm, ghosts, TypeOK
  <1>7. CASE RollbackMark(p)
    <2>1. state' \in [Runs -> Snapshots \cup {NoState}]  BY <1>7, <1>n DEF RollbackMark, TypeOK
    <2> QED  BY <1>7, <2>1, <1>e DEF RollbackMark, TypeOK
  <1> QED  BY <1>1, <1>2, <1>3, <1>4, <1>5, <1>6, <1>7 DEF RollbackStep

LEMMA NextType == TypeOK /\ [Next]_vars => TypeOK'
  <1> SUFFICES ASSUME TypeOK, [Next]_vars PROVE TypeOK'  OBVIOUS
  <1>1. ASSUME NEW r \in Runs, TakeSnapshot(r) \/ SwitchStep(r) \/ AwaitConfirm(r) PROVE TypeOK'
    BY <1>1, TakeSnapshotTyped, SwitchStepTyped
  <1>2. ASSUME NEW r \in Runs, TimerFires(r) \/ Command(r) \/ Kill(r) PROVE TypeOK'
    <2>1. Switch(r) \in Procs /\ <<"timer", r>> \in Procs /\ <<"rollback", r>> \in Procs
      BY SwitchIsProc DEF Procs, Roles
    <2>2. pc' \in [Procs -> PCs]
      BY <1>2, <2>1, GotoTyped DEF TimerFires, Command, Kill, PCs
    <2>3. timer' \in [Runs -> {"none", "armed", "fired"}]
      BY <1>2 DEF TimerFires, Command, Kill, TypeOK
    <2> QED  BY <1>2, <2>2, <2>3 DEF TimerFires, Command, Kill, ghosts, TypeOK
  <1>3. ASSUME NEW p \in Procs, RollbackStep(p) PROVE TypeOK'  BY <1>3, RollbackStepTyped
  <1>4. CASE OtherProgram
    <2>1. edits' \in 0 .. MaxEdits  BY <1>4, BoundAssumption DEF OtherProgram, TypeOK
    <2>2. PICK e \in Added : table' = [table EXCEPT ![e[1]] = IF @ = NoVia THEN e[2] ELSE NoVia]
      BY <1>4 DEF OtherProgram
    <2>3. e[1] \in Slots /\ e[2] \in Vias  BY TableAssumption
    <2>4. table' \in Tables  BY <2>2, <2>3 DEF Tables, TypeOK
    <2> QED  BY <1>4, <2>1, <2>4 DEF OtherProgram, ghosts, TypeOK
  <1>5. CASE UNCHANGED vars  BY <1>5 DEF vars, TypeOK
  <1> QED  BY <1>1, <1>2, <1>3, <1>4, <1>5 DEF Next

\* Every variable keeps its type, whatever the tables, the faults and the kills
\* are, and however many switches run at the same time.
THEOREM RouteTypeCorrect == Spec => []TypeOK
  BY InitType, NextType, PTL DEF Spec

-----------------------------------------------------------------------------
(* The backup routes                                                       *)

\* The snapshot still describes the table: no route came or went since
Fits(s) == /\ s.slot \in Present(table) /\ s.slot = FirstEntry(table)
           /\ s.baseline = RouteCountFor(table)

\* Every snapshot in use fits, so no rollback finds a residual route
StateFits == \A r \in Runs : state[r] # NoState => Fits(state[r])
ProcFits  == \A p \in Procs : /\ pc[p] \notin {"idle", "done", "rbState"} => Fits(snap[p])
                              /\ todo[p] = {}
BackupInv == edits = 0 => StateFits /\ ProcFits

LEMMA PresentKept ==
  ASSUME NEW t \in Tables, NEW s \in Present(t), NEW v \in Vias
  PROVE  Present(Replaced(t, s, v)) = Present(t)
  BY ViaAssumption DEF Present, Replaced, Tables

\* A step of q that leaves the metrics in use alone keeps every snapshot fitting
LEMMA BackupKept ==
  ASSUME TypeOK, StateFits, ProcFits, NEW q \in Procs, Present(table') = Present(table),
         \A p \in Procs : p # q => pc'[p] = pc[p] /\ snap'[p] = snap[p] /\ todo'[p] = todo[p],
         pc'[q] \notin {"idle", "done", "rbState"} => Fits(snap'[q]),
         todo'[q] = {},
         \A r \in Runs : state'[r] = state[r] \/ Fits(state'[r])
  PROVE  StateFits' /\ ProcFits'
  <1>1. ASSUME NEW s PROVE
          Fits(s) => /\ s.slot \in Present(table') /\ s.slot = FirstEntry(table')
                     /\ s.baseline = RouteCountFor(table')
    BY DEF Fits, FirstEntry, RouteCountFor
  <1>2. \A r \in Runs : state'[r] # NoState => Fits(state'[r])  BY DEF StateFits
  <1>3. \A p \in Procs : /\ pc'[p] \notin {"idle", "done", "rbState"} => Fits(snap'[p])
                         /\ todo'[p] = {}
    BY DEF ProcFits
  <1>4. StateFits'  BY <1>1, <1>2 DEF StateFits, Fits
  <1>5. ProcFits'  BY <1>1, <1>3 DEF ProcFits, Fits
  <1> QED  BY <1>4, <1>5

\* What a step may do to the table while no other program touches it
OnlyFirst == \A s \in Slots : table'[s] # table[s] => s = FirstEntry(table)

LEMMA ReplacedOnlyFirst ==
  ASSUME TypeOK, NEW s, Fits(s), NEW v \in Vias, table' = Replaced(table, s.slot, v)
  PROVE  Present(table') = Present(table) /\ OnlyFirst
  <1>1. Present(table') = Present(table)  BY PresentKept DEF TypeOK, Fits
  <1>2. OnlyFirst  BY DEF OnlyFirst, Replaced, Fits, TypeOK, Tables
  <1> QED  BY <1>1, <1>2

LEMMA SwitchBackup ==
  ASSUME TypeOK, StateFits, ProcFits, NEW r \in Runs,
         TakeSnapshot(r) \/ SwitchStep(r) \/ AwaitConfirm(r) \/ Kill(r)
  PROVE  StateFits' /\ ProcFits' /\ OnlyFirst
  <1> DEFINE q == Switch(r)
  <1>q. q \in Procs  BY SwitchIsProc
  <1>t. UNCHANGED todo
    BY DEF TakeSnapshot, SwitchStep, AwaitConfirm, Kill, WriteState, ArmGuard, VerifyGuard, AbortDisarm,
       AbortMark, ReplaceRoute, VerifyCount, CheckIdentity, KeepDisarm, KeepMark
  <1>1. CASE TakeSnapshot(r)
    <2>1. Present(table') = Present(table) /\ OnlyFirst /\ UNCHANGED state
      BY <1>1 DEF TakeSnapshot, OnlyFirst
    <2>2. \A p \in Procs : p # q => pc'[p] = pc[p] /\ snap'[p] = snap[p] /\ todo'[p] = todo[p]
      BY <1>1, <1>q, <1>t DEF TakeSnapshot, Goto, TypeOK
    <2>3. pc'[q] \notin {"idle", "done", "rbState"} => Fits(snap'[q])
      <3> SUFFICES ASSUME pc'[q] # "done" PROVE Fits(snap'[q])  OBVIOUS
      <3>1. PICK via \in Vias :
              snap' = [snap EXCEPT ![q] = [slot |-> FirstEntry(table), via |-> table[FirstEntry(table)],
                         newVia |-> via, baseline |-> RouteCountFor(table), completed |-> FALSE]]
        BY <1>1, <1>q DEF TakeSnapshot, Goto, TypeOK
      <3>2. Present(table) # {}  BY <1>1, <1>q DEF TakeSnapshot, Goto, TypeOK
      <3>3. FirstEntry(table) \in Present(table)  BY <3>2, FirstEntryIsLeast DEF TypeOK
      <3> QED  BY <1>q, <3>1, <3>3 DEF Fits, TypeOK
    <2> HIDE DEF q
    <2> QED  BY <1>q, <1>t, <2>1, <2>2, <2>3, BackupKept DEF ProcFits
  <1>2. CASE SwitchStep(r) \/ AwaitConfirm(r) \/ Kill(r)
    <2>0. pc[q] \in {"idle", "done", "rbState"} \/ Fits(snap[q])
      BY <1>q DEF ProcFits
    <2>1. \A p \in Procs : p # q => pc'[p] = pc[p]
      BY <1>2, <1>q DEF SwitchStep, AwaitConfirm, Kill, WriteState, ArmGuard, VerifyGuard, AbortDisarm,
         AbortMark, ReplaceRoute, VerifyCount, CheckIdentity, KeepDisarm, KeepMark, Decide, Goto, TypeOK
    <2>2. UNCHANGED snap
      BY <1>2 DEF SwitchStep, AwaitConfirm, Kill, WriteState, ArmGuard, VerifyGuard, AbortDisarm,
       AbortMark, ReplaceRoute, VerifyCount, CheckIdentity, KeepDisarm, KeepMark
    <2>3. Fits(snap[q]) \/ (Kill(r) /\ pc'[q] = "done")
      BY <1>2, <1>q, <2>0 DEF SwitchStep, AwaitConfirm, Kill, WriteState, ArmGuard, VerifyGuard, AbortDisarm,
       AbortMark, ReplaceRoute, VerifyCount, CheckIdentity, KeepDisarm, KeepMark, Goto, TypeOK
    <2>4. Present(table') = Present(table) /\ OnlyFirst
      <3>1. CASE UNCHANGED table  BY <3>1 DEF OnlyFirst
      <3>2. CASE Fits(snap[q]) /\ table' = Replaced(table, snap[q].slot, snap[q].newVia)
        <4>1. snap[q].newVia \in Vias  BY <1>q DEF TypeOK, Snapshots
        <4> QED  BY <3>2, <4>1, ReplacedOnlyFirst
      <3> QED
        BY <1>2, <2>3, <3>1, <3>2 DEF SwitchStep, AwaitConfirm, Kill, WriteState, ArmGuard, VerifyGuard,
           AbortDisarm, AbortMark, ReplaceRoute, VerifyCount, CheckIdentity, KeepDisarm, KeepMark
    <2>5. \A x \in Runs : state'[x] = state[x] \/ Fits(state'[x])
      <3>1. CASE UNCHANGED state  BY <3>1
      <3>2. CASE Fits(snap[q]) /\ (\/ state' = [state EXCEPT ![r] = snap[q]]
                                   \/ state' = [state EXCEPT ![r] = Completed(snap[q])])
        <4>1. snap[q] \in Snapshots  BY <1>q DEF TypeOK
        <4>2. Fits(Completed(snap[q]))
          <5>1. Completed(snap[q]).slot = snap[q].slot /\ Completed(snap[q]).baseline = snap[q].baseline
            BY <4>1 DEF Completed, Snapshots
          <5> QED  BY <3>2, <5>1 DEF Fits
        <4> HIDE DEF q
        <4> QED  BY <3>2, <4>2 DEF TypeOK
      <3> QED
        BY <1>2, <2>3, <3>1, <3>2 DEF SwitchStep, AwaitConfirm, Kill, WriteState, ArmGuard, VerifyGuard,
           AbortDisarm, AbortMark, ReplaceRoute, VerifyCount, CheckIdentity, KeepDisarm, KeepMark
    <2> HIDE DEF q
    <2> QED  BY <1>q, <1>t, <2>1, <2>2, <2>3, <2>4, <2>5, BackupKept DEF ProcFits
  <1> QED  BY <1>1, <1>2

LEMMA RollbackBackup ==
  ASSUME TypeOK, StateFits, ProcFits, NEW q \in Procs, RollbackStep(q)
  PROVE  StateFits' /\ ProcFits' /\ OnlyFirst
  <1>r. RunOf(q) \in Runs  BY DEF Procs, RunOf
  <1>t. todo[q] = {}  BY DEF ProcFits
  <1>n. snap[q] \in Snapshots  BY DEF TypeOK
  <1>1. \A p \in Procs : p # q => pc'[p] = pc[p] /\ snap'[p] = snap[p] /\ todo'[p] = todo[p]
    BY <1>t DEF RollbackStep, ReadRouteState, RollbackRead, RollbackReplace, RollbackDelete, RollbackVerify,
       RollbackDisarm, RollbackMark, Leave, Goto, TypeOK
  <1>2. Present(table') = Present(table) /\ OnlyFirst
    <2>1. CASE UNCHANGED table  BY <2>1 DEF OnlyFirst
    <2>2. CASE RollbackReplace(q) /\ ~UNCHANGED table
      <3>1. Fits(snap[q]) /\ table' = Replaced(table, snap[q].slot, snap[q].via)
        BY <2>2 DEF RollbackReplace, ProcFits
      <3>2. snap[q].via \in Vias  BY <1>n DEF Snapshots
      <3> QED  BY <3>1, <3>2, ReplacedOnlyFirst
    <2> QED
      BY <1>t, <2>1, <2>2 DEF RollbackStep, ReadRouteState, RollbackRead, RollbackReplace, RollbackDelete,
         RollbackVerify, RollbackDisarm, RollbackMark
  <1>3. todo'[q] = {}
    <2>1. CASE RollbackRead(q)
      <3>1. Fits(snap[q])  BY <2>1 DEF RollbackRead, ProcFits
      <3>2. RouteCountFor(table) \in Nat  BY CountTyped
      <3>3. Residual(snap[q], table) = {}  BY <3>1, <3>2 DEF Residual, Fits
      <3> QED  BY <2>1, <3>3 DEF RollbackRead, Leave, TypeOK
    <2> QED
      BY <1>t, <2>1 DEF RollbackStep, ReadRouteState, RollbackReplace, RollbackDelete,
         RollbackVerify, RollbackDisarm, RollbackMark, Leave, TypeOK
  <1>4. pc'[q] \notin {"idle", "done", "rbState"} => Fits(snap'[q])
    <2>1. CASE ReadRouteState(q)
      BY <2>1, <1>r DEF ReadRouteState, Leave, Goto, Pending, StateFits, TypeOK
    <2>2. CASE ~ReadRouteState(q)
      BY <2>2, <1>t DEF RollbackStep, RollbackRead, RollbackReplace, RollbackDelete,
         RollbackVerify, RollbackDisarm, RollbackMark, Leave, Goto, TypeOK, ProcFits
    <2> QED  BY <2>1, <2>2
  <1>5. \A x \in Runs : state'[x] = state[x] \/ Fits(state'[x])
    <2>1. CASE UNCHANGED state  BY <2>1
    <2>2. CASE RollbackMark(q) /\ state' = [state EXCEPT ![RunOf(q)] = Completed(snap[q])]
      <3>1. Fits(snap[q])  BY <2>2 DEF RollbackMark, ProcFits
      <3>2. Completed(snap[q]).slot = snap[q].slot /\ Completed(snap[q]).baseline = snap[q].baseline
        BY <1>n DEF Completed, Snapshots
      <3>3. Fits(Completed(snap[q]))  BY <3>1, <3>2 DEF Fits
      <3> QED  BY <2>2, <3>3 DEF TypeOK
    <2> QED
      BY <2>1, <2>2 DEF RollbackStep, ReadRouteState, RollbackRead, RollbackReplace, RollbackDelete,
         RollbackVerify, RollbackDisarm, RollbackMark
  <1> QED  BY <1>1, <1>2, <1>3, <1>4, <1>5, BackupKept

LEMMA NextBackup ==
  ASSUME TypeOK, BackupInv, [Next]_vars, edits' = 0 PROVE StateFits' /\ ProcFits' /\ OnlyFirst
  <1>1. ~OtherProgram  BY DEF OtherProgram, TypeOK
  <1>2. UNCHANGED edits
    BY <1>1 DEF Next, TakeSnapshot, SwitchStep, AwaitConfirm, Kill, WriteState, ArmGuard, VerifyGuard,
       AbortDisarm, AbortMark, ReplaceRoute, VerifyCount, CheckIdentity, KeepDisarm, KeepMark, TimerFires,
       Command, RollbackStep, ReadRouteState, RollbackRead, RollbackReplace, RollbackDelete, RollbackVerify,
       RollbackDisarm, RollbackMark, vars
  <1>3. StateFits /\ ProcFits  BY <1>2 DEF BackupInv
  <1>4. ASSUME NEW r \in Runs, TimerFires(r) \/ Command(r) PROVE StateFits' /\ ProcFits' /\ OnlyFirst
    <2>1. PICK q \in Procs : Goto(q, "rbState")
      BY <1>4 DEF TimerFires, Command, Procs, Roles
    <2>2. UNCHANGED <<table, state, snap, todo>>  BY <1>4 DEF TimerFires, Command
    <2>3. \A p \in Procs : p # q => pc'[p] = pc[p]  BY <2>1 DEF Goto, TypeOK
    <2>4. pc'[q] = "rbState"  BY <2>1 DEF Goto, TypeOK
    <2>5. OnlyFirst  BY <2>2 DEF OnlyFirst
    <2> QED  BY <1>3, <2>2, <2>3, <2>4, <2>5, BackupKept DEF ProcFits
  <1>5. CASE UNCHANGED vars
    BY <1>5, <1>3 DEF vars, StateFits, ProcFits, Fits, OnlyFirst
  <1> QED  BY <1>1, <1>3, <1>4, <1>5, SwitchBackup, RollbackBackup DEF Next

\* A switch and every rollback of it touch the first route only: the backup
\* routes stay as they are as long as no other program changes the table,
\* however many switches and rollbacks run at the same time, whenever the timers
\* fire and whatever fails.
THEOREM BackupRoutesStay == Spec => BackupRoutesUntouched
  <1>1. Init => BackupInv  BY DEF Init, BackupInv, StateFits, ProcFits
  <1>2. TypeOK /\ BackupInv /\ [Next]_vars => BackupInv'  BY NextBackup DEF BackupInv
  <1>3. TypeOK /\ BackupInv /\ [Next]_vars
          => [edits' = 0 => \A s \in Slots : table'[s] # table[s] => s = FirstEntry(table)]_vars
    BY NextBackup DEF OnlyFirst
  <1> QED  BY RouteTypeCorrect, <1>1, <1>2, <1>3, PTL DEF Spec, BackupRoutesUntouched

-----------------------------------------------------------------------------
(* The guard of a switched route                                           *)

Before   == {"idle", "writeState", "arm", "isActive", "abortDisarm", "abortMark", "replace"}
Restored == {"rbDelete", "rbVerify", "rbDisarm", "rbMark"}   \* the original route is back

\* Nothing rolls back before a person is asked, and nothing is there before it is made
Quiet(r) ==
    /\ pc[Switch(r)] # "rbState"
    /\ pc[Switch(r)] \in {"idle"} \cup Work
         => pc[<<"timer", r>>] = "idle" /\ pc[<<"rollback", r>>] = "idle"
    /\ pc[Switch(r)] \in {"idle", "writeState"} => state[r] = NoState
    /\ pc[Switch(r)] \in {"idle", "writeState", "arm"} => timer[r] = "none"
    /\ ~snap[Switch(r)].completed

\* The route is the work of r only between its replacement and its rollback
Authored(r) ==
    /\ pc[Switch(r)] \in Before => author # r
    /\ \A role \in Roles : pc[<<role, r>>] \in Restored => author # r

\* The state file and the timer are there when the route is replaced, and as
\* long as the new route is in effect
Guards(r) ==
    /\ pc[Switch(r)] \in {"arm", "isActive", "replace"} => Pending(state[r])
    /\ pc[Switch(r)] = "replace" /\ r \notin waived => Active(r)
    /\ pc[Switch(r)] \in {"keepDisarm", "keepMark"} => r \in kept
    /\ author = r /\ r \notin kept \cup waived \cup gaveUp => Pending(state[r]) /\ Active(r)

RunGuard(r) == Quiet(r) /\ Authored(r) /\ Guards(r)
GuardInv    == \A r \in Runs : RunGuard(r)

\* A step that has nothing to do with run r
LEMMA GuardFrame ==
  ASSUME NEW r \in Runs, RunGuard(r),
         \A role \in Roles : pc'[<<role, r>>] = pc[<<role, r>>],
         snap'[Switch(r)] = snap[Switch(r)], state'[r] = state[r], timer'[r] = timer[r],
         author' = r => author = r, r \in kept => r \in kept', r \in waived <=> r \in waived',
         r \in gaveUp => r \in gaveUp'
  PROVE  RunGuard(r)'
  <1>1. pc'[Switch(r)] = pc[Switch(r)] /\ pc'[<<"timer", r>>] = pc[<<"timer", r>>]
        /\ pc'[<<"rollback", r>>] = pc[<<"rollback", r>>]
    BY DEF Switch, Roles
  <1>2. Quiet(r)'  BY <1>1 DEF RunGuard, Quiet, Switch
  <1>3. Authored(r)'  BY <1>1 DEF RunGuard, Authored, Switch
  <1>4. Guards(r)'  BY <1>1 DEF RunGuard, Guards, Switch, Pending, Active
  <1> QED  BY <1>2, <1>3, <1>4 DEF RunGuard

\* The three processes of a run
LEMMA ProcsOfRun ==
  ASSUME NEW r \in Runs
  PROVE  /\ Switch(r) = <<"switch", r>> /\ Switch(r) \in Procs
         /\ <<"timer", r>> \in Procs /\ <<"rollback", r>> \in Procs
         /\ \A x \in Runs, role \in Roles : x # r => <<role, x>> # Switch(r)
         /\ <<"timer", r>> # Switch(r) /\ <<"rollback", r>> # Switch(r)
  BY DEF Switch, Procs, Roles

LEMMA InitGuard == Init => GuardInv
  <1> SUFFICES ASSUME Init, NEW r \in Runs PROVE RunGuard(r)  BY DEF GuardInv
  <1>1. pc[Switch(r)] = "idle" /\ pc[<<"timer", r>>] = "idle" /\ pc[<<"rollback", r>>] = "idle"
        /\ snap[Switch(r)] = NoSnapshot
    BY ProcsOfRun DEF Init
  <1>2. \A role \in Roles : pc[<<role, r>>] = "idle"  BY DEF Init, Procs
  <1>3. author # r  BY FreshAssumption DEF Init
  <1> QED  BY <1>1, <1>2, <1>3 DEF Init, RunGuard, Quiet, Authored, Guards, NoSnapshot, Work, Before, Restored

\* A step of the switch of r, with the run's own part left to show
LEMMA SwitchGuard ==
  ASSUME ~Early, TypeOK, GuardInv, NEW r \in Runs,
         TakeSnapshot(r) \/ SwitchStep(r) \/ AwaitConfirm(r) \/ Kill(r)
  PROVE  GuardInv'
  <1> DEFINE q == Switch(r)
  <1>q. /\ q \in Procs /\ q = <<"switch", r>>
        /\ <<"timer", r>> \in Procs /\ <<"rollback", r>> \in Procs
        /\ \A x \in Runs, role \in Roles : x # r => <<role, x>> # q
        /\ <<"timer", r>> # q /\ <<"rollback", r>> # q
    BY ProcsOfRun
  <1>g. Quiet(r) /\ Authored(r) /\ Guards(r)  BY DEF GuardInv, RunGuard
  <1>p. \A p \in Procs : p # q => pc'[p] = pc[p]
    BY <1>q DEF TakeSnapshot, SwitchStep, AwaitConfirm, Kill, WriteState, ArmGuard, VerifyGuard, AbortDisarm,
       AbortMark, ReplaceRoute, VerifyCount, CheckIdentity, KeepDisarm, KeepMark, Decide, Goto, TypeOK
  <1>n. pc'[q] \in PCs /\ pc[q] \in PCs /\ (\A p \in Procs : p # q => snap'[p] = snap[p])
        /\ snap[q] \in Snapshots
    <2>1. TypeOK'  BY TakeSnapshotTyped, SwitchStepTyped, NextType DEF Next
    <2>2. \A p \in Procs : p # q => snap'[p] = snap[p]
      BY <1>q DEF TakeSnapshot, SwitchStep, AwaitConfirm, Kill, WriteState, ArmGuard, VerifyGuard, AbortDisarm,
         AbortMark, ReplaceRoute, VerifyCount, CheckIdentity, KeepDisarm, KeepMark, TypeOK
    <2> QED  BY <1>q, <2>1, <2>2 DEF TypeOK
  <1>x. ASSUME NEW x \in Runs, x # r PROVE RunGuard(x)'
    <2>1. \A role \in Roles : <<role, x>> \in Procs /\ <<role, x>> # q  BY <1>x, <1>q DEF Procs
    <2>2. \A role \in Roles : pc'[<<role, x>>] = pc[<<role, x>>]  BY <2>1, <1>p
    <2>3. Switch(x) \in Procs /\ Switch(x) # q  BY <2>1 DEF Switch, Roles
    <2>4. snap'[Switch(x)] = snap[Switch(x)]  BY <2>3, <1>n
    <2>5. state'[x] = state[x] /\ timer'[x] = timer[x]
      BY <1>x DEF TakeSnapshot, SwitchStep, AwaitConfirm, Kill, WriteState, ArmGuard, VerifyGuard, AbortDisarm,
         AbortMark, ReplaceRoute, VerifyCount, CheckIdentity, KeepDisarm, KeepMark, StopTimer, TypeOK
    <2>6. author' = x => author = x
      BY <1>x DEF TakeSnapshot, SwitchStep, AwaitConfirm, Kill, WriteState, ArmGuard, VerifyGuard, AbortDisarm,
         AbortMark, ReplaceRoute, VerifyCount, CheckIdentity, KeepDisarm, KeepMark, ghosts
    <2>7. (x \in kept => x \in kept') /\ (x \in waived <=> x \in waived') /\ (x \in gaveUp => x \in gaveUp')
      BY <1>x DEF TakeSnapshot, SwitchStep, AwaitConfirm, Kill, WriteState, ArmGuard, VerifyGuard, AbortDisarm,
         AbortMark, ReplaceRoute, VerifyCount, CheckIdentity, KeepDisarm, KeepMark, Decide, ghosts
    <2> QED  BY <2>2, <2>4, <2>5, <2>6, <2>7, GuardFrame DEF GuardInv
  <1>o. pc'[<<"timer", r>>] = pc[<<"timer", r>>] /\ pc'[<<"rollback", r>>] = pc[<<"rollback", r>>]
    BY <1>q, <1>p
  <1>z. \A role \in Roles : role = "switch" \/ role = "timer" \/ role = "rollback"  BY DEF Roles
  <1>w. ASSUME WriteState(r), pc'[q] = "arm" PROVE Pending(state'[r])
    <2>1. state' = [state EXCEPT ![r] = snap[q]]  BY <1>w, <1>q DEF WriteState, Goto, TypeOK
    <2>2. state'[r] = snap[q]  BY <2>1 DEF TypeOK
    <2>3. Pending(snap[q])  BY <1>n, <1>g, FreshAssumption DEF Pending, Quiet
    <2> QED  BY <2>2, <2>3
  <1>4. RunGuard(r)'
    <2> USE <1>q, <1>g, <1>n, <1>o, <1>z
        DEF Goto, TypeOK, RunGuard, Quiet, Authored, Guards, Pending, Active, Before, Restored, Work
    <2>1. CASE TakeSnapshot(r)
      <3>1. UNCHANGED <<table, state, timer, todo, author, kept, waived, gaveUp>>
            /\ pc[q] = "idle" /\ pc'[q] \in {"writeState", "done"}
        BY <2>1 DEF TakeSnapshot, ghosts
      <3>2. ~snap'[q].completed
        <4>1. CASE UNCHANGED snap  BY <4>1
        <4>2. ASSUME NEW via \in Vias,
                     snap' = [snap EXCEPT ![q] = [slot |-> FirstEntry(table),
                                via |-> table[FirstEntry(table)], newVia |-> via,
                                baseline |-> RouteCountFor(table), completed |-> FALSE]]
              PROVE  ~snap'[q].completed
          <5>1. snap'[q].completed = FALSE  BY <4>2
          <5> QED  BY <5>1
        <4> QED  BY <2>1, <4>1, <4>2 DEF TakeSnapshot
      <3> QED  BY <3>1, <3>2
    <2>2. CASE WriteState(r)
      <3>1. UNCHANGED <<table, timer, snap, todo, author, kept, waived, gaveUp>>
            /\ pc[q] = "writeState" /\ pc'[q] \in {"arm", "done"}
        BY <2>2 DEF WriteState, ghosts
      <3> QED  BY <2>2, <3>1, <1>w
    <2>3. CASE ArmGuard(r)  BY <2>3 DEF ArmGuard, Decide, GuardTier, GuardDecision
    <2>4. CASE VerifyGuard(r)  BY <2>4 DEF VerifyGuard, Decide, GuardTier, GuardDecision
    <2>5. CASE AbortDisarm(r)  BY <2>5 DEF AbortDisarm, StopTimer, ghosts
    <2>6. CASE AbortMark(r)  BY <2>6 DEF AbortMark, ghosts
    <2>7. CASE ReplaceRoute(r)  BY <2>7 DEF ReplaceRoute
    <2>8. CASE VerifyCount(r) \/ CheckIdentity(r)  BY <2>8 DEF VerifyCount, CheckIdentity, ghosts
    <2>9. CASE KeepDisarm(r)  BY <2>9 DEF KeepDisarm, StopTimer, ghosts
    <2>10. CASE KeepMark(r)  BY <2>10 DEF KeepMark, ghosts
    <2>11. CASE AwaitConfirm(r)  BY <2>11 DEF AwaitConfirm
    <2>12. CASE Kill(r)  BY <2>12 DEF Kill, ghosts
    <2> QED  BY <2>1, <2>2, <2>3, <2>4, <2>5, <2>6, <2>7, <2>8, <2>9, <2>10, <2>11, <2>12 DEF SwitchStep
  <1> QED  BY <1>x, <1>4 DEF GuardInv

LEMMA RollbackGuard ==
  ASSUME ~Early, TypeOK, GuardInv, NEW p \in Procs, RollbackStep(p)
  PROVE  GuardInv'
  <1>p. PICK role \in Roles, r \in Runs : p = <<role, r>>  BY DEF Procs
  <1>r. RunOf(p) = r /\ p[1] = role  BY <1>p DEF RunOf
  <1> DEFINE q == Switch(r)
  <1>q. /\ q \in Procs /\ q = <<"switch", r>>
        /\ <<"timer", r>> \in Procs /\ <<"rollback", r>> \in Procs
        /\ <<"timer", r>> # q /\ <<"rollback", r>> # q /\ <<"timer", r>> # <<"rollback", r>>
    BY ProcsOfRun
  <1>z. \A x \in Roles : x = "switch" \/ x = "timer" \/ x = "rollback"  BY DEF Roles
  <1>g. Quiet(r) /\ Authored(r) /\ Guards(r)  BY DEF GuardInv, RunGuard
  <1>a. role = "switch" => pc[p] # "rbState"  BY <1>p, <1>q, <1>g DEF Quiet
  <1>n. /\ \A y \in Procs : y # p => pc'[y] = pc[y] /\ snap'[y] = snap[y]
        /\ UNCHANGED <<kept, waived>>
    BY DEF RollbackStep, ReadRouteState, RollbackRead, RollbackReplace, RollbackDelete, RollbackVerify,
       RollbackDisarm, RollbackMark, Leave, Goto, TypeOK, ghosts
  <1>h. role = "switch" => snap'[p] = snap[p]
    BY <1>a, <1>r DEF RollbackStep, ReadRouteState, RollbackRead, RollbackReplace, RollbackDelete,
       RollbackVerify, RollbackDisarm, RollbackMark, Leave, TypeOK
  <1>s. snap'[q] = snap[q]  BY <1>h, <1>n, <1>p, <1>q
  <1>x. ASSUME NEW x \in Runs, x # r PROVE RunGuard(x)'
    <2>1. \A y \in Roles : <<y, x>> \in Procs /\ <<y, x>> # p  BY <1>x, <1>p DEF Procs
    <2>2. \A y \in Roles : pc'[<<y, x>>] = pc[<<y, x>>]  BY <2>1, <1>n
    <2>3. Switch(x) \in Procs /\ Switch(x) # p  BY <2>1 DEF Switch, Roles
    <2>4. snap'[Switch(x)] = snap[Switch(x)]  BY <2>3, <1>n
    <2>5. state'[x] = state[x] /\ timer'[x] = timer[x]
      BY <1>x, <1>r DEF RollbackStep, ReadRouteState, RollbackRead, RollbackReplace, RollbackDelete,
         RollbackVerify, RollbackDisarm, RollbackMark, Leave, StopTimer, TypeOK
    <2>6. author' = x => author = x
      BY FreshAssumption DEF RollbackStep, ReadRouteState, RollbackRead, RollbackReplace, RollbackDelete,
         RollbackVerify, RollbackDisarm, RollbackMark, ghosts
    <2>7. x \in gaveUp => x \in gaveUp'
      BY DEF RollbackStep, ReadRouteState, RollbackRead, RollbackReplace, RollbackDelete,
         RollbackVerify, RollbackDisarm, RollbackMark, Leave, ghosts
    <2> QED  BY <2>2, <2>4, <2>5, <2>6, <2>7, <1>n, GuardFrame DEF GuardInv
  <1>b. pc[p] \notin {"idle"} \cup Work /\ pc[p] # "replace" /\ pc[p] # "idle"
    BY DEF RollbackStep, ReadRouteState, RollbackRead, RollbackReplace, RollbackDelete,
         RollbackVerify, RollbackDisarm, RollbackMark, Work
  \* The switch is past its work
  <1>c. pc[q] \notin {"idle"} \cup Work /\ pc'[q] \notin {"idle", "rbState"} \cup Work \cup Before
    <2>1. pc[q] \notin {"idle"} \cup Work
      BY <1>b, <1>p, <1>q, <1>z, <1>g DEF Quiet
    <2>2. CASE p = q
      BY <2>2, <1>p, <1>q, <1>a, <1>r DEF RollbackStep, ReadRouteState, RollbackRead, RollbackReplace, RollbackDelete,
         RollbackVerify, RollbackDisarm, RollbackMark, Work, Before, Leave, Goto, TypeOK
    <2>3. CASE p # q
      BY <2>1, <2>3, <1>n, <1>q, <1>g DEF Before, Work, Quiet
    <2> QED  BY <2>1, <2>2, <2>3
  <1>1. Quiet(r)'  BY <1>c, <1>s, <1>g DEF Quiet, Work
  <1>2. Authored(r)'
    <2>1. pc[p] \in Restored \/ RollbackReplace(p) \/ pc'[p] \notin Restored
      BY DEF RollbackStep, ReadRouteState, RollbackRead, RollbackDelete,
         RollbackVerify, RollbackDisarm, RollbackMark, Restored, Leave, Goto, TypeOK
    <2>2. author' = author \/ author' # r
      BY FreshAssumption DEF RollbackStep, ReadRouteState, RollbackRead, RollbackReplace, RollbackDelete,
         RollbackVerify, RollbackDisarm, RollbackMark, ghosts
    <2>3. pc'[p] \in Restored => author' # r
      <3>1. CASE pc[p] \in Restored  BY <3>1, <2>2, <1>p, <1>g DEF Authored
      <3>2. CASE RollbackReplace(p) /\ pc'[p] \in Restored
        BY <3>2, <1>r, FreshAssumption DEF RollbackReplace, Leave, Goto, Restored, TypeOK
      <3> QED  BY <2>1, <3>1, <3>2
    <2>4. ASSUME NEW y \in Roles, pc'[<<y, r>>] \in Restored PROVE author' # r
      <3>1. CASE y = role  BY <3>1, <2>3, <2>4, <1>p
      <3>2. CASE y # role
        <4>1. <<y, r>> \in Procs /\ <<y, r>> # p  BY <3>2, <1>p DEF Procs
        <4> QED  BY <4>1, <2>2, <2>4, <1>n, <1>g DEF Authored
      <3> QED  BY <3>1, <3>2
    <2> QED  BY <1>c, <2>4 DEF Authored, Before
  <1>3. Guards(r)'
    <2>0. pc'[q] \notin {"arm", "isActive", "replace", "keepDisarm", "keepMark"}
          \/ (pc'[q] = pc[q] /\ pc'[q] \in {"keepDisarm", "keepMark"})
      <3>1. CASE p = q
        BY <3>1, <1>r DEF RollbackStep, ReadRouteState, RollbackRead, RollbackReplace, RollbackDelete,
           RollbackVerify, RollbackDisarm, RollbackMark, Leave, Goto, TypeOK
      <3>2. CASE p # q  BY <3>2, <1>c, <1>n, <1>q DEF Work, Before
      <3> QED  BY <3>1, <3>2
    <2>1. author' = r /\ r \notin kept' \cup waived' \cup gaveUp' => Pending(state'[r]) /\ Active(r)'
      <3> SUFFICES ASSUME author' = r, r \notin kept' \cup waived' \cup gaveUp'
                   PROVE  Pending(state'[r]) /\ Active(r)'
        OBVIOUS
      <3>1. author = r /\ r \notin kept \cup waived \cup gaveUp
        BY <1>n, FreshAssumption DEF RollbackStep, ReadRouteState, RollbackRead, RollbackReplace, RollbackDelete,
           RollbackVerify, RollbackDisarm, RollbackMark, Leave, ghosts
      <3>2. Pending(state[r]) /\ Active(r) /\ pc[p] \notin Restored
        BY <3>1, <1>g, <1>p DEF Guards, Authored
      <3>3. UNCHANGED state
        BY <3>2 DEF RollbackStep, ReadRouteState, RollbackRead, RollbackReplace, RollbackDelete,
           RollbackVerify, RollbackDisarm, RollbackMark, Restored
      <3>4. UNCHANGED timer
        <4>1. r \notin gaveUp' => ~(p[1] = "timer" /\ Leave(p, TRUE))  BY <1>r DEF Leave
        <4>2. Leave(p, TRUE) => UNCHANGED timer  BY <4>1 DEF Leave
        <4> QED
          BY <4>2, <3>2, <1>r DEF RollbackStep, ReadRouteState, RollbackRead, RollbackReplace, RollbackDelete,
           RollbackVerify, RollbackDisarm, RollbackMark, Restored
      <3> QED  BY <3>2, <3>3, <3>4 DEF Active
    <2> QED  BY <2>0, <2>1, <1>g, <1>n DEF Guards
  <1> QED  BY <1>x, <1>1, <1>2, <1>3 DEF GuardInv, RunGuard

LEMMA NextGuard == ASSUME ~Early, TypeOK, GuardInv, [Next]_vars PROVE GuardInv'
  <1>1. ASSUME NEW r \in Runs, TimerFires(r) \/ Command(r) PROVE GuardInv'
    <2>q. /\ Switch(r) \in Procs /\ Switch(r) = <<"switch", r>>
          /\ <<"timer", r>> \in Procs /\ <<"rollback", r>> \in Procs
          /\ <<"timer", r>> # Switch(r) /\ <<"rollback", r>> # Switch(r)
      BY ProcsOfRun
    <2>g. Quiet(r) /\ Authored(r) /\ Guards(r)  BY DEF GuardInv, RunGuard
    <2>u. UNCHANGED <<state, snap, author, kept, waived, gaveUp>>
      BY <1>1 DEF TimerFires, Command, ghosts
    <2>p. PICK p \in {<<"timer", r>>, <<"rollback", r>>} : pc' = [pc EXCEPT ![p] = "rbState"]
      BY <1>1 DEF TimerFires, Command, Goto
    <2>w. pc[Switch(r)] \notin {"idle"} \cup Work /\ pc'[Switch(r)] = pc[Switch(r)]
      <3>1. pc[Switch(r)] # "idle"  BY <1>1, <2>g DEF TimerFires, Command, Quiet
      <3> QED  BY <1>1, <2>p, <2>q, <3>1 DEF TimerFires, Command, TypeOK
    <2>x. ASSUME NEW x \in Runs, x # r PROVE RunGuard(x)'
      <3>1. \A y \in Roles : <<y, x>> \in Procs /\ <<y, x>> # p  BY <2>x, <2>p DEF Procs
      <3>2. \A y \in Roles : pc'[<<y, x>>] = pc[<<y, x>>]  BY <3>1, <2>p DEF TypeOK
      <3>3. timer'[x] = timer[x]  BY <1>1, <2>x DEF TimerFires, Command, TypeOK
      <3> QED  BY <3>2, <3>3, <2>u, GuardFrame DEF GuardInv
    <2>1. Quiet(r)'  BY <2>w, <2>g, <2>u DEF Quiet, Work
    <2>2. Authored(r)'
      <3>1. \A y \in Roles : pc'[<<y, r>>] \in Restored => pc[<<y, r>>] \in Restored
        BY <2>p DEF Restored, TypeOK, Procs
      <3> QED  BY <3>1, <2>w, <2>g, <2>u DEF Authored
    <2>3. Guards(r)'
      <3>1. Active(r) => Active(r)'  BY <1>1 DEF TimerFires, Command, Active, TypeOK
      <3> QED  BY <3>1, <2>w, <2>g, <2>u DEF Guards
    <2> QED  BY <2>x, <2>1, <2>2, <2>3 DEF GuardInv, RunGuard
  <1>2. CASE OtherProgram \/ UNCHANGED vars
    <2>1. UNCHANGED <<state, timer, pc, snap, author, kept, waived, gaveUp>>
      BY <1>2 DEF OtherProgram, vars, ghosts
    <2> QED  BY <2>1, GuardFrame DEF GuardInv
  <1> QED  BY <1>1, <1>2, SwitchGuard, RollbackGuard DEF Next

\* A switched route that nobody confirmed is guarded once its switch has ended or
\* died at any step, for any number of switches at the same time and whatever
\* fails, as long as no timer fires before the question is asked.
THEOREM UnconfirmedStaysGuarded == ASSUME ~Early PROVE Spec => []UnconfirmedIsGuarded
  <1>1. TypeOK /\ GuardInv /\ [Next]_vars => GuardInv'  BY NextGuard
  <1>2. GuardInv => UnconfirmedIsGuarded
    BY DEF GuardInv, RunGuard, Guards, UnconfirmedIsGuarded, InEffect
  <1> QED  BY RouteTypeCorrect, InitGuard, <1>1, <1>2, PTL DEF Spec

-----------------------------------------------------------------------------
(* A completed rollback                                                    *)

Loaded == Restored \cup {"rbRead", "rbReplace"}   \* the state file was read

\* The metric is below those that other programs add and drop
Ahead(slot) == \A e \in Added : slot < e[1]
OthersBehind == \A t \in InitTables : Added = {} \/ \E s \in Present(t) : Ahead(s)
OneRun == \A r, x \in Runs : r = x

SameRoute(s, t) == s.slot = t.slot /\ s.via = t.via

\* The route to switch is never one of another program
Chosen(r) ==
    /\ pc[Switch(r)] = "idle" => Added = {} \/ \E s \in Present(table) : Ahead(s)
    /\ pc[Switch(r)] \notin {"idle", "done"} => Ahead(snap[Switch(r)].slot)
    /\ state[r] # NoState => Ahead(snap[Switch(r)].slot)

\* The state file and every rollback know the route that the switch replaced
Known(r) ==
    /\ state[r] # NoState => SameRoute(state[r], snap[Switch(r)])
    /\ \A role \in Roles : pc[<<role, r>>] \in Loaded =>
         /\ SameRoute(snap[<<role, r>>], snap[Switch(r)]) /\ Ahead(snap[Switch(r)].slot)
         /\ pc[<<role, r>>] # "rbRead" =>
              <<snap[Switch(r)].slot, snap[Switch(r)].via>> \notin todo[<<role, r>>]

IsBack(r) == table[snap[Switch(r)].slot] = snap[Switch(r)].via

\* The original route is in the table, before the switch and after a rollback
Back(r) ==
    /\ pc[Switch(r)] \in Before \ {"idle"} => IsBack(r)
    /\ \A role \in Roles : pc[<<role, r>>] \in Restored => IsBack(r)
    /\ state[r] # NoState /\ ~Pending(state[r]) /\ r \notin kept => author # r /\ IsBack(r)

RestoreInv == \A r \in Runs : Chosen(r) /\ Known(r) /\ Back(r)

LEMMA InitRestore == ASSUME Init, OthersBehind PROVE RestoreInv
  <1> SUFFICES ASSUME NEW r \in Runs PROVE Chosen(r) /\ Known(r) /\ Back(r)  BY DEF RestoreInv
  <1>1. pc[Switch(r)] = "idle"  BY ProcsOfRun DEF Init
  <1>2. \A role \in Roles : pc[<<role, r>>] = "idle"  BY DEF Init, Procs
  <1>3. Added = {} \/ \E s \in Present(table) : Ahead(s)  BY DEF Init, OthersBehind
  <1> QED  BY <1>1, <1>2, <1>3 DEF Init, Chosen, Known, Back, Loaded, Restored, Before

LEMMA SameCompleted == ASSUME NEW s \in Snapshots PROVE SameRoute(Completed(s), s)
  BY DEF SameRoute, Completed, Snapshots

LEMMA SwitchRestore ==
  ASSUME ~Early, OneRun, TypeOK, GuardInv, RestoreInv, NEW r \in Runs,
         TakeSnapshot(r) \/ SwitchStep(r) \/ AwaitConfirm(r) \/ Kill(r)
  PROVE  RestoreInv'
  <1> DEFINE q == Switch(r)
  <1>q. /\ q \in Procs /\ q = <<"switch", r>>
        /\ <<"timer", r>> \in Procs /\ <<"rollback", r>> \in Procs
        /\ <<"timer", r>> # q /\ <<"rollback", r>> # q
    BY ProcsOfRun
  <1>g. Quiet(r) /\ Authored(r) /\ Guards(r)  BY DEF GuardInv, RunGuard
  <1>c. Chosen(r) /\ Known(r) /\ Back(r)  BY DEF RestoreInv
  <1>z. \A role \in Roles : role = "switch" \/ role = "timer" \/ role = "rollback"  BY DEF Roles
  <1>t. UNCHANGED todo
    BY DEF TakeSnapshot, SwitchStep, AwaitConfirm, Kill, WriteState, ArmGuard, VerifyGuard, AbortDisarm,
       AbortMark, ReplaceRoute, VerifyCount, CheckIdentity, KeepDisarm, KeepMark
  <1>p. \A p \in Procs : p # q => pc'[p] = pc[p] /\ snap'[p] = snap[p]
    BY <1>q DEF TakeSnapshot, SwitchStep, AwaitConfirm, Kill, WriteState, ArmGuard, VerifyGuard, AbortDisarm,
       AbortMark, ReplaceRoute, VerifyCount, CheckIdentity, KeepDisarm, KeepMark, Decide, Goto, TypeOK
  <1>n. snap[q] \in Snapshots  BY <1>q DEF TypeOK
  <1>s. SUFFICES Chosen(r)' /\ Known(r)' /\ Back(r)'  BY DEF OneRun, RestoreInv
  <1>1. CASE TakeSnapshot(r)
    <2>1. /\ UNCHANGED <<table, state, author, kept>> /\ pc[q] = "idle" /\ state[r] = NoState
          /\ pc'[q] \in {"writeState", "done"}
      BY <1>1, <1>q, <1>g DEF TakeSnapshot, ghosts, Goto, TypeOK, Quiet
    <2>2. pc'[q] = "writeState" => Ahead(snap'[q].slot) /\ table[snap'[q].slot] = snap'[q].via
      <3> SUFFICES ASSUME pc'[q] = "writeState"
                   PROVE  Ahead(snap'[q].slot) /\ table[snap'[q].slot] = snap'[q].via
        OBVIOUS
      <3>1. PICK via \in Vias :
              snap' = [snap EXCEPT ![q] = [slot |-> FirstEntry(table), via |-> table[FirstEntry(table)],
                         newVia |-> via, baseline |-> RouteCountFor(table), completed |-> FALSE]]
        BY <1>1, <1>q DEF TakeSnapshot, Goto, TypeOK
      <3>2. Present(table) # {}  BY <1>1, <1>q DEF TakeSnapshot, Goto, TypeOK
      <3>3. FirstEntry(table) \in Present(table) /\ \A x \in Present(table) : FirstEntry(table) <= x
        BY <3>2, FirstEntryIsLeast DEF TypeOK
      <3>4. Added = {} \/ \E x \in Present(table) : Ahead(x)  BY <2>1, <1>c DEF Chosen
      <3>5. Ahead(FirstEntry(table))
        <4> SUFFICES ASSUME NEW e \in Added PROVE FirstEntry(table) < e[1]  BY DEF Ahead
        <4>1. PICK x \in Present(table) : Ahead(x)  BY <3>4
        <4>2. e[1] \in Nat /\ x \in Nat /\ FirstEntry(table) \in Nat
          BY <3>3, SlotAssumption, TableAssumption DEF Present
        <4>3. FirstEntry(table) <= x /\ x < e[1]  BY <3>3, <4>1 DEF Ahead
        <4> QED  BY <4>2, <4>3
      <3> QED  BY <3>1, <3>5, <1>q DEF TypeOK
    <2>3. \A role \in Roles : pc'[<<role, r>>] \notin Loaded
      BY <2>1, <1>q, <1>z, <1>p, <1>g DEF Quiet, Loaded, Restored
    <2>4. Chosen(r)'  BY <2>1, <2>2 DEF Chosen, Ahead
    <2>5. Known(r)'  BY <2>1, <2>3 DEF Known
    <2>6. Back(r)'
      <3>1. pc'[q] \in Before \ {"idle"} => IsBack(r)'  BY <2>1, <2>2 DEF IsBack, Before
      <3>2. \A role \in Roles : pc'[<<role, r>>] \notin Restored  BY <2>3 DEF Loaded
      <3>3. state'[r] = NoState  BY <2>1
      <3> QED  BY <3>1, <3>2, <3>3 DEF Back
    <2> QED  BY <2>4, <2>5, <2>6
  <1>2. CASE SwitchStep(r) \/ AwaitConfirm(r) \/ Kill(r)
    <2>1. UNCHANGED snap
      BY <1>2 DEF SwitchStep, AwaitConfirm, Kill, WriteState, ArmGuard, VerifyGuard, AbortDisarm,
       AbortMark, ReplaceRoute, VerifyCount, CheckIdentity, KeepDisarm, KeepMark
    <2>2. pc'[q] # "idle" /\ (pc[q] \in {"idle", "done"} => pc'[q] = "done")
          /\ (pc'[q] \in Before => pc[q] \in Before)
          /\ pc'[q] \notin Loaded \ {"rbRead"}
      BY <1>2, <1>q DEF SwitchStep, AwaitConfirm, Kill, WriteState, ArmGuard, VerifyGuard, AbortDisarm,
       AbortMark, ReplaceRoute, VerifyCount, CheckIdentity, KeepDisarm, KeepMark, Decide, Goto, TypeOK,
       Before, Loaded, Restored
    <2>3. \/ UNCHANGED state
          \/ /\ pc[q] # "done" /\ pc[q] # "idle"
             /\ \/ state'[r] = snap[q] /\ pc[q] = "writeState"
                \/ state'[r] = Completed(snap[q]) /\ pc[q] = "keepMark"
                \/ state'[r] = Completed(snap[q]) /\ pc[q] = "abortMark" /\ UNCHANGED author
      BY <1>2, <1>q DEF SwitchStep, AwaitConfirm, Kill, WriteState, ArmGuard, VerifyGuard, AbortDisarm,
       AbortMark, ReplaceRoute, VerifyCount, CheckIdentity, KeepDisarm, KeepMark, TypeOK, ghosts
    <2>4. \/ UNCHANGED table
          \/ pc[q] = "replace" /\ pc'[q] = "verify" /\ UNCHANGED state
      BY <1>2, <1>q DEF SwitchStep, AwaitConfirm, Kill, WriteState, ArmGuard, VerifyGuard, AbortDisarm,
       AbortMark, ReplaceRoute, VerifyCount, CheckIdentity, KeepDisarm, KeepMark, Goto, TypeOK
    <2>5. SameRoute(snap[q], snap[q]) /\ SameRoute(Completed(snap[q]), snap[q])
      BY <1>n, SameCompleted DEF SameRoute
    <2>6. Chosen(r)'
      BY <2>1, <2>2, <2>3, <1>c DEF Chosen, Ahead
    <2>7. Known(r)'
      <3>1. state'[r] # NoState => SameRoute(state'[r], snap[q])  BY <2>3, <2>5, <1>c DEF Known
      <3>2. ASSUME NEW role \in Roles, pc'[<<role, r>>] \in Loaded
            PROVE  /\ SameRoute(snap[<<role, r>>], snap[q]) /\ Ahead(snap[q].slot)
                   /\ pc'[<<role, r>>] # "rbRead" => <<snap[q].slot, snap[q].via>> \notin todo[<<role, r>>]
        <4>1. CASE role = "switch"
          <5>1. pc'[q] = "rbRead" /\ pc[q] \notin {"idle", "done"}
            BY <4>1, <3>2, <2>2, <1>q DEF Loaded, Restored
          <5> QED  BY <4>1, <5>1, <2>5, <1>q, <1>c DEF Chosen
        <4>2. CASE role # "switch"
          <5>1. pc'[<<role, r>>] = pc[<<role, r>>]  BY <4>2, <1>z, <1>q, <1>p
          <5> QED  BY <5>1, <3>2, <1>c DEF Known
        <4> QED  BY <4>1, <4>2
      <3> QED  BY <3>1, <3>2, <2>1, <1>t DEF Known, SameRoute, Ahead
    <2>8. Back(r)'
      <3>1. \A role \in Roles : pc'[<<role, r>>] \in Restored => pc[<<role, r>>] \in Restored
        BY <2>2, <1>z, <1>q, <1>p DEF Loaded, Restored
      <3>2. CASE UNCHANGED table
        <4>1. IsBack(r)' <=> IsBack(r)  BY <3>2, <2>1 DEF IsBack
        <4>2. pc'[q] \in Before \ {"idle"} => IsBack(r)'
          <5>1. pc'[q] \in Before \ {"idle"} => pc[q] \in Before \ {"idle"}
            BY <2>2 DEF Before
          <5> QED  BY <4>1, <5>1, <1>c DEF Back
        <4>3. ASSUME state'[r] # NoState, ~Pending(state'[r]), r \notin kept'
              PROVE  author' # r /\ IsBack(r)'
          <5>0. r \notin kept
            BY <4>3, <1>2 DEF SwitchStep, AwaitConfirm, Kill, WriteState, ArmGuard, VerifyGuard, AbortDisarm,
               AbortMark, ReplaceRoute, VerifyCount, CheckIdentity, KeepDisarm, KeepMark, ghosts
          <5>1. CASE UNCHANGED state
            <6>1. author # r /\ IsBack(r)  BY <5>0, <5>1, <4>3, <1>c DEF Back
            <6>2. UNCHANGED author
              <7>1. ~ReplaceRoute(r)
                <8>1. pc[q] # "replace"  BY <5>1, <4>3, <1>g DEF Guards
                <8> QED  BY <8>1 DEF ReplaceRoute
              <7> QED
                BY <7>1, <1>2 DEF SwitchStep, AwaitConfirm, Kill, WriteState, ArmGuard, VerifyGuard,
                   AbortDisarm, AbortMark, VerifyCount, CheckIdentity, KeepDisarm, KeepMark, ghosts
            <6> QED  BY <6>1, <6>2, <4>1
          <5>2. CASE state'[r] = snap[q] /\ pc[q] = "writeState"
            <6>1. Pending(snap[q])  BY <1>n, <1>g, FreshAssumption DEF Pending, Quiet
            <6> QED  BY <5>2, <6>1, <4>3
          <5>3. CASE pc[q] = "keepMark"  BY <5>0, <5>3, <1>g DEF Guards
          <5>4. CASE pc[q] = "abortMark" /\ UNCHANGED author
            <6>1. author # r /\ IsBack(r)  BY <5>4, <1>g, <1>c DEF Authored, Back, Before
            <6> QED  BY <5>4, <6>1, <4>1
          <5> QED  BY <2>3, <5>1, <5>2, <5>3, <5>4
        <4> QED  BY <4>1, <4>2, <4>3, <3>1, <1>c DEF Back
      <3>3. CASE pc[q] = "replace" /\ pc'[q] = "verify" /\ UNCHANGED state
        <4>1. \A role \in Roles : pc[<<role, r>>] \notin Restored
          BY <3>3, <1>g, <1>z, <1>q DEF Quiet, Work, Restored
        <4>2. Pending(state'[r])  BY <3>3, <1>g DEF Guards
        <4> QED  BY <3>1, <3>3, <4>1, <4>2 DEF Back, Before
      <3> QED  BY <2>4, <3>2, <3>3
    <2> QED  BY <2>6, <2>7, <2>8
  <1> QED  BY <1>1, <1>2

LEMMA RollbackRestore ==
  ASSUME ~Early, OneRun, TypeOK, GuardInv, RestoreInv, NEW p \in Procs, RollbackStep(p)
  PROVE  RestoreInv'
  <1>p. PICK role \in Roles, r \in Runs : p = <<role, r>>  BY DEF Procs
  <1>r. RunOf(p) = r /\ p[1] = role  BY <1>p DEF RunOf
  <1> DEFINE q == Switch(r)
  <1>q. q \in Procs /\ q = <<"switch", r>>  BY ProcsOfRun
  <1>g. Quiet(r) /\ Authored(r) /\ Guards(r)  BY DEF GuardInv, RunGuard
  <1>c. Chosen(r) /\ Known(r) /\ Back(r)  BY DEF RestoreInv
  <1>a. role = "switch" => pc[p] # "rbState"  BY <1>p, <1>q, <1>g DEF Quiet
  <1>n. \A y \in Procs : y # p => pc'[y] = pc[y] /\ snap'[y] = snap[y] /\ todo'[y] = todo[y]
    BY DEF RollbackStep, ReadRouteState, RollbackRead, RollbackReplace, RollbackDelete, RollbackVerify,
       RollbackDisarm, RollbackMark, Leave, Goto, TypeOK
  <1>h. role = "switch" => snap'[p] = snap[p]
    BY <1>a, <1>r DEF RollbackStep, ReadRouteState, RollbackRead, RollbackReplace, RollbackDelete,
       RollbackVerify, RollbackDisarm, RollbackMark, Leave, TypeOK
  <1>u. snap'[q] = snap[q] /\ UNCHANGED kept
    <2>1. snap'[q] = snap[q]  BY <1>h, <1>n, <1>p, <1>q
    <2> QED  BY <2>1 DEF RollbackStep, ReadRouteState, RollbackRead, RollbackReplace, RollbackDelete,
                RollbackVerify, RollbackDisarm, RollbackMark, ghosts
  <1>t. snap[p] \in Snapshots /\ snap[q] \in Snapshots  BY <1>q DEF TypeOK
  <1>s. SUFFICES Chosen(r)' /\ Known(r)' /\ Back(r)'  BY DEF OneRun, RestoreInv
  <1>l. pc[p] = "rbState" \/ (pc[p] \in Loaded /\ SameRoute(snap[p], snap[q]) /\ Ahead(snap[q].slot))
    <2>1. pc[p] = "rbState" \/ pc[p] \in Loaded
      BY DEF RollbackStep, ReadRouteState, RollbackRead, RollbackReplace, RollbackDelete,
         RollbackVerify, RollbackDisarm, RollbackMark, Loaded, Restored
    <2> QED  BY <2>1, <1>p, <1>c DEF Known
  \* The switch is past its work
  <1>w. pc'[q] \notin Before /\ pc'[q] # "idle" /\ (pc'[q] # "done" => pc[q] \notin {"idle", "done"})
    <2>0. pc[p] # "idle"  BY <1>l DEF Loaded, Restored
    <2>1. pc[q] \notin {"idle"} \cup Work
      BY <2>0, <1>l, <1>p, <1>q, <1>g DEF Quiet, Roles, Loaded, Restored, Work
    <2>2. CASE p = q
      <3>1. p[1] = "switch"  BY <2>2, <1>q
      <3>2. pc[p] \notin {"idle", "done"}  BY <1>l DEF Loaded, Restored
      <3>3. pc'[p] \in Loaded \cup {"done"}
        BY <3>1, <1>l DEF RollbackStep, ReadRouteState, RollbackRead, RollbackReplace, RollbackDelete,
           RollbackVerify, RollbackDisarm, RollbackMark, Leave, Goto, TypeOK, Loaded, Restored
      <3> QED  BY <2>2, <3>2, <3>3 DEF Before, Loaded, Restored
    <2>3. CASE p # q
      BY <2>1, <2>3, <1>n, <1>q DEF Before, Work
    <2> QED  BY <2>2, <2>3
  <1>e. UNCHANGED state \/ (pc[p] = "rbMark" /\ state' = [state EXCEPT ![r] = Completed(snap[p])])
    BY <1>r DEF RollbackStep, ReadRouteState, RollbackRead, RollbackReplace, RollbackDelete,
       RollbackVerify, RollbackDisarm, RollbackMark
  <1>1. Chosen(r)'
    <2>1. state'[r] # NoState => Ahead(snap[q].slot)
      BY <1>e, <1>l, <1>c DEF Chosen
    <2> QED  BY <2>1, <1>u, <1>w, <1>c DEF Chosen, Ahead
  <1>2. Known(r)'
    <2>1. state'[r] # NoState => SameRoute(state'[r], snap[q])
      <3>1. CASE UNCHANGED state  BY <3>1, <1>c DEF Known
      <3>2. CASE pc[p] = "rbMark" /\ state' = [state EXCEPT ![r] = Completed(snap[p])]
        <4>1. state'[r] = Completed(snap[p])  BY <3>2 DEF TypeOK
        <4>2. SameRoute(Completed(snap[p]), snap[p]) /\ SameRoute(snap[p], snap[q])
          BY <3>2, <1>l, <1>t, SameCompleted
        <4> QED  BY <4>1, <4>2 DEF SameRoute
      <3> QED  BY <1>e, <3>1, <3>2
    <2>2. ASSUME pc'[p] \in Loaded
          PROVE  /\ SameRoute(snap'[p], snap[q]) /\ Ahead(snap[q].slot)
                 /\ pc'[p] # "rbRead" => <<snap[q].slot, snap[q].via>> \notin todo'[p]
      <3>0. ASSUME NEW f \in BOOLEAN, Leave(p, f) PROVE FALSE
        BY <3>0, <2>2 DEF Leave, Goto, Loaded, Restored, TypeOK
      <3>1. CASE pc[p] = "rbState"
        <4>1. ReadRouteState(p)
          BY <3>1 DEF RollbackStep, RollbackRead, RollbackReplace, RollbackDelete,
             RollbackVerify, RollbackDisarm, RollbackMark
        <4>2. snap'[p] = state[r] /\ pc'[p] = "rbRead" /\ state[r] # NoState
          BY <4>1, <3>0, <1>r DEF ReadRouteState, Pending, Goto, TypeOK
        <4> QED  BY <4>2, <1>c DEF Known, Chosen
      <3>2. CASE RollbackRead(p)
        <4>1. snap'[p] = snap[p] /\ todo'[p] = Residual(snap[p], table) /\ SameRoute(snap[p], snap[q])
              /\ Ahead(snap[q].slot)
          BY <3>0, <3>2, <1>l DEF RollbackRead, TypeOK
        <4>2. <<snap[p].slot, snap[p].via>> \notin Residual(snap[p], table)  BY DEF Residual
        <4> QED  BY <4>1, <4>2 DEF SameRoute
      <3>3. CASE pc[p] # "rbState" /\ ~RollbackRead(p)
        <4>1. snap'[p] = snap[p] /\ todo'[p] \subseteq todo[p] /\ pc[p] # "rbRead"
          BY <3>0, <3>3 DEF RollbackStep, ReadRouteState, RollbackReplace, RollbackDelete,
             RollbackVerify, RollbackDisarm, RollbackMark, TypeOK
        <4>2. <<snap[q].slot, snap[q].via>> \notin todo[p]  BY <4>1, <3>3, <1>l, <1>p, <1>c DEF Known
        <4> QED  BY <4>1, <4>2, <3>3, <1>l
      <3> QED  BY <3>1, <3>2, <3>3
    <2>3. ASSUME NEW y \in Roles, pc'[<<y, r>>] \in Loaded
          PROVE  /\ SameRoute(snap'[<<y, r>>], snap[q]) /\ Ahead(snap[q].slot)
                 /\ pc'[<<y, r>>] # "rbRead" => <<snap[q].slot, snap[q].via>> \notin todo'[<<y, r>>]
      <3>1. CASE <<y, r>> = p  BY <3>1, <2>3, <2>2
      <3>2. CASE <<y, r>> # p
        <4>1. <<y, r>> \in Procs  BY DEF Procs
        <4> QED  BY <3>2, <4>1, <2>3, <1>n, <1>c DEF Known
      <3> QED  BY <3>1, <3>2
    <2> QED  BY <2>1, <2>3, <1>u DEF Known, SameRoute, Ahead
  <1>3. Back(r)'
    <2>1. IsBack(r) => IsBack(r)'
      <3>1. CASE UNCHANGED table  BY <3>1, <1>u DEF IsBack
      <3>2. CASE RollbackReplace(p) /\ ~UNCHANGED table
        <4>1. table' = Replaced(table, snap[p].slot, snap[p].via) /\ SameRoute(snap[p], snap[q])
          BY <3>2, <1>l DEF RollbackReplace
        <4>2. snap[p].slot \in Slots  BY <1>t DEF Snapshots
        <4> QED  BY <4>1, <4>2, <1>u DEF Replaced, SameRoute, IsBack, TypeOK, Tables
      <3>3. CASE RollbackDelete(p) /\ ~UNCHANGED table
        <4>1. todo[p] # {}  BY <3>3 DEF RollbackDelete
        <4> DEFINE e == CHOOSE x \in todo[p] : \A y \in todo[p] : x[1] <= y[1]
        <4>2. e \in todo[p]
          <5>1. todo[p] \subseteq Slots \X Vias  BY DEF TypeOK
          <5>2. {x[1] : x \in todo[p]} \subseteq Nat /\ {x[1] : x \in todo[p]} # {}
            BY <4>1, <5>1, SlotAssumption
          <5>3. \E m \in {x[1] : x \in todo[p]} : \A k \in {x[1] : x \in todo[p]} : m <= k
            BY <5>2, LowestMetric
          <5> QED  BY <5>3
        <4>3. table[e[1]] = e[2] /\ table' = [table EXCEPT ![e[1]] = NoVia]
          BY <3>3, <4>1 DEF RollbackDelete
        <4> HIDE DEF e
        <4>4. PICK es \in Slots, ev \in Vias : e = <<es, ev>>  BY <4>2 DEF TypeOK
        <4>5. <<snap[q].slot, snap[q].via>> \notin todo[p]
          <5>1. pc[p] = "rbDelete" /\ pc[p] \in Loaded  BY <3>3 DEF RollbackDelete, Loaded, Restored
          <5> QED  BY <5>1, <1>p, <1>c DEF Known
        <4>6. ~(es = snap[q].slot /\ ev = snap[q].via)  BY <4>2, <4>4, <4>5
        <4>7. table[es] = ev /\ table' = [table EXCEPT ![es] = NoVia]  BY <4>3, <4>4
        <4>8. snap[q].slot \in Slots  BY <1>t DEF Snapshots
        <4> QED  BY <4>6, <4>7, <4>8, <1>u DEF IsBack, TypeOK, Tables
      <3> QED
        BY <3>1, <3>2, <3>3 DEF RollbackStep, ReadRouteState, RollbackRead,
           RollbackVerify, RollbackDisarm, RollbackMark
    <2>2. pc'[p] \in Restored => IsBack(r)'
      <3>1. CASE pc[p] \in Restored  BY <3>1, <2>1, <1>p, <1>c DEF Back
      <3>2. CASE pc[p] \notin Restored /\ pc'[p] \in Restored
        <4>1. RollbackReplace(p) /\ table' = Replaced(table, snap[p].slot, snap[p].via)
          BY <3>2 DEF RollbackStep, ReadRouteState, RollbackRead, RollbackReplace, RollbackDelete,
             RollbackVerify, RollbackDisarm, RollbackMark, Restored, Leave, Goto, TypeOK
        <4>2. SameRoute(snap[p], snap[q])  BY <4>1, <1>l DEF RollbackReplace
        <4>3. snap[p].slot \in Slots  BY <1>t DEF Snapshots
        <4> QED  BY <4>1, <4>2, <4>3, <1>u DEF Replaced, SameRoute, IsBack, TypeOK, Tables
      <3> QED  BY <3>1, <3>2
    <2>3. ASSUME NEW y \in Roles, pc'[<<y, r>>] \in Restored PROVE IsBack(r)'
      <3>1. CASE <<y, r>> = p  BY <3>1, <2>3, <2>2
      <3>2. CASE <<y, r>> # p
        <4>1. <<y, r>> \in Procs  BY DEF Procs
        <4> QED  BY <3>2, <4>1, <2>1, <2>3, <1>n, <1>c DEF Back
      <3> QED  BY <3>1, <3>2
    <2>4. author' = author \/ author' # r
      BY FreshAssumption DEF RollbackStep, ReadRouteState, RollbackRead, RollbackReplace, RollbackDelete,
         RollbackVerify, RollbackDisarm, RollbackMark, ghosts
    <2>5. ASSUME state'[r] # NoState, ~Pending(state'[r]), r \notin kept' PROVE author' # r /\ IsBack(r)'
      <3>1. CASE UNCHANGED state  BY <3>1, <2>1, <2>4, <2>5, <1>u, <1>c DEF Back
      <3>2. CASE pc[p] = "rbMark"
        BY <3>2, <2>1, <2>4, <1>p, <1>g, <1>c DEF Back, Authored, Restored
      <3> QED  BY <1>e, <3>1, <3>2
    <2> QED  BY <2>3, <2>5, <1>w DEF Back
  <1> QED  BY <1>1, <1>2, <1>3

LEMMA NextRestore ==
  ASSUME ~Early, OneRun, TypeOK, GuardInv, RestoreInv, [Next]_vars PROVE RestoreInv'
  <1>1. ASSUME NEW r \in Runs, TimerFires(r) \/ Command(r) PROVE RestoreInv'
    <2>q. /\ Switch(r) \in Procs /\ Switch(r) = <<"switch", r>>
          /\ <<"timer", r>> \in Procs /\ <<"rollback", r>> \in Procs
          /\ <<"timer", r>> # Switch(r) /\ <<"rollback", r>> # Switch(r)
      BY ProcsOfRun
    <2>c. Chosen(r) /\ Known(r) /\ Back(r)  BY DEF RestoreInv
    <2>u. UNCHANGED <<table, state, snap, todo, author, kept>>
      BY <1>1 DEF TimerFires, Command, ghosts
    <2>p. PICK p \in {<<"timer", r>>, <<"rollback", r>>} : pc' = [pc EXCEPT ![p] = "rbState"]
      BY <1>1 DEF TimerFires, Command, Goto
    <2>w. pc'[Switch(r)] = pc[Switch(r)]  BY <2>p, <2>q DEF TypeOK
    <2>l. \A y \in Roles : pc'[<<y, r>>] \in Loaded => pc'[<<y, r>>] = pc[<<y, r>>]
      BY <2>p DEF Loaded, Restored, TypeOK, Procs
    <2>1. Chosen(r)'  BY <2>w, <2>c, <2>u DEF Chosen, Ahead
    <2>2. Known(r)'  BY <2>l, <2>c, <2>u DEF Known, SameRoute, Ahead
    <2>3. Back(r)'
      <3>1. \A y \in Roles : pc'[<<y, r>>] \in Restored => pc[<<y, r>>] \in Restored
        BY <2>l DEF Loaded
      <3> QED  BY <3>1, <2>w, <2>c, <2>u DEF Back, IsBack
    <2> QED  BY <2>1, <2>2, <2>3 DEF OneRun, RestoreInv
  <1>2. CASE OtherProgram
    <2> SUFFICES ASSUME NEW r \in Runs PROVE Chosen(r)' /\ Known(r)' /\ Back(r)'  BY DEF RestoreInv
    <2>c. Chosen(r) /\ Known(r) /\ Back(r)  BY DEF RestoreInv
    <2>u. UNCHANGED <<state, pc, snap, todo, author, kept>>  BY <1>2 DEF OtherProgram, ghosts
    <2>e. PICK e \in Added : table' = [table EXCEPT ![e[1]] = IF @ = NoVia THEN e[2] ELSE NoVia]
      BY <1>2 DEF OtherProgram
    <2>t. e[1] \in Nat /\ e[1] \in Slots /\ \A s \in Slots : s \in Nat
      BY SlotAssumption, TableAssumption
    <2>a. ASSUME NEW s \in Slots, Ahead(s) PROVE table'[s] = table[s]
      <3>1. s # e[1]  BY <2>a, <2>t DEF Ahead
      <3> QED  BY <3>1, <2>e DEF TypeOK, Tables
    <2>b. Switch(r) \in Procs /\ snap[Switch(r)].slot \in Slots
      BY ProcsOfRun DEF TypeOK, Snapshots
    <2>i. Ahead(snap[Switch(r)].slot) => (IsBack(r)' <=> IsBack(r))
      BY <2>a, <2>b, <2>u DEF IsBack
    <2>1. Chosen(r)'
      <3>1. (\E s \in Present(table) : Ahead(s)) => \E s \in Present(table') : Ahead(s)
        BY <2>a DEF Present
      <3> QED  BY <3>1, <2>u, <2>c DEF Chosen, Ahead
    <2>2. Known(r)'  BY <2>u, <2>c DEF Known, SameRoute, Ahead
    <2>3. Back(r)'
      <3>1. pc[Switch(r)] \in Before \ {"idle"} => Ahead(snap[Switch(r)].slot)
        BY <2>c DEF Chosen, Before
      <3>2. \A role \in Roles : pc[<<role, r>>] \in Restored => Ahead(snap[Switch(r)].slot)
        BY <2>c DEF Known, Loaded
      <3>3. state[r] # NoState => Ahead(snap[Switch(r)].slot)  BY <2>c DEF Chosen
      <3> QED  BY <3>1, <3>2, <3>3, <2>i, <2>u, <2>c DEF Back
    <2> QED  BY <2>1, <2>2, <2>3
  <1>3. CASE UNCHANGED vars
    BY <1>3 DEF vars, RestoreInv, Chosen, Known, Back, IsBack, SameRoute, Ahead
  <1> QED  BY <1>1, <1>2, <1>3, SwitchRestore, RollbackRestore DEF Next

\* For a switch that no other one follows: a state file that says "completed"
\* although nobody confirmed means that the original route is back, whichever of
\* the switch, its timer and a person's command wrote it and however their steps
\* interleave, as long as no timer fires before the question is asked and other
\* programs only add and drop routes behind the first one.
THEOREM CompletedMeansRestored ==
  ASSUME ~Early, OneRun, OthersBehind PROVE Spec => []CompletedIsRestored
  <1>1. Init => RestoreInv  BY InitRestore
  <1>2. TypeOK /\ GuardInv /\ RestoreInv /\ [Next]_vars => GuardInv' /\ RestoreInv'
    BY NextGuard, NextRestore
  <1>3. RestoreInv => CompletedIsRestored
    BY DEF RestoreInv, Known, Back, IsBack, SameRoute, CompletedIsRestored, InEffect
  <1> QED  BY RouteTypeCorrect, InitGuard, <1>1, <1>2, <1>3, PTL DEF Spec

=============================================================================
