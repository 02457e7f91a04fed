-------------------------------- MODULE Route --------------------------------
(***************************************************************************)
(* `edc route switch': the default route is replaced while a systemd timer *)
(* waits to run `edc route rollback', and kept when somebody confirms.     *)
(*                                                                         *)
(* Unlike `edc change' there is no lock: the interactive switch, the       *)
(* rollback started by its timer and a rollback typed by a person share    *)
(* the kernel's routing table and one state file per run.  One action is   *)
(* one netlink call, external command or file write.                       *)
(***************************************************************************)
EXTENDS Integers, FiniteSets, FiniteSetsExt

CONSTANTS
    Runs,            \* run IDs: one `route switch' each
    Slots,           \* what identifies a route to the destination: its metric
    Vias,            \* next hops
    NoVia,           \* no route with that metric
    InitTables,      \* the routing tables a behaviour may start from
    Added,           \* the routes another program may add: <<slot, via>>
    NoState, NoRun,
    Faults,          \* calls that may fail
    Early,           \* the timer may fire before the switch asks for confirmation
    Overlap,         \* a switch may start while another one is not over
    KillPoints,      \* the steps at which the switch may be killed
    MaxEdits         \* bound on the changes by other programs

FaultNames == {"write", "netlink", "arm", "isActive", "stop"}
Tables     == [Slots -> Vias \cup {NoVia}]
\* routeSnapshot: the route to replace, its new next hop and the route count
Snapshots  == [slot : Slots, via : Vias, newVia : Vias,
               baseline : 0 .. Cardinality(Slots), completed : BOOLEAN]

ASSUME SlotAssumption  == Slots \subseteq Nat /\ IsFiniteSet(Slots) /\ Slots # {}
ASSUME ViaAssumption   == NoVia \notin Vias /\ Vias # {}
ASSUME TableAssumption == InitTables \subseteq Tables /\ Added \subseteq Slots \X Vias
ASSUME SwitchAssumption == Early \in BOOLEAN /\ Overlap \in BOOLEAN
ASSUME FaultAssumption == Faults \subseteq FaultNames
ASSUME BoundAssumption == MaxEdits \in Nat
ASSUME FreshAssumption == NoState \notin Snapshots /\ NoRun \notin Runs

Roles == {"switch", "timer", "rollback"}
Procs == Roles \X Runs
RunOf(p) == p[2]

VARIABLES
    table,    \* the kernel's routes to the destination
    state,    \* state[r]: the file /run/edc/route-<r>.json
    timer,    \* timer[r]: "none", "armed", or "fired" while its job runs
    pc,       \* pc[p]: the step at which process p is
    snap,     \* snap[p]: the routeSnapshot p holds in memory
    todo,     \* todo[p]: the routes that p still has to delete
    author,   \* ghost: the run whose switch set the route last, or NoRun
    kept,     \* ghost: the runs somebody confirmed
    waived,   \* ghost: the runs that guardDecision let through without a verified timer
    gaveUp,   \* ghost: the runs whose timer's rollback reported a failure
    edits

vars == <<table, state, timer, pc, snap, todo, author, kept, waived, gaveUp, edits>>

PCs == {"idle", "writeState", "arm", "isActive", "abortDisarm", "abortMark",
        "replace", "verify", "identity", "confirm", "keepDisarm", "keepMark",
        "rbState", "rbRead", "rbReplace", "rbDelete", "rbVerify", "rbDisarm",
        "rbMark", "done"}

\* The steps before a person is asked
Work == {"writeState", "arm", "isActive", "abortDisarm", "abortMark",
         "replace", "verify", "identity"}

TypeOK ==
    /\ table \in Tables
    /\ state \in [Runs -> Snapshots \cup {NoState}]
    /\ timer \in [Runs -> {"none", "armed", "fired"}]
    /\ pc \in [Procs -> PCs]
    /\ snap \in [Procs -> Snapshots]
    /\ todo \in [Procs -> SUBSET (Slots \X Vias)]
    /\ author \in Runs \cup {NoRun}
    /\ kept \subseteq Runs /\ waived \subseteq Runs /\ gaveUp \subseteq Runs
    /\ edits \in 0 .. MaxEdits

NoSnapshot == [slot |-> CHOOSE s \in Slots : TRUE, via |-> CHOOSE v \in Vias : TRUE,
               newVia |-> CHOOSE v \in Vias : TRUE, baseline |-> 0, completed |-> FALSE]

Init ==
    /\ table \in InitTables
    /\ state = [r \in Runs |-> NoState]
    /\ timer = [r \in Runs |-> "none"]
    /\ pc = [p \in Procs |-> "idle"]
    /\ snap = [p \in Procs |-> NoSnapshot]
    /\ todo = [p \in Procs |-> {}]
    /\ author = NoRun
    /\ kept = {} /\ waived = {} /\ gaveUp = {}
    /\ edits = 0

-----------------------------------------------------------------------------
(* What the code computes from the routing table and a snapshot.           *)

Present(t)       == {s \in Slots : t[s] # NoVia}
Entries(t)       == {<<s, t[s]>> : s \in Present(t)}

RouteCountAfter(t) == Cardinality(Present(t)) + 1
RouteCountFor(t)   == Cardinality(Present(t))

\* The kernel lists the routes to a destination by metric
FirstEntry(t) == Min(Present(t))

\* RouteReplace: the route with the same key, or a new one
Replaced(t, slot, via) == [t EXCEPT ![slot] = via]

ResidualAtBaseline(s, t) ==
    IF RouteCountFor(t) < s.baseline THEN {} ELSE Entries(t) \ {<<s.slot, s.via>>}
\* rollbackOps: what is deleted after the original route was put back.  All
\* routes of the table read before that, except the original one.
Residual(s, t) ==
    IF RouteCountFor(t) <= s.baseline THEN {} ELSE Entries(t) \ {<<s.slot, s.via>>}

\* detectGuardTier
GuardTier(armed, active) == IF ~armed THEN 4 ELSE IF active THEN 1 ELSE 3

GuardDecisionByArming(tier, risk, force) == risk # "high" \/ tier # 4 \/ force
GuardDecision(tier, risk, force) == risk # "high" \/ tier \notin {3, 4} \/ force

Active(r)    == timer[r] # "none"
Pending(s)   == s # NoState /\ ~s.completed
Completed(s) == [s EXCEPT !.completed = TRUE]

-----------------------------------------------------------------------------
Goto(p, label) == pc' = [pc EXCEPT ![p] = label]
MayFail(f)     == f \in Faults
Switch(r)      == <<"switch", r>>
StopTimer(r)   == timer' = [timer EXCEPT ![r] = "none"]
ghosts         == <<author, kept, waived, gaveUp>>

\* The process ends, its memory with it (the properties still look at what a
\* switch holds); a timer's job is collected with its unit
Leave(p, failed) ==
    /\ Goto(p, IF p[1] = "rollback" THEN "idle" ELSE "done")
    /\ timer' = IF p[1] = "timer" THEN [timer EXCEPT ![RunOf(p)] = "none"] ELSE timer
    /\ gaveUp' = IF p[1] = "timer" /\ failed THEN gaveUp \cup {RunOf(p)} ELSE gaveUp
    /\ snap' = IF p[1] = "switch" THEN snap ELSE [snap EXCEPT ![p] = NoSnapshot]
    /\ todo' = [todo EXCEPT ![p] = {}]

-----------------------------------------------------------------------------
(* executeRouteSwitch                                                      *)

\* The snapshot; or an end before anything was made: the table cannot be read
\* or has no such route, the next hop is broken and --force is missing, --dry-run
TakeSnapshot(r) ==
    /\ pc[Switch(r)] = "idle"
    /\ Overlap \/ \A p \in Procs : RunOf(p) # r => pc[p] \in {"idle", "done"}
    /\ \/ /\ Present(table) # {}
          /\ \E via \in Vias :
               snap' = [snap EXCEPT ![Switch(r)] =
                          [slot |-> FirstEntry(table), via |-> table[FirstEntry(table)],
                           newVia |-> via, baseline |-> RouteCountFor(table),
                           completed |-> FALSE]]
          /\ Goto(Switch(r), "writeState")
       \/ Goto(Switch(r), "done") /\ UNCHANGED snap
    /\ UNCHANGED <<table, state, timer, todo, ghosts, edits>>

\* writeRouteState, before anything is changed
WriteState(r) ==
    /\ pc[Switch(r)] = "writeState"
    /\ \/ /\ state' = [state EXCEPT ![r] = snap[Switch(r)]]
          /\ Goto(Switch(r), "arm")
       \/ MayFail("write") /\ Goto(Switch(r), "done") /\ UNCHANGED state
    /\ UNCHANGED <<table, timer, snap, todo, ghosts, edits>>

\* guardDecision on what was observed: go on, perhaps without a verified timer
Decide(r, tier) ==
    \E risk \in {"low", "high"}, force \in BOOLEAN :
        IF GuardDecision(tier, risk, force)
        THEN /\ Goto(Switch(r), "replace")
             /\ waived' = IF tier # 1 /\ (risk = "low" \/ force) THEN waived \cup {r} ELSE waived
        ELSE Goto(Switch(r), "abortDisarm") /\ UNCHANGED waived

\* armGuard, systemd-run: it may fail, or succeed and leave no timer
ArmGuard(r) ==
    /\ pc[Switch(r)] = "arm"
    /\ \/ /\ timer' = [timer EXCEPT ![r] = "armed"]
          /\ Goto(Switch(r), "isActive")
          /\ UNCHANGED waived
       \/ /\ MayFail("arm")
          /\ UNCHANGED <<timer, waived>>
          /\ Goto(Switch(r), "isActive")
       \/ /\ MayFail("arm")
          /\ timer' \in {timer, [timer EXCEPT ![r] = "armed"]}
          /\ Decide(r, GuardTier(FALSE, FALSE))
    /\ UNCHANGED <<table, state, snap, todo, author, kept, gaveUp, edits>>

\* armGuard, systemctl is-active
VerifyGuard(r) ==
    /\ pc[Switch(r)] = "isActive"
    /\ \/ Decide(r, GuardTier(TRUE, timer[r] = "armed"))
       \/ MayFail("isActive") /\ Decide(r, GuardTier(TRUE, FALSE))
    /\ UNCHANGED <<table, state, timer, snap, todo, author, kept, gaveUp, edits>>

\* abortRouteSwitch
AbortDisarm(r) ==
    /\ pc[Switch(r)] = "abortDisarm"
    /\ StopTimer(r) \/ (MayFail("stop") /\ UNCHANGED timer)
    /\ Goto(Switch(r), "abortMark")
    /\ UNCHANGED <<table, state, snap, todo, ghosts, edits>>

AbortMark(r) ==
    /\ pc[Switch(r)] = "abortMark"
    /\ \/ state' = [state EXCEPT ![r] = Completed(snap[Switch(r)])]
       \/ MayFail("write") /\ UNCHANGED state
    /\ Goto(Switch(r), "done")
    /\ UNCHANGED <<table, timer, snap, todo, ghosts, edits>>

ReplaceRoute(r) ==
    LET s == snap[Switch(r)] IN
    /\ pc[Switch(r)] = "replace"
    /\ \/ /\ table' = Replaced(table, s.slot, s.newVia)
          /\ author' = r
          /\ Goto(Switch(r), "verify")
       \/ MayFail("netlink") /\ Goto(Switch(r), "abortDisarm") /\ UNCHANGED <<table, author>>
    /\ UNCHANGED <<state, timer, snap, todo, kept, waived, gaveUp, edits>>

\* The number of routes must not have changed
VerifyCount(r) ==
    /\ pc[Switch(r)] = "verify"
    /\ \/ Goto(Switch(r), IF RouteCountFor(table) = snap[Switch(r)].baseline
                          THEN "identity" ELSE "rbRead")
       \/ MayFail("netlink") /\ Goto(Switch(r), "rbRead")
    /\ UNCHANGED <<table, state, timer, snap, todo, ghosts, edits>>

\* fetchPublicIP: matched or skipped, or an error or a mismatch
CheckIdentity(r) ==
    /\ pc[Switch(r)] = "identity"
    /\ \E next \in {"confirm", "rbRead"} : Goto(Switch(r), next)
    /\ UNCHANGED <<table, state, timer, snap, todo, ghosts, edits>>

\* routeSwitchAwaitConfirm: yes, or no, an error and a signal alike
AwaitConfirm(r) ==
    /\ pc[Switch(r)] = "confirm"
    /\ \/ kept' = kept \cup {r} /\ Goto(Switch(r), "keepDisarm")
       \/ UNCHANGED kept /\ Goto(Switch(r), "rbRead")
    /\ UNCHANGED <<table, state, timer, snap, todo, author, waived, gaveUp, edits>>

\* disarmGuard: a failure is a warning
KeepDisarm(r) ==
    /\ pc[Switch(r)] = "keepDisarm"
    /\ StopTimer(r) \/ (MayFail("stop") /\ UNCHANGED timer)
    /\ Goto(Switch(r), "keepMark")
    /\ UNCHANGED <<table, state, snap, todo, ghosts, edits>>

KeepMark(r) ==
    /\ pc[Switch(r)] = "keepMark"
    /\ \/ state' = [state EXCEPT ![r] = Completed(snap[Switch(r)])]
       \/ MayFail("write") /\ UNCHANGED state
    /\ Goto(Switch(r), "done")
    /\ UNCHANGED <<table, timer, snap, todo, ghosts, edits>>

-----------------------------------------------------------------------------
(* runRouteRollback and executeRouteRollback                               *)

TimerFires(r) ==
    /\ timer[r] = "armed"
    /\ Early \/ pc[Switch(r)] \notin Work
    /\ timer' = [timer EXCEPT ![r] = "fired"]
    /\ Goto(<<"timer", r>>, "rbState")
    /\ UNCHANGED <<table, state, snap, todo, ghosts, edits>>

\* A person types `route rollback --state'
Command(r) ==
    /\ pc[<<"rollback", r>>] = "idle"
    /\ state[r] # NoState
    /\ Early \/ pc[Switch(r)] \notin Work
    /\ Goto(<<"rollback", r>>, "rbState")
    /\ UNCHANGED <<table, state, timer, snap, todo, ghosts, edits>>

ReadRouteState(p) ==
    LET s == state[RunOf(p)] IN
    /\ pc[p] = "rbState"
    /\ IF Pending(s)
       THEN /\ snap' = [snap EXCEPT ![p] = s]
            /\ Goto(p, "rbRead")
            /\ UNCHANGED <<timer, todo, gaveUp>>
       ELSE Leave(p, FALSE)
    /\ UNCHANGED <<table, state, author, kept, waived, edits>>

RollbackReadDisarming(p) ==
    /\ pc[p] = "rbRead"
    /\ todo' = [todo EXCEPT ![p] = Residual(snap[p], table)]
    /\ StopTimer(RunOf(p))
    /\ Goto(p, "rbReplace")
    /\ UNCHANGED <<table, state, snap, ghosts, edits>>

\* Routes, and the operations that undo the switch
RollbackRead(p) ==
    /\ pc[p] = "rbRead"
    /\ \/ /\ todo' = [todo EXCEPT ![p] = Residual(snap[p], table)]
          /\ Goto(p, "rbReplace")
          /\ UNCHANGED <<timer, snap, gaveUp>>
       \/ MayFail("netlink") /\ Leave(p, TRUE)
    /\ UNCHANGED <<table, state, author, kept, waived, edits>>

RollbackReplaceIgnoring(p) ==
    LET s == snap[p] IN
    /\ pc[p] = "rbReplace"
    /\ \/ /\ table' = Replaced(table, s.slot, s.via)
          /\ author' = NoRun
       \/ MayFail("netlink") /\ UNCHANGED <<table, author>>
    /\ Goto(p, "rbDelete")
    /\ UNCHANGED <<state, timer, snap, todo, kept, waived, gaveUp, edits>>

\* the original route is put back
RollbackReplace(p) ==
    LET s == snap[p] IN
    /\ pc[p] = "rbReplace"
    /\ \/ /\ table' = Replaced(table, s.slot, s.via)
          /\ author' = NoRun
          /\ Goto(p, "rbDelete")
          /\ UNCHANGED <<timer, snap, todo, gaveUp>>
       \/ /\ MayFail("netlink")
          /\ Leave(p, TRUE)
          /\ UNCHANGED <<table, author>>
    /\ UNCHANGED <<state, kept, waived, edits>>

\* RouteDel of the next residual route; one that is not there is an error
RollbackDelete(p) ==
    /\ pc[p] = "rbDelete"
    /\ IF todo[p] = {}
       THEN /\ Goto(p, "rbVerify")
            /\ UNCHANGED <<table, timer, snap, todo, gaveUp>>
       ELSE LET e == CHOOSE x \in todo[p] : \A y \in todo[p] : x[1] <= y[1] IN
            \/ /\ table[e[1]] = e[2]
               /\ table' = [table EXCEPT ![e[1]] = NoVia]
               /\ todo' = [todo EXCEPT ![p] = @ \ {e}]
               /\ UNCHANGED <<pc, timer, snap, gaveUp>>
            \/ /\ table[e[1]] # e[2] \/ MayFail("netlink")
               /\ Leave(p, TRUE)
               /\ UNCHANGED table
    /\ UNCHANGED <<state, author, kept, waived, edits>>

RollbackVerify(p) ==
    /\ pc[p] = "rbVerify"
    /\ \/ /\ RouteCountFor(table) = snap[p].baseline
          /\ Goto(p, "rbDisarm")
          /\ UNCHANGED <<timer, snap, todo, gaveUp>>
       \/ /\ RouteCountFor(table) # snap[p].baseline \/ MayFail("netlink")
          /\ Leave(p, TRUE)
    /\ UNCHANGED <<table, state, author, kept, waived, edits>>

RollbackDisarm(p) ==
    /\ pc[p] = "rbDisarm"
    /\ StopTimer(RunOf(p)) \/ (MayFail("stop") /\ UNCHANGED timer)
    /\ Goto(p, "rbMark")
    /\ UNCHANGED <<table, state, snap, todo, ghosts, edits>>

RollbackMark(p) ==
    /\ pc[p] = "rbMark"
    /\ \/ state' = [state EXCEPT ![RunOf(p)] = Completed(snap[p])] /\ Leave(p, FALSE)
       \/ MayFail("write") /\ UNCHANGED state /\ Leave(p, TRUE)
    /\ UNCHANGED <<table, author, kept, waived, edits>>

-----------------------------------------------------------------------------
(* The environment                                                         *)

\* A DHCP client or a VPN adds or drops a route, other than the one being switched
OtherProgram ==
    /\ edits < MaxEdits
    /\ edits' = edits + 1
    /\ \E e \in Added : table' = [table EXCEPT ![e[1]] = IF @ = NoVia THEN e[2] ELSE NoVia]
    /\ UNCHANGED <<state, timer, pc, snap, todo, ghosts>>

\* The switch dies: its terminal is closed in a way no handler sees
Kill(r) ==
    /\ pc[Switch(r)] \in KillPoints
    /\ Goto(Switch(r), "done")
    /\ UNCHANGED <<table, state, timer, snap, todo, ghosts, edits>>

SwitchStep(r) ==
    \/ WriteState(r) \/ ArmGuard(r) \/ VerifyGuard(r) \/ AbortDisarm(r) \/ AbortMark(r)
    \/ ReplaceRoute(r) \/ VerifyCount(r) \/ CheckIdentity(r)
    \/ KeepDisarm(r) \/ KeepMark(r)

RollbackStep(p) ==
    \/ ReadRouteState(p) \/ RollbackRead(p) \/ RollbackReplace(p) \/ RollbackDelete(p)
    \/ RollbackVerify(p) \/ RollbackDisarm(p) \/ RollbackMark(p)

Next ==
    \/ \E r \in Runs : TakeSnapshot(r) \/ SwitchStep(r) \/ AwaitConfirm(r)
                       \/ TimerFires(r) \/ Command(r) \/ Kill(r)
    \/ \E p \in Procs : RollbackStep(p)
    \/ OtherProgram

Spec == Init /\ [][Next]_vars

\* A running process goes on and systemd starts the job of an elapsed timer;
\* nobody has to start a switch, answer the question or type a command.
Fairness ==
    /\ \A r \in Runs : WF_vars(TimerFires(r)) /\ WF_vars(SwitchStep(r))
    /\ \A p \in Procs : WF_vars(RollbackStep(p))

FairSpec == Spec /\ Fairness

-----------------------------------------------------------------------------
(* Properties                                                              *)

\* Run r set the route, nobody confirmed it and no rollback touched it since
InEffect(r) == LET s == snap[Switch(r)] IN author = r /\ r \notin kept /\ s.via # s.newVia

\* A rollback of run r is under way
RollingBack(r) == \E role \in {"timer", "rollback"} : pc[<<role, r>>] \notin {"idle", "done"}

\* A switched route that nobody confirmed, once its switch has ended or died,
\* has a pending state file and a timer or a rollback that will use it, unless
\* guardDecision let it through unguarded or the timer's rollback has reported
\* that it failed.
UnconfirmedIsGuarded ==
    \A r \in Runs :
        InEffect(r) /\ pc[Switch(r)] = "done" /\ r \notin waived \cup gaveUp
            => Pending(state[r]) /\ (Active(r) \/ RollingBack(r))

\* A state file says "completed" for an unconfirmed run only when the original
\* route is back, whichever of the racing rollbacks wrote it.
CompletedIsRestored ==
    \A r \in Runs :
        state[r] # NoState /\ ~Pending(state[r]) /\ r \notin kept
            => ~InEffect(r) /\ table[state[r].slot] = state[r].via

\* The other routes to the destination (backup routes with a higher metric) are
\* left alone as long as no other program changes the table.
BackupRoutesUntouched ==
    [][edits' = 0 => \A s \in Slots : table'[s] # table[s] => s = FirstEntry(table)]_vars

\* "The timer lives in PID 1, so it fires even after the edc process dies": a
\* switched route does not stay without a confirmation, unless the timer's
\* rollback has reported that it failed.
UnconfirmedIsUndone ==
    \A r \in Runs : InEffect(r) /\ r \notin waived ~> ~InEffect(r) \/ r \in gaveUp

\* A switch that ends with the "switched" report has its route in the table at
\* that moment.
ReportedIsInEffect ==
    [][\A r \in Runs :
         /\ pc[Switch(r)] = "keepMark" /\ state'[r] # state[r]
         /\ pc'[Switch(r)] = "done"
         => table[snap[Switch(r)].slot] = snap[Switch(r)].newVia]_vars

\* A rollback deletes "residual routes beyond the baseline", never a route that
\* was in the table when the switch took its snapshot.
RollbackKeepsBaseline ==
    [][\A p \in Procs : \A s \in Slots :
         pc[p] = "rbDelete" /\ table'[s] = NoVia /\ table[s] # NoVia
            => \E e \in Added : e = <<s, table[s]>>]_vars

\* When every switch is over and none was confirmed, the first route is the one
\* that was there at the start.
AllUndone ==
    (kept = {} /\ waived = {} /\ edits = 0 /\ \A p \in Procs : pc[p] \in {"idle", "done"})
        /\ (\A r \in Runs : timer[r] = "none" /\ ~Pending(state[r]))
        => table \in InitTables
=============================================================================
