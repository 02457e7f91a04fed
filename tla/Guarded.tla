------------------------------ MODULE Guarded ------------------------------
(***************************************************************************)
(* What `edc change' promises, without its files, locks and timers: one    *)
(* change of the host at a time, recorded before it is made, undone only   *)
(* while nobody has confirmed it, and closed only by a confirmation or     *)
(* when nothing of it is in effect any more.                               *)
(***************************************************************************)
EXTENDS Naturals

CONSTANTS Runs,    \* the changes
          NoRun    \* no change is in effect

VARIABLES
    record,    \* record[r]: "none", "pending" or "completed"
    owner,     \* the run whose change is in effect, or NoRun
    kept,      \* the runs somebody confirmed
    edits      \* how often another program wrote the target

vars == <<record, owner, kept, edits>>

Init ==
    /\ record = [r \in Runs |-> "none"]
    /\ owner = NoRun
    /\ kept = {} /\ edits = 0

\* The change is announced: it can be confirmed and undone from now on
Record(r) ==
    /\ record[r] = "none" /\ r \notin kept
    /\ \A q \in Runs : record[q] # "pending"
    /\ record' = [record EXCEPT ![r] = "pending"]
    /\ UNCHANGED <<owner, kept, edits>>

\* It is made, or undone: by the apply that fails, by the timer, by a person
Write(r) ==
    /\ record[r] = "pending" /\ r \notin kept
    /\ owner' \in {r, NoRun}
    /\ UNCHANGED <<record, kept, edits>>

\* It is confirmed
Keep(r) ==
    /\ record[r] = "pending"
    /\ record' = [record EXCEPT ![r] = "completed"]
    /\ kept' = kept \cup {r}
    /\ UNCHANGED <<owner, edits>>

\* Nothing of it is in effect
Close(r) ==
    /\ record[r] = "pending" /\ owner # r
    /\ record' = [record EXCEPT ![r] = "completed"]
    /\ UNCHANGED <<owner, kept, edits>>

\* Another program writes the target
Displace ==
    /\ edits' = edits + 1
    /\ owner' = NoRun
    /\ UNCHANGED <<record, kept>>

\* /run is emptied; rules in the kernel are gone, a file stays
Reboot ==
    /\ record' = [r \in Runs |-> "none"]
    /\ owner' \in {owner, NoRun}
    /\ UNCHANGED <<kept, edits>>

Next ==
    \/ \E r \in Runs : Record(r) \/ Write(r) \/ Keep(r) \/ Close(r)
    \/ Displace
    \/ Reboot

Spec == Init /\ [][Next]_vars
=============================================================================
