------------------------------ MODULE MCChange ------------------------------
(* Instances of Change for TLC: one file, or two iptables tables.          *)
EXTENDS Change, TLC

CONSTANTS r1, r2, old, new1, new2, other, filter, nat

\* a content with the same rules in every part
All(c) == [t \in Parts |-> c]
File(c, m) == [data |-> All(c), mode |-> m]
Tables(f, n) == [data |-> (filter :> f @@ nat :> n), mode |-> 0]
Absent == [data |-> Empty, mode |-> 0]

\* authorized-keys
KeyModes     == {0, 256, 384, 420}
KeyInit      == {Absent, File(old, 420)}
KeyInitMode0 == {File(old, 0)}
KeyRequested == {All(new1), All(new2)}
KeyForeign   == {File(other, 420), File(new1, 256), Absent}

\* iptables
TableModes     == {0, 384}
TableInit      == {Tables(old, old)}
TableInitEmpty == {Absent}
TableInitPart  == {Tables(old, Nothing)}
TableRequested == {Tables(new1, Nothing).data, Tables(new1, new2).data}
TableForeign   == {Tables(other, old), Tables(new1, other)}

\* one content and one request, for the run with crashes and early timers
CrashInit      == {Absent}
CrashRequested == {All(new1)}

\* Where processes are killed
NoKill     == {}
KillApply  == {"apply"} \X Work
KillAny    == Roles \X (PCs \ {"idle", "done"})
KillConfirm == {<<"confirm", "mark">>}

\* Between edc's look at the target and its write, or the record of the result
KeyQuiet   == {"rbWrite"}
TableQuiet == {"writeState", "arm", "isActive", "applyWrite", "saveApplied", "failSave", "rbWrite"}

Symmetry == Permutations(Runs)

=============================================================================
