------------------------------ MODULE MCLogRun -------------------------------
(* Instances of LogRun for TLC: every restart policy, with and without a   *)
(* timeout, at most one restart.                                            *)
EXTENDS LogRun, TLC

AllOptions == {[restart |-> "never", limit |-> 0, timeout |-> "set"],
               [restart |-> "on-failure", limit |-> 1, timeout |-> "set"],
               [restart |-> "always", limit |-> 1, timeout |-> "unset"]}
Plain      == [restart : {"never"}, limit : {0}, timeout : {"unset"}]
=============================================================================
