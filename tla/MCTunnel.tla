------------------------------ MODULE MCTunnel ------------------------------
(* Instances of Tunnel for TLC.                                            *)
EXTENDS Tunnel, TLC

CONSTANTS c1, c2

\* One tunnel with an automatic port, one that asks for a port of its range
AutoAndFixed == 1 :> [kind |-> "forward", port |-> AutoPort] @@ 2 :> [kind |-> "forward", port |-> 5]
Symmetry == Permutations(Cmds)
=============================================================================
