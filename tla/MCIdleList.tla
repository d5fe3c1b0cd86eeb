----------------------------- MODULE MCIdleList -----------------------------
(* No timeout, one of zero, and two that entries outlive.                  *)
EXTENDS IdleListProps, TLC

CONSTANTS c1, c2, c3

MCConnections == {c1, c2, c3}
MCIdleTimeouts == {NONE, 0, 1, 2}
Symmetry == Permutations(MCConnections)
=============================================================================
