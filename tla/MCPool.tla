------------------------------- MODULE MCPool -------------------------------
(* Pool on small instances.                                                *)
EXTENDS PoolProps, TLC

Symmetry == Permutations(Reqs) \cup Permutations(Keys)
=============================================================================
