----------------------------- MODULE MCShutdown -----------------------------
(* GracefulShutdown on small instances.                                    *)
EXTENDS ShutdownProps, TLC

Symmetry == Permutations(Conns)
=============================================================================
