----------------------------- MODULE MCPidFile -----------------------------
(* Three processes, which may run together or under each other's pids; one *)
(* is another user's.                                                      *)
EXTENDS PidFileProps

CONSTANTS p1, p2, p3

MCMute == {<<p1, p3>>, <<p3, p1>>, <<p2, p3>>, <<p3, p2>>}
=============================================================================
