---------------------------- MODULE PidFileProps ----------------------------
(***************************************************************************)
(* What the pid file protects, and from what.                              *)
(***************************************************************************)
EXTENDS PidFile

(* "a lock for a resource which should only be accessed by one process at  *)
(* a time" (pidfile.rs:7-10): one process at a time has the service's lock *)
(* or listens for it, the file names that process, everybody sees it       *)
(* locked, and the socket at the path is its own, whatever crashed before  *)
(* and left of both files, and also while others try and are refused.  It  *)
(* holds until one of three things happens: two calls of PidFile::new      *)
(* decide together, that is one finds the lock free while the other has    *)
(* found it free and not written yet or has a pid still to look up, or     *)
(* reads a pid that the other is about to replace (pidfile.rs:63-97); the  *)
(* holder cannot be signalled (:38); or a registry is dropped before its   *)
(* server (:120).                                                          *)
OneHolder ==
  ~raced =>
    \A p \in Procs :
      /\ listener[p] => lock[p] /\ socket = p
      /\ lock[p] => /\ \A q \in Procs : lock[q] => q = p
                    /\ file = pid[p]
                    /\ \A q \in Procs :
                         Running(q) /\ <<q, p>> \notin Mute => IsLocked(q)

(* A stale file does not lock anybody out: a process that tries while no   *)
(* other runs gets the lock, be the file of a process that crashed after   *)
(* it wrote its pid, or before.  The exception is a pid of its own, left by*)
(* an earlier process with the same pid (pidfile.rs:20-54, 64-84).         *)
Recovers ==
  \A p \in Procs :
    at[p] = "read" /\ file # pid[p] /\ (\A q \in Procs : Running(q) => q = p)
      ~> \/ lock[p]
         \/ at[p] \in {"failed", "gone"}
         \/ \E q \in Procs : q # p /\ Running(q)
=============================================================================
