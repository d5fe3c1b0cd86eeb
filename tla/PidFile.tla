------------------------------ MODULE PidFile ------------------------------
(***************************************************************************)
(* A service on a Unix socket, bound by one process at a time with a pid   *)
(* file (pidfile.rs, ServiceHandle::Unix of discovery/mod.rs).  Processes  *)
(* start, bind, stop and crash in any order; the file system is shared,    *)
(* and every call of it is a step.                                         *)
(***************************************************************************)
EXTENDS Integers, FiniteSets

CONSTANTS
  Procs,     (* the processes, each started once                           *)
  Pids,      (* process identifiers, which are used again                  *)
  Mute,      (* the processes that may not signal each other: pairs        *)
  ABSENT,    (* no file                                                    *)
  INVALID,   (* a file without a pid                                       *)
  NONE       (* no pid: the process does not run                           *)

ASSUME PidFileAssumption ==
  /\ Mute \subseteq Procs \X Procs
  /\ {ABSENT, INVALID, NONE} \cap (Pids \cup Procs) = {}

VARIABLES
  pid,       (* the pid of each process                                    *)
  at,        (* where it is in ServiceHandle::acceptor                     *)
  read,      (* the pid it read from the file                              *)
  lock,      (* PidLock::Lock: it has a PidFile                            *)
  listener,  (* it has a UnixListener                                      *)
  file,      (* the content of the pid file                                *)
  socket,    (* whose socket is at the path                                *)
  raced      (* history: what the pid file does not protect from happened  *)

vars == <<pid, at, read, lock, listener, file, socket, raced>>

(* In PidFile::new; and there, past the check: it has found the lock free. *)
Past == {"remove", "create", "write"}
Inside == {"read", "kill"} \cup Past

TypeOK ==
  /\ pid \in [Procs -> Pids \cup {NONE}]
  /\ at \in [Procs -> {"new", "idle", "refused", "failed",
                        "reset", "bind", "gone"} \cup Inside]
  /\ read \in [Procs -> Pids \cup {NONE}]
  /\ lock \in [Procs -> BOOLEAN]
  /\ listener \in [Procs -> BOOLEAN]
  /\ file \in Pids \cup {ABSENT, INVALID}
  /\ socket \in Procs \cup {ABSENT}
  /\ raced \in BOOLEAN

Init ==
  /\ pid = [p \in Procs |-> NONE]
  /\ at = [p \in Procs |-> "new"]
  /\ read = [p \in Procs |-> NONE]
  /\ lock = [p \in Procs |-> FALSE]
  /\ listener = [p \in Procs |-> FALSE]
  /\ file \in {ABSENT, INVALID}
  /\ socket = ABSENT
  /\ raced = FALSE

(* Another call has found the lock free and not written its pid yet; or it *)
(* has read a pid that it has still to look up.                            *)
AnotherIsPast(p)  == \E q \in Procs \ {p} : at[q] \in Past
AnotherDecides(p) == AnotherIsPast(p) \/ \E q \in Procs \ {p} : at[q] = "kill"

Running(p) == pid[p] # NONE
Goes(p, to) == at' = [at EXCEPT ![p] = to]
-----------------------------------------------------------------------------
(* Processes                                                               *)

(* A pid that is free, be it that of a process that has ended.             *)
Start(p) ==
  /\ at[p] = "new"
  /\ \E n \in Pids \ {pid[q] : q \in Procs} : pid' = [pid EXCEPT ![p] = n]
  /\ Goes(p, "idle")
  /\ UNCHANGED <<read, lock, listener, file, socket, raced>>

(* It is killed, or exits without unwinding: the files stay.               *)
Crash(p) ==
  /\ Running(p)
  /\ pid' = [pid EXCEPT ![p] = NONE]
  /\ Goes(p, "gone")
  /\ lock' = [lock EXCEPT ![p] = FALSE]
  /\ listener' = [listener EXCEPT ![p] = FALSE]
  /\ read' = [read EXCEPT ![p] = NONE]
  /\ UNCHANGED <<file, socket, raced>>
-----------------------------------------------------------------------------
(* PidFile::new                                                            *)

(* path.exists().  A handle that has its Lock answers AlreadyBound.        *)
New(p) ==
  /\ at[p] \in {"idle", "refused", "failed"} /\ ~lock[p]
  /\ Goes(p, IF file = ABSENT THEN "create" ELSE "read")
  /\ raced' = (raced \/ (file = ABSENT /\ AnotherDecides(p)))
  /\ UNCHANGED <<pid, read, lock, listener, file, socket>>

ReadInvalid(p) ==        (* mutant: a file that is no pid counts as in use *)
  /\ at[p] = "read"
  /\ CASE file \in Pids -> Goes(p, "kill") /\ read' = [read EXCEPT ![p] = file]
       [] file = INVALID -> Goes(p, "refused") /\ UNCHANGED read
       [] file = ABSENT  -> Goes(p, "remove") /\ UNCHANGED read
  /\ UNCHANGED <<pid, lock, listener, file, socket, raced>>

(* pid_file_in_use: the file may be gone by now, or be no pid.             *)
ReadFile(p) ==
  /\ at[p] = "read"
  /\ IF file \in Pids
       THEN /\ Goes(p, "kill")
            /\ read' = [read EXCEPT ![p] = file]
            /\ raced' = (raced \/ AnotherIsPast(p))
       ELSE /\ Goes(p, "remove")
            /\ raced' = (raced \/ AnotherDecides(p))
            /\ UNCHANGED read
  /\ UNCHANGED <<pid, lock, listener, file, socket>>

(* It cannot be read, which is the caller's error.                         *)
ReadFails(p) ==
  /\ at[p] = "read"
  /\ Goes(p, "failed")
  /\ UNCHANGED <<pid, read, lock, listener, file, socket, raced>>

OwnAlive(p) == pid[p] = read[p]  (* mutant: only the own pid counts *)

(* kill(pid, 0) = 0.  Every error is -1, also that of a process that lives *)
(* and may not be signalled.                                               *)
Alive(p) ==
  \E q \in Procs : Running(q) /\ pid[q] = read[p] /\ <<p, q>> \notin Mute

Hidden(p) == \E q \in Procs : Running(q) /\ pid[q] = read[p] /\ <<p, q>> \in Mute

Kill(p) ==
  /\ at[p] = "kill"
  /\ Goes(p, IF Alive(p) THEN "refused" ELSE "remove")
  /\ raced' = (raced \/ Hidden(p) \/ (~Alive(p) /\ AnotherDecides(p)))
  /\ read' = [read EXCEPT ![p] = NONE]
  /\ UNCHANGED <<pid, lock, listener, file, socket>>

(* The stale file is removed; a failure is ignored.                        *)
Remove(p) ==
  /\ at[p] = "remove"
  /\ file' \in {file, ABSENT}
  /\ Goes(p, "create")
  /\ UNCHANGED <<pid, read, lock, listener, socket, raced>>

(* fs::write creates the file, or empties it, and then writes.             *)
Create(p) ==
  /\ at[p] = "create"
  /\ file' = INVALID
  /\ Goes(p, "write")
  /\ UNCHANGED <<pid, read, lock, listener, socket, raced>>

WriteNothing(p) ==       (* mutant: the pid is not written *)
  /\ at[p] = "write"
  /\ lock' = [lock EXCEPT ![p] = TRUE]
  /\ Goes(p, "reset")
  /\ UNCHANGED <<pid, read, listener, file, socket, raced>>

Write(p) ==
  /\ at[p] = "write"
  /\ file' = pid[p]
  /\ lock' = [lock EXCEPT ![p] = TRUE]
  /\ Goes(p, "reset")
  /\ UNCHANGED <<pid, read, listener, socket, raced>>

WriteFails(p) ==
  /\ at[p] \in {"create", "write"}
  /\ Goes(p, "failed")
  /\ UNCHANGED <<pid, read, lock, listener, file, socket, raced>>
-----------------------------------------------------------------------------
(* The socket                                                              *)

(* remove_file of the socket, whoever left it.                             *)
Reset(p) ==
  /\ at[p] = "reset"
  /\ socket' = ABSENT
  /\ Goes(p, "bind")
  /\ UNCHANGED <<pid, read, lock, listener, file, raced>>

(* UnixListener::bind                                                      *)
BindSocket(p) ==
  /\ at[p] = "bind" /\ socket = ABSENT
  /\ socket' = p
  /\ listener' = [listener EXCEPT ![p] = TRUE]
  /\ Goes(p, "idle")
  /\ UNCHANGED <<pid, read, lock, file, raced>>

(* Either of them fails, with AddrInUse or otherwise: the Lock is kept.    *)
BindFails(p) ==
  /\ at[p] \in {"reset", "bind"}
  /\ Goes(p, "idle")
  /\ UNCHANGED <<pid, read, lock, listener, file, socket, raced>>
-----------------------------------------------------------------------------
(* The end                                                                 *)

(* The last handle of the registry is dropped, and the PidFile with it:    *)
(* the file is removed, whose ever it is.  The server may live on.         *)
DropRegistry(p) ==
  /\ at[p] = "idle" /\ lock[p]
  /\ lock' = [lock EXCEPT ![p] = FALSE]
  /\ file' = ABSENT
  /\ raced' = (raced \/ listener[p])
  /\ UNCHANGED <<pid, at, read, listener, socket>>

(* The server ends and its listener is closed; the socket's file stays.    *)
DropServer(p) ==
  /\ listener[p] /\ at[p] \notin {"reset", "bind"} \cup Inside
  /\ listener' = [listener EXCEPT ![p] = FALSE]
  /\ UNCHANGED <<pid, at, read, lock, file, socket, raced>>
-----------------------------------------------------------------------------
(* PidFile::is_locked, as process p sees it.                               *)
IsLocked(p) ==
  \E q \in Procs : Running(q) /\ pid[q] = file /\ <<p, q>> \notin Mute

Acquire(p) ==
  \/ ReadFile(p) \/ Kill(p) \/ Remove(p) \/ Create(p) \/ Write(p)
  \/ Reset(p) \/ BindSocket(p)

Fails(p) == ReadFails(p) \/ WriteFails(p) \/ BindFails(p)

Next ==
  \E p \in Procs :
    \/ Start(p) \/ Crash(p)
    \/ New(p) \/ Acquire(p) \/ Fails(p)
    \/ DropRegistry(p) \/ DropServer(p)

Spec == Init /\ [][Next]_vars

(* A call that was begun goes on; nothing else need happen.                *)
FairSpec == Spec /\ \A p \in Procs : WF_vars(Acquire(p) \/ BindFails(p))
=============================================================================
