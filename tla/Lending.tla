------------------------------- MODULE Lending -------------------------------
(***************************************************************************)
(* What a connection pool promises, whatever it consists of: a request is  *)
(* lent one connection at most, one to its own host, and gives it back at  *)
(* most once; an exclusive connection is either in the pool or with one    *)
(* request, and returns only after its exchange; what is in neither place  *)
(* is gone for good.                                                       *)
(*                                                                         *)
(* A connection is named after the request that opened it.                 *)
(***************************************************************************)
CONSTANTS Reqs, Keys, NONE

VARIABLES
  host,    (* the host of each request, and of the connection it opens     *)
  state,   (* the state of each connection                                 *)
  shared,  (* the connections several requests may hold at a time          *)
  pool,    (* the connections to lend                                      *)
  holds,   (* the connection of each request                               *)
  asking   (* the requests that have not been answered                     *)

vars == <<host, state, shared, pool, holds, asking>>

Init ==
  /\ host \in [Reqs -> Keys]
  /\ state = [c \in Reqs |-> "none"]
  /\ shared = {}
  /\ pool = {}
  /\ holds = [r \in Reqs |-> NONE]
  /\ asking = Reqs

Answer(r, c) ==
  /\ r \in asking
  /\ asking' = asking \ {r}
  /\ holds' = [holds EXCEPT ![r] = c]

(* A request is given the connection it opened.                            *)
OpenExclusive(r) ==
  /\ Answer(r, r)
  /\ state[r] = "none"
  /\ state' = [state EXCEPT ![r] = "busy"]
  /\ UNCHANGED <<host, shared, pool>>

OpenShared(r) ==
  /\ Answer(r, r)
  /\ state[r] = "none"
  /\ state' = [state EXCEPT ![r] = "ready"]
  /\ shared' = shared \cup {r}
  /\ pool' \in {pool, pool \cup {r}}
  /\ UNCHANGED host

(* Or one another request opened, which it gets for itself or shares.      *)
Lend(r, c) ==
  /\ Answer(r, c)
  /\ c \in pool
  /\ host[c] = host[r]
  /\ state[c] \in {"ready", "closed"}
  /\ pool' \in {pool \ {c}} \cup {p \in {pool} : c \in shared}
  /\ UNCHANGED <<host, state, shared>>

(* Or none: it failed, or nobody waits for the answer.                     *)
Refuse(r) ==
  /\ r \in asking
  /\ asking' = asking \ {r}
  /\ UNCHANGED <<host, state, shared, pool, holds>>

(* A request ends.  Its exclusive connection is kept if it is ready.       *)
Return(r) ==
  /\ holds[r] # NONE
  /\ holds' = [holds EXCEPT ![r] = NONE]
  /\ \/ state[holds[r]] = "ready" /\ pool' = pool \cup {holds[r]}
     \/ /\ holds[r] \in shared \/ state[holds[r]] # "ready"
        /\ pool' = pool
  /\ UNCHANGED <<host, state, shared, asking>>

(* The pool lets go of connections: expired, closed, or all with itself.   *)
Discard ==
  /\ UNCHANGED <<host, state, shared, holds, asking>>
  /\ pool' \subseteq pool

Becomes(c, s) ==
  /\ state' = [state EXCEPT ![c] = s]
  /\ UNCHANGED <<host, shared, pool, holds, asking>>

Use(r) ==
  /\ holds[r] # NONE
  /\ holds[r] \notin shared
  /\ state[holds[r]] = "ready"
  /\ Becomes(holds[r], "busy")

(* An exchange ends while its request, and the pool not, has the connection.*)
Finish(r) ==
  /\ holds[r] # NONE
  /\ holds[r] \notin pool
  /\ state[holds[r]] = "busy"
  /\ Becomes(holds[r], "ready")

(* Connections close while somebody has a handle of them to see it.        *)
Close(c) ==
  /\ state[c] \in {"busy", "ready"}
  /\ c \in pool \/ \E r \in Reqs : holds[r] = c
  /\ Becomes(c, "closed")

Next ==
  \/ Discard
  \/ \E r \in Reqs :
       \/ Refuse(r) \/ Return(r) \/ Use(r) \/ Finish(r) \/ Close(r)
       \/ OpenExclusive(r) \/ OpenShared(r) \/ (\E c \in Reqs : Lend(r, c))

Spec == Init /\ [][Next]_vars
=============================================================================
