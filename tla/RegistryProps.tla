--------------------------- MODULE RegistryProps ---------------------------
(***************************************************************************)
(* What the registry promises, and what its locks cost.                    *)
(***************************************************************************)
EXTENDS Registry

(* No request is stranded or answered by two: one whose client waits is in *)
(* the channel of its service, once, or has its answer; a service has one  *)
(* server at most, and one that is gone has left nothing in the channel    *)
(* (duplex.rs:151-186, 224-238, discovery/mod.rs:502-507).                 *)
RequestsKept ==
  /\ \A t \in Tasks :
       at[t] = "ack" /\ ack[t] = "open"
         => /\ acceptor[svc(t)] # "closed"
            /\ Cardinality({i \in DOMAIN queue[svc(t)] : queue[svc(t)][i] = t}) = 1
  /\ \A s \in Services :
       /\ acceptor[s] \in {"none", "closed"} => queue[s] = <<>>
       /\ Cardinality({t \in Tasks : Serves(t, s)})
            = IF acceptor[s] = "bound" THEN 1 ELSE 0

(* Every thread is inside the map, waiting for guards of tasks that no     *)
(* thread is left to poll.                                                 *)
Deadlocked ==
  /\ ~Idle
  /\ \A t \in Blocking : ~Exclusive(t)

(* A connect() without a timeout to a service that nobody has bound: bind()*)
(* needs the shard that it holds.                                          *)
HoldsForever(t) == ~timed /\ at[t] \in {"send", "ack"} /\ acceptor[svc(t)] = "idle"

(* What a lookup waits for passes: connects end or time out, and none to   *)
(* come keeps the shard locked.  The two exceptions are deadlocks of the   *)
(* code: no thread is left, or the one that holds the shard waits for the  *)
(* bind it keeps out (discovery/mod.rs:392-411, 553-599).                  *)
LookupsEnd ==
  \A t \in Tasks :
    at[t] = "lookup"
      ~> \/ at[t] # "lookup"
         \/ Deadlocked
         \/ \E u \in Readers(ShardOf[svc(t)]) : HoldsForever(u)

(* A connect to a service that is, or was, bound comes to an end: with a   *)
(* stream, or because its server ended, though the channel may be full and *)
(* other clients give up in it (duplex.rs:151-161, 224-238).               *)
ConnectsEnd ==
  \A t \in Tasks :
    at[t] \in {"send", "ack"} /\ acceptor[svc(t)] # "idle"
      ~> at[t] = "done" \/ Deadlocked
=============================================================================
