------------------------------ MODULE Registry ------------------------------
(***************************************************************************)
(* The service registry with services in the same process                  *)
(* (discovery/mod.rs) and the duplex transport behind them                 *)
(* (stream/duplex.rs): tasks bind services, connect to them and ask for    *)
(* them on a runtime with a few threads.                                   *)
(*                                                                         *)
(* Clients reach services through RegistryTransport, which finds the name  *)
(* of the service in a URI (discovery/transport.rs).                       *)
(*                                                                         *)
(* The services are in a DashMap.  A lookup blocks the thread that makes   *)
(* it, and connect() keeps the lock of its shard while it awaits.          *)
(***************************************************************************)
EXTENDS Integers, FiniteSets, SequencesExt

CONSTANTS
  Tasks,     (* each makes one call                                        *)
  Plans,     (* which calls: the possible values of calls                  *)
  Services,  (* the names of services                                      *)
  Shards,    (* the shards of the map                                      *)
  ShardOf,   (* the shard of a service                                     *)
  Workers,   (* the threads of the runtime                                 *)
  Capacity,  (* of the channel of connection requests, 32 in the code      *)
  NONE       (* no service                                                 *)

(* As much of a URI as is looked at: a host, and the first component of    *)
(* the path.                                                               *)
Uris == [scheme : {"svc", "grpc", "https"},
         host : Services \cup {NONE}, path : Services \cup {NONE}]

Calls == ({"connect", "bind", "available"} \X Services) \cup ({"call"} \X Uris)

ASSUME RegistryAssumption ==
  /\ Plans \subseteq [Tasks -> Calls]
  /\ ShardOf \in [Services -> Shards]
  /\ Workers \in Nat \ {0} /\ Capacity \in Nat \ {0}

VARIABLES
  timed,     (* there is a connect_timeout, fixed                          *)
  calls,     (* the call of each task and its service, fixed               *)
  at,        (* where the task is                                          *)
  result,    (* what its call returned                                     *)
  acceptor,  (* ServiceHandle::Duplex.acceptor                             *)
  queue,     (* the channel of connection requests, first in, first out    *)
  ack        (* the oneshot channel a request is answered through          *)

vars == <<timed, calls, at, result, acceptor, queue, ack>>

op(t) == calls[t][1]

(* The default schemes of a RegistryTransport.                             *)
ServiceOf(uri) ==
  CASE uri.scheme = "svc"  -> uri.host
    [] uri.scheme = "grpc" -> uri.path
    [] OTHER               -> NONE

svc(t) == IF op(t) = "call" THEN ServiceOf(calls[t][2]) ELSE calls[t][2]

Results == {"none", "already", "stream", "reset", "timeout", "cancelled",
            "available", "unavailable", "ended", "invalid"}

TypeOK ==
  /\ timed \in BOOLEAN
  /\ calls \in [Tasks -> Calls]
  /\ at \in [Tasks -> {"start", "lookup", "send", "ack", "serving", "done"}]
  /\ result \in [Tasks -> Results]
  /\ acceptor \in [Services -> {"none", "idle", "bound", "closed"}]
  /\ queue \in [Services -> Seq(Tasks)]
  /\ \A s \in Services : Len(queue[s]) <= Capacity
  /\ ack \in [Tasks -> {"none", "open", "stream", "dropped"}]

Init ==
  /\ timed \in BOOLEAN
  /\ calls \in Plans
  /\ at = [t \in Tasks |-> "start"]
  /\ result = [t \in Tasks |-> "none"]
  /\ acceptor = [s \in Services |-> "none"]
  /\ queue = [s \in Services |-> <<>>]
  /\ ack = [t \in Tasks |-> "none"]
-----------------------------------------------------------------------------
(* The runtime                                                             *)

(* The tasks whose thread is inside the map.                               *)
Blocking == {t \in Tasks : at[t] = "lookup"}

(* There is a thread to poll another task.                                 *)
Idle == Cardinality(Blocking) < Workers

Goes(t, to) == at' = [at EXCEPT ![t] = to]
Returns(t, r) == Goes(t, "done") /\ result' = [result EXCEPT ![t] = r]
-----------------------------------------------------------------------------
(* The map                                                                 *)

(* The guards that connect() holds on a shard.                             *)
Readers(shard) ==
  {t \in Tasks : at[t] \in {"send", "ack"} /\ ShardOf[svc(t)] = shard}

Exclusive(t) == Readers(ShardOf[svc(t)]) = {}

Start(t) ==
  /\ at[t] = "start" /\ Idle
  /\ svc(t) # NONE
  /\ Goes(t, "lookup")
  /\ UNCHANGED <<timed, calls, result, acceptor, queue, ack>>

(* RegistryTransport::call, of a URI that names no service.                *)
CallInvalid(t) ==
  /\ at[t] = "start" /\ Idle
  /\ svc(t) = NONE
  /\ Returns(t, "invalid")
  /\ UNCHANGED <<timed, calls, acceptor, queue, ack>>

(* get_mut(): a handle of its own for a service that has none.             *)
Inserted(s) == IF acceptor[s] = "none" THEN [acceptor EXCEPT ![s] = "idle"] ELSE acceptor

(* get(): a read guard, or the downgraded guard of get_mut().              *)
Get(t) ==
  /\ at[t] = "lookup" /\ op(t) # "bind"
  /\ acceptor[svc(t)] = "none" => Exclusive(t)
  /\ acceptor' = Inserted(svc(t))

(* is_available(): the acceptor was taken, whatever became of it.          *)
IsAvailable(t) ==
  /\ Get(t)
  /\ op(t) = "available"
  /\ Returns(t, IF acceptor[svc(t)] \in {"bound", "closed"}
                  THEN "available" ELSE "unavailable")
  /\ UNCHANGED <<timed, calls, queue, ack>>

TakeAny(s) == TRUE       (* mutant: the acceptor is cloned, not taken *)

(* ServiceHandle::acceptor: it can be taken once.                          *)
Take(s) == acceptor[s] \in {"none", "idle"}

(* bind()                                                                  *)
Bind(t) ==
  /\ at[t] = "lookup" /\ op(t) = "bind"
  /\ Exclusive(t)
  /\ IF Take(svc(t))
       THEN /\ acceptor' = [acceptor EXCEPT ![svc(t)] = "bound"]
            /\ Goes(t, "serving") /\ UNCHANGED result
       ELSE Returns(t, "already") /\ UNCHANGED acceptor
  /\ UNCHANGED <<timed, calls, queue, ack>>
-----------------------------------------------------------------------------
(* connect()                                                               *)

Closed(t) == acceptor[svc(t)] = "closed"

FullNever(t) == FALSE    (* mutant: the channel has no bound *)

Full(t) == Len(queue[svc(t)]) = Capacity

(* DuplexClient::connect sends its request, waits for room in the channel, *)
(* or finds that the acceptor is gone.                                     *)
Request(t) ==
  IF Closed(t) THEN Returns(t, "reset") /\ UNCHANGED <<queue, ack>>
  ELSE IF Full(t) THEN Goes(t, "send") /\ UNCHANGED <<result, queue, ack>>
  ELSE /\ queue' = [queue EXCEPT ![svc(t)] = Append(@, t)]
       /\ ack' = [ack EXCEPT ![t] = "open"]
       /\ Goes(t, "ack") /\ UNCHANGED result

(* The first poll: from the lookup, whose guard is kept, to the request.   *)
Connect(t) ==
  /\ Get(t)
  /\ op(t) \in {"connect", "call"}
  /\ Request(t)
  /\ UNCHANGED <<timed, calls>>

(* There is room again, or nobody to make it.                              *)
Send(t) ==
  /\ at[t] = "send" /\ Idle
  /\ Closed(t) \/ ~Full(t)
  /\ Request(t)
  /\ UNCHANGED <<timed, calls, acceptor>>

(* The request is answered, or dropped.                                    *)
Acknowledged(t) ==
  /\ at[t] = "ack" /\ Idle
  /\ ack[t] # "open"
  /\ Returns(t, IF ack[t] = "stream" THEN "stream" ELSE "reset")
  /\ UNCHANGED <<timed, calls, acceptor, queue, ack>>

TimesOutAck(t) ==        (* mutant: the timeout is for the answer only *)
  /\ timed /\ Idle
  /\ at[t] = "ack" /\ ack[t] = "open"
  /\ Returns(t, "timeout")
  /\ UNCHANGED <<timed, calls, acceptor, queue, ack>>

(* connect_to_handle: the timer is looked at when connect() is pending.    *)
TimesOut(t) ==
  /\ timed /\ Idle
  /\ \/ at[t] = "send" /\ ~Closed(t) /\ Full(t)
     \/ at[t] = "ack" /\ ack[t] = "open"
  /\ Returns(t, "timeout")
  /\ UNCHANGED <<timed, calls, acceptor, queue, ack>>

(* Whoever awaits connect() drops it.                                      *)
Cancel(t) ==
  /\ at[t] \in {"send", "ack"} /\ Idle
  /\ Returns(t, "cancelled")
  /\ UNCHANGED <<timed, calls, acceptor, queue, ack>>
-----------------------------------------------------------------------------
(* DuplexIncoming, in the hands of the server that was bound               *)

Serves(t, s) == at[t] = "serving" /\ svc(t) = s

KeepRequests(s) ==       (* mutant: the requests are not dropped with it *)
  /\ acceptor' = [acceptor EXCEPT ![s] = "closed"]
  /\ UNCHANGED <<queue, ack>>

(* The acceptor is dropped, and the requests in its channel are.           *)
DropAcceptor(s) ==
  /\ acceptor' = [acceptor EXCEPT ![s] = "closed"]
  /\ queue' = [queue EXCEPT ![s] = <<>>]
  /\ ack' = [t \in Tasks |->
               IF Contains(queue[s], t) /\ ack[t] = "open" THEN "dropped" ELSE ack[t]]

(* The client that sent the request still waits for the answer.            *)
Waits(c) == at[c] = "ack"

(* poll_accept: the stream is made and sent to the client.                 *)
Accept(t) ==
  /\ at[t] = "serving" /\ Idle
  /\ queue[svc(t)] # <<>>
  /\ LET c == Head(queue[svc(t)]) IN
       /\ Waits(c)
       /\ ack' = [ack EXCEPT ![c] = "stream"]
       /\ queue' = [queue EXCEPT ![svc(t)] = Tail(@)]
  /\ UNCHANGED <<timed, calls, at, result, acceptor>>

AcceptIgnores(t) ==      (* mutant: the request stays in front of the others *)
  /\ at[t] = "serving" /\ Idle
  /\ queue[svc(t)] # <<>> /\ ~Waits(Head(queue[svc(t)]))
  /\ UNCHANGED vars

(* A client that has given up is an error of the acceptor, and ends the    *)
(* server.                                                                 *)
AcceptFails(t) ==
  /\ at[t] = "serving" /\ Idle
  /\ queue[svc(t)] # <<>> /\ ~Waits(Head(queue[svc(t)]))
  /\ Returns(t, "ended")
  /\ DropAcceptor(svc(t))
  /\ UNCHANGED <<timed, calls>>

(* The server ends for a reason of its own.                                *)
ServerEnds(t) ==
  /\ at[t] = "serving" /\ Idle
  /\ Returns(t, "ended")
  /\ DropAcceptor(svc(t))
  /\ UNCHANGED <<timed, calls>>
-----------------------------------------------------------------------------
Lookup(t) == IsAvailable(t) \/ Connect(t) \/ Bind(t)

Poll(t) == Send(t) \/ Acknowledged(t)

Serve(t) == Accept(t) \/ AcceptFails(t)

Next ==
  \E t \in Tasks :
    \/ Start(t) \/ CallInvalid(t) \/ Lookup(t)
    \/ Poll(t) \/ TimesOut(t) \/ Cancel(t)
    \/ Serve(t) \/ ServerEnds(t)

Spec == Init /\ [][Next]_vars

(* A thread that can have the lock gets it, and with an idle thread a task *)
(* that can go on is polled and a timeout passes.  Nobody need cancel, nor *)
(* end a server.                                                           *)
FairSpec ==
  /\ Spec
  /\ \A t \in Tasks : /\ WF_vars(Lookup(t)) /\ WF_vars(Poll(t))
                      /\ WF_vars(TimesOut(t)) /\ WF_vars(Serve(t))
=============================================================================
