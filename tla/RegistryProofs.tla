--------------------------- MODULE RegistryProofs ---------------------------
(***************************************************************************)
(* No request of an in-process service is stranded or answered by two:     *)
(* proofs for any tasks, services, shards, threads and channel capacity.   *)
(***************************************************************************)
EXTENDS RegistryProps, SequenceTheorems, FiniteSetTheorems, TLAPS

(* A request is somewhere in the channel of a service, ...                 *)
Sits(s, t) == \E i \in 1..Len(queue[s]) : queue[s][i] = t

(* ... and there in one place.                                             *)
SitsOnce(s, t) ==
  \A i, j \in 1..Len(queue[s]) : queue[s][i] = t /\ queue[s][j] = t => i = j

(* What a task in the middle of connect() may count on.  RequestsKept is   *)
(* not inductive as it stands: that a request is sent once takes that one  *)
(* which is not sent yet has no channel, and one in a channel has.         *)
Asks(t) ==
  /\ at[t] \in {"lookup", "send", "ack", "serving"} => svc(t) \in Services
  /\ at[t] \in {"start", "lookup", "send"} => ack[t] = "none"
  /\ at[t] \in {"send", "ack"} => acceptor[svc(t)] # "none"
  /\ \A s \in Services : Sits(s, t) => ack[t] # "none"
  /\ at[t] = "ack" /\ ack[t] = "open"
       => /\ acceptor[svc(t)] # "closed"
          /\ Sits(svc(t), t) /\ SitsOnce(svc(t), t)

(* What the handle of a service may count on.                              *)
Answers(s) ==
  /\ acceptor[s] \in {"none", "closed"} => queue[s] = <<>>
  /\ acceptor[s] = "bound" => \E t \in Tasks : Serves(t, s)
  /\ \A t, u \in Tasks : Serves(t, s) /\ Serves(u, s) => t = u
  /\ \A t \in Tasks : Serves(t, s) => acceptor[s] = "bound"

RegistryInv ==
  /\ TypeOK
  /\ \A t \in Tasks : Asks(t)
  /\ \A s \in Services : Answers(s)
-----------------------------------------------------------------------------
(* A call names a service, or a URI that may name none (transport.rs).     *)
LEMMA SvcType ==
  ASSUME TypeOK, NEW t \in Tasks
  PROVE  svc(t) \in Services \cup {NONE}
<1>1. calls[t] \in Calls
  BY DEF TypeOK
<1>2. CASE calls[t] \in {"connect", "bind", "available"} \X Services
  BY <1>2 DEF svc, op
<1>3. CASE calls[t] \in {"call"} \X Uris
  <2>1. op(t) = "call" /\ calls[t][2] \in Uris
    BY <1>3 DEF op
  <2>2. ServiceOf(calls[t][2]) \in Services \cup {NONE}
    BY <2>1 DEF ServiceOf, Uris
  <2> QED
    BY <2>1, <2>2 DEF svc
<1> QED
  BY <1>1, <1>2, <1>3 DEF Calls

(* A step that leaves the calls and the channels alone.                    *)
LEMMA SitsSame ==
  ASSUME UNCHANGED queue, NEW s, NEW t
  PROVE  (Sits(s, t)' <=> Sits(s, t)) /\ (SitsOnce(s, t)' <=> SitsOnce(s, t))
BY DEF Sits, SitsOnce

(* A request that is not there yet is sent (duplex.rs:151-161).            *)
LEMMA AppendSits ==
  ASSUME TypeOK, NEW s \in Services, NEW t \in Tasks, ~Sits(s, t),
         queue' = [queue EXCEPT ![s] = Append(@, t)],
         NEW q \in Services, NEW u \in Tasks
  PROVE  /\ Sits(q, u)' <=> Sits(q, u) \/ (q = s /\ u = t)
         /\ SitsOnce(q, u) => SitsOnce(q, u)'
<1> DEFINE n == Len(queue[s])
<1>1. /\ queue[s] \in Seq(Tasks) /\ n \in Nat
      /\ queue'[s] = Append(queue[s], t)
      /\ q # s => queue'[q] = queue[q]
  BY LenProperties DEF TypeOK
<1>2. /\ Len(queue'[s]) = n + 1
      /\ \A i \in 1..n : queue'[s][i] = queue[s][i]
      /\ queue'[s][n + 1] = t
  BY <1>1, AppendProperties
<1>3. \A i \in 1..n : queue[s][i] # t
  BY DEF Sits
<1>4. CASE q # s
  BY <1>1, <1>4 DEF Sits, SitsOnce
<1>5. CASE q = s
  <2> HIDE DEF n
  <2>1. \A i \in 1..(n + 1) : i \in 1..n \/ i = n + 1
    BY <1>1
  <2>2. \A i \in 1..n : i \in 1..(n + 1)
    BY <1>1
  <2>3. n + 1 \in 1..(n + 1)
    BY <1>1
  <2>4. Sits(q, u)' <=> Sits(q, u) \/ u = t
    <3>1. Sits(q, u) => Sits(q, u)'
      BY <1>2, <1>5, <2>2 DEF Sits, n
    <3>2. Sits(q, t)'
      BY <1>2, <1>5, <2>3 DEF Sits
    <3>3. Sits(q, u)' => Sits(q, u) \/ u = t
      BY <1>2, <1>5, <2>1 DEF Sits, n
    <3> QED
      BY <3>1, <3>2, <3>3
  <2>5. ASSUME SitsOnce(q, u) PROVE SitsOnce(q, u)'
    <3>1. SUFFICES ASSUME NEW i \in 1..(n + 1), NEW j \in 1..(n + 1),
                          queue'[s][i] = u, queue'[s][j] = u
                   PROVE  i = j
      BY <1>2, <1>5 DEF SitsOnce
    <3>2. CASE u = t
      BY <1>2, <1>3, <2>1, <3>1, <3>2 DEF n
    <3>3. CASE u # t
      BY <1>2, <1>5, <2>1, <2>5, <3>1, <3>3 DEF SitsOnce, n
    <3> QED
      BY <3>2, <3>3
  <2> QED
    BY <1>5, <2>4, <2>5
<1> QED
  BY <1>4, <1>5

(* The acceptor takes the first request (duplex.rs:224-238).               *)
LEMMA TailSits ==
  ASSUME TypeOK, NEW s \in Services, queue[s] # <<>>,
         queue' = [queue EXCEPT ![s] = Tail(@)],
         NEW q \in Services, NEW u \in Tasks
  PROVE  /\ Sits(q, u)' => Sits(q, u)
         /\ u # Head(queue[s]) /\ Sits(q, u) => Sits(q, u)'
         /\ SitsOnce(q, u) => SitsOnce(q, u)'
<1> DEFINE n == Len(queue[s])
<1>1. /\ queue[s] \in Seq(Tasks) /\ n \in Nat /\ n # 0
      /\ queue'[s] = Tail(queue[s])
      /\ q # s => queue'[q] = queue[q]
  BY LenProperties, EmptySeq DEF TypeOK
<1>2. /\ Head(queue[s]) = queue[s][1]
      /\ Len(queue'[s]) = n - 1
      /\ \A i \in 1..(n - 1) : queue'[s][i] = queue[s][i + 1]
  <2>1. /\ Head(queue[s]) = queue[s][1]
        /\ Len(Tail(queue[s])) = n - 1
        /\ \A i \in 1..Len(Tail(queue[s])) : Tail(queue[s])[i] = queue[s][i + 1]
    BY <1>1, HeadTailProperties
  <2> QED
    BY <1>1, <2>1
<1>3. CASE q # s
  BY <1>1, <1>3 DEF Sits, SitsOnce
<1>4. CASE q = s
  <2> HIDE DEF n
  <2>1. \A i \in 1..(n - 1) : i + 1 \in 1..n
    BY <1>1
  <2>2. \A i \in 1..n : i = 1 \/ (i - 1 \in 1..(n - 1) /\ (i - 1) + 1 = i)
    BY <1>1
  <2>3. Sits(q, u)' => Sits(q, u)
    BY <1>2, <1>4, <2>1 DEF Sits, n
  <2>4. ASSUME u # Head(queue[s]), Sits(q, u) PROVE Sits(q, u)'
    <3>1. PICK i \in 1..n : queue[s][i] = u
      BY <1>4, <2>4 DEF Sits, n
    <3>2. i - 1 \in 1..(n - 1) /\ queue'[s][i - 1] = u
      BY <1>2, <2>2, <2>4, <3>1
    <3> QED
      BY <1>2, <1>4, <3>2 DEF Sits
  <2>5. ASSUME SitsOnce(q, u) PROVE SitsOnce(q, u)'
    <3>1. SUFFICES ASSUME NEW i \in 1..Len(queue'[s]), NEW j \in 1..Len(queue'[s]),
                          queue'[s][i] = u, queue'[s][j] = u
                   PROVE  i = j
      BY <1>4 DEF SitsOnce
    <3>2. /\ i + 1 \in 1..n /\ queue[s][i + 1] = u
          /\ j + 1 \in 1..n /\ queue[s][j + 1] = u
      BY <1>2, <2>1, <3>1
    <3>3. i + 1 = j + 1
      BY <1>4, <2>5, <3>2 DEF SitsOnce, n
    <3> QED
      BY <3>3
  <2> QED
    BY <2>3, <2>4, <2>5
<1> QED
  BY <1>3, <1>4
-----------------------------------------------------------------------------
(* What Request does to a task: it is told that the acceptor is gone, has  *)
(* to wait for room, or has its request in the channel.                    *)
LEMMA RequestMoves ==
  ASSUME TypeOK, NEW t \in Tasks, svc(t) \in Services, ~Sits(svc(t), t), Request(t)
  PROVE  /\ result' \in [Tasks -> Results]
         /\ queue' \in [Services -> Seq(Tasks)]
         /\ \A s \in Services : Len(queue'[s]) <= Capacity
         /\ ack' \in [Tasks -> {"none", "open", "stream", "dropped"}]
         /\ \/ at' = [at EXCEPT ![t] = "done"] /\ UNCHANGED <<queue, ack>>
            \/ at' = [at EXCEPT ![t] = "send"] /\ UNCHANGED <<queue, ack>>
            \/ /\ at' = [at EXCEPT ![t] = "ack"]
               /\ ~Closed(t)
               /\ queue' = [queue EXCEPT ![svc(t)] = Append(@, t)]
               /\ ack' = [ack EXCEPT ![t] = "open"]
<1>1. CASE Closed(t)
  BY <1>1 DEF TypeOK, Request, Returns, Goes, Results
<1>2. CASE ~Closed(t) /\ Full(t)
  BY <1>2 DEF TypeOK, Request, Goes
<1>3. CASE ~Closed(t) /\ ~Full(t)
  <2>1. /\ at' = [at EXCEPT ![t] = "ack"]
        /\ queue' = [queue EXCEPT ![svc(t)] = Append(@, t)]
        /\ ack' = [ack EXCEPT ![t] = "open"]
        /\ UNCHANGED result
    BY <1>3 DEF Request, Goes
  <2>2. /\ queue[svc(t)] \in Seq(Tasks) /\ Len(queue[svc(t)]) \in Nat
        /\ Len(queue[svc(t)]) <= Capacity /\ Capacity \in Nat
        /\ Len(queue[svc(t)]) # Capacity
    BY <1>3, LenProperties, RegistryAssumption DEF TypeOK, Full
  <2>3. /\ Append(queue[svc(t)], t) \in Seq(Tasks)
        /\ Len(Append(queue[svc(t)], t)) <= Capacity
    BY <2>2, AppendProperties
  <2> QED
    BY <1>3, <2>1, <2>3 DEF TypeOK
<1> QED
  BY <1>1, <1>2, <1>3

(* The acceptor of a service is only inserted by a lookup.                 *)
LEMMA GetMoves ==
  ASSUME TypeOK, NEW t \in Tasks, svc(t) \in Services, Get(t)
  PROVE  /\ acceptor' \in [Services -> {"none", "idle", "bound", "closed"}]
         /\ acceptor'[svc(t)] # "none"
         /\ acceptor'[svc(t)] = "closed" <=> Closed(t)
         /\ \A s \in Services : \/ acceptor'[s] = acceptor[s]
                                \/ acceptor[s] = "none" /\ acceptor'[s] = "idle"
BY DEF TypeOK, Get, Inserted, Closed

(* Dropping an acceptor drops the requests in its channel.                 *)
LEMMA DropMoves ==
  ASSUME TypeOK, NEW s \in Services, DropAcceptor(s)
  PROVE  /\ acceptor' = [acceptor EXCEPT ![s] = "closed"]
         /\ queue' \in [Services -> Seq(Tasks)]
         /\ \A q \in Services : Len(queue'[q]) <= Capacity
         /\ queue'[s] = <<>>
         /\ \A q \in Services : q # s => queue'[q] = queue[q]
         /\ ack' \in [Tasks -> {"none", "open", "stream", "dropped"}]
         /\ \A t \in Tasks : /\ ack'[t] = "none" <=> ack[t] = "none"
                             /\ Sits(s, t) => ack'[t] # "open"
                             /\ ack'[t] = "open" => ack[t] = "open"
<1>1. <<>> \in Seq(Tasks) /\ Len(<<>>) = 0 /\ Capacity \in Nat
  BY EmptySeq, RegistryAssumption
<1> QED
  BY <1>1 DEF TypeOK, DropAcceptor, Contains, Sits

-----------------------------------------------------------------------------
(* Every step keeps the types.                                             *)
LEMMA TypeStep ==
  ASSUME RegistryInv, [Next]_vars
  PROVE  TypeOK'
<1> USE RegistryAssumption
<1>0. TypeOK /\ \A t \in Tasks : svc(t) \in Services \cup {NONE} /\ Asks(t)
  BY SvcType DEF RegistryInv
<1> USE <1>0
<1>1. ASSUME NEW t \in Tasks, Start(t) PROVE TypeOK'
  BY <1>1 DEF TypeOK, Start, Goes
<1>2. ASSUME NEW t \in Tasks, CallInvalid(t) PROVE TypeOK'
  BY <1>2 DEF TypeOK, CallInvalid, Returns, Goes, Results
<1>3. ASSUME NEW t \in Tasks, IsAvailable(t) PROVE TypeOK'
  <2>1. svc(t) \in Services /\ Get(t)
    BY <1>3 DEF IsAvailable, Get, Asks
  <2> QED
    BY <1>3, <2>1, GetMoves DEF TypeOK, IsAvailable, Returns, Goes, Results
<1>4. ASSUME NEW t \in Tasks, Connect(t) PROVE TypeOK'
  <2>1. svc(t) \in Services /\ ~Sits(svc(t), t) /\ Request(t) /\ Get(t)
    BY <1>4 DEF Connect, Get, Asks
  <2>2. /\ result' \in [Tasks -> Results]
        /\ queue' \in [Services -> Seq(Tasks)]
        /\ \A s \in Services : Len(queue'[s]) <= Capacity
        /\ ack' \in [Tasks -> {"none", "open", "stream", "dropped"}]
        /\ \E p \in {"send", "done", "ack"} : at' = [at EXCEPT ![t] = p]
    BY <2>1, RequestMoves
  <2>3. acceptor' \in [Services -> {"none", "idle", "bound", "closed"}]
    BY <1>4, <2>1, GetMoves DEF TypeOK, Connect
  <2>4. timed' = timed /\ calls' = calls
    BY <1>4 DEF Connect
  <2> QED
    BY <2>2, <2>3, <2>4 DEF TypeOK
<1>5. ASSUME NEW t \in Tasks, Bind(t) PROVE TypeOK'
  <2>1. svc(t) \in Services
    BY <1>5 DEF Bind, Asks
  <2> QED
    BY <1>5, <2>1 DEF TypeOK, Bind, Returns, Goes, Results
<1>6. ASSUME NEW t \in Tasks, Send(t) PROVE TypeOK'
  <2>1. svc(t) \in Services /\ ~Sits(svc(t), t) /\ Request(t)
    BY <1>6 DEF Send, Asks
  <2>2. /\ result' \in [Tasks -> Results]
        /\ queue' \in [Services -> Seq(Tasks)]
        /\ \A s \in Services : Len(queue'[s]) <= Capacity
        /\ ack' \in [Tasks -> {"none", "open", "stream", "dropped"}]
        /\ \E p \in {"send", "done", "ack"} : at' = [at EXCEPT ![t] = p]
    BY <2>1, RequestMoves
  <2>3. acceptor' \in [Services -> {"none", "idle", "bound", "closed"}]
    BY <1>6, <2>1 DEF TypeOK, Send
  <2>4. timed' = timed /\ calls' = calls
    BY <1>6 DEF Send
  <2> QED
    BY <2>2, <2>3, <2>4 DEF TypeOK
<1>7. ASSUME NEW t \in Tasks, Acknowledged(t) PROVE TypeOK'
  BY <1>7 DEF TypeOK, Acknowledged, Returns, Goes, Results
<1>8. ASSUME NEW t \in Tasks, TimesOut(t) PROVE TypeOK'
  BY <1>8 DEF TypeOK, TimesOut, Returns, Goes, Results
<1>9. ASSUME NEW t \in Tasks, Cancel(t) PROVE TypeOK'
  BY <1>9 DEF TypeOK, Cancel, Returns, Goes, Results
<1>10. ASSUME NEW t \in Tasks, Accept(t) PROVE TypeOK'
  <2>1. /\ svc(t) \in Services /\ queue[svc(t)] \in Seq(Tasks)
        /\ queue[svc(t)] # <<>>
    BY <1>10 DEF Accept, Asks, TypeOK
  <2>2. /\ Head(queue[svc(t)]) \in Tasks
        /\ Tail(queue[svc(t)]) \in Seq(Tasks)
        /\ Len(Tail(queue[svc(t)])) <= Len(queue[svc(t)])
    BY <2>1, HeadTailProperties, LenProperties
  <2>3. Len(Tail(queue[svc(t)])) <= Capacity
    BY <2>1, <2>2, LenProperties DEF TypeOK
  <2> QED
    BY <1>10, <2>1, <2>2, <2>3 DEF TypeOK, Accept
<1>11. ASSUME NEW t \in Tasks, AcceptFails(t) PROVE TypeOK'
  <2>1. svc(t) \in Services /\ DropAcceptor(svc(t))
    BY <1>11 DEF AcceptFails, Asks
  <2> QED
    BY <1>11, <2>1, DropMoves DEF TypeOK, AcceptFails, Returns, Goes, Results
<1>12. ASSUME NEW t \in Tasks, ServerEnds(t) PROVE TypeOK'
  <2>1. svc(t) \in Services /\ DropAcceptor(svc(t))
    BY <1>12 DEF ServerEnds, Asks
  <2> QED
    BY <1>12, <2>1, DropMoves DEF TypeOK, ServerEnds, Returns, Goes, Results
<1>13. CASE UNCHANGED vars
  BY <1>13 DEF TypeOK, vars
<1> QED
  BY <1>1, <1>2, <1>3, <1>4, <1>5, <1>6, <1>7, <1>8, <1>9, <1>10, <1>11, <1>12,
     <1>13
     DEF Next, Lookup, Poll, Serve

(* Every step keeps what a task may count on.                              *)
LEMMA AsksStep ==
  ASSUME RegistryInv, [Next]_vars, NEW u \in Tasks
  PROVE  Asks(u)'
<1>0. /\ TypeOK /\ Asks(u)
      /\ \A t \in Tasks : svc(t) \in Services \cup {NONE} /\ Asks(t)
  BY SvcType DEF RegistryInv
<1> USE <1>0
<1>1. ASSUME NEW t \in Tasks, Start(t) PROVE Asks(u)'
  <2>1. svc(u)' = svc(u) /\ UNCHANGED <<acceptor, queue, ack>>
    BY <1>1 DEF Start, svc, op
  <2> QED
    BY <1>1, <2>1, SitsSame DEF TypeOK, Asks, Start, Goes
<1>2. ASSUME NEW t \in Tasks, CallInvalid(t) PROVE Asks(u)'
  <2>1. svc(u)' = svc(u) /\ UNCHANGED <<acceptor, queue, ack>>
    BY <1>2 DEF CallInvalid, svc, op
  <2> QED
    BY <1>2, <2>1, SitsSame DEF TypeOK, Asks, CallInvalid, Returns, Goes
<1>3. ASSUME NEW t \in Tasks, IsAvailable(t) PROVE Asks(u)'
  <2>1. /\ svc(u)' = svc(u) /\ UNCHANGED <<queue, ack>>
        /\ svc(t) \in Services /\ Get(t)
        /\ at' = [at EXCEPT ![t] = "done"]
    BY <1>3 DEF IsAvailable, Get, Asks, svc, op, Returns, Goes
  <2>2. \A s \in Services :
          \/ acceptor'[s] = acceptor[s]
          \/ acceptor[s] = "none" /\ acceptor'[s] = "idle"
    BY <2>1, GetMoves
  <2> QED
    BY <2>1, <2>2, SitsSame DEF TypeOK, Asks
<1>4. ASSUME NEW t \in Tasks, Connect(t) PROVE Asks(u)'
  <2>1. /\ svc(u)' = svc(u) /\ at[t] \in {"lookup", "send"}
        /\ svc(t) \in Services /\ ~Sits(svc(t), t) /\ Request(t)
    BY <1>4 DEF Connect, Get, Asks, svc, op
  <2>0. Get(t)
    BY <1>4 DEF Connect
  <2>2. /\ \A s \in Services :
             \/ acceptor'[s] = acceptor[s]
             \/ acceptor[s] = "none" /\ acceptor'[s] = "idle"
        /\ acceptor'[svc(t)] # "none"
        /\ acceptor'[svc(t)] = "closed" <=> Closed(t)
    BY <2>1, <2>0, GetMoves
  <2>3. CASE /\ \E p \in {"send", "done"} : at' = [at EXCEPT ![t] = p]
            /\ UNCHANGED <<queue, ack>>
    BY <2>1, <2>2, <2>3, SitsSame DEF TypeOK, Asks
  <2>4. CASE /\ at' = [at EXCEPT ![t] = "ack"]
             /\ ~Closed(t)
             /\ queue' = [queue EXCEPT ![svc(t)] = Append(@, t)]
             /\ ack' = [ack EXCEPT ![t] = "open"]
    <3>1. \A s \in Services :
            /\ Sits(s, u)' <=> Sits(s, u) \/ (s = svc(t) /\ u = t)
            /\ SitsOnce(s, u) => SitsOnce(s, u)'
      BY <2>1, <2>4, AppendSits
    <3>2. u = t => SitsOnce(svc(t), u)
      BY <2>1 DEF Sits, SitsOnce
    <3>3. CASE u = t
      BY <2>1, <2>2, <2>4, <3>1, <3>2, <3>3 DEF TypeOK, Asks
    <3>4. CASE u # t
      BY <2>1, <2>2, <2>4, <3>1, <3>4 DEF TypeOK, Asks
    <3> QED
      BY <3>3, <3>4
  <2> QED
    BY <2>1, <2>3, <2>4, RequestMoves
<1>5. ASSUME NEW t \in Tasks, Bind(t) PROVE Asks(u)'
  <2>1. /\ svc(u)' = svc(u) /\ UNCHANGED <<queue, ack>>
        /\ svc(t) \in Services
        /\ \E p \in {"serving", "done"} : at' = [at EXCEPT ![t] = p]
        /\ at[t] = "lookup"
    BY <1>5 DEF Bind, Asks, svc, op, Returns, Goes
  <2>2. \A s \in Services :
          \/ acceptor'[s] = acceptor[s]
          \/ acceptor'[s] = "bound"
    BY <1>5, <2>1 DEF Bind, TypeOK
  <2> QED
    BY <2>1, <2>2, SitsSame DEF TypeOK, Asks
<1>6. ASSUME NEW t \in Tasks, Send(t) PROVE Asks(u)'
  <2>1. /\ svc(u)' = svc(u) /\ at[t] \in {"lookup", "send"}
        /\ svc(t) \in Services /\ ~Sits(svc(t), t) /\ Request(t)
    BY <1>6 DEF Send, Asks, svc, op
  <2>2. /\ acceptor' = acceptor
        /\ acceptor'[svc(t)] # "none"
        /\ acceptor'[svc(t)] = "closed" <=> Closed(t)
    BY <1>6 DEF Send, Asks, Closed
  <2>3. CASE /\ \E p \in {"send", "done"} : at' = [at EXCEPT ![t] = p]
            /\ UNCHANGED <<queue, ack>>
    BY <2>1, <2>2, <2>3, SitsSame DEF TypeOK, Asks
  <2>4. CASE /\ at' = [at EXCEPT ![t] = "ack"]
             /\ ~Closed(t)
             /\ queue' = [queue EXCEPT ![svc(t)] = Append(@, t)]
             /\ ack' = [ack EXCEPT ![t] = "open"]
    <3>1. \A s \in Services :
            /\ Sits(s, u)' <=> Sits(s, u) \/ (s = svc(t) /\ u = t)
            /\ SitsOnce(s, u) => SitsOnce(s, u)'
      BY <2>1, <2>4, AppendSits
    <3>2. u = t => SitsOnce(svc(t), u)
      BY <2>1 DEF Sits, SitsOnce
    <3>3. CASE u = t
      BY <2>1, <2>2, <2>4, <3>1, <3>2, <3>3 DEF TypeOK, Asks
    <3>4. CASE u # t
      BY <2>1, <2>2, <2>4, <3>1, <3>4 DEF TypeOK, Asks
    <3> QED
      BY <3>3, <3>4
  <2> QED
    BY <2>1, <2>3, <2>4, RequestMoves
<1>7. ASSUME NEW t \in Tasks, Acknowledged(t) PROVE Asks(u)'
  <2>1. svc(u)' = svc(u) /\ UNCHANGED <<acceptor, queue, ack>>
    BY <1>7 DEF Acknowledged, svc, op
  <2> QED
    BY <1>7, <2>1, SitsSame DEF TypeOK, Asks, Acknowledged, Returns, Goes
<1>8. ASSUME NEW t \in Tasks, TimesOut(t) PROVE Asks(u)'
  <2>1. svc(u)' = svc(u) /\ UNCHANGED <<acceptor, queue, ack>>
    BY <1>8 DEF TimesOut, svc, op
  <2> QED
    BY <1>8, <2>1, SitsSame DEF TypeOK, Asks, TimesOut, Returns, Goes
<1>9. ASSUME NEW t \in Tasks, Cancel(t) PROVE Asks(u)'
  <2>1. svc(u)' = svc(u) /\ UNCHANGED <<acceptor, queue, ack>>
    BY <1>9 DEF Cancel, svc, op
  <2> QED
    BY <1>9, <2>1, SitsSame DEF TypeOK, Asks, Cancel, Returns, Goes
<1>10. ASSUME NEW t \in Tasks, Accept(t) PROVE Asks(u)'
  <2> DEFINE c == Head(queue[svc(t)])
  <2>1. /\ svc(u)' = svc(u) /\ svc(t) \in Services /\ queue[svc(t)] # <<>>
        /\ UNCHANGED <<at, acceptor>> /\ queue[svc(t)] \in Seq(Tasks)
        /\ queue' = [queue EXCEPT ![svc(t)] = Tail(@)]
        /\ at[c] = "ack" /\ ack' = [ack EXCEPT ![c] = "stream"]
    BY <1>10 DEF Accept, Asks, Waits, svc, op, TypeOK
  <2> HIDE DEF c
  <2>2. \A s \in Services :
          /\ Sits(s, u)' => Sits(s, u)
          /\ u # c /\ Sits(s, u) => Sits(s, u)'
          /\ SitsOnce(s, u) => SitsOnce(s, u)'
    BY <2>1, TailSits DEF c
  <2>3. CASE u = c
    BY <2>1, <2>2, <2>3 DEF TypeOK, Asks
  <2>4. CASE u # c
    <3>1. ack'[u] = ack[u]
      BY <2>1, <2>4 DEF TypeOK
    <3>2. \A s \in Services : Sits(s, u)' <=> Sits(s, u)
      BY <2>2, <2>4
    <3> QED
      BY <2>1, <2>2, <3>1, <3>2 DEF Asks
  <2> QED
    BY <2>3, <2>4
<1>11. ASSUME NEW t \in Tasks, AcceptFails(t) PROVE Asks(u)'
  <2>1. /\ svc(u)' = svc(u) /\ svc(t) \in Services /\ DropAcceptor(svc(t))
        /\ at' = [at EXCEPT ![t] = "done"]
    BY <1>11 DEF AcceptFails, Asks, Returns, Goes, svc, op
  <2>2. /\ acceptor' = [acceptor EXCEPT ![svc(t)] = "closed"]
        /\ ack'[u] = "none" <=> ack[u] = "none"
        /\ ack'[u] = "open" => ack[u] = "open" /\ ~Sits(svc(t), u)
        /\ \A s \in Services : s # svc(t) => queue'[s] = queue[s]
        /\ queue'[svc(t)] = <<>>
    BY <2>1, DropMoves
  <2>3. \A s \in Services :
          /\ Sits(s, u)' => Sits(s, u)
          /\ s # svc(t) => (Sits(s, u)' <=> Sits(s, u))
          /\ s # svc(t) => (SitsOnce(s, u)' <=> SitsOnce(s, u))
    BY <2>2, EmptySeq DEF Sits, SitsOnce
  <2>4. CASE u = t
    BY <2>1, <2>2, <2>3, <2>4 DEF TypeOK, Asks
  <2>5. ASSUME u # t, at[u] = "ack", ack'[u] = "open"
        PROVE  svc(u) \in Services /\ svc(u) # svc(t)
    BY <2>2, <2>5 DEF Asks
  <2>6. CASE u # t
    <3>1. at'[u] = at[u]
      BY <2>1, <2>6 DEF TypeOK
    <3>2. \A s \in Services : Sits(s, u)' => ack'[u] # "none"
      BY <2>2, <2>3 DEF Asks
    <3>3. at[u] \in {"send", "ack"} => acceptor'[svc(u)] # "none"
      BY <2>2 DEF Asks, TypeOK
    <3>4. at[u] = "ack" /\ ack'[u] = "open"
            => /\ acceptor'[svc(u)] # "closed"
               /\ Sits(svc(u), u)' /\ SitsOnce(svc(u), u)'
      <4> SUFFICES ASSUME at[u] = "ack", ack'[u] = "open"
                   PROVE  /\ acceptor'[svc(u)] # "closed"
                          /\ Sits(svc(u), u)' /\ SitsOnce(svc(u), u)'
        OBVIOUS
      <4>1. svc(u) \in Services /\ svc(u) # svc(t)
        BY <2>5, <2>6
      <4>2. /\ acceptor[svc(u)] # "closed" /\ ack[u] = "open"
            /\ Sits(svc(u), u) /\ SitsOnce(svc(u), u)
        BY <2>2 DEF Asks
      <4>3. acceptor'[svc(u)] = acceptor[svc(u)]
        BY <2>2, <4>1 DEF TypeOK
      <4>4. Sits(svc(u), u)' /\ SitsOnce(svc(u), u)'
        <5>1. svc(u)' = svc(u)
          BY <2>1
        <5>2. queue'[svc(u)] = queue[svc(u)]
          BY <2>2, <4>1
        <5> QED
          BY <4>2, <5>1, <5>2 DEF Sits, SitsOnce
      <4> QED
        BY <4>2, <4>3, <4>4
    <3>5. svc(u)' = svc(u)
      BY <2>1
    <3> QED
      BY <2>2, <3>1, <3>2, <3>3, <3>4, <3>5 DEF Asks
  <2> QED
    BY <2>4, <2>6
<1>12. ASSUME NEW t \in Tasks, ServerEnds(t) PROVE Asks(u)'
  <2>1. /\ svc(u)' = svc(u) /\ svc(t) \in Services /\ DropAcceptor(svc(t))
        /\ at' = [at EXCEPT ![t] = "done"]
    BY <1>12 DEF ServerEnds, Asks, Returns, Goes, svc, op
  <2>2. /\ acceptor' = [acceptor EXCEPT ![svc(t)] = "closed"]
        /\ ack'[u] = "none" <=> ack[u] = "none"
        /\ ack'[u] = "open" => ack[u] = "open" /\ ~Sits(svc(t), u)
        /\ \A s \in Services : s # svc(t) => queue'[s] = queue[s]
        /\ queue'[svc(t)] = <<>>
    BY <2>1, DropMoves
  <2>3. \A s \in Services :
          /\ Sits(s, u)' => Sits(s, u)
          /\ s # svc(t) => (Sits(s, u)' <=> Sits(s, u))
          /\ s # svc(t) => (SitsOnce(s, u)' <=> SitsOnce(s, u))
    BY <2>2, EmptySeq DEF Sits, SitsOnce
  <2>4. CASE u = t
    BY <2>1, <2>2, <2>3, <2>4 DEF TypeOK, Asks
  <2>5. ASSUME u # t, at[u] = "ack", ack'[u] = "open"
        PROVE  svc(u) \in Services /\ svc(u) # svc(t)
    BY <2>2, <2>5 DEF Asks
  <2>6. CASE u # t
    <3>1. at'[u] = at[u]
      BY <2>1, <2>6 DEF TypeOK
    <3>2. \A s \in Services : Sits(s, u)' => ack'[u] # "none"
      BY <2>2, <2>3 DEF Asks
    <3>3. at[u] \in {"send", "ack"} => acceptor'[svc(u)] # "none"
      BY <2>2 DEF Asks, TypeOK
    <3>4. at[u] = "ack" /\ ack'[u] = "open"
            => /\ acceptor'[svc(u)] # "closed"
               /\ Sits(svc(u), u)' /\ SitsOnce(svc(u), u)'
      <4> SUFFICES ASSUME at[u] = "ack", ack'[u] = "open"
                   PROVE  /\ acceptor'[svc(u)] # "closed"
                          /\ Sits(svc(u), u)' /\ SitsOnce(svc(u), u)'
        OBVIOUS
      <4>1. svc(u) \in Services /\ svc(u) # svc(t)
        BY <2>5, <2>6
      <4>2. /\ acceptor[svc(u)] # "closed" /\ ack[u] = "open"
            /\ Sits(svc(u), u) /\ SitsOnce(svc(u), u)
        BY <2>2 DEF Asks
      <4>3. acceptor'[svc(u)] = acceptor[svc(u)]
        BY <2>2, <4>1 DEF TypeOK
      <4>4. Sits(svc(u), u)' /\ SitsOnce(svc(u), u)'
        <5>1. svc(u)' = svc(u)
          BY <2>1
        <5>2. queue'[svc(u)] = queue[svc(u)]
          BY <2>2, <4>1
        <5> QED
          BY <4>2, <5>1, <5>2 DEF Sits, SitsOnce
      <4> QED
        BY <4>2, <4>3, <4>4
    <3>5. svc(u)' = svc(u)
      BY <2>1
    <3> QED
      BY <2>2, <3>1, <3>2, <3>3, <3>4, <3>5 DEF Asks
  <2> QED
    BY <2>4, <2>6
<1>13. CASE UNCHANGED vars
  <2>1. svc(u)' = svc(u)
    BY <1>13 DEF vars, svc, op
  <2> QED
    BY <1>13, <2>1, SitsSame DEF Asks, vars
<1> QED
  BY <1>1, <1>2, <1>3, <1>4, <1>5, <1>6, <1>7, <1>8, <1>9, <1>10, <1>11, <1>12,
     <1>13
     DEF Next, Lookup, Poll, Serve

(* Every step keeps what a service may count on.                           *)
LEMMA AnswersStep ==
  ASSUME RegistryInv, [Next]_vars, NEW s \in Services
  PROVE  Answers(s)'
<1>0. /\ TypeOK /\ Answers(s) /\ \A q \in Services : Answers(q)
      /\ \A t \in Tasks : svc(t) \in Services \cup {NONE} /\ Asks(t)
  BY SvcType DEF RegistryInv
<1>s. ASSUME UNCHANGED calls, NEW u \in Tasks PROVE svc(u)' = svc(u)
  BY <1>s DEF svc, op
<1> USE <1>0
<1>1. ASSUME NEW t \in Tasks, Start(t) PROVE Answers(s)'
  <2>1. (\A u \in Tasks : svc(u)' = svc(u)) /\ UNCHANGED <<acceptor, queue>>
    BY <1>1, <1>s DEF Start
  <2> QED
    BY <1>1, <2>1 DEF TypeOK, Answers, Serves, Start, Goes
<1>2. ASSUME NEW t \in Tasks, CallInvalid(t) PROVE Answers(s)'
  <2>1. (\A u \in Tasks : svc(u)' = svc(u)) /\ UNCHANGED <<acceptor, queue>>
    BY <1>2, <1>s DEF CallInvalid
  <2> QED
    BY <1>2, <2>1 DEF TypeOK, Answers, Serves, CallInvalid, Returns, Goes
<1>3. ASSUME NEW t \in Tasks, IsAvailable(t) PROVE Answers(s)'
  <2>1. /\ \A u \in Tasks : svc(u)' = svc(u)
        /\ svc(t) \in Services /\ Get(t) /\ at[t] = "lookup"
        /\ at' = [at EXCEPT ![t] = "done"] /\ UNCHANGED queue
    BY <1>3, <1>s DEF IsAvailable, Get, Asks, Returns, Goes
  <2>2. \/ acceptor'[s] = acceptor[s]
        \/ acceptor[s] = "none" /\ acceptor'[s] = "idle"
    BY <2>1, GetMoves
  <2> QED
    BY <2>1, <2>2 DEF TypeOK, Answers, Serves
<1>4. ASSUME NEW t \in Tasks, Connect(t) PROVE Answers(s)'
  <2>1. /\ \A u \in Tasks : svc(u)' = svc(u)
        /\ at[t] \in {"lookup", "send"}
        /\ svc(t) \in Services /\ ~Sits(svc(t), t) /\ Request(t)
    BY <1>4, <1>s DEF Connect, Get, Asks
  <2>0. Get(t)
    BY <1>4 DEF Connect
  <2>2. /\ \/ acceptor'[s] = acceptor[s]
           \/ acceptor[s] = "none" /\ acceptor'[s] = "idle"
        /\ acceptor'[svc(t)] # "none"
        /\ acceptor'[svc(t)] = "closed" <=> Closed(t)
    BY <2>1, <2>0, GetMoves
  <2>3. /\ \E p \in {"send", "done", "ack"} : at' = [at EXCEPT ![t] = p]
        /\ \/ queue'[s] = queue[s]
           \/ s = svc(t) /\ ~Closed(t)
    BY <2>1, RequestMoves DEF TypeOK
  <2> QED
    BY <2>1, <2>2, <2>3 DEF TypeOK, Answers, Serves
<1>5. ASSUME NEW t \in Tasks, Bind(t) PROVE Answers(s)'
  <2>1. /\ \A u \in Tasks : svc(u)' = svc(u)
        /\ svc(t) \in Services /\ at[t] = "lookup" /\ UNCHANGED queue
    BY <1>5, <1>s DEF Bind, Asks
  <2>2. CASE Take(svc(t))
    <3>1. /\ acceptor' = [acceptor EXCEPT ![svc(t)] = "bound"]
          /\ at' = [at EXCEPT ![t] = "serving"]
          /\ acceptor[svc(t)] # "bound"
      BY <1>5, <2>2 DEF Bind, Take, Goes
    <3>2. CASE s = svc(t)
      BY <2>1, <3>1, <3>2 DEF TypeOK, Answers, Serves
    <3>3. CASE s # svc(t)
      BY <2>1, <3>1, <3>3 DEF TypeOK, Answers, Serves
    <3> QED
      BY <3>2, <3>3
  <2>3. CASE ~Take(svc(t))
    BY <1>5, <2>1, <2>3 DEF TypeOK, Answers, Serves, Bind, Returns, Goes
  <2> QED
    BY <2>2, <2>3
<1>6. ASSUME NEW t \in Tasks, Send(t) PROVE Answers(s)'
  <2>1. /\ \A u \in Tasks : svc(u)' = svc(u)
        /\ at[t] \in {"lookup", "send"}
        /\ svc(t) \in Services /\ ~Sits(svc(t), t) /\ Request(t)
    BY <1>6, <1>s DEF Send, Asks
  <2>2. /\ acceptor' = acceptor
        /\ acceptor'[svc(t)] # "none"
        /\ acceptor'[svc(t)] = "closed" <=> Closed(t)
    BY <1>6 DEF Send, Asks, Closed
  <2>3. /\ \E p \in {"send", "done", "ack"} : at' = [at EXCEPT ![t] = p]
        /\ \/ queue'[s] = queue[s]
           \/ s = svc(t) /\ ~Closed(t)
    BY <2>1, RequestMoves DEF TypeOK
  <2> QED
    BY <2>1, <2>2, <2>3 DEF TypeOK, Answers, Serves
<1>7. ASSUME NEW t \in Tasks, Acknowledged(t) PROVE Answers(s)'
  <2>1. (\A u \in Tasks : svc(u)' = svc(u)) /\ UNCHANGED <<acceptor, queue>>
    BY <1>7, <1>s DEF Acknowledged
  <2> QED
    BY <1>7, <2>1 DEF TypeOK, Answers, Serves, Acknowledged, Returns, Goes
<1>8. ASSUME NEW t \in Tasks, TimesOut(t) PROVE Answers(s)'
  <2>1. (\A u \in Tasks : svc(u)' = svc(u)) /\ UNCHANGED <<acceptor, queue>>
    BY <1>8, <1>s DEF TimesOut
  <2> QED
    BY <1>8, <2>1 DEF TypeOK, Answers, Serves, TimesOut, Returns, Goes
<1>9. ASSUME NEW t \in Tasks, Cancel(t) PROVE Answers(s)'
  <2>1. (\A u \in Tasks : svc(u)' = svc(u)) /\ UNCHANGED <<acceptor, queue>>
    BY <1>9, <1>s DEF Cancel
  <2> QED
    BY <1>9, <2>1 DEF TypeOK, Answers, Serves, Cancel, Returns, Goes
<1>10. ASSUME NEW t \in Tasks, Accept(t) PROVE Answers(s)'
  <2>1. /\ \A u \in Tasks : svc(u)' = svc(u)
        /\ svc(t) \in Services /\ Serves(t, svc(t)) /\ UNCHANGED <<at, acceptor>>
        /\ queue' = [queue EXCEPT ![svc(t)] = Tail(@)]
    BY <1>10, <1>s DEF Accept, Asks, Serves
  <2>2. acceptor[svc(t)] = "bound"
    BY <2>1 DEF Answers
  <2> QED
    BY <2>1, <2>2 DEF TypeOK, Answers, Serves
<1>11. ASSUME NEW t \in Tasks, AcceptFails(t) PROVE Answers(s)'
  <2>1. /\ \A u \in Tasks : svc(u)' = svc(u)
        /\ svc(t) \in Services /\ DropAcceptor(svc(t)) /\ Serves(t, svc(t))
        /\ at' = [at EXCEPT ![t] = "done"]
    BY <1>11, <1>s DEF AcceptFails, Asks, Serves, Returns, Goes
  <2>2. /\ acceptor' = [acceptor EXCEPT ![svc(t)] = "closed"]
        /\ s # svc(t) => queue'[s] = queue[s]
        /\ queue'[svc(t)] = <<>>
    BY <2>1, DropMoves
  <2> QED
    BY <2>1, <2>2 DEF TypeOK, Answers, Serves
<1>12. ASSUME NEW t \in Tasks, ServerEnds(t) PROVE Answers(s)'
  <2>1. /\ \A u \in Tasks : svc(u)' = svc(u)
        /\ svc(t) \in Services /\ DropAcceptor(svc(t)) /\ Serves(t, svc(t))
        /\ at' = [at EXCEPT ![t] = "done"]
    BY <1>12, <1>s DEF ServerEnds, Asks, Serves, Returns, Goes
  <2>2. /\ acceptor' = [acceptor EXCEPT ![svc(t)] = "closed"]
        /\ s # svc(t) => queue'[s] = queue[s]
        /\ queue'[svc(t)] = <<>>
    BY <2>1, DropMoves
  <2> QED
    BY <2>1, <2>2 DEF TypeOK, Answers, Serves
<1>13. CASE UNCHANGED vars
  <2>1. \A u \in Tasks : svc(u)' = svc(u)
    BY <1>13, <1>s DEF vars
  <2> QED
    BY <1>13, <2>1 DEF Answers, Serves, vars
<1> QED
  BY <1>1, <1>2, <1>3, <1>4, <1>5, <1>6, <1>7, <1>8, <1>9, <1>10, <1>11, <1>12,
     <1>13
     DEF Next, Lookup, Poll, Serve
-----------------------------------------------------------------------------
(* The invariant holds before the first call is made.                      *)
LEMMA RegistryInvInit == Init => RegistryInv
<1> SUFFICES ASSUME Init PROVE RegistryInv
  OBVIOUS
<1>1. <<>> \in Seq(Tasks) /\ Len(<<>>) = 0 /\ Capacity \in Nat
  BY EmptySeq, RegistryAssumption
<1>2. TypeOK
  BY <1>1, RegistryAssumption DEF Init, TypeOK, Results
<1>3. \A t \in Tasks : Asks(t)
  BY <1>1 DEF Init, Asks, Sits
<1>4. \A s \in Services : Answers(s)
  BY DEF Init, Answers, Serves
<1> QED
  BY <1>2, <1>3, <1>4 DEF RegistryInv

(* Counting requests in a channel, and servers, gives RequestsKept.        *)
LEMMA InvKeepsRequests == RegistryInv => RequestsKept
<1> SUFFICES ASSUME RegistryInv PROVE RequestsKept
  OBVIOUS
<1>1. ASSUME NEW t \in Tasks, at[t] = "ack", ack[t] = "open"
      PROVE  /\ acceptor[svc(t)] # "closed"
             /\ Cardinality({i \in DOMAIN queue[svc(t)] : queue[svc(t)][i] = t}) = 1
  <2>1. /\ acceptor[svc(t)] # "closed" /\ svc(t) \in Services
        /\ Sits(svc(t), t) /\ SitsOnce(svc(t), t)
    BY <1>1 DEF RegistryInv, Asks
  <2>2. DOMAIN queue[svc(t)] = 1..Len(queue[svc(t)])
    BY <2>1, LenProperties DEF RegistryInv, TypeOK
  <2>3. PICK i \in 1..Len(queue[svc(t)]) : queue[svc(t)][i] = t
    BY <2>1 DEF Sits
  <2>4. {j \in DOMAIN queue[svc(t)] : queue[svc(t)][j] = t} = {i}
    BY <2>1, <2>2, <2>3 DEF SitsOnce
  <2> QED
    BY <2>1, <2>4, FS_Singleton
<1>2. ASSUME NEW s \in Services
      PROVE  /\ acceptor[s] \in {"none", "closed"} => queue[s] = <<>>
             /\ Cardinality({t \in Tasks : Serves(t, s)})
                  = IF acceptor[s] = "bound" THEN 1 ELSE 0
  <2>1. Answers(s)
    BY DEF RegistryInv
  <2>2. CASE acceptor[s] = "bound"
    <3>1. PICK t \in Tasks : Serves(t, s)
      BY <2>1, <2>2 DEF Answers
    <3>2. {u \in Tasks : Serves(u, s)} = {t}
      BY <2>1, <3>1 DEF Answers
    <3> QED
      BY <2>2, <3>2, FS_Singleton
  <2>3. CASE acceptor[s] # "bound"
    <3>1. {u \in Tasks : Serves(u, s)} = {}
      BY <2>1, <2>3 DEF Answers
    <3> QED
      BY <2>1, <2>3, <3>1, FS_EmptySet DEF Answers
  <2> QED
    BY <2>2, <2>3
<1> QED
  BY <1>1, <1>2 DEF RequestsKept

(* No request is stranded or answered by two, and a service has one server *)
(* while it is bound, however connects, binds, time-outs, cancellations    *)
(* and ends of servers interleave (duplex.rs:151-186, 224-238,             *)
(* discovery/mod.rs:502-507).                                              *)
THEOREM RequestsAreKept == Spec => [](TypeOK /\ RequestsKept)
<1>1. RegistryInv /\ [Next]_vars => RegistryInv'
  <2> SUFFICES ASSUME RegistryInv, [Next]_vars PROVE RegistryInv'
    OBVIOUS
  <2>1. TypeOK'
    BY TypeStep
  <2>2. \A t \in Tasks : Asks(t)'
    BY AsksStep
  <2>3. \A s \in Services : Answers(s)'
    BY AnswersStep
  <2> QED
    BY <2>1, <2>2, <2>3 DEF RegistryInv
<1>2. RegistryInv => TypeOK /\ RequestsKept
  BY InvKeepsRequests DEF RegistryInv
<1> QED
  BY RegistryInvInit, <1>1, <1>2, PTL DEF Spec
=============================================================================
