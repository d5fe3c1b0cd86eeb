--------------------------- MODULE PoolOwnership ---------------------------
(***************************************************************************)
(* Who has a connection of the pool: proofs that it is one place, that it  *)
(* does not get lost on the way, and that who waits for one has one sender.*)
(***************************************************************************)
EXTENDS PoolProofs, FiniteSetTheorems

(* The lease of one connection: where it may be, given where it is.        *)

(* It is in an idle list, and there only once.                             *)
InIdle(c) == \E k \in Keys : \E i \in 1..Len(idle[k]) : idle[k][i] = c

IdleOnce(c) ==
  \A k, l \in Keys : \A i \in 1..Len(idle[k]), j \in 1..Len(idle[l]) :
    idle[k][i] = c /\ idle[l][j] = c => k = l /\ i = j

(* A Pooled that will give the connection back, and one that is a clone.   *)
Owns(p, c) == p.conn = c /\ ~p.reused
Clones(p, c) == p.conn = c /\ p.reused

(* An idle entry, a connection out of its guard, an owning Pooled in hand  *)
(* or in a channel, and push(): each excludes all the others.              *)
Single(c) ==
  /\ IdleOnce(c)
  /\ InIdle(c) => lock.conn # c
  /\ \A r \in Reqs :
       /\ raw[r] = c       => ~InIdle(c) /\ lock.conn # c
       /\ Owns(own[r], c)  => ~InIdle(c) /\ lock.conn # c
       /\ Owns(box[r], c)  => ~InIdle(c) /\ lock.conn # c
  /\ \A r, s \in Reqs :
       /\ raw[r] = c => raw[s] # c \/ r = s
       /\ raw[r] = c => ~Owns(own[s], c) /\ ~Owns(box[s], c)
       /\ Owns(own[r], c) => ~Owns(own[s], c) \/ r = s
       /\ Owns(own[r], c) => ~Owns(box[s], c)
       /\ Owns(box[r], c) => ~Owns(box[s], c) \/ r = s

(* Why two requests may hold it: clones are of HTTP/2 connections.         *)
ClonesShare(c) ==
  \A r \in Reqs : Clones(own[r], c) \/ Clones(box[r], c) => kind[c] = "h2"

(* A connection that nobody opened yet is nowhere; this is why the one a   *)
(* Checkout opens is its own.                                              *)
Unopened(c) ==
  st[c] = "none" =>
    /\ ~InIdle(c) /\ lock.conn # c
    /\ \A r \in Reqs : raw[r] # c /\ own[r].conn # c /\ box[r].conn # c

(* The Checkout that may still open it has not finished its handshake.     *)
Opens(c) ==
  \/ pc[c] = "start"
  \/ pc[c] = "checkout" /\ inner[c] \in {"Connecting", "Handshaking"}

(* It is HTTP/1, and while its exchange lasts only the request that sends  *)
(* on it holds it.                                                         *)
BusyInUse(c) ==
  st[c] = "busy" =>
    /\ kind[c] # "h2"
    /\ ~InIdle(c) /\ lock.conn # c
    /\ \A r \in Reqs : raw[r] # c /\ ~Owns(box[r], c)

(* Inductive connection by connection: a step moves a connection from one  *)
(* of these places to another and leaves the others where they are.        *)
Lease(c) ==
  /\ Single(c)
  /\ ClonesShare(c)
  /\ Unopened(c)
  /\ Opens(c) => st[c] = "none"
  /\ BusyInUse(c)

(* Of all of them.                                                         *)
Leases == \A c \in Conns : Lease(c)

(* What a request may hold at each point of its way.  It is why no step of *)
(* Checkout or Pooled::drop overwrites a connection with another one.      *)
Hands ==
  \A r \in Reqs :
    /\ pc[r] = "start" => rx[r] = "none"
    /\ pc[r] \in {"start", "checkout"} => own[r].conn = NONE
    /\ raw[r] # NONE => \/ pc[r] = "return"
                        \/ inner[r] = "Connected" /\ pc[r] \in {"checkout", "drop", "fields"}
    /\ box[r].conn # NONE => rx[r] = "full"

(* The sender of a request: in the waiting queue of its host ...           *)
Queued(r) == \E i \in 1..Len(waiting[key[r]]) : waiting[key[r]][i] = r

QueuedOnce(r) ==
  \A i, j \in 1..Len(waiting[key[r]]) :
    waiting[key[r]][i] = r /\ waiting[key[r]][j] = r => i = j

(* ... or with push(), which holds the mutex.                              *)
LockQuiet ==
  /\ lock.at = "free" => lock.by = NONE /\ lock.conn = NONE
  /\ lock.at # "send" => lock.to = NONE

(* An open receiver has a sender in exactly one of the two places, a used  *)
(* or closed channel has none.  A dropped receiver may still be queued.    *)
Sender(r) ==
  /\ rx[r] = "open" => QueuedOnce(r) /\ (Queued(r) <=> lock.to # r)
  /\ rx[r] \in {"none", "full", "hungup"} => ~Queued(r) /\ lock.to # r

Sent == LockQuiet /\ \A r \in Reqs : Sender(r)
-----------------------------------------------------------------------------
(* A step that leaves the idle lists alone.                                *)
LEMMA IdleSame ==
  ASSUME UNCHANGED idle, NEW c
  PROVE  (InIdle(c)' <=> InIdle(c)) /\ (IdleOnce(c)' <=> IdleOnce(c))
BY DEF InIdle, IdleOnce

(* IdleConnections::pop (idle.rs:38-79): what it returns was idle, is open *)
(* and is not idle any more, and no open connection leaves the list with it*)
(* unless the whole list had expired or was closed.                        *)
LEMMA PopMoves ==
  ASSUME TypeOK, NEW k \in Keys, PopIdle(k), NEW c \in Conns, IdleOnce(c)
  PROVE  /\ IdleOnce(c)'
         /\ InIdle(c)' => InIdle(c)
         /\ c = Popped(k) => InIdle(c) /\ ~InIdle(c)' /\ IsOpen(c)
         /\ InIdle(c) /\ IsOpen(c) /\ ~InIdle(c)'
              => c = Popped(k) \/ Usable(k) = {}
<1> DEFINE m == Max(Usable(k))
<1>1. /\ idle \in [Keys -> Seq(Conns)]
      /\ idle[k] \in Seq(Conns) /\ Len(idle[k]) \in Nat
      /\ expired[k] \in Nat
      /\ \A l \in Keys : idle'[l] = IF l = k THEN Remaining(k) ELSE idle[l]
  BY LenProperties DEF TypeOK, PoolTypes, PopIdle
<1>2. CASE Usable(k) = {}
  <2>1. Remaining(k) = <<>> /\ Popped(k) = NONE /\ Len(<<>>) = 0
    BY <1>2, EmptySeq DEF Remaining, Popped
  <2>2. \A l \in Keys : \A i \in 1..Len(idle'[l]) : l # k /\ idle'[l] = idle[l]
    BY <1>1, <2>1
  <2> QED
    BY <1>2, <2>1, <2>2, PoolAssumption DEF IdleOnce, InIdle, Conns
<1>3. CASE Usable(k) # {}
  <2>1. Popped(k) = idle[k][m] /\ m \in 1..Len(idle[k])
    BY <1>3, PopIdleType
  <2>2. Usable(k) \in SUBSET (1..Len(idle[k]))
    BY <1>1 DEF Usable
  <2>3. m \in Usable(k) /\ \A i \in Usable(k) : i <= m
    BY <1>1, <1>3, <2>2, MaxInBounds
  <2>4. Remaining(k) = SubSeq(idle[k], 1, m - 1) /\ m \in Int
    BY <1>3, <2>1 DEF Remaining
  <2>5. IsOpen(idle[k][m]) /\ expired[k] < m
    BY <1>1, <2>3, <2>4 DEF Usable
  <2>6. \A i \in 1..Len(idle[k]) : IsOpen(idle[k][i]) => i <= m
    <3>1. ASSUME NEW i \in 1..Len(idle[k]), IsOpen(idle[k][i]), i > m PROVE FALSE
      <4>1. i \in Usable(k)
        BY <1>1, <2>4, <2>5, <3>1 DEF Usable
      <4> QED
        BY <2>3, <2>4, <3>1, <4>1
    <3> QED
      BY <1>1, <2>4, <3>1
  <2> HIDE DEF m
  <2>7. /\ Len(Remaining(k)) = m - 1
        /\ \A i \in 1..(m - 1) : Remaining(k)[i] = idle[k][i]
    BY <1>1, <2>1, <2>4, SubSeqProperties
  <2>8. \A l \in Keys : \A i \in 1..Len(idle'[l]) :
          /\ i \in 1..Len(idle[l])
          /\ idle'[l][i] = idle[l][i]
          /\ l = k => i < m
    BY <1>1, <2>1, <2>7
  <2>9. IdleOnce(c)' /\ (InIdle(c)' => InIdle(c))
    BY <2>8 DEF IdleOnce, InIdle
  <2>10. c = Popped(k) => InIdle(c) /\ ~InIdle(c)' /\ IsOpen(c)
    <3>1. SUFFICES ASSUME c = Popped(k) PROVE ~InIdle(c)'
      BY <2>1, <2>5 DEF InIdle
    <3>2. ASSUME NEW l \in Keys, NEW i \in 1..Len(idle'[l]), idle'[l][i] = c PROVE FALSE
      <4>1. l = k /\ i = m
        BY <2>1, <2>8, <3>1, <3>2 DEF IdleOnce
      <4> QED
        BY <2>8, <4>1
    <3> QED
      BY <3>2 DEF InIdle
  <2>11. ASSUME InIdle(c), IsOpen(c), ~InIdle(c)' PROVE c = Popped(k)
    <3>1. PICK l \in Keys : \E i \in 1..Len(idle[l]) : idle[l][i] = c
      BY <2>11 DEF InIdle
    <3>2. PICK i \in 1..Len(idle[l]) : idle[l][i] = c
      BY <3>1
    <3>3. ~(l \in Keys /\ i \in 1..Len(idle'[l]) /\ idle'[l][i] = c)
      BY <2>11 DEF InIdle
    <3>4. l = k
      BY <1>1, <3>2, <3>3
    <3>5. i <= m
      BY <2>6, <2>11, <3>2, <3>4
    <3>6. i = m
      BY <1>1, <2>1, <2>7, <3>2, <3>3, <3>4, <3>5
    <3> QED
      BY <2>1, <3>2, <3>4, <3>6
  <2> QED
    BY <2>9, <2>10, <2>11
<1> QED
  BY <1>2, <1>3

(* IdleConnections::push adds one entry, and none twice.                   *)
LEMMA PushIdleMoves ==
  ASSUME TypeOK, NEW k \in Keys, NEW e \in Conns, NEW c \in Conns,
         idle' = [idle EXCEPT ![k] = Append(@, e)],
         IdleOnce(c), InIdle(c) => c # e
  PROVE  /\ IdleOnce(c)'
         /\ InIdle(c)' <=> InIdle(c) \/ c = e
<1>1. /\ idle \in [Keys -> Seq(Conns)]
      /\ idle[k] \in Seq(Conns) /\ Len(idle[k]) \in Nat
      /\ \A l \in Keys : idle'[l] = IF l = k THEN Append(idle[k], e) ELSE idle[l]
  BY LenProperties DEF TypeOK, PoolTypes
<1>2. /\ Len(Append(idle[k], e)) = Len(idle[k]) + 1
      /\ \A i \in 1..Len(idle[k]) : Append(idle[k], e)[i] = idle[k][i]
      /\ Append(idle[k], e)[Len(idle[k]) + 1] = e
  BY <1>1, AppendProperties
<1>3. \A l \in Keys : \A i \in 1..Len(idle[l]) :
        i \in 1..Len(idle'[l]) /\ idle'[l][i] = idle[l][i]
  BY <1>1, <1>2
<1>4. \A l \in Keys : \A i \in 1..Len(idle'[l]) :
        \/ i \in 1..Len(idle[l])
        \/ l = k /\ i = Len(idle[k]) + 1
  BY <1>1, <1>2
<1>5. InIdle(e)'
  BY <1>1, <1>2 DEF InIdle
<1>6. InIdle(c)' <=> InIdle(c) \/ c = e
  <2>1. InIdle(c) => InIdle(c)'
    BY <1>3 DEF InIdle
  <2>2. InIdle(c)' => InIdle(c) \/ c = e
    BY <1>1, <1>2, <1>3, <1>4 DEF InIdle
  <2> QED
    BY <1>5, <2>1, <2>2
<1>7. IdleOnce(c)'
  <2>1. ASSUME NEW l \in Keys, NEW h \in Keys,
               NEW i \in 1..Len(idle'[l]), NEW j \in 1..Len(idle'[h]),
               idle'[l][i] = c, idle'[h][j] = c
        PROVE  l = h /\ i = j
    <3>1. CASE c = e
      BY <1>3, <1>4, <2>1, <3>1 DEF InIdle
    <3>2. CASE c # e
      <4>1. i \in 1..Len(idle[l]) /\ j \in 1..Len(idle[h])
        BY <1>1, <1>2, <1>4, <2>1, <3>2
      <4> QED
        BY <1>3, <2>1, <4>1 DEF IdleOnce
    <3> QED
      BY <3>1, <3>2
  <2> QED
    BY <2>1 DEF IdleOnce
<1> QED
  BY <1>6, <1>7

(* Checkout::connected (checkout.rs:318-346) leaves the connection with the*)
(* request, or a clone with the request and the connection with push().    *)
LEMMA ConnectedTakes ==
  ASSUME NEW r \in Reqs, NEW d, NEW s \in BOOLEAN, Connected(r, d, s)
  PROVE  \E b \in BOOLEAN, p \in {"push", "drop"} :
           /\ own' = [own EXCEPT ![r] = [conn |-> d, reused |-> b]]
           /\ pc' = [pc EXCEPT ![r] = p]
           /\ b => s /\ LockFree /\ lock'.conn = d
           /\ ~b => lock' = lock
           /\ UNCHANGED idle
<1>1. CASE alive /\ s
  <2>1. /\ own' = [own EXCEPT ![r] = [conn |-> d, reused |-> TRUE]]
        /\ pc' = [pc EXCEPT ![r] = "push"]
        /\ LockFree /\ lock'.conn = d /\ UNCHANGED idle
    BY <1>1 DEF Connected, BeginPush, Walk
  <2> QED
    BY <1>1, <2>1
<1>2. CASE ~(alive /\ s)
  <2>1. /\ own' = [own EXCEPT ![r] = [conn |-> d, reused |-> FALSE]]
        /\ pc' = [pc EXCEPT ![r] = "drop"]
        /\ UNCHANGED <<lock, idle>>
    BY <1>2 DEF Connected, Resolve, poolVars
  <2> QED
    BY <2>1
<1> QED
  BY <1>1, <1>2

(* Every step keeps the lease of a connection.                             *)
LEMMA LeaseStep ==
  ASSUME TypeOK, InHand, NEW c \in Conns, Lease(c), [Next]_vars
  PROVE  Lease(c)'
<1> USE DEF poolVars, reqVars, connVars
<1>0. /\ PoolTypes /\ RequestTypes /\ ConnTypes
      /\ c \in Reqs /\ NONE \notin Reqs /\ IdleOnce(c)
  BY PoolAssumption DEF TypeOK, Lease, Single, Conns
<1> USE <1>0 DEF RequestTypes, ConnTypes, Conns
<1>1. ASSUME NEW r \in Reqs, CheckoutIdle(r) PROVE Lease(c)'
  <2>1. StartCheckout(r) /\ PopIdle(key[r]) /\ key[r] \in Keys
    BY <1>1 DEF CheckoutIdle, StartCheckout
  <2>2. /\ IdleOnce(c)'
        /\ InIdle(c)' => InIdle(c)
        /\ c = Popped(key[r]) => InIdle(c) /\ ~InIdle(c)' /\ IsOpen(c)
    BY <2>1, PopMoves
  <2> QED
    BY <1>1, <2>2 DEF Lease, Single, ClonesShare, Unopened, Opens, BusyInUse,
       IsOpen, Owns, Clones, CheckoutIdle, StartCheckout
<1>2. ASSUME NEW r \in Reqs, CheckoutWait(r) PROVE Lease(c)'
  <2>1. StartCheckout(r) /\ PopIdle(key[r]) /\ key[r] \in Keys
    BY <1>2 DEF CheckoutWait, StartCheckout
  <2>2. /\ IdleOnce(c)'
        /\ InIdle(c)' => InIdle(c)
        /\ c = Popped(key[r]) => InIdle(c) /\ ~InIdle(c)' /\ IsOpen(c)
    BY <2>1, PopMoves
  <2> QED
    BY <1>2, <2>2 DEF Lease, Single, ClonesShare, Unopened, Opens, BusyInUse,
       IsOpen, Owns, Clones, CheckoutWait, StartCheckout, JoinWaiters
<1>3. ASSUME NEW r \in Reqs, CheckoutConnect(r) PROVE Lease(c)'
  <2>1. StartCheckout(r) /\ PopIdle(key[r]) /\ key[r] \in Keys
    BY <1>3 DEF CheckoutConnect, StartCheckout
  <2>2. /\ IdleOnce(c)'
        /\ InIdle(c)' => InIdle(c)
        /\ c = Popped(key[r]) => InIdle(c) /\ ~InIdle(c)' /\ IsOpen(c)
    BY <2>1, PopMoves
  <2> QED
    BY <1>3, <2>2 DEF Lease, Single, ClonesShare, Unopened, Opens, BusyInUse,
       IsOpen, Owns, Clones, CheckoutConnect, StartCheckout, JoinWaiters
<1>4. ASSUME NEW r \in Reqs, PollDelivered(r) PROVE Lease(c)'
  <2>1. (InIdle(c)' <=> InIdle(c)) /\ IdleOnce(c)'
    BY <1>4, IdleSame DEF PollDelivered
  <2> QED
    BY <1>4, <2>1 DEF Lease, Single, ClonesShare, Unopened, Opens, BusyInUse,
       Owns, Clones, PollDelivered, Resolve, Nothing
<1>5. ASSUME NEW r \in Reqs, PollUnavailable(r) PROVE Lease(c)'
  <2>1. (InIdle(c)' <=> InIdle(c)) /\ IdleOnce(c)'
    BY <1>5, IdleSame DEF PollUnavailable
  <2> QED
    BY <1>5, <2>1 DEF Lease, Single, ClonesShare, Unopened, Opens, BusyInUse,
       Owns, Clones, PollUnavailable, Resolve, Nothing
<1>6. ASSUME NEW r \in Reqs, PollTransport(r) PROVE Lease(c)'
  <2>1. (InIdle(c)' <=> InIdle(c)) /\ IdleOnce(c)'
    BY <1>6, IdleSame DEF PollTransport
  <2> QED
    BY <1>6, <2>1 DEF Lease, Single, ClonesShare, Unopened, Opens, BusyInUse,
       Owns, Clones, PollTransport
<1>7. ASSUME NEW r \in Reqs, PollFails(r) PROVE Lease(c)'
  <2>1. (InIdle(c)' <=> InIdle(c)) /\ IdleOnce(c)'
    BY <1>7, IdleSame DEF PollFails
  <2> QED
    BY <1>7, <2>1 DEF Lease, Single, ClonesShare, Unopened, Opens, BusyInUse,
       Owns, Clones, PollFails, Resolve, Nothing
<1>8. ASSUME NEW r \in Reqs, PollHandshake(r) PROVE Lease(c)'
  <2>1. PICK b \in BOOLEAN, p \in {"push", "drop"} :
          /\ own' = [own EXCEPT ![r] = [conn |-> r, reused |-> b]]
          /\ pc' = [pc EXCEPT ![r] = p]
          /\ b => Shares(r) /\ LockFree /\ lock'.conn = r
          /\ ~b => lock' = lock
          /\ UNCHANGED idle
    <3>1. Connected(r, r, Shares(r))
      BY <1>8 DEF PollHandshake
    <3>2. Shares(r) \in BOOLEAN
      BY DEF Shares
    <3> QED
      BY <3>1, <3>2, ConnectedTakes
  <2>2. (InIdle(c)' <=> InIdle(c)) /\ IdleOnce(c)'
    BY <2>1, IdleSame
  <2>3. CASE c = r
    BY <1>8, <2>1, <2>2, <2>3 DEF Lease, Single, ClonesShare, Unopened, Opens,
       BusyInUse, Owns, Clones, InHand, Shares, PollHandshake
  <2>4. CASE c # r
    BY <1>8, <2>1, <2>2, <2>4 DEF Lease, Single, ClonesShare, Unopened, Opens,
       BusyInUse, Owns, Clones, InHand, Shares, PollHandshake
  <2> QED
    BY <2>3, <2>4
<1>9. ASSUME NEW r \in Reqs, PollConnected(r) PROVE Lease(c)'
  <2>1. PICK b \in BOOLEAN, p \in {"push", "drop"} :
          /\ own' = [own EXCEPT ![r] = [conn |-> raw[r], reused |-> b]]
          /\ pc' = [pc EXCEPT ![r] = p]
          /\ b => Shares(raw[r]) /\ LockFree /\ lock'.conn = raw[r]
          /\ ~b => lock' = lock
          /\ UNCHANGED idle
    <3>1. Connected(r, raw[r], Shares(raw[r]))
      BY <1>9 DEF PollConnected
    <3>2. Shares(raw[r]) \in BOOLEAN
      BY DEF Shares
    <3> QED
      BY <3>1, <3>2, ConnectedTakes
  <2>2. (InIdle(c)' <=> InIdle(c)) /\ IdleOnce(c)'
    BY <2>1, IdleSame
  <2>3. CASE c = raw[r]
    BY <1>9, <2>1, <2>2, <2>3 DEF Lease, Single, ClonesShare, Unopened, Opens,
       BusyInUse, Owns, Clones, InHand, Shares, PollConnected
  <2>4. CASE c # raw[r]
    BY <1>9, <2>1, <2>2, <2>4 DEF Lease, Single, ClonesShare, Unopened, Opens,
       BusyInUse, Owns, Clones, InHand, Shares, PollConnected
  <2> QED
    BY <2>3, <2>4
<1>10. ASSUME NEW r \in Reqs, CancelCheckout(r) PROVE Lease(c)'
  <2>1. (InIdle(c)' <=> InIdle(c)) /\ IdleOnce(c)'
    BY <1>10, IdleSame DEF CancelCheckout
  <2> QED
    BY <1>10, <2>1 DEF Lease, Single, ClonesShare, Unopened, Opens, BusyInUse,
       Owns, Clones, CancelCheckout, Resolve, Nothing
<1>11. ASSUME NEW r \in Reqs, DropCheckout(r) PROVE Lease(c)'
  <2>1. (InIdle(c)' <=> InIdle(c)) /\ IdleOnce(c)'
    BY <1>11, IdleSame DEF DropCheckout
  <2> QED
    BY <1>11, <2>1 DEF Lease, Single, ClonesShare, Unopened, Opens, BusyInUse,
       Owns, Clones, DropCheckout
<1>12. ASSUME NEW r \in Reqs, DropFields(r) PROVE Lease(c)'
  <2>1. (InIdle(c)' <=> InIdle(c)) /\ IdleOnce(c)'
    BY <1>12, IdleSame DEF DropFields
  <2> QED
    BY <1>12, <2>1 DEF Lease, Single, ClonesShare, Unopened, Opens, BusyInUse,
       Owns, Clones, DropFields, GivesBack, Onward, IsOpen, Nothing
<1>13. ASSUME NEW r \in Reqs, ReturnToPool(r) PROVE Lease(c)'
  <2>1. (InIdle(c)' <=> InIdle(c)) /\ IdleOnce(c)'
    BY <1>13, IdleSame DEF ReturnToPool, BeginPush, Walk, Onward
  <2> QED
    BY <1>13, <2>1 DEF Lease, Single, ClonesShare, Unopened, Opens, BusyInUse,
       Owns, Clones, InHand, ReturnToPool, BeginPush, Walk, Onward
<1>14. ASSUME NEW r \in Reqs, PushNext(r) PROVE Lease(c)'
  <2>1. (InIdle(c)' <=> InIdle(c)) /\ IdleOnce(c)'
    BY <1>14, IdleSame DEF PushNext
  <2> QED
    BY <1>14, <2>1 DEF Lease, Single, ClonesShare, Unopened, Opens, BusyInUse,
       Owns, Clones, PushNext, Send
<1>15. ASSUME NEW r \in Reqs, PushSend(r) PROVE Lease(c)'
  <2>1. (InIdle(c)' <=> InIdle(c)) /\ IdleOnce(c)'
    BY <1>15, IdleSame DEF PushSend
  <2>2. /\ lock.to \in Reqs /\ lock.conn \in Conns
        /\ lock'.conn \in {lock.conn, NONE}
        /\ lock'.conn = lock.conn => Shares(lock.conn)
        /\ \A s \in Reqs : pc'[s] = pc[s] \/ pc'[s] \notin {"start", "checkout"}
    BY <1>15 DEF PushSend, InHand, WalkOn, Walk, EndPush, AfterPush, Onward,
       Free
  <2>3. \A s \in Reqs : s # lock.to => box'[s] = box[s]
    BY <1>15 DEF PushSend
  <2>4. /\ box'[lock.to].conn = lock.conn
        /\ Owns(box'[lock.to], c) <=> c = lock.conn /\ ~Shares(lock.conn)
        /\ Clones(box'[lock.to], c) <=> c = lock.conn /\ Shares(lock.conn)
    <3>1. box'[lock.to] = [conn |-> lock.conn, reused |-> Shares(lock.conn)]
      BY <1>15, <2>2 DEF PushSend
    <3>2. Shares(lock.conn) \in BOOLEAN
      BY DEF Shares
    <3>3. CASE Shares(lock.conn)
      BY <3>1, <3>3, <3>2 DEF Owns, Clones
    <3>4. CASE ~Shares(lock.conn)
      BY <3>1, <3>4, <3>2 DEF Owns, Clones
    <3> QED
      BY <3>3, <3>4
  <2>5. UNCHANGED <<inner, raw, own, kind, st>>
    BY <1>15 DEF PushSend
  <2>6. CASE c = lock.conn
    BY <2>1, <2>2, <2>3, <2>4, <2>5, <2>6 DEF Lease, Single, ClonesShare,
       Unopened, Opens, BusyInUse, Shares
  <2>7. CASE c # lock.conn
    BY <2>1, <2>2, <2>3, <2>4, <2>5, <2>7 DEF Lease, Single, ClonesShare,
       Unopened, Opens, BusyInUse, Shares
  <2> QED
    BY <2>6, <2>7
<1>16. ASSUME NEW r \in Reqs, PushSendFails(r) PROVE Lease(c)'
  <2>1. (InIdle(c)' <=> InIdle(c)) /\ IdleOnce(c)'
    BY <1>16, IdleSame DEF PushSendFails
  <2> QED
    BY <1>16, <2>1 DEF Lease, Single, ClonesShare, Unopened, Opens, BusyInUse,
       Owns, Clones, PushSendFails, WalkOn, Walk, Stuck, EndPush, AfterPush,
       Onward, Free
<1>17. ASSUME NEW r \in Reqs, PushIdle(r) PROVE Lease(c)'
  <2>1. lock.conn \in Conns /\ key[r] \in Keys /\ lock.by = r
    BY <1>17 DEF PushIdle, InHand
  <2>2. ~InIdle(lock.conn) \/ c # lock.conn
    BY DEF Lease, Single
  <2>3. IdleOnce(c)' /\ (InIdle(c)' <=> InIdle(c) \/ c = lock.conn)
    BY <1>17, <2>1, <2>2, PushIdleMoves DEF PushIdle
  <2> QED
    BY <1>17, <2>1, <2>3 DEF Lease, Single, ClonesShare, Unopened, Opens,
       BusyInUse, Owns, Clones, PushIdle, EndPush, AfterPush, Onward, Free
<1>18. ASSUME NEW r \in Reqs, RefuseRequest(r) PROVE Lease(c)'
  <2>1. (InIdle(c)' <=> InIdle(c)) /\ IdleOnce(c)'
    BY <1>18, IdleSame DEF RefuseRequest, Release, GivesBack, IsOpen, Nothing
  <2> QED
    BY <1>18, <2>1 DEF Lease, Single, ClonesShare, Unopened, Opens, BusyInUse,
       Owns, Clones, RefuseRequest, Release, GivesBack, IsOpen, Nothing
<1>19. ASSUME NEW r \in Reqs, SendRequest(r) PROVE Lease(c)'
  <2>1. (InIdle(c)' <=> InIdle(c)) /\ IdleOnce(c)'
    BY <1>19, IdleSame DEF SendRequest
  <2> QED
    BY <1>19, <2>1 DEF Lease, Single, ClonesShare, Unopened, Opens, BusyInUse,
       Owns, Clones, SendRequest
<1>20. ASSUME NEW r \in Reqs, Respond(r) PROVE Lease(c)'
  <2>1. (InIdle(c)' <=> InIdle(c)) /\ IdleOnce(c)'
    BY <1>20, IdleSame DEF Respond, Release, GivesBack, IsOpen, Nothing
  <2>2. CASE Shares(own[r].conn)
    <3>1. /\ Release(r)
          /\ UNCHANGED <<lock, inner, box, kind, st>>
          /\ pc[r] = "sending"
      BY <1>20, <2>2 DEF Respond
    <3> QED
      BY <2>1, <3>1 DEF Lease, Single, ClonesShare, Unopened, Opens,
         BusyInUse, Owns, Clones, Release, GivesBack, IsOpen, Nothing
  <2>3. CASE ~Shares(own[r].conn)
    BY <1>20, <2>1, <2>3 DEF Lease, Single, ClonesShare, Unopened, Opens,
       BusyInUse, Owns, Clones, Respond
  <2> QED
    BY <2>2, <2>3
<1>21. ASSUME NEW r \in Reqs, SendFails(r) PROVE Lease(c)'
  <2>1. (InIdle(c)' <=> InIdle(c)) /\ IdleOnce(c)'
    BY <1>21, IdleSame DEF SendFails
  <2> QED
    BY <1>21, <2>1 DEF Lease, Single, ClonesShare, Unopened, Opens, BusyInUse,
       Owns, Clones, SendFails, Release, GivesBack, IsOpen, Nothing
<1>22. ASSUME NEW r \in Reqs, CancelRequest(r) PROVE Lease(c)'
  <2>1. (InIdle(c)' <=> InIdle(c)) /\ IdleOnce(c)'
    BY <1>22, IdleSame DEF CancelRequest
  <2> QED
    BY <1>22, <2>1 DEF Lease, Single, ClonesShare, Unopened, Opens, BusyInUse,
       Owns, Clones, CancelRequest, Release, GivesBack, IsOpen, Nothing
<1>23. ASSUME NEW r \in Reqs, WhenReady(r) PROVE Lease(c)'
  <2>1. (InIdle(c)' <=> InIdle(c)) /\ IdleOnce(c)'
    BY <1>23, IdleSame DEF WhenReady
  <2> QED
    BY <1>23, <2>1 DEF Lease, Single, ClonesShare, Unopened, Opens, BusyInUse,
       Owns, Clones, WhenReady, Release, GivesBack, IsOpen, Nothing
<1>24. ASSUME NEW d \in Conns, ConnReady(d) PROVE Lease(c)'
  <2>1. (InIdle(c)' <=> InIdle(c)) /\ IdleOnce(c)'
    BY <1>24, IdleSame DEF ConnReady
  <2> QED
    BY <1>24, <2>1 DEF Lease, Single, ClonesShare, Unopened, Opens, BusyInUse,
       Owns, Clones, ConnReady
<1>25. ASSUME NEW d \in Conns, ConnCloses(d) PROVE Lease(c)'
  <2>1. (InIdle(c)' <=> InIdle(c)) /\ IdleOnce(c)'
    BY <1>25, IdleSame DEF ConnCloses
  <2> QED
    BY <1>25, <2>1 DEF Lease, Single, ClonesShare, Unopened, Opens, BusyInUse,
       Owns, Clones, ConnCloses
<1>26. ASSUME NEW k \in Keys, Expire(k) PROVE Lease(c)'
  <2>1. (InIdle(c)' <=> InIdle(c)) /\ IdleOnce(c)'
    BY <1>26, IdleSame DEF Expire
  <2> QED
    BY <1>26, <2>1 DEF Lease, Single, ClonesShare, Unopened, Opens, BusyInUse,
       Owns, Clones, Expire
<1>27. ASSUME DropPool PROVE Lease(c)'
  <2>1. ~InIdle(c)' /\ IdleOnce(c)'
    BY <1>27, EmptySeq DEF DropPool, InIdle, IdleOnce
  <2> QED
    BY <1>27, <2>1 DEF Lease, Single, ClonesShare, Unopened, Opens, BusyInUse,
       Owns, Clones, DropPool
<1>28. CASE UNCHANGED vars
  <2>1. (InIdle(c)' <=> InIdle(c)) /\ IdleOnce(c)'
    BY <1>28, IdleSame DEF vars
  <2> QED
    BY <1>28, <2>1 DEF Lease, Single, ClonesShare, Unopened, Opens, BusyInUse,
       Owns, Clones, vars
<1> QED
  BY <1>1, <1>2, <1>3, <1>4, <1>5, <1>6, <1>7, <1>8, <1>9, <1>10, <1>11, <1>12,
     <1>13, <1>14, <1>15, <1>16, <1>17, <1>18, <1>19, <1>20, <1>21, <1>22,
     <1>23, <1>24, <1>25, <1>26, <1>27, <1>28 DEF Next

-----------------------------------------------------------------------------
(* Every step keeps what requests may hold.                                *)
LEMMA HandsStep == TypeOK /\ InHand /\ Hands /\ Sent /\ [Next]_vars => Hands'
<1> SUFFICES ASSUME TypeOK, InHand, Hands, Sent, [Next]_vars PROVE Hands'
  OBVIOUS
<1> USE DEF poolVars, reqVars, connVars
<1>0. RequestTypes /\ NONE \notin Reqs
  BY PoolAssumption DEF TypeOK
<1> USE <1>0 DEF RequestTypes, Conns, Hands
<1>1. ASSUME NEW r \in Reqs, CheckoutIdle(r) PROVE Hands'
  BY <1>1 DEF CheckoutIdle, StartCheckout
<1>2. ASSUME NEW r \in Reqs, CheckoutWait(r) PROVE Hands'
  BY <1>2 DEF CheckoutWait, StartCheckout, JoinWaiters
<1>3. ASSUME NEW r \in Reqs, CheckoutConnect(r) PROVE Hands'
  BY <1>3 DEF CheckoutConnect, StartCheckout, JoinWaiters
<1>4. ASSUME NEW r \in Reqs, PollDelivered(r) PROVE Hands'
  BY <1>4 DEF PollDelivered, Resolve, Nothing
<1>5. ASSUME NEW r \in Reqs, PollUnavailable(r) PROVE Hands'
  BY <1>5 DEF PollUnavailable, Resolve, Nothing
<1>6. ASSUME NEW r \in Reqs, PollTransport(r) PROVE Hands'
  BY <1>6 DEF PollTransport
<1>7. ASSUME NEW r \in Reqs, PollFails(r) PROVE Hands'
  BY <1>7 DEF PollFails, Resolve, Nothing
<1>8. ASSUME NEW r \in Reqs, PollHandshake(r) PROVE Hands'
  BY <1>8 DEF PollHandshake, Connected, BeginPush, Resolve, Walk
<1>9. ASSUME NEW r \in Reqs, PollConnected(r) PROVE Hands'
  BY <1>9 DEF PollConnected, Connected, BeginPush, Resolve, Walk
<1>10. ASSUME NEW r \in Reqs, CancelCheckout(r) PROVE Hands'
  BY <1>10 DEF CancelCheckout, Resolve, Nothing
<1>11. ASSUME NEW r \in Reqs, DropCheckout(r) PROVE Hands'
  BY <1>11 DEF DropCheckout
<1>12. ASSUME NEW r \in Reqs, DropFields(r) PROVE Hands'
  BY <1>12 DEF DropFields, GivesBack, Onward, Nothing
<1>13. ASSUME NEW r \in Reqs, ReturnToPool(r) PROVE Hands'
  BY <1>13 DEF ReturnToPool, BeginPush, Walk, Onward
<1>14. ASSUME NEW r \in Reqs, PushNext(r) PROVE Hands'
  <2>1. UNCHANGED <<pc, inner, rx, box, raw, own>>
    BY <1>14 DEF PushNext
  <2> QED
    BY <2>1
<1>15. ASSUME NEW r \in Reqs, PushSend(r) PROVE Hands'
  <2>1. /\ lock.to \in Reqs /\ pc[r] \in {"push", "stuck"}
        /\ UNCHANGED <<inner, raw, own>>
        /\ \A s \in Reqs : s # r => pc'[s] = pc[s]
        /\ pc'[r] \in {"push", "stuck", "drop", "request", "done"}
    BY <1>15 DEF PushSend, WalkOn, EndPush, AfterPush, Onward, InHand
  <2>2. /\ rx'[lock.to] = "full"
        /\ \A s \in Reqs : s # lock.to => rx'[s] = rx[s] /\ box'[s] = box[s]
    BY <1>15, <2>1 DEF PushSend
  <2>3. \A s \in Reqs : pc'[s] = "start" => rx'[s] = "none"
    <3>1. pc[lock.to] # "start"
      BY <2>1 DEF Sent, Sender
    <3> QED
      BY <2>1, <2>2, <3>1
  <2> QED
    BY <2>1, <2>2, <2>3
<1>16. ASSUME NEW r \in Reqs, PushSendFails(r) PROVE Hands'
  BY <1>16 DEF PushSendFails, WalkOn, Walk, Stuck, EndPush, AfterPush, Onward,
     Free, InHand
<1>17. ASSUME NEW r \in Reqs, PushIdle(r) PROVE Hands'
  BY <1>17 DEF PushIdle, EndPush, AfterPush, Onward, Free, InHand
<1>18. ASSUME NEW r \in Reqs, RefuseRequest(r) PROVE Hands'
  BY <1>18 DEF RefuseRequest, Release, GivesBack, Nothing
<1>19. ASSUME NEW r \in Reqs, SendRequest(r) PROVE Hands'
  BY <1>19 DEF SendRequest
<1>20. ASSUME NEW r \in Reqs, Respond(r) PROVE Hands'
  BY <1>20 DEF Respond, Release, GivesBack, Nothing
<1>21. ASSUME NEW r \in Reqs, SendFails(r) PROVE Hands'
  BY <1>21 DEF SendFails, Release, GivesBack, Nothing
<1>22. ASSUME NEW r \in Reqs, CancelRequest(r) PROVE Hands'
  BY <1>22 DEF CancelRequest, Release, GivesBack, Nothing
<1>23. ASSUME NEW r \in Reqs, WhenReady(r) PROVE Hands'
  BY <1>23 DEF WhenReady, Release, GivesBack, Nothing
<1>24. ASSUME NEW c \in Conns, ConnReady(c) PROVE Hands'
  BY <1>24 DEF ConnReady
<1>25. ASSUME NEW c \in Conns, ConnCloses(c) PROVE Hands'
  BY <1>25 DEF ConnCloses
<1>26. ASSUME NEW k \in Keys, Expire(k) PROVE Hands'
  BY <1>26 DEF Expire
<1>27. ASSUME DropPool PROVE Hands'
  BY <1>27 DEF DropPool
<1>28. CASE UNCHANGED vars
  BY <1>28 DEF vars
<1> QED
  BY <1>1, <1>2, <1>3, <1>4, <1>5, <1>6, <1>7, <1>8, <1>9, <1>10, <1>11, <1>12,
     <1>13, <1>14, <1>15, <1>16, <1>17, <1>18, <1>19, <1>20, <1>21, <1>22,
     <1>23, <1>24, <1>25, <1>26, <1>27, <1>28 DEF Next
-----------------------------------------------------------------------------
(* A step that leaves the queues alone.                                    *)
LEMMA QueueSame ==
  ASSUME UNCHANGED <<waiting, key>>, NEW r
  PROVE  (Queued(r)' <=> Queued(r)) /\ (QueuedOnce(r)' <=> QueuedOnce(r))
BY DEF Queued, QueuedOnce

(* And one that leaves the receivers and the mutex alone too.              *)
LEMMA SenderSame ==
  ASSUME UNCHANGED <<waiting, key, lock, rx>>, NEW r
  PROVE  Sender(r)' <=> Sender(r)
BY QueueSame DEF Sender

(* A Checkout queues its sender (mod.rs:101): nobody else is queued or     *)
(* moved by that.                                                          *)
LEMMA JoinMoves ==
  ASSUME TypeOK, NEW r \in Reqs, ~Queued(r), UNCHANGED key,
         waiting' = [waiting EXCEPT ![key[r]] = Append(@, r)],
         NEW q \in Reqs
  PROVE  /\ q = r => Queued(q)' /\ QueuedOnce(q)'
         /\ q # r => (Queued(q)' <=> Queued(q)) /\ (QueuedOnce(q) => QueuedOnce(q)')
<1> DEFINE k == key[r]
<1>1. /\ k \in Keys /\ key'[q] = key[q] /\ key'[r] = k
      /\ waiting[k] \in Seq(Reqs) /\ Len(waiting[k]) \in Nat
      /\ waiting'[k] = Append(waiting[k], r)
      /\ key[q] # k => waiting'[key[q]] = waiting[key[q]]
  BY LenProperties DEF TypeOK, PoolTypes, RequestTypes
<1> HIDE DEF k
<1>2. /\ Len(Append(waiting[k], r)) = Len(waiting[k]) + 1
      /\ \A i \in 1..Len(waiting[k]) : Append(waiting[k], r)[i] = waiting[k][i]
      /\ Append(waiting[k], r)[Len(waiting[k]) + 1] = r
  BY <1>1, AppendProperties
<1>3. CASE q = r
  <2>1. \A i \in 1..Len(waiting[k]) : waiting[k][i] # r
    BY DEF Queued, k
  <2>2. \A i \in 1..(Len(waiting[k]) + 1) :
          Append(waiting[k], r)[i] = r => i = Len(waiting[k]) + 1
    BY <1>1, <1>2, <2>1
  <2> QED
    BY <1>1, <1>2, <1>3, <2>2 DEF Queued, QueuedOnce
<1>4. CASE q # r /\ key[q] = k
  <2>1. Queued(q)' <=> Queued(q)
    BY <1>1, <1>2, <1>4 DEF Queued
  <2>2. QueuedOnce(q) => QueuedOnce(q)'
    BY <1>1, <1>2, <1>4 DEF QueuedOnce
  <2> QED
    BY <1>4, <2>1, <2>2
<1>5. CASE key[q] # k
  BY <1>1, <1>5 DEF Queued, QueuedOnce, k
<1> QED
  BY <1>3, <1>4, <1>5

(* push() takes a sender off the queue (mod.rs:162): that one is not in it *)
(* any more, and everybody else stays.                                     *)
LEMMA NextMoves ==
  ASSUME TypeOK, NEW r \in Reqs, waiting[key[r]] # <<>>, UNCHANGED key,
         waiting' = [waiting EXCEPT ![key[r]] = Tail(@)],
         NEW q \in Reqs
  PROVE  /\ Head(waiting[key[r]]) \in Reqs
         /\ q # Head(waiting[key[r]]) => (Queued(q)' <=> Queued(q))
         /\ q = Head(waiting[key[r]]) /\ key[q] = key[r]
              => Queued(q) /\ (QueuedOnce(q) => ~Queued(q)')
         /\ QueuedOnce(q) => QueuedOnce(q)'
<1> DEFINE k == key[r]
<1>1. /\ k \in Keys /\ key'[q] = key[q]
      /\ waiting[k] \in Seq(Reqs) /\ Len(waiting[k]) \in Nat
      /\ waiting'[k] = Tail(waiting[k])
      /\ key[q] # k => waiting'[key[q]] = waiting[key[q]]
      /\ waiting[k] # <<>>
  BY LenProperties DEF TypeOK, PoolTypes, RequestTypes
<1>2. Head(waiting[key[r]]) = Head(waiting[k]) /\ key[r] = k
  OBVIOUS
<1> HIDE DEF k
<1>3. /\ Head(waiting[k]) = waiting[k][1] /\ Head(waiting[k]) \in Reqs
      /\ Len(Tail(waiting[k])) = Len(waiting[k]) - 1
      /\ \A i \in 1..Len(Tail(waiting[k])) : Tail(waiting[k])[i] = waiting[k][i + 1]
      /\ Len(waiting[k]) # 0
  BY <1>1, HeadTailProperties, EmptySeq
<1>4. CASE key[q] = k
  <2> DEFINE n == Len(waiting[k])
  <2>1. n \in Nat /\ n # 0 /\ Len(waiting'[k]) = n - 1
    BY <1>1, <1>3
  <2>2. \A i \in 1..(n - 1) : waiting'[k][i] = waiting[k][i + 1]
    BY <1>1, <1>3
  <2> HIDE DEF n
  <2>3. \A i \in 1..Len(waiting'[k]) :
          i + 1 \in 1..n /\ waiting'[k][i] = waiting[k][i + 1]
    BY <2>1, <2>2
  <2>4. \A i \in 1..n :
          i = 1 \/ (i - 1 \in 1..Len(waiting'[k]) /\ waiting'[k][i - 1] = waiting[k][i])
    <3> TAKE i \in 1..n
    <3>1. CASE i # 1
      <4>1. i - 1 \in 1..(n - 1) /\ (i - 1) + 1 = i
        BY <2>1, <3>1
      <4> QED
        BY <2>1, <2>2, <4>1
    <3> QED
      BY <3>1
  <2> USE DEF n
  <2>5. Queued(q)' => Queued(q)
    BY <1>1, <1>4, <2>3 DEF Queued
  <2>6. q # Head(waiting[k]) => (Queued(q) => Queued(q)')
    BY <1>1, <1>3, <1>4, <2>4 DEF Queued
  <2>7. QueuedOnce(q) => QueuedOnce(q)'
    <3>1. SUFFICES ASSUME QueuedOnce(q),
                          NEW i \in 1..Len(waiting'[k]), NEW j \in 1..Len(waiting'[k]),
                          waiting'[k][i] = q, waiting'[k][j] = q
                   PROVE  i = j
      BY <1>1, <1>4 DEF QueuedOnce
    <3>2. i + 1 = j + 1
      BY <1>4, <2>3, <3>1 DEF QueuedOnce
    <3> QED
      BY <3>2
  <2>8. ASSUME q = Head(waiting[k]), QueuedOnce(q) PROVE ~Queued(q)'
    <3>1. ASSUME NEW i \in 1..Len(waiting'[k]), waiting'[k][i] = q PROVE FALSE
      <4>1. i + 1 = 1
        BY <1>1, <1>3, <1>4, <2>3, <2>8, <3>1 DEF QueuedOnce
      <4> QED
        BY <4>1
    <3> QED
      BY <1>1, <1>4, <3>1 DEF Queued
  <2>9. q = Head(waiting[k]) => Queued(q)
    BY <1>1, <1>3, <1>4 DEF Queued
  <2> QED
    BY <1>2, <1>3, <2>5, <2>6, <2>7, <2>8, <2>9
<1>5. CASE key[q] # k
  BY <1>2, <1>1, <1>3, <1>5 DEF Queued, QueuedOnce
<1> QED
  BY <1>4, <1>5

(* Every step keeps one sender for each open receiver.  It takes KeyInv: a *)
(* sender is only looked for under the key of its receiver.                *)
LEMMA SentStep ==
  ASSUME TypeOK, InHand, KeyInv, Hands, Sent, [Next]_vars
  PROVE  Sent'
<1> USE DEF poolVars, reqVars, connVars
<1>0. /\ RequestTypes /\ NONE \notin Reqs /\ LockQuiet
      /\ \A q \in Reqs : Sender(q)
  BY PoolAssumption DEF TypeOK, Sent
<1> USE <1>0 DEF RequestTypes
<1>1. ASSUME NEW r \in Reqs, CheckoutIdle(r) PROVE Sent'
  <2>1. lock.to # r /\ ~Queued(r)
    BY <1>1 DEF CheckoutIdle, StartCheckout, Hands, Sender
  <2>2. ASSUME NEW q \in Reqs PROVE Sender(q)'
    BY <1>1, <2>1, QueueSame DEF CheckoutIdle, StartCheckout, Sender
  <2> QED
    BY <1>1, <2>2 DEF Sent, LockQuiet, CheckoutIdle, StartCheckout
<1>2. ASSUME NEW r \in Reqs, CheckoutWait(r) PROVE Sent'
  <2>1. ~Queued(r) /\ lock.to = NONE /\ UNCHANGED lock
    BY <1>2 DEF CheckoutWait, StartCheckout, JoinWaiters, Hands, Sender,
       LockQuiet, LockFree
  <2>2. ASSUME NEW q \in Reqs PROVE Sender(q)'
    BY <1>2, <2>1, JoinMoves DEF CheckoutWait, StartCheckout, JoinWaiters,
       Sender
  <2> QED
    BY <2>1, <2>2 DEF Sent, LockQuiet
<1>3. ASSUME NEW r \in Reqs, CheckoutConnect(r) PROVE Sent'
  <2>1. ~Queued(r) /\ lock.to = NONE /\ UNCHANGED lock
    BY <1>3 DEF CheckoutConnect, StartCheckout, JoinWaiters, Hands, Sender,
       LockQuiet, LockFree
  <2>2. ASSUME NEW q \in Reqs PROVE Sender(q)'
    BY <1>3, <2>1, JoinMoves DEF CheckoutConnect, StartCheckout, JoinWaiters,
       Sender
  <2> QED
    BY <2>1, <2>2 DEF Sent, LockQuiet
<1>4. ASSUME NEW r \in Reqs, PollDelivered(r) PROVE Sent'
  <2>1. ASSUME NEW q \in Reqs PROVE Sender(q)'
    BY <1>4, QueueSame DEF PollDelivered, Resolve, Nothing, Sender
  <2> QED
    BY <1>4, <2>1 DEF Sent, LockQuiet, PollDelivered, Resolve, Nothing
<1>5. ASSUME NEW r \in Reqs, PollUnavailable(r) PROVE Sent'
  BY <1>5, SenderSame DEF Sent, LockQuiet, PollUnavailable
<1>6. ASSUME NEW r \in Reqs, PollTransport(r) PROVE Sent'
  BY <1>6, SenderSame DEF Sent, LockQuiet, PollTransport
<1>7. ASSUME NEW r \in Reqs, PollFails(r) PROVE Sent'
  BY <1>7, SenderSame DEF Sent, LockQuiet, PollFails
<1>8. ASSUME NEW r \in Reqs, PollHandshake(r) PROVE Sent'
  <2>1. /\ UNCHANGED <<waiting, key, rx>>
        /\ lock'.to = lock.to
        /\ LockQuiet'
    BY <1>8 DEF PollHandshake, Connected, BeginPush, Resolve, Walk, LockQuiet,
       LockFree
  <2>2. ASSUME NEW q \in Reqs PROVE Sender(q)'
    BY <2>1, QueueSame DEF Sender
  <2> QED
    BY <2>1, <2>2 DEF Sent
<1>9. ASSUME NEW r \in Reqs, PollConnected(r) PROVE Sent'
  <2>1. /\ UNCHANGED <<waiting, key, rx>>
        /\ lock'.to = lock.to
        /\ LockQuiet'
    BY <1>9 DEF PollConnected, Connected, BeginPush, Resolve, Walk, LockQuiet,
       LockFree
  <2>2. ASSUME NEW q \in Reqs PROVE Sender(q)'
    BY <2>1, QueueSame DEF Sender
  <2> QED
    BY <2>1, <2>2 DEF Sent
<1>10. ASSUME NEW r \in Reqs, CancelCheckout(r) PROVE Sent'
  BY <1>10, SenderSame DEF Sent, LockQuiet, CancelCheckout
<1>11. ASSUME NEW r \in Reqs, DropCheckout(r) PROVE Sent'
  BY <1>11, SenderSame DEF Sent, LockQuiet, DropCheckout
<1>12. ASSUME NEW r \in Reqs, DropFields(r) PROVE Sent'
  <2>1. ASSUME NEW q \in Reqs PROVE Sender(q)'
    BY <1>12, QueueSame DEF DropFields, GivesBack, Onward, Nothing, Sender
  <2> QED
    BY <1>12, <2>1 DEF Sent, LockQuiet, DropFields, GivesBack, Onward, Nothing
<1>13. ASSUME NEW r \in Reqs, ReturnToPool(r) PROVE Sent'
  <2>1. /\ UNCHANGED <<waiting, key, rx>>
        /\ lock'.to = lock.to
        /\ LockQuiet'
    BY <1>13 DEF ReturnToPool, BeginPush, Walk, Onward, LockQuiet, LockFree
  <2>2. ASSUME NEW q \in Reqs PROVE Sender(q)'
    BY <2>1, QueueSame DEF Sender
  <2> QED
    BY <2>1, <2>2 DEF Sent
<1>14. ASSUME NEW r \in Reqs, PushNext(r) PROVE Sent'
  <2> DEFINE w == Head(waiting[key[r]])
  <2>1. /\ lock.to = NONE /\ UNCHANGED <<key, rx>> /\ lock.by = r
        /\ waiting[key[r]] # <<>> /\ key[r] \in Keys
        /\ waiting' = [waiting EXCEPT ![key[r]] = Tail(@)]
        /\ rx[w] = "dead" => UNCHANGED lock
        /\ rx[w] # "dead" => lock'.to = w /\ lock'.at = "send"
    BY <1>14 DEF PushNext, Send, LockQuiet
  <2>2. w \in Reqs /\ key[w] = key[r]
    BY <2>1, NextMoves, TailOfKey DEF KeyInv, QueuesOfKey, TypeOK, PoolTypes
  <2> HIDE DEF w
  <2>3. ASSUME NEW q \in Reqs PROVE Sender(q)'
    <3>1. /\ q # w => (Queued(q)' <=> Queued(q))
          /\ q = w => Queued(q) /\ (QueuedOnce(q) => ~Queued(q)')
          /\ QueuedOnce(q) => QueuedOnce(q)'
      BY <2>1, <2>2, NextMoves DEF w
    <3> QED
      BY <2>1, <2>2, <3>1 DEF Sender
  <2>4. LockQuiet'
    BY <1>14, <2>1 DEF LockQuiet, PushNext, Send
  <2> QED
    BY <2>3, <2>4 DEF Sent
<1>15. ASSUME NEW r \in Reqs, PushSend(r) PROVE Sent'
  <2>1. /\ UNCHANGED <<waiting, key>> /\ lock.to \in Reqs
        /\ lock'.to = NONE
        /\ LockQuiet'
    BY <1>15 DEF PushSend, WalkOn, Walk, EndPush, AfterPush, Onward, Free,
       LockQuiet, InHand
  <2>2. ASSUME NEW q \in Reqs PROVE Sender(q)'
    BY <1>15, <2>1, QueueSame DEF Sender, PushSend
  <2> QED
    BY <2>1, <2>2 DEF Sent
<1>16. ASSUME NEW r \in Reqs, PushSendFails(r) PROVE Sent'
  <2>1. /\ UNCHANGED <<waiting, key>> /\ lock.to \in Reqs
        /\ lock'.to = NONE
        /\ LockQuiet'
    BY <1>16 DEF PushSendFails, WalkOn, Walk, Stuck, EndPush, AfterPush, Onward,
       Free, LockQuiet, InHand
  <2>2. ASSUME NEW q \in Reqs PROVE Sender(q)'
    BY <1>16, <2>1, QueueSame DEF Sender, PushSendFails
  <2> QED
    BY <2>1, <2>2 DEF Sent
<1>17. ASSUME NEW r \in Reqs, PushIdle(r) PROVE Sent'
  <2>1. /\ UNCHANGED <<waiting, key, rx>> /\ lock.to = NONE /\ lock'.to = NONE
        /\ LockQuiet'
    BY <1>17 DEF PushIdle, EndPush, AfterPush, Onward, Free, LockQuiet
  <2>2. ASSUME NEW q \in Reqs PROVE Sender(q)'
    BY <2>1, QueueSame DEF Sender
  <2> QED
    BY <2>1, <2>2 DEF Sent
<1>18. ASSUME NEW r \in Reqs, RefuseRequest(r) PROVE Sent'
  BY <1>18, SenderSame DEF Sent, LockQuiet, RefuseRequest
<1>19. ASSUME NEW r \in Reqs, SendRequest(r) PROVE Sent'
  BY <1>19, SenderSame DEF Sent, LockQuiet, SendRequest
<1>20. ASSUME NEW r \in Reqs, Respond(r) PROVE Sent'
  BY <1>20, SenderSame DEF Sent, LockQuiet, Respond
<1>21. ASSUME NEW r \in Reqs, SendFails(r) PROVE Sent'
  BY <1>21, SenderSame DEF Sent, LockQuiet, SendFails
<1>22. ASSUME NEW r \in Reqs, CancelRequest(r) PROVE Sent'
  BY <1>22, SenderSame DEF Sent, LockQuiet, CancelRequest
<1>23. ASSUME NEW r \in Reqs, WhenReady(r) PROVE Sent'
  BY <1>23, SenderSame DEF Sent, LockQuiet, WhenReady
<1>24. ASSUME NEW c \in Conns, ConnReady(c) PROVE Sent'
  BY <1>24, SenderSame DEF Sent, LockQuiet, ConnReady
<1>25. ASSUME NEW c \in Conns, ConnCloses(c) PROVE Sent'
  BY <1>25, SenderSame DEF Sent, LockQuiet, ConnCloses
<1>26. ASSUME NEW k \in Keys, Expire(k) PROVE Sent'
  BY <1>26, SenderSame DEF Sent, LockQuiet, Expire
<1>27. ASSUME DropPool PROVE Sent'
  <2>1. lock.to = NONE /\ UNCHANGED lock
    BY <1>27 DEF DropPool, LockFree, LockQuiet
  <2>2. ASSUME NEW q \in Reqs PROVE Sender(q)'
    <3>1. ~Queued(q)'
      BY <1>27, EmptySeq DEF DropPool, Queued
    <3> QED
      BY <1>27, <2>1, <3>1 DEF DropPool, Sender
  <2> QED
    BY <2>1, <2>2 DEF Sent, LockQuiet
<1>28. CASE UNCHANGED vars
  BY <1>28, SenderSame DEF Sent, LockQuiet, vars
<1> QED
  BY <1>1, <1>2, <1>3, <1>4, <1>5, <1>6, <1>7, <1>8, <1>9, <1>10, <1>11, <1>12,
     <1>13, <1>14, <1>15, <1>16, <1>17, <1>18, <1>19, <1>20, <1>21, <1>22,
     <1>23, <1>24, <1>25, <1>26, <1>27, <1>28 DEF Next

-----------------------------------------------------------------------------
(* The five kinds of Holders.                                              *)
IdlePlace(c, x) == \E k \in Keys : \E i \in 1..Len(idle[k]) :
                     idle[k][i] = c /\ x = <<"idle", k, i>>
RawPlace(c, x)  == \E r \in Reqs : raw[r] = c /\ x = <<"raw", r>>
OwnPlace(c, x)  == \E r \in Reqs : Owns(own[r], c) /\ x = <<"own", r>>
BoxPlace(c, x)  == \E r \in Reqs : Owns(box[r], c) /\ x = <<"box", r>>
PushPlace(c, x) == \E r \in Reqs : lock.by = r /\ lock.conn = c /\ x = <<"push", r>>

(* Each holder of a connection is in one of the five.                      *)
LEMMA HoldersArePlaces ==
  ASSUME TypeOK, NEW c \in Conns, NEW x
  PROVE  x \in Holders(c) <=> \/ IdlePlace(c, x) \/ RawPlace(c, x)
                              \/ OwnPlace(c, x) \/ BoxPlace(c, x)
                              \/ PushPlace(c, x)
<1>1. \A k \in Keys : DOMAIN idle[k] = 1..Len(idle[k])
  BY LenProperties DEF TypeOK, PoolTypes
<1>2. \A p \in Pooled : p = Owned(c) <=> Owns(p, c)
  <2> SUFFICES ASSUME NEW p \in Pooled PROVE p = Owned(c) <=> Owns(p, c)
    OBVIOUS
  <2>1. p = [conn |-> p.conn, reused |-> p.reused] /\ p.reused \in BOOLEAN
    BY DEF Pooled
  <2>2. CASE p.reused
    BY <2>1, <2>2 DEF Owned, Owns
  <2>3. CASE ~p.reused
    BY <2>1, <2>3 DEF Owned, Owns
  <2> QED
    BY <2>1, <2>2, <2>3
<1>3. \A r \in Reqs : /\ own[r] = Owned(c) <=> Owns(own[r], c)
                      /\ box[r] = Owned(c) <=> Owns(box[r], c)
  BY <1>2 DEF TypeOK, RequestTypes
<1> DEFINE I(k) == {<<"idle", k, i>> : i \in {j \in DOMAIN idle[k] : idle[k][j] = c}}
           U == UNION {I(k) : k \in Keys}
           R == {<<"raw", r>>  : r \in {s \in Reqs : raw[s] = c}}
           O == {<<"own", r>>  : r \in {s \in Reqs : own[s] = Owned(c)}}
           B == {<<"box", r>>  : r \in {s \in Reqs : box[s] = Owned(c)}}
           P == {<<"push", r>> : r \in {s \in Reqs : lock.by = s /\ lock.conn = c}}
<1>4. Holders(c) = U \cup R \cup O \cup B \cup P
  BY DEF Holders
<1>5. ASSUME NEW k \in Keys
      PROVE  x \in I(k) <=> \E i \in 1..Len(idle[k]) :
                              idle[k][i] = c /\ x = <<"idle", k, i>>
  BY <1>1
<1>6. /\ x \in R <=> RawPlace(c, x)
      /\ x \in O <=> OwnPlace(c, x)
      /\ x \in B <=> BoxPlace(c, x)
      /\ x \in P <=> PushPlace(c, x)
  BY <1>3 DEF RawPlace, OwnPlace, BoxPlace, PushPlace
<1> HIDE DEF I, R, O, B, P
<1>7. x \in U <=> IdlePlace(c, x)
  <2>1. x \in U <=> \E k \in Keys : x \in I(k)
    OBVIOUS
  <2>2. (\E k \in Keys : x \in I(k)) => IdlePlace(c, x)
    BY <1>5 DEF IdlePlace
  <2>3. IdlePlace(c, x) => \E k \in Keys : x \in I(k)
    BY <1>5, Zenon DEF IdlePlace
  <2> QED
    BY <2>1, <2>2, <2>3
<1> HIDE DEF U
<1> QED
  BY <1>4, <1>6, <1>7

(* The lease is what PoolProps says of owners, of HTTP/1 and of exchanges. *)
LEMMA SingleIsOneOwner == TypeOK /\ Leases => OneOwner
<1> SUFFICES ASSUME TypeOK, NEW c \in Conns, Single(c),
                    NEW x \in Holders(c), NEW y \in Holders(c)
             PROVE  x = y
  BY DEF OneOwner, Leases, Lease
<1>1. /\ \/ IdlePlace(c, x) \/ RawPlace(c, x) \/ OwnPlace(c, x)
         \/ BoxPlace(c, x) \/ PushPlace(c, x)
      /\ \/ IdlePlace(c, y) \/ RawPlace(c, y) \/ OwnPlace(c, y)
         \/ BoxPlace(c, y) \/ PushPlace(c, y)
  BY HoldersArePlaces
<1>2. IdlePlace(c, x) => InIdle(c)
  BY DEF IdlePlace, InIdle
<1>3. IdlePlace(c, y) => InIdle(c)
  BY DEF IdlePlace, InIdle
<1>4. IdlePlace(c, x) /\ IdlePlace(c, y) => x = y
  BY DEF IdlePlace, Single, IdleOnce
<1>5. RawPlace(c, x) => x = y
  BY <1>1, <1>3 DEF RawPlace, OwnPlace, BoxPlace, PushPlace, Single
<1>6. OwnPlace(c, x) => x = y
  BY <1>1, <1>3 DEF RawPlace, OwnPlace, BoxPlace, PushPlace, Single
<1>7. BoxPlace(c, x) => x = y
  BY <1>1, <1>3 DEF RawPlace, OwnPlace, BoxPlace, PushPlace, Single
<1>8. PushPlace(c, x) => x = y
  BY <1>1, <1>3 DEF RawPlace, OwnPlace, BoxPlace, PushPlace, Single
<1>9. IdlePlace(c, x) => x = y
  BY <1>1, <1>2, <1>4 DEF RawPlace, OwnPlace, BoxPlace, PushPlace, Single
<1> QED
  BY <1>1, <1>5, <1>6, <1>7, <1>8, <1>9

(* A connection that two requests hold has a clone among them.             *)
LEMMA ClonesAreExclusive == TypeOK /\ Leases => OnlyClonesShared
<1> SUFFICES ASSUME TypeOK, Leases, NEW r \in Reqs, NEW s \in Reqs, r # s,
                    own[r].conn # NONE, own[r].conn = own[s].conn
             PROVE  kind[own[r].conn] = "h2"
  BY DEF OnlyClonesShared
<1> DEFINE c == own[r].conn
<1>1. c \in Conns
  BY DEF TypeOK, RequestTypes, Pooled
<1>2. Single(c) /\ ClonesShare(c)
  BY <1>1 DEF Leases, Lease
<1>3. ~(Owns(own[r], c) /\ Owns(own[s], c))
  BY <1>2 DEF Single
<1>4. Clones(own[r], c) \/ Clones(own[s], c)
  BY <1>3 DEF Owns, Clones
<1> QED
  BY <1>2, <1>4 DEF ClonesShare

(* With an exchange on it, every place but a request's own is excluded.    *)
LEMMA BusyIsInUse == TypeOK /\ Leases => NeverPooledBusy
<1> SUFFICES ASSUME TypeOK, NEW c \in Conns, BusyInUse(c), st[c] = "busy",
                    NEW x \in Holders(c)
             PROVE  x \in {<<"own", r>> : r \in Reqs}
  BY DEF NeverPooledBusy, Leases, Lease
<1>1. ~IdlePlace(c, x)
  BY DEF BusyInUse, IdlePlace, InIdle
<1>2. OwnPlace(c, x)
  BY <1>1, HoldersArePlaces DEF BusyInUse, RawPlace, BoxPlace, PushPlace
<1> QED
  BY <1>2 DEF OwnPlace

(* One sender, counted.                                                    *)
LEMMA SentToOne == TypeOK /\ Sent => OneSender
<1> SUFFICES ASSUME TypeOK, NEW r \in Reqs, Sender(r)
             PROVE  /\ rx[r] = "open" => Cardinality(Senders(r)) = 1
                    /\ rx[r] \in {"none", "full", "hungup"} => Senders(r) = {}
  BY DEF OneSender, Sent
<1> DEFINE W == {<<"waiting", i>> : i \in {j \in DOMAIN waiting[key[r]] : waiting[key[r]][j] = r}}
           T == {<<"send", 0>> : x \in {y \in {lock.to} : y = r}}
<1>1. DOMAIN waiting[key[r]] = 1..Len(waiting[key[r]])
  BY LenProperties DEF TypeOK, PoolTypes, RequestTypes
<1>2. Senders(r) = W \cup T
  BY DEF Senders
<1>3. ~Queued(r) => W = {}
  BY <1>1 DEF Queued
<1>4. ASSUME Queued(r), QueuedOnce(r) PROVE \E x : W = {x}
  <2>1. PICK i \in 1..Len(waiting[key[r]]) : waiting[key[r]][i] = r
    BY <1>4 DEF Queued
  <2>2. {j \in DOMAIN waiting[key[r]] : waiting[key[r]][j] = r} = {i}
    BY <1>1, <1>4, <2>1 DEF QueuedOnce
  <2>3. W = {<<"waiting", i>>}
    BY <2>2
  <2> QED
    BY <2>3
<1>5. lock.to = r => T = {<<"send", 0>>}
  OBVIOUS
<1>6. lock.to # r => T = {}
  OBVIOUS
<1> HIDE DEF W, T
<1>7. ASSUME rx[r] = "open" PROVE Cardinality(Senders(r)) = 1
  <2>1. \E x : Senders(r) = {x}
    BY <1>2, <1>3, <1>4, <1>5, <1>6, <1>7 DEF Sender
  <2> QED
    BY <2>1, FS_Singleton
<1>8. rx[r] \in {"none", "full", "hungup"} => Senders(r) = {}
  BY <1>2, <1>3, <1>6 DEF Sender
<1> QED
  BY <1>7, <1>8
-----------------------------------------------------------------------------
(* The inductive invariant of the pool.                                    *)
PoolInv == TypeOK /\ InHand /\ KeyInv /\ Leases /\ Hands /\ Sent

(* It holds of an empty pool, ...                                          *)
LEMMA PoolInvInit == Init => PoolInv
<1> SUFFICES ASSUME Init PROVE PoolInv
  OBVIOUS
<1>1. TypeOK /\ InHand
  BY TypeInit
<1>2. KeyInv
  BY EmptySeq DEF Init, KeyInv, QueuesOfKey, HandsOfKey, PushOfKey, OfKey,
     Nothing, Free
<1>3. \A c \in Conns : ~InIdle(c) /\ IdleOnce(c)
  BY EmptySeq DEF Init, InIdle, IdleOnce
<1>4. Leases
  BY <1>3, PoolAssumption DEF Init, Leases, Lease, Single, ClonesShare,
     Unopened, Opens, BusyInUse, Owns, Clones, Nothing, Free, Conns
<1>5. Hands
  BY DEF Init, Hands, Nothing
<1>6. \A r \in Reqs : ~Queued(r)
  BY EmptySeq DEF Init, Queued
<1>7. Sent
  BY <1>6, PoolAssumption DEF Init, Sent, LockQuiet, Sender, Free
<1> QED
  BY <1>1, <1>2, <1>4, <1>5, <1>7 DEF PoolInv

(* ... is kept by every step, ...                                          *)
LEMMA PoolInvStep == PoolInv /\ [Next]_vars => PoolInv'
<1> SUFFICES ASSUME PoolInv, [Next]_vars PROVE PoolInv'
  OBVIOUS
<1> USE DEF PoolInv
<1>1. TypeOK' /\ InHand' /\ KeyInv'
  BY TypeStep, InHandStep, KeyStep
<1>2. Leases'
  <2>1. ASSUME NEW c \in Conns PROVE Lease(c)'
    BY LeaseStep DEF Leases
  <2> QED
    BY <2>1 DEF Leases, Conns
<1>3. Hands' /\ Sent'
  BY HandsStep, SentStep
<1> QED
  BY <1>1, <1>2, <1>3

(* ... and so holds throughout.                                            *)
LEMMA PoolInvHolds == Spec => []PoolInv
BY PoolInvInit, PoolInvStep, PTL DEF Spec

(* Whoever is about to give a connection away has one (mod.rs:307-320,     *)
(* checkout.rs:263-267).                                                   *)
THEOREM GiversHoldOne == Spec => []InHand
<1>1. PoolInv => InHand
  BY DEF PoolInv
<1> QED
  BY <1>1, PoolInvHolds, PTL

(* No connection is ever idle twice, idle and in use, or given to two      *)
(* requests, whatever the interleaving of checkouts, deliveries, drops and *)
(* cancellations (mod.rs:156-193, 307-320).                                *)
THEOREM OneOwnerEach == Spec => []OneOwner
<1>1. PoolInv => OneOwner
  BY SingleIsOneOwner DEF PoolInv
<1> QED
  BY <1>1, PoolInvHolds, PTL

(* No two requests hold an HTTP/1 connection, and none with an exchange on *)
(* it is idle or on its way to another request (connection.rs:139-146,     *)
(* mod.rs:310, service.rs:383-389).                                        *)
THEOREM Http1NotShared == Spec => []ExclusiveHttp1
<1>1. PoolInv => ExclusiveHttp1
  BY ClonesAreExclusive, BusyIsInUse DEF PoolInv, ExclusiveHttp1
<1> QED
  BY <1>1, PoolInvHolds, PTL

(* A request that can still be sent a connection has one sender, one that  *)
(* cannot has none (mod.rs:101, 156-193).                                  *)
THEOREM SenderIsOne == Spec => []OneSender
<1>1. PoolInv => OneSender
  BY SentToOne DEF PoolInv
<1> QED
  BY <1>1, PoolInvHolds, PTL
-----------------------------------------------------------------------------
(* push() of a connection that is shared only ends in the idle list.       *)
LEMMA PushEnds ==
  ASSUME LockQuiet, [Next]_vars, NEW r \in Reqs, lock.by = r, NONE \notin Reqs,
         Shares(lock.conn), lock'.at = "free"
  PROVE  PushIdle(r)
<1> USE DEF poolVars, reqVars, connVars
<1>0. lock.at # "free" /\ lock' # lock /\ ~LockFree
  BY DEF LockQuiet, LockFree
<1>1. ASSUME NEW q \in Reqs, CheckoutIdle(q) PROVE PushIdle(r)
  BY <1>0, <1>1 DEF CheckoutIdle, StartCheckout
<1>2. ASSUME NEW q \in Reqs, CheckoutWait(q) PROVE PushIdle(r)
  BY <1>0, <1>2 DEF CheckoutWait, StartCheckout
<1>3. ASSUME NEW q \in Reqs, CheckoutConnect(q) PROVE PushIdle(r)
  BY <1>0, <1>3 DEF CheckoutConnect, StartCheckout
<1>4. ASSUME NEW q \in Reqs, PollDelivered(q) PROVE PushIdle(r)
  BY <1>0, <1>4 DEF PollDelivered
<1>5. ASSUME NEW q \in Reqs, PollUnavailable(q) PROVE PushIdle(r)
  BY <1>0, <1>5 DEF PollUnavailable
<1>6. ASSUME NEW q \in Reqs, PollTransport(q) PROVE PushIdle(r)
  BY <1>0, <1>6 DEF PollTransport
<1>7. ASSUME NEW q \in Reqs, PollFails(q) PROVE PushIdle(r)
  BY <1>0, <1>7 DEF PollFails
<1>8. ASSUME NEW q \in Reqs, PollHandshake(q) PROVE PushIdle(r)
  BY <1>0, <1>8 DEF PollHandshake, Connected, BeginPush
<1>9. ASSUME NEW q \in Reqs, PollConnected(q) PROVE PushIdle(r)
  BY <1>0, <1>9 DEF PollConnected, Connected, BeginPush
<1>10. ASSUME NEW q \in Reqs, CancelCheckout(q) PROVE PushIdle(r)
  BY <1>0, <1>10 DEF CancelCheckout
<1>11. ASSUME NEW q \in Reqs, DropCheckout(q) PROVE PushIdle(r)
  BY <1>0, <1>11 DEF DropCheckout
<1>12. ASSUME NEW q \in Reqs, DropFields(q) PROVE PushIdle(r)
  BY <1>0, <1>12 DEF DropFields
<1>13. ASSUME NEW q \in Reqs, ReturnToPool(q) PROVE PushIdle(r)
  BY <1>0, <1>13 DEF ReturnToPool, BeginPush
<1>14. ASSUME NEW q \in Reqs, PushNext(q) PROVE PushIdle(r)
  BY <1>0, <1>14 DEF PushNext, Send
<1>15. ASSUME NEW q \in Reqs, PushSend(q) PROVE PushIdle(r)
  BY <1>0, <1>15 DEF PushSend, WalkOn, Walk
<1>16. ASSUME NEW q \in Reqs, PushSendFails(q) PROVE PushIdle(r)
  BY <1>0, <1>16 DEF PushSendFails, WalkOn, Walk, Stuck
<1>17. ASSUME NEW q \in Reqs, PushIdle(q) PROVE PushIdle(r)
  BY <1>0, <1>17 DEF PushIdle
<1>18. ASSUME NEW q \in Reqs, RefuseRequest(q) PROVE PushIdle(r)
  BY <1>0, <1>18 DEF RefuseRequest
<1>19. ASSUME NEW q \in Reqs, SendRequest(q) PROVE PushIdle(r)
  BY <1>0, <1>19 DEF SendRequest
<1>20. ASSUME NEW q \in Reqs, Respond(q) PROVE PushIdle(r)
  BY <1>0, <1>20 DEF Respond
<1>21. ASSUME NEW q \in Reqs, SendFails(q) PROVE PushIdle(r)
  BY <1>0, <1>21 DEF SendFails
<1>22. ASSUME NEW q \in Reqs, CancelRequest(q) PROVE PushIdle(r)
  BY <1>0, <1>22 DEF CancelRequest
<1>23. ASSUME NEW q \in Reqs, WhenReady(q) PROVE PushIdle(r)
  BY <1>0, <1>23 DEF WhenReady
<1>24. ASSUME NEW c \in Conns, ConnReady(c) PROVE PushIdle(r)
  BY <1>0, <1>24 DEF ConnReady
<1>25. ASSUME NEW c \in Conns, ConnCloses(c) PROVE PushIdle(r)
  BY <1>0, <1>25 DEF ConnCloses
<1>26. ASSUME NEW k \in Keys, Expire(k) PROVE PushIdle(r)
  BY <1>0, <1>26 DEF Expire
<1>27. ASSUME DropPool PROVE PushIdle(r)
  BY <1>0, <1>27 DEF DropPool
<1>28. CASE UNCHANGED vars
  BY <1>0, <1>28 DEF vars
<1> QED
  BY <1>1, <1>2, <1>3, <1>4, <1>5, <1>6, <1>7, <1>8, <1>9, <1>10, <1>11, <1>12,
     <1>13, <1>14, <1>15, <1>16, <1>17, <1>18, <1>19, <1>20, <1>21, <1>22,
     <1>23, <1>24, <1>25, <1>26, <1>27, <1>28 DEF Next

(* When push() of an HTTP/2 connection returns, nobody waits for the host  *)
(* and the connection is idle (mod.rs:159-192).                            *)
THEOREM PushIsComplete == Spec => PushServesAll
<1>1. ASSUME PoolInv, [Next]_vars, NEW r \in Reqs,
             lock.by = r, Shares(lock.conn), lock'.at = "free"
      PROVE  /\ waiting'[key[r]] = <<>>
             /\ lock.conn \in {idle'[key[r]][i] : i \in DOMAIN idle'[key[r]]}
  <2>1. PushIdle(r)
    BY <1>1, PushEnds, PoolAssumption DEF PoolInv, Sent
  <2>2. lock.conn \in Conns /\ key[r] \in Keys /\ idle[key[r]] \in Seq(Conns)
    BY <1>1, <2>1 DEF PushIdle, PoolInv, InHand, TypeOK, RequestTypes, PoolTypes
  <2>3. idle'[key[r]] = Append(idle[key[r]], lock.conn)
    BY <1>1, <2>1, <2>2 DEF PushIdle, PoolInv, TypeOK, PoolTypes
  <2> DEFINE n == Len(idle[key[r]])
  <2>4. n + 1 \in DOMAIN idle'[key[r]] /\ idle'[key[r]][n + 1] = lock.conn
    <3>1. n \in Nat /\ Append(idle[key[r]], lock.conn) \in Seq(Conns)
      BY <2>2, LenProperties, AppendProperties
    <3>2. DOMAIN idle'[key[r]] = 1..(n + 1)
      BY <2>2, <2>3, <3>1, LenProperties, AppendProperties
    <3> HIDE DEF n
    <3>3. n + 1 \in 1..(n + 1)
      BY <3>1
    <3> QED
      BY <2>2, <2>3, <3>2, <3>3, AppendProperties DEF n
  <2> QED
    BY <2>1, <2>4 DEF PushIdle
<1>2. PoolInv /\ [Next]_vars
        => [\A r \in Reqs :
              lock.by = r /\ Shares(lock.conn) /\ lock'.at = "free"
                => /\ waiting'[key[r]] = <<>>
                   /\ lock.conn \in {idle'[key[r]][i] : i \in DOMAIN idle'[key[r]]}]_vars
  BY <1>1
<1> QED
  BY <1>2, PoolInvHolds, PTL DEF Spec, PushServesAll

-----------------------------------------------------------------------------
(* Somebody holds the connection itself.                                   *)
Held(c) ==
  \/ InIdle(c)
  \/ lock.conn = c
  \/ \E r \in Reqs : raw[r] = c \/ Owns(own[r], c) \/ Owns(box[r], c)

(* That is what PoolProps means by a connection that is kept.              *)
LEMMA HeldIsKept ==
  TypeOK /\ InHand /\ Sent => \A c \in Conns : Holders(c) # {} <=> Held(c)
<1> SUFFICES ASSUME TypeOK, InHand, Sent, NEW c \in Conns
             PROVE  Holders(c) # {} <=> Held(c)
  OBVIOUS
<1>1. ASSUME NEW x \in Holders(c) PROVE Held(c)
  BY HoldersArePlaces
     DEF IdlePlace, RawPlace, OwnPlace, BoxPlace, PushPlace, Held, InIdle
<1>2. ASSUME Held(c) PROVE \E x : x \in Holders(c)
  <2>1. CASE InIdle(c)
    <3>1. \E x : IdlePlace(c, x)
      BY <2>1 DEF InIdle, IdlePlace
    <3> QED
      BY <3>1, HoldersArePlaces
  <2>2. CASE lock.conn = c
    <3>1. lock.by \in Reqs
      BY <2>2, PoolAssumption DEF Sent, LockQuiet, InHand, Conns
    <3>2. PushPlace(c, <<"push", lock.by>>)
      BY <2>2, <3>1 DEF PushPlace
    <3> QED
      BY <3>2, HoldersArePlaces
  <2>3. ASSUME NEW r \in Reqs, raw[r] = c PROVE \E x : x \in Holders(c)
    <3>1. RawPlace(c, <<"raw", r>>)
      BY <2>3 DEF RawPlace
    <3> QED
      BY <3>1, HoldersArePlaces
  <2>4. ASSUME NEW r \in Reqs, Owns(own[r], c) PROVE \E x : x \in Holders(c)
    <3>1. OwnPlace(c, <<"own", r>>)
      BY <2>4 DEF OwnPlace
    <3> QED
      BY <3>1, HoldersArePlaces
  <2>5. ASSUME NEW r \in Reqs, Owns(box[r], c) PROVE \E x : x \in Holders(c)
    <3>1. BoxPlace(c, <<"box", r>>)
      BY <2>5 DEF BoxPlace
    <3> QED
      BY <3>1, HoldersArePlaces
  <2> QED
    BY <1>2, <2>1, <2>2, <2>3, <2>4, <2>5 DEF Held
<1> QED
  BY <1>1, <1>2

(* An open connection passes from hand to hand while there is a pool: each *)
(* step that overwrites a hand finds it empty, or passes on what was there.*)
LEMMA HeldStep ==
  ASSUME PoolInv, [Next]_vars, NEW c \in Conns, Held(c), IsOpen(c), alive',
         ~\E r \in Reqs : inner[r] = "Connected" /\ DropFields(r),
         ~\E r \in Reqs : CheckoutWait(r) \/ CheckoutConnect(r)
  PROVE  Held(c)'
<1> USE DEF poolVars, reqVars, connVars
<1>0. /\ TypeOK /\ RequestTypes /\ NONE \notin Reqs /\ c \in Reqs /\ Hands /\ Sent
      /\ InHand /\ IdleOnce(c)
  BY PoolAssumption
     DEF PoolInv, TypeOK, Conns, Leases, Lease, Single
<1> USE <1>0 DEF RequestTypes, Conns
<1>1. ASSUME NEW r \in Reqs, CheckoutIdle(r) PROVE Held(c)'
  <2>1. PopIdle(key[r]) /\ Popped(key[r]) # NONE /\ key[r] \in Keys
    BY <1>1 DEF CheckoutIdle, StartCheckout
  <2>2. InIdle(c) => InIdle(c)' \/ c = Popped(key[r])
    BY <2>1, PopMoves DEF Popped
  <2>3. raw[r] = NONE
    BY <1>1 DEF CheckoutIdle, StartCheckout, Hands
  <2> QED
    BY <1>1, <2>2, <2>3 DEF Held, CheckoutIdle, StartCheckout
<1>2. ASSUME NEW r \in Reqs, CheckoutWait(r) PROVE Held(c)'
  BY <1>2
<1>3. ASSUME NEW r \in Reqs, CheckoutConnect(r) PROVE Held(c)'
  BY <1>3
<1>4. ASSUME NEW r \in Reqs, PollDelivered(r) PROVE Held(c)'
  <2>1. InIdle(c)' <=> InIdle(c)
    BY <1>4, IdleSame DEF PollDelivered
  <2> QED
    BY <1>4, <2>1 DEF Held, Owns, Hands, PollDelivered, Resolve, Nothing
<1>5. ASSUME NEW r \in Reqs, PollUnavailable(r) PROVE Held(c)'
  <2>1. InIdle(c)' <=> InIdle(c)
    BY <1>5, IdleSame DEF PollUnavailable
  <2> QED
    BY <1>5, <2>1 DEF Held, Owns, Hands, PollUnavailable, Resolve, Nothing
<1>6. ASSUME NEW r \in Reqs, PollTransport(r) PROVE Held(c)'
  <2>1. InIdle(c)' <=> InIdle(c)
    BY <1>6, IdleSame DEF PollTransport
  <2> QED
    BY <1>6, <2>1 DEF Held, Owns, PollTransport
<1>7. ASSUME NEW r \in Reqs, PollFails(r) PROVE Held(c)'
  <2>1. InIdle(c)' <=> InIdle(c)
    BY <1>7, IdleSame DEF PollFails
  <2> QED
    BY <1>7, <2>1 DEF Held, Owns, Hands, PollFails, Resolve, Nothing
<1>8. ASSUME NEW r \in Reqs, PollHandshake(r) PROVE Held(c)'
  <2>1. PICK b \in BOOLEAN, p \in {"push", "drop"} :
          /\ own' = [own EXCEPT ![r] = [conn |-> r, reused |-> b]]
          /\ pc' = [pc EXCEPT ![r] = p]
          /\ b => Shares(r) /\ LockFree /\ lock'.conn = r
          /\ ~b => lock' = lock
          /\ UNCHANGED idle
    <3>1. Connected(r, r, Shares(r))
      BY <1>8 DEF PollHandshake
    <3>2. Shares(r) \in BOOLEAN
      BY DEF Shares
    <3> QED
      BY <3>1, <3>2, ConnectedTakes
  <2>2. InIdle(c)' <=> InIdle(c)
    BY <2>1, IdleSame
  <2>3. own[r].conn = NONE /\ (b => lock.conn = NONE)
    BY <1>8, <2>1 DEF PollHandshake, Hands, Sent, LockQuiet, LockFree
  <2> QED
    BY <1>8, <2>1, <2>2, <2>3 DEF Held, Owns, PollHandshake
<1>9. ASSUME NEW r \in Reqs, PollConnected(r) PROVE Held(c)'
  <2>1. PICK b \in BOOLEAN, p \in {"push", "drop"} :
          /\ own' = [own EXCEPT ![r] = [conn |-> raw[r], reused |-> b]]
          /\ pc' = [pc EXCEPT ![r] = p]
          /\ b => Shares(raw[r]) /\ LockFree /\ lock'.conn = raw[r]
          /\ ~b => lock' = lock
          /\ UNCHANGED idle
    <3>1. Connected(r, raw[r], Shares(raw[r]))
      BY <1>9 DEF PollConnected
    <3>2. Shares(raw[r]) \in BOOLEAN
      BY DEF Shares
    <3> QED
      BY <3>1, <3>2, ConnectedTakes
  <2>2. InIdle(c)' <=> InIdle(c)
    BY <2>1, IdleSame
  <2>3. own[r].conn = NONE /\ (b => lock.conn = NONE)
    BY <1>9, <2>1 DEF PollConnected, Hands, Sent, LockQuiet, LockFree
  <2> QED
    BY <1>9, <2>1, <2>2, <2>3 DEF Held, Owns, PollConnected
<1>10. ASSUME NEW r \in Reqs, CancelCheckout(r) PROVE Held(c)'
  <2>1. InIdle(c)' <=> InIdle(c)
    BY <1>10, IdleSame DEF CancelCheckout
  <2> QED
    BY <1>10, <2>1 DEF Held, Owns, Hands, CancelCheckout, Resolve, Nothing
<1>11. ASSUME NEW r \in Reqs, DropCheckout(r) PROVE Held(c)'
  <2>1. InIdle(c)' <=> InIdle(c)
    BY <1>11, IdleSame DEF DropCheckout
  <2> QED
    BY <1>11, <2>1 DEF Held, Owns, DropCheckout
<1>12. ASSUME NEW r \in Reqs, DropFields(r) PROVE Held(c)'
  <2>1. InIdle(c)' <=> InIdle(c)
    BY <1>12, IdleSame DEF DropFields
  <2>2. raw[r] = NONE
    BY <1>12 DEF DropFields, Hands
  <2>3. /\ Owns(box[r], c) => raw'[r] = c
        /\ \A s \in Reqs : s # r => raw'[s] = raw[s] /\ box'[s] = box[s]
        /\ UNCHANGED <<lock, own>>
    BY <1>12 DEF DropFields, GivesBack, Owns
  <2> QED
    BY <2>1, <2>2, <2>3 DEF Held
<1>13. ASSUME NEW r \in Reqs, ReturnToPool(r) PROVE Held(c)'
  <2>1. InIdle(c)' <=> InIdle(c)
    BY <1>13, IdleSame DEF ReturnToPool, BeginPush
  <2>2. /\ lock.conn = NONE /\ lock'.conn = raw[r]
        /\ raw' = [raw EXCEPT ![r] = NONE] /\ UNCHANGED <<own, box>>
    <3>1. UNCHANGED alive
      BY <1>13 DEF ReturnToPool, BeginPush
    <3>2. alive
      BY <3>1, Zenon
    <3> QED
      BY <1>13, <3>2 DEF ReturnToPool, BeginPush, Walk, LockFree, Sent,
         LockQuiet
  <2> QED
    BY <2>1, <2>2 DEF Held, Owns
<1>14. ASSUME NEW r \in Reqs, PushNext(r) PROVE Held(c)'
  <2>1. InIdle(c)' <=> InIdle(c)
    BY <1>14, IdleSame DEF PushNext
  <2> QED
    BY <1>14, <2>1 DEF Held, Owns, PushNext, Send
<1>15. ASSUME NEW r \in Reqs, PushSend(r) PROVE Held(c)'
  <2>1. InIdle(c)' <=> InIdle(c)
    BY <1>15, IdleSame DEF PushSend
  <2>2. /\ lock.to \in Reqs /\ rx[lock.to] # "full"
        /\ box[lock.to].conn = NONE
    BY <1>15 DEF PushSend, InHand, Sent, Sender, Hands
  <2>3. /\ UNCHANGED <<raw, own>>
        /\ \A s \in Reqs : s # lock.to => box'[s] = box[s]
        /\ Shares(lock.conn) => lock'.conn = lock.conn
    BY <1>15 DEF PushSend, WalkOn, Walk
  <2>4. ~Shares(lock.conn) => Owns(box'[lock.to], lock.conn)
    BY <1>15, <2>2 DEF PushSend, Owns
  <2> QED
    BY <2>1, <2>2, <2>3, <2>4 DEF Held, Owns
<1>16. ASSUME NEW r \in Reqs, PushSendFails(r) PROVE Held(c)'
  <2>1. InIdle(c)' <=> InIdle(c)
    BY <1>16, IdleSame DEF PushSendFails
  <2> QED
    BY <1>16, <2>1 DEF Held, Owns, PushSendFails, WalkOn, Walk, Stuck, EndPush,
       AfterPush, Onward, Free
<1>17. ASSUME NEW r \in Reqs, PushIdle(r) PROVE Held(c)'
  <2>1. lock.conn \in Conns /\ key[r] \in Keys
    BY <1>17 DEF PushIdle, InHand
  <2>2. InIdle(c) => c # lock.conn
    BY DEF PoolInv, Leases, Lease, Single
  <2>3. InIdle(c)' <=> InIdle(c) \/ c = lock.conn
    BY <1>17, <2>1, <2>2, PushIdleMoves DEF PushIdle
  <2> QED
    BY <1>17, <2>3 DEF Held, PushIdle
<1>18. ASSUME NEW r \in Reqs, RefuseRequest(r) PROVE Held(c)'
  <2>1. InIdle(c)' <=> InIdle(c)
    BY <1>18, IdleSame DEF RefuseRequest
  <2> QED
    BY <1>18, <2>1 DEF Held, Owns, Hands, RefuseRequest, Release, GivesBack,
       Nothing
<1>19. ASSUME NEW r \in Reqs, SendRequest(r) PROVE Held(c)'
  <2>1. InIdle(c)' <=> InIdle(c)
    BY <1>19, IdleSame DEF SendRequest
  <2> QED
    BY <1>19, <2>1 DEF Held, Owns, SendRequest
<1>20. ASSUME NEW r \in Reqs, Respond(r) PROVE Held(c)'
  <2>1. InIdle(c)' <=> InIdle(c)
    BY <1>20, IdleSame DEF Respond
  <2>2. CASE Shares(own[r].conn)
    BY <1>20, <2>1, <2>2 DEF Held, Owns, Hands, Respond, Release, GivesBack,
       Nothing
  <2>3. CASE ~Shares(own[r].conn)
    BY <1>20, <2>1, <2>3 DEF Held, Respond
  <2> QED
    BY <2>2, <2>3
<1>21. ASSUME NEW r \in Reqs, SendFails(r) PROVE Held(c)'
  <2>1. InIdle(c)' <=> InIdle(c)
    BY <1>21, IdleSame DEF SendFails
  <2> QED
    BY <1>21, <2>1 DEF Held, Owns, Hands, SendFails, Release, GivesBack, Nothing
<1>22. ASSUME NEW r \in Reqs, CancelRequest(r) PROVE Held(c)'
  <2>1. InIdle(c)' <=> InIdle(c)
    BY <1>22, IdleSame DEF CancelRequest
  <2> QED
    BY <1>22, <2>1 DEF Held, Owns, Hands, CancelRequest, Release, GivesBack,
       Nothing
<1>23. ASSUME NEW r \in Reqs, WhenReady(r) PROVE Held(c)'
  <2>1. InIdle(c)' <=> InIdle(c)
    BY <1>23, IdleSame DEF WhenReady
  <2> QED
    BY <1>23, <2>1 DEF Held, Owns, Hands, WhenReady, Release, GivesBack, Nothing
<1>24. ASSUME NEW d \in Conns, ConnReady(d) PROVE Held(c)'
  BY <1>24, IdleSame DEF Held, ConnReady
<1>25. ASSUME NEW d \in Conns, ConnCloses(d) PROVE Held(c)'
  BY <1>25, IdleSame DEF Held, ConnCloses
<1>26. ASSUME NEW k \in Keys, Expire(k) PROVE Held(c)'
  BY <1>26, IdleSame DEF Held, Expire
<1>27. ASSUME DropPool PROVE Held(c)'
  BY <1>27 DEF DropPool
<1>28. CASE UNCHANGED vars
  BY <1>28, IdleSame DEF Held, vars
<1> QED
  BY <1>1, <1>2, <1>3, <1>4, <1>5, <1>6, <1>7, <1>8, <1>9, <1>10, <1>11, <1>12,
     <1>13, <1>14, <1>15, <1>16, <1>17, <1>18, <1>19, <1>20, <1>21, <1>22,
     <1>23, <1>24, <1>25, <1>26, <1>27, <1>28 DEF Next

(* An open connection is given up only by an idle list that is emptied at a*)
(* checkout and by a Checkout dropped with a connection it took            *)
(* (checkout.rs:149, mod.rs:97): no delivery, cancellation or failure loses*)
(* one.                                                                    *)
THEOREM OpenStaysInPool == Spec => OpenIsNeverLost
<1> DEFINE Excused(c) ==
       \/ ~IsOpen(c)
       \/ ~alive'
       \/ \E r \in Reqs : inner[r] = "Connected" /\ DropFields(r)
       \/ \E r \in Reqs : CheckoutWait(r) \/ CheckoutConnect(r)
    KeptIsHeld == \A c \in Conns : Holders(c) # {} <=> Held(c)
<1>1. PoolInv => KeptIsHeld
  BY HeldIsKept DEF PoolInv
<1>2. ASSUME PoolInv, KeptIsHeld, KeptIsHeld', [Next]_vars, NEW c \in Kept \ Kept'
      PROVE  Excused(c)
  <2>1. c \in Conns /\ Held(c) /\ ~Held(c)'
    BY <1>2 DEF Kept, Conns
  <2> QED
    BY <1>2, <2>1, HeldStep
<1>3. PoolInv /\ KeptIsHeld /\ KeptIsHeld' /\ [Next]_vars
        => [\A c \in Kept \ Kept' : Excused(c)]_vars
  BY <1>2
<1> QED
  BY <1>1, <1>3, PoolInvHolds, PTL DEF Spec, OpenIsNeverLost

-----------------------------------------------------------------------------
(* The pool as a Lending.                                                  *)

(* The pool has it, or a clone of it.                                      *)
Custody(c) ==
  \/ InIdle(c)
  \/ lock.conn = c
  \/ \E r \in Reqs : raw[r] = c \/ box[r].conn = c

PoolIsCustody == InPool = {c \in Conns : Custody(c)}

LEMMA InPoolIsCustody == TypeOK => PoolIsCustody
<1> SUFFICES ASSUME TypeOK, NEW c \in Conns
             PROVE  (\E k \in Keys : c \in Range(idle[k])) <=> InIdle(c)
  BY DEF InPool, Custody, PoolIsCustody
<1>1. \A k \in Keys : DOMAIN idle[k] = 1..Len(idle[k])
  BY LenProperties DEF TypeOK, PoolTypes
<1> QED
  BY <1>1 DEF Range, InIdle

(* Steps that only let go of connections.                                  *)
LEMMA Discards ==
  ASSUME PoolIsCustody, PoolIsCustody', UNCHANGED <<key, st, Shared, Holding, Asking>>,
         \A c \in Conns : Custody(c)' => Custody(c)
  PROVE  Lent!Next
<1>1. InPool' \subseteq InPool
  <2>1. InPool = {c \in Conns : Custody(c)} /\ InPool' = {c \in Conns : Custody(c)'}
    BY DEF PoolIsCustody, Conns
  <2> QED
    BY <2>1
<1> QED
  BY <1>1 DEF Lent!Next, Lent!Discard

(* Checkouts that end without a connection.                                *)
LEMMA Refuses ==
  ASSUME PoolIsCustody, PoolIsCustody', UNCHANGED <<key, st, Shared, Holding>>,
         NEW r \in Asking, Asking' = Asking \ {r},
         \A c \in Conns : Custody(c)' <=> Custody(c)
  PROVE  Lent!Next
<1>1. InPool' = InPool
  <2>1. InPool = {c \in Conns : Custody(c)} /\ InPool' = {c \in Conns : Custody(c)'}
    BY DEF PoolIsCustody, Conns
  <2> QED
    BY <2>1
<1>2. r \in Reqs
  BY DEF Asking
<1> QED
  BY <1>1, <1>2 DEF Lent!Next, Lent!Refuse

(* Pooled::drop (mod.rs:307-320) of the Pooled a request holds.            *)
LEMMA Returns ==
  ASSUME PoolInv, PoolIsCustody, PoolIsCustody', NEW r \in Reqs, Release(r),
         pc[r] \in {"request", "sending", "wait_ready"},
         UNCHANGED <<key, lock, idle, box, kind, st>>
  PROVE  [Lent!Next]_Lent!vars
<1> DEFINE c == own[r].conn
<1>0. /\ RequestTypes /\ ConnTypes /\ NONE \notin Reqs
      /\ \A d \in Conns : Lease(d)
  BY PoolAssumption DEF PoolInv, TypeOK, Leases
<1>1. InPool = {d \in Conns : Custody(d)} /\ InPool' = {d \in Conns : Custody(d)'}
  BY DEF PoolIsCustody, Conns
<1>2. /\ UNCHANGED <<key, st, Shared, Asking>>
      /\ Holding' = [Holding EXCEPT ![r] = NONE]
      /\ Holding[r] = c /\ c \in Conns \cup {NONE}
  BY <1>0 DEF Release, Asking, Holding, Shared, RequestTypes, Pooled, Nothing
<1>3. raw[r] = NONE
  BY DEF PoolInv, Hands
<1>4. \A d \in Conns : InIdle(d)' <=> InIdle(d)
  BY IdleSame
<1>5. CASE c = NONE
  <2>1. raw' = raw
    BY <1>0, <1>3, <1>5 DEF Release, GivesBack, RequestTypes
  <2>2. \A d \in Conns : Custody(d)' <=> Custody(d)
    BY <1>4, <2>1 DEF Custody
  <2>3. InPool' = InPool
    BY <1>1, <2>2
  <2>4. Holding' = Holding
    BY <1>2, <1>5 DEF Holding
  <2> QED
    BY <1>2, <2>3, <2>4 DEF Lent!vars
<1>6. CASE c # NONE /\ GivesBack(own[r])
  <2>1. st[c] = "ready" /\ raw' = [raw EXCEPT ![r] = c] /\ c \in Conns
    BY <1>2, <1>6 DEF Release, GivesBack, IsOpen
  <2>2. \A d \in Conns : Custody(d)' <=> Custody(d) \/ d = c
    BY <1>0, <1>3, <1>4, <2>1 DEF Custody, RequestTypes, Conns
  <2>3. InPool' = InPool \cup {c}
    BY <1>1, <2>1, <2>2
  <2> QED
    BY <1>2, <1>6, <2>1, <2>3 DEF Lent!Next, Lent!Return
<1>7. CASE c # NONE /\ ~GivesBack(own[r])
  <2>1. raw' = raw /\ c \in Conns
    BY <1>0, <1>2, <1>3, <1>7 DEF Release, RequestTypes
  <2>2. \A d \in Conns : Custody(d)' <=> Custody(d)
    BY <1>4, <2>1 DEF Custody
  <2>3. InPool' = InPool
    BY <1>1, <2>2
  <2>4. c \in Shared \/ st[c] # "ready"
    BY <1>0, <1>7, <2>1 DEF GivesBack, IsOpen, Shared, Lease, ClonesShare,
       Clones
  <2> QED
    BY <1>2, <1>7, <2>3, <2>4 DEF Lent!Next, Lent!Return
<1> QED
  BY <1>5, <1>6, <1>7

(* Checkout::poll that ends with a connection another request opened:      *)
(* delivered, or taken from the idle list.                                 *)
LEMMA LendsToAsker ==
  ASSUME PoolInv, PoolIsCustody, PoolIsCustody', NEW r \in Asking, NEW c \in Conns,
         UNCHANGED <<key, kind, st>>,
         Asking' = Asking \ {r}, Holding' = [Holding EXCEPT ![r] = c],
         raw[r] = c \/ box[r].conn = c,
         \A d \in Conns : d # c => (Custody(d)' <=> Custody(d)),
         Custody(c)' => c \in Shared
  PROVE  Lent!Next
<1>1. /\ r \in Reqs /\ Custody(c) /\ UNCHANGED Shared
      /\ InPool = {d \in Conns : Custody(d)} /\ InPool' = {d \in Conns : Custody(d)'}
  BY DEF PoolIsCustody, Asking, Conns, Custody, Shared
<1>2. key[c] = key[r]
  BY <1>1, PoolAssumption DEF PoolInv, KeyInv, HandsOfKey, Conns
<1>3. st[c] \in {"ready", "closed"}
  <2>1. Lease(c) /\ ConnTypes
    BY DEF PoolInv, Leases, TypeOK
  <2>2. box[r].conn = c => Owns(box[r], c) \/ Clones(box[r], c)
    BY DEF Owns, Clones
  <2> QED
    BY <1>1, <2>1, <2>2
       DEF Lease, Unopened, BusyInUse, ClonesShare, ConnTypes
<1>4. InPool' \in {InPool \ {c}} \cup {p \in {InPool} : c \in Shared}
  <2>1. CASE Custody(c)'
    <3>1. InPool' = InPool
      BY <1>1, <2>1
    <3> QED
      BY <2>1, <3>1
  <2>2. CASE ~Custody(c)'
    BY <1>1, <2>2
  <2> QED
    BY <2>1, <2>2
<1>5. c \in InPool /\ c \in Reqs
  BY <1>1 DEF Conns
<1> QED
  BY <1>1, <1>2, <1>3, <1>4, <1>5 DEF Lent!Next, Lent!Lend, Lent!Answer

(* Every step of the pool is a step of the Lending, or nothing to it.      *)
LEMMA LendStep ==
  ASSUME PoolInv, PoolIsCustody, PoolIsCustody', [Next]_vars
  PROVE  [Lent!Next]_Lent!vars
<1> USE DEF poolVars, reqVars, connVars
<1>0. /\ PoolTypes /\ RequestTypes /\ ConnTypes /\ TypeOK /\ InHand /\ Hands /\ Sent
      /\ NONE \notin Reqs /\ \A c \in Conns : Lease(c) /\ IdleOnce(c)
  BY PoolAssumption DEF PoolInv, TypeOK, Leases, Lease, Single
<1>a. UNCHANGED <<kind, st>> => UNCHANGED Shared
  BY DEF Shared
<1>b. UNCHANGED own => UNCHANGED Holding
  BY DEF Holding
<1>c. UNCHANGED idle => \A c \in Conns : InIdle(c)' <=> InIdle(c)
  BY IdleSame
<1>1. ASSUME NEW r \in Reqs, CheckoutIdle(r) PROVE [Lent!Next]_Lent!vars
  <2>1. StartCheckout(r) /\ PopIdle(key[r]) /\ key[r] \in Keys
    BY <1>0, <1>1 DEF CheckoutIdle, StartCheckout, RequestTypes
  <2>2. \A c \in Conns : (InIdle(c)' => InIdle(c)) /\ (c = Popped(key[r]) => InIdle(c))
    BY <1>0, <2>1, PopMoves
  <2>3. \A c \in Conns : Custody(c)' => Custody(c)
    BY <1>0, <1>1, <2>2 DEF Custody, CheckoutIdle, StartCheckout, RequestTypes
  <2>4. UNCHANGED <<key, st, Shared, Holding, Asking>>
    BY <1>0, <1>a, <1>b, <1>1, <2>1 DEF StartCheckout, Asking, RequestTypes
  <2> QED
    BY <2>3, <2>4, Discards
<1>2. ASSUME NEW r \in Reqs, CheckoutWait(r) PROVE [Lent!Next]_Lent!vars
  <2>1. StartCheckout(r) /\ PopIdle(key[r]) /\ key[r] \in Keys
    BY <1>0, <1>2 DEF CheckoutWait, StartCheckout, RequestTypes
  <2>2. \A c \in Conns : (InIdle(c)' => InIdle(c)) /\ (c = Popped(key[r]) => InIdle(c))
    BY <1>0, <2>1, PopMoves
  <2>3. \A c \in Conns : Custody(c)' => Custody(c)
    BY <1>0, <1>2, <2>2 DEF Custody, CheckoutWait, StartCheckout, JoinWaiters,
       RequestTypes
  <2>4. UNCHANGED <<key, st, Shared, Holding, Asking>>
    BY <1>0, <1>a, <1>b, <1>2, <2>1 DEF StartCheckout, Asking, RequestTypes
  <2> QED
    BY <2>3, <2>4, Discards
<1>3. ASSUME NEW r \in Reqs, CheckoutConnect(r) PROVE [Lent!Next]_Lent!vars
  <2>1. StartCheckout(r) /\ PopIdle(key[r]) /\ key[r] \in Keys
    BY <1>0, <1>3 DEF CheckoutConnect, StartCheckout, RequestTypes
  <2>2. \A c \in Conns : (InIdle(c)' => InIdle(c)) /\ (c = Popped(key[r]) => InIdle(c))
    BY <1>0, <2>1, PopMoves
  <2>3. \A c \in Conns : Custody(c)' => Custody(c)
    BY <1>0, <1>3, <2>2 DEF Custody, CheckoutConnect, StartCheckout,
       JoinWaiters, RequestTypes
  <2>4. UNCHANGED <<key, st, Shared, Holding, Asking>>
    BY <1>0, <1>a, <1>b, <1>3, <2>1 DEF StartCheckout, Asking, RequestTypes
  <2> QED
    BY <2>3, <2>4, Discards
<1>4. ASSUME NEW r \in Reqs, PollDelivered(r) PROVE [Lent!Next]_Lent!vars
  <2>1. /\ r \in Asking /\ Asking' = Asking \ {r} /\ UNCHANGED <<key, kind, st>>
        /\ Holding' = [Holding EXCEPT ![r] = box[r].conn] /\ Holding[r] = NONE
        /\ box[r].conn \in Conns \cup {NONE}
        /\ box' = [box EXCEPT ![r] = Nothing] /\ UNCHANGED <<lock, raw, idle>>
    BY <1>0, <1>4
       DEF PollDelivered, Resolve, Asking, Holding, Hands, RequestTypes, Pooled
  <2>2. \A d \in Conns : d # box[r].conn => (Custody(d)' <=> Custody(d))
    BY <1>0, <1>c, <2>1 DEF Custody, Nothing, RequestTypes, Conns
  <2>3. CASE box[r].conn = NONE
    <3>1. \A d \in Conns : Custody(d)' <=> Custody(d)
      BY <1>0, <2>2, <2>3 DEF Conns
    <3>2. UNCHANGED Holding
      BY <2>1, <2>3 DEF Holding
    <3> QED
      BY <1>a, <2>1, <3>1, <3>2, Refuses
  <2>4. ASSUME NEW c \in Conns, c = box[r].conn PROVE Lent!Next
    <3>1. ASSUME Custody(c)', c \notin Shared PROVE FALSE
      <4>1. Lease(c) /\ kind[c] # "h2"
        BY <1>0, <2>4, <3>1 DEF Lease, Unopened, Shared
      <4>2. \A s \in Reqs : box[s].conn = c => Owns(box[s], c)
        BY <1>0, <4>1 DEF Lease, ClonesShare, Clones, Owns, RequestTypes, Pooled
      <4>3. ~InIdle(c)' /\ lock'.conn # c
        BY <1>c, <2>1, <2>4, <4>1, <4>2 DEF Lease, Single
      <4>4. \A s \in Reqs : raw'[s] # c /\ box'[s].conn # c
        BY <1>0, <2>1, <2>4, <4>1, <4>2
           DEF Lease, Single, Nothing, RequestTypes, Conns
      <4> QED
        BY <3>1, <4>3, <4>4 DEF Custody
    <3> QED
      BY <2>1, <2>2, <2>4, <3>1, LendsToAsker
  <2> QED
    BY <2>1, <2>3, <2>4
<1>5. ASSUME NEW r \in Reqs, PollUnavailable(r) PROVE [Lent!Next]_Lent!vars
  <2>1. /\ r \in Asking /\ Asking' = Asking \ {r} /\ UNCHANGED <<key, kind, st>>
        /\ UNCHANGED <<lock, raw, box, idle>>
    BY <1>0, <1>5 DEF PollUnavailable, Resolve, Asking, RequestTypes
  <2>2. UNCHANGED Holding
    BY <1>0, <1>5 DEF PollUnavailable, Resolve, Nothing, Holding, Hands,
       RequestTypes
  <2>3. \A c \in Conns : Custody(c)' <=> Custody(c)
    BY <1>c, <2>1 DEF Custody
  <2> QED
    BY <1>a, <2>1, <2>2, <2>3, Refuses
<1>6. ASSUME NEW r \in Reqs, PollTransport(r) PROVE [Lent!Next]_Lent!vars
  <2>1. st[r] = "none" /\ \A c \in Conns : c # r => kind'[c] = kind[c]
    BY <1>0, <1>6 DEF PollTransport, Lease, Opens, Conns, ConnTypes
  <2>2. UNCHANGED <<key, st, Shared, Holding, Asking>>
    BY <1>b, <1>6, <2>1 DEF PollTransport, Shared, Asking
  <2>3. \A c \in Conns : Custody(c)' <=> Custody(c)
    BY <1>c, <1>6 DEF PollTransport, Custody
  <2> QED
    BY <2>2, <2>3, Discards
<1>7. ASSUME NEW r \in Reqs, PollFails(r) PROVE [Lent!Next]_Lent!vars
  <2>1. /\ r \in Asking /\ Asking' = Asking \ {r} /\ UNCHANGED <<key, kind, st>>
        /\ UNCHANGED <<lock, raw, box, idle>>
    BY <1>0, <1>7 DEF PollFails, Resolve, Asking, RequestTypes
  <2>2. UNCHANGED Holding
    BY <1>0, <1>7 DEF PollFails, Resolve, Nothing, Holding, Hands, RequestTypes
  <2>3. \A c \in Conns : Custody(c)' <=> Custody(c)
    BY <1>c, <2>1 DEF Custody
  <2> QED
    BY <1>a, <2>1, <2>2, <2>3, Refuses
<1>8. ASSUME NEW r \in Reqs, PollHandshake(r) PROVE [Lent!Next]_Lent!vars
  <2>1. PICK b \in BOOLEAN, p \in {"push", "drop"} :
          /\ own' = [own EXCEPT ![r] = [conn |-> r, reused |-> b]]
          /\ pc' = [pc EXCEPT ![r] = p]
          /\ b => Shares(r) /\ LockFree /\ lock'.conn = r
          /\ ~b => lock' = lock
          /\ UNCHANGED idle
    <3>1. Connected(r, r, Shares(r))
      BY <1>8 DEF PollHandshake
    <3>2. Shares(r) \in BOOLEAN
      BY DEF Shares
    <3> QED
      BY <3>1, <3>2, ConnectedTakes
  <2>2. /\ r \in Asking /\ Asking' = Asking \ {r} /\ UNCHANGED <<key, kind>>
        /\ Holding' = [Holding EXCEPT ![r] = r] /\ st[r] = "none"
        /\ UNCHANGED <<raw, box>>
    BY <1>0, <1>8, <2>1
       DEF PollHandshake, Asking, Holding, Lease, Opens, Conns, RequestTypes
  <2>3. /\ InPool = {d \in Conns : Custody(d)}
        /\ InPool' = {d \in Conns : Custody(d)'}
    BY DEF PoolIsCustody, Conns
  <2>4. \A d \in Conns : Custody(d)' <=> Custody(d) \/ (b /\ d = r)
    BY <1>0, <1>c, <2>1, <2>2
       DEF Custody, LockFree, Sent, LockQuiet, Conns
  <2>5. CASE Shares(r)
    <3>1. st' = [st EXCEPT ![r] = "ready"]
      BY <1>8, <2>5 DEF PollHandshake
    <3>2. Shared' = Shared \cup {r}
      BY <1>0, <2>2, <2>5, <3>1 DEF Shared, Shares, Conns, ConnTypes
    <3>3. InPool' \in {InPool, InPool \cup {r}}
      BY <2>3, <2>4 DEF Conns
    <3> QED
      BY <2>2, <3>1, <3>2, <3>3 DEF Lent!Next, Lent!OpenShared, Lent!Answer
  <2>6. CASE ~Shares(r)
    <3>1. st' = [st EXCEPT ![r] = "busy"]
      BY <1>8, <2>6 DEF PollHandshake
    <3>2. Shared' = Shared
      BY <1>0, <2>2, <2>6, <3>1 DEF Shared, Shares, Conns, ConnTypes
    <3>3. InPool' = InPool
      BY <2>1, <2>3, <2>4, <2>6
    <3> QED
      BY <2>2, <3>1, <3>2, <3>3 DEF Lent!Next, Lent!OpenExclusive, Lent!Answer
  <2> QED
    BY <2>5, <2>6
<1>9. ASSUME NEW r \in Reqs, PollConnected(r) PROVE [Lent!Next]_Lent!vars
  <2>1. PICK b \in BOOLEAN, p \in {"push", "drop"} :
          /\ own' = [own EXCEPT ![r] = [conn |-> raw[r], reused |-> b]]
          /\ pc' = [pc EXCEPT ![r] = p]
          /\ b => Shares(raw[r]) /\ LockFree /\ lock'.conn = raw[r]
          /\ ~b => lock' = lock
          /\ UNCHANGED idle
    <3>1. Connected(r, raw[r], Shares(raw[r]))
      BY <1>9 DEF PollConnected
    <3>2. Shares(raw[r]) \in BOOLEAN
      BY DEF Shares
    <3> QED
      BY <3>1, <3>2, ConnectedTakes
  <2>2. PICK c \in Conns : c = raw[r]
    BY <1>0, <1>9 DEF PollConnected, InHand, RequestTypes
  <2>3. /\ r \in Asking /\ Asking' = Asking \ {r} /\ UNCHANGED <<key, kind, st>>
        /\ Holding' = [Holding EXCEPT ![r] = c]
        /\ raw' = [raw EXCEPT ![r] = NONE] /\ UNCHANGED box
    BY <1>0, <1>9, <2>1, <2>2
       DEF PollConnected, Asking, Holding, RequestTypes
  <2>4. \A d \in Conns : d # c => (Custody(d)' <=> Custody(d))
    BY <1>0, <1>c, <2>1, <2>2, <2>3
       DEF Custody, LockFree, Sent, LockQuiet, Conns, RequestTypes
  <2>5. ASSUME Custody(c)', c \notin Shared PROVE FALSE
    <3>1. Lease(c) /\ kind[c] # "h2" /\ ~b
      BY <1>0, <2>1, <2>2, <2>5 DEF Lease, Unopened, Shared, Shares
    <3>2. \A s \in Reqs : box[s].conn = c => Owns(box[s], c)
      BY <1>0, <3>1 DEF Lease, ClonesShare, Clones, Owns, RequestTypes, Pooled
    <3>3. ~InIdle(c)' /\ lock'.conn # c
      BY <1>c, <2>1, <2>2, <3>1 DEF Lease, Single
    <3>4. \A s \in Reqs : raw'[s] # c /\ box'[s].conn # c
      BY <1>0, <2>2, <2>3, <3>1, <3>2 DEF Lease, Single, RequestTypes, Conns
    <3> QED
      BY <2>5, <3>3, <3>4 DEF Custody
  <2> QED
    BY <2>2, <2>3, <2>4, <2>5, LendsToAsker
<1>10. ASSUME NEW r \in Reqs, CancelCheckout(r) PROVE [Lent!Next]_Lent!vars
  <2>1. /\ r \in Asking /\ Asking' = Asking \ {r} /\ UNCHANGED <<key, kind, st>>
        /\ UNCHANGED <<lock, raw, box, idle>>
    BY <1>0, <1>10 DEF CancelCheckout, Resolve, Asking, RequestTypes
  <2>2. UNCHANGED Holding
    BY <1>0, <1>10 DEF CancelCheckout, Resolve, Nothing, Holding, Hands,
       RequestTypes
  <2>3. \A c \in Conns : Custody(c)' <=> Custody(c)
    BY <1>c, <2>1 DEF Custody
  <2> QED
    BY <1>a, <2>1, <2>2, <2>3, Refuses
<1>11. ASSUME NEW r \in Reqs, DropCheckout(r) PROVE [Lent!Next]_Lent!vars
  <2>1. UNCHANGED <<key, st, Shared, Holding, Asking>>
    BY <1>0, <1>a, <1>b, <1>11 DEF Asking, RequestTypes, DropCheckout
  <2>2. \A c \in Conns : Custody(c)' => Custody(c)
    BY <1>0, <1>c, <1>11 DEF Custody, RequestTypes, Conns, DropCheckout
  <2> QED
    BY <2>1, <2>2, Discards
<1>12. ASSUME NEW r \in Reqs, DropFields(r) PROVE [Lent!Next]_Lent!vars
  <2>1. UNCHANGED <<key, st, Shared, Holding, Asking>>
    BY <1>0, <1>a, <1>b, <1>12 DEF Asking, RequestTypes, DropFields, GivesBack,
       Onward, Nothing
  <2>2. \A c \in Conns : Custody(c)' => Custody(c)
    BY <1>0, <1>c, <1>12 DEF Custody, RequestTypes, Conns, DropFields,
       GivesBack, Onward, Nothing
  <2> QED
    BY <2>1, <2>2, Discards
<1>13. ASSUME NEW r \in Reqs, ReturnToPool(r) PROVE [Lent!Next]_Lent!vars
  <2>1. UNCHANGED <<key, st, Shared, Holding, Asking>>
    BY <1>0, <1>a, <1>b, <1>13 DEF Asking, RequestTypes, ReturnToPool,
       BeginPush, Walk, Onward
  <2>2. \A c \in Conns : Custody(c)' => Custody(c)
    BY <1>0, <1>c, <1>13 DEF Custody, RequestTypes, Conns, ReturnToPool,
       BeginPush, Walk, Onward
  <2> QED
    BY <2>1, <2>2, Discards
<1>14. ASSUME NEW r \in Reqs, PushNext(r) PROVE [Lent!Next]_Lent!vars
  <2>1. UNCHANGED <<key, st, Shared, Holding, Asking>>
    BY <1>0, <1>a, <1>b, <1>14 DEF Asking, RequestTypes, PushNext, Send
  <2>2. \A c \in Conns : Custody(c)' => Custody(c)
    BY <1>0, <1>c, <1>14 DEF Custody, RequestTypes, Conns, PushNext, Send
  <2> QED
    BY <2>1, <2>2, Discards
<1>15. ASSUME NEW r \in Reqs, PushSend(r) PROVE [Lent!Next]_Lent!vars
  <2>1. /\ lock.to \in Reqs /\ lock.conn \in Conns /\ pc[r] \in {"push", "stuck"}
        /\ lock'.conn \in {lock.conn, NONE}
        /\ \A s \in Reqs : s # lock.to => box'[s] = box[s]
        /\ box'[lock.to].conn = lock.conn
        /\ UNCHANGED <<key, kind, st, idle, raw, own>>
    BY <1>0, <1>15 DEF PushSend, InHand, WalkOn, Walk, EndPush, Free,
       RequestTypes
  <2>2. UNCHANGED Asking
    BY <1>0, <1>15, <2>1
       DEF Asking, PushSend, WalkOn, EndPush, AfterPush, Onward, RequestTypes
  <2>3. \A c \in Conns : Custody(c)' => Custody(c)
    BY <1>0, <1>c, <2>1 DEF Custody, Conns
  <2> QED
    BY <1>a, <1>b, <2>1, <2>2, <2>3, Discards
<1>16. ASSUME NEW r \in Reqs, PushSendFails(r) PROVE [Lent!Next]_Lent!vars
  <2>1. pc[r] \in {"push", "stuck"}
    BY <1>0, <1>16 DEF PushSendFails, InHand
  <2>2. UNCHANGED <<key, st, Shared, Holding, Asking>>
    BY <1>0, <1>a, <1>b, <1>16, <2>1
       DEF Asking, RequestTypes, PushSendFails, WalkOn, EndPush, AfterPush, Onward
  <2>3. \A c \in Conns : Custody(c)' => Custody(c)
    BY <1>0, <1>c, <1>16
       DEF Custody, Conns, PushSendFails, WalkOn, Walk, Stuck, EndPush, Free
  <2> QED
    BY <2>2, <2>3, Discards
<1>17. ASSUME NEW r \in Reqs, PushIdle(r) PROVE [Lent!Next]_Lent!vars
  <2>1. /\ lock.conn \in Conns /\ key[r] \in Keys /\ pc[r] \in {"push", "stuck"}
        /\ ~InIdle(lock.conn)
    BY <1>0, <1>17 DEF PushIdle, InHand, RequestTypes, Lease, Single
  <2>2. UNCHANGED <<key, st, Shared, Holding, Asking>>
    BY <1>0, <1>a, <1>b, <1>17, <2>1
       DEF Asking, RequestTypes, PushIdle, EndPush, AfterPush, Onward
  <2>3. \A c \in Conns : InIdle(c)' <=> InIdle(c) \/ c = lock.conn
    BY <1>0, <1>17, <2>1, PushIdleMoves DEF PushIdle
  <2>4. \A c \in Conns : Custody(c)' => Custody(c)
    BY <1>0, <1>17, <2>3 DEF Custody, Conns, PushIdle, EndPush, Free
  <2> QED
    BY <2>2, <2>4, Discards
<1>18. ASSUME NEW r \in Reqs, RefuseRequest(r) PROVE [Lent!Next]_Lent!vars
  BY <1>18, Returns DEF RefuseRequest
<1>19. ASSUME NEW r \in Reqs, SendRequest(r) PROVE [Lent!Next]_Lent!vars
  <2> DEFINE c == own[r].conn
  <2>1. /\ UNCHANGED <<key, kind, raw, box, lock, idle, Holding, Asking>>
        /\ c \in Conns \cup {NONE} /\ Holding[r] = c
    BY <1>0, <1>b, <1>19
       DEF SendRequest, Holding, Asking, RequestTypes, Pooled
  <2>2. \A d \in Conns : Custody(d)' <=> Custody(d)
    BY <1>c, <2>1 DEF Custody
  <2>3. CASE c \in Conns /\ kind[c] = "h1" /\ st[c] = "ready"
    <3>1. st' = [st EXCEPT ![c] = "busy"]
      BY <1>0, <1>19, <2>3 DEF SendRequest
    <3>2. c \notin Shared /\ Shared' = Shared
      BY <1>0, <2>1, <2>3, <3>1 DEF Shared, ConnTypes
    <3>3. InPool' = InPool
      BY <2>2 DEF PoolIsCustody, Conns
    <3> QED
      BY <1>0, <2>1, <2>3, <3>1, <3>2, <3>3
         DEF Lent!Next, Lent!Use, Lent!Becomes, Conns
  <2>4. CASE ~(c \in Conns /\ kind[c] = "h1" /\ st[c] = "ready")
    <3>1. st' = st
      BY <1>0, <1>19, <2>1, <2>4 DEF SendRequest, ConnTypes, Conns
    <3> QED
      BY <1>a, <2>1, <2>2, <3>1, Discards
  <2> QED
    BY <2>3, <2>4
<1>20. ASSUME NEW r \in Reqs, Respond(r) PROVE [Lent!Next]_Lent!vars
  <2>1. CASE Shares(own[r].conn)
    BY <1>20, <2>1, Returns DEF Respond
  <2>2. CASE ~Shares(own[r].conn)
    <3>1. UNCHANGED <<key, st, Shared, Holding, Asking, lock, raw, box, idle>>
      BY <1>0, <1>a, <1>b, <1>20, <2>2 DEF Asking, RequestTypes, Respond
    <3>2. \A c \in Conns : Custody(c)' => Custody(c)
      BY <1>c, <3>1 DEF Custody
    <3> QED
      BY <3>1, <3>2, Discards
  <2> QED
    BY <2>1, <2>2
<1>21. ASSUME NEW r \in Reqs, SendFails(r) PROVE [Lent!Next]_Lent!vars
  BY <1>21, Returns DEF SendFails
<1>22. ASSUME NEW r \in Reqs, CancelRequest(r) PROVE [Lent!Next]_Lent!vars
  BY <1>22, Returns DEF CancelRequest
<1>23. ASSUME NEW r \in Reqs, WhenReady(r) PROVE [Lent!Next]_Lent!vars
  BY <1>23, Returns DEF WhenReady
<1>24. ASSUME NEW c \in Conns, ConnReady(c) PROVE [Lent!Next]_Lent!vars
  <2>1. /\ UNCHANGED <<key, kind, raw, box, lock, idle, Holding, Asking>>
        /\ st[c] = "busy" /\ st' = [st EXCEPT ![c] = "ready"]
    BY <1>b, <1>24 DEF ConnReady, Asking
  <2>2. \A d \in Conns : Custody(d)' <=> Custody(d)
    BY <1>c, <2>1 DEF Custody
  <2>3. InPool' = InPool
    BY <2>2 DEF PoolIsCustody, Conns
  <2>4. UNCHANGED Shared
    BY <1>0, <2>1 DEF Shared, ConnTypes
  <2>5. \A s \in Reqs : box[s].conn = c => Owns(box[s], c) \/ Clones(box[s], c)
    BY DEF Owns, Clones
  <2>6. ~Custody(c)
    BY <1>0, <2>1, <2>5 DEF Custody, Lease, BusyInUse, ClonesShare
  <2>7. PICK r \in Reqs : own[r].conn = c
    <3>1. c \notin InPool
      BY <2>6 DEF PoolIsCustody, Conns
    <3> QED
      BY <1>24, <3>1 DEF ConnReady, Referenced, InPool
  <2>8. Holding[r] = c /\ c # NONE /\ c \notin InPool
    BY <1>0, <2>6, <2>7 DEF Holding, PoolIsCustody, Conns
  <2> QED
    BY <2>1, <2>3, <2>4, <2>8 DEF Lent!Next, Lent!Finish, Lent!Becomes
<1>25. ASSUME NEW c \in Conns, ConnCloses(c) PROVE [Lent!Next]_Lent!vars
  <2>1. /\ UNCHANGED <<key, kind, raw, box, lock, idle, Holding, Asking>>
        /\ st[c] \in {"busy", "ready"} /\ st' = [st EXCEPT ![c] = "closed"]
    BY <1>b, <1>25 DEF ConnCloses, Asking
  <2>2. \A d \in Conns : Custody(d)' <=> Custody(d)
    BY <1>c, <2>1 DEF Custody
  <2>3. InPool' = InPool
    BY <2>2 DEF PoolIsCustody, Conns
  <2>4. UNCHANGED Shared
    BY <1>0, <2>1 DEF Shared, ConnTypes
  <2>5. c \in InPool \/ \E r \in Reqs : Holding[r] = c
    BY <1>25 DEF ConnCloses, Referenced, InPool, Holding
  <2> QED
    BY <2>1, <2>3, <2>4, <2>5 DEF Lent!Next, Lent!Close, Lent!Becomes, Conns
<1>26. ASSUME NEW k \in Keys, Expire(k) PROVE [Lent!Next]_Lent!vars
  <2>1. UNCHANGED <<key, st, Shared, Holding, Asking, lock, raw, box, idle>>
    BY <1>a, <1>b, <1>26 DEF Expire, Asking
  <2>2. \A c \in Conns : Custody(c)' => Custody(c)
    BY <1>c, <2>1 DEF Custody
  <2> QED
    BY <2>1, <2>2, Discards
<1>27. ASSUME DropPool PROVE [Lent!Next]_Lent!vars
  <2>1. UNCHANGED <<key, st, Shared, Holding, Asking, lock, raw, box>>
    BY <1>a, <1>b, <1>27 DEF DropPool, Asking
  <2>2. \A c \in Conns : ~InIdle(c)'
    BY <1>27, EmptySeq DEF DropPool, InIdle
  <2>3. \A c \in Conns : Custody(c)' => Custody(c)
    BY <2>1, <2>2 DEF Custody
  <2> QED
    BY <2>1, <2>3, Discards
<1>28. CASE UNCHANGED vars
  <2>1. UNCHANGED <<key, st, Shared, Holding, Asking, lock, raw, box, idle>>
    BY <1>a, <1>b, <1>28 DEF vars, Asking
  <2>2. \A c \in Conns : Custody(c)' => Custody(c)
    BY <1>c, <2>1 DEF Custody
  <2> QED
    BY <2>1, <2>2, Discards
<1> QED
  BY <1>1, <1>2, <1>3, <1>4, <1>5, <1>6, <1>7, <1>8, <1>9, <1>10, <1>11, <1>12,
     <1>13, <1>14, <1>15, <1>16, <1>17, <1>18, <1>19, <1>20, <1>21, <1>22,
     <1>23, <1>24, <1>25, <1>26, <1>27, <1>28 DEF Next

(* The pool implements Lending, along every order of checkouts,            *)
(* deliveries, cancellations and drops, for any number of requests and     *)
(* hosts (mod.rs:81-193, 307-320, checkout.rs:232-359).                    *)
THEOREM PoolLends == Spec => Lends
<1>1. PoolInv => PoolIsCustody
  BY InPoolIsCustody DEF PoolInv
<1>2. Init => Lent!Init
  <2> SUFFICES ASSUME Init PROVE Lent!Init
    OBVIOUS
  <2>1. \A k \in Keys : Range(idle[k]) = {}
    BY EmptySeq DEF Init, Range
  <2>2. \A r \in Reqs : raw[r] = NONE /\ box[r].conn = NONE /\ own[r].conn = NONE
    BY DEF Init, Nothing
  <2>3. InPool = {}
    BY <2>1, <2>2, PoolAssumption DEF Init, InPool, Free, Conns
  <2>4. Shared = {} /\ Holding = [r \in Reqs |-> NONE] /\ Asking = Reqs
    BY <2>2 DEF Init, Shared, Holding, Asking, Conns
  <2> QED
    BY <2>3, <2>4 DEF Init, Lent!Init, Conns
<1>3. PoolInv /\ PoolIsCustody /\ PoolIsCustody' /\ [Next]_vars
        => [Lent!Next]_Lent!vars
  BY LendStep
<1> QED
  BY <1>1, <1>2, <1>3, PoolInvHolds, PTL DEF Spec, Lends, Lent!Spec
-----------------------------------------------------------------------------
(* A pool whose last handle is gone keeps nothing: nobody holds its mutex, *)
(* it has no mark, no sender and no connection, and no receiver is open.   *)
GoneIsEmpty ==
  ~alive =>
    /\ LockFree
    /\ connecting = {}
    /\ \A k \in Keys : waiting[k] = <<>> /\ idle[k] = <<>>
    /\ \A r \in Reqs : rx[r] # "open"

LEMMA GoneStep == TypeOK /\ GoneIsEmpty /\ [Next]_vars => GoneIsEmpty'
<1> SUFFICES ASSUME TypeOK, GoneIsEmpty, [Next]_vars, ~alive' PROVE GoneIsEmpty'
  BY DEF GoneIsEmpty
<1> USE DEF GoneIsEmpty, LockFree
<1>1. CASE DropPool
  <2>1. rx \in [Reqs -> {"none", "open", "full", "hungup", "dead"}]
    BY DEF TypeOK, RequestTypes
  <2> QED
    BY <1>1, <2>1 DEF DropPool
<1>2. CASE ~DropPool
  <2>1. ~alive
    BY <1>2 DEF Next, vars, poolVars, StartCheckout, CheckoutIdle, CheckoutWait,
       CheckoutConnect, PollDelivered, PollUnavailable, PollTransport, PollFails,
       PollHandshake, PollConnected, Connected, BeginPush, CancelCheckout,
       DropCheckout, DropFields, ReturnToPool, PushNext, PushSend, PushSendFails,
       PushIdle, RefuseRequest, SendRequest, Respond, SendFails, CancelRequest,
       WhenReady, ConnReady, ConnCloses, Expire
  <2>2. connecting = {} /\ lock.at = "free"
    BY <2>1
  <2>3. ASSUME NEW r \in Reqs,
               \/ CheckoutIdle(r) \/ CheckoutWait(r) \/ CheckoutConnect(r)
               \/ PushNext(r) \/ PushSend(r) \/ PushSendFails(r) \/ PushIdle(r)
        PROVE  FALSE
    BY <2>1, <2>2, <2>3 DEF CheckoutIdle, CheckoutWait, CheckoutConnect,
       StartCheckout, PushNext, PushSend, PushSendFails, PushIdle
  <2>4. ASSUME NEW r \in Reqs, \/ PollDelivered(r) \/ DropFields(r)
        PROVE  GoneIsEmpty'
    <3>1. rx' \in [Reqs -> {"none", "full", "hungup", "dead"}]
      BY <2>1, <2>4 DEF TypeOK, RequestTypes, PollDelivered, DropFields
    <3> QED
      BY <2>1, <2>4, <3>1 DEF PollDelivered, DropFields, poolVars
  <2>5. ASSUME NEW r \in Reqs,
               \/ PollTransport(r) \/ PollHandshake(r) \/ PollConnected(r)
               \/ DropCheckout(r) \/ ReturnToPool(r)
        PROVE  GoneIsEmpty'
    BY <2>1, <2>5 DEF PollTransport, PollHandshake, PollConnected, Connected,
       DropCheckout, ReturnToPool, poolVars
  <2>6. ASSUME \/ UNCHANGED <<poolVars, rx>>
               \/ \E k \in Keys : Expire(k)
        PROVE  GoneIsEmpty'
    BY <2>1, <2>6 DEF Expire, poolVars
  <2> QED
    BY <1>2, <2>3, <2>4, <2>5, <2>6 DEF Next, vars, PollUnavailable, PollFails,
       CancelCheckout, RefuseRequest, SendRequest, Respond, SendFails,
       CancelRequest, WhenReady, ConnReady, ConnCloses
<1> QED
  BY <1>1, <1>2

(* A request does not wait on a pool that is gone: whoever is waiting when *)
(* the last handle goes is hung up on, nobody starts to wait afterwards,   *)
(* and nothing is put where nobody will look for it (weakopt.rs:19-27,     *)
(* mod.rs:310-314, checkout.rs:281-286).  That the hung-up requests also   *)
(* end is the rest of NobodyOutlivesThePool.                               *)
THEOREM NothingInAGonePool == Spec => []GoneIsEmpty
<1>1. Init => GoneIsEmpty
  BY DEF Init, GoneIsEmpty
<1> QED
  BY <1>1, GoneStep, TypeCorrect, PTL DEF Spec

(* Once push() has locked its own thread out the pool is lost for good: it *)
(* keeps its connections, its senders and its marks as they are, its lock  *)
(* is never free again, and its handle cannot be dropped (mod.rs:156-193,  *)
(* 307-320).                                                               *)
Lockout ==
  [][lock.at = "stuck" => UNCHANGED <<alive, connecting, waiting, idle, lock>>]_vars

THEOREM LockoutIsForGood == Spec => Lockout
<1>1. ASSUME GoneIsEmpty, [Next]_vars, lock.at = "stuck"
      PROVE  UNCHANGED <<alive, connecting, waiting, idle, lock>>
  <2>1. alive /\ ~LockFree
    BY <1>1 DEF GoneIsEmpty, LockFree
  <2>2. ASSUME NEW r \in Reqs, PollTransport(r)
        PROVE  UNCHANGED <<alive, connecting, waiting, idle, lock>>
    BY <2>1, <2>2 DEF PollTransport
  <2> QED
    BY <1>1, <2>1, <2>2 DEF Next, vars, poolVars, StartCheckout, CheckoutIdle,
       CheckoutWait, CheckoutConnect, PollDelivered, PollUnavailable, PollFails,
       PollHandshake, PollConnected, Connected, BeginPush, CancelCheckout,
       DropCheckout, DropFields, ReturnToPool, PushNext, PushSend,
       PushSendFails, PushIdle, RefuseRequest, SendRequest, Respond, SendFails,
       CancelRequest, WhenReady, ConnReady, ConnCloses, Expire, DropPool
<1>2. GoneIsEmpty /\ [Next]_vars
        => [lock.at = "stuck"
              => UNCHANGED <<alive, connecting, waiting, idle, lock>>]_vars
  BY <1>1
<1> QED
  BY <1>2, NothingInAGonePool, PTL DEF Spec, Lockout
-----------------------------------------------------------------------------
(* A connection that is open, or has been, and that neither the pool nor a *)
(* request has.                                                            *)
LetGo(c) ==
  /\ st[c] # "none"
  /\ c \notin InPool
  /\ \A r \in Reqs : own[r].conn # c

(* What Lending promises of such a connection the pool keeps: no idle list,*)
(* channel, guard or push() has it again, so a connection that closed under*)
(* a request, expired, or was lost with a Checkout is never handed out     *)
(* (mod.rs:156-193, 307-320, idle.rs:38-79).                               *)
GoneForGood == [][\A c \in Conns : LetGo(c) => LetGo(c)']_vars

THEOREM WhatIsGoneStaysGone == Spec => GoneForGood
<1>1. ASSUME TypeOK, [Lent!Next]_Lent!vars, NEW c \in Conns, LetGo(c)
      PROVE  LetGo(c)'
  <2> DEFINE Gone(states, pool, holds) ==
        /\ states[c] # "none" /\ c \notin pool
        /\ \A r \in Reqs : holds[r] # c
  <2>1. /\ \A r \in Reqs : Holding[r] = own[r].conn /\ Holding'[r] = own'[r].conn
        /\ DOMAIN Holding = Reqs
        /\ Conns = Reqs /\ NONE \notin Conns
        /\ st \in [Conns -> {"none", "busy", "ready", "closed"}]
    BY <1>1, PoolAssumption DEF Holding, Conns, TypeOK, ConnTypes
  <2>2. Gone(st, InPool, Holding)
    BY <1>1, <2>1 DEF LetGo
  <2>3. ASSUME Gone(st', InPool', Holding') PROVE LetGo(c)'
    BY <2>1, <2>3 DEF LetGo
  <2> HIDE DEF Gone
  <2>4. CASE Lent!Discard \/ UNCHANGED Lent!vars
    BY <2>2, <2>3, <2>4 DEF Gone, Lent!Discard, Lent!vars
  <2>5. ASSUME NEW r \in Reqs,
               Lent!Refuse(r) \/ Lent!Use(r) \/ Lent!Finish(r) \/ Lent!Close(r)
        PROVE  Gone(st', InPool', Holding')
    BY <2>1, <2>2, <2>5 DEF Gone, Lent!Refuse, Lent!Use, Lent!Finish, Lent!Close,
       Lent!Becomes
  <2>6. ASSUME NEW r \in Reqs, Lent!OpenExclusive(r) \/ Lent!OpenShared(r)
        PROVE  Gone(st', InPool', Holding')
    BY <2>1, <2>2, <2>6 DEF Gone, Lent!OpenExclusive, Lent!OpenShared, Lent!Answer
  <2>7. ASSUME NEW r \in Reqs, NEW d \in Reqs, Lent!Lend(r, d)
        PROVE  Gone(st', InPool', Holding')
    BY <2>1, <2>2, <2>7 DEF Gone, Lent!Lend, Lent!Answer
  <2>8. ASSUME NEW r \in Reqs, Lent!Return(r)
        PROVE  Gone(st', InPool', Holding')
    BY <2>1, <2>2, <2>8 DEF Gone, Lent!Return
  <2> QED
    BY <1>1, <2>3, <2>4, <2>5, <2>6, <2>7, <2>8 DEF Lent!Next
<1>2. TypeOK /\ [Lent!Next]_Lent!vars
        => [\A c \in Conns : LetGo(c) => LetGo(c)']_vars
  BY <1>1
<1> QED
  BY <1>2, TypeCorrect, PoolLends, PTL DEF Lends, Lent!Spec, GoneForGood
-----------------------------------------------------------------------------
(* How far the two defects of the pool reach.                              *)

(* Of HTTP/2 requests only: what is opened for them can be shared.         *)
AllShare ==
  \A c \in Conns :
    /\ kind[c] # "h1"
    /\ st[c] # "none" \/ inner[c] = "Handshaking" => Shares(c)

LEMMA AllShareStep ==
  ASSUME Versions \subseteq {"http2"}, TypeOK, InHand, Hands, AllShare, [Next]_vars
  PROVE  AllShare'
<1> USE DEF AllShare, Shares, Conns, TypeOK, RequestTypes, ConnTypes, connVars
<1>1. ASSUME NEW r \in Reqs, PollTransport(r) PROVE AllShare'
  <2>1. Multiplex(r)
    BY DEF Multiplex
  <2> QED
    BY <1>1, <2>1 DEF PollTransport
<1>2. ASSUME NEW r \in Reqs, PollHandshake(r) PROVE AllShare'
  BY <1>2 DEF PollHandshake
<1>3. ASSUME NEW r \in Reqs, SendRequest(r) PROVE AllShare'
  BY <1>3 DEF SendRequest
<1>4. ASSUME NEW c \in Conns, ConnReady(c) \/ ConnCloses(c) PROVE AllShare'
  BY <1>4 DEF ConnReady, ConnCloses
<1>5. ASSUME NEW r \in Reqs,
             \/ CheckoutIdle(r) \/ CheckoutWait(r) \/ CheckoutConnect(r)
             \/ DropFields(r)
      PROVE  AllShare'
  BY <1>5 DEF CheckoutIdle, CheckoutWait, CheckoutConnect, StartCheckout, DropFields
<1>6. ASSUME UNCHANGED <<inner, kind, st>> PROVE AllShare'
  BY <1>6
<1> QED
  BY <1>1, <1>2, <1>3, <1>4, <1>5, <1>6 DEF Next, vars, PollDelivered,
     PollUnavailable, PollFails, PollConnected, CancelCheckout, DropCheckout,
     ReturnToPool, PushNext, PushSend, PushSendFails, PushIdle, RefuseRequest,
     Respond, SendFails, CancelRequest, WhenReady, Expire, DropPool

(* Only an HTTP/1 connection locks a thread out: a clone that send() hands *)
(* back is dropped without the mutex (mod.rs:174-190, 310).                *)
THEOREM Http2NeverStuck ==
  ASSUME Versions \subseteq {"http2"}
  PROVE  Spec => []LockNeverStuck
<1> DEFINE Inv == AllShare /\ LockNeverStuck
<1>1. Init => Inv
  BY DEF Init, AllShare, LockNeverStuck, Free, Conns
<1>2. ASSUME PoolInv, Inv, [Next]_vars PROVE Inv'
  <2>1. AllShare'
    BY <1>2, AllShareStep DEF PoolInv
  <2>2. ASSUME NEW r \in Reqs, PushSendFails(r) PROVE LockNeverStuck'
    <3>1. lock.conn \in Conns /\ st[lock.conn] # "none"
      BY <1>2, <2>2, PoolAssumption
         DEF PushSendFails, PoolInv, InHand, Leases, Lease, Unopened, Conns
    <3>2. Shares(lock.conn)
      BY <1>2, <3>1 DEF AllShare
    <3> QED
      BY <2>2, <3>2 DEF PushSendFails, WalkOn, Walk, LockNeverStuck
  <2>3. ASSUME NEW r \in Reqs,
               \/ PollHandshake(r) \/ PollConnected(r) \/ ReturnToPool(r)
               \/ PushNext(r) \/ PushSend(r) \/ PushIdle(r)
        PROVE  LockNeverStuck'
    BY <1>2, <2>3 DEF PollHandshake, PollConnected, Connected, ReturnToPool,
       BeginPush, PushNext, PushSend, PushIdle, WalkOn, EndPush, Walk, Send,
       Free, LockNeverStuck, poolVars
  <2>4. ASSUME UNCHANGED lock PROVE LockNeverStuck'
    BY <1>2, <2>4 DEF LockNeverStuck
  <2> QED
    BY <1>2, <2>1, <2>2, <2>3, <2>4 DEF Next, vars, poolVars, StartCheckout,
       CheckoutIdle, CheckoutWait, CheckoutConnect, PollDelivered,
       PollUnavailable, PollTransport, PollFails, CancelCheckout, DropCheckout,
       DropFields, RefuseRequest, SendRequest, Respond, SendFails,
       CancelRequest, WhenReady, ConnReady, ConnCloses, Expire, DropPool
<1>3. Inv => LockNeverStuck
  OBVIOUS
<1> HIDE DEF Inv
<1> QED
  BY <1>1, <1>2, <1>3, PoolInvHolds, PTL DEF Spec

(* Only where HTTP/2 is spoken is a host marked as connecting, and so only *)
(* there can a request be left to wait for another one's connection        *)
(* (mod.rs:103-106, checkout.rs:281-286).                                  *)
NobodyIsHeldBack == connecting = {} /\ \A r \in Reqs : inner[r] # "Waiting"

THEOREM Http1NeverWaits ==
  ASSUME Versions \subseteq {"http1"}, Alpn \subseteq {FALSE}
  PROVE  Spec => []NobodyIsHeldBack
<1>1. Init => NobodyIsHeldBack
  BY DEF Init, NobodyIsHeldBack
<1>2. ASSUME TypeOK, NobodyIsHeldBack, [Next]_vars PROVE NobodyIsHeldBack'
  <2> USE <1>2 DEF NobodyIsHeldBack, TypeOK, RequestTypes
  <2>1. ASSUME NEW r \in Reqs, CheckoutConnect(r) PROVE NobodyIsHeldBack'
    BY <2>1 DEF CheckoutConnect, Multiplex
  <2>2. ASSUME NEW r \in Reqs,
               CheckoutIdle(r) \/ PollTransport(r) \/ DropFields(r)
        PROVE  NobodyIsHeldBack'
    BY <2>2 DEF CheckoutIdle, PollTransport, DropFields, poolVars
  <2>3. ASSUME UNCHANGED inner, connecting' \subseteq connecting
        PROVE  NobodyIsHeldBack'
    BY <2>3
  <2> QED
    BY <2>1, <2>2, <2>3 DEF Next, vars, poolVars, CheckoutWait, PollDelivered,
       PollUnavailable, PollFails, PollHandshake, PollConnected, Connected,
       BeginPush, CancelCheckout, DropCheckout, ReturnToPool, PushNext, PushSend,
       PushSendFails, PushIdle, RefuseRequest, SendRequest, Respond, SendFails,
       CancelRequest, WhenReady, ConnReady, ConnCloses, Expire, DropPool
<1> QED
  BY <1>1, <1>2, TypeCorrect, PTL DEF Spec

(* So there the promise the pool breaks in general is kept.                *)
THEOREM Http1NeverStranded ==
  ASSUME Versions \subseteq {"http1"}, Alpn \subseteq {FALSE}
  PROVE  Spec => WaiterNotStranded
<1>1. ASSUME NEW r \in Reqs
      PROVE  Spec => (inner[r] = "Waiting" ~> pc[r] # "checkout")
  <2>1. NobodyIsHeldBack => ~(inner[r] = "Waiting")
    BY DEF NobodyIsHeldBack
  <2>2. Spec => []NobodyIsHeldBack
    BY Http1NeverWaits
  <2> QED
    BY <2>1, <2>2, PTL
<1> QED
  BY <1>1 DEF WaiterNotStranded
=============================================================================
