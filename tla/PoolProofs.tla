----------------------------- MODULE PoolProofs -----------------------------
(***************************************************************************)
(* Proofs about the connection pool, for every set of requests and keys.   *)
(***************************************************************************)
EXTENDS PoolProps, WellFoundedInduction, SequenceTheorems, TLAPS

(* Whoever is about to give a connection away has one: push() runs with a  *)
(* connection, for a request that is in it, and a Checkout or Pooled::drop *)
(* that will take() its connection still holds it (checkout.rs:263-267).   *)
InHand ==
  /\ lock.at # "free" => /\ lock.by \in Reqs
                         /\ lock.conn \in Conns
                         /\ pc[lock.by] \in {"push", "stuck"}
  /\ lock.at = "send" => lock.to \in Reqs
  /\ \A r \in Reqs :
       pc[r] = "return" \/ (pc[r] = "checkout" /\ inner[r] = "Connected")
         => raw[r] # NONE

(* The newest usable idle entry exists whenever there is a usable one: Max *)
(* of a non-empty set of positions is one of them, and none is later.      *)
LEMMA MaxInBounds ==
  ASSUME NEW n \in Nat, NEW S \in SUBSET (1..n), S # {}
  PROVE  /\ Max(S) \in S
         /\ \A i \in S : i <= Max(S)
<1> DEFINE T == {n - i : i \in S}
<1>1. T \subseteq Nat
  <2> SUFFICES ASSUME NEW i \in S PROVE n - i \in Nat
    OBVIOUS
  <2>1. i \in 1..n
    OBVIOUS
  <2> QED
    BY <2>1
<1>2. T # {}
  <2>1. PICK i \in S : TRUE
    OBVIOUS
  <2>2. n - i \in T
    OBVIOUS
  <2> QED
    BY <2>2
<1>3. PICK m \in T : \A t \in T : m <= t
  <2> DEFINE R == OpToRel(<, Nat)
  <2> HIDE DEF T
  <2>1. PICK m \in T : \A t \in T : ~(<<t, m>> \in R)
    <3> HIDE DEF R
    <3>1. IsWellFoundedOn(R, Nat)
      BY NatLessThanWellFounded DEF R
    <3> QED
      BY <1>1, <1>2, <3>1, WFMin
  <2>2. ASSUME NEW t \in T PROVE m <= t
    <3>1. ~(t < m)
      BY <1>1, <2>1 DEF OpToRel
    <3> QED
      BY <1>1, <3>1
  <2> QED
    BY <2>2
<1>4. PICK x \in S : m = n - x
  OBVIOUS
<1>5. \A y \in S : x >= y
  <2> TAKE y \in S
  <2>1. n - y \in T
    OBVIOUS
  <2>2. n - x <= n - y
    BY <1>3, <1>4, <2>1
  <2>3. x \in 1..n /\ y \in 1..n
    OBVIOUS
  <2> QED
    BY <2>2, <2>3
<1>6. Max(S) \in S /\ \A y \in S : Max(S) >= y
  BY <1>5 DEF Max
<1> QED
  <2>1. ASSUME NEW i \in S PROVE i <= Max(S)
    <3>1. i \in 1..n /\ Max(S) \in 1..n
      BY <1>6
    <3> QED
      BY <1>6, <3>1
  <2> QED
    BY <1>6, <2>1
-----------------------------------------------------------------------------
(* What pop leaves in the idle list is a list of connections, at least as  *)
(* long as its expired part (idle.rs:38-79).                               *)
LEMMA PopIdleType ==
  ASSUME TypeOK, NEW k \in Keys
  PROVE  /\ Popped(k) \in Conns \cup {NONE}
         /\ Remaining(k) \in Seq(Conns)
         /\ Usable(k) # {} => /\ expired[k] <= Len(Remaining(k))
                              /\ Popped(k) = idle[k][Max(Usable(k))]
                              /\ Max(Usable(k)) \in 1..Len(idle[k])
<1>1. /\ idle[k] \in Seq(Conns) /\ Len(idle[k]) \in Nat
      /\ expired[k] \in Nat /\ expired[k] <= Len(idle[k])
  BY DEF TypeOK, PoolTypes
<1>2. CASE Usable(k) = {}
  BY <1>2 DEF Popped, Remaining
<1>3. CASE Usable(k) # {}
  <2> DEFINE m == Max(Usable(k))
  <2>1. Usable(k) \in SUBSET (1..Len(idle[k]))
    BY <1>1 DEF Usable
  <2>2. m \in Usable(k)
    BY <1>1, <1>3, <2>1, MaxInBounds
  <2>3. m \in (expired[k] + 1)..Len(idle[k])
    BY <2>2 DEF Usable
  <2> HIDE DEF m
  <2>4. /\ SubSeq(idle[k], 1, m - 1) \in Seq(Conns)
        /\ Len(SubSeq(idle[k], 1, m - 1)) = m - 1
    BY <1>1, <2>3, SubSeqProperties
  <2>5. idle[k][m] \in Conns
    BY <1>1, <2>3, ElementOfSeq
  <2> QED
    BY <1>1, <1>3, <2>3, <2>4, <2>5 DEF Popped, Remaining, m
<1> QED
  BY <1>2, <1>3
-----------------------------------------------------------------------------
(* push() holds the mutex with a connection in hand ...                    *)
LEMMA BeginPushType ==
  ASSUME PoolTypes, NEW r \in Reqs, NEW c \in Conns \cup {NONE}, BeginPush(r, c)
  PROVE  PoolTypes'
<1>1. Walk(r, c) \in Locks
  BY DEF Walk, Locks
<1> QED
  BY <1>1 DEF PoolTypes, BeginPush

(* ... and gives it up on its way back to the request.                     *)
LEMMA EndPushType ==
  ASSUME RequestTypes, NEW r \in Reqs, EndPush(r)
  PROVE  /\ lock' \in Locks
         /\ pc' \in [Reqs -> {"start", "checkout", "drop", "fields", "return",
                              "push", "stuck", "request", "sending",
                              "wait_ready", "done"}]
<1>1. Free \in Locks
  BY DEF Free, Locks
<1>2. AfterPush(r) \in {"drop", "request", "done"}
  BY DEF AfterPush, Onward
<1> QED
  BY <1>1, <1>2 DEF EndPush, RequestTypes

(* Walking on to the next waiter only moves the holder of the mutex.       *)
LEMMA WalkOnType ==
  ASSUME PoolTypes, NEW r \in Reqs, WalkOn(r)
  PROVE  lock' \in Locks
<1>1. lock.conn \in Conns \cup {NONE}
  BY DEF PoolTypes, Locks
<1> QED
  BY <1>1 DEF WalkOn, Walk, Locks

(* Every step of the pool keeps the types.                                 *)
LEMMA TypeStep == TypeOK /\ InHand /\ [Next]_vars => TypeOK'
<1> SUFFICES ASSUME TypeOK, InHand, [Next]_vars PROVE TypeOK'
  OBVIOUS
<1> USE DEF poolVars, reqVars, connVars
<1>0. PoolTypes /\ RequestTypes /\ ConnTypes
  BY DEF TypeOK
<1> USE <1>0
<1>1. ASSUME NEW r \in Reqs, CheckoutIdle(r) PROVE TypeOK'
  BY <1>1, PopIdleType DEF TypeOK, PoolTypes, RequestTypes, ConnTypes,
     CheckoutIdle, StartCheckout, PopIdle, LockFree
<1>2. ASSUME NEW r \in Reqs, CheckoutWait(r) PROVE TypeOK'
  BY <1>2, PopIdleType DEF TypeOK, PoolTypes, RequestTypes, ConnTypes,
     CheckoutWait, StartCheckout, PopIdle, JoinWaiters, LockFree
<1>3. ASSUME NEW r \in Reqs, CheckoutConnect(r) PROVE TypeOK'
  BY <1>3, PopIdleType DEF TypeOK, PoolTypes, RequestTypes, ConnTypes,
     CheckoutConnect, StartCheckout, PopIdle, JoinWaiters, LockFree
<1>4. ASSUME NEW r \in Reqs, PollDelivered(r) PROVE TypeOK'
  BY <1>4 DEF TypeOK, PoolTypes, RequestTypes, ConnTypes, PollDelivered,
     Resolve, Pooled, Nothing
<1>5. ASSUME NEW r \in Reqs, PollUnavailable(r) PROVE TypeOK'
  BY <1>5 DEF TypeOK, PoolTypes, RequestTypes, ConnTypes, PollUnavailable,
     Resolve, Pooled, Nothing
<1>6. ASSUME NEW r \in Reqs, PollTransport(r) PROVE TypeOK'
  BY <1>6 DEF TypeOK, PoolTypes, RequestTypes, ConnTypes, PollTransport
<1>7. ASSUME NEW r \in Reqs, PollFails(r) PROVE TypeOK'
  BY <1>7 DEF TypeOK, PoolTypes, RequestTypes, ConnTypes, PollFails, Resolve,
     Pooled, Nothing
<1>8. ASSUME NEW r \in Reqs, PollHandshake(r) PROVE TypeOK'
  <2>1. ConnTypes'
    BY <1>8 DEF ConnTypes, PollHandshake
  <2>2. PoolTypes'
    BY <1>8, BeginPushType DEF PoolTypes, PollHandshake, Connected, Conns
  <2>3. RequestTypes'
    <3>1. \E b \in BOOLEAN, p \in {"push", "drop"} :
            /\ pc' = [pc EXCEPT ![r] = p]
            /\ own' = [own EXCEPT ![r] = [conn |-> r, reused |-> b]]
      BY <1>8 DEF PollHandshake, Connected, Resolve
    <3>2. UNCHANGED <<reqVars, inner, rx, box, raw>>
      BY <1>8 DEF PollHandshake
    <3> QED
      BY <3>1, <3>2 DEF RequestTypes, Pooled, Conns
  <2> QED
    BY <2>1, <2>2, <2>3 DEF TypeOK
<1>9. ASSUME NEW r \in Reqs, PollConnected(r) PROVE TypeOK'
  <2> raw[r] \in Conns \cup {NONE}
    BY DEF RequestTypes
  <2>1. ConnTypes'
    BY <1>9 DEF ConnTypes, PollConnected
  <2>2. PoolTypes'
    BY <1>9, BeginPushType DEF PoolTypes, PollConnected, Connected
  <2>3. RequestTypes'
    <3>1. \E b \in BOOLEAN, p \in {"push", "drop"} :
            /\ pc' = [pc EXCEPT ![r] = p]
            /\ own' = [own EXCEPT ![r] = [conn |-> raw[r], reused |-> b]]
      BY <1>9 DEF PollConnected, Connected, Resolve
    <3>2. raw' = [raw EXCEPT ![r] = NONE] /\ UNCHANGED <<reqVars, inner, rx, box>>
      BY <1>9 DEF PollConnected
    <3> QED
      BY <3>1, <3>2 DEF RequestTypes, Pooled, Conns
  <2> QED
    BY <2>1, <2>2, <2>3 DEF TypeOK
<1>10. ASSUME NEW r \in Reqs, CancelCheckout(r) PROVE TypeOK'
  BY <1>10 DEF TypeOK, PoolTypes, RequestTypes, ConnTypes, CancelCheckout,
     Resolve, Pooled, Nothing
<1>11. ASSUME NEW r \in Reqs, DropCheckout(r) PROVE TypeOK'
  BY <1>11 DEF TypeOK, PoolTypes, RequestTypes, ConnTypes, DropCheckout
<1>12. ASSUME NEW r \in Reqs, DropFields(r) PROVE TypeOK'
  BY <1>12 DEF TypeOK, PoolTypes, RequestTypes, ConnTypes, DropFields,
     GivesBack, Onward, Pooled, Nothing
<1>13. ASSUME NEW r \in Reqs, ReturnToPool(r) PROVE TypeOK'
  <2> raw[r] \in Conns \cup {NONE}
    BY DEF RequestTypes
  <2>1. ConnTypes'
    BY <1>13 DEF ConnTypes, ReturnToPool
  <2>2. PoolTypes'
    BY <1>13, BeginPushType DEF PoolTypes, ReturnToPool
  <2>3. RequestTypes'
    BY <1>13 DEF RequestTypes, ReturnToPool, Onward
  <2> QED
    BY <2>1, <2>2, <2>3 DEF TypeOK
<1>14. ASSUME NEW r \in Reqs, PushNext(r) PROVE TypeOK'
  BY <1>14 DEF TypeOK, PoolTypes, RequestTypes, ConnTypes, PushNext, Send, Locks
<1>15. ASSUME NEW r \in Reqs, PushSend(r) PROVE TypeOK'
  <2>0. lock.conn \in Conns \cup {NONE}
    BY DEF PoolTypes, Locks
  <2>1. ConnTypes'
    BY <1>15 DEF ConnTypes, PushSend
  <2>2. PoolTypes'
    BY <1>15, EndPushType, WalkOnType DEF PoolTypes, PushSend
  <2>3. pc' \in [Reqs -> {"start", "checkout", "drop", "fields", "return", "push",
                          "stuck", "request", "sending", "wait_ready", "done"}]
    BY <1>15, EndPushType DEF RequestTypes, PushSend, WalkOn
  <2>4. RequestTypes'
    BY <1>15, <2>0, <2>3 DEF RequestTypes, PushSend, Pooled, Shares
  <2> QED
    BY <2>1, <2>2, <2>4 DEF TypeOK
<1>16. ASSUME NEW r \in Reqs, PushSendFails(r) PROVE TypeOK'
  <2>0. Stuck(r, lock.conn) \in Locks
    BY DEF PoolTypes, Locks, Stuck
  <2>1. ConnTypes'
    BY <1>16 DEF ConnTypes, PushSendFails
  <2>2. PoolTypes'
    BY <1>16, <2>0, EndPushType, WalkOnType DEF PoolTypes, PushSendFails
  <2>3. RequestTypes'
    BY <1>16, EndPushType DEF RequestTypes, PushSendFails, WalkOn
  <2> QED
    BY <2>1, <2>2, <2>3 DEF TypeOK
<1>17. ASSUME NEW r \in Reqs, PushIdle(r) PROVE TypeOK'
  <2>1. ConnTypes'
    BY <1>17 DEF ConnTypes, PushIdle
  <2>2. lock.conn \in Conns /\ key[r] \in Keys
    BY <1>17 DEF PushIdle, InHand, RequestTypes
  <2>3. /\ Append(idle[key[r]], lock.conn) \in Seq(Conns)
        /\ Len(Append(idle[key[r]], lock.conn)) = Len(idle[key[r]]) + 1
    BY <2>2, AppendProperties DEF PoolTypes
  <2>4. /\ idle' \in [Keys -> Seq(Conns)]
        /\ \A k \in Keys : Len(idle'[k]) \in Nat /\ Len(idle[k]) <= Len(idle'[k])
    BY <1>17, <2>2, <2>3, LenProperties DEF PoolTypes, PushIdle
  <2>5. PoolTypes'
    BY <1>17, <2>4, EndPushType DEF PoolTypes, PushIdle
  <2>6. RequestTypes'
    BY <1>17, EndPushType DEF RequestTypes, PushIdle
  <2> QED
    BY <2>1, <2>5, <2>6 DEF TypeOK
<1>18. ASSUME NEW r \in Reqs, RefuseRequest(r) PROVE TypeOK'
  BY <1>18 DEF TypeOK, PoolTypes, RequestTypes, ConnTypes, RefuseRequest,
     Release, GivesBack, Pooled, Nothing
<1>19. ASSUME NEW r \in Reqs, SendRequest(r) PROVE TypeOK'
  BY <1>19 DEF TypeOK, PoolTypes, RequestTypes, ConnTypes, SendRequest
<1>20. ASSUME NEW r \in Reqs, Respond(r) PROVE TypeOK'
  <2>1. CASE Shares(own[r].conn)
    <3>1. Release(r) /\ UNCHANGED <<poolVars, reqVars, inner, rx, box, connVars>>
      BY <1>20, <2>1 DEF Respond
    <3> QED
      BY <3>1 DEF TypeOK, PoolTypes, RequestTypes, ConnTypes, Release,
         GivesBack,
                  Pooled, Nothing
  <2>2. CASE ~Shares(own[r].conn)
    BY <1>20, <2>2 DEF TypeOK, PoolTypes, RequestTypes, ConnTypes, Respond
  <2> QED
    BY <2>1, <2>2
<1>21. ASSUME NEW r \in Reqs, SendFails(r) PROVE TypeOK'
  BY <1>21 DEF TypeOK, PoolTypes, RequestTypes, ConnTypes, SendFails, Release,
     GivesBack, Pooled, Nothing
<1>22. ASSUME NEW r \in Reqs, CancelRequest(r) PROVE TypeOK'
  BY <1>22 DEF TypeOK, PoolTypes, RequestTypes, ConnTypes, CancelRequest,
     Release, GivesBack, Pooled, Nothing
<1>23. ASSUME NEW r \in Reqs, WhenReady(r) PROVE TypeOK'
  BY <1>23 DEF TypeOK, PoolTypes, RequestTypes, ConnTypes, WhenReady, Release,
     GivesBack, Pooled, Nothing
<1>24. ASSUME NEW c \in Conns, ConnReady(c) PROVE TypeOK'
  BY <1>24 DEF TypeOK, PoolTypes, RequestTypes, ConnTypes, ConnReady
<1>25. ASSUME NEW c \in Conns, ConnCloses(c) PROVE TypeOK'
  BY <1>25 DEF TypeOK, PoolTypes, RequestTypes, ConnTypes, ConnCloses
<1>26. ASSUME NEW k \in Keys, Expire(k) PROVE TypeOK'
  BY <1>26 DEF TypeOK, PoolTypes, RequestTypes, ConnTypes, Expire
<1>27. ASSUME DropPool PROVE TypeOK'
  <2>1. <<>> \in Seq(Conns) /\ <<>> \in Seq(Reqs) /\ Len(<<>>) = 0
    BY EmptySeq
  <2>2. \A k \in Keys : expired'[k] <= Len(idle'[k])
    BY <1>27, <2>1 DEF DropPool
  <2>3. PoolTypes'
    BY <1>27, <2>1, <2>2 DEF PoolTypes, DropPool
  <2>4. RequestTypes' /\ ConnTypes'
    BY <1>27 DEF RequestTypes, ConnTypes, DropPool
  <2> QED
    BY <2>3, <2>4 DEF TypeOK
<1>28. CASE UNCHANGED vars
  BY <1>28 DEF TypeOK, PoolTypes, RequestTypes, ConnTypes, vars
<1> QED
  BY <1>1, <1>2, <1>3, <1>4, <1>5, <1>6, <1>7, <1>8, <1>9, <1>10, <1>11, <1>12,
     <1>13, <1>14, <1>15, <1>16, <1>17, <1>18, <1>19, <1>20, <1>21, <1>22,
     <1>23, <1>24, <1>25, <1>26, <1>27, <1>28 DEF Next

(* Every step leaves a connection in the hands of whoever gives one away.  *)
LEMMA InHandStep == TypeOK /\ InHand /\ [Next]_vars => InHand'
<1> SUFFICES ASSUME TypeOK, InHand, [Next]_vars PROVE InHand'
  OBVIOUS
<1> USE DEF poolVars, reqVars, connVars
<1>0. PoolTypes /\ RequestTypes /\ NONE \notin Reqs
  BY PoolAssumption DEF TypeOK
<1> USE <1>0 DEF PoolTypes, RequestTypes, Locks, Conns, InHand
<1>1. ASSUME NEW r \in Reqs, CheckoutIdle(r) PROVE InHand'
  BY <1>1 DEF CheckoutIdle, StartCheckout
<1>2. ASSUME NEW r \in Reqs, CheckoutWait(r) PROVE InHand'
  BY <1>2 DEF CheckoutWait, StartCheckout, JoinWaiters
<1>3. ASSUME NEW r \in Reqs, CheckoutConnect(r) PROVE InHand'
  BY <1>3 DEF CheckoutConnect, StartCheckout, JoinWaiters
<1>4. ASSUME NEW r \in Reqs, PollDelivered(r) PROVE InHand'
  BY <1>4 DEF PollDelivered, Resolve
<1>5. ASSUME NEW r \in Reqs, PollUnavailable(r) PROVE InHand'
  BY <1>5 DEF PollUnavailable, Resolve
<1>6. ASSUME NEW r \in Reqs, PollTransport(r) PROVE InHand'
  BY <1>6 DEF PollTransport
<1>7. ASSUME NEW r \in Reqs, PollFails(r) PROVE InHand'
  BY <1>7 DEF PollFails, Resolve
<1>8. ASSUME NEW r \in Reqs, PollHandshake(r) PROVE InHand'
  BY <1>8 DEF PollHandshake, Connected, BeginPush, Resolve, Walk, LockFree
<1>9. ASSUME NEW r \in Reqs, PollConnected(r) PROVE InHand'
  BY <1>9 DEF PollConnected, Connected, BeginPush, Resolve, Walk, LockFree
<1>10. ASSUME NEW r \in Reqs, CancelCheckout(r) PROVE InHand'
  BY <1>10 DEF CancelCheckout, Resolve
<1>11. ASSUME NEW r \in Reqs, DropCheckout(r) PROVE InHand'
  BY <1>11 DEF DropCheckout
<1>12. ASSUME NEW r \in Reqs, DropFields(r) PROVE InHand'
  BY <1>12 DEF DropFields, GivesBack, Onward
<1>13. ASSUME NEW r \in Reqs, ReturnToPool(r) PROVE InHand'
  <2>1. raw[r] \in Conns
    BY <1>13 DEF ReturnToPool
  <2>2. CASE alive
    BY <1>13, <2>1, <2>2 DEF ReturnToPool, BeginPush, Walk, LockFree
  <2>3. CASE ~alive
    BY <1>13, <2>3 DEF ReturnToPool, Onward
  <2> QED
    BY <2>2, <2>3
<1>14. ASSUME NEW r \in Reqs, PushNext(r) PROVE InHand'
  BY <1>14 DEF PushNext, Send
<1>15. ASSUME NEW r \in Reqs, PushSend(r) PROVE InHand'
  BY <1>15 DEF PushSend, WalkOn, Walk, EndPush, AfterPush, Onward, Free
<1>16. ASSUME NEW r \in Reqs, PushSendFails(r) PROVE InHand'
  BY <1>16 DEF PushSendFails, WalkOn, Walk, Stuck, EndPush, AfterPush, Onward,
     Free
<1>17. ASSUME NEW r \in Reqs, PushIdle(r) PROVE InHand'
  BY <1>17 DEF PushIdle, EndPush, AfterPush, Onward, Free
<1>18. ASSUME NEW r \in Reqs, RefuseRequest(r) PROVE InHand'
  BY <1>18 DEF RefuseRequest, Release, GivesBack
<1>19. ASSUME NEW r \in Reqs, SendRequest(r) PROVE InHand'
  BY <1>19 DEF SendRequest
<1>20. ASSUME NEW r \in Reqs, Respond(r) PROVE InHand'
  <2>1. CASE Shares(own[r].conn)
    <3>1. Release(r) /\ UNCHANGED <<poolVars, reqVars, inner, rx, box, connVars>>
      BY <1>20, <2>1 DEF Respond
    <3> QED
      BY <3>1, <1>20 DEF Release, GivesBack, Respond
  <2>2. CASE ~Shares(own[r].conn)
    BY <1>20, <2>2 DEF Respond
  <2> QED
    BY <2>1, <2>2
<1>21. ASSUME NEW r \in Reqs, SendFails(r) PROVE InHand'
  BY <1>21 DEF SendFails, Release, GivesBack
<1>22. ASSUME NEW r \in Reqs, CancelRequest(r) PROVE InHand'
  BY <1>22 DEF CancelRequest, Release, GivesBack
<1>23. ASSUME NEW r \in Reqs, WhenReady(r) PROVE InHand'
  BY <1>23 DEF WhenReady, Release, GivesBack
<1>24. ASSUME NEW c \in Conns, ConnReady(c) PROVE InHand'
  BY <1>24 DEF ConnReady
<1>25. ASSUME NEW c \in Conns, ConnCloses(c) PROVE InHand'
  BY <1>25 DEF ConnCloses
<1>26. ASSUME NEW k \in Keys, Expire(k) PROVE InHand'
  BY <1>26 DEF Expire
<1>27. ASSUME DropPool PROVE InHand'
  BY <1>27 DEF DropPool, LockFree
<1>28. CASE UNCHANGED vars
  BY <1>28 DEF vars
<1> QED
  BY <1>1, <1>2, <1>3, <1>4, <1>5, <1>6, <1>7, <1>8, <1>9, <1>10, <1>11, <1>12,
     <1>13, <1>14, <1>15, <1>16, <1>17, <1>18, <1>19, <1>20, <1>21, <1>22,
     <1>23, <1>24, <1>25, <1>26, <1>27, <1>28 DEF Next

LEMMA TypeInit == Init => TypeOK /\ InHand
BY DEF Init, TypeOK, PoolTypes, RequestTypes, ConnTypes, Pooled, Nothing, Locks,
   Free,
       InHand

(* The variables of the pool and of its requests keep their types: in      *)
(* particular the expired entries of an idle list are always among its     *)
(* entries, so IdleConnections::pop discards no fresh one with them.       *)
THEOREM TypeCorrect == Spec => []TypeOK
<1>1. Init => TypeOK /\ InHand
  BY TypeInit
<1>2. TypeOK /\ InHand /\ [Next]_vars => (TypeOK /\ InHand)'
  BY TypeStep, InHandStep
<1> QED
  BY <1>1, <1>2, PTL DEF Spec
-----------------------------------------------------------------------------
(* A request that vouches for a connecting mark keeps vouching for it      *)
(* until it removes the mark itself: by giving a connection to push(), or  *)
(* when its Checkout is dropped.                                           *)
Attempts(r, k) ==
  /\ key[r] = k
  /\ pc[r] \in {"checkout", "drop"}
  /\ inner[r] \in {"Connecting", "Handshaking"}

LEMMA ConnectingStep ==
  TypeOK /\ InHand /\ ConnectingIsAttempted /\ [Next]_vars => ConnectingIsAttempted'
<1> SUFFICES ASSUME TypeOK, InHand, ConnectingIsAttempted, [Next]_vars,
                    NEW k \in connecting'
             PROVE  \E r \in Reqs : Attempts(r, k)'
  BY DEF ConnectingIsAttempted, Attempts
<1> USE DEF poolVars, reqVars, connVars
<1>0. /\ RequestTypes /\ connecting \in SUBSET Keys
      /\ k \in connecting => \E q \in Reqs : Attempts(q, k)
      /\ \A r \in Reqs : lock.at \in {"walk", "send"} /\ lock.by = r
                           => pc[r] \in {"push", "stuck"}
  BY DEF TypeOK, PoolTypes, ConnectingIsAttempted, Attempts, InHand
<1> USE <1>0 DEF RequestTypes, Attempts
<1>1. ASSUME NEW r \in Reqs, CheckoutIdle(r) PROVE \E q \in Reqs : Attempts(q, k)'
  BY <1>1 DEF CheckoutIdle, StartCheckout
<1>2. ASSUME NEW r \in Reqs, CheckoutWait(r) PROVE \E q \in Reqs : Attempts(q, k)'
  BY <1>2 DEF CheckoutWait, StartCheckout, JoinWaiters
<1>3. ASSUME NEW r \in Reqs, CheckoutConnect(r) PROVE \E q \in Reqs : Attempts(q, k)'
  BY <1>3 DEF CheckoutConnect, StartCheckout, JoinWaiters
<1>4. ASSUME NEW r \in Reqs, PollDelivered(r) PROVE \E q \in Reqs : Attempts(q, k)'
  BY <1>4 DEF PollDelivered, Resolve
<1>5. ASSUME NEW r \in Reqs, PollUnavailable(r) PROVE \E q \in Reqs : Attempts(q, k)'
  BY <1>5 DEF PollUnavailable, Resolve
<1>6. ASSUME NEW r \in Reqs, PollTransport(r) PROVE \E q \in Reqs : Attempts(q, k)'
  BY <1>6 DEF PollTransport
<1>7. ASSUME NEW r \in Reqs, PollFails(r) PROVE \E q \in Reqs : Attempts(q, k)'
  BY <1>7 DEF PollFails, Resolve
<1>8. ASSUME NEW r \in Reqs, PollHandshake(r) PROVE \E q \in Reqs : Attempts(q, k)'
  BY <1>8 DEF PollHandshake, Connected, BeginPush, Resolve
<1>9. ASSUME NEW r \in Reqs, PollConnected(r) PROVE \E q \in Reqs : Attempts(q, k)'
  BY <1>9 DEF PollConnected, Connected, BeginPush, Resolve
<1>10. ASSUME NEW r \in Reqs, CancelCheckout(r) PROVE \E q \in Reqs : Attempts(q, k)'
  BY <1>10 DEF CancelCheckout, Resolve
<1>11. ASSUME NEW r \in Reqs, DropCheckout(r) PROVE \E q \in Reqs : Attempts(q, k)'
  BY <1>11 DEF DropCheckout
<1>12. ASSUME NEW r \in Reqs, DropFields(r) PROVE \E q \in Reqs : Attempts(q, k)'
  BY <1>12 DEF DropFields
<1>13. ASSUME NEW r \in Reqs, ReturnToPool(r) PROVE \E q \in Reqs : Attempts(q, k)'
  BY <1>13 DEF ReturnToPool, BeginPush
<1>14. ASSUME NEW r \in Reqs, PushNext(r) PROVE \E q \in Reqs : Attempts(q, k)'
  BY <1>14 DEF PushNext
<1>15. ASSUME NEW r \in Reqs, PushSend(r) PROVE \E q \in Reqs : Attempts(q, k)'
  BY <1>15 DEF PushSend, WalkOn, EndPush, AfterPush
<1>16. ASSUME NEW r \in Reqs, PushSendFails(r) PROVE \E q \in Reqs : Attempts(q, k)'
  BY <1>16 DEF PushSendFails, WalkOn, EndPush, AfterPush
<1>17. ASSUME NEW r \in Reqs, PushIdle(r) PROVE \E q \in Reqs : Attempts(q, k)'
  BY <1>17 DEF PushIdle, EndPush, AfterPush
<1>18. ASSUME NEW r \in Reqs, RefuseRequest(r) PROVE \E q \in Reqs : Attempts(q, k)'
  BY <1>18 DEF RefuseRequest, Release
<1>19. ASSUME NEW r \in Reqs, SendRequest(r) PROVE \E q \in Reqs : Attempts(q, k)'
  BY <1>19 DEF SendRequest
<1>20. ASSUME NEW r \in Reqs, Respond(r) PROVE \E q \in Reqs : Attempts(q, k)'
  BY <1>20 DEF Respond, Release
<1>21. ASSUME NEW r \in Reqs, SendFails(r) PROVE \E q \in Reqs : Attempts(q, k)'
  BY <1>21 DEF SendFails, Release
<1>22. ASSUME NEW r \in Reqs, CancelRequest(r) PROVE \E q \in Reqs : Attempts(q, k)'
  BY <1>22 DEF CancelRequest, Release
<1>23. ASSUME NEW r \in Reqs, WhenReady(r) PROVE \E q \in Reqs : Attempts(q, k)'
  BY <1>23 DEF WhenReady, Release
<1>24. ASSUME NEW c \in Conns, ConnReady(c) PROVE \E q \in Reqs : Attempts(q, k)'
  BY <1>24 DEF ConnReady
<1>25. ASSUME NEW c \in Conns, ConnCloses(c) PROVE \E q \in Reqs : Attempts(q, k)'
  BY <1>25 DEF ConnCloses
<1>26. ASSUME NEW h \in Keys, Expire(h) PROVE \E q \in Reqs : Attempts(q, k)'
  BY <1>26 DEF Expire
<1>27. ASSUME DropPool PROVE \E q \in Reqs : Attempts(q, k)'
  BY <1>27 DEF DropPool
<1>28. CASE UNCHANGED vars
  BY <1>28 DEF vars
<1> QED
  BY <1>1, <1>2, <1>3, <1>4, <1>5, <1>6, <1>7, <1>8, <1>9, <1>10, <1>11, <1>12,
     <1>13, <1>14, <1>15, <1>16, <1>17, <1>18, <1>19, <1>20, <1>21, <1>22,
     <1>23, <1>24, <1>25, <1>26, <1>27, <1>28 DEF Next

(* No failure, cancellation or race ever leaves a host marked as           *)
(* connecting (mod.rs:103-111, 139-152, 157, checkout.rs:351-359) without  *)
(* a request that is connecting to it.                                     *)
THEOREM ConnectingAlwaysAttempted == Spec => []ConnectingIsAttempted
<1>1. Init => TypeOK /\ InHand /\ ConnectingIsAttempted
  BY TypeInit DEF Init, ConnectingIsAttempted
<1>2. TypeOK /\ InHand /\ ConnectingIsAttempted /\ [Next]_vars
        => (TypeOK /\ InHand /\ ConnectingIsAttempted)'
  BY TypeStep, InHandStep, ConnectingStep
<1> QED
  BY <1>1, <1>2, PTL DEF Spec
-----------------------------------------------------------------------------
(* A sequence of connections, or of waiters, of one host.                  *)
OfKey(s, k) == \A i \in 1..Len(s) : key[s[i]] = k

QueuesOfKey == \A k \in Keys : OfKey(idle[k], k) /\ OfKey(waiting[k], k)

HandsOfKey ==
  \A r \in Reqs :
    /\ own[r].conn # NONE => key[own[r].conn] = key[r]
    /\ box[r].conn # NONE => key[box[r].conn] = key[r]
    /\ raw[r] # NONE => key[raw[r]] = key[r]

PushOfKey ==
  /\ lock.at # "free" => key[lock.conn] = key[lock.by]
  /\ lock.at = "send" => key[lock.to] = key[lock.by]

(* KeyIsolation is not inductive as it stands: what push() holds, and the  *)
(* senders it will hand that to, belong to one host too.                   *)
KeyInv == QueuesOfKey /\ HandsOfKey /\ PushOfKey

LEMMA KeyInvIsolates == TypeOK /\ KeyInv => KeyIsolation
<1> SUFFICES ASSUME TypeOK, KeyInv PROVE KeyIsolation
  OBVIOUS
<1>1. ASSUME NEW k \in Keys, NEW i \in DOMAIN idle[k] PROVE key[idle[k][i]] = k
  <2>1. DOMAIN idle[k] = 1..Len(idle[k])
    BY LenProperties DEF TypeOK, PoolTypes
  <2> QED
    BY <2>1 DEF KeyInv, QueuesOfKey, OfKey
<1>2. ASSUME NEW r \in Reqs, NEW c \in {own[r].conn, box[r].conn, raw[r]} \ {NONE}
      PROVE  key[c] = key[r]
  BY DEF KeyInv, HandsOfKey
<1> QED
  BY <1>1, <1>2 DEF KeyIsolation

(* What pop takes, and what it leaves, is of the host it was asked for.    *)
LEMMA PopOfKey ==
  ASSUME TypeOK, NEW k \in Keys, OfKey(idle[k], k)
  PROVE  /\ OfKey(Remaining(k), k)
         /\ Popped(k) # NONE => key[Popped(k)] = k
<1> DEFINE m == Max(Usable(k))
<1>1. idle[k] \in Seq(Conns) /\ Len(idle[k]) \in Nat
  BY LenProperties DEF TypeOK, PoolTypes
<1>2. CASE Usable(k) = {}
  BY <1>2, EmptySeq DEF Popped, Remaining, OfKey
<1>3. CASE Usable(k) # {}
  <2>1. Popped(k) = idle[k][m] /\ m \in 1..Len(idle[k])
    BY <1>3, PopIdleType
  <2>2. Remaining(k) = SubSeq(idle[k], 1, m - 1)
    BY <1>3 DEF Remaining
  <2> HIDE DEF m
  <2>3. /\ Len(SubSeq(idle[k], 1, m - 1)) = m - 1
        /\ \A i \in 1..(m - 1) : SubSeq(idle[k], 1, m - 1)[i] = idle[k][i]
    BY <1>1, <2>1, SubSeqProperties
  <2> QED
    BY <1>1, <2>1, <2>2, <2>3 DEF OfKey
<1> QED
  BY <1>2, <1>3

(* Queueing another element of the host, and taking the first one off.     *)
LEMMA AppendOfKey ==
  ASSUME NEW S, NEW s \in Seq(S), NEW k, NEW e \in S, OfKey(s, k), key[e] = k
  PROVE  OfKey(Append(s, e), k)
<1>1. /\ Len(Append(s, e)) = Len(s) + 1
      /\ \A i \in 1..Len(s) : Append(s, e)[i] = s[i]
      /\ Append(s, e)[Len(s) + 1] = e
      /\ Len(s) \in Nat
  BY AppendProperties, LenProperties
<1> QED
  BY <1>1 DEF OfKey

LEMMA TailOfKey ==
  ASSUME NEW S, NEW s \in Seq(S), s # <<>>, NEW k, OfKey(s, k)
  PROVE  key[Head(s)] = k /\ OfKey(Tail(s), k)
<1>1. /\ Head(s) = s[1]
      /\ Len(Tail(s)) = Len(s) - 1
      /\ \A i \in 1..Len(Tail(s)) : Tail(s)[i] = s[i + 1]
      /\ Len(s) \in Nat /\ Len(s) # 0
  BY HeadTailProperties, LenProperties, EmptySeq
<1> QED
  BY <1>1 DEF OfKey

(* Every step keeps each connection with its host.                         *)
LEMMA KeyStep == TypeOK /\ InHand /\ KeyInv /\ [Next]_vars => KeyInv'
<1> SUFFICES ASSUME TypeOK, InHand, KeyInv, [Next]_vars PROVE KeyInv'
  OBVIOUS
<1> USE DEF poolVars, reqVars, connVars
<1>0. /\ PoolTypes /\ RequestTypes
      /\ QueuesOfKey /\ HandsOfKey /\ PushOfKey
      /\ NONE \notin Reqs
  BY PoolAssumption DEF TypeOK, KeyInv
<1> USE <1>0
<1>1. ASSUME NEW r \in Reqs, CheckoutIdle(r) PROVE KeyInv'
  <2>1. StartCheckout(r) /\ PopIdle(key[r]) /\ key[r] \in Keys
    BY <1>1 DEF CheckoutIdle, StartCheckout, RequestTypes
  <2>2. /\ OfKey(Remaining(key[r]), key[r])
        /\ Popped(key[r]) # NONE => key[Popped(key[r])] = key[r]
    BY <2>1, PopOfKey DEF QueuesOfKey
  <2>3. \A k \in Keys : OfKey(idle'[k], k)
    BY <2>1, <2>2 DEF PopIdle, QueuesOfKey, PoolTypes
  <2>4. \A k \in Keys : OfKey(waiting'[k], k)
    BY <1>1 DEF CheckoutIdle, QueuesOfKey
  <2>5. QueuesOfKey'
    BY <2>1, <2>3, <2>4 DEF QueuesOfKey, OfKey, StartCheckout
  <2>6. HandsOfKey' /\ PushOfKey'
    BY <1>1, <2>1, <2>2 DEF HandsOfKey, PushOfKey, StartCheckout, CheckoutIdle,
       RequestTypes, JoinWaiters
  <2> QED
    BY <2>5, <2>6 DEF KeyInv
<1>2. ASSUME NEW r \in Reqs, CheckoutWait(r) PROVE KeyInv'
  <2>1. StartCheckout(r) /\ PopIdle(key[r]) /\ key[r] \in Keys
    BY <1>2 DEF CheckoutWait, StartCheckout, RequestTypes
  <2>2. /\ OfKey(Remaining(key[r]), key[r])
        /\ Popped(key[r]) # NONE => key[Popped(key[r])] = key[r]
    BY <2>1, PopOfKey DEF QueuesOfKey
  <2>3. \A k \in Keys : OfKey(idle'[k], k)
    BY <2>1, <2>2 DEF PopIdle, QueuesOfKey, PoolTypes
  <2>4. \A k \in Keys : OfKey(waiting'[k], k)
    <3>1. OfKey(Append(waiting[key[r]], r), key[r])
      BY <2>1, AppendOfKey DEF QueuesOfKey, PoolTypes
    <3> QED
      BY <1>2, <2>1, <3>1 DEF CheckoutWait, JoinWaiters, QueuesOfKey, PoolTypes
  <2>5. QueuesOfKey'
    BY <2>1, <2>3, <2>4 DEF QueuesOfKey, OfKey, StartCheckout
  <2>6. HandsOfKey' /\ PushOfKey'
    BY <1>2, <2>1, <2>2 DEF HandsOfKey, PushOfKey, StartCheckout, CheckoutWait,
       RequestTypes, JoinWaiters
  <2> QED
    BY <2>5, <2>6 DEF KeyInv
<1>3. ASSUME NEW r \in Reqs, CheckoutConnect(r) PROVE KeyInv'
  <2>1. StartCheckout(r) /\ PopIdle(key[r]) /\ key[r] \in Keys
    BY <1>3 DEF CheckoutConnect, StartCheckout, RequestTypes
  <2>2. /\ OfKey(Remaining(key[r]), key[r])
        /\ Popped(key[r]) # NONE => key[Popped(key[r])] = key[r]
    BY <2>1, PopOfKey DEF QueuesOfKey
  <2>3. \A k \in Keys : OfKey(idle'[k], k)
    BY <2>1, <2>2 DEF PopIdle, QueuesOfKey, PoolTypes
  <2>4. \A k \in Keys : OfKey(waiting'[k], k)
    <3>1. OfKey(Append(waiting[key[r]], r), key[r])
      BY <2>1, AppendOfKey DEF QueuesOfKey, PoolTypes
    <3> QED
      BY <1>3, <2>1, <3>1 DEF CheckoutConnect, JoinWaiters, QueuesOfKey,
         PoolTypes
  <2>5. QueuesOfKey'
    BY <2>1, <2>3, <2>4 DEF QueuesOfKey, OfKey, StartCheckout
  <2>6. HandsOfKey' /\ PushOfKey'
    BY <1>3, <2>1, <2>2 DEF HandsOfKey, PushOfKey, StartCheckout,
       CheckoutConnect, RequestTypes, JoinWaiters
  <2> QED
    BY <2>5, <2>6 DEF KeyInv
<1>4. ASSUME NEW r \in Reqs, PollDelivered(r) PROVE KeyInv'
  BY <1>4 DEF KeyInv, QueuesOfKey, HandsOfKey, PushOfKey, OfKey, RequestTypes,
              PollDelivered, Resolve, Nothing
<1>5. ASSUME NEW r \in Reqs, PollUnavailable(r) PROVE KeyInv'
  BY <1>5 DEF KeyInv, QueuesOfKey, HandsOfKey, PushOfKey, OfKey, RequestTypes,
              PollUnavailable, Resolve, Nothing
<1>6. ASSUME NEW r \in Reqs, PollTransport(r) PROVE KeyInv'
  BY <1>6 DEF KeyInv, QueuesOfKey, HandsOfKey, PushOfKey, OfKey, RequestTypes,
              PollTransport
<1>7. ASSUME NEW r \in Reqs, PollFails(r) PROVE KeyInv'
  BY <1>7 DEF KeyInv, QueuesOfKey, HandsOfKey, PushOfKey, OfKey, RequestTypes,
              PollFails, Resolve, Nothing
<1>8. ASSUME NEW r \in Reqs, PollHandshake(r) PROVE KeyInv'
  <2>1. QueuesOfKey'
    BY <1>8 DEF QueuesOfKey, OfKey, PollHandshake, Connected, BeginPush, Resolve
  <2>2. HandsOfKey'
    BY <1>8 DEF HandsOfKey, PollHandshake, Connected, BeginPush, Resolve,
       RequestTypes, Conns
  <2>3. PushOfKey'
    BY <1>8 DEF PushOfKey, PollHandshake, Connected, BeginPush, Resolve, Walk,
       Conns, InHand, HandsOfKey, RequestTypes
  <2> QED
    BY <2>1, <2>2, <2>3 DEF KeyInv
<1>9. ASSUME NEW r \in Reqs, PollConnected(r) PROVE KeyInv'
  <2>1. QueuesOfKey'
    BY <1>9 DEF QueuesOfKey, OfKey, PollConnected, Connected, BeginPush, Resolve
  <2>2. HandsOfKey'
    BY <1>9 DEF HandsOfKey, PollConnected, Connected, BeginPush, Resolve,
       RequestTypes, Conns
  <2>3. PushOfKey'
    BY <1>9 DEF PushOfKey, PollConnected, Connected, BeginPush, Resolve, Walk,
       Conns, InHand, HandsOfKey, RequestTypes
  <2> QED
    BY <2>1, <2>2, <2>3 DEF KeyInv
<1>10. ASSUME NEW r \in Reqs, CancelCheckout(r) PROVE KeyInv'
  BY <1>10 DEF KeyInv, QueuesOfKey, HandsOfKey, PushOfKey, OfKey, RequestTypes,
              CancelCheckout, Resolve, Nothing
<1>11. ASSUME NEW r \in Reqs, DropCheckout(r) PROVE KeyInv'
  BY <1>11 DEF KeyInv, QueuesOfKey, HandsOfKey, PushOfKey, OfKey, RequestTypes,
              DropCheckout
<1>12. ASSUME NEW r \in Reqs, DropFields(r) PROVE KeyInv'
  BY <1>12 DEF KeyInv, QueuesOfKey, HandsOfKey, PushOfKey, OfKey, RequestTypes,
              DropFields, GivesBack, Nothing
<1>13. ASSUME NEW r \in Reqs, ReturnToPool(r) PROVE KeyInv'
  <2>1. QueuesOfKey'
    BY <1>13 DEF QueuesOfKey, OfKey, ReturnToPool, BeginPush
  <2>2. HandsOfKey'
    BY <1>13 DEF HandsOfKey, ReturnToPool, BeginPush, RequestTypes, Conns
  <2>3. PushOfKey'
    BY <1>13 DEF PushOfKey, ReturnToPool, BeginPush, Walk, Conns, InHand,
       HandsOfKey, RequestTypes
  <2> QED
    BY <2>1, <2>2, <2>3 DEF KeyInv
<1>14. ASSUME NEW r \in Reqs, PushNext(r) PROVE KeyInv'
  <2>1. lock.by = r /\ lock.at = "walk" /\ key[r] \in Keys
    BY <1>14 DEF PushNext, RequestTypes
  <2>2. /\ key[Head(waiting[key[r]])] = key[r]
        /\ OfKey(Tail(waiting[key[r]]), key[r])
    BY <1>14, <2>1, TailOfKey DEF PushNext, QueuesOfKey, PoolTypes
  <2>3. QueuesOfKey'
    BY <1>14, <2>1, <2>2 DEF QueuesOfKey, OfKey, PushNext, PoolTypes
  <2>4. HandsOfKey'
    BY <1>14 DEF HandsOfKey, PushNext
  <2>5. PushOfKey'
    BY <1>14, <2>1, <2>2 DEF PushOfKey, PushNext, Send
  <2> QED
    BY <2>3, <2>4, <2>5 DEF KeyInv
<1>15. ASSUME NEW r \in Reqs, PushSend(r) PROVE KeyInv'
  <2>1. /\ lock.by = r /\ lock.to \in Reqs /\ lock.conn \in Conns
        /\ key[lock.conn] = key[lock.to] /\ key[lock.conn] = key[r]
    BY <1>15 DEF PushSend, InHand, PushOfKey
  <2>2. QueuesOfKey'
    BY <1>15 DEF QueuesOfKey, OfKey, PushSend
  <2>3. HandsOfKey'
    BY <1>15, <2>1 DEF HandsOfKey, PushSend, RequestTypes
  <2>4. PushOfKey'
    BY <1>15, <2>1 DEF PushOfKey, PushSend, WalkOn, Walk, EndPush, Free
  <2> QED
    BY <2>2, <2>3, <2>4 DEF KeyInv
<1>16. ASSUME NEW r \in Reqs, PushSendFails(r) PROVE KeyInv'
  <2>1. lock.by = r /\ key[lock.conn] = key[r]
    BY <1>16 DEF PushSendFails, PushOfKey
  <2>2. QueuesOfKey' /\ HandsOfKey'
    BY <1>16 DEF QueuesOfKey, HandsOfKey, OfKey, PushSendFails
  <2>3. PushOfKey'
    BY <1>16, <2>1 DEF PushOfKey, PushSendFails, WalkOn, Walk, Stuck, EndPush,
       Free
  <2> QED
    BY <2>2, <2>3 DEF KeyInv
<1>17. ASSUME NEW r \in Reqs, PushIdle(r) PROVE KeyInv'
  <2>1. lock.conn \in Conns /\ key[lock.conn] = key[r] /\ key[r] \in Keys
    BY <1>17 DEF PushIdle, InHand, PushOfKey, RequestTypes
  <2>2. OfKey(Append(idle[key[r]], lock.conn), key[r])
    BY <2>1, AppendOfKey DEF QueuesOfKey, PoolTypes
  <2>3. QueuesOfKey'
    BY <1>17, <2>1, <2>2 DEF QueuesOfKey, OfKey, PushIdle, PoolTypes
  <2>4. HandsOfKey' /\ PushOfKey'
    BY <1>17 DEF HandsOfKey, PushOfKey, PushIdle, EndPush, Free
  <2> QED
    BY <2>3, <2>4 DEF KeyInv
<1>18. ASSUME NEW r \in Reqs, RefuseRequest(r) PROVE KeyInv'
  BY <1>18 DEF KeyInv, QueuesOfKey, HandsOfKey, PushOfKey, OfKey, RequestTypes,
              RefuseRequest, Release, GivesBack, Nothing
<1>19. ASSUME NEW r \in Reqs, SendRequest(r) PROVE KeyInv'
  BY <1>19 DEF KeyInv, QueuesOfKey, HandsOfKey, PushOfKey, OfKey, RequestTypes,
              SendRequest
<1>20. ASSUME NEW r \in Reqs, Respond(r) PROVE KeyInv'
  <2>1. CASE Shares(own[r].conn)
    <3>1. Release(r) /\ UNCHANGED <<poolVars, reqVars, inner, rx, box, connVars>>
      BY <1>20, <2>1 DEF Respond
    <3> QED
      BY <3>1 DEF KeyInv, QueuesOfKey, HandsOfKey, PushOfKey, OfKey, Release,
                  GivesBack, Nothing, RequestTypes
  <2>2. CASE ~Shares(own[r].conn)
    BY <1>20, <2>2 DEF KeyInv, QueuesOfKey, HandsOfKey, PushOfKey, OfKey,
       Respond
  <2> QED
    BY <2>1, <2>2
<1>21. ASSUME NEW r \in Reqs, SendFails(r) PROVE KeyInv'
  BY <1>21 DEF KeyInv, QueuesOfKey, HandsOfKey, PushOfKey, OfKey, RequestTypes,
              SendFails, Release, GivesBack, Nothing
<1>22. ASSUME NEW r \in Reqs, CancelRequest(r) PROVE KeyInv'
  BY <1>22 DEF KeyInv, QueuesOfKey, HandsOfKey, PushOfKey, OfKey, RequestTypes,
              CancelRequest, Release, GivesBack, Nothing
<1>23. ASSUME NEW r \in Reqs, WhenReady(r) PROVE KeyInv'
  BY <1>23 DEF KeyInv, QueuesOfKey, HandsOfKey, PushOfKey, OfKey, RequestTypes,
              WhenReady, Release, GivesBack, Nothing
<1>24. ASSUME NEW c \in Conns, ConnReady(c) PROVE KeyInv'
  BY <1>24 DEF KeyInv, QueuesOfKey, HandsOfKey, PushOfKey, OfKey, ConnReady
<1>25. ASSUME NEW c \in Conns, ConnCloses(c) PROVE KeyInv'
  BY <1>25 DEF KeyInv, QueuesOfKey, HandsOfKey, PushOfKey, OfKey, ConnCloses
<1>26. ASSUME NEW k \in Keys, Expire(k) PROVE KeyInv'
  BY <1>26 DEF KeyInv, QueuesOfKey, HandsOfKey, PushOfKey, OfKey, Expire
<1>27. ASSUME DropPool PROVE KeyInv'
  <2>1. Len(<<>>) = 0
    BY EmptySeq
  <2>2. QueuesOfKey'
    BY <1>27, <2>1 DEF QueuesOfKey, OfKey, DropPool
  <2>3. HandsOfKey' /\ PushOfKey'
    BY <1>27 DEF HandsOfKey, PushOfKey, DropPool
  <2> QED
    BY <2>2, <2>3 DEF KeyInv
<1>28. CASE UNCHANGED vars
  BY <1>28 DEF KeyInv, QueuesOfKey, HandsOfKey, PushOfKey, OfKey, vars
<1> QED
  BY <1>1, <1>2, <1>3, <1>4, <1>5, <1>6, <1>7, <1>8, <1>9, <1>10, <1>11, <1>12,
     <1>13, <1>14, <1>15, <1>16, <1>17, <1>18, <1>19, <1>20, <1>21, <1>22,
     <1>23, <1>24, <1>25, <1>26, <1>27, <1>28 DEF Next

(* No path of a connection, through the idle lists, push(), the channels   *)
(* or a guard, ever leads to a request for another host.                   *)
THEOREM KeysIsolated == Spec => []KeyIsolation
<1>1. Init => TypeOK /\ InHand /\ KeyInv
  BY TypeInit, EmptySeq DEF Init, KeyInv, QueuesOfKey, HandsOfKey, PushOfKey,
     OfKey,
                            Nothing, Free
<1>2. TypeOK /\ InHand /\ KeyInv /\ [Next]_vars => (TypeOK /\ InHand /\ KeyInv)'
  BY TypeStep, InHandStep, KeyStep
<1> QED
  BY <1>1, <1>2, KeyInvIsolates, PTL DEF Spec
=============================================================================
