-------------------------------- MODULE Pool --------------------------------
(***************************************************************************)
(* The client connection pool (src/src/client/pool): the shared PoolInner  *)
(* behind its mutex, the Checkout future of every request, the oneshot     *)
(* channels that hand a connection from one request to another, and the    *)
(* Pooled guard that gives a connection back when it is dropped.           *)
(*                                                                         *)
(* One element of Reqs is one request of the client service, together with *)
(* the thread or task that polls and drops it.  Its Checkout's connector   *)
(* opens at most one connection, so a connection is named after the        *)
(* request that opened it.                                                 *)
(*                                                                         *)
(* A critical section of the mutex is one step, except PoolInner::push: it *)
(* calls is_closed() and then send() on a channel whose receiver is        *)
(* dropped without the mutex, so it is a loop of steps, and `lock' says    *)
(* where in that loop its thread is.                                       *)
(***************************************************************************)
EXTENDS Integers, Sequences, FiniteSetsExt, Functions

CONSTANTS
  Reqs,      (* the requests, and the connections they may open            *)
  Keys,      (* pool keys: a scheme and an authority                       *)
  Versions,  (* the HTTP versions requests are made with                   *)
  Alpn,      (* what ALPN may answer: TRUE when it negotiates HTTP/2       *)
  NONE       (* no request, no connection                                  *)

ASSUME PoolAssumption ==
  /\ NONE \notin Reqs
  /\ Versions \subseteq {"http1", "http2"}
  /\ Alpn \subseteq BOOLEAN

VARIABLES
  alive,       (* some Pool handle exists: WeakOpt::upgrade succeeds       *)
  connecting,  (* PoolInner.connecting                                     *)
  waiting,     (* PoolInner.waiting: the senders, by receiving request     *)
  idle,        (* PoolInner.idle: a stack of connections, the newest last  *)
  expired,     (* how many of the oldest idle entries outlived the timeout *)
  lock,        (* the mutex, and the push() its holder is executing        *)
  pc,          (* where each request is                                    *)
  key,         (* the pool key of each request                             *)
  version,     (* the HTTP version of each request                         *)
  inner,       (* Checkout.inner, "Dropped" once the Checkout is gone      *)
  rx,          (* Checkout.waiter: the receiving end of the oneshot        *)
  box,         (* the Pooled inside the oneshot channel                    *)
  raw,         (* a connection out of its guard: Checkout.connection, or   *)
               (* the one Pooled::drop took and is about to give back      *)
  own,         (* the Pooled the request itself holds                      *)
  kind,        (* the protocol of each connection                          *)
  st           (* the state of each connection                             *)

poolVars == <<alive, connecting, waiting, idle, expired, lock>>
reqVars  == <<key, version>>
connVars == <<kind, st>>
vars == <<alive, connecting, waiting, idle, expired, lock, pc, key, version,
          inner, rx, box, raw, own, kind, st>>

Conns == Reqs

(* A Pooled: is_reused marks a clone of a connection the pool also keeps.  *)
Pooled  == [conn : Conns \cup {NONE}, reused : BOOLEAN]
Nothing == [conn |-> NONE, reused |-> FALSE]

Locks == [at   : {"free", "walk", "send", "stuck"},
          by   : Reqs \cup {NONE},
          conn : Conns \cup {NONE},
          to   : Reqs \cup {NONE}]
Free  == [at |-> "free", by |-> NONE, conn |-> NONE, to |-> NONE]

(* The holder's place in push(): looking at the queue, about to send, or   *)
(* locked out by itself.                                                   *)
Walk(r, c)    == [at |-> "walk",  by |-> r, conn |-> c, to |-> NONE]
Send(r, c, w) == [at |-> "send",  by |-> r, conn |-> c, to |-> w]
Stuck(r, c)   == [at |-> "stuck", by |-> r, conn |-> c, to |-> NONE]

PoolTypes ==
  /\ alive \in BOOLEAN
  /\ connecting \in SUBSET Keys
  /\ waiting \in [Keys -> Seq(Reqs)]
  /\ idle \in [Keys -> Seq(Conns)]
  /\ expired \in [Keys -> Nat]
  /\ \A k \in Keys : expired[k] <= Len(idle[k])
  /\ lock \in Locks

RequestTypes ==
  /\ pc \in [Reqs -> {"start", "checkout", "drop", "fields", "return", "push",
                      "stuck", "request", "sending", "wait_ready", "done"}]
  /\ key \in [Reqs -> Keys]
  /\ version \in [Reqs -> Versions]
  /\ inner \in [Reqs -> {"None", "Waiting", "Connected", "Connecting",
                         "Handshaking", "Dropped"}]
  /\ rx \in [Reqs -> {"none", "open", "full", "hungup", "dead"}]
  /\ box \in [Reqs -> Pooled]
  /\ raw \in [Reqs -> Conns \cup {NONE}]
  /\ own \in [Reqs -> Pooled]

ConnTypes ==
  /\ kind \in [Conns -> {"none", "h1", "h2"}]
  /\ st \in [Conns -> {"none", "busy", "ready", "closed"}]

(* The expired part of an idle list is part of it, among others.           *)
TypeOK == PoolTypes /\ RequestTypes /\ ConnTypes

(* HttpProtocol::multiplex, of the version the request asks for.           *)
Multiplex(r) == version[r] = "http2"

(* PoolableConnection::is_open is hyper's is_ready: an HTTP/1 connection   *)
(* that is still busy with an exchange is not open for another one.        *)
IsOpen(c) == st[c] = "ready"

(* PoolableConnection::reuse and can_share: only HTTP/2 can be cloned.     *)
Shares(c) == kind[c] = "h2"

LockFree == lock.at = "free"
-----------------------------------------------------------------------------
Init ==
  /\ alive = TRUE
  /\ connecting = {}
  /\ waiting = [k \in Keys |-> <<>>]
  /\ idle = [k \in Keys |-> <<>>]
  /\ expired = [k \in Keys |-> 0]
  /\ lock = Free
  /\ pc = [r \in Reqs |-> "start"]
  /\ key \in [Reqs -> Keys]
  /\ version \in [Reqs -> Versions]
  /\ inner = [r \in Reqs |-> "None"]
  /\ rx = [r \in Reqs |-> "none"]
  /\ box = [r \in Reqs |-> Nothing]
  /\ raw = [r \in Reqs |-> NONE]
  /\ own = [r \in Reqs |-> Nothing]
  /\ kind = [c \in Conns |-> "none"]
  /\ st = [c \in Conns |-> "none"]
-----------------------------------------------------------------------------
(* Pool::checkout                                                          *)

(* IdleConnections::pop walks from the newest entry down, past closed      *)
(* connections, to the first open one; when it meets an expired entry      *)
(* instead it clears the list.                                             *)
Usable(k)    == {i \in (expired[k] + 1)..Len(idle[k]) : IsOpen(idle[k][i])}
Popped(k)    == IF Usable(k) = {} THEN NONE ELSE idle[k][Max(Usable(k))]

RemainingAndPopped(k) ==     (* mutant: the entry is read, not removed *)
  IF Usable(k) = {} THEN <<>> ELSE SubSeq(idle[k], 1, Max(Usable(k)))

Remaining(k) == IF Usable(k) = {} THEN <<>>
                                  ELSE SubSeq(idle[k], 1, Max(Usable(k)) - 1)

PopIdleKeepsAge(k) ==        (* mutant: the emptied list stays expired *)
  /\ idle' = [idle EXCEPT ![k] = Remaining(k)]
  /\ expired' = expired

PopIdle(k) ==
  /\ idle' = [idle EXCEPT ![k] = Remaining(k)]
  /\ expired' = [expired EXCEPT ![k] = IF Usable(k) = {} THEN 0 ELSE @]

StartCheckout(r) ==
  /\ pc[r] = "start"
  /\ alive
  /\ LockFree
  /\ PopIdle(key[r])
  /\ pc' = [pc EXCEPT ![r] = "checkout"]
  /\ UNCHANGED <<alive, lock, box, own, reqVars, connVars>>

CheckoutIdleAndWait(r) ==    (* mutant: the sender is queued before the pop *)
  /\ StartCheckout(r)
  /\ Popped(key[r]) # NONE
  /\ raw' = [raw EXCEPT ![r] = Popped(key[r])]
  /\ inner' = [inner EXCEPT ![r] = "Connected"]
  /\ rx' = [rx EXCEPT ![r] = "hungup"]
  /\ waiting' = [waiting EXCEPT ![key[r]] = Append(@, r)]
  /\ UNCHANGED connecting

(* An idle connection is taken out of the pool, and the sender is dropped. *)
CheckoutIdle(r) ==
  /\ StartCheckout(r)
  /\ Popped(key[r]) # NONE
  /\ raw' = [raw EXCEPT ![r] = Popped(key[r])]
  /\ inner' = [inner EXCEPT ![r] = "Connected"]
  /\ rx' = [rx EXCEPT ![r] = "hungup"]
  /\ UNCHANGED <<connecting, waiting>>

JoinWaiters(r) ==
  /\ Popped(key[r]) = NONE
  /\ waiting' = [waiting EXCEPT ![key[r]] = Append(@, r)]
  /\ rx' = [rx EXCEPT ![r] = "open"]
  /\ raw' = raw

(* A connection to the host is in progress: keep no connector, only wait.  *)
CheckoutWait(r) ==
  /\ StartCheckout(r)
  /\ JoinWaiters(r)
  /\ key[r] \in connecting
  /\ inner' = [inner EXCEPT ![r] = "Waiting"]
  /\ UNCHANGED connecting

(* Connect, and hold other requests back only if they could multiplex.     *)
CheckoutConnect(r) ==
  /\ StartCheckout(r)
  /\ JoinWaiters(r)
  /\ key[r] \notin connecting
  /\ inner' = [inner EXCEPT ![r] = "Connecting"]
  /\ connecting' = IF Multiplex(r) THEN connecting \cup {key[r]} ELSE connecting
-----------------------------------------------------------------------------
(* Checkout::poll                                                          *)

(* The future ends: it returns p or an error, and will be dropped next.    *)
Resolve(r, p) ==
  /\ pc' = [pc EXCEPT ![r] = "drop"]
  /\ own' = [own EXCEPT ![r] = p]

(* poll_waiter: another request's connection arrived.                      *)
PollDelivered(r) ==
  /\ pc[r] = "checkout"
  /\ rx[r] = "full"
  /\ Resolve(r, box[r])
  /\ box' = [box EXCEPT ![r] = Nothing]
  /\ rx' = [rx EXCEPT ![r] = "hungup"]
  /\ UNCHANGED <<poolVars, reqVars, inner, raw, connVars>>

(* poll_waiter: the sender is gone and there is no connector to fall back  *)
(* on: Error::Unavailable.                                                 *)
PollUnavailable(r) ==
  /\ pc[r] = "checkout"
  /\ inner[r] = "Waiting"
  /\ rx[r] = "hungup"
  /\ Resolve(r, Nothing)
  /\ UNCHANGED <<poolVars, reqVars, inner, rx, box, raw, connVars>>

(* The transport is up.  If ALPN chose HTTP/2 the pool is told that other  *)
(* requests may wait for this handshake.  The protocol is the one          *)
(* HttpConnectionBuilder::handshake will speak.                            *)
PollTransport(r) ==
  /\ pc[r] = "checkout"
  /\ inner[r] = "Connecting"
  /\ \E alpn \in Alpn :
       /\ alpn /\ alive => LockFree
       /\ connecting' = IF alpn /\ alive THEN connecting \cup {key[r]}
                                         ELSE connecting
       /\ kind' = [kind EXCEPT ![r] = IF alpn \/ Multiplex(r) THEN "h2" ELSE "h1"]
  /\ inner' = [inner EXCEPT ![r] = "Handshaking"]
  /\ UNCHANGED <<alive, waiting, idle, expired, lock, pc, reqVars, rx, box, raw,
                 own, st>>

(* Error::Connecting or Error::Handshaking.                                *)
PollFails(r) ==
  /\ pc[r] = "checkout"
  /\ inner[r] \in {"Connecting", "Handshaking"}
  /\ Resolve(r, Nothing)
  /\ UNCHANGED <<poolVars, reqVars, inner, rx, box, raw, connVars>>

(* push() starts: the host is no longer connecting, the mutex is held.     *)
BeginPush(r, c) ==
  /\ LockFree
  /\ connecting' = connecting \ {key[r]}
  /\ lock' = Walk(r, c)
  /\ UNCHANGED <<alive, waiting, idle, expired>>

(* Checkout::connected: a connection that can be cloned goes to the pool,  *)
(* and the request keeps a clone; any other is the request's own.          *)
Connected(r, c, shares) ==
  \/ /\ alive /\ shares
     /\ BeginPush(r, c)
     /\ pc' = [pc EXCEPT ![r] = "push"]
     /\ own' = [own EXCEPT ![r] = [conn |-> c, reused |-> TRUE]]
  \/ /\ ~(alive /\ shares)
     /\ alive => LockFree
     /\ Resolve(r, [conn |-> c, reused |-> FALSE])
     /\ UNCHANGED poolVars

(* The handshake is done.  A fresh HTTP/1 connection is not ready until    *)
(* its driver task has run.                                                *)
PollHandshake(r) ==
  /\ pc[r] = "checkout"
  /\ inner[r] = "Handshaking"
  /\ st' = [st EXCEPT ![r] = IF Shares(r) THEN "ready" ELSE "busy"]
  /\ Connected(r, r, Shares(r))
  /\ UNCHANGED <<reqVars, inner, rx, box, raw, kind>>

PollConnected(r) ==
  /\ pc[r] = "checkout"
  /\ inner[r] = "Connected"
  /\ Connected(r, raw[r], Shares(raw[r]))
  /\ raw' = [raw EXCEPT ![r] = NONE]
  /\ UNCHANGED <<reqVars, inner, rx, box, connVars>>
-----------------------------------------------------------------------------
(* Dropping a Checkout                                                     *)

(* The caller drops the response future while it is still checking out.    *)
CancelCheckout(r) ==
  /\ pc[r] = "checkout"
  /\ Resolve(r, Nothing)
  /\ UNCHANGED <<poolVars, reqVars, inner, rx, box, raw, connVars>>

DropCheckoutKeepsMark(r) ==  (* mutant: cancel_connection is not called *)
  /\ pc[r] = "drop"
  /\ pc' = [pc EXCEPT ![r] = "fields"]
  /\ UNCHANGED <<poolVars, reqVars, inner, rx, box, raw, own, connVars>>

(* PinnedDrop: whatever this Checkout was doing, the host is no longer     *)
(* marked as connecting.                                                   *)
DropCheckout(r) ==
  /\ pc[r] = "drop"
  /\ alive => LockFree
  /\ connecting' = connecting \ {key[r]}
  /\ pc' = [pc EXCEPT ![r] = "fields"]
  /\ UNCHANGED <<alive, waiting, idle, expired, lock, reqVars, inner, rx, box,
                 raw, own, connVars>>

(* What the request does once its Checkout is gone.                        *)
Onward(r) == IF own[r].conn # NONE THEN "request" ELSE "done"

GivesBackClones(p) ==        (* mutant: is_reused is not looked at *)
  p.conn # NONE /\ IsOpen(p.conn)

GivesBackBusy(p) ==          (* mutant: is_open() is not asked *)
  p.conn # NONE /\ ~p.reused /\ st[p.conn] # "closed"

GivesBackClosed(p) ==        (* mutant: is_open() does not see the close *)
  p.conn # NONE /\ ~p.reused /\ st[p.conn] # "busy"

GivesBackNothing(p) ==       (* mutant: is_reused is read the wrong way *)
  p.conn # NONE /\ p.reused /\ IsOpen(p.conn)

(* Pooled::drop gives an open connection back unless it is a clone.        *)
GivesBack(p) == p.conn # NONE /\ ~p.reused /\ IsOpen(p.conn)

(* Then its fields, outside the mutex: the receiver closes, and a Pooled   *)
(* that was delivered but never taken is dropped with it.                  *)
DropFields(r) ==
  /\ pc[r] = "fields"
  /\ inner' = [inner EXCEPT ![r] = "Dropped"]
  /\ rx' = [rx EXCEPT ![r] = "dead"]
  /\ box' = [box EXCEPT ![r] = Nothing]
  /\ raw' = [raw EXCEPT ![r] = IF GivesBack(box[r]) THEN box[r].conn ELSE NONE]
  /\ pc' = [pc EXCEPT ![r] = IF GivesBack(box[r]) THEN "return" ELSE Onward(r)]
  /\ UNCHANGED <<poolVars, reqVars, own, connVars>>
-----------------------------------------------------------------------------
(* PoolInner::push                                                         *)

(* Pooled::drop, past is_open(): push the connection if there is a pool.   *)
ReturnToPool(r) ==
  /\ pc[r] = "return"
  /\ raw' = [raw EXCEPT ![r] = NONE]
  /\ \/ /\ alive
        /\ BeginPush(r, raw[r])
        /\ pc' = [pc EXCEPT ![r] = "push"]
     \/ /\ ~alive
        /\ pc' = [pc EXCEPT ![r] = Onward(r)]
        /\ UNCHANGED poolVars
  /\ UNCHANGED <<reqVars, inner, rx, box, own, connVars>>

(* Where the thread goes when push() returns: out of Checkout::connected,  *)
(* or out of Pooled::drop.                                                 *)
AfterPush(r) == IF inner[r] # "Dropped" THEN "drop" ELSE Onward(r)

EndPush(r) ==
  /\ lock' = Free
  /\ pc' = [pc EXCEPT ![r] = AfterPush(r)]

WalkOnce(r) ==               (* mutant: push() stops after one delivery *)
  EndPush(r)

(* push() goes on to the next waiter.                                      *)
WalkOn(r) ==
  /\ lock' = Walk(r, lock.conn)
  /\ pc' = pc

(* Take the next waiter off the queue, and skip it if it is closed.        *)
PushNext(r) ==
  /\ lock.at = "walk" /\ lock.by = r
  /\ waiting[key[r]] # <<>>
  /\ LET w == Head(waiting[key[r]]) IN
       lock' = IF rx[w] = "dead" THEN lock ELSE Send(r, lock.conn, w)
  /\ waiting' = [waiting EXCEPT ![key[r]] = Tail(@)]
  /\ UNCHANGED <<alive, connecting, idle, expired, pc, reqVars, inner, rx, box,
                 raw, own, connVars>>

(* The receiver is still there: a clone is sent and the walk goes on, or   *)
(* the connection itself is sent and push() returns.                       *)
PushSend(r) ==
  /\ lock.at = "send" /\ lock.by = r
  /\ rx[lock.to] # "dead"
  /\ box' = [box EXCEPT ![lock.to] =
               [conn |-> lock.conn, reused |-> Shares(lock.conn)]]
  /\ rx' = [rx EXCEPT ![lock.to] = "full"]
  /\ IF Shares(lock.conn) THEN WalkOn(r) ELSE EndPush(r)
  /\ UNCHANGED <<alive, connecting, waiting, idle, expired, reqVars, inner, raw,
                 own, connVars>>

(* The receiver was dropped after is_closed(): send() gives the Pooled     *)
(* back and it is dropped here, with the mutex held.  A clone, or a closed *)
(* connection, just goes away.  An open one is given back to the pool, and *)
(* its drop locks the mutex its own thread is holding.                     *)
PushSendFails(r) ==
  /\ lock.at = "send" /\ lock.by = r
  /\ rx[lock.to] = "dead"
  /\ \/ Shares(lock.conn) /\ WalkOn(r)
     \/ ~Shares(lock.conn) /\ ~IsOpen(lock.conn) /\ EndPush(r)
     \/ /\ ~Shares(lock.conn) /\ IsOpen(lock.conn)
        /\ lock' = Stuck(r, lock.conn)
        /\ pc' = [pc EXCEPT ![r] = "stuck"]
  /\ UNCHANGED <<alive, connecting, waiting, idle, expired, reqVars, inner, rx,
                 box, raw, own, connVars>>

PushIdleAnyHost(r) ==        (* mutant: the idle list is not the key's *)
  /\ lock.at = "walk" /\ lock.by = r
  /\ waiting[key[r]] = <<>>
  /\ \E k \in Keys : idle' = [idle EXCEPT ![k] = Append(@, lock.conn)]
  /\ EndPush(r)
  /\ UNCHANGED <<alive, connecting, waiting, expired, reqVars, inner, rx, box,
                 raw, own, connVars>>

(* No waiter took it: the connection becomes idle.                         *)
PushIdle(r) ==
  /\ lock.at = "walk" /\ lock.by = r
  /\ waiting[key[r]] = <<>>
  /\ idle' = [idle EXCEPT ![key[r]] = Append(@, lock.conn)]
  /\ EndPush(r)
  /\ UNCHANGED <<alive, connecting, waiting, expired, reqVars, inner, rx, box,
                 raw, own, connVars>>
-----------------------------------------------------------------------------
(* The request: execute_request and the Pooled it holds                    *)

(* Pooled::drop, up to the mutex.                                          *)
Release(r) ==
  /\ own' = [own EXCEPT ![r] = Nothing]
  /\ raw' = [raw EXCEPT ![r] = IF GivesBack(own[r]) THEN own[r].conn ELSE NONE]
  /\ pc' = [pc EXCEPT ![r] = IF GivesBack(own[r]) THEN "return" ELSE "done"]

(* prepare_request refuses to send an HTTP/2 request on HTTP/1.1.          *)
Refused(r) == kind[own[r].conn] = "h1" /\ Multiplex(r)

RefuseRequest(r) ==
  /\ pc[r] = "request"
  /\ Refused(r)
  /\ Release(r)
  /\ UNCHANGED <<poolVars, reqVars, inner, rx, box, connVars>>

SendRequest(r) ==
  /\ pc[r] = "request"
  /\ ~Refused(r)
  /\ st' = [st EXCEPT ![own[r].conn] =
              IF kind[own[r].conn] = "h1" /\ @ = "ready" THEN "busy" ELSE @]
  /\ pc' = [pc EXCEPT ![r] = "sending"]
  /\ UNCHANGED <<poolVars, reqVars, inner, rx, box, raw, own, kind>>

(* The response arrived.  A shared connection is dropped; any other moves  *)
(* to a task that drops it once it is ready again.                         *)
Respond(r) ==
  /\ pc[r] = "sending"
  /\ st[own[r].conn] # "closed"
  /\ IF Shares(own[r].conn)
       THEN Release(r)
       ELSE pc' = [pc EXCEPT ![r] = "wait_ready"] /\ UNCHANGED <<raw, own>>
  /\ UNCHANGED <<poolVars, reqVars, inner, rx, box, connVars>>

(* The connection broke under the request.                                 *)
SendFails(r) ==
  /\ pc[r] = "sending"
  /\ st[own[r].conn] = "closed"
  /\ Release(r)
  /\ UNCHANGED <<poolVars, reqVars, inner, rx, box, connVars>>

(* The caller drops the response future.                                   *)
CancelRequest(r) ==
  /\ pc[r] \in {"request", "sending"}
  /\ Release(r)
  /\ UNCHANGED <<poolVars, reqVars, inner, rx, box, connVars>>

WhenReadyOnly(r) ==          (* mutant: the task ignores a broken connection *)
  /\ pc[r] = "wait_ready"
  /\ st[own[r].conn] = "ready"
  /\ Release(r)
  /\ UNCHANGED <<poolVars, reqVars, inner, rx, box, connVars>>

(* The task behind execute_request: when_ready resolved, drop the Pooled.  *)
WhenReady(r) ==
  /\ pc[r] = "wait_ready"
  /\ st[own[r].conn] \in {"ready", "closed"}
  /\ Release(r)
  /\ UNCHANGED <<poolVars, reqVars, inner, rx, box, connVars>>
-----------------------------------------------------------------------------
(* The environment                                                         *)

(* Some handle of the connection exists.  hyper's connection task ends     *)
(* with the last one, and nobody asks for the state of such a connection.  *)
Referenced(c) ==
  \/ \E r \in Reqs : c \in {own[r].conn, box[r].conn, raw[r]}
  \/ \E k \in Keys : c \in Range(idle[k])
  \/ lock.conn = c

(* hyper's connection task: the HTTP/1 exchange is over.                   *)
ConnReady(c) ==
  /\ st[c] = "busy"
  /\ Referenced(c)
  /\ \A r \in Reqs : ~(pc[r] = "sending" /\ own[r].conn = c)
  /\ st' = [st EXCEPT ![c] = "ready"]
  /\ UNCHANGED <<poolVars, pc, reqVars, inner, rx, box, raw, own, kind>>

ConnCloses(c) ==
  /\ st[c] \in {"busy", "ready"}
  /\ Referenced(c)
  /\ st' = [st EXCEPT ![c] = "closed"]
  /\ UNCHANGED <<poolVars, pc, reqVars, inner, rx, box, raw, own, kind>>

(* Time passes: entries are pushed in the order of their Instant, so they  *)
(* expire from the bottom of the stack up.                                 *)
Expire(k) ==
  /\ expired[k] < Len(idle[k])
  /\ expired' = [expired EXCEPT ![k] = @ + 1]
  /\ UNCHANGED <<alive, connecting, waiting, idle, lock, pc, reqVars, inner, rx,
                 box, raw, own, connVars>>

DropPoolKeepsSenders ==      (* mutant: somebody keeps the senders alive *)
  /\ alive
  /\ LockFree
  /\ alive' = FALSE
  /\ connecting' = {}
  /\ idle' = [k \in Keys |-> <<>>]
  /\ expired' = [k \in Keys |-> 0]
  /\ UNCHANGED <<waiting, lock, pc, reqVars, inner, rx, box, raw, own, connVars>>

(* The last Pool handle goes away: its idle connections and its senders    *)
(* are dropped, while checkouts and guards only hold weak references.      *)
DropPool ==
  /\ alive
  /\ LockFree
  /\ alive' = FALSE
  /\ connecting' = {}
  /\ waiting' = [k \in Keys |-> <<>>]
  /\ idle' = [k \in Keys |-> <<>>]
  /\ expired' = [k \in Keys |-> 0]
  /\ rx' = [r \in Reqs |-> IF rx[r] = "open" THEN "hungup" ELSE rx[r]]
  /\ UNCHANGED <<lock, pc, reqVars, inner, box, raw, own, connVars>>
-----------------------------------------------------------------------------
Next ==
  \/ \E r \in Reqs :
       \/ CheckoutIdle(r) \/ CheckoutWait(r) \/ CheckoutConnect(r)
       \/ PollDelivered(r) \/ PollUnavailable(r) \/ PollTransport(r)
       \/ PollFails(r) \/ PollHandshake(r) \/ PollConnected(r)
       \/ CancelCheckout(r) \/ DropCheckout(r) \/ DropFields(r)
       \/ ReturnToPool(r) \/ PushNext(r) \/ PushSend(r) \/ PushSendFails(r)
       \/ PushIdle(r)
       \/ RefuseRequest(r) \/ SendRequest(r) \/ Respond(r) \/ SendFails(r)
       \/ CancelRequest(r) \/ WhenReady(r)
  \/ \E c \in Conns : ConnReady(c) \/ ConnCloses(c)
  \/ \E k \in Keys : Expire(k)
  \/ DropPool

Spec == Init /\ [][Next]_vars

(* What the code's scheduling justifies: a woken future is polled again, a *)
(* thread at a mutex or inside push() gets to run, a connector, a server   *)
(* or a connection task finishes one way or the other.  Callers need not   *)
(* start or cancel anything, connections need not close, nor time pass.    *)
Progress(r) ==
  \/ PollDelivered(r) \/ PollUnavailable(r) \/ PollTransport(r) \/ PollFails(r)
  \/ PollHandshake(r) \/ PollConnected(r)
  \/ DropCheckout(r) \/ DropFields(r) \/ ReturnToPool(r)
  \/ PushNext(r) \/ PushSend(r) \/ PushSendFails(r) \/ PushIdle(r)
  \/ RefuseRequest(r) \/ SendRequest(r) \/ Respond(r) \/ SendFails(r)
  \/ WhenReady(r)

Fairness ==
  /\ \A r \in Reqs : WF_vars(Progress(r))
  /\ \A c \in Conns : WF_vars(ConnReady(c))

FairSpec == Spec /\ Fairness
=============================================================================
